------------------------------- MODULE Bridge -------------------------------
(***************************************************************************)
(* The host side of poopilot between its terminals and its peers: the      *)
(* session manager, the approval detector they share, one bridge per peer  *)
(* and peerManager.newOffer, which replaces peer and bridge on reconnect.  *)
(*                                                                         *)
(* Threads: readLoop and waitLoop of each session; per bridge, the handler *)
(* of its data channel (messages are handled one at a time) and the        *)
(* goroutine that announces the sessions on connect; newOffer under pm.mu. *)
(* One action is what one of them does between two points where another    *)
(* can interfere, that is under one lock or up to one call.                *)
(*                                                                         *)
(* Scrollback, plain output and the layout of messages are left out here;  *)
(* a chunk of output is a line that asks for approval.  Bridges are        *)
(* numbered in the order newOffer creates them, 0 is nil.                  *)
(***************************************************************************)
EXTENDS Detector, FiniteSets, Functions

CONSTANTS Sessions,     \* session ids
          First,        \* the session runCommand creates
          MaxSessions,  \* m.maxSessions
          Tries,        \* attempts to announce the sessions (10 in Start)
          InputCap,     \* answers a terminal holds before a Write blocks
          MaxOffers,    \* bound: bridges created
          MaxAsks,      \* bound: prompts shown
          MaxMsgs       \* bound: create and close messages of the phones

ASSUME BridgeAssumption ==
  /\ First \in Sessions /\ IsFiniteSet(Sessions)
  /\ {MaxSessions, Tries, InputCap, MaxOffers, MaxAsks, MaxMsgs} \subseteq Nat
  /\ MaxSessions > 0

Bridges == 1 .. MaxOffers
Nil == 0

VARIABLES
  \* pty.Manager and its sessions
  managed,     \* keys of m.sessions
  status,      \* s.Status, "none" before the session exists
  alive,       \* sessions whose process runs
  onOutputs,   \* s.onOutputs, a callback being its bridge
  onExit,      \* s.onExit
  \* the terminals
  asks,        \* history: the prompts shown, [sess, text], in order
  asking,      \* the prompt each process waits at, an index of asks, 0 if none
  screen,      \* prompts printed and not yet read, per session
  input,       \* answers written and not yet read, per session
  \* readLoop and waitLoop
  reader,      \* [at, ask, req, todo]: the callback being run, todo[1]
  waiter,      \* [at, to, list]: the exit callback
  \* approval.Detector
  seen,
  \* bridge.Bridge and rtc.Peer
  conn,        \* b.peer: "none", "new", "ice", "open", "lost" or "closed"
  streams,     \* keys of b.streams: sessions whose callback is not cancelled
  pending,     \* keys of b.pendingApprovals, indices of reqs
  reqs,        \* history: approval requests made, [bridge, sess, ask]
  handler,     \* [op, sess, req, list]: the message being handled
  announcer,   \* [at, left, list]
  msgs,        \* create and close messages handled, for the bound
  \* peerManager
  peer,        \* pm.peer and pm.br
  offer,       \* newOffer: "idle", "making" or "attach"
  toAttach,    \* what is left of its List
  \* the phones
  cards,       \* requests each connection brought to its phone
  shown,       \* the session list each phone was last sent
  \* history
  answers      \* approvals written to a terminal, [req, sess], in order

mgrVars   == <<managed, status, alive>>
cbVars    == <<onOutputs, onExit>>
termVars  == <<asks, asking, screen, input>>
appVars   == <<seen, pending, reqs, cards, answers>>
bridgeVarsExceptHandler == <<conn, streams, announcer, msgs, shown>>
bridgeVars == <<bridgeVarsExceptHandler, handler>>
offerVars == <<peer, offer, toAttach>>
vars == <<mgrVars, cbVars, termVars, reader, waiter, appVars, bridgeVars, offerVars>>

\* What m.List() returns: each session with its status.
List == [s \in managed |-> status[s]]
NoList == << >>

Idle == [op |-> "idle", sess |-> First, req |-> 0, list |-> NoList]
Resting == [at |-> "rest", ask |-> 0, req |-> 0, todo |-> << >>]
Waiting == [at |-> "wait", to |-> Nil, list |-> NoList]
Quiet == [at |-> "off", left |-> 0, list |-> NoList]

Statuses == {"none", "running", "exited"}
Lists == UNION {[S -> Statuses] : S \in SUBSET Sessions}

Requests == [bridge : Bridges, sess : Sessions, ask : 1 .. Len(asks)]
ReaderSteps == {"rest", "check", "scan", "ask", "send"}
HandlerSteps == {"idle", "answer", "type", "create", "attach", "close", "list", "send"}

SessionTypes ==
  /\ managed \subseteq Sessions
  /\ status \in [Sessions -> Statuses]
  /\ alive \subseteq Sessions
  /\ onOutputs \in [Sessions -> Seq(Bridges)]
  /\ onExit \in [Sessions -> Bridges \union {Nil}]
  /\ waiter \in [Sessions -> [at : {"wait", "list", "send", "done"},
                              to : Bridges \union {Nil}, list : Lists]]
TerminalTypes ==
  /\ asks \in Seq([sess : Sessions, text : Prompts]) /\ Len(asks) <= MaxAsks
  /\ asking \in [Sessions -> 0 .. Len(asks)]
  /\ screen \in [Sessions -> Seq(1 .. Len(asks))]
ReaderTypes ==
  reader \in [Sessions -> [at : ReaderSteps, ask : 0 .. Len(asks),
                           req : 0 .. Len(reqs), todo : Seq(Bridges)]]
RequestTypes ==
  /\ seen \subseteq Prompts
  /\ reqs \in Seq(Requests)
  /\ pending \in [Bridges -> SUBSET (1 .. Len(reqs))]
  /\ cards \in [Bridges -> SUBSET (1 .. Len(reqs))]
  /\ answers \in Seq([req : 1 .. Len(reqs), sess : Sessions])
  /\ input \in [Sessions -> Seq(0 .. Len(reqs))]
HandlerTypes ==
  handler \in [Bridges -> [op : HandlerSteps, sess : Sessions, req : 0 .. Len(reqs),
                           list : Lists]]
PeerTypes ==
  /\ conn \in [Bridges -> {"none", "new", "ice", "open", "lost", "closed"}]
  /\ streams \in [Bridges -> SUBSET Sessions]
  /\ announcer \in [Bridges -> [at : {"off", "sleep", "send", "end"},
                                left : 0 .. Tries, list : Lists]]
  /\ msgs \in 0 .. MaxMsgs
  /\ shown \in [Bridges -> Lists]
  /\ peer \in Bridges \union {Nil}
  /\ offer \in {"idle", "making", "attach"}
  /\ toAttach \subseteq Sessions

TypeOK == /\ SessionTypes /\ TerminalTypes /\ ReaderTypes
          /\ RequestTypes /\ HandlerTypes /\ PeerTypes

\* The state runCommand is in when it first calls newOffer: one session, no peer.
Init ==
  /\ managed = {First} /\ alive = {First}
  /\ status = [s \in Sessions |-> IF s = First THEN "running" ELSE "none"]
  /\ onOutputs = [s \in Sessions |-> << >>]
  /\ onExit = [s \in Sessions |-> Nil]
  /\ asks = << >> /\ asking = [s \in Sessions |-> 0]
  /\ screen = [s \in Sessions |-> << >>]
  /\ input = [s \in Sessions |-> << >>]
  /\ reader = [s \in Sessions |-> Resting]
  /\ waiter = [s \in Sessions |-> Waiting]
  /\ seen = {}
  /\ conn = [b \in Bridges |-> "none"]
  /\ streams = [b \in Bridges |-> {}]
  /\ pending = [b \in Bridges |-> {}]
  /\ reqs = << >> /\ answers = << >>
  /\ handler = [b \in Bridges |-> Idle]
  /\ announcer = [b \in Bridges |-> Quiet]
  /\ msgs = 0
  /\ peer = Nil /\ offer = "idle" /\ toAttach = {}
  /\ cards = [b \in Bridges |-> {}]
  /\ shown = [b \in Bridges |-> NoList]

(***************************************************************************)
(* rtc.Peer.Send.  It fails until the channel is open and after Close; on  *)
(* a connection that is lost but not closed it succeeds and nobody reads.  *)
(***************************************************************************)

SendOk(b) == conn[b] \in {"open", "lost"}
Arrives(b) == conn[b] = "open"

\* sendSessionList's second half: the list read before goes out.
SendList(b, list) ==
  shown' = IF b # Nil /\ Arrives(b) THEN [shown EXCEPT ![b] = list] ELSE shown

(***************************************************************************)
(* The programs in the terminals and the person at the host.               *)
(***************************************************************************)

\* A program asks and waits for the answer.
Show(s) ==
  /\ s \in alive /\ asking[s] = 0 /\ Len(asks) < MaxAsks
  /\ \E t \in Prompts : asks' = Append(asks, [sess |-> s, text |-> t])
  /\ asking' = [asking EXCEPT ![s] = Len(asks) + 1]
  /\ screen' = [screen EXCEPT ![s] = Append(@, Len(asks) + 1)]
  /\ UNCHANGED <<mgrVars, cbVars, input, reader, waiter, appVars, bridgeVars, offerVars>>

\* It draws the same prompt again (once per read: a bound).
Redraw(s) ==
  /\ s \in alive /\ asking[s] # 0 /\ screen[s] = << >>
  /\ screen' = [screen EXCEPT ![s] = Append(@, asking[s])]
  /\ UNCHANGED <<mgrVars, cbVars, asks, asking, input, reader, waiter, appVars,
                 bridgeVars, offerVars>>

\* It reads an answer, whoever wrote it and whenever.
Consume(s) ==
  /\ s \in alive /\ asking[s] # 0 /\ input[s] # << >>
  /\ asking' = [asking EXCEPT ![s] = 0]
  /\ input' = [input EXCEPT ![s] = Tail(@)]
  /\ UNCHANGED <<mgrVars, cbVars, asks, screen, reader, waiter, appVars, bridgeVars,
                 offerVars>>

Leave(s) ==
  /\ s \in alive
  /\ alive' = alive \ {s}
  /\ UNCHANGED <<managed, status, cbVars, termVars, reader, waiter, appVars,
                 bridgeVars, offerVars>>

\* runCommand copies stdin to the first session.  The person answers a prompt
\* that is shown, once.
CanType(s) == s \in alive /\ asking[s] # 0 /\ 0 \notin Range(input[s])

Keyboard ==
  /\ CanType(First) /\ Len(input[First]) < InputCap
  /\ input' = [input EXCEPT ![First] = Append(@, 0)]
  /\ UNCHANGED <<mgrVars, cbVars, asks, asking, screen, reader, waiter, appVars,
                 bridgeVars, offerVars>>

(***************************************************************************)
(* readLoop and the callback AttachSession registered.                     *)
(***************************************************************************)

\* The callback of todo[1] returned: on to the next one, or to Read.
NextCallback(s) ==
  LET left == Tail(reader[s].todo)
  IN  reader' = [reader EXCEPT ![s] =
                   IF left = << >> THEN Resting
                   ELSE [at |-> "check", ask |-> @.ask, req |-> 0, todo |-> left]]

\* A chunk is read, and the callbacks of that moment are copied.
ReadChunk(s) ==
  /\ reader[s].at = "rest" /\ s \in managed /\ screen[s] # << >>
  /\ screen' = [screen EXCEPT ![s] = Tail(@)]
  /\ reader' = [reader EXCEPT ![s] =
                  IF onOutputs[s] = << >> THEN Resting
                  ELSE [at |-> "check", ask |-> Head(screen[s]), req |-> 0,
                        todo |-> onOutputs[s]]]
  /\ UNCHANGED <<mgrVars, cbVars, asks, asking, input, waiter, appVars, bridgeVars,
                 offerVars>>

\* case <-ctx.Done()
CheckCancelled(s) ==
  /\ reader[s].at = "check"
  /\ IF s \in streams[Head(reader[s].todo)]
     THEN reader' = [reader EXCEPT ![s].at = "scan"]
     ELSE NextCallback(s)
  /\ UNCHANGED <<mgrVars, cbVars, termVars, waiter, appVars, bridgeVars, offerVars>>

\* ScanChunk with a slip: what a bridge without a channel detects is not marked.
ScanChunkIfOpen(s) ==
  LET chunk == <<asks[reader[s].ask].text>>
  IN  /\ reader[s].at = "scan"
      /\ IF Scan(chunk, seen) # {}
         THEN reader' = [reader EXCEPT ![s].at = "ask"]
         ELSE NextCallback(s)
      /\ seen' = IF SendOk(Head(reader[s].todo)) THEN SeenAfter(chunk, seen) ELSE seen
      /\ UNCHANGED <<mgrVars, cbVars, termVars, waiter, pending, reqs, cards, answers,
                     bridgeVars, offerVars>>

\* b.detector.Scan(data).  Without a detection only the output itself is sent.
ScanChunk(s) ==
  LET chunk == <<asks[reader[s].ask].text>>
  IN  /\ reader[s].at = "scan"
      /\ IF Scan(chunk, seen) # {}
         THEN reader' = [reader EXCEPT ![s].at = "ask"]
         ELSE NextCallback(s)
      /\ seen' = SeenAfter(chunk, seen)
      /\ UNCHANGED <<mgrVars, cbVars, termVars, waiter, pending, reqs, cards, answers,
                     bridgeVars, offerVars>>

\* RecordRequest with slips: a request no channel is open for is not pending;
\* a second card has to wait for the first and is forgotten.
RecordRequestIfOpen(s) ==
  LET b == Head(reader[s].todo)
      r == Len(reqs) + 1
  IN  /\ reader[s].at = "ask"
      /\ reqs' = Append(reqs, [bridge |-> b, sess |-> s, ask |-> reader[s].ask])
      /\ pending' = IF SendOk(b) THEN [pending EXCEPT ![b] = @ \union {r}] ELSE pending
      /\ reader' = [reader EXCEPT ![s].at = "send", ![s].req = r]
      /\ UNCHANGED <<mgrVars, cbVars, termVars, waiter, seen, cards, answers,
                     bridgeVars, offerVars>>

RecordRequestOneCard(s) ==
  LET b == Head(reader[s].todo)
      r == Len(reqs) + 1
  IN  /\ reader[s].at = "ask"
      /\ IF pending[b] = {}
         THEN /\ reqs' = Append(reqs, [bridge |-> b, sess |-> s, ask |-> reader[s].ask])
              /\ pending' = [pending EXCEPT ![b] = @ \union {r}]
              /\ reader' = [reader EXCEPT ![s].at = "send", ![s].req = r]
         ELSE NextCallback(s) /\ UNCHANGED <<reqs, pending>>
      /\ UNCHANGED <<mgrVars, cbVars, termVars, waiter, seen, cards, answers,
                     bridgeVars, offerVars>>

\* sendApprovalRequest: the request is pending before it is sent ...
RecordRequest(s) ==
  LET b == Head(reader[s].todo)
      r == Len(reqs) + 1
  IN  /\ reader[s].at = "ask"
      /\ reqs' = Append(reqs, [bridge |-> b, sess |-> s, ask |-> reader[s].ask])
      /\ pending' = [pending EXCEPT ![b] = @ \union {r}]
      /\ reader' = [reader EXCEPT ![s].at = "send", ![s].req = r]
      /\ UNCHANGED <<mgrVars, cbVars, termVars, waiter, seen, cards, answers,
                     bridgeVars, offerVars>>

\* SendRequest with a slip: the id is drawn again for the message.
SendRequestNewId(s) ==
  LET b == Head(reader[s].todo)
  IN  /\ reader[s].at = "send"
      /\ cards' = IF Arrives(b) THEN [cards EXCEPT ![b] = @ \union {Len(reqs) + 1}]
                                ELSE cards
      /\ NextCallback(s)
      /\ UNCHANGED <<mgrVars, cbVars, termVars, waiter, seen, pending, reqs, answers,
                     bridgeVars, offerVars>>

\* ... and a failing Send is ignored.  The output follows.
SendRequest(s) ==
  LET b == Head(reader[s].todo)
  IN  /\ reader[s].at = "send"
      /\ cards' = IF Arrives(b) THEN [cards EXCEPT ![b] = @ \union {reader[s].req}]
                                ELSE cards
      /\ NextCallback(s)
      /\ UNCHANGED <<mgrVars, cbVars, termVars, waiter, seen, pending, reqs, answers,
                     bridgeVars, offerVars>>

ReadLoop(s) == \/ ReadChunk(s) \/ CheckCancelled(s) \/ ScanChunk(s)
               \/ RecordRequest(s) \/ SendRequest(s)

(***************************************************************************)
(* waitLoop and the exit callback, which sends the session list.           *)
(***************************************************************************)

\* MarkExited with a slip: the callback lists before the status is set.
MarkExitedAfterList(s) ==
  /\ waiter[s].at = "wait" /\ status[s] = "running" /\ s \notin alive
  /\ status' = [status EXCEPT ![s] = "exited"]
  /\ waiter' = [waiter EXCEPT ![s] =
                  [at |-> IF onExit[s] = Nil THEN "done" ELSE "send",
                   to |-> onExit[s], list |-> List]]
  /\ UNCHANGED <<managed, alive, cbVars, termVars, reader, appVars, bridgeVars, offerVars>>

MarkExited(s) ==
  /\ waiter[s].at = "wait" /\ status[s] = "running" /\ s \notin alive
  /\ status' = [status EXCEPT ![s] = "exited"]
  /\ waiter' = [waiter EXCEPT ![s] =
                  [at |-> IF onExit[s] = Nil THEN "done" ELSE "list",
                   to |-> onExit[s], list |-> NoList]]
  /\ UNCHANGED <<managed, alive, cbVars, termVars, reader, appVars, bridgeVars, offerVars>>

ExitList(s) ==
  /\ waiter[s].at = "list"
  /\ waiter' = [waiter EXCEPT ![s].at = "send", ![s].list = List]
  /\ UNCHANGED <<mgrVars, cbVars, termVars, reader, appVars, bridgeVars, offerVars>>

ExitSend(s) ==
  /\ waiter[s].at = "send"
  /\ SendList(waiter[s].to, waiter[s].list)
  /\ waiter' = [waiter EXCEPT ![s].at = "done", ![s].list = NoList]
  /\ UNCHANGED <<mgrVars, cbVars, termVars, reader, appVars, conn, streams, handler,
                 announcer, msgs, offerVars>>

WaitLoop(s) == MarkExited(s) \/ ExitList(s) \/ ExitSend(s)

(***************************************************************************)
(* AttachSession and DetachSession.  Attach checks the streams, enters the *)
(* session and registers the callbacks under a lock each; the second never *)
(* runs twice at once for a bridge, and Session interleaves the rest.      *)
(***************************************************************************)

Attach(b, s) ==
  IF s \in managed /\ s \notin streams[b]
  THEN /\ streams' = [streams EXCEPT ![b] = @ \union {s}]
       /\ onOutputs' = [onOutputs EXCEPT ![s] = Append(@, b)]
       /\ onExit' = [onExit EXCEPT ![s] = b]
  ELSE UNCHANGED <<streams, cbVars>>

Detach(b, s) == streams' = [streams EXCEPT ![b] = @ \ {s}]

(***************************************************************************)
(* The handler of bridge b's channel.                                      *)
(***************************************************************************)

CanReceive(b) == handler[b].op = "idle" /\ Arrives(b)

\* ApprovalResponse with a slip: the request is looked up and not removed.
ApprovalResponseKeeps(b, r) ==
  /\ CanReceive(b) /\ r \in cards[b] /\ r \in pending[b]
  /\ handler' = [handler EXCEPT ![b] = [op |-> "answer", sess |-> reqs[r].sess,
                                        req |-> r, list |-> NoList]]
  /\ UNCHANGED <<mgrVars, cbVars, termVars, reader, waiter, appVars,
                 conn, streams, announcer, msgs, shown, offerVars>>

\* handleApprovalResponse: the request is looked up and removed under
\* approvalMu.  The phone may repeat itself; an unknown id changes nothing.
ApprovalResponse(b, r) ==
  /\ CanReceive(b) /\ r \in cards[b] /\ r \in pending[b]
  /\ pending' = [pending EXCEPT ![b] = @ \ {r}]
  /\ handler' = [handler EXCEPT ![b] = [op |-> "answer", sess |-> reqs[r].sess,
                                        req |-> r, list |-> NoList]]
  /\ UNCHANGED <<mgrVars, cbVars, termVars, reader, waiter, seen, reqs, cards, answers,
                 conn, streams, announcer, msgs, shown, offerVars>>

\* handleTermInput, with the answer to a prompt shown.
TermInput(b, s) ==
  /\ CanReceive(b) /\ CanType(s)
  /\ handler' = [handler EXCEPT ![b] = [op |-> "type", sess |-> s, req |-> 0,
                                        list |-> NoList]]
  /\ UNCHANGED <<mgrVars, cbVars, termVars, reader, waiter, appVars,
                 conn, streams, announcer, msgs, shown, offerVars>>

\* Both end in Get and sess.Write, which blocks while the terminal is full.
\* A session that is gone, or whose process is, takes nothing.
WriteInput(b) ==
  LET h == handler[b]
  IN  /\ h.op \in {"answer", "type"}
      /\ IF h.sess \in managed \cap alive
         THEN /\ Len(input[h.sess]) < InputCap
              /\ input' = [input EXCEPT ![h.sess] = Append(@, h.req)]
              /\ answers' = IF h.op = "answer"
                            THEN Append(answers, [req |-> h.req, sess |-> h.sess])
                            ELSE answers
         ELSE UNCHANGED <<input, answers>>
      /\ handler' = [handler EXCEPT ![b] = Idle]
      /\ UNCHANGED <<mgrVars, cbVars, asks, asking, screen, reader, waiter, seen, pending,
                     reqs, cards, conn, streams, announcer, msgs, shown, offerVars>>

\* handleSessionCreate: the message is taken from the channel, which may be
\* closed before the handler is through with it ...
SessionCreate(b) ==
  /\ CanReceive(b) /\ msgs < MaxMsgs
  /\ handler' = [handler EXCEPT ![b] = [Idle EXCEPT !.op = "create"]]
  /\ msgs' = msgs + 1
  /\ UNCHANGED <<mgrVars, cbVars, termVars, reader, waiter, appVars, conn, streams,
                 announcer, shown, offerVars>>

\* Create with a slip: the limit is compared with <=.
CreateOverLimit(b) ==
  /\ handler[b].op = "create" /\ Cardinality(managed) <= MaxSessions
  /\ \E s \in Sessions :
       /\ status[s] = "none"
       /\ managed' = managed \union {s} /\ alive' = alive \union {s}
       /\ status' = [status EXCEPT ![s] = "running"]
       /\ handler' = [handler EXCEPT ![b].op = "attach", ![b].sess = s]
  /\ UNCHANGED <<cbVars, termVars, reader, waiter, appVars, bridgeVarsExceptHandler,
                 offerVars>>

\* ... Manager.Create, under m.mu, starts and enters a new session ...
Create(b) ==
  /\ handler[b].op = "create" /\ Cardinality(managed) < MaxSessions
  /\ \E s \in Sessions :
       /\ status[s] = "none"
       /\ managed' = managed \union {s} /\ alive' = alive \union {s}
       /\ status' = [status EXCEPT ![s] = "running"]
       /\ handler' = [handler EXCEPT ![b].op = "attach", ![b].sess = s]
  /\ UNCHANGED <<cbVars, termVars, reader, waiter, appVars, bridgeVarsExceptHandler,
                 offerVars>>

\* ... or refuses: the limit is reached or the program does not start.  The
\* phone is sent an error.
CreateFails(b) ==
  /\ handler[b].op = "create"
  /\ handler' = [handler EXCEPT ![b] = Idle]
  /\ UNCHANGED <<mgrVars, cbVars, termVars, reader, waiter, appVars,
                 bridgeVarsExceptHandler, offerVars>>

\* ... then AttachSession.
SessionCreated(b) ==
  /\ handler[b].op = "attach"
  /\ Attach(b, handler[b].sess)
  /\ handler' = [handler EXCEPT ![b].op = "list"]
  /\ UNCHANGED <<mgrVars, termVars, reader, waiter, appVars, conn, announcer, msgs,
                 shown, offerVars>>

\* handleSessionClose: DetachSession ...
SessionClose(b, s) ==
  /\ CanReceive(b) /\ msgs < MaxMsgs /\ status[s] # "none"
  /\ Detach(b, s)
  /\ handler' = [handler EXCEPT ![b] = [op |-> "close", sess |-> s, req |-> 0,
                                        list |-> NoList]]
  /\ msgs' = msgs + 1
  /\ UNCHANGED <<mgrVars, cbVars, termVars, reader, waiter, appVars, conn, announcer,
                 shown, offerVars>>

\* ... then Manager.Close, which kills the process, if the session is there.
SessionClosed(b) ==
  /\ handler[b].op = "close"
  /\ managed' = managed \ {handler[b].sess}
  /\ alive' = IF handler[b].sess \in managed THEN alive \ {handler[b].sess} ELSE alive
  /\ handler' = [handler EXCEPT ![b].op = "list"]
  /\ UNCHANGED <<status, cbVars, termVars, reader, waiter, appVars, conn, streams,
                 announcer, msgs, shown, offerVars>>

\* Both end in sendSessionList, which reads the list and then sends it.
HandlerList(b) ==
  /\ handler[b].op = "list"
  /\ handler' = [handler EXCEPT ![b].op = "send", ![b].list = List]
  /\ UNCHANGED <<mgrVars, cbVars, termVars, reader, waiter, appVars, conn, streams,
                 announcer, msgs, shown, offerVars>>

HandlerSend(b) ==
  /\ handler[b].op = "send"
  /\ SendList(b, handler[b].list)
  /\ handler' = [handler EXCEPT ![b] = Idle]
  /\ UNCHANGED <<mgrVars, cbVars, termVars, reader, waiter, appVars, conn, streams,
                 announcer, msgs, offerVars>>

Message(b) == \/ \E r \in cards[b] : ApprovalResponse(b, r)
              \/ \E s \in Sessions : TermInput(b, s) \/ SessionClose(b, s)
              \/ SessionCreate(b)
Handler(b) == \/ WriteInput(b) \/ Create(b) \/ CreateFails(b) \/ SessionCreated(b)
              \/ SessionClosed(b) \/ HandlerList(b) \/ HandlerSend(b)

(***************************************************************************)
(* The connection of bridge b and the goroutine Start spawns on connect.   *)
(***************************************************************************)

\* acceptAnswer took pm.peer under pm.mu, so newOffer is not at work; ICE
\* connects.
Connect(b) ==
  /\ b = peer /\ offer = "idle" /\ conn[b] = "new"
  /\ conn' = [conn EXCEPT ![b] = "ice"]
  /\ announcer' = [announcer EXCEPT ![b] = [at |-> "sleep", left |-> Tries,
                                            list |-> NoList]]
  /\ UNCHANGED <<mgrVars, cbVars, termVars, reader, waiter, appVars, streams, handler,
                 msgs, shown, offerVars>>

\* The data channel opens some time after that; the phone may go away.
ChannelOpens(b) ==
  /\ conn[b] = "ice"
  /\ conn' = [conn EXCEPT ![b] = "open"]
  /\ UNCHANGED <<mgrVars, cbVars, termVars, reader, waiter, appVars, streams, handler,
                 announcer, msgs, shown, offerVars>>

Lose(b) ==
  /\ conn[b] = "open"
  /\ conn' = [conn EXCEPT ![b] = "lost"]
  /\ UNCHANGED <<mgrVars, cbVars, termVars, reader, waiter, appVars, streams, handler,
                 announcer, msgs, shown, offerVars>>

AnnounceList(b) ==
  /\ announcer[b].at = "sleep" /\ announcer[b].left > 0
  /\ announcer' = [announcer EXCEPT ![b].at = "send", ![b].list = List]
  /\ UNCHANGED <<mgrVars, cbVars, termVars, reader, waiter, appVars, conn, streams,
                 handler, msgs, shown, offerVars>>

\* SendAllScrollback follows a success.
AnnounceSend(b) ==
  /\ announcer[b].at = "send"
  /\ SendList(b, announcer[b].list)
  /\ announcer' = [announcer EXCEPT ![b] =
                     [at |-> IF SendOk(b) THEN "end" ELSE "sleep",
                      left |-> @.left - 1, list |-> NoList]]
  /\ UNCHANGED <<mgrVars, cbVars, termVars, reader, waiter, appVars, conn, streams,
                 handler, msgs, offerVars>>

Announcer(b) == AnnounceList(b) \/ AnnounceSend(b)

(***************************************************************************)
(* peerManager.newOffer, called by the relay loop and for every GET /offer.*)
(* It holds pm.mu throughout.                                              *)
(***************************************************************************)

\* OfferBegin with a slip: the previous peer is not closed.
OfferBeginKeepsPeer ==
  /\ offer = "idle"
  /\ \E b \in Bridges : conn[b] = "none"
  /\ offer' = "making"
  /\ UNCHANGED <<mgrVars, cbVars, termVars, reader, waiter, appVars, bridgeVars, peer,
                 toAttach>>

\* The previous peer is closed; its bridge stays registered with the sessions.
OfferBegin ==
  /\ offer = "idle"
  /\ \E b \in Bridges : conn[b] = "none"
  /\ conn' = [b \in Bridges |-> IF b = peer THEN "closed" ELSE conn[b]]
  /\ offer' = "making"
  /\ UNCHANGED <<mgrVars, cbVars, termVars, reader, waiter, appVars, streams, handler,
                 announcer, msgs, shown, peer, toAttach>>

\* Making the offer took up to five seconds and failed: pm.peer stays.
OfferFails ==
  /\ offer = "making"
  /\ offer' = "idle"
  /\ UNCHANGED <<mgrVars, cbVars, termVars, reader, waiter, appVars, bridgeVars, peer,
                 toAttach>>

\* pm.peer and pm.br are replaced, the bridge is started, the sessions listed ...
OfferReady ==
  /\ offer = "making"
  /\ \E b \in Bridges :
       /\ conn[b] = "none" /\ \A c \in 1 .. b - 1 : conn[c] # "none"
       /\ conn' = [conn EXCEPT ![b] = "new"]
       /\ peer' = b
  /\ offer' = "attach" /\ toAttach' = managed
  /\ UNCHANGED <<mgrVars, cbVars, termVars, reader, waiter, appVars, streams, handler,
                 announcer, msgs, shown>>

\* ... and attached, in any order.
OfferAttach ==
  /\ offer = "attach"
  /\ \E s \in toAttach : Attach(peer, s) /\ toAttach' = toAttach \ {s}
  /\ UNCHANGED <<mgrVars, termVars, reader, waiter, appVars, conn, handler, announcer,
                 msgs, shown, peer, offer>>

OfferEnd ==
  /\ offer = "attach" /\ toAttach = {}
  /\ offer' = "idle"
  /\ UNCHANGED <<mgrVars, cbVars, termVars, reader, waiter, appVars, bridgeVars, peer,
                 toAttach>>

NewOffer == OfferFails \/ OfferReady \/ OfferAttach \/ OfferEnd

Terminals == \/ \E s \in Sessions : Show(s) \/ Redraw(s) \/ Consume(s) \/ Leave(s)
             \/ Keyboard
Network == \/ OfferBegin
           \/ \E b \in Bridges : Connect(b) \/ ChannelOpens(b) \/ Lose(b)

Next == \/ Terminals \/ Network \/ NewOffer
        \/ \E s \in Sessions : ReadLoop(s) \/ WaitLoop(s)
        \/ \E b \in Bridges : Message(b) \/ Handler(b) \/ Announcer(b)

Spec == Init /\ [][Next]_vars

\* The scheduler runs the goroutines of the host; phones, programs and the
\* network owe nothing.
FairSpec == /\ Spec
            /\ \A s \in Sessions : WF_vars(ReadLoop(s)) /\ WF_vars(WaitLoop(s))
            /\ \A b \in Bridges : WF_vars(Handler(b)) /\ WF_vars(Announcer(b))
            /\ WF_vars(NewOffer)

(***************************************************************************)
(* Properties.                                                             *)
(***************************************************************************)

\* An approval is written to a terminal once at most, whatever the phone
\* repeats, and to the terminal of the session that asked (lookup and delete
\* under approvalMu in handleApprovalResponse).
AnsweredOnce ==
  /\ \A i, j \in DOMAIN answers : answers[i].req = answers[j].req => i = j
  /\ \A i \in DOMAIN answers : answers[i].sess = reqs[answers[i].req].sess

\* A tap on card r will reach the program, has reached it, or the program is gone.
Works(b, r) ==
  \/ r \in pending[b]
  \/ handler[b].op = "answer" /\ handler[b].req = r
  \/ \E i \in DOMAIN answers : answers[i].req = r
  \/ reqs[r].sess \notin managed \cap alive

\* A card works as long as the connection it came by: a tap on it was not and will
\* not be thrown away while the program lives, however fast it comes
\* (sendApprovalRequest makes the request pending before it is sent).  A card
\* outlives its connection: cleanup (app.js:307-327) leaves it on the page, and a
\* tap then goes to a closed client (rtc.js:63-68) and is lost.
CardsWork ==
  \A b \in Bridges : Arrives(b) => \A r \in cards[b] : Works(b, r)

\* The host implements approvals: of a prompt that is drawn again or heard by two
\* bridges one request is made (they share the detector, and Scan is atomic); of
\* the phone's answers, which it may repeat and send to a bridge that has been
\* replaced, each request's first is given, in the session that asked
\* (sendApprovalRequest, handleApprovalResponse).
AskedIn == [a \in DOMAIN asks |-> asks[a].sess]
RequestedFor == [r \in DOMAIN reqs |-> reqs[r].ask]
Approval == INSTANCE Approvals
              WITH Phones <- Bridges, asked <- AskedIn, requests <- RequestedFor,
                   given <- answers
ImplementsApprovals == Approval!Spec

\* No peer but the current one is left open, also when making an offer fails
\* (newOffer closes the previous peer under pm.mu).
OnePeer == \A b \in Bridges : conn[b] \notin {"none", "closed"} => b = peer

\* Every process belongs to a listed session, and there are no more of those
\* than allowed, also when two bridges create and close sessions at once
\* (Create and Close under m.mu).
SessionsAccounted == alive \subseteq managed /\ Cardinality(managed) <= MaxSessions

\* Program s waits for an answer to a prompt with text t.
WaitsAt(s, t) == s \in alive /\ asking[s] # 0 /\ asks[asking[s]].text = t

\* A prompt not seen before reaches the phone that streams the session while it
\* waits for an answer, unless the connection or the session goes (readLoop,
\* Scan, sendApprovalRequest).
\* It holds for the first connection, and fails after a reconnect, where the
\* callback of the old bridge comes first in onOutputs, marks the prompt seen
\* and sends it to the closed peer.  README.md:60-61 promises alerts "when
\* approval is needed" and to "reconnect anytime".
PromptReachesPhone ==
  \A b \in Bridges, s \in Sessions, t \in Prompts :
     (/\ conn[b] = "open" /\ s \in streams[b] /\ t \notin seen
      /\ WaitsAt(s, t) /\ asking[s] \in Range(screen[s]))
     ~> \/ \E r \in cards[b] : asks[reqs[r].ask].text = t
        \/ conn[b] # "open" \/ s \notin streams[b] \/ ~WaitsAt(s, t)

\* The phone that streams a session learns that its program has ended (waitLoop
\* and the callback of AttachSession), though the list may be overtaken by an
\* older one afterwards.
ExitReported ==
  \A b \in Bridges, s \in Sessions :
     (/\ conn[b] = "open" /\ onExit[s] = b
      /\ s \in managed \ alive /\ status[s] = "running")
     ~> \/ s \in DOMAIN shown[b] /\ shown[b][s] = "exited"
        \/ conn[b] # "open" \/ onExit[s] # b \/ s \notin managed

(***************************************************************************)
(* Why they hold: the parts of the inductive invariant.                    *)
(***************************************************************************)

\* A thread at work has something to work on.
Busy ==
  /\ \A s \in Sessions : reader[s].at # "rest" =>
        reader[s].todo # << >> /\ reader[s].ask # 0
  /\ \A s \in Sessions : reader[s].at = "send" => reader[s].req # 0
  /\ \A b \in Bridges : handler[b].op = "answer" => handler[b].req # 0

PeerBusy ==
  /\ \A b \in Bridges : announcer[b].at = "send" => announcer[b].left > 0
  /\ offer = "attach" => peer # Nil

\* While an offer is made, there is no peer.
NoPeerYet == offer = "making" => \A b \in Bridges : conn[b] \in {"none", "closed"}

\* Sessions that are listed, read from or asked for have been created.
Known ==
  /\ \A s \in managed : status[s] # "none"
  /\ \A s \in Sessions : reader[s].at # "rest" => status[s] # "none"
  /\ \A r \in DOMAIN reqs : status[reqs[r].sess] # "none"

\* A request is pending with its own bridge, then in the hands of that
\* bridge's handler, then answered, and only one of these at a time.
OneStage ==
  /\ \A b \in Bridges : \A r \in pending[b] : reqs[r].bridge = b
  /\ \A b \in Bridges : handler[b].op = "answer" =>
        /\ reqs[handler[b].req].bridge = b
        /\ reqs[handler[b].req].sess = handler[b].sess
        /\ handler[b].req \notin pending[b]
  /\ \A i \in DOMAIN answers, b \in Bridges :
        /\ answers[i].req \notin pending[b]
        /\ handler[b].op = "answer" => handler[b].req # answers[i].req

\* A request about to be sent is pending and no phone has its card.
Sending ==
  \A s \in Sessions : reader[s].at = "send" =>
     /\ reqs[reader[s].req].sess = s
     /\ reader[s].req \in pending[Head(reader[s].todo)]
     /\ \A b \in Bridges : reader[s].req \notin cards[b]

\* What a handler is answering is a card of its own phone.
Tapped == \A b \in Bridges : handler[b].op = "answer" => handler[b].req \in cards[b]

\* The cards of every connection are pending until tapped, that of one lost too.
CardsPending == \A b \in Bridges : \A r \in cards[b] : Works(b, r)

\* What a session shows, waits at and is read for was asked by its own program.
OwnPrompts ==
  /\ \A s \in Sessions :
        /\ \A i \in DOMAIN screen[s] : asks[screen[s][i]].sess = s
        /\ asking[s] # 0 => asks[asking[s]].sess = s
        /\ reader[s].at # "rest" => asks[reader[s].ask].sess = s
  /\ \A r \in DOMAIN reqs : asks[reqs[r].ask].sess = reqs[r].sess

\* A text that was detected is seen, and belongs to one reader or one request.
Text(a) == asks[a].text
OneOwner ==
  /\ \A r \in DOMAIN reqs : Text(reqs[r].ask) \in seen
  /\ \A s \in Sessions : reader[s].at = "ask" =>
        /\ Text(reader[s].ask) \in seen
        /\ \A r \in DOMAIN reqs : Text(reqs[r].ask) # Text(reader[s].ask)
        /\ \A x \in Sessions \ {s} :
              reader[x].at = "ask" => Text(reader[x].ask) # Text(reader[s].ask)

IInv == /\ TypeOK /\ Busy /\ PeerBusy
        /\ OnePeer /\ NoPeerYet
        /\ SessionsAccounted /\ Known
        /\ OneStage /\ AnsweredOnce /\ Sending /\ CardsPending
        /\ Tapped /\ OwnPrompts /\ OneOwner

(***************************************************************************)
(* What the repository says of the host, and the code does not do.         *)
(***************************************************************************)

\* README.md:85 'When Claude asks "Allow this action?", your phone vibrates and
\* shows approve/deny buttons', and ARCHITECTURE.md:192 "Deduplicates by line
\* offset": a prompt shown gets its request on the phone that streams the session
\* while it waits, also one that reads like an earlier one.  The detector remembers
\* contents, for good and for every session, so a question asked again gets none.
EveryPromptReachesPhone ==
  \A b \in Bridges, s \in Sessions, a \in 1 .. MaxAsks :
     (/\ conn[b] = "open" /\ s \in streams[b] /\ s \in alive
      /\ asking[s] = a /\ a \in Range(screen[s])
      /\ \A r \in DOMAIN reqs : reqs[r].ask # a)
     ~> \/ \E r \in cards[b] : reqs[r].ask = a
        \/ conn[b] # "open" \/ s \notin streams[b] \/ s \notin alive
        \/ asking[s] # a

\* README.md:85-86 "When Claude asks ... your phone ... shows approve/deny
\* buttons.  You tap approve.  Claude continues.": an approval answers the
\* prompt it was given for.  A prompt answered at the keyboard leaves its card
\* on the phone and its request pending; a later tap answers the next prompt.
ApprovalAnswersItsPrompt ==
  [][\A s \in Sessions :
       Consume(s) /\ Head(input[s]) # 0 => reqs[Head(input[s])].ask = asking[s]]_vars
=============================================================================
