------------------------------- MODULE Mirror -------------------------------
(***************************************************************************)
(* The mirroring of terminals on the phone over one connection: output,    *)
(* scrollback and session list go to the page, keys and requests come      *)
(* back, all as frames of Codec over one reliable ordered channel.  It     *)
(* begins when newOffer has attached the sessions and returns the offer;   *)
(* what attaching races with is in Session.                                *)
(*                                                                         *)
(* Threads: readLoop of each session; the goroutines Bridge.Start runs     *)
(* each time ICE connects; the handler of the data channel; the page.  The *)
(* approval cards, and sessions created or closed, are in Bridge.          *)
(*                                                                         *)
(* A byte of output is its place in its session's stream, from 1.  The     *)
(* ring holds the window of Scrollback, which RingBuffer implements.       *)
(***************************************************************************)
EXTENDS Codec, Integers, FiniteSets, Functions

CONSTANTS Sessions,   \* ids of the sessions, strings of IdLen bytes
          Size,       \* bytes of the ring, 65536 in the program
          Tries,      \* attempts to announce the sessions (10 in Start)
          MaxChunk,   \* the longest read (16384 in readLoop)
          MaxPaste,   \* bound: the longest piece of input the terminal hands over
          MaxBytes,   \* bound: bytes of output, of all sessions
          MaxMsgs,    \* bound: messages of the phone
          MaxUps,     \* bound: times ICE connects
          MaxAll      \* bound: the three together

ASSUME MirrorAssumption ==
  /\ Sessions \subseteq [1 .. IdLen -> 0 .. Base - 1] /\ IsFiniteSet(Sessions)
  /\ {Size, Tries, MaxChunk, MaxPaste, MaxBytes, MaxMsgs, MaxUps, MaxAll} \subseteq Nat
  /\ Size > 0 /\ Tries > 0
  /\ MaxChunk + IdLen <= MaxPayload

Announcers == 1 .. MaxUps
NoSession == << >>   \* the empty string, or null

VARIABLES
  \* pty.Session
  stored,     \* bytes each ring has been given
  reader,     \* readLoop: [at, data], data being the chunk in hand
  broken,     \* sessions whose terminal takes no input any more
  written,    \* input each terminal was given
  \* bridge.Bridge
  announcer,  \* the goroutines of Start: [at, left, todo, msg]
  handler,    \* [at, sess, data, msg]
  \* rtc.Peer and the network
  conn,       \* ICE: "new", "up", "down", or "closed" by Peer.Close
  open,       \* the data channel is open
  wire,       \* frames on the way to the page
  inbox,      \* frames on the way to the host
  ups,        \* times ICE connected
  \* the page
  terms,      \* keys of ctx.sessions: terminals on the page
  screen,     \* what was written to each, in order
  active,     \* ctx.activeSession
  tabs,       \* the sessions with a tab
  notice,     \* the status line: "none", "connected" or "error"
  msgs,       \* messages sent, for the bound
  typed,      \* input each terminal sent
  \* history
  kept,       \* of that, what the frames it was sent in hold for the host
  from        \* first byte of the first scrollback sent of a session, or 0

sessVars == <<stored, reader, broken, written>>
goVars == <<announcer, handler, from>>
netVars == <<conn, open, wire, inbox, ups>>
pageVars == <<terms, screen, active, tabs, notice, msgs, typed, kept>>
vars == <<sessVars, goVars, netVars, pageVars>>

Run(first, last) == [i \in 1 .. last - first + 1 |-> first + i - 1]

Resting == [at |-> "rest", data |-> << >>]
NoMsg == Message(Scrollback, NoSession, << >>)
Off == [at |-> "off", left |-> 0, todo |-> {}, msg |-> NoMsg]
Idle == [at |-> "idle", sess |-> NoSession, data |-> << >>, msg |-> NoMsg]

Init ==
  /\ stored = [s \in Sessions |-> 0]
  /\ reader = [s \in Sessions |-> Resting]
  /\ broken = {}
  /\ written = [s \in Sessions |-> << >>]
  /\ announcer = [a \in Announcers |-> Off]
  /\ handler = Idle
  /\ conn = "new" /\ open = FALSE /\ wire = << >> /\ inbox = << >> /\ ups = 0
  /\ terms = {} /\ screen = [s \in Sessions |-> << >>]
  /\ active = NoSession /\ tabs = {} /\ notice = "none" /\ msgs = 0
  /\ typed = [s \in Sessions |-> << >>] /\ kept = [s \in Sessions |-> << >>]
  /\ from = [s \in Sessions |-> 0]

Total == FoldFunction(+, 0, stored)
Budget == MaxAll - (Total + msgs + ups)

(***************************************************************************)
(* Peer.Send: an error until the channel is open and after Close.  While   *)
(* ICE is down the channel keeps what it is given.                         *)
(***************************************************************************)

\* A slip: nothing is sent while ICE is down.
SendOkStrict == open /\ conn = "up"

SendOk == open /\ conn # "closed"

Send(msg) == wire' = IF SendOk THEN Append(wire, Encode(msg)) ELSE wire

(***************************************************************************)
(* pty.Session.readLoop and the callback of AttachSession.                 *)
(***************************************************************************)

\* A chunk is read and stored; until then it is only in a local variable.
ReadChunk(s) ==
  /\ reader[s].at = "rest"
  /\ \E n \in 1 .. MaxChunk :
       /\ Total + n <= MaxBytes /\ n <= Budget
       /\ stored' = [stored EXCEPT ![s] = @ + n]
       /\ reader' = [reader EXCEPT ![s] =
                       [at |-> "send", data |-> Run(stored[s] + 1, stored[s] + n)]]
  /\ UNCHANGED <<broken, written, goVars, netVars, pageVars>>

\* The bridge's callback.  It is among the copied ones, as it always was here.
SendOutput(s) ==
  /\ reader[s].at = "send"
  /\ LET msg == Message(TermOutput, s, reader[s].data)
     IN  IF Encodable(msg) THEN Send(msg) ELSE UNCHANGED wire
  /\ reader' = [reader EXCEPT ![s] = Resting]
  /\ UNCHANGED <<stored, broken, written, goVars, conn, open, inbox, ups,
                 pageVars>>

(***************************************************************************)
(* SendScrollback, in two steps: the snapshot and its sending.             *)
(***************************************************************************)

Ring == INSTANCE Scrollback
          WITH MaxWrite <- MaxChunk, MaxTotal <- MaxBytes, total <- 0, window <- << >>

ScrollbackOf(s) == Message(Scrollback, s, Ring!Newest(stored[s]))

\* An empty snapshot is not sent, and one that does not encode cannot be.
CanSend(s) == stored[s] > 0 /\ Encodable(ScrollbackOf(s))

SendScrollback(msg) ==
  /\ Send(msg)
  /\ from' = IF SendOk /\ from[msg.id] = 0
             THEN [from EXCEPT ![msg.id] = msg.data[1]] ELSE from

(***************************************************************************)
(* The goroutine of Start: after each pause a list; once one is sent, the  *)
(* scrollback of every session.                                            *)
(***************************************************************************)

\* Slips: the error of the list is ignored; the tries are not counted to an end.
AnnounceListIgnores(a) ==
  /\ announcer[a].at = "sleep"
  /\ Send(Control(SessionList, Sessions))
  /\ announcer' = [announcer EXCEPT ![a] = [@ EXCEPT !.at = "next", !.todo = Sessions]]
  /\ UNCHANGED <<sessVars, handler, from, conn, open, inbox, ups, pageVars>>

AnnounceListEndless(a) ==
  /\ announcer[a].at = "sleep"
  /\ Send(Control(SessionList, Sessions))
  /\ announcer' = [announcer EXCEPT ![a] =
       IF SendOk THEN [@ EXCEPT !.at = "next", !.todo = Sessions]
       ELSE [@ EXCEPT !.left = announcer[a].left - 1]]
  /\ UNCHANGED <<sessVars, handler, from, conn, open, inbox, ups, pageVars>>

AnnounceList(a) ==
  /\ announcer[a].at = "sleep"
  /\ Send(Control(SessionList, Sessions))
  /\ announcer' = [announcer EXCEPT ![a] =
       IF SendOk THEN [@ EXCEPT !.at = "next", !.todo = Sessions]
       ELSE IF @.left > 1 THEN [@ EXCEPT !.left = announcer[a].left - 1] ELSE Off]
  /\ UNCHANGED <<sessVars, handler, from, conn, open, inbox, ups, pageVars>>

\* A slip: the round ends at the first session that has nothing to send.
AnnounceSnapshotStops(a) ==
  /\ announcer[a].at = "next"
  /\ \E s \in announcer[a].todo :
       announcer' = [announcer EXCEPT ![a] =
         IF CanSend(s)
         THEN [@ EXCEPT !.at = "send", !.todo = announcer[a].todo \ {s},
                        !.msg = ScrollbackOf(s)]
         ELSE Off]
  /\ UNCHANGED <<sessVars, handler, from, netVars, pageVars>>

AnnounceSnapshot(a) ==
  /\ announcer[a].at = "next"
  /\ \E s \in announcer[a].todo :
       announcer' = [announcer EXCEPT ![a] =
         IF CanSend(s)
         THEN [@ EXCEPT !.at = "send", !.todo = announcer[a].todo \ {s},
                        !.msg = ScrollbackOf(s)]
         ELSE [@ EXCEPT !.todo = announcer[a].todo \ {s}]]
  /\ UNCHANGED <<sessVars, handler, from, netVars, pageVars>>

AnnounceScrollback(a) ==
  /\ announcer[a].at = "send"
  /\ SendScrollback(announcer[a].msg)
  /\ announcer' = [announcer EXCEPT ![a] = [@ EXCEPT !.at = "next", !.msg = NoMsg]]
  /\ UNCHANGED <<sessVars, handler, conn, open, inbox, ups, pageVars>>

Announcer(a) == AnnounceList(a) \/ AnnounceSnapshot(a) \/ AnnounceScrollback(a)

(***************************************************************************)
(* The handler of the data channel takes one message after the other.      *)
(***************************************************************************)

Received == Decode(Head(inbox))

\* A message of this type is next, and the handler is free.
Takes(type) ==
  /\ conn = "up" /\ handler.at = "idle" /\ inbox # << >>
  /\ Decodable(Head(inbox)) /\ Received.type = type
  /\ inbox' = Tail(inbox)

\* handleMessage looks no further at a frame that does not decode.
TakeBad ==
  /\ conn = "up" /\ handler.at = "idle" /\ inbox # << >>
  /\ ~Decodable(Head(inbox)) /\ inbox' = Tail(inbox)
  /\ UNCHANGED <<sessVars, goVars, conn, open, wire, ups, pageVars>>

TakeInput ==
  /\ Takes(TermInput)
  /\ handler' = IF Received.id \in Sessions /\ Received.data # << >>
                THEN [Idle EXCEPT !.at = "write", !.sess = Received.id,
                                  !.data = Received.data]
                ELSE handler
  /\ UNCHANGED <<sessVars, announcer, from, conn, open, wire, ups, pageVars>>

\* A slip: what the terminal had no room for is forgotten.
WriteInputOnce ==
  /\ handler.at = "write" /\ handler.sess \notin broken
  /\ \E n \in 1 .. Len(handler.data) :
       written' = [written EXCEPT ![handler.sess] = @ \o SubSeq(handler.data, 1, n)]
  /\ handler' = Idle
  /\ UNCHANGED <<stored, reader, broken, announcer, from, netVars, pageVars>>

\* The terminal takes what there is room for; the rest waits, and follows it.
WriteInput ==
  /\ handler.at = "write" /\ handler.sess \notin broken
  /\ \E n \in 1 .. Len(handler.data) :
       /\ written' = [written EXCEPT ![handler.sess] =
                         @ \o SubSeq(handler.data, 1, n)]
       /\ handler' = IF n = Len(handler.data) THEN Idle
                     ELSE [handler EXCEPT !.data = SubSeq(@, n + 1, Len(@))]
  /\ UNCHANGED <<stored, reader, broken, announcer, from, netVars, pageVars>>

\* A terminal that is gone fails this Write and the next; the rest is dropped.
WriteFails ==
  /\ handler.at = "write"
  /\ broken' = broken \union {handler.sess}
  /\ handler' = Idle
  /\ UNCHANGED <<stored, reader, written, announcer, from, netVars, pageVars>>

\* The session is looked up by the id of the message, and a resize has none.
TakeResize ==
  /\ Takes(TermResize) /\ Received.id \notin Sessions
  /\ UNCHANGED <<sessVars, goVars, conn, open, wire, ups, pageVars>>

TakeSwitch ==
  /\ Takes(SessionSwitch)
  /\ LET s == Field(Received.data[1], "id", NoSession)
     IN  handler' = IF s \in Sessions /\ CanSend(s)
                    THEN [Idle EXCEPT !.at = "send", !.msg = ScrollbackOf(s)]
                    ELSE handler
  /\ UNCHANGED <<sessVars, announcer, from, conn, open, wire, ups, pageVars>>

SendSwitched ==
  /\ handler.at = "send"
  /\ SendScrollback(handler.msg)
  /\ handler' = Idle
  /\ UNCHANGED <<sessVars, announcer, conn, open, inbox, ups, pageVars>>

\* A slip: the page is not told that the program was not started.
TakeCreateSilent ==
  /\ Takes(SessionCreate)
  /\ Field(Received.data[1], "cmd", "") = ""
  /\ UNCHANGED <<sessVars, goVars, conn, open, wire, ups, pageVars>>

\* The host looks for "cmd".  Without one the program cannot be started, and
\* the page is told; a command that it could start is in Bridge.
TakeCreate ==
  /\ Takes(SessionCreate)
  /\ Field(Received.data[1], "cmd", "") = ""
  /\ Send(Control(ErrorNote, [code |-> "SESSION_CREATE_FAILED"]))
  /\ UNCHANGED <<sessVars, goVars, conn, open, ups, pageVars>>

Handler == TakeBad \/ TakeResize \/ TakeInput \/ TakeSwitch \/ SendSwitched \/ TakeCreate
Terminal == WriteInput \/ WriteFails

(***************************************************************************)
(* The network.  ICE may go and come back; each time the state callback    *)
(* starts one more announcer.                                              *)
(***************************************************************************)

IceUp ==
  /\ conn \in {"new", "down"} /\ ups < MaxUps /\ Budget > 0
  /\ conn' = "up" /\ ups' = ups + 1
  /\ announcer' = [announcer EXCEPT ![ups + 1] =
                     [Off EXCEPT !.at = "sleep", !.left = Tries]]
  /\ UNCHANGED <<sessVars, handler, from, open, wire, inbox, pageVars>>

ChannelOpens ==
  /\ conn = "up" /\ ~open
  /\ open' = TRUE
  /\ UNCHANGED <<sessVars, goVars, conn, wire, inbox, ups, pageVars>>

IceDown ==
  /\ conn = "up"
  /\ conn' = "down"
  /\ UNCHANGED <<sessVars, goVars, open, wire, inbox, ups, pageVars>>

\* newOffer or the end of the program closes the peer; what is on the way is lost.
PeerClose ==
  /\ conn # "closed"
  /\ conn' = "closed" /\ wire' = << >> /\ inbox' = << >>
  /\ UNCHANGED <<sessVars, goVars, open, ups, pageVars>>

(***************************************************************************)
(* The page: handleMessage on each frame that arrives.                     *)
(***************************************************************************)

Arrived == JsDecode(Head(wire))

Arrives(types) ==
  /\ conn = "up" /\ wire # << >>
  /\ JsDecodable(Head(wire)) /\ Arrived.type \in types
  /\ wire' = Tail(wire)

\* getOrCreateSession makes the first terminal the active one.
Shows(s) == active' = IF active = NoSession THEN s ELSE active

\* Output and scrollback alike are written behind what the terminal has.
ShowBytes ==
  /\ Arrives({TermOutput, Scrollback})
  /\ terms' = terms \union {Arrived.id}
  /\ screen' = [screen EXCEPT ![Arrived.id] = @ \o Arrived.data]
  /\ Shows(Arrived.id)
  /\ UNCHANGED <<sessVars, goVars, conn, open, inbox, ups, tabs, notice, msgs, typed, kept>>

\* A list of a Go map has any order; its first session gets the first terminal.
ShowList ==
  /\ Arrives({SessionList})
  /\ LET list == Arrived.data[1]
     IN  /\ tabs' = list /\ terms' = terms \union list
         /\ IF list = {} THEN UNCHANGED active ELSE \E s \in list : Shows(s)
  /\ notice' = "connected"
  /\ UNCHANGED <<sessVars, goVars, conn, open, inbox, ups, screen, msgs, typed, kept>>

ShowError ==
  /\ Arrives({ErrorNote})
  /\ notice' = "error"
  /\ UNCHANGED <<sessVars, goVars, conn, open, inbox, ups, terms, screen, active, tabs,
                 msgs, typed, kept>>

Page == ShowBytes \/ ShowList \/ ShowError

\* sendOnChannel sends nothing unless the channel is open.
CanPost == msgs < MaxMsgs /\ Budget > 0 /\ open /\ conn # "closed"

Post(msg) ==
  /\ CanPost /\ msgs' = msgs + 1
  /\ inbox' = Append(inbox, JsEncode(msg))

Fits(f) == Len(f.body) <= MaxPayload

\* The keys for terminal s that the host finds in a frame.
KeysOf(f, s) ==
  IF f.type = TermInput /\ Decodable(f) /\ Decode(f).id = s THEN Decode(f).data
  ELSE << >>

\* Keys or a paste, of any length, go to the terminal that is visible.  The channel may
\* have a limit of its own, and refuse a frame that does not fit.
Type(n) ==
  /\ active \in terms
  /\ LET keys == [i \in 1 .. n |-> msgs * MaxPaste + i]   \* all different
         msg == Message(TermInput, active, keys)
     IN  /\ typed' = [typed EXCEPT ![active] = @ \o keys]
         /\ \/ /\ Post(msg)
               /\ kept' = [kept EXCEPT ![active] = @ \o KeysOf(JsEncode(msg), active)]
            \/ /\ CanPost /\ msgs' = msgs + 1 /\ ~Fits(JsEncode(msg))
               /\ UNCHANGED <<inbox, kept>>
  /\ UNCHANGED <<sessVars, goVars, conn, open, wire, ups, terms, screen, active, tabs,
                 notice>>

Resize ==
  /\ terms # {}
  /\ Post(Control(TermResize, [rows |-> 24, cols |-> 80]))
  /\ UNCHANGED <<sessVars, goVars, conn, open, wire, ups, terms, screen, active, tabs,
                 notice, typed, kept>>

SwitchSession(s) ==
  /\ s \in tabs /\ s # active
  /\ active' = s
  /\ Post(Control(SessionSwitch, [id |-> s]))
  /\ UNCHANGED <<sessVars, goVars, conn, open, wire, ups, terms, screen, tabs, notice,
                 typed, kept>>

\* The button for a new session is drawn with the tabs.
NewSession ==
  /\ tabs # {}
  /\ Post(Control(SessionCreate, [command |-> "bash", args |-> << >>]))
  /\ UNCHANGED <<sessVars, goVars, conn, open, wire, ups, terms, screen, active, tabs,
                 notice, typed, kept>>

Person == \/ \E n \in 1 .. MaxPaste : Type(n)
          \/ \E s \in Sessions : SwitchSession(s)
          \/ Resize \/ NewSession

Next ==
  \/ \E s \in Sessions : ReadChunk(s) \/ SendOutput(s)
  \/ \E a \in Announcers : Announcer(a)
  \/ Handler \/ Terminal
  \/ IceUp \/ ChannelOpens \/ IceDown \/ PeerClose
  \/ Page \/ Person

Spec == Init /\ [][Next]_vars

\* Every thread of the host that can run does; the channel is reliable while
\* ICE is up, and the page handles what arrives.
Fairness ==
  /\ \A s \in Sessions : WF_vars(SendOutput(s))
  /\ \A a \in Announcers : WF_vars(Announcer(a))
  /\ WF_vars(Handler) /\ WF_vars(Page)

FairSpec == Spec /\ Fairness

-----------------------------------------------------------------------------
IsSequence(q) == q \in Seq(Range(q))
Snapshots == [type : {Scrollback}, id : Sessions \union {NoSession}, data : Seq(Nat)]
ReaderStates == [at : {"rest", "send"}, data : Seq(Nat)]
AnnouncerStates == [at : {"off", "sleep", "next", "send"}, left : 0 .. Tries,
                    todo : SUBSET Sessions, msg : Snapshots]
HandlerStates == [at : {"idle", "write", "send"}, sess : Sessions \union {NoSession},
                  data : Seq(Nat), msg : Snapshots]

\* The type invariant.
TypeOK ==
  /\ stored \in [Sessions -> Nat]
  /\ reader \in [Sessions -> ReaderStates]
  /\ broken \subseteq Sessions
  /\ written \in [Sessions -> Seq(Nat)] /\ typed \in [Sessions -> Seq(Nat)]
  /\ kept \in [Sessions -> Seq(Nat)]
  /\ announcer \in [Announcers -> AnnouncerStates] /\ handler \in HandlerStates
  /\ handler.at = "write" => handler.sess \in Sessions
  /\ conn \in {"new", "up", "down", "closed"} /\ open \in BOOLEAN
  /\ IsSequence(wire) /\ IsSequence(inbox)
  /\ ups \in 0 .. MaxUps /\ msgs \in 0 .. MaxMsgs
  /\ terms \subseteq Sessions /\ tabs \subseteq Sessions
  /\ active \in Sessions \union {NoSession}
  /\ screen \in [Sessions -> Seq(Nat)]
  /\ notice \in {"none", "connected", "error"}
  /\ from \in [Sessions -> Nat]

OnScreen(s, k) == k \in Range(screen[s])
InHand(s, k) == k \in Range(reader[s].data)
Carries(f, s, k) == /\ f.type \in {TermOutput, Scrollback} /\ JsDecodable(f)
                    /\ JsDecode(f).id = s /\ k \in Range(JsDecode(f).data)
Covered(s, k) == OnScreen(s, k) \/ InHand(s, k) \/ \E f \in Range(wire) : Carries(f, s, k)

\* Nothing is missing between scrollback and live output: from the first byte
\* of the first scrollback sent of a session on, each byte stored so far is on
\* the screen, on the way to it, or in the hands of readLoop, which will send it.
NothingMissed ==
  \A s \in Sessions : from[s] # 0 /\ conn # "closed" =>
    \A k \in from[s] .. stored[s] : Covered(s, k)

\* What host and page have to say.
IsPiece(s, data) ==
  \E first, last \in 1 .. stored[s] : first <= last /\ data = Run(first, last)
HostSays(m) ==
  \/ /\ m.type \in {TermOutput, Scrollback} /\ m.id \in Sessions
     /\ IsPiece(m.id, m.data)
  \/ m.type = SessionList /\ m = Control(SessionList, Sessions)
  \/ m.type = ErrorNote /\ m = Control(ErrorNote, [code |-> "SESSION_CREATE_FAILED"])
PageSays(m) ==
  \/ m.type = TermInput /\ m.id \in Sessions /\ m.data \in Seq(Nat) \ {<< >>}
  \/ m.type = SessionSwitch /\ \E s \in Sessions : m = Control(SessionSwitch, [id |-> s])
  \/ m.type = TermResize /\ m.id = << >>
  \/ m.type = SessionCreate
     /\ m = Control(SessionCreate, [command |-> "bash", args |-> << >>])

\* The two implementations of the codec agree on what is on the way.  A receiver accepts
\* a frame that fits and takes all of it: the page finds in it a list, an error or an
\* unbroken piece of the output of a session, the host what the page said.  Only a
\* paste may be longer: then the host refuses it or takes less of it than there is, and
\* for no other session.
WireFaithful ==
  /\ \A f \in Range(wire) : /\ JsDecodable(f) /\ LengthOf(f) = Len(f.body)
                            /\ HostSays(JsDecode(f))
  /\ \A f \in Range(inbox) :
       IF Fits(f) THEN Decodable(f) /\ LengthOf(f) = Len(f.body) /\ PageSays(Decode(f))
       ELSE /\ f.type = TermInput
            /\ Decodable(f) => /\ Decode(f).id \in Sessions /\ Decode(f).data \in Seq(Nat)
                               /\ IdLen + Len(Decode(f).data) < Len(f.body)

Live(f, s) == f.type = TermOutput /\ JsDecodable(f) /\ JsDecode(f).id = s
LastOf(f) == LET data == JsDecode(f).data IN data[Len(data)]

\* Live output has no hole and keeps its order: behind a live chunk on the way
\* comes every byte after it, in later live chunks or from readLoop's hands, and
\* none before it, also when ICE was down for a while.
LiveInOrder ==
  \A s \in Sessions : \A i \in DOMAIN wire :
    Live(wire[i], s) =>
      LET behind == {j \in i + 1 .. Len(wire) : Live(wire[j], s)}
      IN  /\ \A k \in LastOf(wire[i]) + 1 .. stored[s] :
                InHand(s, k) \/ \E j \in behind : Carries(wire[j], s, k)
          /\ \A j \in behind, k \in 1 .. LastOf(wire[i]) : ~Carries(wire[j], s, k)

\* The keys of a terminal on the page reach the program of that session in order,
\* none twice and none at another session, however the host cuts its writes, and none
\* is left out but the end of a paste that does not fit in a frame, or the whole of it.
InputPipe == INSTANCE Pipe
               WITH Ends <- Sessions, Limit <- MaxPayload - IdLen,
                    typed <- typed, in <- kept, out <- written
InputImplementsPipe == InputPipe!Spec

Announcing == \E a \in Announcers : announcer[a].at = "sleep"
Streaming == open /\ conn = "up"

\* What the program prints comes to the phone: what is in the ring when the channel
\* is open and the sessions are to be announced, and every chunk read while the
\* channel is open, unless the connection goes.
OutputArrives ==
  \A s \in Sessions, k \in 1 .. MaxBytes :
    (Streaming /\ (InHand(s, k) \/ (Announcing /\ k <= stored[s])))
      ~> (OnScreen(s, k) \/ conn # "up")

CreateAsked == \E f \in Range(inbox) : f.type = SessionCreate

\* A request for a new session that the host cannot fulfil is answered: provided
\* programs go on reading, the page shows the error unless the connection goes.
CreateAnswered ==
  []<>(handler.at # "write") => (CreateAsked ~> (notice = "error" \/ conn # "up"))

(***************************************************************************)
(* Why these hold: the parts of the inductive invariant.                   *)
(***************************************************************************)

\* The chunk in the hands of readLoop is the newest.
HandIsNewest ==
  \A s \in Sessions :
    /\ reader[s].at = "rest" => reader[s].data = << >>
    /\ reader[s].at = "send" =>
         \E first \in 1 .. stored[s] : /\ reader[s].data = Run(first, stored[s])
                                       /\ stored[s] - first < MaxChunk

\* Whoever has got as far as a snapshot has seen the channel open.
OpenBefore ==
  /\ \A a \in Announcers : announcer[a].at \in {"next", "send"} => open
  /\ handler.at # "idle" => open
  /\ inbox # << >> => open
  /\ (\E s \in Sessions : from[s] # 0) => open
  /\ wire # << >> => open /\ conn # "closed"

\* A snapshot not yet sent encodes, and what came after it is covered.
IsSound(m) ==
  /\ m.id \in Sessions /\ Encodable(m)
  /\ \E first, last \in 1 .. stored[m.id] :
       /\ first <= last /\ m.data = Run(first, last)
       /\ conn # "closed" => \A k \in last + 1 .. stored[m.id] : Covered(m.id, k)
SnapshotsSound ==
  /\ \A a \in Announcers : announcer[a].at = "send" => IsSound(announcer[a].msg)
  /\ handler.at = "send" => IsSound(handler.msg)

\* The chunk in hand comes after every live one on the way.
HandAfterLive ==
  \A s \in Sessions : \A f \in Range(wire) : Live(f, s) =>
    \A k \in Range(reader[s].data) : LastOf(f) < k

\* The keys for a terminal that the handler holds.
Held(s) == IF handler.at = "write" /\ handler.sess = s THEN handler.data ELSE << >>

\* The keys kept for s are cut into those written or held and, frame by frame,
\* those on the way; the peer that closes takes the last ones with it.
CutBy(s, cut) ==
  LET n == Len(inbox)
  IN  /\ written[s] \o Held(s) = SubSeq(kept[s], 1, cut[0])
      /\ \A i \in 1 .. n : /\ cut[i - 1] <= cut[i]
                           /\ KeysOf(inbox[i], s) = SubSeq(kept[s], cut[i - 1] + 1, cut[i])
      /\ conn # "closed" => cut[n] = Len(kept[s])

\* A terminal was given a beginning of what was kept, and unless it broke the rest
\* follows.
InOrder(s) ==
  /\ InputPipe!IsPrefix(written[s], kept[s])
  /\ s \notin broken =>
       \E cut \in [0 .. Len(inbox) -> 0 .. Len(kept[s])] : CutBy(s, cut)
InputInOrder == \A s \in Sessions : InOrder(s)

IInv == /\ TypeOK /\ HandIsNewest /\ OpenBefore /\ WireFaithful
        /\ SnapshotsSound /\ NothingMissed /\ HandAfterLive /\ LiveInOrder
        /\ InputInOrder
=============================================================================
