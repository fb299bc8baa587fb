---------------------------- MODULE BridgeProofs ----------------------------
(***************************************************************************)
(* Proofs about the host for any number of sessions, connections, prompts  *)
(* and messages.                                                           *)
(***************************************************************************)
EXTENDS Bridge, FiniteSetTheorems, TLAPS

\* The part of the inductive invariant that the types rest on.
Types == TypeOK /\ Busy /\ PeerBusy

(***************************************************************************)
(* Sequences.                                                              *)
(***************************************************************************)

LEMMA Append1 ==
  ASSUME NEW T, NEW q \in Seq(T), NEW e \in T
  PROVE  /\ Append(q, e) \in Seq(T) /\ Len(Append(q, e)) = Len(q) + 1
         /\ Append(q, e)[Len(q) + 1] = e
         /\ \A i \in 1 .. Len(q) : Append(q, e)[i] = q[i]
  OBVIOUS

LEMMA Tail1 ==
  ASSUME NEW T, NEW q \in Seq(T), q # << >>
  PROVE  Head(q) \in T /\ Tail(q) \in Seq(T)
  OBVIOUS

LEMMA ElementOf ==
  ASSUME NEW T, NEW q \in Seq(T), NEW i \in 1 .. Len(q)
  PROVE  q[i] \in T
  OBVIOUS

LEMMA SeqOfLength ==
  ASSUME NEW T, NEW n \in Nat, NEW q \in [1 .. n -> T]
  PROVE  q \in Seq(T) /\ Len(q) = n
  OBVIOUS

\* A set of values that grows keeps its sequences.
LEMMA SeqGrows ==
  ASSUME NEW S, NEW T, S \subseteq T, NEW q \in Seq(S)
  PROVE  q \in Seq(T)
  <1>1. Len(q) \in Nat /\ q \in [1 .. Len(q) -> S]
    OBVIOUS
  <1> QED BY <1>1

LEMMA ListTyped ==
  ASSUME SessionTypes PROVE List \in Lists
  <1>1. managed \in SUBSET Sessions
    BY DEF SessionTypes
  <1>2. List \in [managed -> Statuses]
    BY <1>1 DEF SessionTypes, List
  <1> QED BY <1>1, <1>2, Zenon DEF Lists

LEMMA NoListTyped == NoList \in Lists
  <1>1. NoList \in [{} -> Statuses]
    BY DEF NoList
  <1> QED BY <1>1, Zenon DEF Lists

(***************************************************************************)
(* What a step that leaves its variables alone does not disturb.           *)
(***************************************************************************)

LEMMA SessionTypesKept ==
  ASSUME SessionTypes, UNCHANGED <<mgrVars, cbVars, waiter>> PROVE SessionTypes'
  BY DEF SessionTypes, mgrVars, cbVars

LEMMA TerminalTypesKept ==
  ASSUME TerminalTypes, UNCHANGED <<asks, asking, screen>> PROVE TerminalTypes'
  BY DEF TerminalTypes

LEMMA ReaderTypesKept ==
  ASSUME ReaderTypes, UNCHANGED <<reader, asks, reqs>> PROVE ReaderTypes'
  BY DEF ReaderTypes

LEMMA RequestTypesKept ==
  ASSUME RequestTypes, UNCHANGED <<seen, asks, reqs, pending, cards, answers, input>>
  PROVE RequestTypes'
  BY DEF RequestTypes, Requests

LEMMA HandlerTypesKept ==
  ASSUME HandlerTypes, UNCHANGED <<handler, reqs>> PROVE HandlerTypes'
  BY DEF HandlerTypes

LEMMA PeerTypesKept ==
  ASSUME PeerTypes, PeerBusy, UNCHANGED <<conn, streams, announcer, msgs, shown, offerVars>>
  PROVE PeerTypes' /\ PeerBusy'
  BY DEF PeerTypes, PeerBusy, offerVars

LEMMA BusyKept ==
  ASSUME Busy, UNCHANGED <<reader, handler>> PROVE Busy'
  BY DEF Busy

(***************************************************************************)
(* The types, one lemma per group of steps.                                *)
(***************************************************************************)

LEMMA InitTypes == Init => Types
  <1> SUFFICES ASSUME Init PROVE Types
    OBVIOUS
  <1>1. SessionTypes
    <2>1. First \in Sessions
      BY BridgeAssumption
    <2>2. waiter \in [Sessions -> [at : {"wait", "list", "send", "done"},
                                   to : Bridges \union {Nil}, list : Lists]]
      BY NoListTyped DEF Init, Waiting
    <2> QED BY <2>1, <2>2 DEF Init, SessionTypes, Statuses
  <1>2. Len(asks) = 0 /\ Len(reqs) = 0
    BY DEF Init
  <1>3. TerminalTypes
    BY <1>2, BridgeAssumption DEF Init, TerminalTypes
  <1>4. ReaderTypes
    BY <1>2 DEF Init, ReaderTypes, Resting, ReaderSteps
  <1>5. RequestTypes
    BY <1>2 DEF Init, RequestTypes, Requests
  <1>6. HandlerTypes
    BY <1>2, NoListTyped, BridgeAssumption DEF Init, HandlerTypes, Idle, HandlerSteps
  <1>7. PeerTypes
    BY NoListTyped, BridgeAssumption DEF Init, PeerTypes, Quiet
  <1>8. Busy /\ PeerBusy
    BY DEF Init, Busy, PeerBusy, Resting, Idle, Quiet
  <1> QED BY <1>1, <1>3, <1>4, <1>5, <1>6, <1>7, <1>8 DEF Types, TypeOK

LEMMA TerminalsKeepTypes ==
  ASSUME Types, Terminals
  PROVE  Types'
  <1> USE DEF Types, TypeOK
  <1>1. ASSUME NEW s \in Sessions, Show(s) PROVE Types'
    <2>1. PICK t \in Prompts : asks' = Append(asks, [sess |-> s, text |-> t])
      BY <1>1 DEF Show
    <2>2. asks' \in Seq([sess : Sessions, text : Prompts]) /\ Len(asks') = Len(asks) + 1
      BY <2>1, Append1 DEF TerminalTypes
    <2>3. Len(asks) \in Nat /\ 1 .. Len(asks) \subseteq 1 .. Len(asks')
      BY <2>2 DEF TerminalTypes
    <2>4. \A x \in Sessions : screen[x] \in Seq(1 .. Len(asks'))
      BY <2>3, SeqGrows DEF TerminalTypes
    <2>5. screen' \in [Sessions -> Seq(1 .. Len(asks'))]
      <3>1. Append(screen[s], Len(asks) + 1) \in Seq(1 .. Len(asks'))
        BY <2>2, <2>3, <2>4, Append1
      <3> QED BY <1>1, <2>4, <3>1 DEF Show, TerminalTypes
    <2>6. asking' \in [Sessions -> 0 .. Len(asks')]
      BY <1>1, <2>2, <2>3 DEF Show, TerminalTypes
    <2>7. TerminalTypes'
      BY <1>1, <2>2, <2>3, <2>5, <2>6, BridgeAssumption DEF Show, TerminalTypes
    <2>8. ReaderTypes'
      BY <1>1, <2>2, <2>3 DEF Show, ReaderTypes, appVars
    <2>9. RequestTypes'
      <3>1. Requests \subseteq Requests'
        BY <2>3 DEF Requests
      <3>2. reqs \in Seq(Requests')
        BY <3>1, SeqGrows DEF RequestTypes
      <3> QED BY <1>1, <3>2 DEF Show, RequestTypes, appVars
    <2> QED BY <1>1, <2>7, <2>8, <2>9, SessionTypesKept, HandlerTypesKept, PeerTypesKept, BusyKept
            DEF Show, appVars, bridgeVars, bridgeVarsExceptHandler
  <1>2. ASSUME NEW s \in Sessions, Redraw(s) PROVE Types'
    <2>1. Append(screen[s], asking[s]) \in Seq(1 .. Len(asks))
      BY <1>2, Append1 DEF Redraw, TerminalTypes
    <2>2. TerminalTypes'
      BY <1>2, <2>1 DEF Redraw, TerminalTypes
    <2> QED BY <1>2, <2>2, SessionTypesKept, ReaderTypesKept, RequestTypesKept,
               HandlerTypesKept, PeerTypesKept, BusyKept
            DEF Redraw, appVars, bridgeVars, bridgeVarsExceptHandler
  <1>3. ASSUME NEW s \in Sessions, Consume(s) PROVE Types'
    <2>1. Tail(input[s]) \in Seq(0 .. Len(reqs))
      BY <1>3, Tail1 DEF Consume, RequestTypes
    <2>2. RequestTypes'
      BY <1>3, <2>1 DEF Consume, RequestTypes, Requests, appVars
    <2>3. TerminalTypes'
      BY <1>3 DEF Consume, TerminalTypes
    <2> QED BY <1>3, <2>2, <2>3, SessionTypesKept, ReaderTypesKept,
               HandlerTypesKept, PeerTypesKept, BusyKept
            DEF Consume, appVars, bridgeVars, bridgeVarsExceptHandler
  <1>4. ASSUME NEW s \in Sessions, Leave(s) PROVE Types'
    <2>1. SessionTypes'
      BY <1>4 DEF Leave, SessionTypes, cbVars
    <2> QED BY <1>4, <2>1, TerminalTypesKept, ReaderTypesKept, RequestTypesKept,
               HandlerTypesKept, PeerTypesKept, BusyKept
            DEF Leave, termVars, appVars, bridgeVars, bridgeVarsExceptHandler
  <1>5. ASSUME Keyboard PROVE Types'
    <2>1. Append(input[First], 0) \in Seq(0 .. Len(reqs))
      BY Append1, BridgeAssumption DEF RequestTypes
    <2>2. RequestTypes'
      BY <1>5, <2>1 DEF Keyboard, RequestTypes, Requests, appVars
    <2> QED BY <1>5, <2>2, SessionTypesKept, TerminalTypesKept, ReaderTypesKept,
               HandlerTypesKept, PeerTypesKept, BusyKept
            DEF Keyboard, appVars, bridgeVars, bridgeVarsExceptHandler
  <1> QED BY <1>1, <1>2, <1>3, <1>4, <1>5 DEF Terminals


\* The next callback of a round: the reader rests or has something to run.
LEMMA NextCallbackTypes ==
  ASSUME Types, NEW s \in Sessions, reader[s].at # "rest", NextCallback(s),
         UNCHANGED <<asks, reqs>>
  PROVE  /\ ReaderTypes'
         /\ \A x \in Sessions : reader'[x].at # "rest" =>
               reader'[x].todo # << >> /\ reader'[x].ask # 0
         /\ \A x \in Sessions : reader'[x].at = "send" => reader'[x].req # 0
  <1>1. /\ reader[s].todo \in Seq(Bridges) /\ reader[s].todo # << >>
        /\ reader[s].ask \in 0 .. Len(asks) /\ reader[s].ask # 0
    BY DEF Types, TypeOK, Busy, ReaderTypes
  <1>2. Tail(reader[s].todo) \in Seq(Bridges)
    BY <1>1, Tail1
  <1>3. Len(reqs) \in Nat /\ Len(asks) \in Nat
    BY DEF Types, TypeOK, RequestTypes, TerminalTypes
  <1>4. CASE Tail(reader[s].todo) = << >>
    <2>1. reader' = [reader EXCEPT ![s] = Resting]
      BY <1>4 DEF NextCallback
    <2> QED BY <2>1, <1>3 DEF Types, TypeOK, Busy, ReaderTypes, Resting, ReaderSteps
  <1>5. CASE Tail(reader[s].todo) # << >>
    <2>1. reader' = [reader EXCEPT ![s] =
                       [at |-> "check", ask |-> reader[s].ask, req |-> 0,
                        todo |-> Tail(reader[s].todo)]]
      BY <1>5 DEF NextCallback
    <2> QED BY <2>1, <1>1, <1>2, <1>3, <1>5 DEF Types, TypeOK, Busy, ReaderTypes, ReaderSteps
  <1> QED BY <1>4, <1>5

LEMMA ReadLoopKeepsTypes ==
  ASSUME Types, NEW s \in Sessions, ReadLoop(s)
  PROVE  Types'
  <1> USE DEF Types, TypeOK
  <1>0. Len(reqs) \in Nat /\ Len(asks) \in Nat
    BY DEF RequestTypes, TerminalTypes
  <1>1. CASE ReadChunk(s)
    <2>1. /\ Head(screen[s]) \in 1 .. Len(asks)
          /\ Tail(screen[s]) \in Seq(1 .. Len(asks))
      BY <1>1, Tail1 DEF ReadChunk, TerminalTypes
    <2>2. TerminalTypes'
      BY <1>1, <2>1 DEF ReadChunk, TerminalTypes
    <2>3. onOutputs[s] \in Seq(Bridges)
      BY DEF SessionTypes
    <2>4. ReaderTypes' /\ Busy'
      <3>1. CASE onOutputs[s] = << >>
        <4>1. reader' = [reader EXCEPT ![s] = Resting]
          BY <1>1, <3>1 DEF ReadChunk
        <4> QED BY <1>1, <4>1, <1>0 DEF ReadChunk, ReaderTypes, ReaderSteps, Busy,
                   Resting, appVars, bridgeVars
      <3>2. CASE onOutputs[s] # << >>
        <4>1. reader' = [reader EXCEPT ![s] =
                           [at |-> "check", ask |-> Head(screen[s]), req |-> 0,
                            todo |-> onOutputs[s]]]
          BY <1>1, <3>2 DEF ReadChunk
        <4> QED BY <1>1, <4>1, <3>2, <1>0, <2>1, <2>3 DEF ReadChunk, ReaderTypes,
                   ReaderSteps, Busy, appVars, bridgeVars
      <3> QED BY <3>1, <3>2
    <2> QED BY <1>1, <2>2, <2>4, SessionTypesKept, RequestTypesKept, HandlerTypesKept,
               PeerTypesKept
            DEF ReadChunk, appVars, bridgeVars, bridgeVarsExceptHandler
  <1>2. CASE CheckCancelled(s)
    <2>1. ReaderTypes' /\ Busy'
      <3>1. CASE NextCallback(s)
        BY <1>2, <3>1, NextCallbackTypes
           DEF CheckCancelled, appVars, termVars, bridgeVars, Busy
      <3>2. CASE reader' = [reader EXCEPT ![s].at = "scan"]
        BY <1>2, <3>2, <1>0 DEF CheckCancelled, appVars, termVars, bridgeVars, Busy,
           ReaderTypes, ReaderSteps
      <3> QED BY <1>2, <3>1, <3>2 DEF CheckCancelled
    <2> QED BY <1>2, <2>1, SessionTypesKept, TerminalTypesKept, RequestTypesKept,
               HandlerTypesKept, PeerTypesKept
            DEF CheckCancelled, termVars, appVars, bridgeVars, bridgeVarsExceptHandler
  <1>3. CASE ScanChunk(s)
    <2>1. ReaderTypes' /\ Busy'
      <3>1. CASE NextCallback(s)
        BY <1>3, <3>1, NextCallbackTypes DEF ScanChunk, termVars, bridgeVars, Busy
      <3>2. CASE reader' = [reader EXCEPT ![s].at = "ask"]
        BY <1>3, <3>2, <1>0 DEF ScanChunk, termVars, bridgeVars, Busy,
           ReaderTypes, ReaderSteps
      <3> QED BY <1>3, <3>1, <3>2 DEF ScanChunk
    <2>2. seen' \subseteq Prompts
      BY <1>3 DEF ScanChunk, SeenAfter, RequestTypes
    <2>3. RequestTypes'
      BY <1>3, <2>2 DEF ScanChunk, RequestTypes, Requests, termVars
    <2> QED BY <1>3, <2>1, <2>3, SessionTypesKept, TerminalTypesKept,
               HandlerTypesKept, PeerTypesKept
            DEF ScanChunk, termVars, bridgeVars, bridgeVarsExceptHandler
  <1>4. CASE RecordRequest(s)
    <2> DEFINE b == Head(reader[s].todo)
    <2> DEFINE r == Len(reqs) + 1
    <2> DEFINE new == [bridge |-> b, sess |-> s, ask |-> reader[s].ask]
    <2>1. b \in Bridges /\ reader[s].ask \in 1 .. Len(asks)
      <3>1. reader[s].todo \in Seq(Bridges) /\ reader[s].todo # << >>
        BY <1>4 DEF RecordRequest, ReaderTypes, Busy
      <3> QED BY <1>4, <3>1, <1>0, Tail1 DEF RecordRequest, ReaderTypes, Busy
    <2>2. new \in Requests
      BY <2>1 DEF Requests
    <2>3. /\ reqs' = Append(reqs, new)
          /\ pending' = [pending EXCEPT ![b] = @ \union {r}]
          /\ reader' = [reader EXCEPT ![s].at = "send", ![s].req = r]
          /\ UNCHANGED <<mgrVars, cbVars, termVars, waiter, seen, cards, answers,
                         bridgeVars, offerVars>>
      BY <1>4 DEF RecordRequest
    <2>4. reqs' \in Seq(Requests) /\ Len(reqs') = Len(reqs) + 1
      BY <2>2, <2>3, Append1 DEF RequestTypes
    <2>5. 0 .. Len(reqs) \subseteq 0 .. Len(reqs') /\ 1 .. Len(reqs) \subseteq 1 .. Len(reqs')
      BY <2>4, <1>0
    <2>6. RequestTypes'
      <3>1. Requests' = Requests
        BY <2>3 DEF Requests, termVars
      <3>2. pending' \in [Bridges -> SUBSET (1 .. Len(reqs'))]
        BY <2>1, <2>3, <2>4, <2>5, <1>0 DEF RequestTypes
      <3>3. cards' \in [Bridges -> SUBSET (1 .. Len(reqs'))]
        BY <2>3, <2>5 DEF RequestTypes
      <3>4. answers' \in Seq([req : 1 .. Len(reqs'), sess : Sessions])
        <4>1. [req : 1 .. Len(reqs), sess : Sessions]
                \subseteq [req : 1 .. Len(reqs'), sess : Sessions]
          BY <2>5
        <4>2. answers \in Seq([req : 1 .. Len(reqs), sess : Sessions])
          BY DEF RequestTypes
        <4>3. answers \in Seq([req : 1 .. Len(reqs'), sess : Sessions])
          BY <4>1, <4>2, SeqGrows, Zenon
        <4> QED BY <2>3, <4>3, Zenon
      <3>5. input' \in [Sessions -> Seq(0 .. Len(reqs'))]
        <4>1. \A x \in Sessions : input[x] \in Seq(0 .. Len(reqs'))
          BY <2>5, SeqGrows DEF RequestTypes
        <4> QED BY <2>3, <4>1 DEF RequestTypes, termVars
      <3> QED BY <2>3, <2>4, <3>1, <3>2, <3>3, <3>4, <3>5 DEF RequestTypes
    <2>7. ReaderTypes' /\ Busy'
      <3> DEFINE R(n) == [at : ReaderSteps, ask : 0 .. Len(asks), req : 0 .. n,
                          todo : Seq(Bridges)]
      <3>1. UNCHANGED <<asks, handler>>
        BY <2>3 DEF termVars, bridgeVars
      <3>2. \A x \in Sessions : reader[x] \in R(Len(reqs'))
        BY <2>5 DEF ReaderTypes
      <3>3. r \in 0 .. Len(reqs') /\ r # 0
        BY <1>0, <2>4
      <3>4. /\ reader'[s] = [reader[s] EXCEPT !.at = "send", !.req = r]
            /\ \A x \in Sessions \ {s} : reader'[x] = reader[x]
            /\ DOMAIN reader' = Sessions /\ reader' = [x \in Sessions |-> reader'[x]]
        BY <2>3 DEF ReaderTypes
      <3>5. reader[s].at = "ask"
        BY <1>4 DEF RecordRequest
      <3> HIDE DEF r
      <3>6. /\ reader'[s] \in R(Len(reqs'))
            /\ reader'[s].at = "send" /\ reader'[s].req = r
            /\ reader'[s].todo = reader[s].todo /\ reader'[s].ask = reader[s].ask
        BY <3>2, <3>3, <3>4 DEF ReaderSteps
      <3>7. \A x \in Sessions : reader'[x] \in R(Len(reqs'))
        BY <3>2, <3>4, <3>6
      <3>8. ReaderTypes'
        BY <3>1, <3>4, <3>7 DEF ReaderTypes
      <3>9. ASSUME NEW x \in Sessions
            PROVE  /\ reader'[x].at # "rest" => reader'[x].todo # << >> /\ reader'[x].ask # 0
                   /\ reader'[x].at = "send" => reader'[x].req # 0
        <4>1. CASE x = s
          BY <3>3, <3>5, <3>6, <4>1 DEF Busy
        <4>2. CASE x # s
          BY <3>4, <4>2 DEF Busy
        <4> QED BY <4>1, <4>2
      <3>10. Busy'
        BY <3>1, <3>9 DEF Busy
      <3> QED BY <3>8, <3>10
    <2>8. HandlerTypes'
      BY <2>3, <2>5 DEF HandlerTypes, bridgeVars
    <2> QED BY <2>3, <2>6, <2>7, <2>8, SessionTypesKept, TerminalTypesKept, PeerTypesKept
            DEF termVars, bridgeVars, bridgeVarsExceptHandler
  <1>5. CASE SendRequest(s)
    <2>1. ReaderTypes' /\ Busy'
      BY <1>5, NextCallbackTypes DEF SendRequest, termVars, bridgeVars, Busy
    <2>2. reader[s].req \in 1 .. Len(reqs)
      BY <1>5, <1>0 DEF SendRequest, ReaderTypes, Busy
    <2>3. cards' \in [Bridges -> SUBSET (1 .. Len(reqs))]
      BY <1>5, <2>2 DEF SendRequest, RequestTypes
    <2>4. RequestTypes'
      BY <1>5, <2>3 DEF SendRequest, RequestTypes, Requests, termVars
    <2> QED BY <1>5, <2>1, <2>4, SessionTypesKept, TerminalTypesKept,
               HandlerTypesKept, PeerTypesKept
            DEF SendRequest, termVars, bridgeVars, bridgeVarsExceptHandler
  <1> QED BY <1>1, <1>2, <1>3, <1>4, <1>5 DEF ReadLoop


LEMMA WaitLoopKeepsTypes ==
  ASSUME Types, NEW s \in Sessions, WaitLoop(s)
  PROVE  Types'
  <1> USE DEF Types, TypeOK
  <1>1. waiter[s] \in [at : {"wait", "list", "send", "done"},
                       to : Bridges \union {Nil}, list : Lists]
    BY DEF SessionTypes
  <1>2. CASE MarkExited(s)
    <2>1. status' \in [Sessions -> Statuses]
      BY <1>2 DEF MarkExited, SessionTypes, Statuses
    <2>2. waiter' \in [Sessions -> [at : {"wait", "list", "send", "done"},
                                    to : Bridges \union {Nil}, list : Lists]]
      BY <1>2, NoListTyped DEF MarkExited, SessionTypes
    <2>3. SessionTypes'
      BY <1>2, <2>1, <2>2 DEF MarkExited, SessionTypes, cbVars
    <2> QED BY <1>2, <2>3, TerminalTypesKept, ReaderTypesKept, RequestTypesKept,
               HandlerTypesKept, PeerTypesKept, BusyKept
            DEF MarkExited, termVars, appVars, bridgeVars, bridgeVarsExceptHandler
  <1>3. CASE ExitList(s)
    <2>1. SessionTypes'
      BY <1>1, <1>3, ListTyped DEF ExitList, SessionTypes, mgrVars, cbVars
    <2> QED BY <1>3, <2>1, TerminalTypesKept, ReaderTypesKept, RequestTypesKept,
               HandlerTypesKept, PeerTypesKept, BusyKept
            DEF ExitList, termVars, appVars, bridgeVars, bridgeVarsExceptHandler
  <1>4. CASE ExitSend(s)
    <2>1. SessionTypes'
      BY <1>1, <1>4, NoListTyped DEF ExitSend, SessionTypes, mgrVars, cbVars
    <2>2. shown' \in [Bridges -> Lists]
      BY <1>1, <1>4 DEF ExitSend, SendList, PeerTypes
    <2>3. PeerTypes' /\ PeerBusy'
      BY <1>4, <2>2 DEF ExitSend, PeerTypes, PeerBusy, offerVars
    <2> QED BY <1>4, <2>1, <2>3, TerminalTypesKept, ReaderTypesKept, RequestTypesKept,
               HandlerTypesKept, BusyKept
            DEF ExitSend, termVars, appVars
  <1> QED BY <1>2, <1>3, <1>4 DEF WaitLoop

\* The handler of b goes on to h.
LEMMA HandlerTypesStep ==
  ASSUME Types, NEW b \in Bridges,
         NEW h \in [op : HandlerSteps, sess : Sessions, req : 0 .. Len(reqs), list : Lists],
         h.op = "answer" => h.req # 0,
         handler' = [handler EXCEPT ![b] = h], UNCHANGED <<reqs, reader>>
  PROVE  HandlerTypes' /\ Busy'
  <1>1. HandlerTypes'
    BY DEF Types, TypeOK, HandlerTypes
  <1>2. \A c \in Bridges : handler'[c] = IF c = b THEN h ELSE handler[c]
    BY DEF Types, TypeOK, HandlerTypes
  <1>3. Busy'
    BY <1>2, SMT DEF Types, Busy
  <1> QED BY <1>1, <1>3

LEMMA MessageKeepsTypes ==
  ASSUME Types, NEW b \in Bridges, Message(b)
  PROVE  Types'
  <1> USE DEF Types, TypeOK
  <1>0. Len(reqs) \in Nat /\ First \in Sessions
    BY BridgeAssumption DEF RequestTypes
  <1>1. ASSUME NEW r \in cards[b], ApprovalResponse(b, r) PROVE Types'
    <2>1. r \in 1 .. Len(reqs)
      BY DEF RequestTypes
    <2>2. reqs[r].sess \in Sessions
      <3>1. reqs[r] \in Requests
        BY <2>1, ElementOf DEF RequestTypes
      <3> QED BY <3>1 DEF Requests
    <2> DEFINE h == [op |-> "answer", sess |-> reqs[r].sess, req |-> r, list |-> NoList]
    <2>a. h \in [op : HandlerSteps, sess : Sessions, req : 0 .. Len(reqs), list : Lists]
      BY <1>0, <2>1, <2>2, NoListTyped DEF HandlerSteps
    <2>b. /\ handler' = [handler EXCEPT ![b] = h]
          /\ UNCHANGED <<reqs, reader>>
      BY <1>1 DEF ApprovalResponse
    <2>c. h.op = "answer" => h.req # 0
      BY <1>0, <2>1, <2>2
    <2>3. HandlerTypes' /\ Busy'
      <3> HIDE DEF h
      <3> QED BY <2>a, <2>b, <2>c, HandlerTypesStep
    <2>4. RequestTypes'
      BY <1>1 DEF ApprovalResponse, RequestTypes, Requests, termVars
    <2> QED BY <1>1, <2>3, <2>4, SessionTypesKept, TerminalTypesKept, ReaderTypesKept,
               PeerTypesKept DEF ApprovalResponse, termVars
  <1>2. ASSUME NEW s \in Sessions, TermInput(b, s) PROVE Types'
    <2> DEFINE h == [op |-> "type", sess |-> s, req |-> 0, list |-> NoList]
    <2>a. h \in [op : HandlerSteps, sess : Sessions, req : 0 .. Len(reqs), list : Lists]
      BY <1>0, NoListTyped DEF HandlerSteps
    <2>b. /\ handler' = [handler EXCEPT ![b] = h]
          /\ UNCHANGED <<reqs, reader>>
      BY <1>2 DEF TermInput, appVars
    <2>c. h.op = "answer" => h.req # 0
      BY <1>0
    <2>1. HandlerTypes' /\ Busy'
      <3> HIDE DEF h
      <3> QED BY <2>a, <2>b, <2>c, HandlerTypesStep
    <2> QED BY <1>2, <2>1, SessionTypesKept, TerminalTypesKept, ReaderTypesKept,
               RequestTypesKept, PeerTypesKept DEF TermInput, appVars, termVars
  <1>3. ASSUME NEW s \in Sessions, SessionClose(b, s) PROVE Types'
    <2> DEFINE h == [op |-> "close", sess |-> s, req |-> 0, list |-> NoList]
    <2>a. h \in [op : HandlerSteps, sess : Sessions, req : 0 .. Len(reqs), list : Lists]
      BY <1>0, NoListTyped DEF HandlerSteps
    <2>b. /\ handler' = [handler EXCEPT ![b] = h]
          /\ UNCHANGED <<reqs, reader>>
      BY <1>3 DEF SessionClose, appVars
    <2>c. h.op = "answer" => h.req # 0
      BY <1>0
    <2>1. HandlerTypes' /\ Busy'
      <3> HIDE DEF h
      <3> QED BY <2>a, <2>b, <2>c, HandlerTypesStep
    <2>2. PeerTypes' /\ PeerBusy'
      BY <1>3, BridgeAssumption DEF SessionClose, Detach, PeerTypes, PeerBusy, offerVars
    <2> QED BY <1>3, <2>1, <2>2, SessionTypesKept, TerminalTypesKept, ReaderTypesKept,
               RequestTypesKept DEF SessionClose, appVars, termVars
  <1>4. ASSUME SessionCreate(b) PROVE Types'
    <2> DEFINE h == [Idle EXCEPT !.op = "create"]
    <2>a. h \in [op : HandlerSteps, sess : Sessions, req : 0 .. Len(reqs), list : Lists]
      BY <1>0, NoListTyped DEF HandlerSteps, Idle
    <2>b. /\ handler' = [handler EXCEPT ![b] = h]
          /\ UNCHANGED <<reqs, reader>>
      BY <1>4 DEF SessionCreate, appVars
    <2>c. h.op = "answer" => h.req # 0
      BY <1>0 DEF Idle
    <2>1. HandlerTypes' /\ Busy'
      <3> HIDE DEF h
      <3> QED BY <2>a, <2>b, <2>c, HandlerTypesStep
    <2>2. PeerTypes' /\ PeerBusy'
      BY <1>4, BridgeAssumption DEF SessionCreate, PeerTypes, PeerBusy, offerVars
    <2> QED BY <1>4, <2>1, <2>2, SessionTypesKept, TerminalTypesKept, ReaderTypesKept,
               RequestTypesKept DEF SessionCreate, appVars, termVars
  <1> QED BY <1>1, <1>2, <1>3, <1>4 DEF Message

\* AttachSession changes the callbacks and the streams by values of their types.
LEMMA AttachTypes ==
  ASSUME Types, NEW b \in Bridges, NEW s \in Sessions, Attach(b, s)
  PROVE  /\ streams' \in [Bridges -> SUBSET Sessions]
         /\ onOutputs' \in [Sessions -> Seq(Bridges)]
         /\ onExit' \in [Sessions -> Bridges \union {Nil}]
  <1>1. Append(onOutputs[s], b) \in Seq(Bridges)
    BY Append1 DEF Types, TypeOK, SessionTypes
  <1>2. CASE s \in managed /\ s \notin streams[b]
    <2>1. /\ streams' = [streams EXCEPT ![b] = @ \union {s}]
          /\ onOutputs' = [onOutputs EXCEPT ![s] = Append(@, b)]
          /\ onExit' = [onExit EXCEPT ![s] = b]
      BY <1>2 DEF Attach
    <2> QED BY <1>1, <2>1 DEF Types, TypeOK, SessionTypes, PeerTypes
  <1>3. CASE ~(s \in managed /\ s \notin streams[b])
    BY <1>3 DEF Types, TypeOK, SessionTypes, PeerTypes, Attach, cbVars
  <1> QED BY <1>2, <1>3


LEMMA HandlerKeepsTypes ==
  ASSUME Types, NEW b \in Bridges, Handler(b)
  PROVE  Types'
  <1> USE DEF Types, TypeOK
  <1>0. /\ handler[b] \in [op : HandlerSteps, sess : Sessions, req : 0 .. Len(reqs),
                           list : Lists]
        /\ Len(reqs) \in Nat /\ First \in Sessions
    BY BridgeAssumption DEF HandlerTypes, RequestTypes
  <1>1. CASE WriteInput(b)
    <2> DEFINE h == Idle
    <2>a. h \in [op : HandlerSteps, sess : Sessions, req : 0 .. Len(reqs), list : Lists]
      BY <1>0, NoListTyped DEF HandlerSteps, Idle
    <2>b. handler' = [handler EXCEPT ![b] = h] /\ UNCHANGED <<reqs, reader>>
      BY <1>1 DEF WriteInput, termVars
    <2>c. h.op # "answer"
      BY <1>0 DEF Idle
    <2> HIDE DEF h
    <2>d. HandlerTypes' /\ Busy'
      BY <2>a, <2>b, <2>c, HandlerTypesStep
    <2>1. input' \in [Sessions -> Seq(0 .. Len(reqs))]
      <3>1. Append(input[handler[b].sess], handler[b].req) \in Seq(0 .. Len(reqs))
        BY <1>0, Append1 DEF RequestTypes
      <3> QED BY <1>0, <1>1, <3>1 DEF WriteInput, RequestTypes
    <2>2. answers' \in Seq([req : 1 .. Len(reqs), sess : Sessions])
      <3>1. CASE answers' = answers
        BY <3>1 DEF RequestTypes
      <3>2. CASE /\ handler[b].op = "answer"
                 /\ answers' = Append(answers, [req |-> handler[b].req,
                                               sess |-> handler[b].sess])
        <4>1. [req |-> handler[b].req, sess |-> handler[b].sess]
                \in [req : 1 .. Len(reqs), sess : Sessions]
          BY <1>0, <3>2 DEF Busy
        <4>2. answers \in Seq([req : 1 .. Len(reqs), sess : Sessions])
          BY DEF RequestTypes
        <4> QED BY <3>2, <4>1, <4>2, Append1
      <3> QED BY <1>1, <3>1, <3>2 DEF WriteInput
    <2>e. RequestTypes'
      BY <1>1, <2>1, <2>2 DEF WriteInput, RequestTypes, Requests
    <2> QED BY <1>1, <2>d, <2>e, SessionTypesKept, TerminalTypesKept, ReaderTypesKept, PeerTypesKept
            DEF WriteInput, termVars
  <1>2. CASE CreateFails(b)
    <2> DEFINE h == Idle
    <2>a. h \in [op : HandlerSteps, sess : Sessions, req : 0 .. Len(reqs), list : Lists]
      BY <1>0, NoListTyped DEF HandlerSteps, Idle
    <2>b. handler' = [handler EXCEPT ![b] = h] /\ UNCHANGED <<reqs, reader>>
      BY <1>2 DEF CreateFails, termVars, appVars, bridgeVarsExceptHandler
    <2>c. h.op # "answer"
      BY <1>0 DEF Idle
    <2> HIDE DEF h
    <2>d. HandlerTypes' /\ Busy'
      BY <2>a, <2>b, <2>c, HandlerTypesStep
    <2> QED BY <1>2, <2>d, SessionTypesKept, TerminalTypesKept, ReaderTypesKept, RequestTypesKept, PeerTypesKept
            DEF CreateFails, termVars, appVars, bridgeVarsExceptHandler
  <1>3. CASE Create(b)
    <2>1. PICK s \in Sessions :
            /\ managed' = managed \union {s} /\ alive' = alive \union {s}
            /\ status' = [status EXCEPT ![s] = "running"]
            /\ handler' = [handler EXCEPT ![b].op = "attach", ![b].sess = s]
      BY <1>3 DEF Create
    <2> DEFINE h == [handler[b] EXCEPT !.op = "attach", !.sess = s]
    <2>a. h \in [op : HandlerSteps, sess : Sessions, req : 0 .. Len(reqs), list : Lists]
      BY <1>0 DEF HandlerSteps
    <2>b. handler' = [handler EXCEPT ![b] = h] /\ UNCHANGED <<reqs, reader>>
      <3>1. handler' = [handler EXCEPT ![b] = h]
        BY <2>1, Zenon
      <3>2. UNCHANGED <<reqs, reader>>
        BY <1>3 DEF Create, appVars
      <3> QED BY <3>1, <3>2
    <2>c. h.op # "answer"
      BY <1>0
    <2> HIDE DEF h
    <2>d. HandlerTypes' /\ Busy'
      BY <2>a, <2>b, <2>c, HandlerTypesStep
    <2>e. SessionTypes'
      BY <1>3, <2>1 DEF Create, SessionTypes, Statuses, cbVars
    <2> QED BY <1>3, <2>d, <2>e, TerminalTypesKept, ReaderTypesKept, RequestTypesKept,
               PeerTypesKept
            DEF Create, termVars, appVars, bridgeVarsExceptHandler
  <1>4. CASE SessionCreated(b)
    <2> DEFINE h == [handler[b] EXCEPT !.op = "list"]
    <2>a. h \in [op : HandlerSteps, sess : Sessions, req : 0 .. Len(reqs), list : Lists]
      BY <1>0, NoListTyped DEF HandlerSteps
    <2>b. handler' = [handler EXCEPT ![b] = h] /\ UNCHANGED <<reqs, reader>>
      BY <1>4 DEF SessionCreated, termVars, appVars
    <2>c. h.op # "answer"
      BY <1>0
    <2> HIDE DEF h
    <2>d. HandlerTypes' /\ Busy'
      BY <2>a, <2>b, <2>c, HandlerTypesStep
    <2>1. /\ streams' \in [Bridges -> SUBSET Sessions]
          /\ onOutputs' \in [Sessions -> Seq(Bridges)]
          /\ onExit' \in [Sessions -> Bridges \union {Nil}]
      BY <1>0, <1>4, AttachTypes DEF SessionCreated
    <2>e. SessionTypes'
      BY <1>4, <2>1 DEF SessionCreated, SessionTypes, mgrVars
    <2>f. PeerTypes' /\ PeerBusy'
      BY <1>4, <2>1 DEF SessionCreated, PeerTypes, PeerBusy, offerVars
    <2> QED BY <1>4, <2>d, <2>e, <2>f, TerminalTypesKept, ReaderTypesKept, RequestTypesKept
            DEF SessionCreated, termVars, appVars
  <1>5. CASE SessionClosed(b)
    <2> DEFINE h == [handler[b] EXCEPT !.op = "list"]
    <2>a. h \in [op : HandlerSteps, sess : Sessions, req : 0 .. Len(reqs), list : Lists]
      BY <1>0, NoListTyped DEF HandlerSteps
    <2>b. handler' = [handler EXCEPT ![b] = h] /\ UNCHANGED <<reqs, reader>>
      BY <1>5 DEF SessionClosed, termVars, appVars
    <2>c. h.op # "answer"
      BY <1>0
    <2> HIDE DEF h
    <2>d. HandlerTypes' /\ Busy'
      BY <2>a, <2>b, <2>c, HandlerTypesStep
    <2>e. SessionTypes'
      BY <1>5 DEF SessionClosed, SessionTypes, cbVars
    <2> QED BY <1>5, <2>d, <2>e, TerminalTypesKept, ReaderTypesKept, RequestTypesKept, PeerTypesKept
            DEF SessionClosed, termVars, appVars
  <1>6. CASE HandlerList(b)
    <2> DEFINE h == [handler[b] EXCEPT !.op = "send", !.list = List]
    <2>a. h \in [op : HandlerSteps, sess : Sessions, req : 0 .. Len(reqs), list : Lists]
      BY <1>0, NoListTyped, ListTyped DEF HandlerSteps
    <2>b. handler' = [handler EXCEPT ![b] = h] /\ UNCHANGED <<reqs, reader>>
      BY <1>6 DEF HandlerList, termVars, appVars
    <2>c. h.op # "answer"
      BY <1>0
    <2> HIDE DEF h
    <2>d. HandlerTypes' /\ Busy'
      BY <2>a, <2>b, <2>c, HandlerTypesStep
    <2> QED BY <1>6, <2>d, SessionTypesKept, TerminalTypesKept, ReaderTypesKept, RequestTypesKept, PeerTypesKept
            DEF HandlerList, termVars, appVars
  <1>7. CASE HandlerSend(b)
    <2> DEFINE h == Idle
    <2>a. h \in [op : HandlerSteps, sess : Sessions, req : 0 .. Len(reqs), list : Lists]
      BY <1>0, NoListTyped DEF HandlerSteps, Idle
    <2>b. handler' = [handler EXCEPT ![b] = h] /\ UNCHANGED <<reqs, reader>>
      BY <1>7 DEF HandlerSend, termVars, appVars
    <2>c. h.op # "answer"
      BY <1>0 DEF Idle
    <2> HIDE DEF h
    <2>d. HandlerTypes' /\ Busy'
      BY <2>a, <2>b, <2>c, HandlerTypesStep
    <2>1. shown' \in [Bridges -> Lists]
      BY <1>0, <1>7 DEF HandlerSend, SendList, PeerTypes
    <2>e. PeerTypes' /\ PeerBusy'
      BY <1>7, <2>1 DEF HandlerSend, PeerTypes, PeerBusy, offerVars
    <2> QED BY <1>7, <2>d, <2>e, SessionTypesKept, TerminalTypesKept, ReaderTypesKept, RequestTypesKept
            DEF HandlerSend, termVars, appVars
  <1> QED BY <1>1, <1>2, <1>3, <1>4, <1>5, <1>6, <1>7 DEF Handler

LEMMA AnnouncerKeepsTypes ==
  ASSUME Types, NEW b \in Bridges, Announcer(b)
  PROVE  Types'
  <1> USE DEF Types, TypeOK
  <1>0. announcer[b] \in [at : {"off", "sleep", "send", "end"},
                          left : 0 .. Tries, list : Lists]
    BY DEF PeerTypes
  <1>1. CASE AnnounceList(b)
    <2>1. PeerTypes' /\ PeerBusy'
      BY <1>0, <1>1, ListTyped DEF AnnounceList, PeerTypes, PeerBusy, offerVars
    <2> QED BY <1>1, <2>1, SessionTypesKept, TerminalTypesKept, ReaderTypesKept,
               RequestTypesKept, HandlerTypesKept, BusyKept
            DEF AnnounceList, termVars, appVars
  <1>2. CASE AnnounceSend(b)
    <2>1. announcer[b].left > 0
      BY <1>2 DEF AnnounceSend, PeerBusy
    <2>2. PeerTypes' /\ PeerBusy'
      BY <1>0, <1>2, <2>1, NoListTyped, BridgeAssumption
         DEF AnnounceSend, SendList, PeerTypes, PeerBusy, offerVars
    <2> QED BY <1>2, <2>2, SessionTypesKept, TerminalTypesKept, ReaderTypesKept,
               RequestTypesKept, HandlerTypesKept, BusyKept
            DEF AnnounceSend, termVars, appVars
  <1> QED BY <1>1, <1>2 DEF Announcer

LEMMA NetworkKeepsTypes ==
  ASSUME Types, Network
  PROVE  Types'
  <1> USE DEF Types, TypeOK
  <1>1. CASE OfferBegin
    <2>1. PeerTypes' /\ PeerBusy'
      BY <1>1 DEF OfferBegin, PeerTypes, PeerBusy
    <2> QED BY <1>1, <2>1, SessionTypesKept, TerminalTypesKept, ReaderTypesKept,
               RequestTypesKept, HandlerTypesKept, BusyKept
            DEF OfferBegin, termVars, appVars
  <1>2. ASSUME NEW b \in Bridges, Connect(b) PROVE Types'
    <2>1. PeerTypes' /\ PeerBusy'
      BY <1>2, NoListTyped, BridgeAssumption DEF Connect, PeerTypes, PeerBusy, offerVars
    <2> QED BY <1>2, <2>1, SessionTypesKept, TerminalTypesKept, ReaderTypesKept,
               RequestTypesKept, HandlerTypesKept, BusyKept
            DEF Connect, termVars, appVars
  <1>3. ASSUME NEW b \in Bridges, ChannelOpens(b) \/ Lose(b) PROVE Types'
    <2>1. PeerTypes' /\ PeerBusy'
      BY <1>3 DEF ChannelOpens, Lose, PeerTypes, PeerBusy, offerVars
    <2> QED BY <1>3, <2>1, SessionTypesKept, TerminalTypesKept, ReaderTypesKept,
               RequestTypesKept, HandlerTypesKept, BusyKept
            DEF ChannelOpens, Lose, termVars, appVars
  <1> QED BY <1>1, <1>2, <1>3 DEF Network

LEMMA NewOfferKeepsTypes ==
  ASSUME Types, NewOffer
  PROVE  Types'
  <1> USE DEF Types, TypeOK
  <1>1. CASE OfferFails \/ OfferEnd
    <2>1. PeerTypes' /\ PeerBusy'
      BY <1>1 DEF OfferFails, OfferEnd, PeerTypes, PeerBusy, bridgeVars, bridgeVarsExceptHandler
    <2> QED BY <1>1, <2>1, SessionTypesKept, TerminalTypesKept, ReaderTypesKept,
               RequestTypesKept, HandlerTypesKept, BusyKept
            DEF OfferFails, OfferEnd, termVars, appVars, bridgeVars
  <1>2. CASE OfferReady
    <2>0. PICK b \in Bridges : conn' = [conn EXCEPT ![b] = "new"] /\ peer' = b
      BY <1>2 DEF OfferReady
    <2>1. PeerTypes' /\ PeerBusy'
      <3>1. b # Nil
        BY DEF Bridges, Nil
      <3>2. conn' \in [Bridges -> {"none", "new", "ice", "open", "lost", "closed"}]
        BY <2>0 DEF PeerTypes
      <3> QED BY <1>2, <2>0, <3>1, <3>2 DEF OfferReady, PeerTypes, PeerBusy, SessionTypes
    <2> QED BY <1>2, <2>1, SessionTypesKept, TerminalTypesKept, ReaderTypesKept,
               RequestTypesKept, HandlerTypesKept, BusyKept
            DEF OfferReady, termVars, appVars
  <1>3. CASE OfferAttach
    <2>1. PICK s \in toAttach : Attach(peer, s) /\ toAttach' = toAttach \ {s}
      BY <1>3 DEF OfferAttach
    <2>2. s \in Sessions
      BY DEF PeerTypes
    <2>3. peer \in Bridges
      BY <1>3 DEF OfferAttach, PeerBusy, PeerTypes
    <2>4. /\ streams' \in [Bridges -> SUBSET Sessions]
          /\ onOutputs' \in [Sessions -> Seq(Bridges)]
          /\ onExit' \in [Sessions -> Bridges \union {Nil}]
      BY <2>1, <2>2, <2>3, AttachTypes
    <2>5. SessionTypes'
      BY <1>3, <2>4 DEF OfferAttach, SessionTypes, mgrVars
    <2>6. PeerTypes' /\ PeerBusy'
      BY <1>3, <2>1, <2>4 DEF OfferAttach, PeerTypes, PeerBusy
    <2> QED BY <1>3, <2>5, <2>6, TerminalTypesKept, ReaderTypesKept,
               RequestTypesKept, HandlerTypesKept, BusyKept
            DEF OfferAttach, termVars, appVars
  <1> QED BY <1>1, <1>2, <1>3 DEF NewOffer

\* The types hold in every reachable state.
LEMMA NextKeepsTypes ==
  ASSUME Types, [Next]_vars
  PROVE  Types'
  <1>1. CASE UNCHANGED vars
    BY <1>1, SessionTypesKept, TerminalTypesKept, ReaderTypesKept, RequestTypesKept,
       HandlerTypesKept, PeerTypesKept, BusyKept
       DEF Types, TypeOK, vars, termVars, appVars, bridgeVars, bridgeVarsExceptHandler
  <1>2. CASE Next
    BY <1>2, TerminalsKeepTypes, NetworkKeepsTypes, NewOfferKeepsTypes, ReadLoopKeepsTypes,
       WaitLoopKeepsTypes, MessageKeepsTypes, HandlerKeepsTypes, AnnouncerKeepsTypes DEF Next
  <1> QED BY <1>1, <1>2

\* Every variable of the host keeps its type, for any number of sessions,
\* connections, prompts and messages.
THEOREM BridgeTypeOK == Spec => []TypeOK
  <1>1. Types => TypeOK
    BY DEF Types
  <1>2. Types /\ [Next]_vars => Types'
    BY NextKeepsTypes
  <1> QED BY InitTypes, <1>1, <1>2, PTL DEF Spec


(***************************************************************************)
(* What the steps of each thread leave alone.                              *)
(***************************************************************************)

LEMMA TerminalsFrame ==
  ASSUME Terminals
  PROVE  UNCHANGED <<managed, status, reader, handler, seen, pending, reqs, cards,
                     answers, conn, peer, offer>>
  BY DEF Terminals, Show, Redraw, Consume, Leave, Keyboard, mgrVars, appVars,
         bridgeVars, bridgeVarsExceptHandler, offerVars

LEMMA ReadLoopFrame ==
  ASSUME NEW s \in Sessions, ReadLoop(s)
  PROVE  UNCHANGED <<managed, status, alive, asks, handler, answers, conn, peer, offer>>
  BY DEF ReadLoop, ReadChunk, CheckCancelled, ScanChunk, RecordRequest, SendRequest,
         mgrVars, termVars, appVars, bridgeVars, bridgeVarsExceptHandler, offerVars

LEMMA WaitLoopFrame ==
  ASSUME NEW s \in Sessions, WaitLoop(s)
  PROVE  UNCHANGED <<managed, alive, asks, reader, handler, seen, pending, reqs, cards,
                     answers, conn, peer, offer>>
  BY DEF WaitLoop, MarkExited, ExitList, ExitSend, mgrVars, termVars, appVars,
         bridgeVars, bridgeVarsExceptHandler, offerVars

LEMMA MessageFrame ==
  ASSUME NEW b \in Bridges, Message(b)
  PROVE  UNCHANGED <<managed, status, alive, asks, reader, seen, reqs, cards,
                     answers, conn, peer, offer>>
  BY DEF Message, ApprovalResponse, TermInput, SessionClose, SessionCreate,
         mgrVars, termVars, appVars, offerVars

LEMMA HandlerFrame ==
  ASSUME NEW b \in Bridges, Handler(b)
  PROVE  UNCHANGED <<asks, reader, seen, pending, reqs, cards, conn, peer, offer>>
  BY DEF Handler, WriteInput, Create, CreateFails, SessionCreated, SessionClosed,
         HandlerList, HandlerSend, termVars, appVars, bridgeVarsExceptHandler, offerVars

LEMMA AnnouncerFrame ==
  ASSUME NEW b \in Bridges, Announcer(b)
  PROVE  UNCHANGED <<managed, status, alive, asks, reader, handler, seen, pending, reqs,
                     cards, answers, conn, peer, offer>>
  BY DEF Announcer, AnnounceList, AnnounceSend, mgrVars, termVars, appVars, offerVars

LEMMA NetworkFrame ==
  ASSUME Network
  PROVE  UNCHANGED <<managed, status, alive, asks, reader, handler, seen, pending, reqs,
                     cards, answers, peer>>
  BY DEF Network, OfferBegin, Connect, ChannelOpens, Lose, mgrVars, termVars, appVars,
         offerVars

LEMMA NewOfferFrame ==
  ASSUME NewOffer
  PROVE  UNCHANGED <<managed, status, alive, asks, reader, handler, seen, pending, reqs,
                     cards, answers>>
  BY DEF NewOffer, OfferFails, OfferReady, OfferAttach, OfferEnd, mgrVars, termVars,
         appVars, bridgeVars

(***************************************************************************)
(* Peers.                                                                  *)
(***************************************************************************)

LEMMA PeersKept ==
  ASSUME OnePeer, NoPeerYet, UNCHANGED <<conn, peer, offer>>
  PROVE  OnePeer' /\ NoPeerYet'
  BY DEF OnePeer, NoPeerYet

LEMMA NextKeepsPeers ==
  ASSUME Types, OnePeer, NoPeerYet, [Next]_vars
  PROVE  OnePeer' /\ NoPeerYet'
  <1>0. conn \in [Bridges -> {"none", "new", "ice", "open", "lost", "closed"}]
    BY DEF Types, TypeOK, PeerTypes
  <1>1. CASE UNCHANGED vars
    BY <1>1, PeersKept DEF vars, bridgeVars, bridgeVarsExceptHandler, offerVars
  <1>2. CASE Terminals
    BY <1>2, TerminalsFrame, PeersKept
  <1>3. ASSUME NEW s \in Sessions, ReadLoop(s) \/ WaitLoop(s) PROVE OnePeer' /\ NoPeerYet'
    BY <1>3, ReadLoopFrame, WaitLoopFrame, PeersKept
  <1>4. ASSUME NEW b \in Bridges, Message(b) \/ Handler(b) \/ Announcer(b)
        PROVE  OnePeer' /\ NoPeerYet'
    BY <1>4, MessageFrame, HandlerFrame, AnnouncerFrame, PeersKept
  <1>5. CASE OfferBegin
    BY <1>0, <1>5 DEF OfferBegin, OnePeer, NoPeerYet
  <1>6. ASSUME NEW b \in Bridges, Connect(b) PROVE OnePeer' /\ NoPeerYet'
    BY <1>0, <1>6 DEF Connect, OnePeer, NoPeerYet, offerVars
  <1>7. ASSUME NEW b \in Bridges, ChannelOpens(b) \/ Lose(b) PROVE OnePeer' /\ NoPeerYet'
    BY <1>0, <1>7 DEF ChannelOpens, Lose, OnePeer, NoPeerYet, offerVars
  <1>8. CASE OfferFails \/ OfferAttach \/ OfferEnd
    BY <1>8 DEF OfferFails, OfferAttach, OfferEnd, OnePeer, NoPeerYet, bridgeVars,
       bridgeVarsExceptHandler
  <1>9. CASE OfferReady
    <2>1. PICK b \in Bridges : conn' = [conn EXCEPT ![b] = "new"] /\ peer' = b
      BY <1>9 DEF OfferReady
    <2>2. \A c \in Bridges : conn[c] \in {"none", "closed"}
      BY <1>9 DEF OfferReady, NoPeerYet
    <2>3. OnePeer'
      BY <1>0, <2>1, <2>2 DEF OnePeer
    <2> QED BY <1>9, <2>3 DEF OfferReady, NoPeerYet
  <1> QED BY <1>1, <1>2, <1>3, <1>4, <1>5, <1>6, <1>7, <1>8, <1>9
          DEF Next, Network, NewOffer

(***************************************************************************)
(* Sessions.                                                               *)
(***************************************************************************)

LEMMA NextKeepsSessions ==
  ASSUME Types, SessionsAccounted, [Next]_vars
  PROVE  SessionsAccounted'
  <1>0. managed \subseteq Sessions /\ IsFiniteSet(managed)
    BY BridgeAssumption, FS_Subset DEF Types, TypeOK, SessionTypes
  <1>1. CASE UNCHANGED <<managed, alive>>
    BY <1>1 DEF SessionsAccounted
  <1>2. CASE Terminals
    BY <1>2 DEF Terminals, Show, Redraw, Consume, Leave, Keyboard, mgrVars, SessionsAccounted
  <1>3. ASSUME NEW b \in Bridges, Create(b) PROVE SessionsAccounted'
    <2>1. PICK s \in Sessions : /\ managed' = managed \union {s}
                                /\ alive' = alive \union {s}
      BY <1>3 DEF Create
    <2>2. Cardinality(managed) < MaxSessions /\ Cardinality(managed) \in Nat
      BY <1>0, <1>3, FS_CardinalityType DEF Create
    <2>3. Cardinality(managed') <= Cardinality(managed) + 1
      <3>1. Cardinality(managed') = IF s \in managed THEN Cardinality(managed)
                                    ELSE Cardinality(managed) + 1
        BY <1>0, <2>1, FS_AddElement, Zenon
      <3> QED BY <2>2, <3>1
    <2>4. Cardinality(managed') \in Nat
      BY <1>0, <2>1, FS_AddElement, FS_CardinalityType
    <2> QED BY <2>1, <2>2, <2>3, <2>4, BridgeAssumption DEF SessionsAccounted
  <1>4. ASSUME NEW b \in Bridges, SessionClosed(b) PROVE SessionsAccounted'
    <2>1. managed' = managed \ {handler[b].sess}
      BY <1>4 DEF SessionClosed
    <2>2. Cardinality(managed) \in Nat /\ Cardinality(managed') \in Nat
          /\ Cardinality(managed') <= Cardinality(managed)
      <3>1. Cardinality(managed') = IF handler[b].sess \in managed
                                    THEN Cardinality(managed) - 1 ELSE Cardinality(managed)
        BY <1>0, <2>1, FS_RemoveElement, Zenon
      <3>2. Cardinality(managed) \in Nat
        BY <1>0, FS_CardinalityType
      <3>3. Cardinality(managed') \in Nat
        BY <1>0, <2>1, FS_RemoveElement, FS_CardinalityType, Zenon
      <3> QED BY <3>1, <3>2, <3>3
    <2>3. alive' \subseteq managed'
      BY <1>4 DEF SessionClosed, SessionsAccounted
    <2> QED BY <2>2, <2>3, BridgeAssumption DEF SessionsAccounted
  <1>5. ASSUME NEW b \in Bridges, Handler(b), ~Create(b), ~SessionClosed(b)
        PROVE  UNCHANGED <<managed, alive>>
    BY <1>5 DEF Handler, WriteInput, CreateFails, SessionCreated, HandlerList, HandlerSend,
       mgrVars
  <1> QED BY <1>1, <1>2, <1>3, <1>4, <1>5, ReadLoopFrame, WaitLoopFrame, MessageFrame,
             AnnouncerFrame, NetworkFrame, NewOfferFrame DEF Next, vars, mgrVars


(***************************************************************************)
(* Requests.  RecordRequest is the one step that makes one.                *)
(***************************************************************************)

\* What RecordRequest does, in terms of the requests there were.
LEMMA Recorded ==
  ASSUME Types, NEW s \in Sessions, RecordRequest(s)
  PROVE  /\ reader[s].at = "ask" /\ Head(reader[s].todo) \in Bridges
         /\ Len(reqs) \in Nat /\ Len(reqs') = Len(reqs) + 1
         /\ DOMAIN reqs = 1 .. Len(reqs) /\ DOMAIN reqs' = 1 .. Len(reqs) + 1
         /\ \A r \in 1 .. Len(reqs) : reqs'[r] = reqs[r]
         /\ reqs'[Len(reqs) + 1].bridge = Head(reader[s].todo)
         /\ reqs'[Len(reqs) + 1].sess = s
         /\ reqs'[Len(reqs) + 1].ask = reader[s].ask
         /\ pending' = [pending EXCEPT ![Head(reader[s].todo)] = @ \union {Len(reqs) + 1}]
         /\ reader' = [reader EXCEPT ![s].at = "send", ![s].req = Len(reqs) + 1]
         /\ UNCHANGED <<status, asks, seen, cards, handler, answers>>
  <1> DEFINE new == [bridge |-> Head(reader[s].todo), sess |-> s, ask |-> reader[s].ask]
  <1>1. /\ reader[s].todo \in Seq(Bridges) /\ reader[s].todo # << >>
        /\ reader[s].ask \in 1 .. Len(asks)
    <2>1. Len(asks) \in Nat
      BY DEF Types, TypeOK, TerminalTypes
    <2> QED BY <2>1 DEF Types, TypeOK, Busy, ReaderTypes, RecordRequest
  <1>2. Head(reader[s].todo) \in Bridges
    BY <1>1, Tail1
  <1>3. new \in Requests /\ reqs \in Seq(Requests)
    BY <1>1, <1>2 DEF Types, TypeOK, RequestTypes, Requests
  <1>4. reqs' = Append(reqs, new)
    BY DEF RecordRequest
  <1>5. /\ reqs' \in Seq(Requests) /\ Len(reqs') = Len(reqs) + 1
        /\ reqs'[Len(reqs) + 1] = new
        /\ \A r \in 1 .. Len(reqs) : reqs'[r] = reqs[r]
    BY <1>3, <1>4, Append1
  <1>6. /\ Len(reqs) \in Nat /\ DOMAIN reqs = 1 .. Len(reqs)
        /\ DOMAIN reqs' = 1 .. Len(reqs')
    BY <1>3, <1>5
  <1>7. /\ reader[s].at = "ask"
        /\ pending' = [pending EXCEPT ![Head(reader[s].todo)] = @ \union {Len(reqs) + 1}]
        /\ reader' = [reader EXCEPT ![s].at = "send", ![s].req = Len(reqs) + 1]
        /\ UNCHANGED <<status, asks, seen, cards, handler, answers>>
    BY DEF RecordRequest, mgrVars, termVars, bridgeVars
  <1> QED BY <1>2, <1>5, <1>6, <1>7

\* A request is the new one or an old one, which stays what it was.
LEMMA OldOrNew ==
  ASSUME Types, NEW s \in Sessions, RecordRequest(s), NEW r \in DOMAIN reqs'
  PROVE  \/ /\ r = Len(reqs) + 1
            /\ reqs'[r].bridge = Head(reader[s].todo) /\ reqs'[r].sess = s
            /\ reqs'[r].ask = reader[s].ask
         \/ r \in DOMAIN reqs /\ reqs'[r] = reqs[r]
  <1>1. /\ Len(reqs) \in Nat
        /\ DOMAIN reqs = 1 .. Len(reqs) /\ DOMAIN reqs' = 1 .. Len(reqs) + 1
    BY Recorded
  <1>2. r = Len(reqs) + 1 \/ r \in 1 .. Len(reqs)
    BY <1>1
  <1> QED BY <1>1, <1>2, Recorded

\* The other steps of readLoop: no request is made, and a reader that starts
\* one had detected something.
LEMMA NotRecorded ==
  ASSUME Types, NEW s \in Sessions, ReadLoop(s), ~RecordRequest(s)
  PROVE  /\ UNCHANGED <<reqs, pending>>
         /\ \A x \in Sessions \ {s} : reader'[x] = reader[x]
         /\ reader'[s].at # "send"
  <1>0. reader \in [Sessions -> [at : ReaderSteps, ask : 0 .. Len(asks),
                                 req : 0 .. Len(reqs), todo : Seq(Bridges)]]
    BY DEF Types, TypeOK, ReaderTypes
  <1>1. UNCHANGED <<reqs, pending>>
    BY DEF ReadLoop, ReadChunk, CheckCancelled, ScanChunk, SendRequest, appVars
  <1>2. ASSUME NextCallback(s)
        PROVE  /\ \A x \in Sessions \ {s} : reader'[x] = reader[x]
               /\ reader'[s].at # "send"
    <2>1. CASE Tail(reader[s].todo) = << >>
      BY <1>0, <1>2, <2>1 DEF NextCallback, Resting
    <2>2. CASE Tail(reader[s].todo) # << >>
      BY <1>0, <1>2, <2>2 DEF NextCallback
    <2> QED BY <2>1, <2>2
  <1>3. CASE ReadChunk(s)
    <2>1. CASE onOutputs[s] = << >>
      BY <1>0, <1>1, <1>3, <2>1 DEF ReadChunk, Resting
    <2>2. CASE onOutputs[s] # << >>
      BY <1>0, <1>1, <1>3, <2>2 DEF ReadChunk
    <2> QED BY <2>1, <2>2
  <1>4. CASE CheckCancelled(s)
    BY <1>0, <1>1, <1>2, <1>4 DEF CheckCancelled
  <1>5. CASE ScanChunk(s)
    BY <1>0, <1>1, <1>2, <1>5 DEF ScanChunk
  <1>6. CASE SendRequest(s)
    BY <1>1, <1>2, <1>6 DEF SendRequest
  <1> QED BY <1>3, <1>4, <1>5, <1>6 DEF ReadLoop

(***************************************************************************)
(* Sessions that are asked for are known.                                  *)
(***************************************************************************)

LEMMA KnownKept ==
  ASSUME Known, UNCHANGED <<managed, status, reader, reqs>>
  PROVE  Known'
  BY DEF Known

LEMMA NextKeepsKnown ==
  ASSUME Types, Known, [Next]_vars
  PROVE  Known'
  <1>0. /\ status \in [Sessions -> Statuses] /\ managed \subseteq Sessions
        /\ \A r \in DOMAIN reqs : reqs[r].sess \in Sessions
    <2>1. reqs \in Seq(Requests)
      BY DEF Types, TypeOK, RequestTypes
    <2>2. ASSUME NEW r \in DOMAIN reqs PROVE reqs[r] \in Requests
      BY <2>1
    <2> QED BY <2>2 DEF Types, TypeOK, SessionTypes, Requests
  <1>1. CASE UNCHANGED vars
    BY <1>1, KnownKept DEF vars, mgrVars, appVars
  <1>2. CASE Terminals \/ Network \/ NewOffer
    BY <1>2, KnownKept, TerminalsFrame, NetworkFrame, NewOfferFrame
  <1>3. ASSUME NEW b \in Bridges, Message(b) \/ Announcer(b) PROVE Known'
    BY <1>3, KnownKept, MessageFrame, AnnouncerFrame
  <1>4. ASSUME NEW s \in Sessions, WaitLoop(s) PROVE Known'
    <2>1. \A x \in Sessions : status[x] # "none" => status'[x] # "none"
      BY <1>0, <1>4 DEF WaitLoop, MarkExited, ExitList, ExitSend, mgrVars
    <2> QED BY <1>0, <1>4, <2>1, WaitLoopFrame DEF Known
  <1>5. ASSUME NEW b \in Bridges, Handler(b) PROVE Known'
    <2>1. ASSUME NEW x \in Sessions, Create(b)
          PROVE  /\ status[x] # "none" => status'[x] # "none"
                 /\ x \in managed' => status'[x] # "none"
      BY <1>0, <2>1 DEF Create, Known
    <2>2. ~Create(b) => managed' \subseteq managed /\ status' = status
      BY <1>5 DEF Handler, WriteInput, CreateFails, SessionCreated, SessionClosed,
         HandlerList, HandlerSend, mgrVars
    <2>3. managed' \subseteq Sessions
      BY <1>0, <2>2 DEF Create
    <2>4. ASSUME NEW x \in Sessions
          PROVE  /\ status[x] # "none" => status'[x] # "none"
                 /\ x \in managed' => status'[x] # "none"
      BY <2>1, <2>2 DEF Known
    <2> QED BY <1>0, <1>5, <2>3, <2>4, HandlerFrame DEF Known
  <1>6. ASSUME NEW s \in Sessions, ReadLoop(s) PROVE Known'
    <2>1. status[s] # "none" /\ UNCHANGED <<managed, status>>
      BY <1>6, ReadLoopFrame DEF ReadLoop, ReadChunk, CheckCancelled, ScanChunk,
         RecordRequest, SendRequest, Known
    <2>2. CASE RecordRequest(s)
      <3>1. \A x \in Sessions : reader'[x].at # "rest" => status[x] # "none"
        BY <2>1, <2>2, Recorded DEF Known, Types, TypeOK, ReaderTypes
      <3>2. \A r \in DOMAIN reqs' : status[reqs'[r].sess] # "none"
        <4>1. ASSUME NEW r \in DOMAIN reqs' PROVE status[reqs'[r].sess] # "none"
          <5>1. reqs'[r].sess = s \/ (r \in DOMAIN reqs /\ reqs'[r] = reqs[r])
            BY <2>2, <4>1, OldOrNew
          <5> QED BY <2>1, <5>1 DEF Known
        <4> QED BY <4>1
      <3> QED BY <2>1, <3>1, <3>2 DEF Known
    <2>3. CASE ~RecordRequest(s)
      <3>1. \A x \in Sessions \ {s} : reader'[x] = reader[x]
        BY <1>6, <2>3, NotRecorded
      <3>2. \A x \in Sessions : reader'[x].at # "rest" => status[x] # "none"
        BY <2>1, <3>1 DEF Known
      <3>3. reqs' = reqs
        BY <1>6, <2>3, NotRecorded
      <3>4. /\ \A x \in managed' : status'[x] # "none"
            /\ \A r \in DOMAIN reqs' : status'[reqs'[r].sess] # "none"
        BY <2>1, <3>3, Zenon DEF Known
      <3> QED BY <2>1, <3>2, <3>4, Zenon DEF Known
    <2> QED BY <2>2, <2>3, Zenon
  <1> QED BY <1>1, <1>2, <1>3, <1>4, <1>5, <1>6 DEF Next


(***************************************************************************)
(* Approvals.                                                              *)
(***************************************************************************)

LEMMA ApprovalsKept ==
  ASSUME OneStage, AnsweredOnce, UNCHANGED <<reqs, pending, handler, answers>>
  PROVE  OneStage' /\ AnsweredOnce'
  BY DEF OneStage, AnsweredOnce

\* A handler that starts or ends something else than an answer.
LEMMA ApprovalsOtherWork ==
  ASSUME Types, OneStage, AnsweredOnce, NEW b \in Bridges,
         UNCHANGED <<reqs, pending, answers>>,
         \A c \in Bridges \ {b} : handler'[c] = handler[c],
         handler'[b].op # "answer"
  PROVE  OneStage' /\ AnsweredOnce'
  BY DEF OneStage, AnsweredOnce

LEMMA NextKeepsApprovals ==
  ASSUME Types, OneStage, AnsweredOnce, [Next]_vars
  PROVE  OneStage' /\ AnsweredOnce'
  <1>0. /\ handler \in [Bridges -> [op : HandlerSteps, sess : Sessions,
                                    req : 0 .. Len(reqs), list : Lists]]
        /\ pending \in [Bridges -> SUBSET (1 .. Len(reqs))]
        /\ reqs \in Seq(Requests) /\ Len(reqs) \in Nat
        /\ answers \in Seq([req : 1 .. Len(reqs), sess : Sessions])
    BY DEF Types, TypeOK, HandlerTypes, RequestTypes
  <1>1. CASE UNCHANGED vars
    BY <1>1, ApprovalsKept DEF vars, appVars, bridgeVars
  <1>2. CASE Terminals \/ Network \/ NewOffer
    BY <1>2, ApprovalsKept, TerminalsFrame, NetworkFrame, NewOfferFrame
  <1>3. ASSUME NEW s \in Sessions, WaitLoop(s) PROVE OneStage' /\ AnsweredOnce'
    BY <1>3, ApprovalsKept, WaitLoopFrame
  <1>4. ASSUME NEW b \in Bridges, Announcer(b) PROVE OneStage' /\ AnsweredOnce'
    BY <1>4, ApprovalsKept, AnnouncerFrame
  <1>5. ASSUME NEW s \in Sessions, ReadLoop(s) PROVE OneStage' /\ AnsweredOnce'
    <2>1. CASE ~RecordRequest(s)
      BY <1>5, <2>1, NotRecorded, ReadLoopFrame, ApprovalsKept
    <2>2. CASE RecordRequest(s)
      <3> DEFINE n == Len(reqs) + 1
      <3> DEFINE d == Head(reader[s].todo)
      <3>1. /\ d \in Bridges /\ UNCHANGED <<handler, answers>>
            /\ \A r \in 1 .. Len(reqs) : reqs'[r] = reqs[r]
            /\ reqs'[n].bridge = d
            /\ pending' = [pending EXCEPT ![d] = @ \union {n}]
        BY <2>2, Recorded
      <3>2. \A c \in Bridges : handler[c].op = "answer" => handler[c].req \in 1 .. Len(reqs)
        BY <1>0 DEF Types, Busy
      <3>3. \A i \in DOMAIN answers : answers[i].req \in 1 .. Len(reqs)
        <4>1. DOMAIN answers = 1 .. Len(answers)
          BY <1>0
        <4>2. ASSUME NEW i \in DOMAIN answers
              PROVE  answers[i] \in [req : 1 .. Len(reqs), sess : Sessions]
          BY <1>0, <4>1, ElementOf
        <4> QED BY <4>2
      <3>4. n \notin 1 .. Len(reqs)
        BY <1>0
      <3> HIDE DEF n, d
      <3>9. /\ \A c \in Bridges : pending'[c] = IF c = d THEN pending[c] \union {n}
                                                ELSE pending[c]
            /\ \A c \in Bridges : pending[c] \subseteq 1 .. Len(reqs)
        BY <1>0, <3>1
      <3>5. \A c \in Bridges : \A r \in pending'[c] : reqs'[r].bridge = c
        BY <3>1, <3>4, <3>9 DEF OneStage
      <3>6. \A c \in Bridges : handler'[c].op = "answer" =>
               /\ reqs'[handler'[c].req].bridge = c
               /\ reqs'[handler'[c].req].sess = handler'[c].sess
               /\ handler'[c].req \notin pending'[c]
        BY <3>1, <3>2, <3>4, <3>9 DEF OneStage
      <3>7. \A i \in DOMAIN answers', c \in Bridges :
               /\ answers'[i].req \notin pending'[c]
               /\ handler'[c].op = "answer" => handler'[c].req # answers'[i].req
        BY <3>1, <3>3, <3>4, <3>9 DEF OneStage
      <3>8. AnsweredOnce'
        BY <3>1, <3>3 DEF AnsweredOnce
      <3> QED BY <3>5, <3>6, <3>7, <3>8 DEF OneStage
    <2> QED BY <2>1, <2>2
  <1>6. ASSUME NEW b \in Bridges, NEW r \in cards[b], ApprovalResponse(b, r)
        PROVE  OneStage' /\ AnsweredOnce'
    <2>1. /\ r \in pending[b] /\ UNCHANGED <<reqs, answers>>
          /\ \A c \in Bridges : pending'[c] = IF c = b THEN pending[c] \ {r} ELSE pending[c]
          /\ \A c \in Bridges \ {b} : handler'[c] = handler[c]
          /\ handler'[b].req = r /\ handler'[b].sess = reqs[r].sess
      BY <1>0, <1>6 DEF ApprovalResponse
    <2> USE DEF OneStage
    <2>2. reqs[r].bridge = b /\ r \notin pending'[b]
      BY <2>1
    <2>3. ASSUME NEW c \in Bridges
          PROVE  /\ c # b => r \notin pending[c]
                 /\ handler[c].op = "answer" => handler[c].req # r
      <3>1. c # b => r \notin pending[c]
        BY <2>2
      <3>2. CASE c = b
        BY <2>1, <3>1, <3>2
      <3>3. CASE c # b
        BY <2>2, <3>1, <3>3
      <3> QED BY <3>1, <3>2, <3>3
    <2>4. \A i \in DOMAIN answers : answers[i].req # r
      BY <2>1
    <2>5. \A c \in Bridges : \A x \in pending'[c] : reqs'[x].bridge = c
      BY <2>1
    <2>6. ASSUME NEW c \in Bridges, handler'[c].op = "answer"
          PROVE  /\ reqs'[handler'[c].req].bridge = c
                 /\ reqs'[handler'[c].req].sess = handler'[c].sess
                 /\ handler'[c].req \notin pending'[c]
      <3>1. CASE c = b
        BY <2>1, <2>2, <3>1
      <3>2. CASE c # b
        <4>1. handler'[c] = handler[c] /\ pending'[c] = pending[c] /\ reqs' = reqs
          BY <2>1, <3>2
        <4> QED BY <2>6, <4>1
      <3> QED BY <3>1, <3>2
    <2>7. ASSUME NEW i \in DOMAIN answers', NEW c \in Bridges
          PROVE  /\ answers'[i].req \notin pending'[c]
                 /\ handler'[c].op = "answer" => handler'[c].req # answers'[i].req
      <3>1. CASE c = b
        BY <2>1, <2>4, <3>1
      <3>2. CASE c # b
        <4>1. handler'[c] = handler[c] /\ pending'[c] = pending[c] /\ answers' = answers
          BY <2>1, <3>2
        <4> QED BY <4>1
      <3> QED BY <3>1, <3>2
    <2>8. AnsweredOnce'
      BY <2>1 DEF AnsweredOnce
    <2> QED BY <2>5, <2>6, <2>7, <2>8
  <1>7. ASSUME NEW b \in Bridges, NEW s \in Sessions, TermInput(b, s) \/ SessionClose(b, s)
        PROVE  OneStage' /\ AnsweredOnce'
    <2>1. /\ \A c \in Bridges \ {b} : handler'[c] = handler[c]
          /\ handler'[b].op # "answer" /\ UNCHANGED <<reqs, pending, answers>>
      BY <1>0, <1>7 DEF TermInput, SessionClose, appVars
    <2> QED BY <2>1, ApprovalsOtherWork
  <1>8. ASSUME NEW b \in Bridges, SessionCreate(b) PROVE OneStage' /\ AnsweredOnce'
    <2>1. /\ \A c \in Bridges \ {b} : handler'[c] = handler[c]
          /\ handler'[b].op # "answer" /\ UNCHANGED <<reqs, pending, answers>>
      BY <1>0, <1>8 DEF SessionCreate, Idle, appVars
    <2> QED BY <2>1, ApprovalsOtherWork
  <1>9. ASSUME NEW b \in Bridges, Handler(b), UNCHANGED answers
        PROVE  OneStage' /\ AnsweredOnce'
    <2>1. /\ \A c \in Bridges \ {b} : handler'[c] = handler[c]
          /\ handler'[b].op # "answer"
      BY <1>0, <1>9 DEF Handler, WriteInput, Create, CreateFails, SessionCreated,
         SessionClosed, HandlerList, HandlerSend, Idle
    <2> QED BY <1>9, <2>1, HandlerFrame, ApprovalsOtherWork
  <1>10. ASSUME NEW b \in Bridges, Handler(b), answers' # answers
         PROVE  OneStage' /\ AnsweredOnce'
    <2> DEFINE h == handler[b]
    <2> DEFINE new == [req |-> h.req, sess |-> h.sess]
    <2>1. /\ h.op = "answer" /\ answers' = Append(answers, new)
          /\ handler' = [handler EXCEPT ![b] = Idle]
      BY <1>10 DEF Handler, WriteInput, Create, CreateFails, SessionCreated,
         SessionClosed, HandlerList, HandlerSend, appVars
    <2>2. UNCHANGED <<reqs, pending>>
      BY <1>10, HandlerFrame
    <2>3. new \in [req : 1 .. Len(reqs), sess : Sessions]
      BY <1>0, <2>1 DEF Types, Busy
    <2>4. /\ DOMAIN answers = 1 .. Len(answers) /\ DOMAIN answers' = 1 .. Len(answers) + 1
          /\ Len(answers) \in Nat
          /\ answers'[Len(answers) + 1] = new
          /\ \A i \in 1 .. Len(answers) : answers'[i] = answers[i]
      <3>1. answers' \in Seq([req : 1 .. Len(reqs), sess : Sessions])
        BY <1>0, <2>1, <2>3, Append1
      <3> QED BY <1>0, <2>1, <2>3, <3>1, Append1
    <2>5. /\ \A c \in Bridges \ {b} : handler'[c] = handler[c]
          /\ handler'[b].op # "answer"
      BY <1>0, <2>1 DEF Idle
    <2>6. /\ reqs[h.req].bridge = b /\ reqs[h.req].sess = h.sess
          /\ \A c \in Bridges : h.req \notin pending[c]
          /\ \A c \in Bridges \ {b} : handler[c].op = "answer" => handler[c].req # h.req
          /\ \A i \in DOMAIN answers : answers[i].req # h.req
      BY <2>1 DEF OneStage
    <2> HIDE DEF h
    <2>7. new.req = h.req /\ new.sess = h.sess
      OBVIOUS
    <2> HIDE DEF new
    <2>8. ASSUME NEW i \in DOMAIN answers', NEW c \in Bridges
          PROVE  /\ answers'[i].req \notin pending'[c]
                 /\ handler'[c].op = "answer" => handler'[c].req # answers'[i].req
      <3>1. CASE i = Len(answers) + 1
        BY <2>2, <2>4, <2>5, <2>6, <2>7, <3>1
      <3>2. CASE i \in DOMAIN answers
        BY <2>2, <2>4, <2>5, <3>2 DEF OneStage
      <3> QED BY <2>4, <3>1, <3>2
    <2>9. OneStage'
      BY <2>2, <2>5, <2>8 DEF OneStage
    <2>10. AnsweredOnce'
      BY <2>2, <2>4, <2>6, <2>7 DEF AnsweredOnce
    <2> QED BY <2>9, <2>10
  <1> QED BY <1>1, <1>2, <1>3, <1>4, <1>5, <1>6, <1>7, <1>8, <1>9, <1>10 DEF Next, Message



(***************************************************************************)
(* Cards.                                                                  *)
(***************************************************************************)

LEMMA SendingKept ==
  ASSUME Sending, UNCHANGED <<reader, reqs, pending, cards>>
  PROVE  Sending'
  BY DEF Sending

LEMMA NextKeepsSending ==
  ASSUME Types, Sending, [Next]_vars
  PROVE  Sending'
  <1>0. /\ reader \in [Sessions -> [at : ReaderSteps, ask : 0 .. Len(asks),
                                    req : 0 .. Len(reqs), todo : Seq(Bridges)]]
        /\ pending \in [Bridges -> SUBSET (1 .. Len(reqs))]
        /\ cards \in [Bridges -> SUBSET (1 .. Len(reqs))]
        /\ Len(reqs) \in Nat
    BY DEF Types, TypeOK, ReaderTypes, RequestTypes
  <1>1. CASE UNCHANGED vars
    BY <1>1, SendingKept DEF vars, appVars
  <1>2. CASE Terminals \/ Network \/ NewOffer
    BY <1>2, SendingKept, TerminalsFrame, NetworkFrame, NewOfferFrame
  <1>3. ASSUME NEW s \in Sessions, WaitLoop(s) PROVE Sending'
    BY <1>3, SendingKept, WaitLoopFrame
  <1>4. ASSUME NEW b \in Bridges, Handler(b) \/ Announcer(b) PROVE Sending'
    BY <1>4, SendingKept, HandlerFrame, AnnouncerFrame
  <1>5. ASSUME NEW b \in Bridges, Message(b) PROVE Sending'
    <2>1. ASSUME NEW r \in cards[b], ApprovalResponse(b, r) PROVE Sending'
      <3>1. /\ UNCHANGED <<reader, reqs, cards>>
            /\ \A c \in Bridges : pending[c] \ {r} \subseteq pending'[c]
        BY <1>0, <2>1 DEF ApprovalResponse
      <3>2. ASSUME NEW s \in Sessions, reader[s].at = "send"
            PROVE  reader[s].req \in pending'[Head(reader[s].todo)]
        <4>1. reader[s].req # r /\ reader[s].req \in pending[Head(reader[s].todo)]
          BY <3>2 DEF Sending
        <4>2. Head(reader[s].todo) \in Bridges
          <5>1. reader[s].todo \in Seq(Bridges) /\ reader[s].todo # << >>
            BY <1>0, <3>2 DEF Types, Busy
          <5> QED BY <5>1, Tail1
        <4> QED BY <3>1, <4>1, <4>2
      <3> QED BY <3>1, <3>2 DEF Sending
    <2>2. CASE UNCHANGED pending
      BY <1>5, <2>2, SendingKept, MessageFrame
    <2> QED BY <1>5, <2>1, <2>2 DEF Message, TermInput, SessionClose, SessionCreate, appVars
  <1>6. ASSUME NEW s \in Sessions, ReadLoop(s), ~RecordRequest(s) PROVE Sending'
    <2>1. ASSUME NEW x \in Sessions, reader'[x].at = "send"
          PROVE  /\ reqs'[reader'[x].req].sess = x
                 /\ reader'[x].req \in pending'[Head(reader'[x].todo)]
                 /\ \A b \in Bridges : reader'[x].req \notin cards'[b]
      <3>1. x # s /\ reader'[x] = reader[x] /\ UNCHANGED <<reqs, pending>>
        BY <1>6, <2>1, NotRecorded
      <3>2. /\ reqs[reader[x].req].sess = x
            /\ reader[x].req \in pending[Head(reader[x].todo)]
            /\ \A b \in Bridges : reader[x].req \notin cards[b]
        BY <2>1, <3>1 DEF Sending
      <3>3. \A b \in Bridges :
               \/ cards'[b] \subseteq cards[b]
               \/ reader[s].at = "send" /\ cards'[b] \subseteq cards[b] \union {reader[s].req}
        BY <1>0, <1>6 DEF ReadLoop, ReadChunk, CheckCancelled, ScanChunk, SendRequest, appVars
      <3>4. reader[s].at = "send" => reqs[reader[s].req].sess = s
        BY DEF Sending
      <3> QED BY <3>1, <3>2, <3>3, <3>4
    <2> QED BY <2>1 DEF Sending
  <1>7. ASSUME NEW s \in Sessions, RecordRequest(s) PROVE Sending'
    <2> DEFINE n == Len(reqs) + 1
    <2>1. /\ \A r \in 1 .. Len(reqs) : reqs'[r] = reqs[r]
          /\ reqs'[n].sess = s /\ cards' = cards
          /\ Head(reader[s].todo) \in Bridges
          /\ pending' = [pending EXCEPT ![Head(reader[s].todo)] = @ \union {n}]
          /\ reader' = [reader EXCEPT ![s].at = "send", ![s].req = n]
      BY <1>7, Recorded
    <2>2. n \notin 1 .. Len(reqs)
      BY <1>0
    <2> HIDE DEF n
    <2>3. /\ n \in pending'[Head(reader[s].todo)]
          /\ \A b \in Bridges : pending[b] \subseteq pending'[b] /\ n \notin cards[b]
          /\ reader'[s].req = n /\ reader'[s].todo = reader[s].todo
          /\ \A x \in Sessions \ {s} : reader'[x] = reader[x]
      BY <1>0, <2>1, <2>2
    <2>4. ASSUME NEW x \in Sessions, reader'[x].at = "send"
          PROVE  /\ reqs'[reader'[x].req].sess = x
                 /\ reader'[x].req \in pending'[Head(reader'[x].todo)]
                 /\ \A b \in Bridges : reader'[x].req \notin cards'[b]
      <3>1. CASE x = s
        <4>1. reader'[x].req = n /\ Head(reader'[x].todo) = Head(reader[s].todo)
          BY <2>3, <3>1
        <4>2. \A b \in Bridges : n \notin cards'[b]
          BY <2>1, <2>3
        <4> QED BY <2>1, <2>3, <3>1, <4>1, <4>2
      <3>2. CASE x # s
        <4>1. reader'[x] = reader[x]
          BY <2>3, <3>2
        <4>2. /\ reader[x].req \in 1 .. Len(reqs)
              /\ reader[x].todo \in Seq(Bridges) /\ reader[x].todo # << >>
          BY <1>0, <2>4, <4>1 DEF Types, Busy
        <4>3. Head(reader[x].todo) \in Bridges
          BY <4>2, Tail1
        <4>4. /\ reqs[reader[x].req].sess = x
              /\ reader[x].req \in pending[Head(reader[x].todo)]
              /\ \A b \in Bridges : reader[x].req \notin cards[b]
          BY <2>4, <4>1 DEF Sending
        <4>5. reqs'[reader[x].req] = reqs[reader[x].req]
          BY <2>1, <4>2
        <4>6. reader[x].req \in pending'[Head(reader[x].todo)]
          BY <2>3, <4>3, <4>4
        <4> QED BY <2>1, <4>1, <4>4, <4>5, <4>6
      <3> QED BY <3>1, <3>2
    <2> QED BY <2>4 DEF Sending
  <1> QED BY <1>1, <1>2, <1>3, <1>4, <1>5, <1>6, <1>7 DEF Next


\* Steps that bring no card, end no answer and start no session a card is for.
LEMMA CardsStillWork ==
  ASSUME Types, Known, CardsPending, UNCHANGED <<cards, answers>>,
         \A r \in 1 .. Len(reqs) : reqs'[r] = reqs[r],
         \A b \in Bridges : pending[b] \subseteq pending'[b],
         \A b \in Bridges : handler[b].op = "answer" => handler'[b] = handler[b],
         \A s \in managed' \cap alive' : s \in managed \cap alive \/ status[s] = "none"
  PROVE  CardsPending'
  <1>0. /\ \A b \in Bridges : cards[b] \subseteq 1 .. Len(reqs)
        /\ DOMAIN reqs = 1 .. Len(reqs)
    BY DEF Types, TypeOK, RequestTypes
  <1>1. ASSUME NEW b \in Bridges, NEW r \in cards[b]
        PROVE  \/ r \in pending'[b]
               \/ handler'[b].op = "answer" /\ handler'[b].req = r
               \/ \E i \in DOMAIN answers : answers[i].req = r
               \/ reqs'[r].sess \notin managed' \cap alive'
    <2>1. reqs'[r] = reqs[r] /\ status[reqs[r].sess] # "none"
      BY <1>0 DEF Known
    <2>2. CASE r \in pending[b]
      BY <2>2
    <2>3. CASE handler[b].op = "answer" /\ handler[b].req = r
      BY <2>3
    <2>4. CASE \E i \in DOMAIN answers : answers[i].req = r
      BY <2>4
    <2>5. CASE reqs[r].sess \notin managed \cap alive
      BY <2>1, <2>5
    <2> QED BY <2>2, <2>3, <2>4, <2>5 DEF CardsPending, Works
  <1> QED BY <1>1 DEF CardsPending, Works

LEMMA NextKeepsCards ==
  ASSUME Types, Known, OneStage, Sending, CardsPending, [Next]_vars
  PROVE  CardsPending'
  <1>0. /\ handler \in [Bridges -> [op : HandlerSteps, sess : Sessions,
                                    req : 0 .. Len(reqs), list : Lists]]
        /\ pending \in [Bridges -> SUBSET (1 .. Len(reqs))]
        /\ cards \in [Bridges -> SUBSET (1 .. Len(reqs))]
        /\ reqs \in Seq(Requests) /\ Len(reqs) \in Nat
        /\ answers \in Seq([req : 1 .. Len(reqs), sess : Sessions])
    BY DEF Types, TypeOK, HandlerTypes, RequestTypes
  <1>1. CASE UNCHANGED vars
    BY <1>1, CardsStillWork DEF vars, mgrVars, appVars, bridgeVars
  <1>2. CASE Terminals
    <2>1. managed' = managed /\ alive' \subseteq alive
      BY <1>2 DEF Terminals, Show, Redraw, Consume, Leave, Keyboard, mgrVars
    <2> QED BY <1>2, <2>1, TerminalsFrame, CardsStillWork
  <1>3. CASE Network \/ NewOffer
    BY <1>3, NetworkFrame, NewOfferFrame, CardsStillWork
  <1>4. ASSUME NEW s \in Sessions, WaitLoop(s) PROVE CardsPending'
    BY <1>4, WaitLoopFrame, CardsStillWork
  <1>5. ASSUME NEW b \in Bridges, Announcer(b) PROVE CardsPending'
    BY <1>5, AnnouncerFrame, CardsStillWork
  <1>6. ASSUME NEW s \in Sessions, ReadLoop(s), ~SendRequest(s) PROVE CardsPending'
    <2>1. cards' = cards
      BY <1>6 DEF ReadLoop, ReadChunk, CheckCancelled, ScanChunk, RecordRequest, appVars
    <2>2. CASE RecordRequest(s)
      <3> DEFINE n == Len(reqs) + 1
      <3> DEFINE d == Head(reader[s].todo)
      <3>1. d \in Bridges /\ pending' = [pending EXCEPT ![d] = @ \union {n}]
        BY <2>2, Recorded
      <3> HIDE DEF n, d
      <3>2. \A b \in Bridges : pending[b] \subseteq pending'[b]
        BY <1>0, <3>1
      <3>3. \A r \in 1 .. Len(reqs) : reqs'[r] = reqs[r]
        BY <2>2, Recorded
      <3> QED BY <1>6, <2>1, <3>2, <3>3, ReadLoopFrame, CardsStillWork
    <2>3. CASE ~RecordRequest(s)
      BY <1>6, <2>1, <2>3, NotRecorded, ReadLoopFrame, CardsStillWork
    <2> QED BY <2>2, <2>3
  <1>7. ASSUME NEW s \in Sessions, SendRequest(s) PROVE CardsPending'
    <2> DEFINE d == Head(reader[s].todo)
    <2> DEFINE q == reader[s].req
    <2>1. /\ UNCHANGED <<managed, alive, pending, reqs, handler, answers>>
          /\ \A b \in Bridges : \/ cards'[b] \subseteq cards[b]
                                \/ b = d /\ cards'[b] \subseteq cards[b] \union {q}
      BY <1>0, <1>7 DEF SendRequest, mgrVars, bridgeVars
    <2>2. q \in pending[d]
      BY <1>7 DEF SendRequest, Sending
    <2> HIDE DEF d, q
    <2>3. \A b \in Bridges : \A r \in cards'[b] : r \in cards[b] \/ r \in pending[b]
      BY <2>1, <2>2
    <2> QED BY <2>1, <2>3 DEF CardsPending, Works
  <1>8. ASSUME NEW b \in Bridges, NEW r \in cards[b], ApprovalResponse(b, r)
        PROVE  CardsPending'
    <2>1. /\ UNCHANGED <<managed, alive, cards, reqs, answers>>
          /\ handler[b].op = "idle"
          /\ handler'[b].op = "answer" /\ handler'[b].req = r
          /\ pending'[b] = pending[b] \ {r}
          /\ \A c \in Bridges \ {b} : handler'[c] = handler[c] /\ pending'[c] = pending[c]
      BY <1>0, <1>8 DEF ApprovalResponse, CanReceive, mgrVars
    <2>2. ASSUME NEW c \in Bridges, NEW x \in cards[c]
          PROVE  \/ x \in pending'[c]
                 \/ handler'[c].op = "answer" /\ handler'[c].req = x
                 \/ \E i \in DOMAIN answers : answers[i].req = x
                 \/ reqs[x].sess \notin managed \cap alive
      <3>1. CASE c = b
        BY <2>1, <3>1 DEF CardsPending, Works
      <3>2. CASE c # b
        <4>1. handler'[c] = handler[c] /\ pending'[c] = pending[c]
          BY <2>1, <3>2
        <4> QED BY <4>1 DEF CardsPending, Works
      <3> QED BY <3>1, <3>2
    <2> QED BY <2>1, <2>2 DEF CardsPending, Works
  <1>9. ASSUME NEW b \in Bridges, NEW s \in Sessions, TermInput(b, s) \/ SessionClose(b, s)
        PROVE  CardsPending'
    <2>1. /\ UNCHANGED <<managed, alive, cards, pending, reqs, answers>>
          /\ \A c \in Bridges : handler[c].op = "answer" => handler'[c] = handler[c]
      BY <1>0, <1>9 DEF TermInput, SessionClose, CanReceive, mgrVars, appVars
    <2> QED BY <2>1, CardsStillWork
  <1>10. ASSUME NEW b \in Bridges, SessionCreate(b) PROVE CardsPending'
    <2>1. /\ UNCHANGED <<managed, alive, cards, pending, reqs, answers>>
          /\ \A c \in Bridges : handler[c].op = "answer" => handler'[c] = handler[c]
      BY <1>0, <1>10 DEF SessionCreate, CanReceive, mgrVars, appVars
    <2> QED BY <2>1, CardsStillWork
  <1>11. ASSUME NEW b \in Bridges, Handler(b), handler[b].op # "answer" PROVE CardsPending'
    <2>1. answers' = answers
      BY <1>11 DEF Handler, WriteInput, Create, CreateFails, SessionCreated,
         SessionClosed, HandlerList, HandlerSend, appVars
    <2>2. \A c \in Bridges : handler[c].op = "answer" => handler'[c] = handler[c]
      BY <1>0, <1>11 DEF Handler, WriteInput, Create, CreateFails, SessionCreated,
         SessionClosed, HandlerList, HandlerSend
    <2>3. \A s \in managed' \cap alive' : s \in managed \cap alive \/ status[s] = "none"
      BY <1>11 DEF Handler, WriteInput, Create, CreateFails, SessionCreated,
         SessionClosed, HandlerList, HandlerSend, mgrVars
    <2> QED BY <1>11, <2>1, <2>2, <2>3, HandlerFrame, CardsStillWork
  <1>12. ASSUME NEW b \in Bridges, Handler(b), handler[b].op = "answer" PROVE CardsPending'
    <2> DEFINE new == [req |-> handler[b].req, sess |-> handler[b].sess]
    <2>1. /\ UNCHANGED <<managed, alive, cards, pending, reqs>>
          /\ \A c \in Bridges \ {b} : handler'[c] = handler[c]
          /\ handler[b].sess \in managed \cap alive => answers' = Append(answers, new)
          /\ handler[b].sess \notin managed \cap alive => answers' = answers
      BY <1>0, <1>12 DEF Handler, WriteInput, Create, CreateFails, SessionCreated,
         SessionClosed, HandlerList, HandlerSend, mgrVars
    <2>2. new \in [req : 1 .. Len(reqs), sess : Sessions]
      BY <1>0, <1>12 DEF Types, Busy
    <2>3. /\ \A r \in Nat : (\E i \in DOMAIN answers : answers[i].req = r)
                             => \E i \in DOMAIN answers' : answers'[i].req = r
          /\ handler[b].sess \in managed \cap alive
               => \E i \in DOMAIN answers' : answers'[i].req = handler[b].req
      <3>1. CASE handler[b].sess \in managed \cap alive
        <4> DEFINE T == [req : 1 .. Len(reqs), sess : Sessions]
        <4> HIDE DEF new
        <4>0. answers \in Seq(T) /\ new \in T /\ answers' = Append(answers, new)
          BY <1>0, <2>1, <2>2, <3>1
        <4> HIDE DEF T
        <4>1. /\ answers' \in Seq(T) /\ Len(answers') = Len(answers) + 1
              /\ answers'[Len(answers) + 1] = new
              /\ \A i \in 1 .. Len(answers) : answers'[i] = answers[i]
          BY <4>0, Append1
        <4>2. /\ DOMAIN answers' = 1 .. Len(answers) + 1
              /\ DOMAIN answers = 1 .. Len(answers) /\ Len(answers) \in Nat
          BY <4>0, <4>1
        <4>3. Len(answers) + 1 \in DOMAIN answers' /\ DOMAIN answers \subseteq DOMAIN answers'
          BY <4>2
        <4>4. new.req = handler[b].req
          BY DEF new
        <4>5. \E i \in DOMAIN answers' : answers'[i].req = handler[b].req
          BY <4>1, <4>3, <4>4
        <4>6. \A i \in DOMAIN answers : i \in DOMAIN answers' /\ answers'[i] = answers[i]
          BY <4>1, <4>2, <4>3
        <4> QED BY <4>5, <4>6
      <3>2. CASE handler[b].sess \notin managed \cap alive
        BY <2>1, <3>2
      <3> QED BY <3>1, <3>2
    <2>4. ASSUME NEW c \in Bridges, NEW x \in cards[c]
          PROVE  \/ x \in pending[c]
                 \/ handler'[c].op = "answer" /\ handler'[c].req = x
                 \/ \E i \in DOMAIN answers' : answers'[i].req = x
                 \/ reqs[x].sess \notin managed \cap alive
      <3>0. x \in Nat
        BY <1>0
      <3>1. \/ x \in pending[c]
            \/ handler[c].op = "answer" /\ handler[c].req = x
            \/ \E i \in DOMAIN answers : answers[i].req = x
            \/ reqs[x].sess \notin managed \cap alive
        BY DEF CardsPending, Works
      <3>2. CASE c = b /\ handler[c].req = x
        <4>1. reqs[x].sess = handler[b].sess
          BY <1>12, <3>2 DEF OneStage
        <4> QED BY <2>3, <3>2, <4>1
      <3>3. CASE c # b
        BY <2>1, <2>3, <3>0, <3>1, <3>3
      <3>4. CASE handler[c].req # x
        BY <2>3, <3>0, <3>1, <3>4
      <3> QED BY <3>2, <3>3, <3>4
    <2> QED BY <2>1, <2>4 DEF CardsPending, Works
  <1>13. ASSUME NEW s \in Sessions, ReadLoop(s) PROVE CardsPending'
    BY <1>6, <1>7, <1>13
  <1> QED BY <1>1, <1>2, <1>3, <1>4, <1>5, <1>8, <1>9, <1>10, <1>11, <1>12, <1>13
          DEF Next, Message


(***************************************************************************)
(* A detected text has one owner.                                          *)
(***************************************************************************)

\* Steps that detect nothing and make no request.
LEMMA OwnersKept ==
  ASSUME Types, OneOwner, UNCHANGED reqs, seen \subseteq seen',
         \A a \in 1 .. Len(asks) : asks'[a] = asks[a],
         \A s \in Sessions : reader'[s].at = "ask" =>
            reader[s].at = "ask" /\ reader'[s].ask = reader[s].ask
  PROVE  OneOwner'
  <1>1. \A r \in DOMAIN reqs : reqs[r].ask \in 1 .. Len(asks)
    <2>1. reqs \in Seq(Requests)
      BY DEF Types, TypeOK, RequestTypes
    <2>2. ASSUME NEW r \in DOMAIN reqs PROVE reqs[r] \in Requests
      BY <2>1
    <2> QED BY <2>2 DEF Requests
  <1>2. \A s \in Sessions : reader[s].at = "ask" => reader[s].ask \in 1 .. Len(asks)
    <2>1. Len(asks) \in Nat
      BY DEF Types, TypeOK, TerminalTypes
    <2> QED BY <2>1 DEF Types, TypeOK, ReaderTypes, Busy
  <1>3. \A r \in DOMAIN reqs : asks'[reqs[r].ask] = asks[reqs[r].ask]
    BY <1>1
  <1>4. ASSUME NEW s \in Sessions, reader'[s].at = "ask"
        PROVE  /\ reader[s].at = "ask" /\ reader'[s].ask = reader[s].ask
               /\ asks'[reader'[s].ask] = asks[reader[s].ask]
    BY <1>2, <1>4
  <1>6. \A r \in DOMAIN reqs' : asks'[reqs'[r].ask].text \in seen'
    BY <1>3 DEF OneOwner, Text
  <1>7. ASSUME NEW s \in Sessions, reader'[s].at = "ask"
        PROVE  /\ asks'[reader'[s].ask].text \in seen'
               /\ \A r \in DOMAIN reqs' : asks'[reqs'[r].ask].text # asks'[reader'[s].ask].text
               /\ \A x \in Sessions \ {s} : reader'[x].at = "ask" =>
                     asks'[reader'[x].ask].text # asks'[reader'[s].ask].text
    <2>1. reader[s].at = "ask" /\ asks'[reader'[s].ask] = asks[reader[s].ask]
      BY <1>4, <1>7
    <2>2. asks[reader[s].ask].text \in seen
      BY <2>1 DEF OneOwner, Text
    <2>3. \A r \in DOMAIN reqs : asks[reqs[r].ask].text # asks[reader[s].ask].text
      BY <2>1 DEF OneOwner, Text
    <2>4. ASSUME NEW x \in Sessions \ {s}, reader'[x].at = "ask"
          PROVE  asks'[reader'[x].ask].text # asks'[reader'[s].ask].text
      <3>1. reader[x].at = "ask" /\ asks'[reader'[x].ask] = asks[reader[x].ask]
        BY <1>4, <2>4
      <3> QED BY <2>1, <3>1 DEF OneOwner, Text
    <2> QED BY <1>3, <2>1, <2>2, <2>3, <2>4
  <1> QED BY <1>6, <1>7 DEF OneOwner, Text

\* NextCallback leaves the reader at rest or before its next callback.
LEMMA NextCallbackAt ==
  ASSUME Types, NEW s \in Sessions, NextCallback(s)
  PROVE  /\ \A x \in Sessions \ {s} : reader'[x] = reader[x]
         /\ reader'[s].at \in {"rest", "check"}
  <1>1. CASE Tail(reader[s].todo) = << >>
    BY <1>1 DEF NextCallback, Resting, Types, TypeOK, ReaderTypes
  <1>2. CASE Tail(reader[s].todo) # << >>
    BY <1>2 DEF NextCallback, Types, TypeOK, ReaderTypes
  <1> QED BY <1>1, <1>2

LEMMA NextKeepsOwners ==
  ASSUME Types, OneOwner, [Next]_vars
  PROVE  OneOwner'
  <1>0. /\ reader \in [Sessions -> [at : ReaderSteps, ask : 0 .. Len(asks),
                                    req : 0 .. Len(reqs), todo : Seq(Bridges)]]
        /\ asks \in Seq([sess : Sessions, text : Prompts])
    BY DEF Types, TypeOK, ReaderTypes, TerminalTypes
  <1>1. CASE UNCHANGED vars
    BY <1>1, OwnersKept DEF vars, appVars, termVars
  <1>2. CASE Terminals
    <2>1. \A a \in 1 .. Len(asks) : asks'[a] = asks[a]
      <3>1. ASSUME NEW s \in Sessions, Show(s) PROVE \A a \in 1 .. Len(asks) : asks'[a] = asks[a]
        <4>1. PICK t \in Prompts : asks' = Append(asks, [sess |-> s, text |-> t])
          BY <3>1 DEF Show
        <4>2. [sess |-> s, text |-> t] \in [sess : Sessions, text : Prompts]
          OBVIOUS
        <4> QED BY <1>0, <4>1, <4>2, Append1
      <3>2. CASE asks' = asks
        BY <3>2
      <3> QED BY <1>2, <3>1, <3>2 DEF Terminals, Redraw, Consume, Leave, Keyboard, termVars
    <2> QED BY <1>2, <2>1, TerminalsFrame, OwnersKept
  <1>3. CASE Network \/ NewOffer
    BY <1>3, NetworkFrame, NewOfferFrame, OwnersKept
  <1>4. ASSUME NEW s \in Sessions, WaitLoop(s) PROVE OneOwner'
    BY <1>4, WaitLoopFrame, OwnersKept
  <1>5. ASSUME NEW b \in Bridges, Message(b) \/ Handler(b) \/ Announcer(b)
        PROVE  OneOwner'
    BY <1>5, MessageFrame, HandlerFrame, AnnouncerFrame, OwnersKept
  <1>6. ASSUME NEW s \in Sessions, ReadChunk(s) \/ CheckCancelled(s) \/ SendRequest(s)
        PROVE  OneOwner'
    <2>1. UNCHANGED <<asks, reqs, seen>>
      BY <1>6 DEF ReadChunk, CheckCancelled, SendRequest, appVars, termVars
    <2>2. /\ \A x \in Sessions \ {s} : reader'[x] = reader[x]
          /\ reader'[s].at # "ask"
      <3>1. CASE NextCallback(s)
        BY <3>1, NextCallbackAt
      <3>2. CASE ReadChunk(s) /\ onOutputs[s] = << >>
        BY <1>0, <3>2 DEF ReadChunk, Resting
      <3>3. CASE ReadChunk(s) /\ onOutputs[s] # << >>
        BY <1>0, <3>3 DEF ReadChunk
      <3>4. CASE CheckCancelled(s) /\ ~NextCallback(s)
        BY <1>0, <3>4 DEF CheckCancelled
      <3> QED BY <1>6, <3>1, <3>2, <3>3, <3>4 DEF SendRequest
    <2> QED BY <2>1, <2>2, OwnersKept
  <1>7. ASSUME NEW s \in Sessions, ScanChunk(s) PROVE OneOwner'
    <2> DEFINE t == asks[reader[s].ask].text
    <2>1. UNCHANGED <<asks, reqs>> /\ seen \subseteq seen'
      BY <1>7 DEF ScanChunk, SeenAfter, termVars
    <2>2. CASE Scan(<<t>>, seen) = {}
      BY <1>7, <2>1, <2>2, NextCallbackAt, OwnersKept DEF ScanChunk
    <2>3. CASE Scan(<<t>>, seen) # {}
      <3>1. t \in Prompts \ seen /\ t \in seen'
        BY <1>7, <2>3 DEF ScanChunk, Scan, Reported, SeenAfter
      <3>2. /\ reader'[s].ask = reader[s].ask
            /\ \A x \in Sessions \ {s} : reader'[x] = reader[x]
        BY <1>0, <1>7, <2>3 DEF ScanChunk
      <3>3. /\ \A r \in DOMAIN reqs : asks[reqs[r].ask].text \in seen
            /\ \A x \in Sessions : reader[x].at = "ask" => asks[reader[x].ask].text \in seen
        BY DEF OneOwner, Text
      <3>5. \A r \in DOMAIN reqs' : asks'[reqs'[r].ask].text \in seen'
        BY <2>1, <3>3
      <3>6. ASSUME NEW x \in Sessions, reader'[x].at = "ask"
            PROVE  /\ asks'[reader'[x].ask].text \in seen'
                   /\ \A r \in DOMAIN reqs' :
                         asks'[reqs'[r].ask].text # asks'[reader'[x].ask].text
                   /\ \A y \in Sessions \ {x} : reader'[y].at = "ask" =>
                         asks'[reader'[y].ask].text # asks'[reader'[x].ask].text
        <4>1. CASE x = s
          BY <2>1, <3>1, <3>2, <3>3, <4>1
        <4>2. CASE x # s
          <5>1. reader'[x] = reader[x] /\ reader[x].at = "ask"
            BY <3>2, <3>6, <4>2
          <5>2. ASSUME NEW y \in Sessions \ {x}, reader'[y].at = "ask"
                PROVE  asks'[reader'[y].ask].text # asks'[reader'[x].ask].text
            <6>1. CASE y = s
              BY <2>1, <3>1, <3>2, <3>3, <5>1, <6>1
            <6>2. CASE y # s
              <7>1. reader'[y] = reader[y]
                BY <3>2, <6>2
              <7> QED BY <2>1, <5>1, <5>2, <7>1 DEF OneOwner, Text
            <6> QED BY <6>1, <6>2
          <5>3. \A r \in DOMAIN reqs : asks[reqs[r].ask].text # asks[reader[x].ask].text
            BY <5>1 DEF OneOwner, Text
          <5> QED BY <2>1, <3>3, <5>1, <5>2, <5>3
        <4> QED BY <4>1, <4>2
      <3> QED BY <3>5, <3>6 DEF OneOwner, Text
    <2> QED BY <2>2, <2>3
  <1>8. ASSUME NEW s \in Sessions, RecordRequest(s) PROVE OneOwner'
    <2> DEFINE n == Len(reqs) + 1
    <2>1. /\ reader[s].at = "ask" /\ UNCHANGED <<asks, seen>>
          /\ reader'[s].at = "send" /\ \A x \in Sessions \ {s} : reader'[x] = reader[x]
      <3>1. /\ reader[s].at = "ask" /\ UNCHANGED <<asks, seen>>
            /\ reader' = [reader EXCEPT ![s].at = "send", ![s].req = n]
        BY <1>8, Recorded
      <3> HIDE DEF n
      <3> QED BY <1>0, <3>1
    <2>2. \A r \in DOMAIN reqs' : \/ r = n /\ reqs'[r].ask = reader[s].ask
                                  \/ r \in DOMAIN reqs /\ reqs'[r] = reqs[r]
      BY <1>8, OldOrNew
    <2> HIDE DEF n
    <2>3. /\ asks[reader[s].ask].text \in seen
          /\ \A r \in DOMAIN reqs : asks[reqs[r].ask].text # asks[reader[s].ask].text
          /\ \A r \in DOMAIN reqs : asks[reqs[r].ask].text \in seen
      BY <2>1 DEF OneOwner, Text
    <2>5. \A r \in DOMAIN reqs' : asks'[reqs'[r].ask].text \in seen'
      BY <2>1, <2>2, <2>3
    <2>6. ASSUME NEW x \in Sessions, reader'[x].at = "ask"
          PROVE  /\ asks'[reader'[x].ask].text \in seen'
                 /\ \A r \in DOMAIN reqs' :
                       asks'[reqs'[r].ask].text # asks'[reader'[x].ask].text
                 /\ \A y \in Sessions \ {x} : reader'[y].at = "ask" =>
                       asks'[reader'[y].ask].text # asks'[reader'[x].ask].text
      <3>1. x # s /\ reader'[x] = reader[x] /\ reader[x].at = "ask"
        BY <2>1, <2>6
      <3>2. /\ asks[reader[x].ask].text \in seen
            /\ \A r \in DOMAIN reqs : asks[reqs[r].ask].text # asks[reader[x].ask].text
            /\ asks[reader[s].ask].text # asks[reader[x].ask].text
        BY <2>1, <3>1 DEF OneOwner, Text
      <3>3. ASSUME NEW y \in Sessions \ {x}, reader'[y].at = "ask"
            PROVE  asks'[reader'[y].ask].text # asks'[reader'[x].ask].text
        <4>1. reader'[y] = reader[y] /\ reader[y].at = "ask"
          BY <2>1, <3>3
        <4> QED BY <2>1, <3>1, <4>1 DEF OneOwner, Text
      <3> QED BY <2>1, <2>2, <3>1, <3>2, <3>3
    <2> QED BY <2>5, <2>6 DEF OneOwner, Text
  <1> QED BY <1>1, <1>2, <1>3, <1>4, <1>5, <1>6, <1>7, <1>8 DEF Next, ReadLoop

(***************************************************************************)
(* The host implements Approvals: a prompt is asked in Show, its request   *)
(* made, delivered and given in RecordRequest, SendRequest and WriteInput; *)
(* the other steps stutter.                                                *)
(***************************************************************************)

\* A card stays on its phone, and a prompt stays what it was.
LEMMA CardsAndAsksStay ==
  ASSUME Types, [Next]_vars
  PROVE  /\ \A b \in Bridges : cards[b] \subseteq cards'[b]
         /\ \A a \in 1 .. Len(asks) : asks'[a] = asks[a]
  <1>0. /\ cards \in [Bridges -> SUBSET (1 .. Len(reqs))]
        /\ asks \in Seq([sess : Sessions, text : Prompts])
    BY DEF Types, TypeOK, RequestTypes, TerminalTypes
  <1>1. ASSUME NEW s \in Sessions, ReadLoop(s)
        PROVE  \A b \in Bridges : cards[b] \subseteq cards'[b]
    BY <1>0, <1>1 DEF ReadLoop, ReadChunk, CheckCancelled, ScanChunk, RecordRequest,
                      SendRequest, appVars
  <1>2. ASSUME NEW s \in Sessions, Show(s)
        PROVE  \A a \in 1 .. Len(asks) : asks'[a] = asks[a]
    <2>1. PICK t \in Prompts : asks' = Append(asks, [sess |-> s, text |-> t])
      BY <1>2 DEF Show
    <2>2. [sess |-> s, text |-> t] \in [sess : Sessions, text : Prompts]
      OBVIOUS
    <2> QED BY <1>0, <2>1, <2>2, Append1
  <1>3. CASE Terminals
    <2>1. cards' = cards
      BY <1>3, TerminalsFrame
    <2>2. asks' = asks \/ \E s \in Sessions : Show(s)
      BY <1>3 DEF Terminals, Redraw, Consume, Leave, Keyboard, termVars
    <2> QED BY <1>2, <2>1, <2>2
  <1>4. CASE \E s \in Sessions : ReadLoop(s)
    BY <1>1, <1>4, ReadLoopFrame
  <1>5. CASE \E s \in Sessions : WaitLoop(s)
    BY <1>5, WaitLoopFrame
  <1>6. CASE \E b \in Bridges : Message(b) \/ Handler(b) \/ Announcer(b)
    BY <1>6, MessageFrame, HandlerFrame, AnnouncerFrame
  <1>7. CASE Network \/ NewOffer
    BY <1>7, NetworkFrame, NewOfferFrame
  <1>8. CASE UNCHANGED vars
    BY <1>8 DEF vars, appVars, termVars
  <1> QED BY <1>3, <1>4, <1>5, <1>6, <1>7, <1>8 DEF Next

\* Whatever a handler answers was tapped on its own phone.
LEMMA NextKeepsTapped ==
  ASSUME Types, Tapped, [Next]_vars
  PROVE  Tapped'
  <1>0. handler \in [Bridges -> [op : HandlerSteps, sess : Sessions,
                                 req : 0 .. Len(reqs), list : Lists]]
    BY DEF Types, TypeOK, HandlerTypes
  <1>1. \A b \in Bridges : cards[b] \subseteq cards'[b]
    BY CardsAndAsksStay
  <1>2. CASE UNCHANGED handler
    BY <1>1, <1>2 DEF Tapped
  <1>3. ASSUME NEW b \in Bridges, NEW r \in cards[b], ApprovalResponse(b, r)
        PROVE  Tapped'
    <2>1. /\ handler'[b].req = r
          /\ \A c \in Bridges \ {b} : handler'[c] = handler[c]
      BY <1>0, <1>3 DEF ApprovalResponse
    <2> QED BY <1>1, <2>1 DEF Tapped
  <1>4. ASSUME NEW b \in Bridges, handler'[b].op # "answer",
               \A c \in Bridges \ {b} : handler'[c] = handler[c]
        PROVE  Tapped'
    BY <1>1, <1>4 DEF Tapped
  <1>5. ASSUME NEW b \in Bridges, Message(b) PROVE Tapped'
    <2>1. ASSUME \/ \E s \in Sessions : TermInput(b, s) \/ SessionClose(b, s)
                 \/ SessionCreate(b)
          PROVE  Tapped'
      BY <1>0, <1>4, <2>1 DEF TermInput, SessionClose, SessionCreate, Idle
    <2> QED BY <1>3, <1>5, <2>1 DEF Message
  <1>6. ASSUME NEW b \in Bridges, Handler(b) PROVE Tapped'
    <2>1. CASE WriteInput(b) \/ CreateFails(b) \/ HandlerSend(b)
      BY <1>0, <1>4, <2>1 DEF WriteInput, CreateFails, HandlerSend, Idle
    <2>2. CASE Create(b)
      BY <1>0, <1>4, <2>2 DEF Create
    <2>3. CASE SessionCreated(b) \/ SessionClosed(b) \/ HandlerList(b)
      BY <1>0, <1>4, <2>3 DEF SessionCreated, SessionClosed, HandlerList
    <2> QED BY <1>6, <2>1, <2>2, <2>3 DEF Handler
  <1>7. ASSUME NEW s \in Sessions, ReadLoop(s) \/ WaitLoop(s) PROVE Tapped'
    BY <1>2, <1>7, ReadLoopFrame, WaitLoopFrame
  <1>8. ASSUME NEW b \in Bridges, Announcer(b) PROVE Tapped'
    BY <1>2, <1>8, AnnouncerFrame
  <1>9. CASE Terminals \/ Network \/ NewOffer
    BY <1>2, <1>9, TerminalsFrame, NetworkFrame, NewOfferFrame
  <1>10. CASE UNCHANGED vars
    BY <1>2, <1>10 DEF vars, bridgeVars
  <1> QED BY <1>5, <1>6, <1>7, <1>8, <1>9, <1>10 DEF Next

\* What is shown, waited at, read for and requested, as indices of asks.
LEMMA AskIndices ==
  ASSUME Types
  PROVE  /\ Len(asks) \in Nat /\ DOMAIN asks = 1 .. Len(asks)
         /\ \A a \in 1 .. Len(asks) : asks[a].sess \in Sessions
         /\ DOMAIN reqs = 1 .. Len(reqs)
         /\ \A r \in DOMAIN reqs : reqs[r].ask \in 1 .. Len(asks)
         /\ \A s \in Sessions : \A i \in DOMAIN screen[s] : screen[s][i] \in 1 .. Len(asks)
         /\ \A s \in Sessions : asking[s] # 0 => asking[s] \in 1 .. Len(asks)
         /\ \A s \in Sessions : reader[s].at # "rest" => reader[s].ask \in 1 .. Len(asks)
  <1>1. /\ Len(asks) \in Nat /\ DOMAIN asks = 1 .. Len(asks)
        /\ \A a \in 1 .. Len(asks) : asks[a].sess \in Sessions
    <2>1. asks \in Seq([sess : Sessions, text : Prompts])
      BY DEF Types, TypeOK, TerminalTypes
    <2>2. \A a \in 1 .. Len(asks) : asks[a] \in [sess : Sessions, text : Prompts]
      BY <2>1, ElementOf
    <2> QED BY <2>1, <2>2
  <1>2. /\ DOMAIN reqs = 1 .. Len(reqs)
        /\ \A r \in DOMAIN reqs : reqs[r].ask \in 1 .. Len(asks)
    <2>1. reqs \in Seq(Requests)
      BY DEF Types, TypeOK, RequestTypes
    <2>2. \A r \in DOMAIN reqs : reqs[r] \in Requests
      BY <2>1
    <2> QED BY <2>1, <2>2 DEF Requests
  <1>3. ASSUME NEW s \in Sessions, NEW i \in DOMAIN screen[s]
        PROVE  screen[s][i] \in 1 .. Len(asks)
    <2>1. screen[s] \in Seq(1 .. Len(asks))
      BY DEF Types, TypeOK, TerminalTypes
    <2> QED BY <2>1
  <1>4. \A s \in Sessions : asking[s] # 0 => asking[s] \in 1 .. Len(asks)
    BY <1>1 DEF Types, TypeOK, TerminalTypes
  <1>5. \A s \in Sessions : reader[s].at # "rest" => reader[s].ask \in 1 .. Len(asks)
    BY <1>1 DEF Types, TypeOK, ReaderTypes, Busy
  <1> QED BY <1>1, <1>2, <1>3, <1>4, <1>5

\* Steps by which a prompt is at most passed on within its session.
LEMMA OwnPromptsKept ==
  ASSUME Types, OwnPrompts,
         \A a \in 1 .. Len(asks) : asks'[a] = asks[a],
         \A s \in Sessions : \A i \in DOMAIN screen'[s] :
            \/ \E j \in DOMAIN screen[s] : screen'[s][i] = screen[s][j]
            \/ asking[s] # 0 /\ screen'[s][i] = asking[s],
         \A s \in Sessions : asking'[s] \in {0, asking[s]},
         \A s \in Sessions : reader'[s].at # "rest" =>
            \/ reader[s].at # "rest" /\ reader'[s].ask = reader[s].ask
            \/ \E j \in DOMAIN screen[s] : reader'[s].ask = screen[s][j],
         \A r \in DOMAIN reqs' :
            \/ r \in DOMAIN reqs /\ reqs'[r] = reqs[r]
            \/ \E s \in Sessions : /\ reader[s].at # "rest" /\ reqs'[r].sess = s
                                   /\ reqs'[r].ask = reader[s].ask
  PROVE  OwnPrompts'
  <1>1. ASSUME NEW s \in Sessions
        PROVE  /\ \A j \in DOMAIN screen[s] : asks'[screen[s][j]].sess = s
               /\ asking[s] # 0 => asks'[asking[s]].sess = s
               /\ reader[s].at # "rest" => asks'[reader[s].ask].sess = s
    BY AskIndices DEF OwnPrompts
  <1>2. ASSUME NEW s \in Sessions
        PROVE  /\ \A i \in DOMAIN screen'[s] : asks'[screen'[s][i]].sess = s
               /\ asking'[s] # 0 => asks'[asking'[s]].sess = s
               /\ reader'[s].at # "rest" => asks'[reader'[s].ask].sess = s
    BY <1>1
  <1>3. ASSUME NEW r \in DOMAIN reqs' PROVE asks'[reqs'[r].ask].sess = reqs'[r].sess
    <2>1. CASE r \in DOMAIN reqs /\ reqs'[r] = reqs[r]
      BY <2>1, AskIndices DEF OwnPrompts
    <2>2. CASE \E s \in Sessions : /\ reader[s].at # "rest" /\ reqs'[r].sess = s
                                   /\ reqs'[r].ask = reader[s].ask
      BY <1>1, <2>2
    <2> QED BY <2>1, <2>2
  <1> QED BY <1>2, <1>3 DEF OwnPrompts

LEMMA TerminalsKeepOwnPrompts ==
  ASSUME Types, OwnPrompts, Terminals
  PROVE  OwnPrompts'
  <1>0. /\ asks \in Seq([sess : Sessions, text : Prompts])
        /\ asking \in [Sessions -> 0 .. Len(asks)]
        /\ screen \in [Sessions -> Seq(1 .. Len(asks))]
    BY DEF Types, TypeOK, TerminalTypes
  <1>1. UNCHANGED <<reader, reqs>>
    BY TerminalsFrame
  <1>2. ASSUME NEW s \in Sessions, Show(s) PROVE OwnPrompts'
    <2> DEFINE n == Len(asks) + 1
    <2>1. PICK t \in Prompts : asks' = Append(asks, [sess |-> s, text |-> t])
      BY <1>2 DEF Show
    <2>2. [sess |-> s, text |-> t] \in [sess : Sessions, text : Prompts]
      OBVIOUS
    <2>3. asks'[n].sess = s /\ \A a \in 1 .. Len(asks) : asks'[a] = asks[a]
      BY <1>0, <2>1, <2>2, Append1
    <2>4. /\ asking' = [asking EXCEPT ![s] = n]
          /\ screen' = [screen EXCEPT ![s] = Append(@, n)]
      BY <1>2 DEF Show
    <2> HIDE DEF n
    <2>5. ASSUME NEW x \in Sessions
          PROVE  /\ asking'[x] = asking[x] \/ (x = s /\ asking'[x] = n)
                 /\ \A i \in DOMAIN screen'[x] :
                       \/ i \in DOMAIN screen[x] /\ screen'[x][i] = screen[x][i]
                       \/ x = s /\ screen'[x][i] = n
      BY <1>0, <2>4
    <2>6. ASSUME NEW x \in Sessions
          PROVE  /\ \A i \in DOMAIN screen[x] : asks'[screen[x][i]].sess = x
                 /\ asking[x] # 0 => asks'[asking[x]].sess = x
                 /\ reader[x].at # "rest" => asks'[reader[x].ask].sess = x
      BY <2>3, AskIndices DEF OwnPrompts
    <2>7. \A r \in DOMAIN reqs : asks'[reqs[r].ask].sess = reqs[r].sess
      BY <2>3, AskIndices DEF OwnPrompts
    <2> QED BY <1>1, <2>3, <2>5, <2>6, <2>7 DEF OwnPrompts
  <1>3. ASSUME NEW s \in Sessions, Redraw(s) PROVE OwnPrompts'
    <2>1. /\ asking[s] # 0 /\ UNCHANGED <<asks, asking>>
          /\ screen' = [screen EXCEPT ![s] = Append(@, asking[s])]
      BY <1>3 DEF Redraw
    <2>2. \A x \in Sessions : \A i \in DOMAIN screen'[x] :
             \/ i \in DOMAIN screen[x] /\ screen'[x][i] = screen[x][i]
             \/ x = s /\ screen'[x][i] = asking[s]
      BY <1>0, <2>1
    <2> QED BY <1>1, <2>1, <2>2, OwnPromptsKept
  <1>4. ASSUME UNCHANGED <<asks, screen>>, \A s \in Sessions : asking'[s] \in {0, asking[s]}
        PROVE  OwnPrompts'
    BY <1>1, <1>4, OwnPromptsKept
  <1>5. ASSUME NEW s \in Sessions, Consume(s) PROVE OwnPrompts'
    BY <1>0, <1>4, <1>5 DEF Consume
  <1>6. ASSUME NEW s \in Sessions, Leave(s) PROVE OwnPrompts'
    BY <1>4, <1>6 DEF Leave, termVars
  <1>7. CASE Keyboard
    BY <1>4, <1>7 DEF Keyboard
  <1> QED BY <1>2, <1>3, <1>5, <1>6, <1>7 DEF Terminals

LEMMA ReadLoopKeepsOwnPrompts ==
  ASSUME Types, OwnPrompts, NEW s \in Sessions, ReadLoop(s)
  PROVE  OwnPrompts'
  <1>0. /\ reader \in [Sessions -> [at : ReaderSteps, ask : 0 .. Len(asks),
                                    req : 0 .. Len(reqs), todo : Seq(Bridges)]]
        /\ screen \in [Sessions -> Seq(1 .. Len(asks))]
    BY DEF Types, TypeOK, ReaderTypes, TerminalTypes
  <1>1. asks' = asks /\ asking' = asking
    BY DEF ReadLoop, ReadChunk, CheckCancelled, ScanChunk, RecordRequest, SendRequest,
           termVars
  <1>2. CASE ReadChunk(s)
    <2>1. /\ screen[s] # << >> /\ reqs' = reqs
          /\ screen' = [screen EXCEPT ![s] = Tail(@)]
          /\ reader' = [reader EXCEPT ![s] =
                          IF onOutputs[s] = << >> THEN Resting
                          ELSE [at |-> "check", ask |-> Head(screen[s]), req |-> 0,
                                todo |-> onOutputs[s]]]
      BY <1>2 DEF ReadChunk, appVars
    <2>2. screen[s] \in Seq(1 .. Len(asks)) /\ Head(screen[s]) = screen[s][1]
          /\ 1 \in DOMAIN screen[s]
      BY <1>0, <2>1
    <2>3. \A i \in DOMAIN Tail(screen[s]) :
             i + 1 \in DOMAIN screen[s] /\ Tail(screen[s])[i] = screen[s][i + 1]
      BY <2>1, <2>2
    <2>4. \A x \in Sessions : \A i \in DOMAIN screen'[x] :
             \E j \in DOMAIN screen[x] : screen'[x][i] = screen[x][j]
      BY <1>0, <2>1, <2>3
    <2>5. \A x \in Sessions : reader'[x].at # "rest" =>
             \/ reader[x].at # "rest" /\ reader'[x].ask = reader[x].ask
             \/ x = s /\ reader'[x].ask = screen[s][1]
      BY <1>0, <2>1, <2>2 DEF Resting
    <2> QED BY <1>1, <2>1, <2>2, <2>4, <2>5, OwnPromptsKept
  <1>3. ASSUME reader[s].at # "rest"
        PROVE  NextCallback(s) =>
                 \A x \in Sessions : reader'[x].at # "rest" =>
                    reader[x].at # "rest" /\ reader'[x].ask = reader[x].ask
    BY <1>0, <1>3 DEF NextCallback, Resting
  <1>4. CASE CheckCancelled(s) \/ ScanChunk(s) \/ SendRequest(s)
    <2>1. reader[s].at # "rest" /\ UNCHANGED <<screen, reqs>>
      BY <1>4 DEF CheckCancelled, ScanChunk, SendRequest, termVars, appVars
    <2>2. \/ NextCallback(s) \/ reader' = [reader EXCEPT ![s].at = "scan"]
          \/ reader' = [reader EXCEPT ![s].at = "ask"]
      BY <1>4 DEF CheckCancelled, ScanChunk, SendRequest
    <2>3. ASSUME NEW at \in ReaderSteps, reader' = [reader EXCEPT ![s].at = at]
          PROVE  \A x \in Sessions : reader'[x].at # "rest" =>
                    reader[x].at # "rest" /\ reader'[x].ask = reader[x].ask
      BY <1>0, <2>1, <2>3
    <2>4. \A x \in Sessions : reader'[x].at # "rest" =>
             reader[x].at # "rest" /\ reader'[x].ask = reader[x].ask
      BY <1>3, <2>1, <2>2, <2>3 DEF ReaderSteps
    <2> QED BY <1>1, <2>1, <2>4, OwnPromptsKept
  <1>5. CASE RecordRequest(s)
    <2>1. /\ reader[s].at = "ask" /\ screen' = screen
          /\ reader' = [reader EXCEPT ![s].at = "send", ![s].req = Len(reqs) + 1]
      BY <1>5 DEF RecordRequest, termVars
    <2>2. \A x \in Sessions : reader'[x].at # "rest" =>
             reader[x].at # "rest" /\ reader'[x].ask = reader[x].ask
      BY <1>0, <2>1
    <2>3. \A r \in DOMAIN reqs' :
             \/ r \in DOMAIN reqs /\ reqs'[r] = reqs[r]
             \/ reqs'[r].sess = s /\ reqs'[r].ask = reader[s].ask
      BY <1>5, OldOrNew
    <2> QED BY <1>1, <2>1, <2>2, <2>3, OwnPromptsKept
  <1> QED BY <1>2, <1>4, <1>5 DEF ReadLoop

LEMMA NextKeepsOwnPrompts ==
  ASSUME Types, OwnPrompts, [Next]_vars
  PROVE  OwnPrompts'
  <1>1. ASSUME UNCHANGED <<asks, asking, screen, reader, reqs>> PROVE OwnPrompts'
    BY <1>1 DEF OwnPrompts
  <1>2. ASSUME NEW s \in Sessions, WaitLoop(s) PROVE OwnPrompts'
    BY <1>1, <1>2, WaitLoopFrame
       DEF WaitLoop, MarkExited, ExitList, ExitSend, termVars
  <1>3. ASSUME NEW b \in Bridges, Message(b) PROVE OwnPrompts'
    BY <1>1, <1>3, MessageFrame
       DEF Message, ApprovalResponse, TermInput, SessionClose, SessionCreate, termVars
  <1>4. ASSUME NEW b \in Bridges, Handler(b) PROVE OwnPrompts'
    BY <1>1, <1>4, HandlerFrame
       DEF Handler, WriteInput, Create, CreateFails, SessionCreated, SessionClosed,
           HandlerList, HandlerSend, termVars
  <1>5. ASSUME NEW b \in Bridges, Announcer(b) PROVE OwnPrompts'
    BY <1>1, <1>5, AnnouncerFrame DEF Announcer, AnnounceList, AnnounceSend, termVars
  <1>6. CASE Network
    BY <1>1, <1>6, NetworkFrame
       DEF Network, OfferBegin, Connect, ChannelOpens, Lose, termVars
  <1>7. CASE NewOffer
    BY <1>1, <1>7, NewOfferFrame
       DEF NewOffer, OfferFails, OfferReady, OfferAttach, OfferEnd, termVars
  <1>8. CASE UNCHANGED vars
    BY <1>1, <1>8 DEF vars, termVars, appVars
  <1> QED BY <1>2, <1>3, <1>4, <1>5, <1>6, <1>7, <1>8, TerminalsKeepOwnPrompts,
             ReadLoopKeepsOwnPrompts DEF Next

\* A function that continues a sequence by one element is that sequence, appended to.
LEMMA AppendIs ==
  ASSUME NEW T, NEW q \in Seq(T), NEW e \in T, NEW f, DOMAIN f = 1 .. Len(q) + 1,
         f = [i \in DOMAIN f |-> f[i]], f[Len(q) + 1] = e,
         \A i \in 1 .. Len(q) : f[i] = q[i]
  PROVE  f = Append(q, e)
  <1> DEFINE g == Append(q, e)
  <1>1. /\ g \in Seq(T) /\ Len(g) = Len(q) + 1 /\ g[Len(q) + 1] = e
        /\ \A i \in 1 .. Len(q) : g[i] = q[i]
    BY Append1
  <1> HIDE DEF g
  <1>2. /\ Len(q) \in Nat /\ DOMAIN g = 1 .. Len(q) + 1
        /\ g = [i \in 1 .. Len(q) + 1 |-> g[i]]
    BY <1>1
  <1>3. \A i \in 1 .. Len(q) + 1 : i = Len(q) + 1 \/ i \in 1 .. Len(q)
    BY <1>2
  <1>4. \A i \in 1 .. Len(q) + 1 : f[i] = g[i]
    BY <1>1, <1>3
  <1>5. f = g
    BY <1>2, <1>4
  <1> QED BY <1>5 DEF g

\* The prompts shown, as the specification sees them: nothing is forgotten.
LEMMA SameAsked ==
  ASSUME Types, UNCHANGED asks
  PROVE  AskedIn' = AskedIn
  BY DEF AskedIn

LEMMA SameRequests ==
  ASSUME UNCHANGED reqs
  PROVE  RequestedFor' = RequestedFor
  BY DEF RequestedFor

\* Show is a prompt that is asked, and nothing else.
LEMMA ShowAsks ==
  ASSUME Types, NEW s \in Sessions, Show(s)
  PROVE  Approval!Ask(s)
  <1>1. PICK t \in Prompts : asks' = Append(asks, [sess |-> s, text |-> t])
    BY DEF Show
  <1>2. /\ asks \in Seq([sess : Sessions, text : Prompts])
        /\ [sess |-> s, text |-> t] \in [sess : Sessions, text : Prompts]
    BY DEF Types, TypeOK, TerminalTypes
  <1>3. /\ asks' \in Seq([sess : Sessions, text : Prompts]) /\ Len(asks') = Len(asks) + 1
        /\ asks'[Len(asks) + 1].sess = s
        /\ \A a \in 1 .. Len(asks) : asks'[a] = asks[a]
    BY <1>1, <1>2, Append1
  <1>4. Len(asks) \in Nat /\ DOMAIN asks = 1 .. Len(asks) /\ DOMAIN asks' = 1 .. Len(asks) + 1
    BY <1>2, <1>3
  <1>5. AskedIn \in Seq(Sessions) /\ Len(AskedIn) = Len(asks)
    <2>1. \A a \in 1 .. Len(asks) : asks[a].sess \in Sessions
      BY AskIndices
    <2>2. AskedIn \in [1 .. Len(asks) -> Sessions]
      BY <1>4, <2>1 DEF AskedIn
    <2> QED BY <1>4, <2>2, SeqOfLength
  <1>6. /\ DOMAIN AskedIn' = 1 .. Len(AskedIn) + 1
        /\ AskedIn' = [a \in DOMAIN AskedIn' |-> AskedIn'[a]]
        /\ AskedIn'[Len(AskedIn) + 1] = s
        /\ \A a \in 1 .. Len(AskedIn) : AskedIn'[a] = AskedIn[a]
    BY <1>3, <1>4, <1>5 DEF AskedIn
  <1>7. AskedIn' = Append(AskedIn, s)
    BY <1>5, <1>6, AppendIs
  <1>8. UNCHANGED <<reqs, cards, answers>>
    BY DEF Show, appVars
  <1> QED BY <1>7, <1>8, SameRequests DEF Approval!Ask

\* RecordRequest requests a prompt for which no request was made.
LEMMA RecordRequests ==
  ASSUME IInv, NEW s \in Sessions, RecordRequest(s)
  PROVE  \E a \in DOMAIN AskedIn : Approval!Request(a)
  <1> DEFINE a == reader[s].ask
  <1>0. Types
    BY DEF IInv, Types
  <1>1. /\ reader[s].at = "ask" /\ Len(reqs) \in Nat
        /\ DOMAIN reqs = 1 .. Len(reqs) /\ DOMAIN reqs' = 1 .. Len(reqs) + 1
        /\ \A r \in 1 .. Len(reqs) : reqs'[r] = reqs[r]
        /\ reqs'[Len(reqs) + 1].ask = a
        /\ UNCHANGED <<asks, cards, answers>>
    BY <1>0, Recorded
  <1>2. a \in 1 .. Len(asks) /\ a \in DOMAIN AskedIn
    BY <1>0, <1>1, AskIndices DEF AskedIn
  <1>3. \A r \in DOMAIN RequestedFor : RequestedFor[r] # a
    BY <1>1 DEF IInv, OneOwner, Text, RequestedFor
  <1> HIDE DEF a
  <1>4. RequestedFor \in Seq(1 .. Len(asks)) /\ Len(RequestedFor) = Len(reqs)
    <2>1. RequestedFor \in [1 .. Len(reqs) -> 1 .. Len(asks)]
      BY <1>0, <1>1, AskIndices DEF RequestedFor
    <2> QED BY <1>1, <2>1, SeqOfLength
  <1>5. /\ DOMAIN RequestedFor' = 1 .. Len(RequestedFor) + 1
        /\ RequestedFor' = [r \in DOMAIN RequestedFor' |-> RequestedFor'[r]]
        /\ RequestedFor'[Len(RequestedFor) + 1] = a
        /\ \A r \in 1 .. Len(RequestedFor) : RequestedFor'[r] = RequestedFor[r]
    BY <1>1, <1>4 DEF RequestedFor
  <1>6. RequestedFor' = Append(RequestedFor, a)
    BY <1>2, <1>4, <1>5, AppendIs
  <1>7. Approval!Request(a)
    BY <1>0, <1>1, <1>2, <1>3, <1>6, SameAsked DEF Approval!Request
  <1> QED BY <1>2, <1>7

\* SendRequest delivers the request that no phone shows, or nothing.
LEMMA SendDelivers ==
  ASSUME IInv, NEW s \in Sessions, SendRequest(s)
  PROVE  \/ \E b \in Bridges, r \in DOMAIN RequestedFor : Approval!Deliver(b, r)
         \/ UNCHANGED Approval!vars
  <1> DEFINE b == Head(reader[s].todo)
             r == reader[s].req
  <1>0. Types
    BY DEF IInv, Types
  <1>1. /\ reader[s].at = "send" /\ UNCHANGED <<asks, reqs, answers>>
        /\ cards' = IF Arrives(b) THEN [cards EXCEPT ![b] = @ \union {r}] ELSE cards
    BY DEF SendRequest, termVars
  <1>2. b \in Bridges
    <2>1. reader[s].todo \in Seq(Bridges) /\ reader[s].todo # << >>
      BY <1>0, <1>1 DEF Types, TypeOK, Busy, ReaderTypes
    <2> QED BY <2>1, Tail1
  <1>3. r \in DOMAIN RequestedFor /\ \A c \in Bridges : r \notin cards[c]
    BY <1>0, <1>1, <1>2 DEF IInv, Sending, Types, TypeOK, RequestTypes, RequestedFor
  <1>4. AskedIn' = AskedIn /\ RequestedFor' = RequestedFor
    BY <1>0, <1>1, SameAsked, SameRequests
  <1>5. CASE Arrives(b)
    <2>1. Approval!Deliver(b, r)
      BY <1>1, <1>3, <1>4, <1>5 DEF Approval!Deliver
    <2> QED BY <1>2, <1>3, <2>1
  <1>6. CASE ~Arrives(b)
    BY <1>1, <1>4, <1>6 DEF Approval!vars
  <1> QED BY <1>5, <1>6

\* WriteInput gives the answer to a request of its own phone that was not
\* answered, in the session that asked, or changes nothing of approvals.
LEMMA WriteGives ==
  ASSUME IInv, NEW b \in Bridges, WriteInput(b)
  PROVE  \/ \E r \in DOMAIN RequestedFor : Approval!Give(b, r)
         \/ UNCHANGED Approval!vars
  <1> DEFINE r == handler[b].req
  <1>0. Types
    BY DEF IInv, Types
  <1>1. /\ UNCHANGED <<asks, reqs, cards>>
        /\ \/ UNCHANGED answers
           \/ /\ handler[b].op = "answer"
              /\ answers' = Append(answers, [req |-> r, sess |-> handler[b].sess])
    BY DEF WriteInput
  <1>2. AskedIn' = AskedIn /\ RequestedFor' = RequestedFor
    BY <1>0, <1>1, SameAsked, SameRequests
  <1>3. CASE UNCHANGED answers
    BY <1>1, <1>2, <1>3 DEF Approval!vars
  <1>4. CASE /\ handler[b].op = "answer"
             /\ answers' = Append(answers, [req |-> r, sess |-> handler[b].sess])
    <2>1. r \in cards[b] /\ \A i \in DOMAIN answers : answers[i].req # r
      BY <1>4 DEF IInv, Tapped, OneStage
    <2>2. r \in DOMAIN reqs /\ r \in DOMAIN RequestedFor
      BY <1>0, <2>1 DEF Types, TypeOK, RequestTypes, RequestedFor
    <2>3. reqs[r].ask \in DOMAIN asks
      BY <1>0, <2>2, AskIndices
    <2>4. AskedIn[RequestedFor[r]] = handler[b].sess
      BY <1>4, <2>2, <2>3 DEF IInv, OneStage, OwnPrompts, AskedIn, RequestedFor
    <2>5. Approval!Give(b, r)
      BY <1>1, <1>2, <1>4, <2>1, <2>4 DEF Approval!Give
    <2> QED BY <2>2, <2>5
  <1> QED BY <1>1, <1>3, <1>4

LEMMA StepsOfApprovals == IInv /\ [Next]_vars => [Approval!Next]_(Approval!vars)
  <1> SUFFICES ASSUME IInv, [Next]_vars PROVE [Approval!Next]_(Approval!vars)
    OBVIOUS
  <1>0. Types
    BY DEF IInv, Types
  <1>1. ASSUME UNCHANGED <<asks, reqs, cards, answers>> PROVE UNCHANGED Approval!vars
    BY <1>0, <1>1, SameAsked, SameRequests DEF Approval!vars
  <1>2. ASSUME NEW s \in Sessions, RecordRequest(s) PROVE Approval!Next
    BY <1>2, RecordRequests DEF Approval!Next
  <1>3. ASSUME NEW s \in Sessions, SendRequest(s)
        PROVE  [Approval!Next]_(Approval!vars)
    BY <1>3, SendDelivers DEF Approval!Next
  <1>4. ASSUME NEW s \in Sessions, ReadLoop(s) PROVE [Approval!Next]_(Approval!vars)
    <2>1. CASE ReadChunk(s) \/ CheckCancelled(s) \/ ScanChunk(s)
      BY <1>1, <1>4, <2>1, ReadLoopFrame DEF ReadChunk, CheckCancelled, ScanChunk, appVars
    <2> QED BY <1>2, <1>3, <1>4, <2>1 DEF ReadLoop
  <1>5. ASSUME NEW b \in Bridges, Handler(b) PROVE [Approval!Next]_(Approval!vars)
    <2>1. CASE WriteInput(b)
      BY <2>1, WriteGives DEF Approval!Next
    <2>2. CASE ~WriteInput(b)
      BY <1>1, <1>5, <2>2, HandlerFrame
         DEF Handler, Create, CreateFails, SessionCreated, SessionClosed, HandlerList,
             HandlerSend, appVars
    <2> QED BY <2>1, <2>2
  <1>6. ASSUME NEW s \in Sessions, Show(s) PROVE Approval!Next
    BY <1>0, <1>6, ShowAsks DEF Approval!Next
  <1>7. CASE Terminals
    <2>1. UNCHANGED <<reqs, cards, answers>>
      BY <1>7, TerminalsFrame
    <2>2. UNCHANGED asks \/ \E s \in Sessions : Show(s)
      BY <1>7 DEF Terminals, Redraw, Consume, Leave, Keyboard, termVars
    <2> QED BY <1>1, <1>6, <2>1, <2>2
  <1>8. CASE Network \/ NewOffer
    BY <1>1, <1>8, NetworkFrame, NewOfferFrame
  <1>9. ASSUME NEW s \in Sessions, WaitLoop(s) PROVE UNCHANGED Approval!vars
    BY <1>1, <1>9, WaitLoopFrame
  <1>10. ASSUME NEW b \in Bridges, Message(b) \/ Announcer(b) PROVE UNCHANGED Approval!vars
    BY <1>1, <1>10, MessageFrame, AnnouncerFrame
  <1>11. CASE UNCHANGED vars
    BY <1>1, <1>11 DEF vars, appVars, termVars
  <1> QED BY <1>4, <1>5, <1>7, <1>8, <1>9, <1>10, <1>11 DEF Next

(***************************************************************************)
(* The theorems.                                                           *)
(***************************************************************************)

LEMMA InitInv == Init => IInv
  <1> SUFFICES ASSUME Init PROVE IInv
    OBVIOUS
  <1>1. TypeOK /\ Busy /\ PeerBusy
    BY InitTypes DEF Types
  <1>2. OnePeer /\ NoPeerYet
    BY DEF Init, OnePeer, NoPeerYet
  <1>3. SessionsAccounted
    <2>1. Cardinality({First}) = 1
      BY FS_Singleton
    <2> QED BY <2>1, BridgeAssumption DEF Init, SessionsAccounted
  <1>4. reqs = << >> /\ answers = << >> /\ \A s \in Sessions : reader[s].at = "rest"
    BY DEF Init, Resting
  <1>5. \A b \in Bridges : handler[b].op = "idle" /\ pending[b] = {} /\ cards[b] = {}
    BY DEF Init, Idle
  <1>6. Known
    <2>1. First \in Sessions /\ managed = {First} /\ status[First] = "running"
      BY BridgeAssumption DEF Init
    <2>2. DOMAIN reqs = {}
      BY <1>4
    <2> QED BY <1>4, <2>1, <2>2 DEF Known
  <1>7. Sending /\ OneOwner
    BY <1>4 DEF Sending, OneOwner
  <1>8. OneStage /\ AnsweredOnce /\ CardsPending /\ Tapped
    BY <1>4, <1>5 DEF OneStage, AnsweredOnce, CardsPending, Tapped
  <1>9. OwnPrompts
    <2>1. \A s \in Sessions : screen[s] = << >> /\ asking[s] = 0
      BY DEF Init
    <2> QED BY <1>4, <2>1 DEF OwnPrompts
  <1> QED BY <1>1, <1>2, <1>3, <1>6, <1>7, <1>8, <1>9 DEF IInv

LEMMA NextKeepsInv == IInv /\ [Next]_vars => IInv'
  <1> SUFFICES ASSUME IInv, [Next]_vars PROVE IInv'
    OBVIOUS
  <1> USE DEF IInv
  <1>1. Types
    BY DEF Types
  <1>2. Types'
    BY <1>1, NextKeepsTypes
  <1>3. OnePeer' /\ NoPeerYet'
    BY <1>1, NextKeepsPeers
  <1>4. SessionsAccounted'
    BY <1>1, NextKeepsSessions
  <1>5. Known'
    BY <1>1, NextKeepsKnown
  <1>6. OneStage' /\ AnsweredOnce'
    BY <1>1, NextKeepsApprovals
  <1>7. Sending' /\ CardsPending'
    BY <1>1, NextKeepsSending, NextKeepsCards
  <1>8. Tapped' /\ OwnPrompts' /\ OneOwner'
    BY <1>1, NextKeepsTapped, NextKeepsOwnPrompts, NextKeepsOwners
  <1> QED BY <1>2, <1>3, <1>4, <1>5, <1>6, <1>7, <1>8 DEF Types

\* The inductive invariant holds in every state.
THEOREM BridgeInv == Spec => []IInv
  BY InitInv, NextKeepsInv, PTL DEF Spec

\* However often a phone reconnects and an offer fails half-way, every peer but
\* the current one is closed (newOffer).
THEOREM BridgeOnePeer == Spec => []OnePeer
  <1>1. IInv => OnePeer
    BY DEF IInv
  <1> QED BY <1>1, BridgeInv, PTL

\* However many bridges create and close sessions at once, no process is left
\* that the manager does not list, and the limit is kept (Create and Close).
THEOREM BridgeSessionsAccounted == Spec => []SessionsAccounted
  <1>1. IInv => SessionsAccounted
    BY DEF IInv
  <1> QED BY <1>1, BridgeInv, PTL

\* However often a phone repeats an approval, it is written once, and to the
\* session that asked (handleApprovalResponse).
THEOREM BridgeAnsweredOnce == Spec => []AnsweredOnce
  <1>1. IInv => AnsweredOnce
    BY DEF IInv
  <1> QED BY <1>1, BridgeInv, PTL

\* A tap on a card of the open connection is taken however fast it comes, with any
\* number of prompts, sessions and connections (sendApprovalRequest).
THEOREM BridgeCardsWork == Spec => []CardsWork
  <1>1. IInv => CardsWork
    BY DEF IInv, CardsPending, CardsWork
  <1> QED BY <1>1, BridgeInv, PTL

\* The host implements approvals: with any number of sessions, prompts and
\* connections, each prompt shown is requested once at most, its request shows on
\* one phone at most, and it is answered once at most, by a phone that shows it,
\* where it was asked (sendApprovalRequest, handleApprovalResponse).
THEOREM BridgeImplementsApprovals == Spec => ImplementsApprovals
  <1>1. Init => Approval!Init
    <2> SUFFICES ASSUME Init PROVE Approval!Init
      OBVIOUS
    <2>1. /\ DOMAIN reqs = {} /\ DOMAIN asks = {} /\ answers = << >>
          /\ cards = [b \in Bridges |-> {}]
      BY DEF Init
    <2>2. RequestedFor = << >> /\ AskedIn = << >>
      BY <2>1 DEF RequestedFor, AskedIn
    <2> QED BY <2>1, <2>2 DEF Approval!Init
  <1> QED BY <1>1, StepsOfApprovals, BridgeInv, PTL
          DEF Spec, ImplementsApprovals, Approval!Spec
=============================================================================
