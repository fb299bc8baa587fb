--------------------------- MODULE SessionProofs ---------------------------
(***************************************************************************)
(* Proofs about pty.Session for any number of bridges and chunks.          *)
(***************************************************************************)
EXTENDS Session, SequenceTheorems, TLAPS

(***************************************************************************)
(* What a queue holds after an element is added or the first is taken.     *)
(***************************************************************************)

LEMMA RangeAppend ==
  ASSUME NEW T, NEW q \in Seq(T), NEW e \in T
  PROVE  /\ Append(q, e) \in Seq(T)
         /\ Range(Append(q, e)) = Range(q) \union {e}
  <1>1. Append(q, e) \in Seq(T) /\ Append(q, e) = q \o <<e>> /\ <<e>> \in Seq(T)
    BY AppendIsConcat
  <1>2. Range(<<e>>) = {e}
    BY DEF Range
  <1>3. Range(q \o <<e>>) = Range(q) \union Range(<<e>>)
    BY <1>1, RangeConcatenation, ZenonT(30)
  <1> QED BY <1>1, <1>2, <1>3, Zenon

LEMMA RangeTail ==
  ASSUME NEW T, NEW q \in Seq(T), q # << >>
  PROVE  /\ Head(q) \in T
         /\ Tail(q) \in Seq(T)
         /\ Range(q) = {Head(q)} \union Range(Tail(q))
  <1>1. Head(q) \in T /\ Tail(q) \in Seq(T)
    OBVIOUS
  <1>2. q = <<Head(q)>> \o Tail(q) /\ <<Head(q)>> \in Seq(T)
    OBVIOUS
  <1>3. Range(<<Head(q)>>) = {Head(q)}
    BY DEF Range
  <1>4. Range(<<Head(q)>> \o Tail(q)) = Range(<<Head(q)>>) \union Range(Tail(q))
    BY <1>1, <1>2, RangeConcatenation, ZenonT(30)
  <1> QED BY <1>1, <1>2, <1>3, <1>4, Zenon

\* A sequence that names no value twice keeps that when a new one is added
\* or the first is taken.
LEMMA InjectiveAppend ==
  ASSUME NEW T, NEW q \in Seq(T), NEW e \in T, IsInjective(q), e \notin Range(q)
  PROVE  IsInjective(Append(q, e))
  <1>1. /\ DOMAIN Append(q, e) = 1 .. Len(q) + 1
        /\ Append(q, e)[Len(q) + 1] = e
        /\ \A i \in 1 .. Len(q) : Append(q, e)[i] = q[i]
        /\ DOMAIN q = 1 .. Len(q)
        /\ Len(q) \in Nat
    OBVIOUS
  <1>2. \A i \in 1 .. Len(q) : q[i] # e
    BY <1>1, Zenon DEF Range
  <1> QED BY <1>1, <1>2 DEF IsInjective

LEMMA InjectiveTail ==
  ASSUME NEW T, NEW q \in Seq(T), q # << >>, IsInjective(q)
  PROVE  IsInjective(Tail(q)) /\ Head(q) \notin Range(Tail(q))
  <1>1. /\ Len(q) \in Nat /\ Len(q) >= 1
        /\ DOMAIN q = 1 .. Len(q)
        /\ DOMAIN Tail(q) = 1 .. Len(q) - 1
        /\ Head(q) = q[1]
        /\ \A i \in 1 .. Len(q) - 1 : Tail(q)[i] = q[i + 1]
    OBVIOUS
  <1>2. IsInjective(Tail(q))
    BY <1>1 DEF IsInjective
  <1>3. \A i \in DOMAIN Tail(q) : Tail(q)[i] # Head(q)
    BY <1>1 DEF IsInjective
  <1> QED BY <1>2, <1>3, Zenon DEF Range

(***************************************************************************)
(* The inductive invariant holds initially.                                *)
(***************************************************************************)

LEMMA InitIInv == Init => IInv
  <1> SUFFICES ASSUME Init PROVE IInv
    OBVIOUS
  <1>1. TypeOK
    <2>1. printed \in 0..MaxChunks /\ taken \in 0..printed /\ stored \in 0..taken
      BY ChunksAssumption DEF Init
    <2>2. onOutputs \in Seq(Subs) /\ todo \in Seq(Subs) /\ got \in [Subs -> Seq(Nat)]
      BY DEF Init
    <2> QED BY <2>1, <2>2 DEF Init, TypeOK
  <1>2. Range(onOutputs) = {} /\ Range(todo) = {} /\ IsInjective(onOutputs) /\ IsInjective(todo)
    BY DEF Init, Range, IsInjective
  <1>3. RingKeepsUp /\ RoundOnce
    BY <1>2 DEF Init, RingKeepsUp, RoundOnce
  <1>4. Registered
    BY <1>2 DEF Init, Registered, Subs, NoSnap
  <1>5. NoGap
    BY DEF Init, NoGap
  <1>6. LiveUpToDate /\ LiveContiguous
    BY DEF Init, LiveUpToDate, LiveContiguous, Subs
  <1>7. ExitHandedOn
    BY DEF Init, ExitHandedOn
  <1> QED BY <1>1, <1>3, <1>4, <1>5, <1>6, <1>7 DEF IInv

(***************************************************************************)
(* Steps of the process and of waitLoop touch neither the callbacks nor    *)
(* readLoop's position.                                                    *)
(***************************************************************************)

LEMMA StreamKept ==
  ASSUME IInv, UNCHANGED <<taken, stored, loop, todo, got>>,
         UNCHANGED <<onOutputs, reg, snap, saw>>
  PROVE  /\ RingKeepsUp' /\ Registered' /\ RoundOnce'
         /\ NoGap' /\ LiveUpToDate' /\ LiveContiguous'
  BY DEF IInv, RingKeepsUp, Registered, RoundOnce, NoGap, LiveUpToDate,
         LiveContiguous, OnItsWay

LEMMA ProcessKeepsIInv ==
  ASSUME IInv, Prints \/ Leave \/ Close
  PROVE  IInv'
  <1>1. UNCHANGED <<taken, stored, loop, todo, got>> /\
        UNCHANGED <<onOutputs, reg, snap, saw>>
    BY DEF Prints, Leave, Close, readVars, subVars
  <1>2. UNCHANGED <<status, onExit, wait, cb, done, notified>>
    BY DEF Prints, Leave, Close, subVars, waitVars
  <1>3. TypeOK'
    <2>1. /\ alive \in BOOLEAN /\ ptmx \in {"none", "open", "closed"}
          /\ printed \in 0 .. MaxChunks /\ taken \in 0 .. printed
      BY DEF IInv, TypeOK
    <2>2. /\ alive' \in BOOLEAN /\ ptmx' \in {"none", "open", "closed"}
          /\ printed' \in 0 .. MaxChunks /\ taken \in 0 .. printed'
      <3>1. CASE Prints
        BY <2>1, <3>1, ChunksAssumption DEF Prints
      <3>2. CASE Leave
        BY <2>1, <3>2 DEF Leave
      <3>3. CASE Close
        BY <2>1, <3>3 DEF Close
      <3> QED BY <3>1, <3>2, <3>3
    <2> QED BY <1>1, <1>2, <2>2 DEF IInv, TypeOK
  <1>4. ExitHandedOn'
    BY <1>1, <1>2 DEF IInv, ExitHandedOn
  <1> QED BY <1>1, <1>3, <1>4, StreamKept DEF IInv

LEMMA WaitLoopKeepsIInv ==
  ASSUME IInv, WaitLoop
  PROVE  IInv'
  <1>1. UNCHANGED <<taken, stored, loop, todo, got>> /\
        UNCHANGED <<onOutputs, reg, snap, saw>>
    BY DEF WaitLoop, MarkExited, RunOnExit, CloseDone, readVars, subVars
  <1>2. TypeOK'
    <2>1. UNCHANGED <<alive, ptmx, printed, onExit>>
      BY DEF WaitLoop, MarkExited, RunOnExit, CloseDone, procVars, subVars
    <2>2. CASE MarkExited
      BY <1>1, <2>1, <2>2 DEF IInv, TypeOK, MarkExited
    <2>3. CASE RunOnExit
      BY <1>1, <2>1, <2>3 DEF IInv, TypeOK, RunOnExit, procVars
    <2>4. CASE CloseDone
      BY <1>1, <2>1, <2>4 DEF IInv, TypeOK, CloseDone, procVars
    <2> QED BY <2>2, <2>3, <2>4 DEF WaitLoop
  <1>3. ExitHandedOn'
    <2>1. CASE MarkExited
      BY <2>1 DEF IInv, TypeOK, ExitHandedOn, MarkExited, subVars
    <2>2. CASE RunOnExit
      <3>1. \A b \in Bridges : b # NoOne
        BY SubsAssumption
      <3> QED BY <2>2, <3>1 DEF IInv, TypeOK, ExitHandedOn, RunOnExit,
                                procVars, subVars
    <2>3. CASE CloseDone
      BY <2>3 DEF IInv, TypeOK, ExitHandedOn, CloseDone, procVars, subVars
    <2> QED BY <2>1, <2>2, <2>3 DEF WaitLoop
  <1> QED BY <1>1, <1>2, <1>3, StreamKept DEF IInv

LEMMA StartKeepsIInv ==
  ASSUME IInv, Start
  PROVE  IInv'
  <1>1. TypeOK'
    BY DEF IInv, TypeOK, Start, subVars
  <1>2. ExitHandedOn'
    BY DEF IInv, TypeOK, ExitHandedOn, Start, subVars, Registered
  <1>3. loop # "store" /\ loop' = "read" /\ loop \notin {"copy", "call"}
    BY DEF IInv, ExitHandedOn, Start
  <1>4. UNCHANGED <<taken, stored, todo, got, onOutputs, reg, snap, saw>>
    BY DEF Start, subVars
  <1>5. RingKeepsUp' /\ Registered' /\ RoundOnce' /\ LiveContiguous'
    BY <1>3, <1>4 DEF IInv, RingKeepsUp, Registered, RoundOnce, LiveContiguous
  <1>6. NoGap' /\ LiveUpToDate'
    BY <1>3, <1>4 DEF IInv, NoGap, LiveUpToDate, OnItsWay
  <1> QED BY <1>1, <1>2, <1>5, <1>6 DEF IInv

(***************************************************************************)
(* Steps of readLoop leave the registrations and the exit handover alone.  *)
(***************************************************************************)

LEMMA ReadLoopKeepsRest ==
  ASSUME IInv, ReadLoop
  PROVE  Registered' /\ ExitHandedOn'
  <1>1. UNCHANGED <<status, wait, cb, notified, onOutputs, onExit, reg, snap, saw>>
    BY DEF ReadLoop, ReadChunk, ReadEnds, StoreChunk, CopyCallbacks, RunCallback,
           ReadAgain, procVars, waitVars, subVars
  <1>2. loop # "off"
    BY DEF ReadLoop, ReadChunk, ReadEnds, StoreChunk, CopyCallbacks, RunCallback,
           ReadAgain
  <1>3. Registered'
    BY <1>1 DEF IInv, Registered
  <1>4. ExitHandedOn'
    BY <1>1, <1>2 DEF IInv, ExitHandedOn
  <1> QED BY <1>3, <1>4

\* Between two chunks nothing is on its way: everything stored was handed out.
LEMMA ReadChunkKeepsIInv ==
  ASSUME IInv, ReadChunk
  PROVE  IInv'
  <1>1. Registered' /\ ExitHandedOn'
    BY ReadLoopKeepsRest DEF ReadLoop
  <1>2. TypeOK'
    BY DEF IInv, TypeOK, ReadChunk, procVars, waitVars, subVars
  <1>3. RingKeepsUp' /\ RoundOnce' /\ LiveContiguous'
    BY DEF IInv, TypeOK, RingKeepsUp, RoundOnce, LiveContiguous,
           ReadChunk, subVars
  <1>4. NoGap'
    BY DEF IInv, NoGap, OnItsWay, ReadChunk, subVars
  <1>5. LiveUpToDate'
    BY DEF IInv, TypeOK, LiveUpToDate, ReadChunk, subVars
  <1> QED BY <1>1, <1>2, <1>3, <1>4, <1>5 DEF IInv

LEMMA ReadEndsKeepsIInv ==
  ASSUME IInv, ReadEnds \/ ReadAgain
  PROVE  IInv'
  <1>1. Registered' /\ ExitHandedOn'
    BY ReadLoopKeepsRest DEF ReadLoop
  <1>2. UNCHANGED <<taken, stored, todo, got>> /\ loop' \in {"read", "ended"}
    BY DEF ReadEnds, ReadAgain
  <1>3. loop \in {"read", "call"} /\ (loop = "call" => todo = << >>)
    BY DEF ReadEnds, ReadAgain
  <1>4. loop = "call" => Range(todo) = {}
    BY <1>3 DEF Range
  <1>5. UNCHANGED <<procVars, waitVars, subVars>>
    BY DEF ReadEnds, ReadAgain
  <1>6. TypeOK'
    BY <1>2, <1>5 DEF IInv, TypeOK, procVars, waitVars, subVars
  <1>7. RingKeepsUp' /\ RoundOnce' /\ LiveContiguous'
    BY <1>2, <1>3, <1>5 DEF IInv, RingKeepsUp, RoundOnce, LiveContiguous, subVars
  <1>8. NoGap'
    BY <1>2, <1>3, <1>4, <1>5 DEF IInv, NoGap, OnItsWay, subVars
  <1>9. LiveUpToDate'
    BY <1>2, <1>3, <1>4, <1>5 DEF IInv, LiveUpToDate, subVars
  <1> QED BY <1>1, <1>6, <1>7, <1>8, <1>9 DEF IInv

\* The chunk enters the ring before the callbacks are copied, so whoever is
\* live now is in the copy.
LEMMA StoreChunkKeepsIInv ==
  ASSUME IInv, StoreChunk
  PROVE  IInv'
  <1>1. Registered' /\ ExitHandedOn'
    BY ReadLoopKeepsRest DEF ReadLoop
  <1>2. TypeOK'
    BY DEF IInv, TypeOK, StoreChunk, procVars, waitVars, subVars
  <1>3. RingKeepsUp' /\ RoundOnce' /\ LiveContiguous'
    BY DEF IInv, RingKeepsUp, RoundOnce, LiveContiguous, StoreChunk,
           subVars
  <1>4. NoGap'
    <2> SUFFICES ASSUME NEW b \in Bridges, snap[b] # NoSnap,
                        NEW k \in snap[b] + 1 .. taken
                 PROVE  k \in Range(got[b]) \/ k = taken
      BY DEF NoGap, OnItsWay, StoreChunk, subVars
    <2>1. CASE k = taken
      BY <2>1
    <2>2. CASE k # taken
      <3>1. snap[b] \in 0..MaxChunks /\ taken \in Nat /\ stored = taken - 1
        BY ChunksAssumption DEF IInv, TypeOK, RingKeepsUp, StoreChunk
      <3>2. k \in snap[b] + 1 .. stored
        BY <3>1, <2>2, ChunksAssumption
      <3>3. k \in Range(got[b]) \/ OnItsWay(b, k)
        BY <3>2 DEF IInv, NoGap
      <3> QED BY <3>3, <2>2 DEF OnItsWay
    <2> QED BY <2>1, <2>2
  <1>5. LiveUpToDate'
    BY DEF IInv, LiveUpToDate, StoreChunk, subVars
  <1> QED BY <1>1, <1>2, <1>3, <1>4, <1>5 DEF IInv

LEMMA CopyCallbacksKeepsIInv ==
  ASSUME IInv, CopyCallbacks
  PROVE  IInv'
  <1>1. Registered' /\ ExitHandedOn'
    BY ReadLoopKeepsRest DEF ReadLoop
  <1>2. TypeOK'
    BY DEF IInv, TypeOK, CopyCallbacks, procVars, waitVars, subVars
  <1>3. RingKeepsUp' /\ RoundOnce' /\ LiveContiguous'
    BY DEF IInv, RingKeepsUp, RoundOnce, Registered, LiveContiguous,
           CopyCallbacks, subVars
  <1>4. NoGap'
    <2>1. \A b \in Bridges : snap[b] # NoSnap => b \in Range(onOutputs)
      BY DEF IInv, Registered, Subs
    <2> QED BY <2>1 DEF IInv, NoGap, OnItsWay, CopyCallbacks, subVars
  <1>5. LiveUpToDate'
    BY DEF IInv, LiveUpToDate, CopyCallbacks, subVars
  <1> QED BY <1>1, <1>2, <1>3, <1>4, <1>5 DEF IInv

\* The subscriber called leaves the round with the chunk in hand as its last.
LEMMA RunCallbackKeepsIInv ==
  ASSUME IInv, RunCallback
  PROVE  IInv'
  <1> DEFINE h == Head(todo)
  <1>1. Registered' /\ ExitHandedOn'
    BY ReadLoopKeepsRest DEF ReadLoop
  <1>2. /\ h \in Subs /\ Tail(todo) \in Seq(Subs)
        /\ Range(todo) = {h} \union Range(Tail(todo))
        /\ IsInjective(Tail(todo)) /\ h \notin Range(Tail(todo))
    <2>1. todo \in Seq(Subs) /\ todo # << >> /\ IsInjective(todo)
      BY DEF IInv, TypeOK, RoundOnce, RunCallback
    <2> QED BY <2>1, RangeTail, InjectiveTail, Zenon
  <1> HIDE DEF h
  <1>3. /\ todo' = Tail(todo) /\ loop = "call" /\ UNCHANGED <<taken, stored, loop>>
        /\ got' = [got EXCEPT ![h] = Append(@, taken)]
        /\ UNCHANGED <<procVars, waitVars, subVars>>
    BY DEF RunCallback, h
  <1>4. taken \in Nat /\ got \in [Subs -> Seq(Nat)]
    BY ChunksAssumption DEF IInv, TypeOK
  <1>5. /\ got'[h] = Append(got[h], taken)
        /\ \A s \in Subs : s # h => got'[s] = got[s]
        /\ got' \in [Subs -> Seq(Nat)]
    BY <1>2, <1>3, <1>4
  <1>6. Range(got'[h]) = Range(got[h]) \union {taken}
    BY <1>2, <1>4, <1>5, RangeAppend
  <1>7. TypeOK'
    BY <1>2, <1>3, <1>5 DEF IInv, TypeOK, procVars, waitVars, subVars
  <1>8. RingKeepsUp' /\ RoundOnce'
    BY <1>2, <1>3 DEF IInv, RingKeepsUp, RoundOnce, subVars
  <1>9. NoGap'
    <2> SUFFICES ASSUME NEW b \in Bridges, snap[b] # NoSnap,
                        NEW k \in snap[b] + 1 .. stored
                 PROVE  k \in Range(got'[b]) \/ (k = taken /\ b \in Range(Tail(todo)))
      BY <1>3 DEF NoGap, OnItsWay, subVars
    <2>1. k \in Range(got[b]) \/ (k = taken /\ b \in Range(todo))
      BY <1>3 DEF IInv, NoGap, OnItsWay
    <2>2. CASE b = h
      BY <2>1, <2>2, <1>6
    <2>3. CASE b # h
      BY <2>1, <2>3, <1>2, <1>5 DEF Subs
    <2> QED BY <2>2, <2>3
  <1>10. h \in Range(onOutputs)
    BY <1>2 DEF IInv, RoundOnce
  <1>11. LiveUpToDate'
    <2> QED BY <1>2, <1>3, <1>5, <1>10 DEF IInv, LiveUpToDate, subVars
  <1>12. LiveContiguous'
    <2> QED BY <1>2, <1>3, <1>5, <1>10 DEF IInv, LiveUpToDate, LiveContiguous
  <1> QED BY <1>1, <1>7, <1>8, <1>9, <1>11, <1>12 DEF IInv

(***************************************************************************)
(* Steps of the subscribers.                                               *)
(***************************************************************************)

LEMMA OnOutputKeepsIInv ==
  ASSUME IInv, NEW s \in Subs, OnOutput(s)
  PROVE  IInv'
  <1>1. /\ reg[s] = "no" /\ onOutputs' = Append(onOutputs, s)
        /\ reg' = [reg EXCEPT ![s] = "output"]
        /\ UNCHANGED <<procVars, readVars, waitVars, onExit, snap, saw>>
    BY DEF OnOutput
  <1>2. onOutputs \in Seq(Subs) /\ IsInjective(onOutputs) /\ s \notin Range(onOutputs)
    BY <1>1 DEF IInv, TypeOK, Registered
  <1>3. /\ onOutputs' \in Seq(Subs) /\ IsInjective(onOutputs')
        /\ Range(onOutputs') = Range(onOutputs) \union {s}
    <2>1. onOutputs \in Seq(Subs)
      BY <1>2
    <2>2. /\ Append(onOutputs, s) \in Seq(Subs)
          /\ Range(Append(onOutputs, s)) = Range(onOutputs) \union {s}
      BY <2>1, RangeAppend
    <2>3. IsInjective(Append(onOutputs, s))
      BY <1>2, InjectiveAppend
    <2> QED BY <1>1, <2>2, <2>3
  <1>4. TypeOK'
    BY <1>1, <1>3 DEF IInv, TypeOK, procVars, readVars, waitVars
  <1>5. Registered'
    <2>1. \A t \in Subs : reg'[t] = IF t = s THEN "output" ELSE reg[t]
      BY <1>1 DEF IInv, TypeOK
    <2>2. Bridges \subseteq Subs
      BY DEF Subs
    <2> QED BY <2>1, <2>2, <1>1, <1>3 DEF IInv, Registered
  <1>6. RingKeepsUp' /\ RoundOnce' /\ NoGap' /\ LiveContiguous'
    BY <1>1, <1>3 DEF IInv, RingKeepsUp, RoundOnce, NoGap, OnItsWay,
                      LiveContiguous, readVars
  <1>7. LiveUpToDate'
    BY <1>1, <1>3 DEF IInv, LiveUpToDate, readVars
  <1>8. ExitHandedOn'
    BY <1>1 DEF IInv, ExitHandedOn, procVars, readVars, waitVars
  <1> QED BY <1>4, <1>5, <1>6, <1>7, <1>8 DEF IInv

LEMMA BridgeKeepsIInv ==
  ASSUME IInv, NEW b \in Bridges, OnExit(b) \/ Snapshot(b) \/ Info(b)
  PROVE  IInv'
  <1>1. UNCHANGED <<procVars, readVars, waitVars, onOutputs>>
    BY DEF OnExit, Snapshot, Info
  <1>2. Bridges \subseteq Subs
    BY DEF Subs
  <1>3. TypeOK'
    <2>1. CASE OnExit(b)
      BY <1>1, <1>2, <2>1 DEF IInv, TypeOK, OnExit, procVars, readVars, waitVars
    <2>2. CASE Snapshot(b)
      <3>1. stored \in 0..MaxChunks
        BY ChunksAssumption DEF IInv, TypeOK
      <3> QED BY <1>1, <2>2, <3>1
              DEF IInv, TypeOK, Snapshot, procVars, readVars, waitVars
    <2>3. CASE Info(b)
      BY <1>1, <2>3 DEF IInv, TypeOK, Info, procVars, readVars, waitVars
    <2> QED BY <2>1, <2>2, <2>3
  <1>4. RingKeepsUp' /\ RoundOnce' /\ LiveContiguous' /\ LiveUpToDate'
    BY <1>1 DEF IInv, RingKeepsUp, RoundOnce, LiveContiguous, LiveUpToDate, readVars
  <1>5. Registered'
    <2>1. CASE OnExit(b)
      BY <1>1, <1>2, <2>1 DEF IInv, TypeOK, Registered, OnExit
    <2>2. CASE Snapshot(b)
      BY <1>1, <2>2 DEF IInv, TypeOK, Registered, Snapshot
    <2>3. CASE Info(b)
      BY <1>1, <2>3 DEF IInv, TypeOK, Registered, Info
    <2> QED BY <2>1, <2>2, <2>3
  <1>6. NoGap'
    <2>1. CASE OnExit(b) \/ Info(b)
      BY <1>1, <2>1 DEF IInv, NoGap, OnItsWay, OnExit, Info, readVars
    <2>2. CASE Snapshot(b)
      <3>1. snap' = [snap EXCEPT ![b] = stored] /\ stored \in Nat
        BY <2>2, ChunksAssumption DEF Snapshot, IInv, TypeOK
      <3>2. stored + 1 .. stored = {}
        BY <3>1
      <3>3. ASSUME NEW c \in Bridges, snap'[c] # NoSnap,
                   NEW k \in snap'[c] + 1 .. stored
            PROVE  c # b /\ snap'[c] = snap[c]
        BY <3>1, <3>2, <3>3 DEF IInv, TypeOK
      <3> QED BY <1>1, <3>3 DEF IInv, NoGap, OnItsWay, readVars
    <2> QED BY <2>1, <2>2
  <1>7. ExitHandedOn'
    <2>1. CASE OnExit(b)
      <3>1. saw[b] = "created" /\ onExit' = b /\ saw' = saw
        BY <2>1 DEF OnExit, IInv, TypeOK, Registered
      <3> QED BY <1>1, <3>1 DEF IInv, ExitHandedOn, procVars, readVars, waitVars
    <2>2. CASE Snapshot(b)
      BY <1>1, <2>2 DEF IInv, ExitHandedOn, Snapshot, procVars, readVars, waitVars
    <2>3. CASE Info(b)
      BY <1>1, <2>3 DEF IInv, TypeOK, ExitHandedOn, Info, procVars, readVars, waitVars
    <2> QED BY <2>1, <2>2, <2>3
  <1> QED BY <1>3, <1>4, <1>5, <1>6, <1>7 DEF IInv

LEMMA NextKeepsIInv == IInv /\ [Next]_vars => IInv'
  <1> SUFFICES ASSUME IInv, [Next]_vars PROVE IInv'
    OBVIOUS
  <1>1. CASE ReadLoop
    BY <1>1, ReadChunkKeepsIInv, ReadEndsKeepsIInv, StoreChunkKeepsIInv,
       CopyCallbacksKeepsIInv, RunCallbackKeepsIInv DEF ReadLoop
  <1>2. CASE WaitLoop
    BY <1>2, WaitLoopKeepsIInv
  <1>3. CASE Process
    BY <1>3, StartKeepsIInv, ProcessKeepsIInv DEF Process
  <1>4. ASSUME NEW s \in Subs, OnOutput(s) PROVE IInv'
    BY <1>4, OnOutputKeepsIInv
  <1>5. ASSUME NEW b \in Bridges, OnExit(b) \/ Snapshot(b) \/ Info(b) PROVE IInv'
    BY <1>5, BridgeKeepsIInv
  <1>6. CASE UNCHANGED vars
    <2>1. UNCHANGED <<procVars, readVars, waitVars, subVars>>
      BY <1>6 DEF vars
    <2>2. UNCHANGED <<taken, stored, loop, todo, got>> /\
          UNCHANGED <<onOutputs, reg, snap, saw>>
      BY <2>1 DEF readVars, subVars
    <2>3. TypeOK' /\ ExitHandedOn'
      BY <2>1 DEF IInv, TypeOK, ExitHandedOn, procVars, readVars, waitVars, subVars
    <2> QED BY <2>2, <2>3, StreamKept DEF IInv
  <1> QED BY <1>1, <1>2, <1>3, <1>4, <1>5, <1>6 DEF Next

(***************************************************************************)
(* Theorems.                                                               *)
(***************************************************************************)

\* Every variable of the session keeps its type; in particular the ring never
\* holds a chunk that was not read, nor readLoop one that was not printed.
THEOREM SessionTypeOK == Spec => []TypeOK
  <1>1. IInv => TypeOK
    BY DEF IInv
  <1> QED BY InitIInv, NextKeepsIInv, <1>1, PTL DEF Spec

\* No output falls between the snapshot a live bridge takes and its stream.
THEOREM SessionNoGap == Spec => []NoGap
  <1>1. IInv => NoGap
    BY DEF IInv
  <1> QED BY InitIInv, NextKeepsIInv, <1>1, PTL DEF Spec

\* The stream of each subscriber has no hole and no repetition.
THEOREM SessionLiveContiguous == Spec => []LiveContiguous
  <1>1. IInv => LiveContiguous
    BY DEF IInv
  <1> QED BY InitIInv, NextKeepsIInv, <1>1, PTL DEF Spec

\* A bridge that saw the session running hears of its exit.
THEOREM SessionExitNotMissed == Spec => []ExitNotMissed
  <1>1. IInv => ExitNotMissed
    BY DEF IInv, ExitHandedOn, ExitNotMissed
  <1> QED BY InitIInv, NextKeepsIInv, <1>1, PTL DEF Spec
=============================================================================
