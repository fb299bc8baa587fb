------------------------------ MODULE Session ------------------------------
(***************************************************************************)
(* pty.Session: one CLI process under a pseudo terminal, the goroutines    *)
(* Start spawns (readLoop, waitLoop) and the subscribers that call         *)
(* OnOutput, OnExit, ScrollbackSnapshot and Info from goroutines of their  *)
(* own: the bridges (one per peer), and the local terminal (OnOutput).     *)
(*                                                                         *)
(* The output of the process is a stream of chunks 1, 2, ..., one for each *)
(* Read of readLoop.  The bytes of the scrollback ring are the subject of  *)
(* RingBuffer; here the ring is the number of chunks stored in it and a    *)
(* snapshot is that number when it was taken.                              *)
(***************************************************************************)
EXTENDS Integers, Sequences, Functions

CONSTANTS Bridges,    \* subscribers that call OnOutput and OnExit
          Stdout,     \* the local terminal, which calls OnOutput only
          NoOne,      \* the nil callback
          MaxChunks   \* bound: chunks the process prints

Subs == Bridges \union {Stdout}

ASSUME SubsAssumption == /\ Stdout \notin Bridges
                         /\ NoOne \notin Bridges \union {Stdout}
ASSUME ChunksAssumption == MaxChunks \in Nat

VARIABLES
  status,      \* s.Status
  alive,       \* the process runs
  ptmx,        \* s.ptmx: "none", "open" or "closed"
  printed,     \* chunks the process has written to the terminal
  taken,       \* chunks readLoop has read from it
  stored,      \* chunks written to s.output
  onOutputs,   \* s.onOutputs, a callback being its subscriber
  onExit,      \* s.onExit
  loop, todo,  \* readLoop: where it is, its copy of the callbacks left to call
  wait, cb,    \* waitLoop: where it is, the exit callback it captured
  done,        \* the channel s.done is closed
  reg,         \* what each subscriber has registered: "no", "output", "both"
  got,         \* chunks each subscriber's callback was given, in order
  snap,        \* the snapshot each bridge took
  saw,         \* the status each bridge last read with Info
  notified     \* subscribers whose exit callback ran

procVars == <<status, alive, ptmx, printed>>
readVars == <<taken, stored, loop, todo, got>>
waitVars == <<wait, cb, done, notified>>
subVars  == <<onOutputs, onExit, reg, snap, saw>>
vars == <<procVars, readVars, waitVars, subVars>>

NoSnap == -1

TypeOK ==
  /\ status \in {"created", "running", "exited"}
  /\ alive \in BOOLEAN
  /\ ptmx \in {"none", "open", "closed"}
  /\ printed \in 0..MaxChunks
  /\ taken \in 0..printed
  /\ stored \in 0..taken
  /\ onOutputs \in Seq(Subs)
  /\ onExit \in Bridges \union {NoOne}
  /\ loop \in {"off", "read", "store", "copy", "call", "ended"}
  /\ todo \in Seq(Subs)
  /\ wait \in {"off", "wait", "exit", "close", "ended"}
  /\ cb \in Bridges \union {NoOne}
  /\ done \in BOOLEAN
  /\ reg \in [Subs -> {"no", "output", "both"}]
  /\ got \in [Subs -> Seq(Nat)]
  /\ snap \in [Bridges -> 0..MaxChunks \union {NoSnap}]
  /\ saw \in [Bridges -> {"created", "running", "exited"}]
  /\ notified \subseteq Bridges

Init ==
  /\ status = "created" /\ alive = FALSE /\ ptmx = "none" /\ printed = 0
  /\ taken = 0 /\ stored = 0 /\ loop = "off" /\ todo = << >>
  /\ wait = "off" /\ cb = NoOne /\ done = FALSE
  /\ onOutputs = << >> /\ onExit = NoOne
  /\ reg = [s \in Subs |-> "no"]
  /\ got = [s \in Subs |-> << >>]
  /\ snap = [b \in Bridges |-> NoSnap]
  /\ saw = [b \in Bridges |-> "created"]
  /\ notified = {}

(***************************************************************************)
(* Variants of the steps below with a slip each; the runs tell them apart. *)
(***************************************************************************)

\* The ring is credited with a chunk that was not read.
StoreChunkTwice ==
  /\ loop = "store"
  /\ stored' = taken + 1
  /\ loop' = "copy"
  /\ UNCHANGED <<procVars, taken, todo, got, waitVars, subVars>>

\* One output callback, the last one, as for onExit.
OnOutputReplaces(s) ==
  /\ reg[s] = "no"
  /\ onOutputs' = <<s>>
  /\ reg' = [reg EXCEPT ![s] = "output"]
  /\ UNCHANGED <<procVars, readVars, waitVars, onExit, snap, saw>>

\* The next chunk is read before every callback has had this one.
ReadAgainEarly ==
  /\ loop = "call"
  /\ loop' = "read" /\ todo' = << >>
  /\ UNCHANGED <<procVars, taken, stored, got, waitVars, subVars>>

\* Output of a closed session is no longer handed out.
RunCallbackWhileOpen ==
  /\ loop = "call" /\ todo # << >> /\ ptmx = "open"
  /\ got' = [got EXCEPT ![Head(todo)] = Append(@, taken)]
  /\ todo' = Tail(todo)
  /\ UNCHANGED <<procVars, taken, stored, loop, waitVars, subVars>>

\* The status is not set together with the capture of the callback.
MarkExitedLate ==
  /\ wait = "wait" /\ ~alive
  /\ cb' = onExit
  /\ wait' = "exit"
  /\ UNCHANGED <<procVars, readVars, done, notified, subVars>>

(***************************************************************************)
(* The session's methods and its process.                                  *)
(***************************************************************************)

\* Start, under s.mu.  A failing pty start leaves the session as it was, and
\* Manager.Create then drops it: a stuttering step.
Start ==
  /\ status = "created"
  /\ status' = "running" /\ alive' = TRUE /\ ptmx' = "open"
  /\ loop' = "read" /\ wait' = "wait"
  /\ UNCHANGED <<printed, taken, stored, todo, got, cb, done, notified, subVars>>

\* The process writes to its terminal, or leaves by itself.
Prints ==
  /\ alive /\ printed < MaxChunks
  /\ printed' = printed + 1
  /\ UNCHANGED <<status, alive, ptmx, readVars, waitVars, subVars>>

Leave ==
  /\ alive
  /\ alive' = FALSE
  /\ UNCHANGED <<status, ptmx, printed, readVars, waitVars, subVars>>

\* Close: kill the process and close the terminal.  Manager.Close and CloseAll
\* remove the session from the manager under one lock, so it happens once.
Close ==
  /\ ptmx = "open"
  /\ alive' = FALSE
  /\ ptmx' = "closed"
  /\ UNCHANGED <<status, printed, readVars, waitVars, subVars>>

(***************************************************************************)
(* readLoop                                                                *)
(***************************************************************************)

\* s.ptmx.Read returned data ...
ReadChunk ==
  /\ loop = "read" /\ ptmx = "open" /\ taken < printed
  /\ taken' = taken + 1
  /\ loop' = "store"
  /\ UNCHANGED <<procVars, stored, todo, got, waitVars, subVars>>

\* ... or an error: the file is closed, or the process is gone and what it
\* had printed is read.
ReadEnds ==
  /\ loop = "read"
  /\ ptmx = "closed" \/ (~alive /\ taken = printed)
  /\ loop' = "ended"
  /\ UNCHANGED <<procVars, taken, stored, todo, got, waitVars, subVars>>

\* s.output.Write(data)
StoreChunk ==
  /\ loop = "store"
  /\ stored' = taken
  /\ loop' = "copy"
  /\ UNCHANGED <<procVars, taken, todo, got, waitVars, subVars>>

\* The callbacks are copied under s.mu and called without it.
CopyCallbacks ==
  /\ loop = "copy"
  /\ todo' = onOutputs
  /\ loop' = "call"
  /\ UNCHANGED <<procVars, taken, stored, got, waitVars, subVars>>

RunCallback ==
  /\ loop = "call" /\ todo # << >>
  /\ got' = [got EXCEPT ![Head(todo)] = Append(@, taken)]
  /\ todo' = Tail(todo)
  /\ UNCHANGED <<procVars, taken, stored, loop, waitVars, subVars>>

ReadAgain ==
  /\ loop = "call" /\ todo = << >>
  /\ loop' = "read"
  /\ UNCHANGED <<procVars, taken, stored, todo, got, waitVars, subVars>>

(***************************************************************************)
(* waitLoop                                                                *)
(***************************************************************************)

\* cmd.Wait returned; the status and the callback change hands under s.mu.
MarkExited ==
  /\ wait = "wait" /\ ~alive
  /\ status' = "exited"
  /\ cb' = onExit
  /\ wait' = "exit"
  /\ UNCHANGED <<alive, ptmx, printed, readVars, done, notified, subVars>>

RunOnExit ==
  /\ wait = "exit"
  /\ notified' = notified \union ({cb} \ {NoOne})
  /\ wait' = "close"
  /\ UNCHANGED <<procVars, readVars, cb, done, subVars>>

CloseDone ==
  /\ wait = "close"
  /\ done' = TRUE
  /\ wait' = "ended"
  /\ UNCHANGED <<procVars, readVars, cb, notified, subVars>>

(***************************************************************************)
(* Subscribers.  The methods have no condition on the state: the program   *)
(* calls them on started sessions only, the tests also before Start.       *)
(***************************************************************************)

\* OnOutput appends to the callbacks (AttachSession, or line 210 of run.go).
OnOutput(s) ==
  /\ reg[s] = "no"
  /\ onOutputs' = Append(onOutputs, s)
  /\ reg' = [reg EXCEPT ![s] = "output"]
  /\ UNCHANGED <<procVars, readVars, waitVars, onExit, snap, saw>>

\* OnExit replaces the one callback; AttachSession calls it after OnOutput.
OnExit(b) ==
  /\ reg[b] = "output"
  /\ onExit' = b
  /\ reg' = [reg EXCEPT ![b] = "both"]
  /\ UNCHANGED <<procVars, readVars, waitVars, onOutputs, snap, saw>>

\* ScrollbackSnapshot: how much of the stream the ring held.  Recorded for a
\* bridge that is live already, and only its first, which is the one later
\* output has most to make up for.
Snapshot(b) ==
  /\ reg[b] # "no" /\ snap[b] = NoSnap
  /\ snap' = [snap EXCEPT ![b] = stored]
  /\ UNCHANGED <<procVars, readVars, waitVars, onOutputs, onExit, reg, saw>>

\* Info: the status, recorded for a bridge whose exit callback is in place.
Info(b) ==
  /\ reg[b] = "both"
  /\ saw' = [saw EXCEPT ![b] = status]
  /\ UNCHANGED <<procVars, readVars, waitVars, onOutputs, onExit, reg, snap>>

ReadLoop == ReadChunk \/ ReadEnds \/ StoreChunk \/ CopyCallbacks
            \/ RunCallback \/ ReadAgain
WaitLoop == MarkExited \/ RunOnExit \/ CloseDone
Process  == Start \/ Prints \/ Leave \/ Close

Next == \/ ReadLoop \/ WaitLoop \/ Process
        \/ \E s \in Subs : OnOutput(s)
        \/ \E b \in Bridges : OnExit(b) \/ Snapshot(b) \/ Info(b)

Spec == Init /\ [][Next]_vars

\* The runtime schedules both goroutines; the process and the subscribers owe
\* nothing.
FairSpec == Spec /\ WF_vars(ReadLoop) /\ WF_vars(WaitLoop)

(***************************************************************************)
(* Properties.                                                             *)
(***************************************************************************)

\* Chunk k is on its way to s: in readLoop's hands and s still to be called.
OnItsWay(s, k) == /\ k = taken
                  /\ \/ loop \in {"store", "copy"}
                     \/ loop = "call" /\ s \in Range(todo)

\* A subscriber that registers and then takes a snapshot loses nothing: each
\* chunk stored after the snapshot was handed to it or is about to be.  It
\* rests on readLoop storing a chunk before it copies the callbacks, and on
\* AttachSession preceding SendAllScrollback (readLoop, OnOutput,
\* ScrollbackSnapshot of session.go).
NoGap ==
  \A b \in Bridges : snap[b] # NoSnap =>
     \A k \in snap[b] + 1 .. stored : k \in Range(got[b]) \/ OnItsWay(b, k)

\* The live stream of a subscriber has no hole and no repetition, however
\* registrations interleave with a round of callbacks (readLoop).
LiveContiguous ==
  \A s \in Subs : \A i \in 1 .. Len(got[s]) - 1 : got[s][i + 1] = got[s][i] + 1

\* A bridge whose exit callback is in place when it reads "running" hears of
\* the exit: waitLoop sets the status and captures the callback under one
\* lock.  Only a later OnExit of another bridge takes that away.
ExitNotMissed ==
  \A b \in Bridges :
     /\ onExit = b
     /\ saw[b] = "running"
     /\ wait \in {"close", "ended"}
     => b \in notified

\* What is missing from a snapshot does arrive at the subscriber (readLoop
\* hands out every chunk it stored, also after Close).
EveryChunkArrives ==
  \A b \in Bridges, k \in 1..MaxChunks :
     (snap[b] # NoSnap /\ snap[b] < k /\ k <= stored) ~> (k \in Range(got[b]))

(***************************************************************************)
(* Why they hold: the parts of the inductive invariant.                    *)
(***************************************************************************)

\* The ring is one chunk behind exactly while readLoop is about to store.
RingKeepsUp == stored = IF loop = "store" THEN taken - 1 ELSE taken

\* Registration precedes the observations recorded, and callbacks are never
\* removed nor entered twice.
Registered ==
  /\ \A b \in Bridges : snap[b] # NoSnap => reg[b] # "no"
  /\ \A b \in Bridges : saw[b] # "created" => reg[b] = "both"
  /\ \A s \in Subs : reg[s] # "no" <=> s \in Range(onOutputs)
  /\ IsInjective(onOutputs)

\* What is left of a round of callbacks names each of its subscribers once.
RoundOnce == IsInjective(todo) /\ Range(todo) \subseteq Range(onOutputs)

\* The last chunk a live subscriber was given is the one in hand, or the one
\* before it when its turn is still to come.
LiveUpToDate ==
  \A s \in Subs : got[s] # << >> =>
     /\ s \in Range(onOutputs)
     /\ got[s][Len(got[s])] = IF \/ loop \in {"store", "copy"}
                                 \/ loop = "call" /\ s \in Range(todo)
                              THEN taken - 1 ELSE taken

\* The status follows waitLoop; whoever saw "running" was in time.
ExitHandedOn ==
  /\ status = "created" => loop = "off"
  /\ status = "created" <=> wait = "off"
  /\ status = "exited" <=> wait \in {"exit", "close", "ended"}
  /\ \A b \in Bridges : onExit = b /\ saw[b] = "running" =>
        /\ wait = "exit" => cb = b
        /\ wait \in {"close", "ended"} => b \in notified

IInv == /\ TypeOK /\ RingKeepsUp /\ Registered /\ RoundOnce
        /\ NoGap /\ LiveUpToDate /\ LiveContiguous /\ ExitHandedOn
=============================================================================
