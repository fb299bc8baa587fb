----------------------------- MODULE Scrollback -----------------------------
(***************************************************************************)
(* What a scrollback buffer promises, whatever its layout: after any       *)
(* number of writes it holds the last Size bytes of the stream, oldest     *)
(* first, and the whole stream while it is shorter than that.              *)
(* A byte is represented by its offset in the stream, so that two bytes    *)
(* are told apart by when they were written.                               *)
(***************************************************************************)
EXTENDS Naturals, Sequences

CONSTANTS Size,      \* capacity in bytes
          MaxWrite,  \* the longest slice one call writes
          MaxTotal   \* bound: bytes written in a behaviour

VARIABLES total,     \* bytes written so far
          window     \* what a reader of the buffer sees

vars == <<total, window>>

\* The last Size bytes (or all of them) of a stream of t bytes.
Newest(t) == LET kept == IF t < Size THEN t ELSE Size
           IN  [i \in 1..kept |-> t - kept + i]

Init == total = 0 /\ window = << >>

Grow(n) == /\ total + n <= MaxTotal
             /\ total' = total + n
             /\ window' = Newest(total + n)

Next == \E n \in 0..MaxWrite : Grow(n)

Spec == Init /\ [][Next]_vars
=============================================================================
