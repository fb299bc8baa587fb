----------------------------- MODULE RingBuffer -----------------------------
(***************************************************************************)
(* pty.RingBuffer: the circular scrollback buffer of a session.  r.mu      *)
(* makes every method atomic, so each one is one action or one state       *)
(* function.  A byte is its offset in the stream written so far (1, 2,     *)
(* ...), 0 a byte of the zeroed array make() returns.                      *)
(***************************************************************************)
EXTENDS Integers, Sequences

CONSTANTS Size,      \* r.size
          MaxWrite,  \* the longest slice one Write is given
          MaxTotal   \* bound: bytes written in a behaviour

ASSUME SizeAssumption == /\ Size \in Nat \ {0}
                         /\ MaxWrite \in Nat
                         /\ MaxTotal \in Nat

VARIABLES buf,       \* r.buf, indexed 0 .. Size-1 as in Go
          pos,       \* r.pos
          full,      \* r.full
          total      \* history: bytes written, the name of the last byte

vars == <<buf, pos, full, total>>

TypeOK == /\ buf \in [0..Size-1 -> Nat]
          /\ pos \in 0..Size-1
          /\ full \in BOOLEAN
          /\ total \in Nat

(***************************************************************************)
(* Write(p) with len(p) = n: the bytes total+1 .. total+n.                 *)
(***************************************************************************)

\* Variants of the definitions below, each with a slip the wrap arithmetic
\* invites; the run must tell them from the code.
KeepsHead(n) == [i \in 0..Size-1 |-> total + 1 + i]
WrapsOnEmpty(n) == (pos + n) % Size <= pos
NoModulo(n) == pos + n
CopyLosesWrap(n) == [i \in 0..Size-1 |->
                       IF i >= pos /\ i - pos < n THEN total + 1 + i - pos
                                                  ELSE buf[i]]

\* p[i], counting from 0
Byte(i) == total + 1 + i

\* n >= size: copy(r.buf, p[n-r.size:])
Refilled(n) == [i \in 0..Size-1 |-> Byte(n - Size + i)]

\* n < size: the one or two copies that lay p from pos on, wrapping at size.
Copied(n) ==
  LET first == Size - pos      \* what fits before the wrap
  IN  [i \in 0..Size-1 |->
         IF i >= pos /\ i - pos < n   THEN Byte(i - pos)
         ELSE IF i < n - first        THEN Byte(first + i)
         ELSE buf[i]]

NextPos(n) == (pos + n) % Size

\* "Check if we wrapped": oldPos is recomputed from the new position.
Wrapped(n) == LET oldPos == (NextPos(n) - n + Size) % Size
              IN  NextPos(n) <= oldPos /\ n > 0

WriteLong(n) ==
  /\ n >= Size
  /\ buf' = Refilled(n)
  /\ pos' = 0
  /\ full' = TRUE

WriteShort(n) ==
  /\ n < Size
  /\ buf' = Copied(n)
  /\ pos' = NextPos(n)
  /\ full' = (full \/ Wrapped(n))

Write(n) ==
  /\ total + n <= MaxTotal
  /\ WriteLong(n) \/ WriteShort(n)
  /\ total' = total + n

\* Bytes(): oldest first.
Bytes ==
  IF full
  THEN LET first == Size - pos
       IN  [i \in 1..Size |-> IF i <= first THEN buf[pos + i - 1]
                                            ELSE buf[i - first - 1]]
  ELSE [i \in 1..pos |-> buf[i - 1]]

\* Len()
Length == IF full THEN Size ELSE pos

Init == /\ buf = [i \in 0..Size-1 |-> 0]
        /\ pos = 0
        /\ full = FALSE
        /\ total = 0

Next == \E n \in 0..MaxWrite : Write(n)

Spec == Init /\ [][Next]_vars

(***************************************************************************)
(* Properties.                                                             *)
(***************************************************************************)

\* The ring implements the abstract scrollback: at every moment a reader
\* sees the last min(total, Size) bytes of the stream, in order (Write and
\* Bytes of session.go).
Promise == INSTANCE Scrollback WITH window <- Bytes
ImplementsScrollback == Promise!Spec

\* The layout behind the promise: the slot before pos (cyclically) holds the
\* newest byte, and going back from it the ring holds the ones before, as far
\* as bytes were written.  A snapshot is right only because of this.
Newest(i) == (pos - 1 - i + Size) % Size   \* slot of the byte i before the last
Layout == /\ full <=> total >= Size
          /\ ~full => pos = total
          /\ Length = IF total < Size THEN total ELSE Size
          /\ \A i \in 0..Size-1 : i < total => buf[Newest(i)] = total - i
=============================================================================
