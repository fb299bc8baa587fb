-------------------------- MODULE RingBufferProofs --------------------------
(***************************************************************************)
(* Proofs about pty.RingBuffer for every Size, MaxWrite and MaxTotal: the  *)
(* layout invariant is inductive, and with it every Write of the ring is a *)
(* step of the abstract scrollback.                                        *)
(***************************************************************************)
EXTENDS RingBuffer, TLAPS

(***************************************************************************)
(* Cyclic arithmetic.                                                      *)
(***************************************************************************)

\* One subtraction computes the remainder of anything below twice the size,
\* which is all Write ever takes a remainder of.
LEMMA ModSmall ==
  ASSUME NEW S \in Nat \ {0}, NEW a \in 0..S-1
  PROVE  a % S = a
  BY SMT

LEMMA ModOnce ==
  ASSUME NEW S \in Nat \ {0}, NEW a \in 0..S-1
  PROVE  (a + S) % S = a
  BY SMT

LEMMA SizePositive == Size \in Nat \ {0}
  BY SizeAssumption

\* Where the next byte goes after a short write (r.pos of Write).
LEMMA NextPosValue ==
  ASSUME TypeOK, NEW n \in Nat, n < Size
  PROVE  NextPos(n) = IF pos + n < Size THEN pos + n ELSE pos + n - Size
  <1>1. CASE pos + n < Size
    <2>1. pos + n \in 0..Size-1
      BY <1>1, SizePositive DEF TypeOK
    <2>2. NextPos(n) = pos + n
      BY <2>1, SizePositive, ModSmall, Zenon DEF NextPos
    <2> QED BY <1>1, <2>2
  <1>2. CASE ~(pos + n < Size)
    <2>1. pos + n - Size \in 0..Size-1 /\ pos + n = (pos + n - Size) + Size
      BY <1>2, SizePositive DEF TypeOK
    <2>2. NextPos(n) = pos + n - Size
      BY <2>1, SizePositive, ModOnce, Zenon DEF NextPos
    <2> QED BY <1>2, <2>2
  <1> QED BY <1>1, <1>2

\* The test the code writes with a recomputed old position is exact: it
\* holds just when the write reached the end of the array.
LEMMA WrappedExact ==
  ASSUME TypeOK, NEW n \in Nat, n < Size
  PROVE  Wrapped(n) <=> pos + n >= Size
  <1> DEFINE back == NextPos(n) - n + Size
  <1>1. back = IF pos + n < Size THEN pos + Size ELSE pos
    BY NextPosValue, SizePositive DEF TypeOK
  <1>2. pos \in 0..Size-1
    BY DEF TypeOK
  <1>3. back % Size = pos
    BY <1>1, <1>2, SizePositive, ModSmall, ModOnce, Zenon
  <1>4. Wrapped(n) <=> NextPos(n) <= pos /\ n > 0
    BY <1>3, Zenon DEF Wrapped
  <1> QED BY <1>4, NextPosValue, SizePositive DEF TypeOK

LEMMA ModRange ==
  ASSUME NEW S \in Nat \ {0}, NEW a \in Int
  PROVE  a % S \in 0..S-1
  BY SMT

\* The slot of the byte written i bytes before the last one.
LEMMA NewestValue ==
  ASSUME NEW p \in 0..Size-1, NEW i \in 0..Size-1
  PROVE  (p - 1 - i + Size) % Size = IF i < p THEN p - 1 - i
                                              ELSE p - 1 - i + Size
  <1>1. CASE i < p
    <2>1. p - 1 - i \in 0..Size-1
      BY <1>1, SizePositive
    <2>2. (p - 1 - i + Size) % Size = p - 1 - i
      BY <2>1, SizePositive, ModOnce, Zenon
    <2> QED BY <1>1, <2>2
  <1>2. CASE ~(i < p)
    <2>1. p - 1 - i + Size \in 0..Size-1
      BY <1>2, SizePositive
    <2>2. (p - 1 - i + Size) % Size = p - 1 - i + Size
      BY <2>1, SizePositive, ModSmall, Zenon
    <2> QED BY <1>2, <2>2
  <1> QED BY <1>1, <1>2

(***************************************************************************)
(* The inductive invariant.                                                *)
(***************************************************************************)

IInv == TypeOK /\ Layout

LEMMA InitIInv == Init => IInv
  <1> SUFFICES ASSUME Init PROVE IInv
    OBVIOUS
  <1>1. TypeOK
    <2>1. 0 \in 0..Size-1
      BY SizePositive
    <2> QED BY <2>1 DEF Init, TypeOK
  <1>2. Layout
    BY SizeAssumption DEF Init, Layout, Length
  <1> QED BY <1>1, <1>2 DEF IInv

\* A slice as long as the ring or longer replaces every slot.
LEMMA LongKeepsIInv ==
  ASSUME IInv, NEW n \in Nat, WriteLong(n), total' = total + n
  PROVE  IInv'
  <1>1. TypeOK'
    BY SizeAssumption DEF IInv, TypeOK, WriteLong, Refilled, Byte
  <1>2. ASSUME NEW i \in 0..Size-1
        PROVE  buf'[Newest(i)'] = total' - i
    <2>1. Newest(i)' = Size - 1 - i
      BY NewestValue, SizeAssumption DEF WriteLong, Newest
    <2>2. buf'[Size - 1 - i] = Byte(n - Size + (Size - 1 - i))
      BY SizeAssumption DEF WriteLong, Refilled
    <2> QED BY <2>1, <2>2, SizeAssumption DEF Byte, IInv, TypeOK, WriteLong
  <1>3. total' >= Size
    BY SizeAssumption DEF IInv, TypeOK, WriteLong
  <1>4. Layout'
    BY <1>2, <1>3, SizeAssumption DEF Layout, Length, WriteLong, IInv, TypeOK
  <1> QED BY <1>1, <1>4 DEF IInv

\* A shorter one lays its bytes from pos on and keeps what lies behind them.
LEMMA ShortKeepsIInv ==
  ASSUME IInv, NEW n \in Nat, WriteShort(n), total' = total + n
  PROVE  IInv'
  <1> USE SizeAssumption
  <1>1. /\ n < Size /\ buf' = Copied(n) /\ pos' = NextPos(n)
        /\ full' = (full \/ Wrapped(n))
        /\ TypeOK /\ Layout
    BY DEF IInv, WriteShort
  <1>2. pos' = IF pos + n < Size THEN pos + n ELSE pos + n - Size
    BY <1>1, NextPosValue
  <1>3. /\ full' \in BOOLEAN
        /\ full' <=> full \/ pos + n >= Size
    <2>1. Wrapped(n) <=> pos + n >= Size
      BY <1>1, WrappedExact
    <2> QED BY <1>1, <2>1, Zenon
  <1>4. TypeOK'
    <2>1. buf' \in [0..Size-1 -> Nat]
      BY <1>1 DEF TypeOK, Copied, Byte
    <2> QED BY <1>1, <1>2, <1>3, <2>1 DEF TypeOK
  <1>5. ASSUME NEW i \in 0..Size-1, i < total'
        PROVE  buf'[Newest(i)'] = total' - i
    <2> DEFINE j == Newest(i)'
    <2>1. j = IF i < pos' THEN pos' - 1 - i ELSE pos' - 1 - i + Size
      BY <1>4, NewestValue DEF TypeOK, Newest
    <2>2. j \in 0..Size-1
      <3>1. pos' - 1 - i + Size \in Int
        BY <1>4 DEF TypeOK
      <3> QED BY <3>1, SizePositive, ModRange, Zenon DEF Newest
    <2>3. buf'[j] = IF j >= pos /\ j - pos < n   THEN total + 1 + (j - pos)
                    ELSE IF j < n - (Size - pos) THEN total + 1 + (Size - pos) + j
                    ELSE buf[j]
      <3> HIDE DEF j
      <3> QED BY <1>1, <2>2 DEF Copied, Byte, TypeOK
    <2>4. CASE i < n
      <3> HIDE DEF j
      <3>1. buf'[j] = total' - i
        BY <2>4, <2>1, <2>3, <1>1, <1>2 DEF TypeOK
      <3> QED BY <3>1 DEF j
    <2>5. CASE i >= n
      <3>1. i - n \in 0..Size-1 /\ i - n < total
        BY <2>5, <1>5, <1>1 DEF TypeOK
      <3>2. Newest(i - n) = IF i - n < pos THEN pos - 1 - (i - n)
                                           ELSE pos - 1 - (i - n) + Size
        BY <3>1, <1>1, NewestValue DEF TypeOK, Newest
      <3>3. j = Newest(i - n)
        BY <3>2, <2>1, <2>5, <1>1, <1>2 DEF TypeOK
      <3>4. buf'[j] = buf[j]
        BY <2>3, <3>3, <3>2, <2>5, <1>1 DEF TypeOK
      <3>5. buf[Newest(i - n)] = total - (i - n)
        BY <3>1, <1>1 DEF Layout
      <3> HIDE DEF j
      <3>6. buf'[j] = total' - i
        BY <3>3, <3>4, <3>5, <1>1 DEF TypeOK
      <3> QED BY <3>6 DEF j
    <2> QED BY <2>4, <2>5, <1>1 DEF TypeOK
  <1>6. (full' <=> total' >= Size) /\ (~full' => pos' = total')
    <2>1. /\ full <=> total >= Size
          /\ ~full => pos = total
      BY <1>1 DEF Layout
    <2>2. CASE full
      BY <2>1, <2>2, <1>1, <1>3 DEF TypeOK
    <2>3. CASE ~full
      BY <2>1, <2>3, <1>1, <1>2, <1>3 DEF TypeOK
    <2> QED BY <2>2, <2>3
  <1>7. Length' = IF total' < Size THEN total' ELSE Size
    <2>1. CASE full'
      BY <2>1, <1>6, <1>4 DEF Length, TypeOK
    <2>2. CASE ~full'
      BY <2>2, <1>6, <1>4 DEF Length, TypeOK
    <2> QED BY <2>1, <2>2
  <1>8. Layout'
    BY <1>5, <1>6, <1>7 DEF Layout
  <1> QED BY <1>4, <1>8 DEF IInv

LEMMA NextKeepsIInv == IInv /\ [Next]_vars => IInv'
  <1> SUFFICES ASSUME IInv, [Next]_vars PROVE IInv'
    OBVIOUS
  <1>1. ASSUME NEW n \in 0..MaxWrite, Write(n) PROVE IInv'
    <2>1. n \in Nat /\ total' = total + n
      BY <1>1, SizeAssumption DEF Write
    <2>2. CASE WriteLong(n)
      BY <2>1, <2>2, LongKeepsIInv
    <2>3. CASE WriteShort(n)
      BY <2>1, <2>3, ShortKeepsIInv
    <2> QED BY <1>1, <2>2, <2>3 DEF Write
  <1>2. CASE UNCHANGED vars
    BY <1>2 DEF IInv, TypeOK, Layout, Length, Newest, vars
  <1> QED BY <1>1, <1>2 DEF Next

\* The ring keeps its type: the index stays inside the array.
THEOREM RingTypeOK == Spec => []TypeOK
  <1>1. IInv => TypeOK
    BY DEF IInv
  <1> QED BY InitIInv, NextKeepsIInv, <1>1, PTL DEF Spec

\* The newest byte is always just behind pos and the older ones behind it.
THEOREM RingLayout == Spec => []Layout
  <1>1. IInv => Layout
    BY DEF IInv
  <1> QED BY InitIInv, NextKeepsIInv, <1>1, PTL DEF Spec

(***************************************************************************)
(* Refinement.                                                             *)
(***************************************************************************)

\* Bytes returns the last bytes of the stream, oldest first.
BytesOK == Bytes = Promise!Newest(total)

LEMMA BytesAreNewest ==
  ASSUME IInv
  PROVE  BytesOK
  <1> SUFFICES Bytes = Promise!Newest(total)
    BY DEF BytesOK
  <1> USE SizeAssumption
  <1> DEFINE kept == IF total < Size THEN total ELSE Size
  <1>1. /\ TypeOK /\ (full <=> total >= Size) /\ (~full => pos = total)
        /\ \A i \in 0..Size-1 : i < total => buf[Newest(i)] = total - i
    BY DEF IInv, Layout
  <1>2. CASE full
    <2>0. total >= Size
      BY <1>1, <1>2, Zenon
    <2>1. Bytes = [k \in 1..Size |-> IF k <= Size - pos
                                     THEN buf[pos + k - 1]
                                     ELSE buf[k - (Size - pos) - 1]]
      BY <1>2 DEF Bytes
    <2>2. ASSUME NEW k \in 1..Size
          PROVE  (IF k <= Size - pos THEN buf[pos + k - 1]
                                     ELSE buf[k - (Size - pos) - 1])
                 = total - Size + k
      <3>1. Size - k \in 0..Size-1 /\ Size - k < total
        BY <1>1, <2>0 DEF TypeOK
      <3>2. Newest(Size - k) = IF Size - k < pos THEN pos - 1 - (Size - k)
                                                 ELSE pos - 1 - (Size - k) + Size
        BY <3>1, <1>1, NewestValue DEF TypeOK, Newest
      <3>3. Newest(Size - k) = IF k <= Size - pos THEN pos + k - 1
                                                  ELSE k - (Size - pos) - 1
        BY <3>2, <1>1 DEF TypeOK
      <3>4. buf[Newest(Size - k)] = total - (Size - k)
        BY <3>1, <1>1
      <3>5. total - (Size - k) = total - Size + k
        BY <1>1 DEF TypeOK
      <3> QED BY <3>3, <3>4, <3>5
    <2>3. Bytes = [k \in 1..Size |-> total - Size + k]
      BY <2>1, <2>2, Zenon
    <2>4. kept = Size
      BY <1>1, <2>0 DEF TypeOK
    <2> QED BY <2>3, <2>4 DEF Promise!Newest
  <1>3. CASE ~full
    <2>1. Bytes = [k \in 1..pos |-> buf[k - 1]]
      BY <1>3 DEF Bytes
    <2>0. pos = total /\ ~(total >= Size)
      BY <1>1, <1>3, Zenon
    <2>2. pos = total /\ total < Size
      BY <2>0, <1>1 DEF TypeOK
    <2>3. ASSUME NEW k \in 1..pos
          PROVE  buf[k - 1] = total - pos + k
      <3>1. pos - k \in 0..Size-1 /\ pos - k < total
        BY <2>2, <1>1 DEF TypeOK
      <3>2. Newest(pos - k) = IF pos - k < pos THEN pos - 1 - (pos - k)
                                               ELSE pos - 1 - (pos - k) + Size
        BY <3>1, <1>1, NewestValue DEF TypeOK, Newest
      <3>4. Newest(pos - k) = k - 1
        BY <3>2, <1>1 DEF TypeOK
      <3>3. buf[Newest(pos - k)] = total - (pos - k)
        BY <3>1, <1>1
      <3> QED BY <3>4, <3>3, <2>2, <1>1 DEF TypeOK
    <2>4. Bytes = [k \in 1..pos |-> total - pos + k]
      BY <2>1, <2>3, Zenon
    <2> QED BY <2>2, <2>4 DEF Promise!Newest
  <1> QED BY <1>2, <1>3, <1>1

\* Every behaviour of the ring is, through Bytes, a behaviour of the abstract
\* scrollback: a snapshot is the tail of the stream whatever was written and
\* in whatever slices.
THEOREM RingRefinesScrollback == Spec => ImplementsScrollback
  <1>1. Init => Promise!Init
    <2> SUFFICES ASSUME Init PROVE Promise!Init
      OBVIOUS
    <2>1. Bytes = << >>
      BY DEF Init, Bytes
    <2> QED BY <2>1 DEF Init, Promise!Init
  <1>2. BytesOK' /\ [Next]_vars => [Promise!Next]_(Promise!vars)
    <2> SUFFICES ASSUME BytesOK', [Next]_vars
                 PROVE  [Promise!Next]_(Promise!vars)
      OBVIOUS
    <2>1. ASSUME NEW n \in 0..MaxWrite, Write(n) PROVE Promise!Next
      <3>1. total + n <= MaxTotal /\ total' = total + n
        BY <2>1 DEF Write
      <3>3. Bytes' = Promise!Newest(total + n)
        BY <3>1 DEF BytesOK, Promise!Newest
      <3>4. Promise!Grow(n)
        BY <3>1, <3>3 DEF Promise!Grow
      <3> QED BY <3>4 DEF Promise!Next
    <2>2. CASE UNCHANGED vars
      BY <2>2 DEF vars, Promise!vars, Bytes
    <2> QED BY <2>1, <2>2 DEF Next
  <1>3. IInv => BytesOK
    BY BytesAreNewest
  <1> QED BY InitIInv, NextKeepsIInv, <1>1, <1>2, <1>3, PTL
          DEF Spec, ImplementsScrollback, Promise!Spec
=============================================================================
