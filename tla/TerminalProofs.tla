--------------------------- MODULE TerminalProofs ---------------------------
(***************************************************************************)
(* Proofs about the detector, for any chunks, patterns and lines.          *)
(***************************************************************************)
EXTENDS Terminal, SequenceTheorems, TLAPS

(***************************************************************************)
(* Detector.                                                               *)
(***************************************************************************)

\* Two chunks scanned one after the other give the detections of both scanned at
\* once, and leave the same contents seen: where a Read ends between two lines
\* makes no difference to the detector.
THEOREM ScanSplits ==
  ASSUME NEW T, NEW a \in Seq(T), NEW b \in Seq(T), NEW old
  PROVE  /\ Scan(a \o b, old)
              = Scan(a, old) \union {Len(a) + i : i \in Scan(b, SeenAfter(a, old))}
         /\ SeenAfter(a \o b, old) = SeenAfter(b, SeenAfter(a, old))
<1>. DEFINE c == a \o b
            n == Len(a)
            mid == SeenAfter(a, old)
<1>1. /\ n \in Nat /\ Len(b) \in Nat /\ Len(c) = n + Len(b)
      /\ \A j \in 1 .. n : c[j] = a[j]
      /\ \A j \in 1 .. Len(b) : c[n + j] = b[j]
  BY ConcatProperties, LenProperties
<1>2. \A x : x \in mid <=> x \in old \/ (x \in Prompts /\ \E j \in 1 .. n : a[j] = x)
  BY Zenon DEF SeenAfter
<1>. HIDE DEF c, n, mid
<1>3. ASSUME NEW i \in 1 .. n
      PROVE  i \in Scan(c, old) <=> i \in Scan(a, old)
  <2>1. i \in 1 .. Len(c) /\ c[i] = a[i]
    BY <1>1
  <2>2. \A j \in 1 .. i - 1 : c[j] = a[j]
    BY <1>1
  <2>. QED BY <2>1, <2>2, Zenon DEF Scan, Reported, n
<1>4. ASSUME NEW i \in 1 .. Len(b)
      PROVE  n + i \in Scan(c, old) <=> i \in Scan(b, mid)
  <2>. DEFINE k == n + i
  <2>1. k \in 1 .. Len(c) /\ c[k] = b[i]
    BY <1>1
  <2>2. ASSUME \A j \in 1 .. k - 1 : c[j] # b[i]
        PROVE  /\ \A j \in 1 .. n : a[j] # b[i]
               /\ \A j \in 1 .. i - 1 : b[j] # b[i]
    <3>1. ASSUME NEW j \in 1 .. n PROVE a[j] # b[i]
      BY <1>1, <2>2
    <3>2. ASSUME NEW j \in 1 .. i - 1 PROVE b[j] # b[i]
      <4>1. n + j \in 1 .. k - 1 /\ j \in 1 .. Len(b)
        BY <1>1
      <4>. QED BY <1>1, <2>2, <4>1
    <3>. QED BY <3>1, <3>2
  <2>3. ASSUME \A j \in 1 .. n : a[j] # b[i], \A j \in 1 .. i - 1 : b[j] # b[i],
               NEW j \in 1 .. k - 1
        PROVE  c[j] # b[i]
    <3>1. CASE j \in 1 .. n
      BY <1>1, <2>3, <3>1
    <3>2. CASE j \notin 1 .. n
      <4>1. j - n \in 1 .. i - 1 /\ j - n \in 1 .. Len(b) /\ n + (j - n) = j
        BY <1>1, <3>2
      <4>2. c[n + (j - n)] = b[j - n]
        BY <1>1, <4>1, Zenon
      <4>. QED BY <2>3, <4>1, <4>2
    <3>. QED BY <3>1, <3>2
  <2>. HIDE DEF k
  <2>4. k \in Scan(c, old) <=> /\ b[i] \in Prompts \ old
                               /\ \A j \in 1 .. k - 1 : c[j] # b[i]
    BY <2>1, Zenon DEF Scan, Reported
  <2>5. i \in Scan(b, mid) <=> /\ b[i] \in Prompts \ mid
                               /\ \A j \in 1 .. i - 1 : b[j] # b[i]
    BY Zenon DEF Scan, Reported
  <2>6. b[i] \in Prompts \ mid <=> /\ b[i] \in Prompts \ old
                                   /\ \A j \in 1 .. n : a[j] # b[i]
    BY <1>2, Zenon
  <2>. QED BY <2>2, <2>3, <2>4, <2>5, <2>6, Zenon DEF k
<1>5. Scan(c, old) = Scan(a, old) \union {n + i : i \in Scan(b, mid)}
  <2>1. /\ Scan(c, old) \subseteq 1 .. n + Len(b) /\ Scan(a, old) \subseteq 1 .. n
        /\ Scan(b, mid) \subseteq 1 .. Len(b)
    BY <1>1 DEF Scan, n
  <2>2. ASSUME NEW k \in Scan(c, old)
        PROVE  k \in Scan(a, old) \union {n + i : i \in Scan(b, mid)}
    <3>1. CASE k \in 1 .. n
      BY <1>3, <2>2, <3>1
    <3>2. CASE k \notin 1 .. n
      <4>1. k - n \in 1 .. Len(b) /\ n + (k - n) = k
        BY <1>1, <2>1, <3>2
      <4>2. k - n \in Scan(b, mid)
        BY <1>4, <2>2, <4>1
      <4>. QED BY <4>1, <4>2
    <3>. QED BY <3>1, <3>2
  <2>3. ASSUME NEW k \in Scan(a, old) PROVE k \in Scan(c, old)
    BY <1>3, <2>1, <2>3
  <2>4. ASSUME NEW i \in Scan(b, mid) PROVE n + i \in Scan(c, old)
    BY <1>4, <2>1, <2>4
  <2>. QED BY <2>2, <2>3, <2>4
<1>6. SeenAfter(c, old) = SeenAfter(b, mid)
  <2>1. \A x : (\E j \in 1 .. Len(c) : c[j] = x)
               <=> (\E j \in 1 .. n : a[j] = x) \/ (\E j \in 1 .. Len(b) : b[j] = x)
    <3>1. ASSUME NEW j \in 1 .. Len(c)
          PROVE  (\E k \in 1 .. n : a[k] = c[j]) \/ (\E k \in 1 .. Len(b) : b[k] = c[j])
      <4>1. CASE j \in 1 .. n
        BY <1>1, <4>1
      <4>2. CASE j \notin 1 .. n
        <5>1. j - n \in 1 .. Len(b) /\ n + (j - n) = j
          BY <1>1, <4>2
        <5>. QED BY <1>1, <5>1
      <4>. QED BY <4>1, <4>2
    <3>2. \A j \in 1 .. n : j \in 1 .. Len(c) /\ c[j] = a[j]
      BY <1>1
    <3>3. \A j \in 1 .. Len(b) : n + j \in 1 .. Len(c) /\ c[n + j] = b[j]
      BY <1>1
    <3>. QED BY <3>1, <3>2, <3>3, Zenon
  <2>2. \A x : x \in SeenAfter(c, old) <=>
                 x \in old \/ (x \in Prompts /\ \E j \in 1 .. Len(c) : c[j] = x)
    BY Zenon DEF SeenAfter
  <2>3. \A x : x \in SeenAfter(b, mid) <=>
                 x \in mid \/ (x \in Prompts /\ \E j \in 1 .. Len(b) : b[j] = x)
    BY Zenon DEF SeenAfter
  <2>. QED BY <1>2, <2>1, <2>2, <2>3, Zenon
<1>. QED BY <1>5, <1>6, Zenon DEF c, n, mid

(***************************************************************************)
(* Terminal.                                                               *)
(***************************************************************************)

LEMMA ChunkTypes ==
  ASSUME TypeOK, OpenLine,
         NEW whole \in BoundedSeq(Lines, MaxChunk), NEW cut \in BoundedSeq(Lines, 1)
  PROVE  /\ whole \in Seq(Lines) /\ cut \in Seq(Lines)
         /\ Chunk(whole, cut) \in Seq(Texts)
<1>1. whole \in Seq(Lines) /\ cut \in Seq(Lines)
  <2>1. ASSUME NEW n \in Nat, NEW s \in BoundedSeq(Lines, n) PROVE s \in Seq(Lines)
    <3>1. PICK m \in 0 .. n : s \in [1 .. m -> Lines]
      BY Zenon DEF BoundedSeq, SeqOf
    <3>. QED BY <3>1, SeqDef
  <2>2. 1 \in Nat
    OBVIOUS
  <2>. QED BY <2>1, <2>2, BoundsAssumption, Zenon
<1>2. Lines \subseteq Texts /\ \A l \in Lines : Left[l] \in Texts /\ Right[l] \in Texts
  BY CutAssumption, Zenon DEF Texts, Range
<1>3. whole \in Seq(Texts)
  BY <1>1, <1>2, SeqMonotonic
<1>4. (IF open THEN <<Right[Last(printed)]>> ELSE << >>) \in Seq(Texts)
  <2>1. CASE open
    <3>1. Last(printed) \in Lines
      BY <2>1 DEF TypeOK, OpenLine, Last
    <3>. QED BY <1>2, <2>1, <3>1
  <2>2. CASE ~open
    BY <2>2
  <2>. QED BY <2>1, <2>2
<1>5. (IF cut = << >> THEN << >> ELSE <<Left[cut[1]]>>) \in Seq(Texts)
  <2>1. cut # << >> => cut[1] \in Lines
    BY <1>1
  <2>. QED BY <1>2, <2>1
<1>. QED BY <1>1, <1>3, <1>4, <1>5 DEF Chunk

LEMMA Beginning == Init => IInv
<1>1. Init => TypeOK
  <2>1. << >> \in Seq(Lines) /\ << >> \in Seq(Texts) /\ Len(<< >>) = 0
    OBVIOUS
  <2>2. 0 <= MaxLines
    BY BoundsAssumption
  <2>3. {} \subseteq Prompts /\ {} \subseteq 1 .. Len(<< >>) /\ FALSE \in BOOLEAN
    BY Zenon
  <2>. QED BY <2>1, <2>2, <2>3, Zenon DEF Init, TypeOK
<1>2. Init => OpenLine
  BY DEF Init, OpenLine
<1>3. Init => ScannedWhole
  BY DEF Init, ScannedWhole, Scan, SeenAfter
<1>. QED BY <1>1, <1>2, <1>3 DEF IInv

LEMMA ReadKeepsIInv ==
  ASSUME IInv,
         NEW whole \in BoundedSeq(Lines, MaxChunk), NEW cut \in BoundedSeq(Lines, 1),
         Read(whole, cut)
  PROVE  IInv'
<1>. DEFINE chunk == Chunk(whole, cut)
<1>1. /\ whole \in Seq(Lines) /\ cut \in Seq(Lines) /\ chunk \in Seq(Texts)
      /\ printed \in Seq(Lines) /\ arrived \in Seq(Texts)
  BY ChunkTypes, Zenon DEF IInv, TypeOK
<1>2. /\ Len(printed) + Len(whole) + Len(cut) <= MaxLines
      /\ printed' = printed \o whole \o cut
      /\ open' = (cut # << >>)
      /\ arrived' = arrived \o chunk
      /\ found' = found \union {Len(arrived) + i : i \in Scan(chunk, seen)}
      /\ seen' = SeenAfter(chunk, seen)
  BY Zenon DEF Read
<1>. HIDE DEF chunk
<1>3. ScannedWhole'
  <2>1. found = Scan(arrived, {}) /\ seen = SeenAfter(arrived, {})
    BY Zenon DEF IInv, ScannedWhole
  <2>2. /\ Scan(arrived \o chunk, {})
             = Scan(arrived, {})
                 \union {Len(arrived) + i : i \in Scan(chunk, SeenAfter(arrived, {}))}
        /\ SeenAfter(arrived \o chunk, {}) = SeenAfter(chunk, SeenAfter(arrived, {}))
    BY <1>1, ScanSplits
  <2>. QED BY <1>2, <2>1, <2>2, Zenon DEF ScannedWhole
<1>4. TypeOK'
  <2>1. printed' \in Seq(Lines) /\ Len(printed') <= MaxLines
    BY <1>1, <1>2, BoundsAssumption
  <2>2. arrived' \in Seq(Texts) /\ open' \in BOOLEAN
    BY <1>1, <1>2
  <2>3. seen' \subseteq Prompts
    BY <1>2, Zenon DEF IInv, TypeOK, SeenAfter
  <2>4. found' \subseteq 1 .. Len(arrived')
    BY <1>3, Zenon DEF ScannedWhole, Scan
  <2>. QED BY <2>1, <2>2, <2>3, <2>4 DEF TypeOK
<1>5. OpenLine'
  <2>1. cut # << >> => printed \o whole \o cut # << >>
    BY <1>1, ConcatProperties, EmptySeq
  <2>. QED BY <1>2, <2>1, Zenon DEF OpenLine
<1>. QED BY <1>3, <1>4, <1>5 DEF IInv

LEMMA EveryStep == IInv /\ [Next]_vars => IInv'
<1>. SUFFICES ASSUME IInv, [Next]_vars PROVE IInv'
  OBVIOUS
<1>1. CASE Next
  BY <1>1, ReadKeepsIInv, Zenon DEF Next
<1>2. CASE UNCHANGED vars
  BY <1>2 DEF vars, IInv, TypeOK, OpenLine, ScannedWhole
<1>. QED BY <1>1, <1>2

LEMMA Always == Spec => []IInv
BY Beginning, EveryStep, PTL DEF Spec

\* Lines, chunks and detections keep to their types, for any lines and any way of
\* cutting them.
THEOREM TerminalTypeOK == Spec => []TypeOK
<1>1. IInv => TypeOK
  BY DEF IInv
<1>. QED BY <1>1, Always, PTL

\* Of the texts scanned, whatever the chunks, only matching ones are reported and
\* each of these where it first comes (Scan).
THEOREM TerminalNewTextsReported == Spec => []NewTextsReported
<1>1. IInv => NewTextsReported
  BY Zenon DEF IInv, ScannedWhole, NewTextsReported, Scan, Reported
<1>. QED BY <1>1, Always, PTL
=============================================================================
