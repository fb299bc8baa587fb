---------------------------- MODULE CodecProofs ----------------------------
(***************************************************************************)
(* What one implementation encodes the other decodes, for bytes, ids and   *)
(* payloads of any size; and what becomes of a payload that is too long.   *)
(***************************************************************************)
EXTENDS Codec, SequenceTheorems, TLAPS

LEMMA Division ==
  ASSUME NEW n \in Nat
  PROVE  /\ n \div Base \in Nat /\ n % Base \in 0 .. Base - 1
         /\ n = Base * (n \div Base) + (n % Base)
BY CodecAssumption, SMTT(30)

LEMMA HighByte ==
  ASSUME NEW n \in Nat, n <= MaxPayload
  PROVE  (n \div Base) % Base = n \div Base
<1>1. n \div Base < Base
  BY Division, CodecAssumption, SMTT(30) DEF MaxPayload
<1>. QED BY <1>1, Division, CodecAssumption, SMTT(30)

LEMMA TwoBytesFit ==
  ASSUME NEW n \in Nat, n <= MaxPayload
  PROVE  ((n \div Base) % Base) * Base + (n % Base) = n
BY HighByte, Division, CodecAssumption, SMTT(30)

LEMMA BytesAreShort ==
  ASSUME NEW h \in 0 .. Base - 1, NEW l \in 0 .. Base - 1
  PROVE  h * Base + l \in Nat /\ h * Base + l <= MaxPayload
<1>. DEFINE d == Base - 1 - h
<1>1. d \in Nat /\ h \in Nat /\ Base = h + d + 1
  BY CodecAssumption
<1>. HIDE DEF d
<1>2. Base * Base = h * Base + d * Base + Base
  BY <1>1, CodecAssumption, SMTT(30)
<1>3. h * Base \in Nat /\ d * Base \in Nat
  BY <1>1, CodecAssumption, SMTT(30)
<1>. QED BY <1>2, <1>3, CodecAssumption DEF MaxPayload

\* A sequence is cut where its two parts were joined.
LEMMA CutBack ==
  ASSUME NEW S, NEW x \in Seq(S), NEW y \in Seq(S)
  PROVE  /\ SubSeq(x \o y, 1, Len(x)) = x
         /\ SubSeq(x \o y, Len(x) + 1, Len(x \o y)) = y
<1>. DEFINE z == x \o y
<1>1. /\ z \in Seq(S) /\ Len(z) = Len(x) + Len(y)
      /\ \A i \in 1 .. Len(x) : z[i] = x[i]
      /\ \A i \in 1 .. Len(y) : z[Len(x) + i] = y[i]
  BY ConcatProperties
<1>2. \A i \in 1 .. Len(z) : z[i] \in S
  BY <1>1
<1>3. /\ SubSeq(z, 1, Len(x)) \in Seq(S) /\ Len(SubSeq(z, 1, Len(x))) = Len(x)
      /\ \A i \in 1 .. Len(x) : SubSeq(z, 1, Len(x))[i] = z[i]
  BY <1>1, <1>2, SubSeqProperties
<1>4. SubSeq(z, 1, Len(x)) = x
  BY <1>1, <1>3, SeqEqual
<1>5. /\ SubSeq(z, Len(x) + 1, Len(z)) \in Seq(S)
      /\ Len(SubSeq(z, Len(x) + 1, Len(z))) = Len(y)
      /\ \A i \in 1 .. Len(y) : SubSeq(z, Len(x) + 1, Len(z))[i] = z[Len(x) + i]
  BY <1>1, <1>2, SubSeqProperties
<1>6. SubSeq(z, Len(x) + 1, Len(z)) = y
  BY <1>1, <1>5, SeqEqual
<1>. QED BY <1>4, <1>6

LEMMA WholeSeq ==
  ASSUME NEW S, NEW x \in Seq(S)
  PROVE  SubSeq(x, 1, Len(x)) = x
BY SubSeqProperties, SeqEqual

\* A frame that fits is taken whole and parses into what was put in.
LEMMA ParseFrame ==
  ASSUME NEW S, NEW type, NEW id \in Seq(S), NEW data \in Seq(S),
         type \in TerminalTypes => Len(id) = IdLen,
         type \notin TerminalTypes => id = << >>,
         Len(BodyOf(Message(type, id, data))) <= MaxPayload
  PROVE  LET f == Frame(type, BodyOf(Message(type, id, data)))
         IN  LengthOf(f) = Len(f.body) /\ Whole(f) /\ Parse(f) = Message(type, id, data)
<1>. DEFINE body == BodyOf(Message(type, id, data))
            f == Frame(type, body)
<1>1. body \in Seq(S) /\ Len(body) \in Nat
  BY ConcatProperties DEF BodyOf, Message
<1>2. f.type = type /\ f.body = body /\ LengthOf(f) = Len(body)
  BY <1>1, TwoBytesFit DEF Frame, LengthOf
<1>3. PayloadOf(f) = body
  BY <1>1, <1>2, WholeSeq DEF PayloadOf
<1>4. CASE type \in TerminalTypes
  <2>1. body = id \o data /\ Len(body) = IdLen + Len(data) /\ Len(id) = IdLen
    BY <1>4, ConcatProperties DEF BodyOf, Message
  <2>2. SubSeq(body, 1, IdLen) = id /\ SubSeq(body, IdLen + 1, Len(body)) = data
    BY <2>1, CutBack
  <2>3. Parse(f) = Message(type, id, data)
    BY <1>2, <1>3, <1>4, <2>2 DEF Parse
  <2>4. Whole(f)
    BY <1>1, <1>2, <2>1, CodecAssumption DEF Whole
  <2>. QED BY <1>2, <2>3, <2>4
<1>5. CASE type \notin TerminalTypes
  <2>1. body = data
    BY <1>5 DEF BodyOf, Message
  <2>2. Parse(f) = Message(type, id, data)
    BY <1>2, <1>3, <1>5, <2>1 DEF Parse
  <2>. QED BY <1>1, <1>2, <1>5, <2>2 DEF Whole
<1>. QED BY <1>4, <1>5

\* codec.go to protocol.js: whatever Encode accepts, the page decodes it to the same
\* session and the same bytes, and nothing of the frame is left over.
THEOREM HostToPage ==
  ASSUME NEW S, NEW type \in ValidTypes, NEW id \in Seq(S), NEW data \in Seq(S),
         type \notin TerminalTypes => id = << >>,
         Encodable(Message(type, id, data))
  PROVE  LET f == Encode(Message(type, id, data))
         IN  /\ LengthOf(f) = Len(f.body) /\ JsDecodable(f)
             /\ JsDecode(f) = Message(type, id, data)
<1>1. /\ type \in TerminalTypes => Len(id) = IdLen
      /\ Len(BodyOf(Message(type, id, data))) <= MaxPayload
  BY DEF Encodable, Message
<1>2. Message(type, id, data).type = type
  BY DEF Message
<1>. QED BY <1>1, <1>2, ParseFrame DEF Encode, JsDecodable, JsDecode

LEMMA JsIdKeeps ==
  ASSUME NEW S, NEW id \in Seq(S), Len(id) = IdLen
  PROVE  JsId(id) = id
<1>1. id = [i \in 1 .. IdLen |-> id[i]]
  OBVIOUS
<1>. QED BY <1>1 DEF JsId

\* protocol.js to codec.go: what the page sends with the id of a session, and no
\* more than fits, the host decodes to the same session and the same bytes.
THEOREM PageToHost ==
  ASSUME NEW S, NEW type \in ValidTypes, NEW id \in Seq(S), NEW data \in Seq(S),
         type \in TerminalTypes => Len(id) = IdLen,
         type \notin TerminalTypes => id = << >>,
         Len(BodyOf(Message(type, id, data))) <= MaxPayload
  PROVE  LET f == JsEncode(Message(type, id, data))
         IN  Decodable(f) /\ Decode(f) = Message(type, id, data)
<1>1. JsEncode(Message(type, id, data)) = Frame(type, BodyOf(Message(type, id, data)))
  BY JsIdKeeps DEF JsEncode, BodyOf, Message
<1>2. Frame(type, BodyOf(Message(type, id, data))).type = type
  BY DEF Frame
<1>. QED BY <1>1, <1>2, ParseFrame DEF Decodable, Decode

\* The beginning of two joined parts, of a length in the second, is cut in two again.
LEMMA CutInside ==
  ASSUME NEW S, NEW x \in Seq(S), NEW y \in Seq(S), NEW n \in 0 .. Len(y),
         NEW p, p = SubSeq(x \o y, 1, Len(x) + n)
  PROVE  SubSeq(p, 1, Len(x)) = x /\ SubSeq(p, Len(x) + 1, Len(x) + n) = SubSeq(y, 1, n)
<1>. DEFINE z == x \o y
            q == SubSeq(y, 1, n)
<1>1. /\ z \in Seq(S) /\ Len(z) = Len(x) + Len(y) /\ Len(x) \in Nat /\ Len(y) \in Nat
      /\ \A i \in 1 .. Len(x) : z[i] = x[i]
      /\ \A i \in 1 .. Len(y) : z[Len(x) + i] = y[i]
  BY ConcatProperties
<1>2. /\ \A i \in 1 .. Len(z) : z[i] \in S
      /\ \A i \in 1 .. Len(y) : y[i] \in S
  BY <1>1
<1>3. /\ q \in Seq(S) /\ Len(q) = n
      /\ \A i \in 1 .. n : q[i] = y[i]
  BY <1>1, <1>2, SubSeqProperties
<1>4. /\ p \in Seq(S) /\ Len(p) = Len(x) + n
      /\ \A i \in 1 .. Len(x) + n : p[i] = z[i]
  BY <1>1, <1>2, SubSeqProperties
<1>. HIDE DEF z, q
<1>5. p = x \o q
  <2>1. /\ x \o q \in Seq(S) /\ Len(x \o q) = Len(x) + n
        /\ \A i \in 1 .. Len(x) : (x \o q)[i] = x[i]
        /\ \A i \in 1 .. n : (x \o q)[Len(x) + i] = q[i]
    <3>1. /\ x \o q \in Seq(S) /\ Len(x \o q) = Len(x) + Len(q)
          /\ \A i \in 1 .. Len(x) + Len(q) :
               (x \o q)[i] = IF i <= Len(x) THEN x[i] ELSE q[i - Len(x)]
      BY <1>3, ConcatProperties, Zenon
    <3>. QED BY <1>1, <1>3, <3>1
  <2>2. ASSUME NEW i \in 1 .. Len(x) + n PROVE p[i] = (x \o q)[i]
    <3>1. CASE i <= Len(x)
      BY <1>1, <1>4, <2>1, <3>1
    <3>2. CASE i > Len(x)
      <4>1. i - Len(x) \in 1 .. n /\ i - Len(x) \in 1 .. Len(y) /\ i = Len(x) + (i - Len(x))
        BY <1>1, <3>2
      <4>2. z[Len(x) + (i - Len(x))] = y[i - Len(x)]
        BY <1>1, <4>1, Zenon
      <4>3. (x \o q)[Len(x) + (i - Len(x))] = q[i - Len(x)] /\ q[i - Len(x)] = y[i - Len(x)]
        BY <1>3, <2>1, <4>1, Zenon
      <4>4. p[i] = z[i]
        BY <1>4
      <4>. QED BY <4>1, <4>2, <4>3, <4>4
    <3>3. i <= Len(x) \/ i > Len(x)
      BY <1>1
    <3>. QED BY <3>1, <3>2, <3>3, Zenon
  <2>. QED BY <1>4, <2>1, <2>2, SeqEqual
<1>6. SubSeq(p, 1, Len(x)) = x /\ SubSeq(p, Len(x) + 1, Len(x) + n) = q
  BY <1>3, <1>4, <1>5, CutBack
<1>. QED BY <1>6 DEF q, z

\* protocol.js has no limit: input that does not fit with its session id is refused by
\* the host or loses its end, never taken whole, and is taken for no other session.
THEOREM LongInputIsCut ==
  ASSUME NEW S, NEW id \in Seq(S), NEW data \in Seq(S), Len(id) = IdLen,
         Len(id) + Len(data) > MaxPayload,
         LET f == JsEncode(Message(TermInput, id, data)) IN Decodable(f)
  PROVE  \E n \in Nat : /\ n < Len(data)
                        /\ Decode(JsEncode(Message(TermInput, id, data)))
                             = Message(TermInput, id, SubSeq(data, 1, n))
<1>. DEFINE body == id \o data
            f == JsEncode(Message(TermInput, id, data))
<1>1. /\ body \in Seq(S) /\ Len(body) = IdLen + Len(data)
      /\ Len(data) \in Nat /\ IdLen \in Nat
  <2>1. Len(id \o data) = Len(id) + Len(data) /\ id \o data \in Seq(S)
    BY ConcatProperties
  <2>2. Len(data) \in Nat /\ IdLen \in Nat
    BY LenProperties, CodecAssumption
  <2>. QED BY <2>1, <2>2
<1>2. f = Frame(TermInput, body) /\ TermInput \in TerminalTypes
  BY JsIdKeeps DEF JsEncode, Message, TerminalTypes
<1>3. f.body = body /\ f.type = TermInput /\ f.hi \in 0 .. Base - 1 /\ f.lo \in 0 .. Base - 1
  <2>1. Len(body) \in Nat
    BY <1>1, CodecAssumption
  <2>2. Len(body) \div Base \in Nat
    BY <2>1, Division
  <2>3. (Len(body) \div Base) % Base \in 0 .. Base - 1 /\ Len(body) % Base \in 0 .. Base - 1
    BY <2>1, <2>2, Division
  <2>. QED BY <1>2, <2>3 DEF Frame
<1>4. LengthOf(f) \in Nat /\ LengthOf(f) <= MaxPayload
  BY <1>3, BytesAreShort DEF LengthOf
<1>5. LengthOf(f) >= IdLen /\ LengthOf(f) < Len(body)
  BY <1>1, <1>2, <1>3, <1>4, CodecAssumption DEF Decodable, Whole, MaxPayload
<1>6. PICK n \in Nat : LengthOf(f) = Len(id) + n /\ n < Len(data)
  <2>1. LengthOf(f) - IdLen \in Nat /\ LengthOf(f) = Len(id) + (LengthOf(f) - IdLen)
        /\ LengthOf(f) - IdLen < Len(data)
    BY <1>1, <1>4, <1>5
  <2>. QED BY <2>1
<1>7. Decode(f) = Message(TermInput, SubSeq(PayloadOf(f), 1, IdLen),
                          SubSeq(PayloadOf(f), IdLen + 1, LengthOf(f)))
  BY <1>2, <1>3 DEF Decode, Parse
<1>8. PayloadOf(f) = SubSeq(body, 1, Len(id) + n)
  BY <1>3, <1>6 DEF PayloadOf
<1>9. /\ SubSeq(PayloadOf(f), 1, IdLen) = id
      /\ SubSeq(PayloadOf(f), IdLen + 1, LengthOf(f)) = SubSeq(data, 1, n)
  <2>1. n \in 0 .. Len(data)
    BY <1>1, <1>6
  <2>. HIDE DEF f
  <2>2. PayloadOf(f) = SubSeq(id \o data, 1, Len(id) + n)
    BY <1>8
  <2>3. /\ SubSeq(PayloadOf(f), 1, Len(id)) = id
        /\ SubSeq(PayloadOf(f), Len(id) + 1, Len(id) + n) = SubSeq(data, 1, n)
    BY <2>1, <2>2, CutInside, SMTT(60)
  <2>. QED BY <1>6, <2>3
<1>. HIDE DEF f
<1>10. Decode(f) = Message(TermInput, id, SubSeq(data, 1, n))
  BY <1>7, <1>9
<1>. QED BY <1>6, <1>10 DEF f

\* bridge.go:153: the snapshot of a ring of 2^16 bytes that is full is never encoded,
\* so a session that has printed that much sends no scrollback.
THEOREM FullRingNeverFits ==
  ASSUME NEW S, NEW id \in Seq(S), NEW data \in Seq(S), Len(data) >= Base * Base
  PROVE  ~Encodable(Message(Scrollback, id, data))
<1>1. Len(id \o data) = Len(id) + Len(data)
  BY ConcatProperties
<1>. QED BY <1>1, CodecAssumption DEF Encodable, BodyOf, Message, TerminalTypes, MaxPayload
=============================================================================
