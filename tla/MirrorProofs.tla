---------------------------- MODULE MirrorProofs ----------------------------
(***************************************************************************)
(* Proofs about the mirroring of terminals for any sessions, ring, limits  *)
(* and number of messages and connections.                                 *)
(***************************************************************************)
EXTENDS Mirror, CodecProofs

(***************************************************************************)
(* The data: ids, pieces of output and the frames that carry them.         *)
(***************************************************************************)

LEMMA Constants ==
  /\ Size \in Nat \ {0} /\ Tries \in Nat \ {0}
  /\ MaxChunk \in Nat /\ MaxPaste \in Nat /\ MaxBytes \in Nat
  /\ MaxMsgs \in Nat /\ MaxUps \in Nat
  /\ MaxChunk + IdLen <= MaxPayload
  /\ MaxPayload \in Nat /\ MaxPayload >= 3 /\ IdLen \in Nat \ {0}
<1>1. Base \in Nat /\ Base >= 2
  BY CodecAssumption
<1>2. Base * Base \in Nat /\ Base * Base >= 4
  BY <1>1, SMTT(30)
<1>3. MaxPayload \in Nat /\ MaxPayload >= 3
  BY <1>2 DEF MaxPayload
<1>. QED BY <1>3, MirrorAssumption, CodecAssumption

LEMMA IdsAreStrings ==
  ASSUME NEW s \in Sessions
  PROVE  s \in Seq(Nat) /\ Len(s) = IdLen /\ s # NoSession
<1>1. s \in [1 .. IdLen -> 0 .. Base - 1] /\ IdLen \in Nat \ {0} /\ Base \in Nat
  BY MirrorAssumption, CodecAssumption
<1>2. \A i \in 1 .. IdLen : s[i] \in Nat
  BY <1>1
<1>3. s = [i \in 1 .. IdLen |-> s[i]]
  BY <1>1
<1>4. s \in [1 .. IdLen -> Nat]
  BY <1>1, <1>2
<1>5. s \in Seq(Nat) /\ Len(s) = IdLen
  BY <1>1, <1>4
<1>. QED BY <1>1, <1>5 DEF NoSession

LEMMA RunValue ==
  ASSUME NEW a \in Nat \ {0}, NEW b \in Nat
  PROVE  /\ Run(a, b) \in Seq(Nat) /\ Len(Run(a, b)) = IF a <= b THEN b - a + 1 ELSE 0
         /\ Range(Run(a, b)) = a .. b
         /\ a <= b => Run(a, b)[1] = a /\ Run(a, b)[Len(Run(a, b))] = b
<1>. DEFINE n == IF a <= b THEN b - a + 1 ELSE 0
            r == Run(a, b)
<1>1. n \in Nat /\ 1 .. b - a + 1 = 1 .. n
  OBVIOUS
<1>2. r \in [1 .. n -> Nat] /\ \A i \in 1 .. n : r[i] = a + i - 1
  BY <1>1 DEF Run
<1>3. r \in Seq(Nat) /\ Len(r) = n /\ DOMAIN r = 1 .. n
  BY <1>1, <1>2
<1>4. Range(r) = a .. b
  <2>1. ASSUME NEW k \in Range(r) PROVE k \in a .. b
    <3>1. PICK i \in 1 .. n : k = r[i]
      BY <1>3 DEF Range
    <3>. QED BY <1>1, <1>2, <3>1
  <2>2. ASSUME NEW k \in a .. b PROVE k \in Range(r)
    <3>1. k - a + 1 \in 1 .. n
      OBVIOUS
    <3>2. r[k - a + 1] = k
      BY <1>2, <3>1
    <3>. QED BY <1>3, <3>1, <3>2, Zenon DEF Range
  <2>. QED BY <2>1, <2>2
<1>5. a <= b => r[1] = a /\ r[Len(r)] = b
  BY <1>1, <1>2, <1>3
<1>. QED BY <1>3, <1>4, <1>5

\* The snapshot of a ring that holds anything ends with the newest byte.
LEMMA NewestIsRun ==
  ASSUME NEW t \in Nat, t > 0
  PROVE  \E first \in 1 .. t : Ring!Newest(t) = Run(first, t)
<1>. DEFINE size == IF t < Size THEN t ELSE Size
<1>1. size \in 1 .. t
  BY Constants
<1>2. t - size + 1 \in 1 .. t /\ t - (t - size + 1) + 1 = size
  BY <1>1
<1>3. Ring!Newest(t) = [i \in 1 .. size |-> t - size + i]
  BY Zenon DEF Ring!Newest
<1>4. Run(t - size + 1, t) = [i \in 1 .. size |-> t - size + i]
  BY <1>1, <1>2 DEF Run
<1>. QED BY <1>2, <1>3, <1>4

LEMMA ParseType ==
  ASSUME NEW f
  PROVE  JsDecode(f).type = f.type /\ Decode(f).type = f.type
BY DEF JsDecode, Decode, Parse, Message

\* What the host sends and what the page will make of it.
GoodFrame(f) == JsDecodable(f) /\ LengthOf(f) = Len(f.body) /\ HostSays(JsDecode(f))
GoodRequest(f) ==
  IF Fits(f) THEN Decodable(f) /\ LengthOf(f) = Len(f.body) /\ PageSays(Decode(f))
  ELSE /\ f.type = TermInput
       /\ Decodable(f) => /\ Decode(f).id \in Sessions /\ Decode(f).data \in Seq(Nat)
                          /\ IdLen + Len(Decode(f).data) < Len(f.body)

LEMMA WireFaithfulMeans ==
  WireFaithful <=> /\ \A f \in Range(wire) : GoodFrame(f)
                   /\ \A f \in Range(inbox) : GoodRequest(f)
BY Zenon DEF WireFaithful, GoodFrame, GoodRequest

LEMMA SayBytes ==
  ASSUME NEW type \in {TermOutput, Scrollback}, NEW s \in Sessions,
         NEW a \in 1 .. stored[s], NEW b \in 1 .. stored[s], a <= b, stored[s] \in Nat,
         Encodable(Message(type, s, Run(a, b)))
  PROVE  LET f == Encode(Message(type, s, Run(a, b)))
         IN  /\ GoodFrame(f) /\ f.type = type
             /\ JsDecode(f) = Message(type, s, Run(a, b))
<1>. DEFINE m == Message(type, s, Run(a, b))
            f == Encode(m)
<1>1. type \in ValidTypes /\ type \in TerminalTypes
  BY DEF ValidTypes, TerminalTypes, TermOutput, Scrollback
<1>2. Run(a, b) \in Seq(Nat) /\ s \in Seq(Nat)
  <2>1. a \in Nat \ {0} /\ b \in Nat
    OBVIOUS
  <2>. QED BY <2>1, RunValue, IdsAreStrings, Zenon
<1>3. LengthOf(f) = Len(f.body) /\ JsDecodable(f) /\ JsDecode(f) = m
  BY <1>1, <1>2, HostToPage
<1>4. m.type = type /\ m.id = s /\ m.data = Run(a, b)
  BY DEF Message
<1>5. HostSays(m)
  BY <1>4 DEF HostSays, IsPiece
<1>6. f.type = type
  BY <1>3, <1>4, ParseType
<1>. HIDE DEF f, m
<1>. QED BY <1>3, <1>5, <1>6 DEF GoodFrame, f, m

\* A chunk always fits.
LEMMA ChunkEncodes ==
  ASSUME NEW s \in Sessions, NEW a \in Nat \ {0}, NEW b \in Nat, a <= b, b - a < MaxChunk
  PROVE  Encodable(Message(TermOutput, s, Run(a, b)))
<1>0. /\ Run(a, b) \in Seq(Nat) /\ s \in Seq(Nat) /\ Len(s) = IdLen
      /\ Len(Run(a, b)) = IF a <= b THEN b - a + 1 ELSE 0
  BY RunValue, IdsAreStrings, Zenon
<1>1. /\ Run(a, b) \in Seq(Nat) /\ Len(Run(a, b)) <= MaxChunk /\ Len(Run(a, b)) \in Nat
      /\ s \in Seq(Nat) /\ Len(s) = IdLen
  BY <1>0, Constants
<1>2. Len(s \o Run(a, b)) = IdLen + Len(Run(a, b))
  BY <1>1, ConcatProperties
<1>3. IdLen + Len(Run(a, b)) <= MaxPayload
  BY <1>1, Constants
<1>. QED BY <1>1, <1>2, <1>3 DEF Encodable, BodyOf, Message, TerminalTypes

LEMMA ControlFits ==
  ASSUME NEW S, NEW x \in S, NEW type \in ValidTypes, type \notin TerminalTypes
  PROVE  /\ << >> \in Seq(S) /\ <<x>> \in Seq(S)
         /\ Encodable(Control(type, x)) /\ Len(BodyOf(Control(type, x))) <= MaxPayload
<1>1. << >> \in Seq(S) /\ <<x>> \in Seq(S) /\ Len(<<x>>) = 1
  OBVIOUS
<1>2. BodyOf(Control(type, x)) = <<x>>
  BY DEF BodyOf, Control, Message
<1>3. Len(<<x>>) <= MaxPayload
  BY <1>1, Constants
<1>. QED BY <1>1, <1>2, <1>3 DEF Encodable, Control, Message

LEMMA SayControl ==
  ASSUME NEW type \in {SessionList, ErrorNote}, NEW x, HostSays(Control(type, x))
  PROVE  LET f == Encode(Control(type, x))
         IN  GoodFrame(f) /\ f.type = type /\ JsDecode(f) = Control(type, x)
<1>. DEFINE f == Encode(Control(type, x))
<1>1. type \in ValidTypes /\ type \notin TerminalTypes
  BY DEF ValidTypes, TerminalTypes, TermOutput, TermInput, Scrollback, SessionList, ErrorNote
<1>2. /\ << >> \in Seq({x}) /\ <<x>> \in Seq({x})
      /\ Encodable(Message(type, << >>, <<x>>))
  BY <1>1, ControlFits DEF Control
<1>3. LengthOf(f) = Len(f.body) /\ JsDecodable(f) /\ JsDecode(f) = Control(type, x)
  BY <1>1, <1>2, HostToPage DEF Control
<1>4. f.type = type
  BY <1>3, ParseType DEF Control, Message
<1>. QED BY <1>3, <1>4 DEF GoodFrame

LEMMA SayList == HostSays(Control(SessionList, Sessions))
BY DEF HostSays, Control, Message

LEMMA SayError == HostSays(Control(ErrorNote, [code |-> "SESSION_CREATE_FAILED"]))
BY DEF HostSays, Control, Message

\* What the page posts, and what the host takes of it: keys that do not fit with the id
\* are refused, or lose their end.
LEMMA AskInput ==
  ASSUME NEW s \in Sessions, NEW data \in Seq(Nat), data # << >>
  PROVE  LET f == JsEncode(Message(TermInput, s, data))
         IN  /\ GoodRequest(f)
             /\ Fits(f) <=> IdLen + Len(data) <= MaxPayload
             /\ \A u \in Sessions : u # s => KeysOf(f, u) = << >>
             /\ \E n \in 0 .. Len(data) : KeysOf(f, s) = SubSeq(data, 1, n)
             /\ Fits(f) => KeysOf(f, s) = data
<1>. DEFINE m == Message(TermInput, s, data)
            f == JsEncode(m)
<1>1. s \in Seq(Nat) /\ Len(s) = IdLen /\ TermInput \in ValidTypes /\ TermInput \in TerminalTypes
  BY IdsAreStrings DEF ValidTypes, TerminalTypes, TermInput
<1>2. Len(s \o data) = IdLen + Len(data)
  BY <1>1, ConcatProperties
<1>3. BodyOf(m) = s \o data
  BY <1>1 DEF BodyOf, Message
<1>4. f = Frame(TermInput, BodyOf(m))
  BY <1>1, JsIdKeeps DEF JsEncode, BodyOf, Message
<1>5. f.type = TermInput /\ f.body = BodyOf(m)
  BY <1>4 DEF Frame
<1>6. Fits(f) <=> IdLen + Len(data) <= MaxPayload
  BY <1>2, <1>3, <1>5 DEF Fits
<1>7. m.type = TermInput /\ m.id = s /\ m.data = data /\ PageSays(m)
  BY DEF PageSays, Message
<1>8. Len(data) \in Nat /\ SubSeq(data, 1, Len(data)) = data
  BY WholeSeq
<1>9. ASSUME IdLen + Len(data) <= MaxPayload
      PROVE  GoodRequest(f) /\ Decodable(f) /\ Decode(f) = m
  <2>1. Len(BodyOf(m)) <= MaxPayload
    BY <1>2, <1>3, <1>9
  <2>2. Decodable(f) /\ Decode(f) = m
    BY <1>1, <2>1, PageToHost
  <2>3. LengthOf(f) = Len(f.body)
    BY <1>1, <1>4, <2>1, ParseFrame
  <2>. HIDE DEF m, f
  <2>. QED BY <1>6, <1>7, <1>9, <2>2, <2>3 DEF GoodRequest
<1>10. ASSUME IdLen + Len(data) > MaxPayload, Decodable(f)
       PROVE  \E n \in 0 .. Len(data) :
                n < Len(data) /\ Decode(f) = Message(TermInput, s, SubSeq(data, 1, n))
  <2>1. PICK n \in Nat : /\ n < Len(data)
                         /\ Decode(f) = Message(TermInput, s, SubSeq(data, 1, n))
    BY <1>1, <1>10, LongInputIsCut
  <2>. QED BY <1>8, <2>1
<1>. HIDE DEF m, f
<1>11. IdLen + Len(data) <= MaxPayload \/ IdLen + Len(data) > MaxPayload
  BY <1>8, Constants
<1>12. CASE IdLen + Len(data) <= MaxPayload
  <2>1. \A u \in Sessions : KeysOf(f, u) = IF s = u THEN data ELSE << >>
    BY <1>5, <1>7, <1>9, <1>12 DEF KeysOf
  <2>2. Len(data) \in 0 .. Len(data)
    BY <1>8
  <2>. QED BY <1>6, <1>8, <1>9, <1>12, <2>1, <2>2, Zenon DEF m, f
<1>13. CASE IdLen + Len(data) > MaxPayload
  <2>0. ~Fits(f)
    BY <1>6, <1>8, <1>13, Constants
  <2>1. CASE Decodable(f)
    <3>1. PICK n \in 0 .. Len(data) :
            n < Len(data) /\ Decode(f) = Message(TermInput, s, SubSeq(data, 1, n))
      BY <1>10, <1>13, <2>1
    <3>2. SubSeq(data, 1, n) \in Seq(Nat) /\ Len(SubSeq(data, 1, n)) = n
      BY <1>8
    <3>3. Decode(f).id = s /\ Decode(f).data = SubSeq(data, 1, n)
      BY <3>1 DEF Message
    <3>4. IdLen + Len(Decode(f).data) < Len(f.body)
      BY <1>2, <1>3, <1>5, <1>8, <3>1, <3>2, <3>3, Constants
    <3>5. GoodRequest(f)
      BY <1>5, <2>0, <3>2, <3>3, <3>4, Zenon DEF GoodRequest
    <3>6. \A u \in Sessions : KeysOf(f, u) = IF s = u THEN SubSeq(data, 1, n) ELSE << >>
      BY <1>5, <2>1, <3>3 DEF KeysOf
    <3>. QED BY <1>6, <2>0, <3>5, <3>6, Zenon DEF m, f
  <2>2. CASE ~Decodable(f)
    <3>1. GoodRequest(f)
      BY <1>5, <2>0, <2>2, Zenon DEF GoodRequest
    <3>2. \A u \in Sessions : KeysOf(f, u) = << >>
      BY <2>2 DEF KeysOf
    <3>3. 0 \in 0 .. Len(data) /\ SubSeq(data, 1, 0) = << >>
      BY <1>8
    <3>. QED BY <1>6, <2>0, <3>1, <3>2, <3>3, Zenon DEF m, f
  <2>. QED BY <2>1, <2>2
<1>. QED BY <1>11, <1>12, <1>13

LEMMA AskControl ==
  ASSUME NEW type \in {TermResize, SessionSwitch, SessionCreate}, NEW x,
         PageSays(Control(type, x))
  PROVE  GoodRequest(JsEncode(Control(type, x)))
<1>. DEFINE m == Control(type, x)
            f == JsEncode(m)
<1>1. type \in ValidTypes /\ type \notin TerminalTypes
  BY DEF ValidTypes, TerminalTypes, TermOutput, TermInput, Scrollback, TermResize,
         SessionSwitch, SessionCreate
<1>2. << >> \in Seq({x}) /\ <<x>> \in Seq({x}) /\ Len(BodyOf(m)) <= MaxPayload
  BY <1>1, ControlFits
<1>3. m = Message(type, << >>, <<x>>)
  BY DEF Control
<1>4. Decodable(f) /\ Decode(f) = m
  BY <1>1, <1>2, <1>3, PageToHost
<1>5. f = Frame(type, BodyOf(m))
  BY <1>1 DEF JsEncode, BodyOf, Control, Message
<1>6. LengthOf(f) = Len(f.body)
  BY <1>1, <1>2, <1>3, <1>5, ParseFrame, ZenonT(30)
<1>7. Fits(f)
  BY <1>2, <1>5 DEF Fits, Frame
<1>. HIDE DEF m, f
<1>. QED BY <1>4, <1>6, <1>7 DEF GoodRequest, m, f

(***************************************************************************)
(* The two queues.                                                         *)
(***************************************************************************)

LEMMA SequenceSteps ==
  ASSUME NEW q, IsSequence(q)
  PROVE  /\ \A f : /\ IsSequence(Append(q, f))
                   /\ Range(Append(q, f)) = Range(q) \union {f}
         /\ q # << >> => /\ Head(q) \in Range(q) /\ IsSequence(Tail(q))
                         /\ Range(q) = {Head(q)} \union Range(Tail(q))
<1>1. ASSUME NEW f
      PROVE  IsSequence(Append(q, f)) /\ Range(Append(q, f)) = Range(q) \union {f}
  <2>. DEFINE T == Range(q) \union {f}
  <2>0. Range(q) \subseteq T /\ f \in T
    OBVIOUS
  <2>1. q \in Seq(T)
    BY <2>0, SeqMonotonic, Zenon DEF IsSequence
  <2>. HIDE DEF T
  <2>2. Append(q, f) \in Seq(T) /\ Append(q, f) = q \o <<f>> /\ <<f>> \in Seq(T)
    BY <2>0, <2>1, AppendIsConcat
  <2>3. Range(q \o <<f>>) = Range(q) \union Range(<<f>>)
    BY <2>1, <2>2, RangeConcatenation, ZenonT(30)
  <2>4. Range(<<f>>) = {f}
    BY DEF Range
  <2>5. Range(Append(q, f)) = T
    BY <2>2, <2>3, <2>4, Zenon DEF T
  <2>. QED BY <2>2, <2>5, Zenon DEF IsSequence, T
<1>2. ASSUME q # << >>
      PROVE  /\ Head(q) \in Range(q) /\ IsSequence(Tail(q))
             /\ Range(q) = {Head(q)} \union Range(Tail(q))
  <2>1. /\ Head(q) \in Range(q) /\ Tail(q) \in Seq(Range(q))
        /\ Range(q) = {Head(q)} \union Range(Tail(q))
    <3>1. Tail(q) \in Seq(Range(q)) /\ q = <<Head(q)>> \o Tail(q)
          /\ <<Head(q)>> \in Seq(Range(q))
      BY <1>2 DEF IsSequence
    <3>2. Range(<<Head(q)>> \o Tail(q)) = Range(<<Head(q)>>) \union Range(Tail(q))
      BY <3>1, RangeConcatenation, ZenonT(30)
    <3>3. Range(<<Head(q)>>) = {Head(q)}
      BY DEF Range
    <3>. QED BY <3>1, <3>2, <3>3, Zenon
  <2>2. \A i \in 1 .. Len(Tail(q)) : Tail(q)[i] \in Range(Tail(q))
    <3>1. DOMAIN Tail(q) = 1 .. Len(Tail(q))
      BY <2>1, LenProperties, Zenon
    <3>. QED BY <3>1, Zenon DEF Range
  <2>3. Tail(q) \in Seq(Range(Tail(q)))
    <3>1. Len(Tail(q)) \in Nat /\ Tail(q) \in [1 .. Len(Tail(q)) -> Range(q)]
      BY <2>1, LenProperties, Zenon
    <3>2. Tail(q) \in [1 .. Len(Tail(q)) -> Range(Tail(q))]
      BY <2>2, <3>1
    <3>. QED BY <3>1, <3>2, SeqDef
  <2>. QED BY <2>1, <2>3, Zenon DEF IsSequence
<1>. QED BY <1>1, <1>2, Zenon

LEMMA SendSteps ==
  ASSUME IsSequence(wire), NEW m, Send(m)
  PROVE  /\ IsSequence(wire') /\ Range(wire) \subseteq Range(wire')
         /\ Range(wire') \subseteq Range(wire) \union {Encode(m)}
         /\ SendOk => Encode(m) \in Range(wire')
<1>1. CASE SendOk
  <2>1. wire' = Append(wire, Encode(m))
    BY <1>1 DEF Send
  <2>2. IsSequence(Append(wire, Encode(m)))
        /\ Range(Append(wire, Encode(m))) = Range(wire) \union {Encode(m)}
    BY SequenceSteps, Zenon
  <2>3. IsSequence(wire') /\ Range(wire') = Range(wire) \union {Encode(m)}
    BY <2>1, <2>2
  <2>. QED BY <2>3
<1>2. CASE ~SendOk
  <2>1. wire' = wire
    BY <1>2 DEF Send
  <2>. QED BY <1>2, <2>1
<1>. QED BY <1>1, <1>2

LEMMA TakeSteps ==
  ASSUME TypeOK, WireFaithful, NEW type, Takes(type)
  PROVE  /\ inbox # << >> /\ inbox' = Tail(inbox) /\ IsSequence(inbox')
         /\ Range(inbox') \subseteq Range(inbox)
         /\ handler.at = "idle" /\ Received.type = type
         /\ type # TermInput => PageSays(Received)
         /\ type = TermInput => Received.id \in Sessions /\ Received.data \in Seq(Nat)
<1>. DEFINE f == Head(inbox)
<1>1. /\ inbox # << >> /\ inbox' = Tail(inbox) /\ handler.at = "idle"
      /\ Received.type = type /\ Decodable(f) /\ f.type = type
  BY ParseType DEF Takes, Received
<1>2. IsSequence(inbox) /\ \A g \in Range(inbox) : GoodRequest(g)
  BY WireFaithfulMeans DEF TypeOK
<1>3. f \in Range(inbox) /\ IsSequence(Tail(inbox)) /\ Range(Tail(inbox)) \subseteq Range(inbox)
  BY <1>1, <1>2, SequenceSteps, Zenon
<1>4. CASE Fits(f)
  <2>1. PageSays(Received)
    BY <1>2, <1>3, <1>4 DEF GoodRequest, Received
  <2>2. type = TermInput => Received.id \in Sessions /\ Received.data \in Seq(Nat)
    BY <1>1, <2>1 DEF PageSays, TermInput, SessionSwitch, TermResize, SessionCreate
  <2>. QED BY <1>1, <1>3, <2>1, <2>2
<1>5. CASE ~Fits(f)
  <2>1. /\ type = TermInput
        /\ Received.id \in Sessions /\ Received.data \in Seq(Nat)
    BY <1>1, <1>2, <1>3, <1>5, Zenon DEF GoodRequest, Received
  <2>. QED BY <1>1, <1>3, <2>1
<1>. QED BY <1>4, <1>5

\* A frame that is refused goes, and nothing else happens.
LEMMA BadSteps ==
  ASSUME TypeOK, TakeBad
  PROVE  /\ inbox # << >> /\ inbox' = Tail(inbox) /\ IsSequence(inbox')
         /\ Range(inbox') \subseteq Range(inbox) /\ handler.at = "idle"
         /\ \A s \in Sessions : KeysOf(Head(inbox), s) = << >>
<1>1. inbox # << >> /\ inbox' = Tail(inbox) /\ handler.at = "idle" /\ ~Decodable(Head(inbox))
  BY DEF TakeBad
<1>2. IsSequence(Tail(inbox)) /\ Range(Tail(inbox)) \subseteq Range(inbox)
  BY <1>1, SequenceSteps, Zenon DEF TypeOK
<1>. QED BY <1>1, <1>2, Zenon DEF KeysOf

LEMMA ArriveSteps ==
  ASSUME TypeOK, WireFaithful, NEW types, Arrives(types)
  PROVE  /\ wire # << >> /\ wire' = Tail(wire) /\ IsSequence(wire')
         /\ Range(wire) = {Head(wire)} \union Range(wire')
         /\ Head(wire) \in Range(wire) /\ GoodFrame(Head(wire))
         /\ HostSays(Arrived) /\ Arrived.type \in types /\ Head(wire).type = Arrived.type
<1>1. wire # << >> /\ wire' = Tail(wire) /\ Arrived.type \in types
  BY DEF Arrives
<1>2. IsSequence(wire) /\ \A f \in Range(wire) : GoodFrame(f)
  BY WireFaithfulMeans DEF TypeOK
<1>3. /\ Head(wire) \in Range(wire) /\ IsSequence(Tail(wire))
      /\ Range(wire) = {Head(wire)} \union Range(Tail(wire))
  BY <1>1, <1>2, SequenceSteps, Zenon
<1>4. Head(wire).type = Arrived.type
  BY ParseType DEF Arrived
<1>. QED BY <1>1, <1>2, <1>3, <1>4 DEF GoodFrame, Arrived

LEMMA PostSteps ==
  ASSUME TypeOK, WireFaithful, NEW m, Post(m), GoodRequest(JsEncode(m))
  PROVE  /\ IsSequence(inbox') /\ msgs' \in 0 .. MaxMsgs /\ open
         /\ \A f \in Range(inbox') : GoodRequest(f)
<1>1. /\ IsSequence(inbox) /\ msgs \in 0 .. MaxMsgs
      /\ \A f \in Range(inbox) : GoodRequest(f)
  BY WireFaithfulMeans DEF TypeOK
<1>2. msgs < MaxMsgs /\ msgs' = msgs + 1 /\ inbox' = Append(inbox, JsEncode(m)) /\ open
  BY DEF Post, CanPost
<1>3. IsSequence(inbox') /\ Range(inbox') = Range(inbox) \union {JsEncode(m)}
  BY <1>1, <1>2, SequenceSteps, Zenon
<1>4. msgs' \in 0 .. MaxMsgs
  BY <1>1, <1>2, Constants
<1>. QED BY <1>1, <1>2, <1>3, <1>4

(***************************************************************************)
(* Every step keeps the types.                                             *)
(***************************************************************************)

LEMMA SnapshotsAre ==
  /\ NoMsg \in Snapshots
  /\ \A s \in Sessions, a \in Nat \ {0}, b \in Nat :
       Message(Scrollback, s, Run(a, b)) \in Snapshots
<1>1. NoMsg \in Snapshots
  BY DEF NoMsg, Message, Snapshots
<1>2. ASSUME NEW s \in Sessions, NEW a \in Nat \ {0}, NEW b \in Nat
      PROVE  Message(Scrollback, s, Run(a, b)) \in Snapshots
  <2>1. Run(a, b) \in Seq(Nat)
    BY RunValue, Zenon
  <2>. QED BY <2>1 DEF Message, Snapshots
<1>. QED BY <1>1, <1>2

LEMMA ScrollbackIs ==
  ASSUME TypeOK, NEW s \in Sessions, CanSend(s)
  PROVE  /\ ScrollbackOf(s) \in Snapshots /\ Encodable(ScrollbackOf(s))
         /\ \E first \in 1 .. stored[s] :
              ScrollbackOf(s) = Message(Scrollback, s, Run(first, stored[s]))
<1>1. stored[s] \in Nat /\ stored[s] > 0 /\ Encodable(ScrollbackOf(s))
  BY DEF TypeOK, CanSend
<1>2. PICK first \in 1 .. stored[s] : Ring!Newest(stored[s]) = Run(first, stored[s])
  BY <1>1, NewestIsRun
<1>3. ScrollbackOf(s) = Message(Scrollback, s, Run(first, stored[s]))
  BY <1>2 DEF ScrollbackOf
<1>4. first \in Nat \ {0}
  BY <1>1
<1>5. ScrollbackOf(s) \in Snapshots
  BY <1>1, <1>3, <1>4, SnapshotsAre, Zenon
<1>. QED BY <1>1, <1>3, <1>5, Zenon

\* What is sent of a snapshot that is sound.
LEMMA SoundSteps ==
  ASSUME TypeOK, NEW m \in Snapshots, IsSound(m)
  PROVE  /\ m.id \in Sessions /\ GoodFrame(Encode(m)) /\ Encode(m).type = Scrollback
         /\ JsDecode(Encode(m)) = m
         /\ \E first, last \in 1 .. stored[m.id] :
              /\ first <= last /\ m.data[1] = first /\ Range(m.data) = first .. last
              /\ conn # "closed" => \A k \in last + 1 .. stored[m.id] : Covered(m.id, k)
<1>1. m.id \in Sessions /\ Encodable(m) /\ m.type = Scrollback /\ stored[m.id] \in Nat
  BY DEF IsSound, Snapshots, TypeOK
<1>2. PICK first, last \in 1 .. stored[m.id] :
        /\ first <= last /\ m.data = Run(first, last)
        /\ conn # "closed" => \A k \in last + 1 .. stored[m.id] : Covered(m.id, k)
  BY Zenon DEF IsSound
<1>3. m = Message(Scrollback, m.id, Run(first, last))
  BY <1>1, <1>2 DEF Message, Snapshots
<1>4. /\ GoodFrame(Encode(m)) /\ Encode(m).type = Scrollback /\ JsDecode(Encode(m)) = m
  <2>. DEFINE s == m.id
  <2>1. /\ s \in Sessions /\ stored[s] \in Nat /\ first \in 1 .. stored[s]
        /\ last \in 1 .. stored[s] /\ first <= last
        /\ Encodable(Message(Scrollback, s, Run(first, last)))
    BY <1>1, <1>2, <1>3, Zenon
  <2>. HIDE DEF s
  <2>2. LET f == Encode(Message(Scrollback, s, Run(first, last)))
        IN  /\ GoodFrame(f) /\ f.type = Scrollback
            /\ JsDecode(f) = Message(Scrollback, s, Run(first, last))
    BY <2>1, SayBytes, Zenon
  <2>3. m = Message(Scrollback, s, Run(first, last))
    BY <1>3 DEF s
  <2>. QED BY <2>2, <2>3, Zenon
<1>5. m.data[1] = first /\ Range(m.data) = first .. last
  <2>1. first \in Nat \ {0} /\ last \in Nat
    BY <1>1
  <2>. QED BY <1>2, <2>1, RunValue, Zenon
<1>. QED BY <1>1, <1>2, <1>4, <1>5, Zenon

LEMMA SendScrollbackTypes ==
  ASSUME TypeOK, NEW m \in Snapshots, IsSound(m), SendScrollback(m)
  PROVE  IsSequence(wire') /\ from' \in [Sessions -> Nat]
<1>1. PICK first, last \in 1 .. stored[m.id] : m.data[1] = first
  BY SoundSteps, Zenon
<1>2. m.id \in Sessions /\ m.data[1] \in Nat
  BY <1>1, SoundSteps DEF TypeOK
<1>3. IsSequence(wire')
  BY SendSteps, Zenon DEF SendScrollback, TypeOK
<1>4. from' \in [Sessions -> Nat]
  BY <1>2 DEF SendScrollback, TypeOK
<1>. QED BY <1>3, <1>4

LEMMA HostKeepsTypes ==
  ASSUME TypeOK, HandIsNewest, WireFaithful, SnapshotsSound,
         \/ \E s \in Sessions : ReadChunk(s) \/ SendOutput(s)
         \/ \E a \in Announcers : Announcer(a)
  PROVE  TypeOK'
<1>1. ASSUME NEW s \in Sessions, ReadChunk(s) PROVE TypeOK'
  <2>1. PICK n \in 1 .. MaxChunk :
          /\ stored' = [stored EXCEPT ![s] = @ + n]
          /\ reader' = [reader EXCEPT ![s] =
                          [at |-> "send", data |-> Run(stored[s] + 1, stored[s] + n)]]
    BY <1>1 DEF ReadChunk
  <2>2. stored[s] \in Nat /\ n \in Nat
    BY <2>1, Constants DEF TypeOK
  <2>3. stored[s] + 1 \in Nat \ {0} /\ stored[s] + n \in Nat
    BY <2>2
  <2>4. Run(stored[s] + 1, stored[s] + n) \in Seq(Nat)
    BY <2>3, RunValue, Zenon
  <2>5. [at |-> "send", data |-> Run(stored[s] + 1, stored[s] + n)] \in ReaderStates
    BY <2>4 DEF ReaderStates
  <2>. QED BY <1>1, <2>1, <2>3, <2>5 DEF TypeOK, ReadChunk, goVars, netVars, pageVars
<1>2. ASSUME NEW s \in Sessions, SendOutput(s) PROVE TypeOK'
  <2>1. IsSequence(wire')
    BY <1>2, SendSteps, Zenon DEF SendOutput, TypeOK
  <2>2. Resting \in ReaderStates
    BY DEF Resting, ReaderStates
  <2>3. reader' \in [Sessions -> ReaderStates]
    BY <1>2, <2>2 DEF TypeOK, SendOutput
  <2>. QED BY <1>2, <2>1, <2>3 DEF TypeOK, SendOutput, goVars, pageVars
<1>3. ASSUME NEW a \in Announcers, AnnounceList(a) PROVE TypeOK'
  <2>1. IsSequence(wire')
    BY <1>3, SendSteps DEF AnnounceList, TypeOK
  <2>2. /\ announcer[a] \in AnnouncerStates /\ Off \in AnnouncerStates
        /\ Tries \in Nat
    BY Constants, SnapshotsAre DEF TypeOK, Off, AnnouncerStates
  <2>. DEFINE next == [announcer[a] EXCEPT !.at = "next", !.todo = Sessions]
              again == [announcer[a] EXCEPT !.left = announcer[a].left - 1]
              v == IF SendOk THEN next ELSE IF announcer[a].left > 1 THEN again ELSE Off
  <2>3. next \in AnnouncerStates
    BY <2>2 DEF AnnouncerStates
  <2>4. announcer[a].left > 1 => again \in AnnouncerStates
    <3>1. announcer[a].left \in 0 .. Tries
      BY <2>2 DEF AnnouncerStates
    <3>2. announcer[a].left > 1 => announcer[a].left - 1 \in 0 .. Tries
      BY <2>2, <3>1
    <3>. QED BY <2>2, <3>2 DEF AnnouncerStates
  <2>5. v \in AnnouncerStates
    BY <2>2, <2>3, <2>4
  <2>6. announcer' = [announcer EXCEPT ![a] = v]
    BY <1>3, Zenon DEF AnnounceList
  <2>. HIDE DEF v
  <2>7. announcer' \in [Announcers -> AnnouncerStates]
    BY <2>5, <2>6 DEF TypeOK
  <2>. QED BY <1>3, <2>1, <2>7 DEF TypeOK, AnnounceList, sessVars, pageVars
<1>4. ASSUME NEW a \in Announcers, AnnounceSnapshot(a) PROVE TypeOK'
  <2>1. PICK s \in announcer[a].todo :
          announcer' = [announcer EXCEPT ![a] =
            IF CanSend(s)
            THEN [@ EXCEPT !.at = "send", !.todo = announcer[a].todo \ {s}, !.msg = ScrollbackOf(s)]
            ELSE [@ EXCEPT !.todo = announcer[a].todo \ {s}]]
    BY <1>4 DEF AnnounceSnapshot
  <2>2. s \in Sessions
    BY <2>1 DEF TypeOK, AnnouncerStates
  <2>3. CanSend(s) => ScrollbackOf(s) \in Snapshots
    BY <2>2, ScrollbackIs, Zenon
  <2>4. announcer[a] \in AnnouncerStates
    BY DEF TypeOK
  <2>5. /\ [announcer[a] EXCEPT !.todo = announcer[a].todo \ {s}] \in AnnouncerStates
        /\ CanSend(s) => [announcer[a] EXCEPT !.at = "send", !.todo = announcer[a].todo \ {s},
                            !.msg = ScrollbackOf(s)] \in AnnouncerStates
    BY <2>3, <2>4 DEF AnnouncerStates
  <2>. DEFINE v == IF CanSend(s)
                   THEN [announcer[a] EXCEPT !.at = "send", !.todo = announcer[a].todo \ {s},
                                             !.msg = ScrollbackOf(s)]
                   ELSE [announcer[a] EXCEPT !.todo = announcer[a].todo \ {s}]
  <2>6a. v \in AnnouncerStates /\ announcer' = [announcer EXCEPT ![a] = v]
    BY <2>1, <2>5, Zenon
  <2>. HIDE DEF v
  <2>6. announcer' \in [Announcers -> AnnouncerStates]
    BY <2>6a DEF TypeOK
  <2>. QED BY <1>4, <2>6 DEF TypeOK, AnnounceSnapshot, sessVars, netVars, pageVars
<1>5. ASSUME NEW a \in Announcers, AnnounceScrollback(a) PROVE TypeOK'
  <2>1. announcer[a] \in AnnouncerStates
    BY DEF TypeOK
  <2>2. announcer[a].msg \in Snapshots /\ IsSound(announcer[a].msg)
    BY <1>5, <2>1 DEF AnnounceScrollback, SnapshotsSound, AnnouncerStates
  <2>3. IsSequence(wire') /\ from' \in [Sessions -> Nat]
    BY <1>5, <2>2, SendScrollbackTypes, Zenon DEF AnnounceScrollback
  <2>4. [announcer[a] EXCEPT !.at = "next", !.msg = NoMsg] \in AnnouncerStates
    BY <2>1, SnapshotsAre DEF AnnouncerStates
  <2>5. announcer' \in [Announcers -> AnnouncerStates]
    BY <1>5, <2>4 DEF AnnounceScrollback, TypeOK
  <2>. QED BY <1>5, <2>3, <2>5 DEF TypeOK, AnnounceScrollback, sessVars, pageVars
<1>. QED BY <1>1, <1>2, <1>3, <1>4, <1>5, Zenon DEF Announcer

LEMMA HandlerKeepsTypes ==
  ASSUME TypeOK, WireFaithful, SnapshotsSound, Handler \/ Terminal
  PROVE  TypeOK'
<1>0. Idle \in HandlerStates /\ handler \in HandlerStates /\ Idle.at = "idle"
  BY SnapshotsAre DEF TypeOK, Idle, HandlerStates
<1>1. ASSUME TakeResize PROVE TypeOK'
  <2>1. IsSequence(inbox')
    BY <1>1, TakeSteps, Zenon DEF TakeResize
  <2>. QED BY <1>1, <2>1 DEF TypeOK, TakeResize, sessVars, goVars, pageVars
<1>2. ASSUME TakeInput PROVE TypeOK'
  <2>1. IsSequence(inbox') /\ Received.data \in Seq(Nat)
    BY <1>2, TakeSteps, Zenon DEF TakeInput
  <2>. DEFINE v == [Idle EXCEPT !.at = "write", !.sess = Received.id,
                                !.data = Received.data]
  <2>3. Received.id \in Sessions => v \in HandlerStates
    BY <1>0, <2>1 DEF HandlerStates
  <2>4. handler' \in HandlerStates
    BY <1>0, <1>2, <2>3 DEF TakeInput
  <2>. QED BY <1>2, <2>1, <2>4 DEF TypeOK, TakeInput, sessVars, pageVars
<1>3. ASSUME TakeSwitch PROVE TypeOK'
  <2>1. IsSequence(inbox')
    BY <1>3, TakeSteps, Zenon DEF TakeSwitch
  <2>. DEFINE s == Field(Received.data[1], "id", NoSession)
              v == [Idle EXCEPT !.at = "send", !.msg = ScrollbackOf(s)]
  <2>2. handler' = IF s \in Sessions /\ CanSend(s) THEN v ELSE handler
    BY <1>3 DEF TakeSwitch
  <2>. HIDE DEF s
  <2>3. ASSUME s \in Sessions, CanSend(s) PROVE v \in HandlerStates
    <3>1. ScrollbackOf(s) \in Snapshots
      BY <2>3, ScrollbackIs, Zenon
    <3>. QED BY <1>0, <3>1 DEF HandlerStates
  <2>. HIDE DEF v
  <2>4. handler' \in HandlerStates
    BY <1>0, <2>2, <2>3
  <2>. QED BY <1>3, <2>1, <2>4 DEF TypeOK, TakeSwitch, sessVars, pageVars
<1>4. ASSUME SendSwitched PROVE TypeOK'
  <2>1. handler.msg \in Snapshots /\ IsSound(handler.msg)
    BY <1>0, <1>4 DEF SendSwitched, SnapshotsSound, HandlerStates
  <2>2. IsSequence(wire') /\ from' \in [Sessions -> Nat]
    BY <1>4, <2>1, SendScrollbackTypes, Zenon DEF SendSwitched
  <2>3. handler' \in HandlerStates /\ handler'.at = "idle"
    BY <1>0, <1>4 DEF SendSwitched
  <2>. QED BY <1>4, <2>2, <2>3 DEF TypeOK, SendSwitched, sessVars, pageVars
<1>5. ASSUME TakeCreate PROVE TypeOK'
  <2>1. IsSequence(inbox') /\ IsSequence(wire')
    BY <1>5, TakeSteps, SendSteps, Zenon DEF TakeCreate, TypeOK
  <2>. QED BY <1>5, <2>1 DEF TypeOK, TakeCreate, sessVars, goVars, pageVars
<1>6. ASSUME WriteInput PROVE TypeOK'
  <2>1. PICK n \in 1 .. Len(handler.data) :
          /\ written' = [written EXCEPT ![handler.sess] = @ \o SubSeq(handler.data, 1, n)]
          /\ handler' = IF n = Len(handler.data) THEN Idle
                        ELSE [handler EXCEPT !.data = SubSeq(handler.data, n + 1,
                                                             Len(handler.data))]
    BY <1>6 DEF WriteInput
  <2>2. handler.data \in Seq(Nat)
    BY <1>0 DEF HandlerStates
  <2>3. /\ SubSeq(handler.data, 1, n) \in Seq(Nat)
        /\ SubSeq(handler.data, n + 1, Len(handler.data)) \in Seq(Nat)
    BY <2>2
  <2>4. handler' \in HandlerStates
    BY <1>0, <2>1, <2>3 DEF HandlerStates
  <2>4a. handler'.at = "write" => handler'.sess \in Sessions
    BY <1>0, <1>6, <2>1 DEF WriteInput, TypeOK, HandlerStates
  <2>5. written' \in [Sessions -> Seq(Nat)]
    <3>1. handler.sess \in Sessions
      BY <1>6 DEF WriteInput, TypeOK
    <3>. QED BY <2>1, <2>3, <3>1, SMTT(30) DEF TypeOK
  <2>. QED BY <1>6, <2>4, <2>4a, <2>5 DEF TypeOK, WriteInput, netVars, pageVars
<1>7. ASSUME WriteFails PROVE TypeOK'
  <2>1. handler.sess \in Sessions
    BY <1>7 DEF WriteFails, TypeOK
  <2>2. handler' \in HandlerStates /\ handler'.at = "idle"
    BY <1>0, <1>7 DEF WriteFails
  <2>. QED BY <1>7, <2>1, <2>2 DEF TypeOK, WriteFails, netVars, pageVars
<1>8. ASSUME TakeBad PROVE TypeOK'
  <2>1. IsSequence(inbox')
    BY <1>8, BadSteps, Zenon
  <2>. QED BY <1>8, <2>1 DEF TypeOK, TakeBad, sessVars, goVars, pageVars
<1>. QED BY <1>1, <1>2, <1>3, <1>4, <1>5, <1>6, <1>7, <1>8, Zenon DEF Handler, Terminal

LEMMA NetworkKeepsTypes ==
  ASSUME TypeOK, IceUp \/ ChannelOpens \/ IceDown \/ PeerClose
  PROVE  TypeOK'
<1>1. ASSUME IceUp PROVE TypeOK'
  <2>0. ups < MaxUps /\ ups' = ups + 1 /\ MaxUps \in Nat /\ ups \in 0 .. MaxUps /\ Tries \in Nat
    BY <1>1, Constants, Zenon DEF TypeOK, IceUp
  <2>1. ups + 1 \in Announcers /\ ups' \in 0 .. MaxUps
    BY <2>0 DEF Announcers
  <2>2. [Off EXCEPT !.at = "sleep", !.left = Tries] \in AnnouncerStates
    <3>1. Off \in AnnouncerStates
      BY <2>0, SnapshotsAre DEF Off, AnnouncerStates
    <3>2. [Off EXCEPT !.at = "sleep"] \in AnnouncerStates
      BY <3>1 DEF AnnouncerStates
    <3>3. Tries \in 0 .. Tries
      BY <2>0
    <3>. QED BY <3>2, <3>3 DEF AnnouncerStates
  <2>3. announcer' \in [Announcers -> AnnouncerStates]
    BY <1>1, <2>1, <2>2 DEF IceUp, TypeOK
  <2>. QED BY <1>1, <2>1, <2>3 DEF TypeOK, IceUp, sessVars, pageVars
<1>2. ASSUME ChannelOpens PROVE TypeOK'
  BY <1>2 DEF TypeOK, ChannelOpens, sessVars, goVars, pageVars
<1>3. ASSUME IceDown PROVE TypeOK'
  BY <1>3 DEF TypeOK, IceDown, sessVars, goVars, pageVars
<1>4. ASSUME PeerClose PROVE TypeOK'
  <2>1. IsSequence(<< >>)
    BY DEF IsSequence
  <2>. QED BY <1>4, <2>1 DEF TypeOK, PeerClose, sessVars, goVars, pageVars
<1>. QED BY <1>1, <1>2, <1>3, <1>4

LEMMA PageKeepsTypes ==
  ASSUME TypeOK, WireFaithful, Page
  PROVE  TypeOK'
<1>1. ASSUME ShowBytes PROVE TypeOK'
  <2>1. IsSequence(wire') /\ HostSays(Arrived) /\ Arrived.type \in {TermOutput, Scrollback}
    BY <1>1, ArriveSteps, Zenon DEF ShowBytes
  <2>2. Arrived.id \in Sessions /\ IsPiece(Arrived.id, Arrived.data)
    BY <2>1 DEF HostSays, TermOutput, Scrollback, SessionList, ErrorNote
  <2>3. PICK first, last \in 1 .. stored[Arrived.id] : Arrived.data = Run(first, last)
    BY <2>2, Zenon DEF IsPiece
  <2>4. first \in Nat \ {0} /\ last \in Nat
    BY <2>2 DEF TypeOK
  <2>5. Arrived.data \in Seq(Nat)
    <3>1. Run(first, last) \in Seq(Nat)
      BY <2>4, RunValue, Zenon
    <3>. QED BY <2>3, <3>1
  <2>6. screen' \in [Sessions -> Seq(Nat)]
    BY <1>1, <2>2, <2>5 DEF TypeOK, ShowBytes
  <2>. QED BY <1>1, <2>1, <2>2, <2>6 DEF TypeOK, ShowBytes, Shows, sessVars, goVars
<1>2. ASSUME ShowList PROVE TypeOK'
  <2>1. IsSequence(wire') /\ HostSays(Arrived) /\ Arrived.type = SessionList
    BY <1>2, ArriveSteps DEF ShowList
  <2>2. Arrived = Control(SessionList, Sessions)
    BY <2>1 DEF HostSays, TermOutput, Scrollback, SessionList, ErrorNote
  <2>3. Arrived.data[1] = Sessions
    BY <2>2 DEF Control, Message
  <2>4. tabs' \subseteq Sessions /\ terms' \subseteq Sessions /\ active' \in Sessions \union {NoSession}
    BY <1>2, <2>3 DEF TypeOK, ShowList, Shows
  <2>. QED BY <1>2, <2>1, <2>4 DEF TypeOK, ShowList, sessVars, goVars
<1>3. ASSUME ShowError PROVE TypeOK'
  <2>1. IsSequence(wire')
    BY <1>3, ArriveSteps, Zenon DEF ShowError
  <2>. QED BY <1>3, <2>1 DEF TypeOK, ShowError, sessVars, goVars
<1>. QED BY <1>1, <1>2, <1>3 DEF Page

\* The keys are Type's.
LEMMA TypeSteps ==
  ASSUME TypeOK, NEW n \in 1 .. MaxPaste, Type(n)
  PROVE  \E data \in Seq(Nat) \ {<< >>} :
           LET m == Message(TermInput, active, data)
           IN  /\ active \in Sessions
               /\ typed' = [typed EXCEPT ![active] = @ \o data]
               /\ \/ /\ Post(m)
                     /\ kept' = [kept EXCEPT ![active] = @ \o KeysOf(JsEncode(m), active)]
                  \/ /\ CanPost /\ msgs' = msgs + 1 /\ ~Fits(JsEncode(m))
                     /\ UNCHANGED <<inbox, kept>>
<1>. DEFINE keys == [i \in 1 .. n |-> msgs * MaxPaste + i]
<1>1. msgs * MaxPaste \in Nat /\ n \in Nat \ {0}
  BY Constants, SMTT(30) DEF TypeOK
<1>2. \A i \in 1 .. n : msgs * MaxPaste + i \in Nat
  BY <1>1
<1>3. keys \in Seq(Nat) /\ keys # << >>
  BY <1>1, <1>2
<1>4. active \in Sessions
  BY DEF Type, TypeOK
<1>. QED BY <1>3, <1>4, Zenon DEF Type

\* What the person makes the page post is what the host may expect.
LEMMA PersonPosts ==
  ASSUME TypeOK, WireFaithful, Person
  PROVE  /\ IsSequence(inbox') /\ msgs' \in 0 .. MaxMsgs /\ open
         /\ \A f \in Range(inbox') : GoodRequest(f)
<1>1. ASSUME NEW n \in 1 .. MaxPaste, Type(n)
      PROVE  \/ \E m : Post(m) /\ GoodRequest(JsEncode(m))
             \/ CanPost /\ msgs' = msgs + 1 /\ UNCHANGED inbox
  <2>1. PICK data \in Seq(Nat) \ {<< >>} :
          LET m == Message(TermInput, active, data)
          IN  /\ active \in Sessions
              /\ \/ Post(m)
                 \/ CanPost /\ msgs' = msgs + 1 /\ UNCHANGED inbox
    BY <1>1, TypeSteps, Zenon
  <2>2. GoodRequest(JsEncode(Message(TermInput, active, data)))
    BY <2>1, AskInput, Zenon
  <2>. QED BY <2>1, <2>2, Zenon
<1>2. ASSUME NEW s \in Sessions, SwitchSession(s)
      PROVE  \E m : Post(m) /\ GoodRequest(JsEncode(m))
  <2>1. PageSays(Control(SessionSwitch, [id |-> s]))
    BY Zenon DEF PageSays, Control, Message
  <2>. QED BY <1>2, <2>1, AskControl, Zenon DEF SwitchSession
<1>3. ASSUME Resize PROVE \E m : Post(m) /\ GoodRequest(JsEncode(m))
  <2>1. PageSays(Control(TermResize, [rows |-> 24, cols |-> 80]))
    BY Zenon DEF PageSays, Control, Message
  <2>. QED BY <1>3, <2>1, AskControl, Zenon DEF Resize
<1>4. ASSUME NewSession PROVE \E m : Post(m) /\ GoodRequest(JsEncode(m))
  <2>1. PageSays(Control(SessionCreate, [command |-> "bash", args |-> << >>]))
    BY Zenon DEF PageSays, Control, Message
  <2>. QED BY <1>4, <2>1, AskControl, Zenon DEF NewSession
<1>5. ASSUME CanPost, msgs' = msgs + 1, UNCHANGED inbox
      PROVE  /\ IsSequence(inbox') /\ msgs' \in 0 .. MaxMsgs /\ open
             /\ \A f \in Range(inbox') : GoodRequest(f)
  <2>1. msgs' \in 0 .. MaxMsgs /\ open
    BY <1>5, Constants DEF CanPost, TypeOK
  <2>2. \A f \in Range(inbox) : GoodRequest(f)
    BY WireFaithfulMeans
  <2>. QED BY <1>5, <2>1, <2>2 DEF TypeOK
<1>. QED BY <1>1, <1>2, <1>3, <1>4, <1>5, PostSteps, Zenon DEF Person

LEMMA PersonKeepsTypes ==
  ASSUME TypeOK, WireFaithful, Person
  PROVE  TypeOK'
<1>0. IsSequence(inbox') /\ msgs' \in 0 .. MaxMsgs
  BY PersonPosts, Zenon
<1>1. ASSUME NEW n \in 1 .. MaxPaste, Type(n) PROVE TypeOK'
  <2>1. PICK data \in Seq(Nat) \ {<< >>} :
          LET f == JsEncode(Message(TermInput, active, data))
          IN  /\ active \in Sessions
              /\ typed' = [typed EXCEPT ![active] = @ \o data]
              /\ \/ kept' = [kept EXCEPT ![active] = @ \o KeysOf(f, active)]
                 \/ kept' = kept
    BY <1>1, TypeSteps, Zenon
  <2>. DEFINE f == JsEncode(Message(TermInput, active, data))
  <2>2. PICK k \in 0 .. Len(data) : KeysOf(f, active) = SubSeq(data, 1, k)
    BY <2>1, AskInput, Zenon
  <2>3. KeysOf(f, active) \in Seq(Nat)
    BY <2>2
  <2>. HIDE DEF f
  <2>4. typed' \in [Sessions -> Seq(Nat)]
    BY <2>1 DEF TypeOK
  <2>5. CASE kept' = kept
    BY <1>0, <1>1, <2>4, <2>5 DEF TypeOK, Type, sessVars, goVars
  <2>6. CASE kept' = [kept EXCEPT ![active] = @ \o KeysOf(f, active)]
    <3>1. kept' \in [Sessions -> Seq(Nat)]
      BY <2>1, <2>3, <2>6 DEF TypeOK
    <3>. QED BY <1>0, <1>1, <2>4, <3>1 DEF TypeOK, Type, sessVars, goVars
  <2>. QED BY <2>1, <2>5, <2>6 DEF f
<1>2. ASSUME NEW s \in Sessions, SwitchSession(s) PROVE TypeOK'
  BY <1>0, <1>2 DEF TypeOK, SwitchSession, sessVars, goVars
<1>3. ASSUME Resize PROVE TypeOK'
  BY <1>0, <1>3 DEF TypeOK, Resize, sessVars, goVars
<1>4. ASSUME NewSession PROVE TypeOK'
  BY <1>0, <1>4 DEF TypeOK, NewSession, sessVars, goVars
<1>. QED BY <1>1, <1>2, <1>3, <1>4, Zenon DEF Person

LEMMA TypesKept ==
  ASSUME TypeOK, HandIsNewest, WireFaithful, SnapshotsSound, [Next]_vars
  PROVE  TypeOK'
<1>1. CASE UNCHANGED vars
  BY <1>1 DEF TypeOK, vars, sessVars, goVars, netVars, pageVars
<1>2. CASE Next
  BY <1>2, HostKeepsTypes, HandlerKeepsTypes, NetworkKeepsTypes, PageKeepsTypes,
     PersonKeepsTypes, Zenon DEF Next
<1>. QED BY <1>1, <1>2

(***************************************************************************)
(* What a step does to the output and its way to the screen.               *)
(***************************************************************************)

Quiet == /\ UNCHANGED <<stored, reader, screen, wire>>
         /\ conn' = "closed" <=> conn = "closed"
         /\ open => open'

Adds(f) == /\ UNCHANGED <<stored, reader, screen, conn, open>>
           /\ wire' = IF SendOk THEN Append(wire, f) ELSE wire
           /\ GoodFrame(f) /\ f.type # TermOutput

Removes == /\ UNCHANGED <<stored, reader, conn, open>>
           /\ wire # << >> /\ wire' = Tail(wire)
           /\ \/ Head(wire).type \notin {TermOutput, Scrollback} /\ UNCHANGED screen
              \/ /\ JsDecode(Head(wire)).id \in Sessions
                 /\ JsDecode(Head(wire)).data \in Seq(Nat)
                 /\ screen' = [screen EXCEPT ![JsDecode(Head(wire)).id] =
                                 @ \o JsDecode(Head(wire)).data]

LEMMA PageRemoves ==
  ASSUME TypeOK, WireFaithful, Page
  PROVE  Removes
<1>1. ASSUME ShowBytes PROVE Removes
  <2>1. /\ wire # << >> /\ wire' = Tail(wire) /\ HostSays(Arrived)
        /\ Arrived.type \in {TermOutput, Scrollback}
    BY <1>1, ArriveSteps, Zenon DEF ShowBytes
  <2>2. Arrived.id \in Sessions /\ IsPiece(Arrived.id, Arrived.data)
    BY <2>1 DEF HostSays, TermOutput, Scrollback, SessionList, ErrorNote
  <2>3. PICK first, last \in 1 .. stored[Arrived.id] : Arrived.data = Run(first, last)
    BY <2>2, Zenon DEF IsPiece
  <2>4. first \in Nat \ {0} /\ last \in Nat
    BY <2>2 DEF TypeOK
  <2>5. Run(first, last) \in Seq(Nat)
    BY <2>4, RunValue, Zenon
  <2>. QED BY <1>1, <2>1, <2>2, <2>3, <2>5 DEF ShowBytes, Arrived, Removes, sessVars
<1>2. ASSUME ShowList PROVE Removes
  <2>1. wire # << >> /\ wire' = Tail(wire) /\ Head(wire).type = SessionList
    BY <1>2, ArriveSteps DEF ShowList
  <2>2. UNCHANGED <<stored, reader, conn, open, screen>>
    BY <1>2 DEF ShowList, sessVars
  <2>3. Head(wire).type \notin {TermOutput, Scrollback}
    BY <2>1 DEF TermOutput, Scrollback, SessionList
  <2>. QED BY <2>1, <2>2, <2>3 DEF Removes
<1>3. ASSUME ShowError PROVE Removes
  <2>1. wire # << >> /\ wire' = Tail(wire) /\ Head(wire).type = ErrorNote
    BY <1>3, ArriveSteps DEF ShowError
  <2>2. UNCHANGED <<stored, reader, conn, open, screen>>
    BY <1>3 DEF ShowError, sessVars
  <2>3. Head(wire).type \notin {TermOutput, Scrollback}
    BY <2>1 DEF TermOutput, Scrollback, ErrorNote
  <2>. QED BY <2>1, <2>2, <2>3 DEF Removes
<1>. QED BY <1>1, <1>2, <1>3 DEF Page

LEMMA ScrollbackAdds ==
  ASSUME TypeOK, NEW m \in Snapshots, IsSound(m), SendScrollback(m),
         UNCHANGED <<stored, reader, screen, conn, open>>
  PROVE  Adds(Encode(m))
<1>1. GoodFrame(Encode(m)) /\ Encode(m).type = Scrollback
  BY SoundSteps, Zenon
<1>. QED BY <1>1 DEF Adds, SendScrollback, Send, TermOutput, Scrollback

LEMMA Kinds ==
  ASSUME TypeOK, WireFaithful, SnapshotsSound, Next
  PROVE  \/ Quiet \/ \E f : Adds(f)
         \/ \E s \in Sessions : ReadChunk(s) \/ SendOutput(s)
         \/ Removes \/ PeerClose
<1>1. ASSUME NEW a \in Announcers, AnnounceList(a) PROVE \E f : Adds(f)
  <2>. DEFINE f == Encode(Control(SessionList, Sessions))
  <2>1. GoodFrame(f) /\ f.type = SessionList
    BY SayControl, SayList
  <2>. HIDE DEF f
  <2>2. wire' = IF SendOk THEN Append(wire, f) ELSE wire
    BY <1>1 DEF AnnounceList, Send, f
  <2>. QED BY <1>1, <2>1, <2>2 DEF AnnounceList, Adds, sessVars, pageVars, TermOutput, SessionList
<1>2. ASSUME NEW a \in Announcers, AnnounceSnapshot(a) PROVE Quiet
  BY <1>2 DEF AnnounceSnapshot, Quiet, sessVars, netVars, pageVars
<1>3. ASSUME NEW a \in Announcers, AnnounceScrollback(a) PROVE \E f : Adds(f)
  <2>1. announcer[a].msg \in Snapshots /\ IsSound(announcer[a].msg)
    BY <1>3 DEF AnnounceScrollback, SnapshotsSound, TypeOK, AnnouncerStates
  <2>2. UNCHANGED <<stored, reader, screen, conn, open>>
    BY <1>3 DEF AnnounceScrollback, sessVars, pageVars
  <2>. QED BY <1>3, <2>1, <2>2, ScrollbackAdds, Zenon DEF AnnounceScrollback
<1>4. ASSUME SendSwitched PROVE \E f : Adds(f)
  <2>1. handler.msg \in Snapshots /\ IsSound(handler.msg)
    BY <1>4 DEF SendSwitched, SnapshotsSound, TypeOK, HandlerStates
  <2>2. UNCHANGED <<stored, reader, screen, conn, open>>
    BY <1>4 DEF SendSwitched, sessVars, pageVars
  <2>. QED BY <1>4, <2>1, <2>2, ScrollbackAdds, Zenon DEF SendSwitched
<1>5. ASSUME TakeCreate PROVE \E f : Adds(f)
  <2>. DEFINE f == Encode(Control(ErrorNote, [code |-> "SESSION_CREATE_FAILED"]))
  <2>1. GoodFrame(f) /\ f.type = ErrorNote
    BY SayControl, SayError
  <2>. HIDE DEF f
  <2>2. wire' = IF SendOk THEN Append(wire, f) ELSE wire
    BY <1>5 DEF TakeCreate, Send, f
  <2>3. UNCHANGED <<stored, reader, screen, conn, open>>
    BY <1>5 DEF TakeCreate, sessVars, pageVars
  <2>4. f.type # TermOutput
    BY <2>1 DEF TermOutput, ErrorNote
  <2>. QED BY <2>1, <2>2, <2>3, <2>4 DEF Adds
<1>6. ASSUME TakeBad \/ TakeResize \/ TakeInput \/ TakeSwitch PROVE Quiet
  BY <1>6 DEF TakeBad, TakeResize, TakeInput, TakeSwitch, Quiet, sessVars, pageVars
<1>7. ASSUME WriteInput \/ WriteFails PROVE Quiet
  BY <1>7 DEF WriteInput, WriteFails, Quiet, netVars, pageVars
<1>8. ASSUME IceUp \/ ChannelOpens \/ IceDown PROVE Quiet
  BY <1>8 DEF IceUp, ChannelOpens, IceDown, Quiet, sessVars, pageVars
<1>9. ASSUME Person PROVE Quiet
  <2>1. UNCHANGED <<stored, reader, screen, wire, conn, open>>
    <3>1. ASSUME NEW n \in 1 .. MaxPaste, Type(n)
          PROVE  UNCHANGED <<stored, reader, screen, wire, conn, open>>
      BY <3>1 DEF Type, sessVars
    <3>2. ASSUME NEW s \in Sessions, SwitchSession(s)
          PROVE  UNCHANGED <<stored, reader, screen, wire, conn, open>>
      BY <3>2 DEF SwitchSession, sessVars
    <3>3. ASSUME Resize \/ NewSession
          PROVE  UNCHANGED <<stored, reader, screen, wire, conn, open>>
      BY <3>3 DEF Resize, NewSession, sessVars
    <3>. QED BY <1>9, <3>1, <3>2, <3>3, Zenon DEF Person
  <2>. QED BY <2>1 DEF Quiet
<1>. QED BY <1>1, <1>2, <1>3, <1>4, <1>5, <1>6, <1>7, <1>8, <1>9, PageRemoves, Zenon
        DEF Next, Announcer, Handler, Terminal

LEMMA ReadChunkIs ==
  ASSUME TypeOK, HandIsNewest, NEW s \in Sessions, ReadChunk(s)
  PROVE  \E n \in 1 .. MaxChunk :
           /\ n \in Nat \ {0} /\ stored[s] \in Nat
           /\ stored' = [stored EXCEPT ![s] = @ + n]
           /\ reader' = [reader EXCEPT ![s] =
                           [at |-> "send", data |-> Run(stored[s] + 1, stored[s] + n)]]
           /\ Range(reader[s].data) = {}
           /\ Range(Run(stored[s] + 1, stored[s] + n)) = stored[s] + 1 .. stored[s] + n
           /\ UNCHANGED <<screen, wire, conn, open, inbox, handler, announcer, from>>
<1>1. PICK n \in 1 .. MaxChunk :
        /\ stored' = [stored EXCEPT ![s] = @ + n]
        /\ reader' = [reader EXCEPT ![s] =
                        [at |-> "send", data |-> Run(stored[s] + 1, stored[s] + n)]]
  BY DEF ReadChunk
<1>2. n \in Nat \ {0} /\ stored[s] \in Nat
  BY <1>1, Constants DEF TypeOK
<1>3. stored[s] + 1 \in Nat \ {0} /\ stored[s] + n \in Nat
  BY <1>2
<1>4. Range(Run(stored[s] + 1, stored[s] + n)) = stored[s] + 1 .. stored[s] + n
  BY <1>3, RunValue, Zenon
<1>5. Range(reader[s].data) = {}
  BY DEF ReadChunk, HandIsNewest, Range
<1>6. UNCHANGED <<screen, wire, conn, open, inbox, handler, announcer, from>>
  BY DEF ReadChunk, goVars, netVars, pageVars
<1>. QED BY <1>1, <1>2, <1>4, <1>5, <1>6

LEMMA SendOutputIs ==
  ASSUME TypeOK, HandIsNewest, NEW s \in Sessions, SendOutput(s)
  PROVE  \E f : /\ GoodFrame(f) /\ Live(f, s) /\ JsDecode(f).data = reader[s].data
                /\ LastOf(f) = stored[s]
                /\ wire' = IF SendOk THEN Append(wire, f) ELSE wire
                /\ reader' = [reader EXCEPT ![s] = Resting]
                /\ UNCHANGED <<stored, screen, conn, open, inbox, handler, announcer, from>>
<1>1. /\ reader[s].at = "send" /\ reader' = [reader EXCEPT ![s] = Resting]
      /\ UNCHANGED <<stored, screen, conn, open, inbox, handler, announcer, from>>
  BY DEF SendOutput, goVars, pageVars
<1>2. PICK a \in 1 .. stored[s] :
        reader[s].data = Run(a, stored[s]) /\ stored[s] - a < MaxChunk
  BY <1>1, Zenon DEF HandIsNewest
<1>3. /\ stored[s] \in Nat /\ a \in Nat \ {0} /\ a <= stored[s]
      /\ stored[s] \in 1 .. stored[s]
  BY <1>2 DEF TypeOK
<1>. DEFINE m == Message(TermOutput, s, Run(a, stored[s]))
            f == Encode(m)
<1>4. Encodable(m)
  BY <1>2, <1>3, ChunkEncodes, Zenon
<1>5. GoodFrame(f) /\ f.type = TermOutput /\ JsDecode(f) = m
  BY <1>3, <1>4, SayBytes, Zenon
<1>6. wire' = IF SendOk THEN Append(wire, f) ELSE wire
  BY <1>2, <1>4 DEF SendOutput, Send
<1>7. m.id = s /\ m.data = reader[s].data
  BY <1>2 DEF Message
<1>8. reader[s].data[Len(reader[s].data)] = stored[s]
  BY <1>2, <1>3, RunValue, Zenon
<1>. HIDE DEF m, f
<1>9. JsDecode(f).id = s /\ JsDecode(f).data = reader[s].data
  BY <1>5, <1>7
<1>10. Live(f, s)
  BY <1>5, <1>9, Zenon DEF Live, GoodFrame
<1>11. LastOf(f) = stored[s]
  BY <1>8, <1>9 DEF LastOf
<1>. QED BY <1>1, <1>5, <1>6, <1>9, <1>10, <1>11, Zenon

LEMMA StoredGrows ==
  ASSUME TypeOK, HandIsNewest, WireFaithful, SnapshotsSound, [Next]_vars
  PROVE  \A s \in Sessions : stored[s] \in Nat /\ stored'[s] \in Nat /\ stored[s] <= stored'[s]
<1>0. \A s \in Sessions : stored[s] \in Nat
  BY DEF TypeOK
<1>1. ASSUME UNCHANGED stored
      PROVE  \A s \in Sessions : stored[s] \in Nat /\ stored'[s] \in Nat /\ stored[s] <= stored'[s]
  BY <1>0, <1>1
<1>2. ASSUME NEW t \in Sessions, ReadChunk(t)
      PROVE  \A s \in Sessions : stored[s] \in Nat /\ stored'[s] \in Nat /\ stored[s] <= stored'[s]
  <2>1. PICK n \in Nat : stored' = [stored EXCEPT ![t] = @ + n]
    BY <1>2, ReadChunkIs, Zenon
  <2>. QED BY <1>0, <2>1 DEF TypeOK
<1>3. ASSUME NEW t \in Sessions, SendOutput(t) PROVE UNCHANGED stored
  BY <1>3 DEF SendOutput
<1>4. ASSUME Quiet \/ (\E f : Adds(f)) \/ Removes \/ PeerClose PROVE UNCHANGED stored
  BY <1>4, Zenon DEF Quiet, Adds, Removes, PeerClose, sessVars
<1>5. CASE UNCHANGED vars
  BY <1>1, <1>5 DEF vars, sessVars
<1>6. CASE Next
  BY <1>1, <1>2, <1>3, <1>4, <1>6, Kinds, Zenon
<1>. QED BY <1>5, <1>6

(***************************************************************************)
(* The parts of the invariant that a step keeps on its own.                *)
(***************************************************************************)

LEMMA HandKept ==
  ASSUME TypeOK, HandIsNewest, WireFaithful, SnapshotsSound, [Next]_vars
  PROVE  HandIsNewest'
<1>1. ASSUME UNCHANGED <<stored, reader>> PROVE HandIsNewest'
  BY <1>1 DEF HandIsNewest
<1>2. ASSUME NEW t \in Sessions, ReadChunk(t) PROVE HandIsNewest'
  <2>1. PICK n \in 1 .. MaxChunk :
           /\ n \in Nat \ {0} /\ stored[t] \in Nat
           /\ stored' = [stored EXCEPT ![t] = @ + n]
           /\ reader' = [reader EXCEPT ![t] =
                           [at |-> "send", data |-> Run(stored[t] + 1, stored[t] + n)]]
    BY <1>2, ReadChunkIs, Zenon
  <2>2. /\ stored'[t] = stored[t] + n /\ reader'[t].at = "send"
        /\ reader'[t].data = Run(stored[t] + 1, stored'[t])
    BY <2>1 DEF TypeOK
  <2>3. stored[t] + 1 \in 1 .. stored'[t] /\ stored'[t] - (stored[t] + 1) < MaxChunk
    BY <2>1, <2>2, Constants
  <2>4. ASSUME NEW s \in Sessions, s # t
        PROVE  stored'[s] = stored[s] /\ reader'[s] = reader[s]
    BY <2>1, <2>4 DEF TypeOK
  <2>5. ASSUME NEW s \in Sessions
        PROVE  /\ reader'[s].at = "rest" => reader'[s].data = << >>
               /\ reader'[s].at = "send" =>
                    \E first \in 1 .. stored'[s] : /\ reader'[s].data = Run(first, stored'[s])
                                                   /\ stored'[s] - first < MaxChunk
    <3>1. CASE s = t
      BY <2>2, <2>3, <3>1, Zenon
    <3>2. CASE s # t
      BY <2>4, <3>2, Zenon DEF HandIsNewest
    <3>. QED BY <3>1, <3>2
  <2>. QED BY <2>5, Zenon DEF HandIsNewest
<1>3. ASSUME NEW t \in Sessions, SendOutput(t) PROVE HandIsNewest'
  <2>1. stored' = stored /\ reader' = [reader EXCEPT ![t] = Resting]
    BY <1>3 DEF SendOutput
  <2>2. reader'[t].at = "rest" /\ reader'[t].data = << >>
    BY <2>1 DEF TypeOK, Resting
  <2>3. ASSUME NEW s \in Sessions, s # t PROVE reader'[s] = reader[s]
    BY <2>1, <2>3 DEF TypeOK
  <2>. QED BY <2>1, <2>2, <2>3 DEF HandIsNewest
<1>4. ASSUME Quiet \/ (\E f : Adds(f)) \/ Removes \/ PeerClose PROVE UNCHANGED <<stored, reader>>
  BY <1>4, Zenon DEF Quiet, Adds, Removes, PeerClose, sessVars
<1>5. CASE UNCHANGED vars
  BY <1>1, <1>5 DEF vars, sessVars
<1>6. CASE Next
  BY <1>1, <1>2, <1>3, <1>4, <1>6, Kinds, Zenon
<1>. QED BY <1>5, <1>6

LEMMA WireKept ==
  ASSUME TypeOK, HandIsNewest, WireFaithful, SnapshotsSound, [Next]_vars
  PROVE  WireFaithful'
<1>0. /\ IsSequence(wire) /\ \A f \in Range(wire) : GoodFrame(f)
      /\ \A f \in Range(inbox) : GoodRequest(f)
  BY WireFaithfulMeans DEF TypeOK
<1>1. ASSUME NEW f, GoodFrame(f) PROVE GoodFrame(f)'
  <2>. DEFINE m == JsDecode(f)
  <2>1. ASSUME m.id \in Sessions, IsPiece(m.id, m.data) PROVE IsPiece(m.id, m.data)'
    <3>1. PICK first, last \in 1 .. stored[m.id] : first <= last /\ m.data = Run(first, last)
      BY <2>1, Zenon DEF IsPiece
    <3>2. first \in 1 .. stored'[m.id] /\ last \in 1 .. stored'[m.id]
      BY <2>1, StoredGrows
    <3>. QED BY <3>1, <3>2, Zenon DEF IsPiece
  <2>2. HostSays(m)
    BY <1>1 DEF GoodFrame
  <2>. HIDE DEF m
  <2>3. HostSays(m)'
    BY <2>1, <2>2, Zenon DEF HostSays
  <2>. QED BY <1>1, <2>3 DEF GoodFrame, m
<1>2. ASSUME NEW f \in Range(wire') PROVE f \in Range(wire) \/ GoodFrame(f)
  <2>1. ASSUME NEW g, GoodFrame(g), wire' = IF SendOk THEN Append(wire, g) ELSE wire
        PROVE  f \in Range(wire) \/ GoodFrame(f)
    <3>1. CASE SendOk
      <4>1. Range(wire') = Range(wire) \union {g}
        BY <1>0, <2>1, <3>1, SequenceSteps
      <4>. QED BY <2>1, <4>1
    <3>2. CASE ~SendOk
      BY <2>1, <3>2
    <3>. QED BY <3>1, <3>2
  <2>2. ASSUME \E g : Adds(g) PROVE f \in Range(wire) \/ GoodFrame(f)
    BY <2>1, <2>2, Zenon DEF Adds
  <2>3. ASSUME NEW s \in Sessions, SendOutput(s) PROVE f \in Range(wire) \/ GoodFrame(f)
    <3>1. PICK g : GoodFrame(g) /\ wire' = IF SendOk THEN Append(wire, g) ELSE wire
      BY <2>3, SendOutputIs, Zenon
    <3>. QED BY <2>1, <3>1, Zenon
  <2>4. ASSUME Removes PROVE f \in Range(wire)
    <3>1. wire # << >> /\ wire' = Tail(wire)
      BY <2>4 DEF Removes
    <3>2. Range(wire) = {Head(wire)} \union Range(wire')
      BY <1>0, <3>1, SequenceSteps
    <3>. QED BY <3>2
  <2>5. ASSUME PeerClose PROVE f \in Range(wire)
    BY <2>5 DEF PeerClose, Range
  <2>6. ASSUME UNCHANGED wire PROVE f \in Range(wire)
    BY <2>6
  <2>7. ASSUME NEW s \in Sessions, ReadChunk(s) PROVE UNCHANGED wire
    BY <2>7 DEF ReadChunk, netVars
  <2>8. CASE Next
    BY <2>2, <2>3, <2>4, <2>5, <2>6, <2>7, <2>8, Kinds, Zenon DEF Quiet
  <2>9. CASE UNCHANGED vars
    BY <2>6, <2>9 DEF vars, netVars
  <2>. QED BY <2>8, <2>9
<1>3. ASSUME NEW f \in Range(inbox') PROVE GoodRequest(f)
  <2>1. ASSUME UNCHANGED inbox PROVE GoodRequest(f)
    BY <1>0, <2>1
  <2>2. ASSUME NEW type, Takes(type) PROVE GoodRequest(f)
    BY <1>0, <2>2, TakeSteps, Zenon
  <2>3. ASSUME Handler \/ Terminal PROVE GoodRequest(f)
    <3>1. ASSUME SendSwitched \/ Terminal PROVE UNCHANGED inbox
      BY <3>1 DEF SendSwitched, Terminal, WriteInput, WriteFails, netVars
    <3>2. ASSUME TakeBad PROVE GoodRequest(f)
      BY <1>0, <3>2, BadSteps, Zenon
    <3>. QED BY <2>1, <2>2, <2>3, <3>1, <3>2, Zenon
             DEF Handler, TakeResize, TakeInput, TakeSwitch, TakeCreate
  <2>4. ASSUME Person PROVE GoodRequest(f)
    BY <2>4, PersonPosts, Zenon
  <2>5. ASSUME PeerClose PROVE GoodRequest(f)
    BY <2>5 DEF PeerClose, Range
  <2>6. ASSUME \E s \in Sessions : ReadChunk(s) \/ SendOutput(s) PROVE UNCHANGED inbox
    BY <2>6 DEF ReadChunk, SendOutput, netVars
  <2>7. ASSUME \E a \in Announcers : Announcer(a) PROVE UNCHANGED inbox
    BY <2>7 DEF Announcer, AnnounceList, AnnounceSnapshot, AnnounceScrollback, netVars
  <2>8. ASSUME IceUp \/ ChannelOpens \/ IceDown PROVE UNCHANGED inbox
    BY <2>8 DEF IceUp, ChannelOpens, IceDown
  <2>9. ASSUME Page PROVE UNCHANGED inbox
    BY <2>9 DEF Page, ShowBytes, ShowList, ShowError
  <2>10. CASE Next
    BY <2>1, <2>3, <2>4, <2>5, <2>6, <2>7, <2>8, <2>9, <2>10, Zenon DEF Next
  <2>11. CASE UNCHANGED vars
    BY <2>1, <2>11 DEF vars, netVars
  <2>. QED BY <2>10, <2>11
<1>4. \A f \in Range(wire') : GoodFrame(f)'
  BY <1>0, <1>1, <1>2, Zenon
<1>5. \A f \in Range(inbox') : GoodRequest(f)'
  BY <1>3, Zenon DEF GoodRequest
<1>. QED BY <1>4, <1>5, Zenon DEF WireFaithful, GoodFrame, GoodRequest

LEMMA OpenKept ==
  ASSUME TypeOK, HandIsNewest, WireFaithful, SnapshotsSound, OpenBefore, [Next]_vars
  PROVE  OpenBefore'
<1>1. open => open'
  BY DEF Next, ReadChunk, SendOutput, Announcer, AnnounceList, AnnounceSnapshot,
         AnnounceScrollback, Handler, TakeBad, TakeResize, TakeInput, TakeSwitch, SendSwitched,
         TakeCreate, Terminal, WriteInput, WriteFails, IceUp, ChannelOpens, IceDown,
         PeerClose, Page, ShowBytes, ShowList, ShowError, Person, Type, SwitchSession,
         Resize, NewSession, netVars, vars
<1>2. ASSUME NEW a \in Announcers, announcer'[a].at \in {"next", "send"} PROVE open
  <2>0. announcer[a].at \in {"next", "send"} => open
    BY DEF OpenBefore
  <2>1. ASSUME NEW b \in Announcers, AnnounceList(b) PROVE open
    <3>1. CASE SendOk
      BY <3>1 DEF SendOk
    <3>2. CASE ~SendOk
      <4>1. announcer' = [announcer EXCEPT ![b] =
              IF announcer[b].left > 1 THEN [announcer[b] EXCEPT !.left = announcer[b].left - 1]
              ELSE Off]
        BY <2>1, <3>2 DEF AnnounceList
      <4>2. announcer'[b].at \in {"sleep", "off"}
        <5>1. announcer[b].at = "sleep" /\ announcer[b] \in AnnouncerStates
          BY <2>1 DEF AnnounceList, TypeOK
        <5>2. /\ [announcer[b] EXCEPT !.left = announcer[b].left - 1].at = "sleep"
              /\ Off.at = "off"
          BY <5>1 DEF AnnouncerStates, Off
        <5>. QED BY <4>1, <5>2 DEF TypeOK
      <4>3. a # b => announcer'[a] = announcer[a]
        BY <4>1 DEF TypeOK
      <4>. QED BY <1>2, <2>0, <4>2, <4>3
    <3>. QED BY <3>1, <3>2
  <2>2. ASSUME NEW b \in Announcers, AnnounceSnapshot(b) \/ AnnounceScrollback(b) PROVE open
    <3>1. announcer[b].at \in {"next", "send"}
      BY <2>2 DEF AnnounceSnapshot, AnnounceScrollback
    <3>. QED BY <3>1 DEF OpenBefore
  <2>3. ASSUME IceUp PROVE open
    <3>1. announcer' = [announcer EXCEPT ![ups + 1] =
                          [Off EXCEPT !.at = "sleep", !.left = Tries]]
      BY <2>3 DEF IceUp
    <3>2. [Off EXCEPT !.at = "sleep", !.left = Tries].at = "sleep"
      BY DEF Off
    <3>3. announcer'[a].at = "sleep" \/ announcer'[a] = announcer[a]
      BY <3>1, <3>2 DEF TypeOK
    <3>. QED BY <1>2, <2>0, <3>3
  <2>4. ASSUME UNCHANGED announcer PROVE open
    BY <1>2, <2>0, <2>4
  <2>5. ASSUME \/ \E s \in Sessions : ReadChunk(s) \/ SendOutput(s)
               \/ Handler \/ Terminal \/ ChannelOpens \/ IceDown \/ PeerClose
               \/ Page \/ Person \/ UNCHANGED vars
        PROVE  UNCHANGED announcer
    BY <2>5 DEF ReadChunk, SendOutput, Handler, TakeBad, TakeResize, TakeInput, TakeSwitch,
         SendSwitched, TakeCreate, Terminal, WriteInput, WriteFails, ChannelOpens, IceDown,
         PeerClose, Page, ShowBytes, ShowList, ShowError, Person, Type, SwitchSession,
         Resize, NewSession, goVars, vars
  <2>. QED BY <2>1, <2>2, <2>3, <2>4, <2>5, Zenon DEF Next, Announcer
<1>3. ASSUME handler'.at # "idle" PROVE open
  <2>0. handler.at # "idle" => open
    BY DEF OpenBefore
  <2>1. ASSUME NEW type, Takes(type) PROVE open
    BY <2>1 DEF Takes, OpenBefore
  <2>2. ASSUME SendSwitched \/ Terminal \/ TakeBad PROVE open
    BY <2>2 DEF SendSwitched, Terminal, WriteInput, WriteFails, TakeBad, OpenBefore
  <2>3. ASSUME Handler PROVE open
    BY <2>1, <2>2, <2>3, Zenon DEF Handler, TakeResize, TakeInput, TakeSwitch, TakeCreate
  <2>4. ASSUME \/ \E s \in Sessions : ReadChunk(s) \/ SendOutput(s)
               \/ \E a \in Announcers : Announcer(a)
               \/ IceUp \/ ChannelOpens \/ IceDown \/ PeerClose
               \/ Page \/ Person \/ UNCHANGED vars
        PROVE  UNCHANGED handler
    BY <2>4 DEF ReadChunk, SendOutput, Announcer, AnnounceList, AnnounceSnapshot,
         AnnounceScrollback, IceUp, ChannelOpens, IceDown,
         PeerClose, Page, ShowBytes, ShowList, ShowError, Person, Type, SwitchSession,
         Resize, NewSession, goVars, vars
  <2>5. ASSUME UNCHANGED handler PROVE open
    BY <1>3, <2>0, <2>5
  <2>. QED BY <2>2, <2>3, <2>4, <2>5, Zenon DEF Next
<1>4. ASSUME inbox' # << >> PROVE open
  <2>0. inbox # << >> => open
    BY DEF OpenBefore
  <2>1. ASSUME NEW type, Takes(type) PROVE open
    BY <2>0, <2>1 DEF Takes
  <2>7. ASSUME TakeBad PROVE open
    BY <2>0, <2>7 DEF TakeBad
  <2>2. ASSUME SendSwitched \/ Terminal PROVE UNCHANGED inbox
    BY <2>2 DEF SendSwitched, Terminal, WriteInput, WriteFails, netVars
  <2>3. ASSUME Person PROVE open
    BY <2>3, PersonPosts, Zenon
  <2>4. ASSUME PeerClose PROVE open
    BY <1>4, <2>4 DEF PeerClose
  <2>5. ASSUME \/ \E s \in Sessions : ReadChunk(s) \/ SendOutput(s)
               \/ \E a \in Announcers : Announcer(a)
               \/ IceUp \/ ChannelOpens \/ IceDown \/ Page \/ UNCHANGED vars
        PROVE  UNCHANGED inbox
    BY <2>5 DEF ReadChunk, SendOutput, Announcer, AnnounceList, AnnounceSnapshot,
         AnnounceScrollback, IceUp, ChannelOpens, IceDown,
         Page, ShowBytes, ShowList, ShowError, netVars, vars
  <2>6. ASSUME UNCHANGED inbox PROVE open
    BY <1>4, <2>0, <2>6
  <2>. QED BY <2>1, <2>2, <2>3, <2>4, <2>5, <2>6, <2>7, Zenon
           DEF Next, Handler, TakeResize, TakeInput, TakeSwitch, TakeCreate
<1>5. ASSUME NEW s \in Sessions, from'[s] # 0 PROVE open
  <2>0. from[s] # 0 => open
    BY DEF OpenBefore
  <2>1. ASSUME NEW m, SendScrollback(m) PROVE open
    BY <1>5, <2>0, <2>1 DEF SendScrollback, SendOk
  <2>2. ASSUME UNCHANGED from PROVE open
    BY <1>5, <2>0, <2>2
  <2>3. ASSUME \/ \E t \in Sessions : ReadChunk(t) \/ SendOutput(t)
               \/ \E a \in Announcers : AnnounceList(a) \/ AnnounceSnapshot(a)
               \/ TakeBad \/ TakeResize \/ TakeInput \/ TakeSwitch \/ TakeCreate \/ Terminal
               \/ IceUp \/ ChannelOpens \/ IceDown \/ PeerClose
               \/ Page \/ Person \/ UNCHANGED vars
        PROVE  UNCHANGED from
    BY <2>3 DEF ReadChunk, SendOutput, AnnounceList, AnnounceSnapshot,
         TakeBad, TakeResize, TakeInput, TakeSwitch, TakeCreate, Terminal, WriteInput, WriteFails,
         IceUp, ChannelOpens, IceDown,
         PeerClose, Page, ShowBytes, ShowList, ShowError, Person, Type, SwitchSession,
         Resize, NewSession, goVars, vars
  <2>. QED BY <2>1, <2>2, <2>3, Zenon
           DEF Next, Announcer, Handler, AnnounceScrollback, SendSwitched
<1>6. ASSUME wire' # << >> PROVE open /\ conn' # "closed"
  <2>0. IsSequence(wire) /\ (wire # << >> => open /\ conn # "closed")
    BY DEF OpenBefore, TypeOK
  <2>1. ASSUME NEW g, wire' = IF SendOk THEN Append(wire, g) ELSE wire, UNCHANGED conn
        PROVE  open /\ conn' # "closed"
    BY <1>6, <2>0, <2>1 DEF SendOk
  <2>2. ASSUME \E g : Adds(g) PROVE open /\ conn' # "closed"
    BY <2>1, <2>2, Zenon DEF Adds
  <2>3. ASSUME NEW s \in Sessions, SendOutput(s) PROVE open /\ conn' # "closed"
    <3>1. PICK g : (wire' = IF SendOk THEN Append(wire, g) ELSE wire) /\ UNCHANGED conn
      BY <2>3, SendOutputIs, Zenon
    <3>. QED BY <2>1, <3>1, Zenon
  <2>4. ASSUME Removes PROVE open /\ conn' # "closed"
    BY <2>0, <2>4 DEF Removes
  <2>5. ASSUME PeerClose PROVE open /\ conn' # "closed"
    BY <1>6, <2>5 DEF PeerClose
  <2>6. ASSUME Quiet PROVE open /\ conn' # "closed"
    BY <1>6, <2>0, <2>6 DEF Quiet
  <2>7. ASSUME NEW s \in Sessions, ReadChunk(s) PROVE open /\ conn' # "closed"
    BY <1>6, <2>0, <2>7 DEF ReadChunk, netVars
  <2>8. CASE Next
    BY <2>2, <2>3, <2>4, <2>5, <2>6, <2>7, <2>8, Kinds, Zenon
  <2>9. CASE UNCHANGED vars
    BY <1>6, <2>0, <2>9 DEF vars, netVars
  <2>. QED BY <2>8, <2>9
<1>. QED BY <1>1, <1>2, <1>3, <1>4, <1>5, <1>6, Zenon DEF OpenBefore

(***************************************************************************)
(* Bytes that are covered stay covered while the connection lasts.         *)
(***************************************************************************)

LEMMA NotClosedBefore ==
  ASSUME TypeOK, HandIsNewest, WireFaithful, SnapshotsSound, [Next]_vars, conn' # "closed"
  PROVE  conn # "closed"
<1>1. ASSUME NEW s \in Sessions, ReadChunk(s) \/ SendOutput(s) PROVE conn # "closed"
  <2>1. CASE ReadChunk(s)
    BY <2>1 DEF ReadChunk, netVars
  <2>2. CASE SendOutput(s)
    BY <2>2 DEF SendOutput
  <2>. QED BY <1>1, <2>1, <2>2
<1>1a. ASSUME Quiet \/ (\E f : Adds(f)) \/ Removes \/ PeerClose PROVE conn # "closed"
  <2>1. ASSUME Quiet PROVE conn # "closed"
    BY <2>1 DEF Quiet
  <2>2. ASSUME NEW f, Adds(f) PROVE conn # "closed"
    BY <2>2 DEF Adds
  <2>3. ASSUME Removes PROVE conn # "closed"
    BY <2>3 DEF Removes
  <2>4. ASSUME PeerClose PROVE conn # "closed"
    BY <2>4 DEF PeerClose
  <2>. QED BY <1>1a, <2>1, <2>2, <2>3, <2>4
<1>2. CASE Next
  BY <1>1, <1>1a, <1>2, Kinds, Zenon
<1>3. CASE UNCHANGED vars
  BY <1>3 DEF vars, netVars
<1>. QED BY <1>2, <1>3

LEMMA CoveredStays ==
  ASSUME TypeOK, HandIsNewest, WireFaithful, SnapshotsSound, [Next]_vars,
         open, conn' # "closed", NEW s \in Sessions, NEW k, Covered(s, k)
  PROVE  Covered(s, k)'
<1>0. IsSequence(wire) /\ conn # "closed" /\ SendOk
  BY NotClosedBefore DEF TypeOK, SendOk
<1>1. CASE UNCHANGED <<reader, screen, wire>>
  BY <1>1 DEF Covered, OnScreen, InHand
<1>2. ASSUME NEW f, Adds(f) PROVE Covered(s, k)'
  <2>1. Range(wire') = Range(wire) \union {f} /\ UNCHANGED <<reader, screen>>
    BY <1>0, <1>2, SequenceSteps DEF Adds
  <2>. QED BY <2>1 DEF Covered, OnScreen, InHand
<1>3. ASSUME NEW t \in Sessions, ReadChunk(t) PROVE Covered(s, k)'
  <2>1. /\ Range(reader[t].data) = {} /\ UNCHANGED <<screen, wire>>
        /\ \E c : reader' = [reader EXCEPT ![t] = c]
    BY <1>3, ReadChunkIs, Zenon
  <2>2. InHand(s, k) => s # t
    BY <2>1 DEF InHand
  <2>3. s # t => reader'[s] = reader[s]
    BY <2>1 DEF TypeOK
  <2>. QED BY <2>1, <2>2, <2>3 DEF Covered, OnScreen, InHand
<1>4. ASSUME NEW t \in Sessions, SendOutput(t) PROVE Covered(s, k)'
  <2>1. PICK f : /\ Live(f, t) /\ JsDecode(f).data = reader[t].data
                 /\ wire' = IF SendOk THEN Append(wire, f) ELSE wire
                 /\ reader' = [reader EXCEPT ![t] = Resting] /\ UNCHANGED screen
    BY <1>4, SendOutputIs, Zenon
  <2>2. Range(wire') = Range(wire) \union {f}
    BY <1>0, <2>1, SequenceSteps
  <2>3. s # t => reader'[s] = reader[s]
    BY <2>1 DEF TypeOK
  <2>4. ASSUME s = t, InHand(s, k) PROVE Carries(f, s, k)
    BY <2>1, <2>4 DEF InHand, Live, Carries
  <2>. QED BY <2>1, <2>2, <2>3, <2>4 DEF Covered, OnScreen, InHand
<1>5. ASSUME Removes PROVE Covered(s, k)'
  <2>. DEFINE h == Head(wire)
  <2>1. /\ wire # << >> /\ wire' = Tail(wire) /\ UNCHANGED reader
        /\ \/ h.type \notin {TermOutput, Scrollback} /\ UNCHANGED screen
           \/ /\ JsDecode(h).id \in Sessions /\ JsDecode(h).data \in Seq(Nat)
              /\ screen' = [screen EXCEPT ![JsDecode(h).id] = @ \o JsDecode(h).data]
    BY <1>5, Zenon DEF Removes
  <2>2. Range(wire) = {h} \union Range(wire')
    BY <1>0, <2>1, SequenceSteps
  <2>. HIDE DEF h
  <2>3. ASSUME OnScreen(s, k) \/ Carries(h, s, k) PROVE OnScreen(s, k)'
    <3>1. CASE UNCHANGED screen /\ ~Carries(h, s, k)
      BY <2>3, <3>1 DEF OnScreen
    <3>2. CASE /\ JsDecode(h).data \in Seq(Nat) /\ JsDecode(h).id \in Sessions
               /\ screen' = [screen EXCEPT ![JsDecode(h).id] = @ \o JsDecode(h).data]
      <4>1. CASE JsDecode(h).id = s
        <5>1. screen'[s] = screen[s] \o JsDecode(h).data /\ screen[s] \in Seq(Nat)
          BY <3>2, <4>1 DEF TypeOK
        <5>2. Range(screen'[s]) = Range(screen[s]) \union Range(JsDecode(h).data)
          <6>1. Range(screen[s] \o JsDecode(h).data) =
                  Range(screen[s]) \union Range(JsDecode(h).data)
            BY <3>2, <5>1, RangeConcatenation
          <6>. QED BY <5>1, <6>1
        <5>. QED BY <2>3, <5>2 DEF OnScreen, Carries
      <4>2. CASE JsDecode(h).id # s
        <5>1. screen'[s] = screen[s]
          BY <3>2, <4>2 DEF TypeOK
        <5>. QED BY <2>3, <4>2, <5>1 DEF OnScreen, Carries
      <4>. QED BY <4>1, <4>2
    <3>. QED BY <2>1, <3>1, <3>2 DEF Carries
  <2>. QED BY <2>1, <2>2, <2>3 DEF Covered, InHand
<1>6. CASE Next
  BY <1>0, <1>1, <1>2, <1>3, <1>4, <1>5, <1>6, Kinds, Zenon DEF Quiet, PeerClose
<1>7. CASE UNCHANGED vars
  BY <1>1, <1>7 DEF vars, sessVars, netVars, pageVars
<1>. QED BY <1>6, <1>7

\* A byte that was just stored is in the hands of readLoop.
LEMMA NewIsCovered ==
  ASSUME TypeOK, HandIsNewest, WireFaithful, SnapshotsSound, [Next]_vars,
         NEW s \in Sessions, NEW k \in stored[s] + 1 .. stored'[s]
  PROVE  Covered(s, k)'
<1>0. stored[s] \in Nat /\ stored'[s] \in Nat /\ stored'[s] # stored[s]
  BY StoredGrows
<1>1. PICK t \in Sessions : ReadChunk(t)
  <2>1. ASSUME Quiet \/ (\E f : Adds(f)) \/ Removes \/ PeerClose \/ UNCHANGED vars
        PROVE  UNCHANGED stored
    BY <2>1, Zenon DEF Quiet, Adds, Removes, PeerClose, sessVars, vars
  <2>2. ASSUME NEW t \in Sessions, SendOutput(t) PROVE UNCHANGED stored
    BY <2>2 DEF SendOutput
  <2>. QED BY <1>0, <2>1, <2>2, Kinds, Zenon
<1>2. PICK n \in Nat :
        /\ stored' = [stored EXCEPT ![t] = @ + n]
        /\ reader' = [reader EXCEPT ![t] =
                        [at |-> "send", data |-> Run(stored[t] + 1, stored[t] + n)]]
        /\ Range(Run(stored[t] + 1, stored[t] + n)) = stored[t] + 1 .. stored[t] + n
  BY <1>1, ReadChunkIs, Zenon
<1>3. s = t
  BY <1>0, <1>2 DEF TypeOK
<1>4. stored'[s] = stored[s] + n /\ Range(reader'[s].data) = stored[s] + 1 .. stored[s] + n
  BY <1>2, <1>3 DEF TypeOK
<1>. QED BY <1>4 DEF Covered, InHand

LEMMA SoundStays ==
  ASSUME TypeOK, HandIsNewest, WireFaithful, SnapshotsSound, [Next]_vars, open,
         NEW m, IsSound(m)
  PROVE  IsSound(m)'
<1>1. PICK first, last \in 1 .. stored[m.id] :
        /\ first <= last /\ m.data = Run(first, last) /\ m.id \in Sessions
        /\ conn # "closed" => \A k \in last + 1 .. stored[m.id] : Covered(m.id, k)
  BY Zenon DEF IsSound
<1>2. /\ stored[m.id] \in Nat /\ stored'[m.id] \in Nat /\ stored[m.id] <= stored'[m.id]
      /\ first \in 1 .. stored'[m.id] /\ last \in 1 .. stored'[m.id]
  BY <1>1, StoredGrows
<1>3. ASSUME conn' # "closed", NEW k \in last + 1 .. stored'[m.id] PROVE Covered(m.id, k)'
  <2>1. CASE k <= stored[m.id]
    <3>1. k \in last + 1 .. stored[m.id]
      BY <1>2, <2>1
    <3>2. Covered(m.id, k)
      BY <1>1, <1>3, <3>1, NotClosedBefore, Zenon
    <3>. QED BY <1>1, <1>3, <3>2, CoveredStays
  <2>2. CASE k > stored[m.id]
    <3>1. k \in stored[m.id] + 1 .. stored'[m.id]
      BY <1>2, <2>2
    <3>. QED BY <1>1, <3>1, NewIsCovered
  <2>. QED BY <1>2, <2>1, <2>2
<1>. QED BY <1>1, <1>2, <1>3, Zenon DEF IsSound

LEMMA SnapshotsKept ==
  ASSUME TypeOK, HandIsNewest, WireFaithful, SnapshotsSound, OpenBefore, [Next]_vars
  PROVE  SnapshotsSound'
<1>1. ASSUME NEW s \in Sessions, CanSend(s) PROVE IsSound(ScrollbackOf(s))
  <2>1. PICK first \in 1 .. stored[s] :
          ScrollbackOf(s) = Message(Scrollback, s, Run(first, stored[s]))
    BY <1>1, ScrollbackIs, Zenon
  <2>2. ScrollbackOf(s).id = s /\ ScrollbackOf(s).data = Run(first, stored[s])
    BY <2>1 DEF Message
  <2>3. Encodable(ScrollbackOf(s))
    BY <1>1, ScrollbackIs, Zenon
  <2>4. /\ stored[s] \in Nat /\ first <= stored[s] /\ stored[s] \in 1 .. stored[s]
        /\ stored[s] + 1 .. stored[s] = {}
    BY <2>1, SMTT(30) DEF TypeOK
  <2>. HIDE DEF ScrollbackOf
  <2>5. \A k \in stored[s] + 1 .. stored[s] : Covered(s, k)
    BY <2>4
  <2>. QED BY <2>1, <2>2, <2>3, <2>4, <2>5, Zenon DEF IsSound
<1>2. ASSUME NEW a \in Announcers, announcer'[a].at = "send" PROVE IsSound(announcer[a].msg)'
  <2>1. ASSUME UNCHANGED announcer PROVE open /\ IsSound(announcer'[a].msg)
    BY <1>2, <2>1, Zenon DEF SnapshotsSound, OpenBefore
  <2>2. ASSUME announcer'[a] = announcer[a] PROVE open /\ IsSound(announcer'[a].msg)
    BY <1>2, <2>2 DEF SnapshotsSound, OpenBefore
  <2>3. ASSUME NEW b \in Announcers, AnnounceSnapshot(b) PROVE open /\ IsSound(announcer'[a].msg)
    <3>1. PICK s \in announcer[b].todo :
            announcer' = [announcer EXCEPT ![b] =
              IF CanSend(s)
              THEN [@ EXCEPT !.at = "send", !.todo = announcer[b].todo \ {s},
                             !.msg = ScrollbackOf(s)]
              ELSE [@ EXCEPT !.todo = announcer[b].todo \ {s}]]
      BY <2>3 DEF AnnounceSnapshot
    <3>2. s \in Sessions /\ announcer[b] \in AnnouncerStates /\ announcer[b].at = "next" /\ open
      BY <2>3, <3>1 DEF AnnounceSnapshot, TypeOK, AnnouncerStates, OpenBefore
    <3>3. CASE a # b
      BY <2>2, <3>1, <3>3 DEF TypeOK
    <3>4. CASE a = b /\ CanSend(s)
      <4>1. announcer'[a].msg = ScrollbackOf(s)
        BY <3>1, <3>2, <3>4 DEF TypeOK, AnnouncerStates
      <4>. QED BY <1>1, <3>2, <3>4, <4>1
    <3>5. CASE a = b /\ ~CanSend(s)
      <4>1. announcer'[a].at = "next"
        BY <3>1, <3>2, <3>5 DEF TypeOK, AnnouncerStates
      <4>. QED BY <1>2, <4>1
    <3>. QED BY <3>3, <3>4, <3>5
  <2>4. ASSUME NEW b \in Announcers, AnnounceScrollback(b) PROVE announcer'[a] = announcer[a]
    <3>1. /\ announcer' = [announcer EXCEPT ![b] = [@ EXCEPT !.at = "next", !.msg = NoMsg]]
          /\ announcer[b] \in AnnouncerStates
      BY <2>4 DEF AnnounceScrollback, TypeOK
    <3>2. announcer'[b].at = "next"
      BY <3>1 DEF TypeOK, AnnouncerStates
    <3>. QED BY <1>2, <3>1, <3>2 DEF TypeOK
  <2>5. ASSUME NEW b \in Announcers, AnnounceList(b) PROVE announcer'[a] = announcer[a]
    <3>0. announcer[b].at = "sleep" /\ announcer[b] \in AnnouncerStates
      BY <2>5 DEF AnnounceList, TypeOK
    <3>1. PICK c : announcer' = [announcer EXCEPT ![b] = c] /\ c.at \in {"next", "sleep", "off"}
      <4>1. /\ [announcer[b] EXCEPT !.at = "next", !.todo = Sessions].at = "next"
            /\ [announcer[b] EXCEPT !.left = announcer[b].left - 1].at = "sleep"
            /\ Off.at = "off"
        BY <3>0 DEF AnnouncerStates, Off
      <4>. DEFINE c == IF SendOk THEN [announcer[b] EXCEPT !.at = "next", !.todo = Sessions]
                       ELSE IF announcer[b].left > 1
                            THEN [announcer[b] EXCEPT !.left = announcer[b].left - 1] ELSE Off
      <4>2. announcer' = [announcer EXCEPT ![b] = c]
        BY <2>5 DEF AnnounceList
      <4>3. c.at \in {"next", "sleep", "off"}
        BY <4>1
      <4>. QED BY <4>2, <4>3, Zenon
    <3>2. announcer'[b] = c
      BY <3>1 DEF TypeOK
    <3>. QED BY <1>2, <3>1, <3>2 DEF TypeOK
  <2>6. ASSUME IceUp PROVE announcer'[a] = announcer[a]
    <3>1. announcer' = [announcer EXCEPT ![ups + 1] =
                          [Off EXCEPT !.at = "sleep", !.left = Tries]]
      BY <2>6 DEF IceUp
    <3>2. [Off EXCEPT !.at = "sleep", !.left = Tries].at = "sleep"
      BY DEF Off
    <3>3. announcer'[a].at = "sleep" \/ announcer'[a] = announcer[a]
      BY <3>1, <3>2 DEF TypeOK
    <3>. QED BY <1>2, <3>3
  <2>7. ASSUME \/ \E s \in Sessions : ReadChunk(s) \/ SendOutput(s)
               \/ Handler \/ Terminal \/ ChannelOpens \/ IceDown \/ PeerClose
               \/ Page \/ Person \/ UNCHANGED vars
        PROVE  UNCHANGED announcer
    BY <2>7 DEF ReadChunk, SendOutput, Handler, TakeBad, TakeResize, TakeInput, TakeSwitch,
         SendSwitched, TakeCreate, Terminal, WriteInput, WriteFails, ChannelOpens, IceDown,
         PeerClose, Page, ShowBytes, ShowList, ShowError, Person, Type, SwitchSession,
         Resize, NewSession, goVars, vars
  <2>8. open /\ IsSound(announcer'[a].msg)
    BY <2>1, <2>2, <2>3, <2>4, <2>5, <2>6, <2>7, Zenon DEF Next, Announcer
  <2>9. \A x : IsSound(x) => IsSound(x)'
    BY <2>8, SoundStays
  <2>10. PICK x : x = announcer'[a].msg /\ IsSound(x)
    BY <2>8, Zenon
  <2>11. IsSound(x)'
    BY <2>9, <2>10
  <2>. QED BY <2>10, <2>11, Zenon DEF IsSound
<1>3. ASSUME handler'.at = "send" PROVE IsSound(handler.msg)'
  <2>1. ASSUME UNCHANGED handler PROVE open /\ IsSound(handler'.msg)
    BY <1>3, <2>1 DEF SnapshotsSound, OpenBefore
  <2>2. ASSUME TakeSwitch PROVE open /\ IsSound(handler'.msg)
    <3>. DEFINE s == Field(Received.data[1], "id", NoSession)
    <3>1. /\ Takes(SessionSwitch)
          /\ handler' = IF s \in Sessions /\ CanSend(s)
                        THEN [Idle EXCEPT !.at = "send", !.msg = ScrollbackOf(s)]
                        ELSE handler
      BY <2>2, Zenon DEF TakeSwitch
    <3>. HIDE DEF s
    <3>2. open
      BY <3>1 DEF Takes, OpenBefore
    <3>3. CASE s \in Sessions /\ CanSend(s)
      <4>1. handler'.msg = ScrollbackOf(s)
        BY <3>1, <3>3 DEF Idle
      <4>. QED BY <1>1, <3>2, <3>3, <4>1
    <3>4. CASE ~(s \in Sessions /\ CanSend(s))
      BY <2>1, <3>1, <3>4
    <3>. QED BY <3>3, <3>4
  <2>3. ASSUME SendSwitched \/ WriteFails \/ TakeInput \/ WriteInput
        PROVE  UNCHANGED handler
    <3>1. Idle.at = "idle" /\ handler \in HandlerStates
      BY DEF Idle, TypeOK
    <3>2. CASE SendSwitched \/ WriteFails
      BY <1>3, <3>1, <3>2 DEF SendSwitched, WriteFails
    <3>3. CASE TakeInput
      <4>1. [Idle EXCEPT !.at = "write", !.sess = Received.id, !.data = Received.data].at = "write"
        BY DEF Idle
      <4>. QED BY <1>3, <3>3, <4>1 DEF TakeInput
    <3>4. CASE WriteInput
      <4>1. PICK n \in 1 .. Len(handler.data) :
              handler' = IF n = Len(handler.data) THEN Idle
                         ELSE [handler EXCEPT !.data = SubSeq(@, n + 1, Len(@))]
        BY <3>4 DEF WriteInput
      <4>2. [handler EXCEPT !.data = SubSeq(@, n + 1, Len(@))].at = "write"
        BY <3>1, <3>4 DEF WriteInput, HandlerStates
      <4>. QED BY <1>3, <3>1, <4>1, <4>2
    <3>. QED BY <2>3, <3>2, <3>3, <3>4
  <2>4. ASSUME \/ \E s \in Sessions : ReadChunk(s) \/ SendOutput(s)
               \/ \E a \in Announcers : Announcer(a)
               \/ TakeBad \/ TakeResize \/ TakeCreate
               \/ IceUp \/ ChannelOpens \/ IceDown \/ PeerClose
               \/ Page \/ Person \/ UNCHANGED vars
        PROVE  UNCHANGED handler
    BY <2>4 DEF ReadChunk, SendOutput, Announcer, AnnounceList, AnnounceSnapshot,
         AnnounceScrollback, TakeBad, TakeResize, TakeCreate, IceUp, ChannelOpens, IceDown,
         PeerClose, Page, ShowBytes, ShowList, ShowError, Person, Type, SwitchSession,
         Resize, NewSession, goVars, vars
  <2>5. open /\ IsSound(handler'.msg)
    BY <2>1, <2>2, <2>3, <2>4, Zenon DEF Next, Handler, Terminal
  <2>6. \A x : IsSound(x) => IsSound(x)'
    BY <2>5, SoundStays
  <2>7. PICK x : x = handler'.msg /\ IsSound(x)
    BY <2>5, Zenon
  <2>8. IsSound(x)'
    BY <2>6, <2>7
  <2>. QED BY <2>7, <2>8, Zenon DEF IsSound
<1>. QED BY <1>2, <1>3, Zenon DEF SnapshotsSound

(***************************************************************************)
(* The first scrollback of a session begins what must not be missed.       *)
(***************************************************************************)

LEMMA FromChanges ==
  ASSUME TypeOK, SnapshotsSound, [Next]_vars, NEW s \in Sessions, from'[s] # from[s]
  PROVE  /\ SendOk /\ UNCHANGED <<stored, conn, open>>
         /\ \E m \in Snapshots : /\ IsSound(m) /\ m.id = s /\ from'[s] = m.data[1]
                                 /\ wire' = Append(wire, Encode(m))
<1>1. ASSUME NEW m \in Snapshots, IsSound(m), SendScrollback(m),
             UNCHANGED <<stored, conn, open>>
      PROVE  /\ SendOk /\ UNCHANGED <<stored, conn, open>>
             /\ \E x \in Snapshots : /\ IsSound(x) /\ x.id = s /\ from'[s] = x.data[1]
                                     /\ wire' = Append(wire, Encode(x))
  <2>1. SendOk /\ from' = [from EXCEPT ![m.id] = m.data[1]]
    BY <1>1 DEF SendScrollback
  <2>2. m.id = s /\ from'[s] = m.data[1]
    BY <2>1 DEF TypeOK
  <2>3. wire' = Append(wire, Encode(m))
    BY <1>1, <2>1 DEF SendScrollback, Send
  <2>. QED BY <1>1, <2>1, <2>2, <2>3, Zenon
<1>2. ASSUME NEW a \in Announcers, AnnounceScrollback(a)
      PROVE  \E m \in Snapshots :
               IsSound(m) /\ SendScrollback(m) /\ UNCHANGED <<stored, conn, open>>
  <2>1. announcer[a].msg \in Snapshots /\ IsSound(announcer[a].msg)
    BY <1>2 DEF AnnounceScrollback, SnapshotsSound, TypeOK, AnnouncerStates
  <2>2. UNCHANGED <<stored, conn, open>>
    BY <1>2 DEF AnnounceScrollback, sessVars
  <2>. QED BY <1>2, <2>1, <2>2, Zenon DEF AnnounceScrollback
<1>3. ASSUME SendSwitched
      PROVE  \E m \in Snapshots :
               IsSound(m) /\ SendScrollback(m) /\ UNCHANGED <<stored, conn, open>>
  <2>1. handler.msg \in Snapshots /\ IsSound(handler.msg)
    BY <1>3 DEF SendSwitched, SnapshotsSound, TypeOK, HandlerStates
  <2>2. UNCHANGED <<stored, conn, open>>
    BY <1>3 DEF SendSwitched, sessVars
  <2>. QED BY <1>3, <2>1, <2>2, Zenon DEF SendSwitched
<1>4. ASSUME \/ \E t \in Sessions : ReadChunk(t) \/ SendOutput(t)
             \/ \E a \in Announcers : AnnounceList(a) \/ AnnounceSnapshot(a)
             \/ TakeBad \/ TakeResize \/ TakeInput \/ TakeSwitch \/ TakeCreate \/ Terminal
             \/ IceUp \/ ChannelOpens \/ IceDown \/ PeerClose
             \/ Page \/ Person \/ UNCHANGED vars
      PROVE  UNCHANGED from
  BY <1>4 DEF ReadChunk, SendOutput, AnnounceList, AnnounceSnapshot,
       TakeBad, TakeResize, TakeInput, TakeSwitch, TakeCreate, Terminal, WriteInput, WriteFails,
       IceUp, ChannelOpens, IceDown,
       PeerClose, Page, ShowBytes, ShowList, ShowError, Person, Type, SwitchSession,
       Resize, NewSession, goVars, vars
<1>5. \E m \in Snapshots : IsSound(m) /\ SendScrollback(m) /\ UNCHANGED <<stored, conn, open>>
  <2>1. ~UNCHANGED from
    OBVIOUS
  <2>. QED BY <1>2, <1>3, <1>4, <2>1, Zenon DEF Next, Announcer, Handler
<1>. QED BY <1>1, <1>5, Zenon

LEMMA NothingMissedKept ==
  ASSUME TypeOK, HandIsNewest, WireFaithful, SnapshotsSound, OpenBefore, NothingMissed,
         [Next]_vars
  PROVE  NothingMissed'
<1>. SUFFICES ASSUME NEW s \in Sessions, from'[s] # 0, conn' # "closed",
                     NEW k \in from'[s] .. stored'[s]
              PROVE  Covered(s, k)'
  BY Zenon DEF NothingMissed
<1>0. conn # "closed" /\ stored[s] \in Nat /\ stored'[s] \in Nat /\ from[s] \in Nat
  BY NotClosedBefore, StoredGrows, Zenon DEF TypeOK
<1>1. CASE from'[s] = from[s]
  <2>1. open
    BY <1>1 DEF OpenBefore
  <2>2. CASE k <= stored[s]
    <3>1. k \in from[s] .. stored[s]
      BY <1>0, <1>1, <2>2
    <3>2. Covered(s, k)
      BY <1>0, <1>1, <3>1, Zenon DEF NothingMissed
    <3>. QED BY <2>1, <3>2, CoveredStays
  <2>3. CASE k > stored[s]
    <3>1. k \in stored[s] + 1 .. stored'[s]
      BY <1>0, <1>1, <2>3
    <3>. QED BY <3>1, NewIsCovered
  <2>. QED BY <1>0, <1>1, <2>2, <2>3
<1>2. CASE from'[s] # from[s]
  <2>1. SendOk /\ UNCHANGED <<stored, conn, open>>
    BY <1>2, FromChanges, Zenon
  <2>2. PICK m \in Snapshots : /\ IsSound(m) /\ m.id = s /\ from'[s] = m.data[1]
                               /\ wire' = Append(wire, Encode(m))
    BY <1>2, FromChanges, Zenon
  <2>3. PICK first, last \in 1 .. stored[s] :
          /\ first <= last /\ m.data[1] = first /\ Range(m.data) = first .. last
          /\ conn # "closed" => \A j \in last + 1 .. stored[s] : Covered(s, j)
    BY <2>2, SoundSteps, Zenon
  <2>4. GoodFrame(Encode(m)) /\ Encode(m).type = Scrollback /\ JsDecode(Encode(m)) = m
    BY <2>2, SoundSteps, Zenon
  <2>5. CASE k <= last
    <3>1. k \in Range(m.data)
      BY <1>0, <2>1, <2>2, <2>3, <2>5
    <3>2. Carries(Encode(m), s, k)
      BY <2>2, <2>4, <3>1, Zenon DEF Carries, GoodFrame
    <3>3. IsSequence(wire)
      BY DEF TypeOK
    <3>4. Encode(m) \in Range(wire')
      <4>1. Range(Append(wire, Encode(m))) = Range(wire) \union {Encode(m)}
        BY <3>3, SequenceSteps, Zenon
      <4>. QED BY <2>2, <4>1
    <3>5. PICK f : f \in Range(wire') /\ Carries(f, s, k)
      BY <3>2, <3>4, Zenon
    <3>. QED BY <3>5, Zenon DEF Covered, Carries
  <2>6. CASE k > last
    <3>1. k \in last + 1 .. stored[s]
      BY <1>0, <2>1, <2>2, <2>3, <2>6
    <3>2. Covered(s, k)
      BY <1>0, <2>3, <3>1
    <3>. QED BY <2>1, <3>2, CoveredStays DEF SendOk
  <2>. QED BY <1>0, <2>1, <2>2, <2>3, <2>5, <2>6
<1>. QED BY <1>1, <1>2

(***************************************************************************)
(* Live output stays in order.  w is what is on the way, top the newest    *)
(* byte stored of s, hand the bytes readLoop holds.                        *)
(***************************************************************************)

Ordered(w, s, top, hand) ==
  \A i \in 1 .. Len(w) : Live(w[i], s) =>
    /\ \A k \in LastOf(w[i]) + 1 .. top :
         k \in hand \/ \E j \in i + 1 .. Len(w) : Live(w[j], s) /\ Carries(w[j], s, k)
    /\ \A j \in i + 1 .. Len(w) : Live(w[j], s) =>
         \A k \in 1 .. LastOf(w[i]) : ~Carries(w[j], s, k)

LEMMA InOrderMeans ==
  ASSUME IsSequence(wire)
  PROVE  LiveInOrder <=>
           \A s \in Sessions : Ordered(wire, s, stored[s], Range(reader[s].data))
<1>1. DOMAIN wire = 1 .. Len(wire)
  BY LenProperties, Zenon DEF IsSequence
<1>2. ASSUME LiveInOrder, NEW s \in Sessions
      PROVE  Ordered(wire, s, stored[s], Range(reader[s].data))
  BY <1>1, <1>2, Zenon DEF LiveInOrder, Ordered, InHand
<1>3. ASSUME \A s \in Sessions : Ordered(wire, s, stored[s], Range(reader[s].data))
      PROVE  LiveInOrder
  BY <1>1, <1>3, Zenon DEF LiveInOrder, Ordered, InHand
<1>. QED BY <1>2, <1>3

LEMMA OrderedQueue ==
  ASSUME NEW w, IsSequence(w), NEW s, NEW top, NEW hand, Ordered(w, s, top, hand)
  PROVE  /\ \A f : ~Live(f, s) => Ordered(Append(w, f), s, top, hand)
         /\ w # << >> => Ordered(Tail(w), s, top, hand)
<1>0. w \in Seq(Range(w)) /\ Len(w) \in Nat
  BY LenProperties, Zenon DEF IsSequence
<1>1. ASSUME NEW f, ~Live(f, s) PROVE Ordered(Append(w, f), s, top, hand)
  <2>. DEFINE v == Append(w, f)
  <2>0. w \in Seq(Range(w) \union {f})
    BY <1>0, SeqMonotonic
  <2>1. Len(v) = Len(w) + 1 /\ v[Len(v)] = f /\ \A i \in 1 .. Len(w) : v[i] = w[i]
    BY <2>0
  <2>. HIDE DEF v
  <2>2. ASSUME NEW i \in 1 .. Len(v), Live(v[i], s) PROVE i \in 1 .. Len(w) /\ v[i] = w[i]
    BY <1>0, <1>1, <2>1, <2>2
  <2>3. ASSUME NEW i \in 1 .. Len(w)
        PROVE  i + 1 .. Len(w) \subseteq 1 .. Len(w) /\ i + 1 .. Len(w) \subseteq i + 1 .. Len(v)
    BY <1>0, <2>1, <2>3
  <2>4. ASSUME NEW i \in 1 .. Len(w), NEW j \in i + 1 .. Len(v), Live(v[j], s)
        PROVE  j \in i + 1 .. Len(w)
    BY <1>0, <1>1, <2>1, <2>4
  <2>5. Ordered(v, s, top, hand)
    <3>. SUFFICES ASSUME NEW i \in 1 .. Len(v), Live(v[i], s)
                  PROVE  /\ \A k \in LastOf(v[i]) + 1 .. top :
                              k \in hand \/ \E j \in i + 1 .. Len(v) : Live(v[j], s) /\ Carries(v[j], s, k)
                         /\ \A j \in i + 1 .. Len(v) : Live(v[j], s) =>
                              \A k \in 1 .. LastOf(v[i]) : ~Carries(v[j], s, k)
      BY Zenon DEF Ordered
    <3>1. i \in 1 .. Len(w) /\ v[i] = w[i] /\ Live(w[i], s)
      BY <2>2
    <3>2. ASSUME NEW k \in LastOf(v[i]) + 1 .. top, k \notin hand
          PROVE  \E j \in i + 1 .. Len(v) : Live(v[j], s) /\ Carries(v[j], s, k)
      <4>1. PICK j \in i + 1 .. Len(w) : Live(w[j], s) /\ Carries(w[j], s, k)
        BY <3>1, <3>2, Zenon DEF Ordered
      <4>2. j \in 1 .. Len(w) /\ j \in i + 1 .. Len(v)
        BY <2>3, <3>1
      <4>. QED BY <2>1, <4>1, <4>2
    <3>3. ASSUME NEW j \in i + 1 .. Len(v), Live(v[j], s), NEW k \in 1 .. LastOf(v[i])
          PROVE  ~Carries(v[j], s, k)
      <4>1. j \in i + 1 .. Len(w)
        BY <2>4, <3>1, <3>3
      <4>2. v[j] = w[j]
        BY <2>1, <2>3, <3>1, <4>1
      <4>. QED BY <3>1, <3>3, <4>1, <4>2 DEF Ordered
    <3>. QED BY <3>2, <3>3
  <2>. QED BY <2>5 DEF v
<1>2. ASSUME w # << >> PROVE Ordered(Tail(w), s, top, hand)
  <2>. DEFINE v == Tail(w)
  <2>1. Len(v) = Len(w) - 1 /\ Len(v) \in Nat /\ \A i \in 1 .. Len(v) : v[i] = w[i + 1]
    BY <1>0, <1>2
  <2>. HIDE DEF v
  <2>2. \A i \in 1 .. Len(v) : i + 1 \in 1 .. Len(w)
    BY <1>0, <2>1
  <2>3. ASSUME NEW i \in 1 .. Len(v), NEW j \in (i + 1) + 1 .. Len(w)
        PROVE  j - 1 \in i + 1 .. Len(v) /\ v[j - 1] = w[j]
    BY <1>0, <2>1, <2>3
  <2>4. ASSUME NEW i \in 1 .. Len(v), NEW j \in i + 1 .. Len(v)
        PROVE  j + 1 \in (i + 1) + 1 .. Len(w) /\ v[j] = w[j + 1]
    BY <1>0, <2>1, <2>4
  <2>5. Ordered(v, s, top, hand)
    <3>. SUFFICES ASSUME NEW i \in 1 .. Len(v), Live(v[i], s)
                  PROVE  /\ \A k \in LastOf(v[i]) + 1 .. top :
                              k \in hand \/ \E j \in i + 1 .. Len(v) : Live(v[j], s) /\ Carries(v[j], s, k)
                         /\ \A j \in i + 1 .. Len(v) : Live(v[j], s) =>
                              \A k \in 1 .. LastOf(v[i]) : ~Carries(v[j], s, k)
      BY Zenon DEF Ordered
    <3>1. i + 1 \in 1 .. Len(w) /\ v[i] = w[i + 1] /\ Live(w[i + 1], s)
      BY <2>1, <2>2
    <3>2. ASSUME NEW k \in LastOf(v[i]) + 1 .. top, k \notin hand
          PROVE  \E j \in i + 1 .. Len(v) : Live(v[j], s) /\ Carries(v[j], s, k)
      <4>1. PICK j \in (i + 1) + 1 .. Len(w) : Live(w[j], s) /\ Carries(w[j], s, k)
        BY <3>1, <3>2, Zenon DEF Ordered
      <4>2. j - 1 \in i + 1 .. Len(v) /\ v[j - 1] = w[j]
        BY <2>3
      <4>. QED BY <4>1, <4>2
    <3>3. ASSUME NEW j \in i + 1 .. Len(v), Live(v[j], s), NEW k \in 1 .. LastOf(v[i])
          PROVE  ~Carries(v[j], s, k)
      <4>1. j + 1 \in (i + 1) + 1 .. Len(w) /\ v[j] = w[j + 1]
        BY <2>4
      <4>. QED BY <3>1, <3>3, <4>1, Zenon DEF Ordered
    <3>. QED BY <3>2, <3>3
  <2>. QED BY <2>5 DEF v
<1>. QED BY <1>1, <1>2, Zenon

\* The chunk in hand is sent: it comes after all that is on the way.
LEMMA OrderedSend ==
  ASSUME NEW w, IsSequence(w), NEW s, NEW top \in Nat, NEW hand, NEW f,
         Ordered(w, s, top, hand), Live(f, s), LastOf(f) = top,
         Range(JsDecode(f).data) = hand,
         \A g \in Range(w) : Live(g, s) => LastOf(g) \in Nat /\ \A k \in hand : LastOf(g) < k
  PROVE  Ordered(Append(w, f), s, top, {})
<1>. DEFINE v == Append(w, f)
<1>0. w \in Seq(Range(w)) /\ Len(w) \in Nat /\ \A i \in 1 .. Len(w) : w[i] \in Range(w)
  <2>1. w \in Seq(Range(w))
    BY DEF IsSequence
  <2>. QED BY <2>1
<1>1. Len(v) = Len(w) + 1 /\ v[Len(v)] = f /\ \A i \in 1 .. Len(w) : v[i] = w[i]
  <2>1. w \in Seq(Range(w) \union {f})
    BY <1>0, SeqMonotonic
  <2>. QED BY <2>1
<1>2. \A k : Carries(f, s, k) <=> k \in hand
  BY DEF Carries, Live, TermOutput
<1>. HIDE DEF v
<1>3. ASSUME NEW i \in 1 .. Len(w), NEW k \in LastOf(v[i]) + 1 .. top, Live(v[i], s)
      PROVE  \E j \in i + 1 .. Len(v) : Live(v[j], s) /\ Carries(v[j], s, k)
  <2>1. v[i] = w[i]
    BY <1>1
  <2>2. CASE k \in hand
    <3>1. Len(v) \in i + 1 .. Len(v)
      BY <1>0, <1>1
    <3>. QED BY <1>1, <1>2, <2>2, <3>1
  <2>3. CASE k \notin hand
    <3>1. PICK j \in i + 1 .. Len(w) : Live(w[j], s) /\ Carries(w[j], s, k)
      BY <1>3, <2>1, <2>3, Zenon DEF Ordered
    <3>2. j \in i + 1 .. Len(v) /\ v[j] = w[j]
      BY <1>0, <1>1
    <3>. QED BY <3>1, <3>2
  <2>. QED BY <2>2, <2>3
<1>4. ASSUME NEW i \in 1 .. Len(w), NEW j \in i + 1 .. Len(v), NEW k \in 1 .. LastOf(v[i]),
             Live(v[i], s), Live(v[j], s)
      PROVE  ~Carries(v[j], s, k)
  <2>1. v[i] = w[i] /\ w[i] \in Range(w)
    BY <1>0, <1>1
  <2>2. CASE j = Len(v)
    <3>1. k \in hand => LastOf(w[i]) < k
      BY <1>4, <2>1
    <3>2. LastOf(w[i]) \in Nat
      BY <1>4, <2>1
    <3>3. k \notin hand
      BY <1>4, <2>1, <3>1, <3>2
    <3>. QED BY <1>1, <1>2, <2>2, <3>3
  <2>3. CASE j # Len(v)
    <3>1. j \in i + 1 .. Len(w) /\ v[j] = w[j]
      BY <1>0, <1>1, <2>3
    <3>. QED BY <1>4, <2>1, <3>1, Zenon DEF Ordered
  <2>. QED BY <2>2, <2>3
<1>5. LastOf(v[Len(v)]) + 1 .. top = {} /\ Len(v) + 1 .. Len(v) = {}
  BY <1>0, <1>1
<1>6. Ordered(v, s, top, {})
  <2>1. \A i \in 1 .. Len(v) : i \in 1 .. Len(w) \/ i = Len(v)
    BY <1>0, <1>1
  <2>. QED BY <1>3, <1>4, <1>5, <2>1, Zenon DEF Ordered
<1>. QED BY <1>6 DEF v

LEMMA LiveLast ==
  ASSUME TypeOK, NEW f, GoodFrame(f), NEW s \in Sessions, Live(f, s)
  PROVE  LastOf(f) \in 1 .. stored[s]
<1>1. JsDecode(f).type = TermOutput /\ JsDecode(f).id = s /\ HostSays(JsDecode(f))
  BY ParseType DEF GoodFrame, Live
<1>2. PICK first, last \in 1 .. stored[s] :
        first <= last /\ JsDecode(f).data = Run(first, last)
  <2>1. IsPiece(JsDecode(f).id, JsDecode(f).data)
    BY <1>1 DEF HostSays, TermOutput, SessionList, ErrorNote
  <2>. QED BY <1>1, <2>1, Zenon DEF IsPiece
<1>3. first \in Nat \ {0} /\ last \in Nat /\ first <= last
  BY <1>2 DEF TypeOK
<1>4. JsDecode(f).data[Len(JsDecode(f).data)] = last
  BY <1>2, <1>3, RunValue, Zenon
<1>. QED BY <1>2, <1>4 DEF LastOf

LEMMA HandAfterLiveKept ==
  ASSUME TypeOK, HandIsNewest, WireFaithful, SnapshotsSound, OpenBefore, HandAfterLive,
         [Next]_vars
  PROVE  HandAfterLive'
<1>. SUFFICES ASSUME NEW s \in Sessions, NEW f \in Range(wire'), Live(f, s),
                     NEW k \in Range(reader'[s].data)
              PROVE  LastOf(f) < k
  BY Zenon DEF HandAfterLive
<1>0. IsSequence(wire) /\ Resting.data = << >>
  BY DEF TypeOK, Resting
<1>1. ASSUME f \in Range(wire), k \in Range(reader[s].data) PROVE LastOf(f) < k
  BY <1>1 DEF HandAfterLive
<1>2. CASE UNCHANGED <<reader, wire>>
  BY <1>1, <1>2
<1>3. ASSUME NEW g, Adds(g) PROVE LastOf(f) < k
  <2>1. Range(Append(wire, g)) = Range(wire) \union {g}
    BY <1>0, SequenceSteps, Zenon
  <2>2. ~Live(g, s) /\ UNCHANGED reader
    BY <1>3 DEF Live, Adds
  <2>3. f \in Range(wire)
    BY <1>3, <2>1, <2>2 DEF Adds
  <2>. QED BY <1>1, <2>2, <2>3
<1>4. ASSUME NEW t \in Sessions, ReadChunk(t) PROVE LastOf(f) < k
  <2>1. PICK n \in Nat \ {0} :
          /\ stored[t] \in Nat
          /\ reader' = [reader EXCEPT ![t] =
                          [at |-> "send", data |-> Run(stored[t] + 1, stored[t] + n)]]
          /\ Range(Run(stored[t] + 1, stored[t] + n)) = stored[t] + 1 .. stored[t] + n
          /\ UNCHANGED wire
    BY <1>4, ReadChunkIs, Zenon
  <2>2. CASE s # t
    BY <1>1, <2>1, <2>2 DEF TypeOK
  <2>3. CASE s = t
    <3>1. k \in stored[s] + 1 .. stored[s] + n
      BY <2>1, <2>3 DEF TypeOK
    <3>2. GoodFrame(f)
      BY <2>1, WireFaithfulMeans
    <3>3. LastOf(f) \in 1 .. stored[s]
      BY <3>2, LiveLast
    <3>. QED BY <2>1, <2>3, <3>1, <3>3
  <2>. QED BY <2>2, <2>3
<1>5. ASSUME NEW t \in Sessions, SendOutput(t) PROVE LastOf(f) < k
  <2>1. PICK g : /\ Live(g, t) /\ reader' = [reader EXCEPT ![t] = Resting]
                 /\ wire' = IF SendOk THEN Append(wire, g) ELSE wire
    BY <1>5, SendOutputIs, Zenon
  <2>2. CASE s = t
    BY <1>0, <2>1, <2>2 DEF TypeOK, Range
  <2>3. CASE s # t
    <3>1. reader'[s] = reader[s] /\ ~Live(g, s)
      BY <2>1, <2>3 DEF TypeOK, Live
    <3>2. Range(Append(wire, g)) = Range(wire) \union {g}
      BY <1>0, SequenceSteps, Zenon
    <3>3. f \in Range(wire)
      BY <2>1, <3>1, <3>2
    <3>. QED BY <1>1, <3>1, <3>3
  <2>. QED BY <2>2, <2>3
<1>6. ASSUME Removes PROVE LastOf(f) < k
  <2>1. wire # << >> /\ wire' = Tail(wire) /\ UNCHANGED reader
    BY <1>6 DEF Removes
  <2>2. Range(wire) = {Head(wire)} \union Range(Tail(wire))
    BY <1>0, <2>1, SequenceSteps, Zenon
  <2>. QED BY <1>1, <2>1, <2>2
<1>7. ASSUME PeerClose PROVE LastOf(f) < k
  BY <1>7 DEF PeerClose, Range
<1>8. CASE UNCHANGED vars
  BY <1>2, <1>8 DEF vars, sessVars, netVars
<1>9. CASE Next
  BY <1>2, <1>3, <1>4, <1>5, <1>6, <1>7, <1>9, Kinds, Zenon DEF Quiet
<1>. QED BY <1>8, <1>9

LEMMA LiveInOrderKept ==
  ASSUME TypeOK, TypeOK', HandIsNewest, WireFaithful, SnapshotsSound, OpenBefore,
         HandAfterLive, LiveInOrder, [Next]_vars
  PROVE  LiveInOrder'
<1>0. IsSequence(wire) /\ IsSequence(wire') /\ Resting.data = << >> /\ Range(<< >>) = {}
  BY DEF TypeOK, Resting, Range
<1>1. \A s \in Sessions : Ordered(wire, s, stored[s], Range(reader[s].data))
  BY <1>0, InOrderMeans, Zenon
<1>2. ASSUME NEW s \in Sessions
      PROVE  Ordered(wire', s, stored'[s], Range(reader'[s].data))
  <2>1. CASE UNCHANGED <<stored, reader, wire>>
    BY <1>1, <2>1
  <2>2. ASSUME NEW g, Adds(g) PROVE Ordered(wire', s, stored'[s], Range(reader'[s].data))
    <3>1. ~Live(g, s) /\ UNCHANGED <<stored, reader>>
      BY <2>2 DEF Live, Adds
    <3>2. Ordered(wire', s, stored[s], Range(reader[s].data))
      <4>1. Ordered(Append(wire, g), s, stored[s], Range(reader[s].data))
        BY <1>0, <1>1, <3>1, OrderedQueue, Zenon
      <4>. QED BY <1>1, <2>2, <4>1 DEF Adds
    <3>. QED BY <3>1, <3>2
  <2>3. ASSUME NEW t \in Sessions, ReadChunk(t)
        PROVE  Ordered(wire', s, stored'[s], Range(reader'[s].data))
    <3>1. PICK n \in Nat \ {0} :
            /\ stored[t] \in Nat
            /\ stored' = [stored EXCEPT ![t] = @ + n]
            /\ reader' = [reader EXCEPT ![t] =
                            [at |-> "send", data |-> Run(stored[t] + 1, stored[t] + n)]]
            /\ Range(reader[t].data) = {}
            /\ Range(Run(stored[t] + 1, stored[t] + n)) = stored[t] + 1 .. stored[t] + n
            /\ UNCHANGED wire
      BY <2>3, ReadChunkIs, Zenon
    <3>2. CASE s # t
      <4>1. stored'[s] = stored[s] /\ reader'[s] = reader[s]
        BY <3>1, <3>2 DEF TypeOK
      <4>. QED BY <1>1, <3>1, <4>1
    <3>3. CASE s = t
      <4>1. /\ stored'[s] = stored[s] + n /\ stored[s] \in Nat
            /\ Range(reader'[s].data) = stored[s] + 1 .. stored[s] + n
            /\ Ordered(wire, s, stored[s], {})
        BY <1>1, <3>1, <3>3 DEF TypeOK
      <4>2. \A i \in 1 .. Len(wire) : Live(wire[i], s) => LastOf(wire[i]) \in 1 .. stored[s]
        <5>1. \A i \in 1 .. Len(wire) : GoodFrame(wire[i])
          <6>1. \A i \in 1 .. Len(wire) : wire[i] \in Range(wire)
            BY <1>0 DEF IsSequence
          <6>. QED BY <6>1, WireFaithfulMeans
        <5>. QED BY <5>1, LiveLast
      <4>3. ASSUME NEW i \in 1 .. Len(wire), Live(wire[i], s),
                   NEW k \in LastOf(wire[i]) + 1 .. stored[s] + n
            PROVE  \/ k \in stored[s] + 1 .. stored[s] + n
                   \/ k \in LastOf(wire[i]) + 1 .. stored[s]
        BY <4>1, <4>2, <4>3
      <4>4. Ordered(wire, s, stored[s] + n, stored[s] + 1 .. stored[s] + n)
        BY <4>1, <4>3, Zenon DEF Ordered
      <4>. QED BY <3>1, <4>1, <4>4
    <3>. QED BY <3>2, <3>3
  <2>4. ASSUME NEW t \in Sessions, SendOutput(t)
        PROVE  Ordered(wire', s, stored'[s], Range(reader'[s].data))
    <3>1. PICK g : /\ Live(g, t) /\ JsDecode(g).data = reader[t].data /\ LastOf(g) = stored[t]
                   /\ reader' = [reader EXCEPT ![t] = Resting] /\ UNCHANGED <<stored, conn, open>>
                   /\ wire' = IF SendOk THEN Append(wire, g) ELSE wire
      BY <2>4, SendOutputIs, Zenon
    <3>2. CASE s # t
      <4>1. reader'[s] = reader[s] /\ ~Live(g, s) /\ stored'[s] = stored[s]
        BY <3>1, <3>2 DEF TypeOK, Live
      <4>2. Ordered(Append(wire, g), s, stored[s], Range(reader[s].data))
        BY <1>0, <1>1, <4>1, OrderedQueue, Zenon
      <4>. QED BY <1>1, <3>1, <4>1, <4>2
    <3>3. CASE s = t
      <4>1. /\ Range(reader'[s].data) = {} /\ stored'[s] = stored[s] /\ stored[s] \in Nat
        BY <1>0, <3>1, <3>3 DEF TypeOK
      <4>2. CASE SendOk
        <5>1. \A f \in Range(wire) : Live(f, s) =>
                LastOf(f) \in Nat /\ \A k \in Range(reader[s].data) : LastOf(f) < k
          <6>1. \A f \in Range(wire) : Live(f, s) => LastOf(f) \in 1 .. stored[s]
            BY LiveLast, WireFaithfulMeans, Zenon
          <6>. QED BY <4>1, <6>1 DEF HandAfterLive
        <5>2. Ordered(Append(wire, g), s, stored[s], {})
          <6>1. /\ Ordered(wire, s, stored[s], Range(reader[s].data)) /\ Live(g, s)
                /\ LastOf(g) = stored[s] /\ Range(JsDecode(g).data) = Range(reader[s].data)
            BY <1>1, <3>1, <3>3
          <6>. QED BY <1>0, <4>1, <5>1, <6>1, OrderedSend, Zenon
        <5>. QED BY <3>1, <4>1, <4>2, <5>2
      <4>3. CASE ~SendOk
        <5>1. wire = << >> /\ wire' = << >>
          BY <3>1, <4>3 DEF OpenBefore, SendOk
        <5>. QED BY <5>1 DEF Ordered
      <4>. QED BY <4>2, <4>3
    <3>. QED BY <3>2, <3>3
  <2>5. ASSUME Removes PROVE Ordered(wire', s, stored'[s], Range(reader'[s].data))
    <3>1. wire # << >> /\ wire' = Tail(wire) /\ UNCHANGED <<stored, reader>>
      BY <2>5 DEF Removes
    <3>2. Ordered(Tail(wire), s, stored[s], Range(reader[s].data))
      BY <1>0, <1>1, <3>1, OrderedQueue, Zenon
    <3>. QED BY <3>1, <3>2
  <2>6. ASSUME PeerClose PROVE Ordered(wire', s, stored'[s], Range(reader'[s].data))
    BY <2>6 DEF PeerClose, Ordered
  <2>7. CASE UNCHANGED vars
    BY <2>1, <2>7 DEF vars, sessVars, netVars
  <2>8. CASE Next
    BY <2>1, <2>2, <2>3, <2>4, <2>5, <2>6, <2>8, Kinds, Zenon DEF Quiet
  <2>. QED BY <2>7, <2>8
<1>3. DOMAIN wire' = 1 .. Len(wire')
  BY <1>0, LenProperties, Zenon DEF IsSequence
<1>. QED BY <1>2, <1>3, Zenon DEF LiveInOrder, Ordered, InHand

(***************************************************************************)
(* Input: the keys on the way, and what each step does to them.            *)
(***************************************************************************)

LEMMA PrefixMeans ==
  ASSUME NEW x \in Seq(Nat), NEW t \in Seq(Nat)
  PROVE  InputPipe!IsPrefix(x, t) <=> Len(x) <= Len(t) /\ x = SubSeq(t, 1, Len(x))
BY WholeSeq DEF InputPipe!IsPrefix

\* More at the end changes no piece.
LEMMA PiecesStay ==
  ASSUME NEW t \in Seq(Nat), NEW k \in Seq(Nat),
         NEW a \in 1 .. Len(t) + 1, NEW b \in 0 .. Len(t)
  PROVE  SubSeq(t \o k, a, b) = SubSeq(t, a, b)
<1>1. CASE b < a
  BY <1>1, SubSeqEmpty
<1>2. CASE a <= b
  BY <1>2, SubSeqOfConcat1
<1>. QED BY <1>1, <1>2

LEMMA PrefixGrows ==
  ASSUME NEW x \in Seq(Nat), NEW t \in Seq(Nat), NEW k \in Seq(Nat),
         InputPipe!IsPrefix(x, t)
  PROVE  InputPipe!IsPrefix(x, t \o k)
<1>1. Len(x) <= Len(t) /\ x = SubSeq(t, 1, Len(x))
  BY PrefixMeans
<1>2. t \o k \in Seq(Nat) /\ Len(t \o k) = Len(t) + Len(k)
  BY ConcatProperties
<1>3. SubSeq(t \o k, 1, Len(x)) = SubSeq(t, 1, Len(x))
  BY <1>1, PiecesStay
<1>4. Len(x) <= Len(t \o k)
  BY <1>1, <1>2
<1>5. SubSeq(x, 1, Len(x)) = x
  BY WholeSeq
<1>. QED BY <1>1, <1>3, <1>4, <1>5, Zenon DEF InputPipe!IsPrefix

LEMMA JoinThree ==
  ASSUME NEW x \in Seq(Nat), NEW y \in Seq(Nat), NEW z \in Seq(Nat)
  PROVE  (x \o y) \o z = x \o (y \o z)
BY SMTT(30)

LEMMA PrefixOfJoined ==
  ASSUME NEW x \in Seq(Nat), NEW y \in Seq(Nat)
  PROVE  InputPipe!IsPrefix(x, x \o y)
<1>1. x \o y \in Seq(Nat) /\ Len(x \o y) = Len(x) + Len(y)
  BY ConcatProperties
<1>2. SubSeq(x \o y, 1, Len(x)) = x /\ SubSeq(x, 1, Len(x)) = x
  BY CutBack, WholeSeq
<1>3. Len(x) <= Len(x \o y)
  BY <1>1
<1>. QED BY <1>2, <1>3, Zenon DEF InputPipe!IsPrefix

\* What a step may leave alone.
LEMMA InOrderStays ==
  ASSUME NEW s \in Sessions, InOrder(s),
         written'[s] = written[s], kept'[s] = kept[s], inbox' = inbox,
         conn' # "closed" => conn # "closed",
         s \notin broken' => s \notin broken /\ Held(s)' = Held(s)
  PROVE  InOrder(s)'
<1>1. InputPipe!IsPrefix(written'[s], kept'[s])
  BY DEF InOrder
<1>2. ASSUME s \notin broken'
      PROVE  \E cut \in [0 .. Len(inbox') -> 0 .. Len(kept'[s])] : CutBy(s, cut)'
  <2>1. PICK cut \in [0 .. Len(inbox) -> 0 .. Len(kept[s])] : CutBy(s, cut)
    BY <1>2 DEF InOrder
  <2>2. CutBy(s, cut)'
    BY <1>2, <2>1 DEF CutBy, KeysOf
  <2>. QED BY <2>1, <2>2
<1>. QED BY <1>1, <1>2 DEF InOrder

\* The page posts a frame.
LEMMA InOrderPost ==
  ASSUME TypeOK, NEW s \in Sessions, InOrder(s), NEW f,
         inbox' = Append(inbox, f), conn # "closed",
         KeysOf(f, s) \in Seq(Nat), kept'[s] = kept[s] \o KeysOf(f, s),
         written'[s] = written[s], UNCHANGED <<broken, handler>>
  PROVE  InOrder(s)'
<1>. DEFINE n == Len(inbox)
            t == kept[s]
            k == KeysOf(f, s)
<1>0. t \in Seq(Nat) /\ written[s] \in Seq(Nat)
  BY DEF TypeOK
<1>1. InputPipe!IsPrefix(written'[s], kept'[s])
  BY <1>0, PrefixGrows DEF InOrder
<1>2. t \o k \in Seq(Nat) /\ Len(t \o k) = Len(t) + Len(k) /\ Len(t) \in Nat /\ Len(k) \in Nat
  BY <1>0, ConcatProperties
<1>3. /\ n \in Nat /\ Len(inbox') = n + 1
      /\ \A i \in 1 .. n : inbox'[i] = inbox[i]
      /\ inbox'[n + 1] = f
  <2>. DEFINE T == Range(inbox) \union {f}
  <2>1. Range(inbox) \subseteq T /\ f \in T /\ inbox \in Seq(Range(inbox))
    BY DEF TypeOK, IsSequence
  <2>. HIDE DEF T
  <2>2. inbox \in Seq(T)
    BY <2>1, SeqMonotonic
  <2>. QED BY <2>1, <2>2, AppendProperties
<1>4. ASSUME s \notin broken'
      PROVE  \E cut \in [0 .. Len(inbox') -> 0 .. Len(kept'[s])] : CutBy(s, cut)'
  <2>1. PICK cut \in [0 .. n -> 0 .. Len(t)] : CutBy(s, cut)
    BY <1>4 DEF InOrder
  <2>2. /\ written[s] \o Held(s) = SubSeq(t, 1, cut[0])
        /\ \A i \in 1 .. n : /\ cut[i - 1] <= cut[i]
                             /\ KeysOf(inbox[i], s) = SubSeq(t, cut[i - 1] + 1, cut[i])
        /\ cut[n] = Len(t)
    BY <2>1 DEF CutBy
  <2>3. PICK new \in [0 .. n + 1 -> 0 .. Len(t) + Len(k)] :
               /\ \A i \in 0 .. n : new[i] = cut[i] /\ new[i] \in 0 .. Len(t)
               /\ new[n + 1] = Len(t) + Len(k)
    <3>. DEFINE more == [i \in 0 .. n + 1 |-> IF i <= n THEN cut[i] ELSE Len(t) + Len(k)]
    <3>. HIDE DEF n, t, k
    <3>1. \A i \in 0 .. n : i \in 0 .. n + 1 /\ i <= n /\ cut[i] \in 0 .. Len(t)
      BY <1>3
    <3>2. n + 1 \in 0 .. n + 1 /\ ~(n + 1 <= n)
      BY <1>3
    <3>3. 0 .. Len(t) \subseteq 0 .. Len(t) + Len(k)
          /\ Len(t) + Len(k) \in 0 .. Len(t) + Len(k)
      BY <1>2
    <3>4. \A i \in 0 .. n + 1 : i <= n => i \in 0 .. n
      BY <1>3
    <3>5. /\ more \in [0 .. n + 1 -> 0 .. Len(t) + Len(k)]
          /\ \A i \in 0 .. n : more[i] = cut[i] /\ more[i] \in 0 .. Len(t)
          /\ more[n + 1] = Len(t) + Len(k)
      BY <3>1, <3>2, <3>3, <3>4, Zenon
    <3>. HIDE DEF more
    <3>. QED BY <3>5
  <2>. HIDE DEF n, t, k
  <2>4. written[s] \o Held(s) = SubSeq(t \o k, 1, new[0])
    <3>1. 0 \in 0 .. n /\ 1 \in 1 .. Len(t) + 1
      BY <1>2, <1>3
    <3>2. SubSeq(t \o k, 1, cut[0]) = SubSeq(t, 1, cut[0])
      BY <1>0, <1>2, <2>3, <3>1, PiecesStay DEF k
    <3>. QED BY <2>2, <2>3, <3>1, <3>2
  <2>5. ASSUME NEW i \in 1 .. n + 1
        PROVE  /\ new[i - 1] <= new[i]
               /\ KeysOf(inbox'[i], s) = SubSeq(t \o k, new[i - 1] + 1, new[i])
    <3>1. CASE i \in 1 .. n
      <4>1. i - 1 \in 0 .. n /\ i \in 0 .. n
        BY <1>3, <3>1
      <4>2. new[i - 1] = cut[i - 1] /\ new[i] = cut[i] /\ cut[i - 1] \in 0 .. Len(t)
            /\ cut[i] \in 0 .. Len(t)
        BY <2>3, <4>1
      <4>3. SubSeq(t \o k, cut[i - 1] + 1, cut[i]) = SubSeq(t, cut[i - 1] + 1, cut[i])
        <5>1. cut[i - 1] + 1 \in 1 .. Len(t) + 1
          BY <1>2, <4>2
        <5>. QED BY <1>0, <4>2, <5>1, PiecesStay DEF k
      <4>. QED BY <1>3, <2>2, <3>1, <4>2, <4>3, Zenon
    <3>2. CASE i = n + 1
      <4>1. i - 1 = n /\ n \in 0 .. n
        BY <1>3, <3>2
      <4>2. new[i - 1] = Len(t) /\ new[i] = Len(t) + Len(k) /\ inbox'[i] = f
        BY <1>3, <2>2, <2>3, <3>2, <4>1
      <4>3. SubSeq(t \o k, Len(t) + 1, Len(t \o k)) = k
        BY <1>0, CutBack DEF k
      <4>. QED BY <1>2, <4>2, <4>3 DEF k
    <3>3. i \in 1 .. n \/ i = n + 1
      BY <1>3
    <3>. QED BY <3>1, <3>2, <3>3, Zenon
  <2>6. kept'[s] = t \o k /\ Held(s)' = Held(s)
    BY DEF t, k, Held
  <2>7. CutBy(s, new)'
    <3>1. new[Len(inbox')] = Len(kept'[s])
      BY <1>2, <1>3, <2>3, <2>6
    <3>2. \A i \in 1 .. Len(inbox') :
             /\ new[i - 1] <= new[i]
             /\ KeysOf(inbox'[i], s) = SubSeq(kept'[s], new[i - 1] + 1, new[i])
      BY <1>3, <2>5, <2>6
    <3>. QED BY <2>4, <2>6, <3>1, <3>2 DEF CutBy, KeysOf
  <2>. QED BY <1>2, <1>3, <2>3, <2>6, <2>7, Zenon
<1>. QED BY <1>1, <1>4 DEF InOrder

\* The handler takes the next frame, and holds the keys for s if it has any.
LEMMA InOrderTake ==
  ASSUME TypeOK, NEW s \in Sessions, InOrder(s),
         inbox # << >>, inbox' = Tail(inbox),
         Held(s) = << >>, Held(s)' = KeysOf(Head(inbox), s),
         UNCHANGED <<kept, written, broken, conn>>
  PROVE  InOrder(s)'
<1>. DEFINE n == Len(inbox)
            t == kept[s]
<1>0. t \in Seq(Nat) /\ written[s] \in Seq(Nat) /\ Len(t) \in Nat
  BY DEF TypeOK
<1>1. InputPipe!IsPrefix(written'[s], kept'[s])
  BY DEF InOrder
<1>2. /\ n \in Nat \ {0} /\ Len(inbox') = n - 1 /\ Head(inbox) = inbox[1]
      /\ \A i \in 1 .. n - 1 : inbox'[i] = inbox[i + 1]
  <2>1. inbox \in Seq(Range(inbox))
    BY DEF TypeOK, IsSequence
  <2>. QED BY <2>1, HeadTailProperties
<1>3. ASSUME s \notin broken'
      PROVE  \E cut \in [0 .. Len(inbox') -> 0 .. Len(kept'[s])] : CutBy(s, cut)'
  <2>1. PICK cut \in [0 .. n -> 0 .. Len(t)] : CutBy(s, cut)
    BY <1>3 DEF InOrder
  <2>2. /\ written[s] \o Held(s) = SubSeq(t, 1, cut[0])
        /\ \A i \in 1 .. n : /\ cut[i - 1] <= cut[i]
                             /\ KeysOf(inbox[i], s) = SubSeq(t, cut[i - 1] + 1, cut[i])
        /\ conn # "closed" => cut[n] = Len(t)
    BY <2>1 DEF CutBy
  <2>. HIDE DEF n, t
  <2>3. PICK new \in [0 .. n - 1 -> 0 .. Len(t)] : \A i \in 0 .. n - 1 : new[i] = cut[i + 1]
    <3>. DEFINE rest == [i \in 0 .. n - 1 |-> cut[i + 1]]
    <3>1. \A i \in 0 .. n - 1 : i + 1 \in 0 .. n
      BY <1>2
    <3>2. /\ rest \in [0 .. n - 1 -> 0 .. Len(t)]
          /\ \A i \in 0 .. n - 1 : rest[i] = cut[i + 1]
      BY <3>1, Zenon
    <3>. HIDE DEF rest
    <3>. QED BY <3>2
  <2>4. written[s] \o Held(s)' = SubSeq(t, 1, new[0])
    <3>1. 0 \in 0 .. n /\ 1 \in 0 .. n /\ 0 \in 0 .. n - 1 /\ 1 \in 1 .. n /\ 1 - 1 = 0 /\ 0 + 1 = 1
      BY <1>2
    <3>2. /\ written[s] = SubSeq(t, 1, cut[0])
          /\ cut[0] <= cut[1] /\ cut[0] \in 0 .. Len(t) /\ cut[1] \in 0 .. Len(t)
          /\ KeysOf(inbox[1], s) = SubSeq(t, cut[0] + 1, cut[1])
      <4>1. written[s] \o << >> = written[s]
        BY <1>0, ConcatEmptySeq
      <4>. QED BY <2>2, <3>1, <4>1
    <3>3. SubSeq(t, 1, cut[0]) \o SubSeq(t, cut[0] + 1, cut[1]) = SubSeq(t, 1, cut[1])
      <4>1. /\ 1 \in 1 .. Len(t) + 1 /\ cut[0] \in 1 - 1 .. Len(t)
            /\ cut[1] \in cut[0] .. Len(t)
        BY <1>0, <3>2
      <4>. QED BY <1>0, <4>1, ConcatAdjacentSubSeq, Zenon
    <3>. QED BY <1>2, <2>3, <3>1, <3>2, <3>3
  <2>5. ASSUME NEW i \in 1 .. n - 1
        PROVE  /\ new[i - 1] <= new[i]
               /\ KeysOf(inbox'[i], s) = SubSeq(t, new[i - 1] + 1, new[i])
    <3>1. /\ i + 1 \in 1 .. n /\ i - 1 \in 0 .. n - 1 /\ i \in 0 .. n - 1
          /\ (i + 1) - 1 = i /\ (i - 1) + 1 = i
      BY <1>2
    <3>2. new[i - 1] = cut[i] /\ new[i] = cut[i + 1] /\ inbox'[i] = inbox[i + 1]
      BY <1>2, <2>3, <3>1
    <3>3. /\ cut[(i + 1) - 1] <= cut[i + 1]
          /\ KeysOf(inbox[i + 1], s) = SubSeq(t, cut[(i + 1) - 1] + 1, cut[i + 1])
      BY <2>2, <3>1, Zenon
    <3>. QED BY <3>1, <3>2, <3>3
  <2>6. conn' # "closed" => new[n - 1] = Len(t)
    <3>1. n - 1 \in 0 .. n - 1 /\ (n - 1) + 1 = n
      BY <1>2
    <3>. QED BY <2>2, <2>3, <3>1
  <2>7. kept'[s] = t /\ written'[s] = written[s]
    BY DEF t
  <2>8. CutBy(s, new)'
    BY <1>2, <2>4, <2>5, <2>6, <2>7 DEF CutBy, KeysOf
  <2>. QED BY <1>2, <2>3, <2>7, <2>8, Zenon
<1>. QED BY <1>1, <1>3 DEF InOrder

LEMMA HeldIsSeq ==
  ASSUME TypeOK, NEW s
  PROVE  Held(s) \in Seq(Nat)
<1>1. handler.data \in Seq(Nat) /\ << >> \in Seq(Nat)
  BY DEF TypeOK, HandlerStates
<1>. QED BY <1>1, Zenon DEF Held

\* The terminal takes a beginning of what is held for it.
LEMMA InOrderWrite ==
  ASSUME TypeOK, NEW s \in Sessions, InOrder(s), s \notin broken,
         NEW n \in 1 .. Len(Held(s)),
         written'[s] = written[s] \o SubSeq(Held(s), 1, n),
         Held(s)' = SubSeq(Held(s), n + 1, Len(Held(s))),
         UNCHANGED <<kept, inbox, broken, conn>>
  PROVE  /\ InOrder(s)'
         /\ InputPipe!IsPrefix(written[s], written'[s])
         /\ InputPipe!IsPrefix(written'[s], kept[s])
<1>. DEFINE t == kept[s]
            x == written[s]
            h == Held(s)
            now == SubSeq(h, 1, n)
            later == SubSeq(h, n + 1, Len(h))
<1>0. t \in Seq(Nat) /\ x \in Seq(Nat) /\ h \in Seq(Nat) /\ Len(t) \in Nat /\ Len(h) \in Nat
  <2>1. t \in Seq(Nat) /\ x \in Seq(Nat) /\ h \in Seq(Nat)
    BY HeldIsSeq DEF TypeOK
  <2>. QED BY <2>1, LenProperties, Zenon
<1>1. now \in Seq(Nat) /\ later \in Seq(Nat) /\ now \o later = h
  <2>1. \A i \in 1 .. Len(h) : h[i] \in Nat
    BY <1>0
  <2>2. now \in Seq(Nat) /\ later \in Seq(Nat)
    BY <1>0, <2>1, SubSeqProperties
  <2>3. now \o later = SubSeq(h, 1, Len(h))
    BY <1>0, ConcatAdjacentSubSeq
  <2>. QED BY <1>0, <2>2, <2>3, WholeSeq
<1>. HIDE DEF now, later, t, x, h
<1>2. x \o now \in Seq(Nat) /\ (x \o now) \o later = x \o h
  <2>1. x \o now \in Seq(Nat)
    BY <1>0, <1>1, ConcatProperties, Zenon
  <2>2. (x \o now) \o later = x \o (now \o later)
    BY <1>0, <1>1, JoinThree, ZenonT(30)
  <2>. QED BY <1>1, <2>1, <2>2, Zenon
<1>3. PICK cut \in [0 .. Len(inbox) -> 0 .. Len(t)] : CutBy(s, cut)
  BY DEF InOrder, t
<1>4. x \o h = SubSeq(t, 1, cut[0])
  BY <1>3 DEF CutBy, x, h, t
<1>5. CutBy(s, cut)'
  <2>1. written'[s] \o Held(s)' = x \o h
    BY <1>2 DEF x, h, now, later
  <2>. QED BY <1>3, <1>4, <2>1 DEF CutBy, KeysOf, t
<1>6. InputPipe!IsPrefix(x \o now, t)
  <2>1. cut[0] \in 0 .. Len(t)
    <3>1. Len(inbox) \in Nat
      BY LenProperties, Zenon DEF TypeOK, IsSequence
    <3>2. 0 \in 0 .. Len(inbox)
      BY <3>1
    <3>. QED BY <1>3, <3>2, Zenon
  <2>2. Len(x \o now) <= cut[0]
    <3>1. /\ Len(x \o h) = Len(x) + Len(h) /\ Len(x \o now) = Len(x) + Len(now)
          /\ Len(h) = Len(now) + Len(later)
          /\ Len(x) \in Nat /\ Len(now) \in Nat /\ Len(later) \in Nat
      BY <1>0, <1>1, ConcatProperties
    <3>2. Len(SubSeq(t, 1, cut[0])) = cut[0]
      <4>1. \A i \in 1 .. cut[0] : t[i] \in Nat
        BY <1>0, <2>1, SMTT(30)
      <4>. QED BY <2>1, <4>1, SubSeqProperties
    <3>3. cut[0] = Len(x) + Len(h)
      BY <1>4, <3>1, <3>2, Zenon
    <3>. QED BY <3>1, <3>3
  <2>3. SubSeq(t, 1, Len(x \o now)) = x \o now
    <3>. DEFINE m == Len(x \o now)
    <3>1. m \in Nat /\ m <= cut[0] /\ m <= Len(t)
      BY <1>2, <2>1, <2>2
    <3>2. SubSeq(x \o h, 1, m) = x \o now
      <4>1. SubSeq((x \o now) \o later, 1, Len(x \o now)) = x \o now
        BY <1>1, <1>2, CutBack, Zenon
      <4>. QED BY <1>2, <4>1, Zenon
    <3>3. SubSeq(SubSeq(t, 1, cut[0]), 1, m) = SubSeq(t, 1, m)
      <4>. HIDE DEF m
      <4>1. \A i \in 1 .. cut[0] : t[i] \in Nat
        BY <1>0, <2>1, SMTT(30)
      <4>2. /\ SubSeq(t, 1, cut[0]) \in Seq(Nat)
            /\ \A i \in 1 .. cut[0] : SubSeq(t, 1, cut[0])[i] = t[i]
        BY <2>1, <4>1, SubSeqProperties
      <4>3. /\ SubSeq(t, 1, m) \in Seq(Nat) /\ Len(SubSeq(t, 1, m)) = m
            /\ \A i \in 1 .. m : SubSeq(t, 1, m)[i] = t[i]
        <5>1. \A i \in 1 .. m : t[i] \in Nat
          BY <2>1, <3>1, <4>1
        <5>. QED BY <3>1, <5>1, SubSeqProperties
      <4>4. /\ SubSeq(SubSeq(t, 1, cut[0]), 1, m) \in Seq(Nat)
            /\ Len(SubSeq(SubSeq(t, 1, cut[0]), 1, m)) = m
            /\ \A i \in 1 .. m : SubSeq(SubSeq(t, 1, cut[0]), 1, m)[i] = t[i]
        <5>1. \A i \in 1 .. m : i \in 1 .. cut[0]
          BY <2>1, <3>1
        <5>2. \A i \in 1 .. m : SubSeq(t, 1, cut[0])[i] \in Nat
          BY <4>1, <4>2, <5>1
        <5>. QED BY <3>1, <4>2, <5>1, <5>2, SubSeqProperties
      <4>. QED BY <4>3, <4>4, SeqEqual
    <3>. QED BY <1>4, <3>2, <3>3
  <2>4. Len(x \o now) <= Len(t)
    BY <1>2, <2>1, <2>2
  <2>5. SubSeq(x \o now, 1, Len(x \o now)) = x \o now
    BY <1>2, WholeSeq
  <2>. QED BY <2>3, <2>4, <2>5, Zenon DEF InputPipe!IsPrefix
<1>7. InputPipe!IsPrefix(x, x \o now)
  BY <1>0, <1>1, PrefixOfJoined
<1>8. written'[s] = x \o now /\ kept'[s] = t
  BY DEF x, now, h, t
<1>9. InOrder(s)'
  <2>1. cut \in [0 .. Len(inbox') -> 0 .. Len(kept'[s])]
    BY <1>3, <1>8
  <2>. QED BY <1>5, <1>6, <1>8, <2>1 DEF InOrder
<1>. QED BY <1>6, <1>7, <1>8, <1>9 DEF t, x

\* The peer closes: what was on the way is gone, what is held is not.
LEMMA InOrderClose ==
  ASSUME TypeOK, NEW s \in Sessions, InOrder(s),
         inbox' = << >>, conn' = "closed", UNCHANGED <<kept, written, broken, handler>>
  PROVE  InOrder(s)'
<1>1. InputPipe!IsPrefix(written'[s], kept'[s])
  BY DEF InOrder
<1>2. ASSUME s \notin broken'
      PROVE  \E cut \in [0 .. Len(inbox') -> 0 .. Len(kept'[s])] : CutBy(s, cut)'
  <2>1. PICK cut \in [0 .. Len(inbox) -> 0 .. Len(kept[s])] : CutBy(s, cut)
    BY <1>2 DEF InOrder
  <2>2. Len(inbox) \in Nat /\ Len(inbox') = 0
    BY DEF TypeOK, IsSequence
  <2>3. PICK new \in [0 .. 0 -> 0 .. Len(kept[s])] : new[0] = cut[0]
    <3>. DEFINE one == [i \in 0 .. 0 |-> cut[0]]
    <3>1. cut[0] \in 0 .. Len(kept[s])
      BY <2>1, <2>2
    <3>2. one \in [0 .. 0 -> 0 .. Len(kept[s])] /\ one[0] = cut[0]
      BY <3>1
    <3>. HIDE DEF one
    <3>. QED BY <3>2
  <2>4. Held(s)' = Held(s)
    BY DEF Held
  <2>5. CutBy(s, new)'
    BY <2>1, <2>2, <2>3, <2>4 DEF CutBy
  <2>. QED BY <2>2, <2>3, <2>5
<1>. QED BY <1>1, <1>2 DEF InOrder

LEMMA InOrderWhenTaken ==
  ASSUME TypeOK, WireFaithful, InputInOrder,
         TakeBad \/ TakeResize \/ TakeInput \/ TakeSwitch \/ TakeCreate
  PROVE  InputInOrder'
<1>1. /\ inbox # << >> /\ inbox' = Tail(inbox) /\ handler.at = "idle"
      /\ UNCHANGED <<kept, written, broken, conn>>
  BY DEF Takes, TakeBad, TakeResize, TakeInput, TakeSwitch, TakeCreate, sessVars, goVars,
         pageVars
<1>2. ASSUME NEW s \in Sessions
      PROVE  Held(s) = << >> /\ Held(s)' = KeysOf(Head(inbox), s)
  <2>1. Held(s) = << >>
    BY <1>1 DEF Held
  <2>2. CASE TakeInput
    <3>1. /\ Head(inbox).type = TermInput /\ Received = Decode(Head(inbox))
          /\ Decodable(Head(inbox)) /\ Received.id \in Sessions
      <4>1. Takes(TermInput)
        BY <2>2 DEF TakeInput
      <4>. QED BY <4>1, ParseType, TakeSteps DEF Takes, Received
    <3>2. CASE Received.id = s /\ Received.data # << >>
      <4>1. handler'.at = "write" /\ handler'.sess = s /\ handler'.data = Received.data
        BY <2>2, <3>1, <3>2 DEF TakeInput, Idle
      <4>. QED BY <2>1, <3>1, <3>2, <4>1 DEF Held, KeysOf
    <3>3. CASE Received.id = s /\ Received.data = << >>
      <4>1. handler' = handler
        BY <2>2, <3>3 DEF TakeInput
      <4>. QED BY <1>1, <2>1, <3>1, <3>3, <4>1 DEF Held, KeysOf
    <3>4. CASE Received.id # s
      <4>1. \/ handler' = handler
            \/ handler'.sess = Received.id
        BY <2>2 DEF TakeInput, Idle
      <4>2. Held(s)' = << >>
        BY <1>1, <3>4, <4>1 DEF Held
      <4>. QED BY <2>1, <3>1, <3>4, <4>2 DEF KeysOf
    <3>. QED BY <3>2, <3>3, <3>4
  <2>3. CASE TakeResize \/ TakeSwitch \/ TakeCreate
    <3>1. Head(inbox).type # TermInput
      <4>1. Received.type = Head(inbox).type
        BY ParseType DEF Received
      <4>2. Received.type \in {TermResize, SessionSwitch, SessionCreate}
        BY <2>3, Zenon DEF TakeResize, TakeSwitch, TakeCreate, Takes
      <4>. QED BY <4>1, <4>2 DEF TermInput, TermResize, SessionSwitch, SessionCreate
    <3>2. handler' = handler \/ handler'.at = "send"
      BY <2>3 DEF TakeResize, TakeSwitch, TakeCreate, Idle, goVars
    <3>3. Held(s)' = << >>
      BY <1>1, <3>2 DEF Held
    <3>. QED BY <2>1, <3>1, <3>3 DEF KeysOf
  <2>4. CASE TakeBad
    <3>1. KeysOf(Head(inbox), s) = << >>
      BY <2>4, BadSteps, Zenon
    <3>2. handler' = handler
      BY <2>4 DEF TakeBad, goVars
    <3>. QED BY <2>1, <3>1, <3>2 DEF Held
  <2>. QED BY <2>2, <2>3, <2>4
<1>3. ASSUME NEW s \in Sessions PROVE InOrder(s)'
  BY <1>1, <1>2, InOrderTake DEF InputInOrder
<1>. QED BY <1>3 DEF InputInOrder

LEMMA WriteInputSteps ==
  ASSUME TypeOK, InputInOrder, WriteInput
  PROVE  /\ InputInOrder'
         /\ \A s \in Sessions : /\ InputPipe!IsPrefix(written[s], written'[s])
                                /\ InputPipe!IsPrefix(written'[s], kept[s])
<1>0. PICK to : to = handler.sess
  OBVIOUS
<1>1. PICK n \in 1 .. Len(handler.data) :
         /\ written' = [written EXCEPT ![to] = @ \o SubSeq(handler.data, 1, n)]
         /\ handler' = IF n = Len(handler.data) THEN Idle
                       ELSE [handler EXCEPT !.data = SubSeq(@, n + 1, Len(@))]
  BY <1>0 DEF WriteInput
<1>2. /\ handler.at = "write" /\ handler.sess = to /\ to \in Sessions /\ to \notin broken
      /\ UNCHANGED <<kept, inbox, broken, conn>>
  BY <1>0 DEF WriteInput, TypeOK, netVars, pageVars
<1>3. handler.data \in Seq(Nat) /\ Len(handler.data) \in Nat /\ Held(to) = handler.data
  BY <1>2 DEF TypeOK, HandlerStates, Held
<1>4. Held(to)' = SubSeq(handler.data, n + 1, Len(handler.data))
  <2>1. CASE n = Len(handler.data)
    <3>1. Held(to)' = << >>
      BY <1>1, <2>1 DEF Held, Idle
    <3>2. SubSeq(handler.data, n + 1, Len(handler.data)) = << >>
      BY <1>3, <2>1, SubSeqEmpty
    <3>. QED BY <3>1, <3>2
  <2>2. CASE n # Len(handler.data)
    <3>1. /\ handler'.at = "write" /\ handler'.sess = to
          /\ handler'.data = SubSeq(handler.data, n + 1, Len(handler.data))
      BY <1>1, <1>2, <2>2 DEF TypeOK, HandlerStates
    <3>. QED BY <3>1, Zenon DEF Held
  <2>. QED BY <2>1, <2>2
<1>5. written'[to] = written[to] \o SubSeq(handler.data, 1, n)
  BY <1>1, <1>2 DEF TypeOK
<1>6. /\ InOrder(to)'
      /\ InputPipe!IsPrefix(written[to], written'[to])
      /\ InputPipe!IsPrefix(written'[to], kept[to])
  <2>1. InOrder(to) /\ n \in 1 .. Len(Held(to))
    BY <1>2, <1>3 DEF InputInOrder
  <2>2. /\ written'[to] = written[to] \o SubSeq(Held(to), 1, n)
        /\ Held(to)' = SubSeq(Held(to), n + 1, Len(Held(to)))
    BY <1>3, <1>4, <1>5, Zenon
  <2>. QED BY <1>2, <2>1, <2>2, InOrderWrite
<1>7. ASSUME NEW s \in Sessions, s # to
      PROVE  /\ InOrder(s)'
             /\ InputPipe!IsPrefix(written[s], written'[s])
             /\ InputPipe!IsPrefix(written'[s], kept[s])
  <2>1. InOrder(s) /\ written[s] \in Seq(Nat)
    BY DEF InputInOrder, TypeOK
  <2>2. written'[s] = written[s]
    BY <1>1, <1>7 DEF TypeOK
  <2>3. Held(s) = << >> /\ Held(s)' = << >>
    <3>1. handler'.sess = to \/ handler'.at = "idle"
      <4>1. CASE n = Len(handler.data)
        BY <1>1, <4>1 DEF Idle
      <4>2. CASE n # Len(handler.data)
        BY <1>1, <1>2, <4>2 DEF TypeOK, HandlerStates
      <4>. QED BY <4>1, <4>2
    <3>. QED BY <1>2, <1>7, <3>1 DEF Held
  <2>4. InOrder(s)'
    BY <1>2, <2>1, <2>2, <2>3, InOrderStays
  <2>5. InputPipe!IsPrefix(written[s], written[s])
    BY <2>1 DEF InputPipe!IsPrefix
  <2>. QED BY <2>1, <2>2, <2>4, <2>5 DEF InOrder
<1>8. ASSUME NEW s \in Sessions
      PROVE  /\ InOrder(s)'
             /\ InputPipe!IsPrefix(written[s], written'[s])
             /\ InputPipe!IsPrefix(written'[s], kept[s])
  BY <1>6, <1>7
<1>. QED BY <1>8, Zenon DEF InputInOrder

\* A beginning of the keys.
LEMMA PieceIsPrefix ==
  ASSUME NEW t \in Seq(Nat), NEW n \in 0 .. Len(t)
  PROVE  SubSeq(t, 1, n) \in Seq(Nat) /\ InputPipe!IsPrefix(SubSeq(t, 1, n), t)
<1>1. SubSeq(t, 1, n) \in Seq(Nat) /\ Len(SubSeq(t, 1, n)) = n /\ n <= Len(t)
  OBVIOUS
<1>. QED BY <1>1, PrefixMeans

\* What a step of the person adds to the keys for s, and what of it is in the frame it
\* posts, if it posts one.
PersonAdds(s, keys, k) ==
  /\ typed'[s] = typed[s] \o keys /\ kept'[s] = kept[s] \o k
  /\ InputPipe!IsPrefix(k, keys) /\ (Len(keys) <= MaxPayload - IdLen => k = keys)
  /\ \/ UNCHANGED inbox /\ k = << >>
     \/ \E f : inbox' = Append(inbox, f) /\ conn # "closed" /\ k = KeysOf(f, s)

LEMMA PersonInput ==
  ASSUME TypeOK, Person, NEW s \in Sessions
  PROVE  \E keys \in Seq(Nat), k \in Seq(Nat) : PersonAdds(s, keys, k)
<1>0. /\ << >> \in Seq(Nat) /\ InputPipe!IsPrefix(<< >>, << >>)
      /\ \A x \in Seq(Nat) : x \o << >> = x
      /\ typed[s] \in Seq(Nat) /\ kept[s] \in Seq(Nat)
  BY ConcatEmptySeq DEF TypeOK, InputPipe!IsPrefix
<1>1. ASSUME NEW m, Post(m), UNCHANGED <<typed, kept>>, JsEncode(m).type # TermInput
      PROVE  PersonAdds(s, << >>, << >>)
  <2>1. inbox' = Append(inbox, JsEncode(m)) /\ conn # "closed"
    BY <1>1 DEF Post, CanPost
  <2>2. KeysOf(JsEncode(m), s) = << >>
    BY <1>1 DEF KeysOf
  <2>3. typed'[s] = typed[s] \o << >> /\ kept'[s] = kept[s] \o << >>
    BY <1>0, <1>1
  <2>. QED BY <1>0, <2>1, <2>2, <2>3, Zenon DEF PersonAdds
<1>2. \A type, x : JsEncode(Control(type, x)).type = type
  BY DEF JsEncode, Frame, Control, Message
<1>3. ASSUME NEW n \in 1 .. MaxPaste, Type(n)
      PROVE  \E keys \in Seq(Nat), k \in Seq(Nat) : PersonAdds(s, keys, k)
  <2>1. PICK data \in Seq(Nat) \ {<< >>} :
          LET m == Message(TermInput, active, data)
          IN  /\ active \in Sessions
              /\ typed' = [typed EXCEPT ![active] = @ \o data]
              /\ \/ /\ Post(m)
                    /\ kept' = [kept EXCEPT ![active] = @ \o KeysOf(JsEncode(m), active)]
                 \/ /\ CanPost /\ msgs' = msgs + 1 /\ ~Fits(JsEncode(m))
                    /\ UNCHANGED <<inbox, kept>>
    BY <1>3, TypeSteps, Zenon
  <2>. DEFINE f == JsEncode(Message(TermInput, active, data))
  <2>2. /\ Fits(f) <=> IdLen + Len(data) <= MaxPayload
        /\ \A u \in Sessions : u # active => KeysOf(f, u) = << >>
        /\ \E k \in 0 .. Len(data) : KeysOf(f, active) = SubSeq(data, 1, k)
        /\ Fits(f) => KeysOf(f, active) = data
    BY <2>1, AskInput, Zenon
  <2>3. KeysOf(f, active) \in Seq(Nat) /\ InputPipe!IsPrefix(KeysOf(f, active), data)
    BY <2>2, PieceIsPrefix, Zenon
  <2>4. \/ /\ inbox' = Append(inbox, f) /\ conn # "closed"
           /\ kept' = [kept EXCEPT ![active] = @ \o KeysOf(f, active)]
        \/ ~Fits(f) /\ UNCHANGED <<inbox, kept>>
    BY <2>1 DEF Post, CanPost
  <2>. HIDE DEF f
  <2>5. Len(data) <= MaxPayload - IdLen => Fits(f)
    BY <2>2, Constants
  <2>6. CASE active # s
    <3>1. typed'[s] = typed[s] \o << >> /\ kept'[s] = kept[s] \o << >>
      BY <1>0, <2>1, <2>4, <2>6 DEF TypeOK
    <3>2. KeysOf(f, s) = << >>
      BY <2>2, <2>6
    <3>3. PersonAdds(s, << >>, << >>)
      BY <1>0, <2>4, <3>1, <3>2, Zenon DEF PersonAdds
    <3>. QED BY <1>0, <3>3
  <2>7. CASE active = s
    <3>1. typed'[s] = typed[s] \o data
      BY <2>1, <2>7 DEF TypeOK
    <3>2. ASSUME inbox' = Append(inbox, f), conn # "closed",
                 kept' = [kept EXCEPT ![active] = @ \o KeysOf(f, active)]
          PROVE  PersonAdds(s, data, KeysOf(f, s))
      <4>1. kept'[s] = kept[s] \o KeysOf(f, s)
        BY <2>7, <3>2 DEF TypeOK
      <4>. QED BY <2>2, <2>3, <2>5, <2>7, <3>1, <3>2, <4>1 DEF PersonAdds
    <3>3. ASSUME ~Fits(f), UNCHANGED <<inbox, kept>>
          PROVE  PersonAdds(s, data, << >>)
      <4>1. kept'[s] = kept[s] \o << >>
        BY <1>0, <3>3
      <4>2. InputPipe!IsPrefix(<< >>, data)
        BY <2>1 DEF InputPipe!IsPrefix
      <4>. QED BY <2>5, <3>1, <3>3, <4>1, <4>2 DEF PersonAdds
    <3>. QED BY <1>0, <2>1, <2>3, <2>4, <2>7, <3>2, <3>3, Zenon
  <2>. QED BY <2>6, <2>7
<1>4. ASSUME (\E z \in Sessions : SwitchSession(z)) \/ Resize \/ NewSession
      PROVE  \E m : Post(m) /\ UNCHANGED <<typed, kept>> /\ JsEncode(m).type # TermInput
  <2>1. TermResize # TermInput /\ SessionSwitch # TermInput /\ SessionCreate # TermInput
    BY DEF TermInput, TermResize, SessionSwitch, SessionCreate
  <2>2. ASSUME NEW z \in Sessions, SwitchSession(z)
        PROVE  \E m : Post(m) /\ UNCHANGED <<typed, kept>> /\ JsEncode(m).type # TermInput
    <3>1. Post(Control(SessionSwitch, [id |-> z])) /\ UNCHANGED <<typed, kept>>
      BY <2>2 DEF SwitchSession
    <3>. QED BY <1>2, <2>1, <3>1, Zenon
  <2>3. ASSUME Resize
        PROVE  \E m : Post(m) /\ UNCHANGED <<typed, kept>> /\ JsEncode(m).type # TermInput
    <3>1. Post(Control(TermResize, [rows |-> 24, cols |-> 80])) /\ UNCHANGED <<typed, kept>>
      BY <2>3 DEF Resize
    <3>. QED BY <1>2, <2>1, <3>1, Zenon
  <2>4. ASSUME NewSession
        PROVE  \E m : Post(m) /\ UNCHANGED <<typed, kept>> /\ JsEncode(m).type # TermInput
    <3>1. /\ Post(Control(SessionCreate, [command |-> "bash", args |-> << >>]))
          /\ UNCHANGED <<typed, kept>>
      BY <2>4 DEF NewSession
    <3>. QED BY <1>2, <2>1, <3>1, Zenon
  <2>. QED BY <1>4, <2>2, <2>3, <2>4, Zenon
<1>. QED BY <1>0, <1>1, <1>3, <1>4, Zenon DEF Person

LEMMA InputKept ==
  ASSUME TypeOK, WireFaithful, InputInOrder, [Next]_vars
  PROVE  InputInOrder'
<1>. DEFINE Aside == UNCHANGED <<kept, written, inbox, broken>>
                     /\ (conn' # "closed" => conn # "closed")
                     /\ \A s \in Sessions : Held(s)' = Held(s)
<1>1. ASSUME Aside PROVE InputInOrder'
  BY <1>1, InOrderStays DEF InputInOrder
<1>2. CASE Person
  <2>1. UNCHANGED <<written, broken, handler>>
    BY <1>2 DEF Person, Type, SwitchSession, Resize, NewSession, sessVars, goVars
  <2>3. UNCHANGED conn
    BY <1>2 DEF Person, Type, SwitchSession, Resize, NewSession
  <2>2. ASSUME NEW s \in Sessions PROVE InOrder(s)'
    <3>1. PICK keys \in Seq(Nat), k \in Seq(Nat) : PersonAdds(s, keys, k)
      BY <1>2, PersonInput, Zenon
    <3>2. InOrder(s) /\ kept[s] \in Seq(Nat) /\ kept'[s] = kept[s] \o k
      BY <3>1 DEF InputInOrder, TypeOK, PersonAdds
    <3>3. ASSUME UNCHANGED inbox, k = << >> PROVE InOrder(s)'
      <4>1. kept'[s] = kept[s]
        BY <3>2, <3>3, ConcatEmptySeq
      <4>2. Held(s)' = Held(s) /\ (conn' # "closed" => conn # "closed")
        BY <2>1, <2>3 DEF Held
      <4>. QED BY <2>1, <3>2, <3>3, <4>1, <4>2, InOrderStays
    <3>4. ASSUME NEW f, inbox' = Append(inbox, f), conn # "closed", k = KeysOf(f, s)
          PROVE  InOrder(s)'
      BY <2>1, <3>2, <3>4, InOrderPost
    <3>. QED BY <3>1, <3>3, <3>4, Zenon DEF PersonAdds
  <2>. QED BY <2>2 DEF InputInOrder
<1>3. CASE TakeBad \/ TakeResize \/ TakeInput \/ TakeSwitch \/ TakeCreate
  BY <1>3, InOrderWhenTaken, Zenon
<1>4. CASE WriteInput
  BY <1>4, WriteInputSteps, Zenon
<1>5. CASE WriteFails
  <2>1. /\ UNCHANGED <<kept, written, inbox, conn>> /\ handler' = Idle
        /\ broken' = broken \union {handler.sess}
    BY <1>5 DEF WriteFails, netVars, pageVars
  <2>2. ASSUME NEW s \in Sessions PROVE InOrder(s)'
    <3>1. s \notin broken' => s \notin broken /\ Held(s)' = Held(s)
      BY <2>1 DEF Held, Idle
    <3>. QED BY <2>1, <3>1, InOrderStays DEF InputInOrder
  <2>. QED BY <2>2 DEF InputInOrder
<1>6. CASE PeerClose
  <2>1. /\ inbox' = << >> /\ conn' = "closed"
        /\ UNCHANGED <<kept, written, broken, handler>>
    BY <1>6 DEF PeerClose, sessVars, goVars, pageVars
  <2>. QED BY <2>1, InOrderClose DEF InputInOrder
<1>7. CASE SendSwitched
  <2>1. handler.at = "send" /\ handler'.at = "idle"
    BY <1>7 DEF SendSwitched, Idle
  <2>2. \A s \in Sessions : Held(s)' = Held(s)
    BY <2>1 DEF Held
  <2>. QED BY <1>1, <1>7, <2>2 DEF SendSwitched, sessVars, pageVars
<1>8. CASE \E s \in Sessions : ReadChunk(s) \/ SendOutput(s)
  BY <1>1, <1>8 DEF ReadChunk, SendOutput, Held, goVars, netVars, pageVars
<1>9. CASE \E a \in Announcers : Announcer(a)
  BY <1>1, <1>9 DEF Announcer, AnnounceList, AnnounceSnapshot, AnnounceScrollback, Held,
     SendScrollback, sessVars, netVars, pageVars
<1>10. CASE IceUp \/ ChannelOpens \/ IceDown
  BY <1>1, <1>10 DEF IceUp, ChannelOpens, IceDown, Held, sessVars, goVars, pageVars
<1>11. CASE Page
  BY <1>1, <1>11 DEF Page, ShowBytes, ShowList, ShowError, Held, sessVars, goVars
<1>12. CASE UNCHANGED vars
  BY <1>1, <1>12 DEF vars, Held, sessVars, goVars, netVars, pageVars
<1>. QED BY <1>2, <1>3, <1>4, <1>5, <1>6, <1>7, <1>8, <1>9, <1>10, <1>11, <1>12
         DEF Next, Handler, Terminal

(***************************************************************************)
(* The theorems.                                                           *)
(***************************************************************************)

LEMMA Beginning ==
  ASSUME Init
  PROVE  IInv
<1>0. /\ stored = [s \in Sessions |-> 0] /\ from = [s \in Sessions |-> 0]
      /\ reader = [s \in Sessions |-> Resting] /\ announcer = [a \in Announcers |-> Off]
      /\ handler = Idle /\ wire = << >> /\ inbox = << >>
  BY DEF Init
<1>1. TypeOK
  <2>1. NoMsg \in Snapshots /\ Resting \in ReaderStates /\ << >> \in Seq(Nat)
    BY SnapshotsAre DEF Resting, ReaderStates
  <2>2. Off \in AnnouncerStates /\ Idle \in HandlerStates
    BY <2>1, Constants DEF Off, Idle, AnnouncerStates, HandlerStates
  <2>3. IsSequence(wire) /\ IsSequence(inbox)
    BY <1>0 DEF IsSequence, Range
  <2>4. handler.at # "write"
    BY <1>0 DEF Idle
  <2>5. /\ stored \in [Sessions -> Nat] /\ from \in [Sessions -> Nat]
        /\ reader \in [Sessions -> ReaderStates] /\ announcer \in [Announcers -> AnnouncerStates]
        /\ handler \in HandlerStates
    BY <1>0, <2>1, <2>2
  <2>6. /\ written \in [Sessions -> Seq(Nat)] /\ typed \in [Sessions -> Seq(Nat)]
        /\ kept \in [Sessions -> Seq(Nat)] /\ screen \in [Sessions -> Seq(Nat)]
    BY <2>1 DEF Init
  <2>7. /\ broken \subseteq Sessions /\ terms \subseteq Sessions /\ tabs \subseteq Sessions
        /\ active \in Sessions \union {NoSession} /\ notice \in {"none", "connected", "error"}
        /\ conn \in {"new", "up", "down", "closed"} /\ open \in BOOLEAN
    BY DEF Init
  <2>8. ups \in 0 .. MaxUps /\ msgs \in 0 .. MaxMsgs
    <3>1. MaxUps \in Nat /\ MaxMsgs \in Nat
      BY MirrorAssumption
    <3>. QED BY <3>1 DEF Init
  <2>. QED BY <2>3, <2>4, <2>5, <2>6, <2>7, <2>8 DEF TypeOK
<1>2. HandIsNewest /\ OpenBefore /\ SnapshotsSound /\ NothingMissed
  <2>1. Resting.at = "rest" /\ Resting.data = << >> /\ Off.at = "off" /\ Idle.at = "idle"
    BY DEF Resting, Off, Idle
  <2>. QED BY <1>0, <2>1 DEF HandIsNewest, OpenBefore, SnapshotsSound, NothingMissed
<1>3. WireFaithful /\ HandAfterLive /\ LiveInOrder
  <2>1. Range(<< >>) = {} /\ DOMAIN << >> = {}
    BY DEF Range
  <2>. QED BY <1>0, <2>1 DEF WireFaithful, HandAfterLive, LiveInOrder
<1>4. InputInOrder
  <2>1. /\ written = [s \in Sessions |-> << >>] /\ kept = [s \in Sessions |-> << >>]
        /\ \A s \in Sessions : Held(s) = << >>
    BY DEF Init, Idle, Held
  <2>2. InputPipe!IsPrefix(<< >>, << >>) /\ << >> \o << >> = << >>
    BY DEF InputPipe!IsPrefix
  <2>3. ASSUME NEW s \in Sessions
        PROVE  \E cut \in [0 .. Len(inbox) -> 0 .. Len(kept[s])] : CutBy(s, cut)
    <3>1. PICK none \in [0 .. 0 -> 0 .. 0] : none[0] = 0
      <4>1. [i \in 0 .. 0 |-> 0] \in [0 .. 0 -> 0 .. 0] /\ [i \in 0 .. 0 |-> 0][0] = 0
        OBVIOUS
      <4>. QED BY <4>1, Zenon
    <3>2. Len(inbox) = 0 /\ Len(kept[s]) = 0 /\ SubSeq(<< >>, 1, 0) = << >>
      BY <1>0, <2>1
    <3>3. \A i \in 1 .. Len(inbox) : FALSE
      BY <3>2
    <3>4. CutBy(s, none)
      BY <2>1, <2>2, <3>1, <3>2, <3>3 DEF CutBy
    <3>. QED BY <3>1, <3>2, <3>4, Zenon
  <2>. QED BY <2>1, <2>2, <2>3, Zenon DEF InputInOrder, InOrder
<1>. QED BY <1>1, <1>2, <1>3, <1>4 DEF IInv

LEMMA EveryStep ==
  ASSUME IInv, [Next]_vars
  PROVE  IInv'
<1>1. /\ TypeOK /\ HandIsNewest /\ OpenBefore /\ WireFaithful
      /\ SnapshotsSound /\ NothingMissed /\ HandAfterLive /\ LiveInOrder
      /\ InputInOrder
  BY DEF IInv
<1>2. TypeOK'
  BY <1>1, TypesKept
<1>3. HandIsNewest'
  BY <1>1, HandKept
<1>4. WireFaithful'
  BY <1>1, WireKept
<1>5. OpenBefore'
  BY <1>1, OpenKept
<1>6. SnapshotsSound'
  BY <1>1, SnapshotsKept
<1>7. NothingMissed'
  BY <1>1, NothingMissedKept
<1>8. HandAfterLive'
  BY <1>1, HandAfterLiveKept
<1>9. LiveInOrder'
  BY <1>1, <1>2, LiveInOrderKept
<1>10. InputInOrder'
  BY <1>1, InputKept
<1>. QED BY <1>2, <1>3, <1>4, <1>5, <1>6, <1>7, <1>8, <1>9, <1>10 DEF IInv

LEMMA Always == Spec => []IInv
<1>1. Init => IInv
  BY Beginning
<1>2. IInv /\ [Next]_vars => IInv'
  BY EveryStep
<1>. QED BY <1>1, <1>2, PTL DEF Spec

\* Sessions, goroutines, handler, channel and page keep to their types, for any
\* number of sessions and of connections, any ring and any length of input.
THEOREM MirrorTypeOK == Spec => []TypeOK
<1>1. IInv => TypeOK
  BY DEF IInv
<1>. QED BY <1>1, Always, PTL

\* From the first scrollback of a session on, no byte falls between the snapshot
\* and the live output, whoever sent it and whatever readLoop did in between.
THEOREM MirrorNothingMissed == Spec => []NothingMissed
<1>1. IInv => NothingMissed
  BY DEF IInv
<1>. QED BY <1>1, Always, PTL

\* What codec.go encodes protocol.js takes in full, and the other way round as long as
\* it fits: every such frame on the way is one the other side accepts, and means what
\* was said.  A longer paste protocol.js sends all the same; codec.go refuses it or
\* takes less of it, and for no session but one of its own.
THEOREM MirrorWireFaithful == Spec => []WireFaithful
<1>1. IInv => WireFaithful
  BY DEF IInv
<1>. QED BY <1>1, Always, PTL

\* Live output on the way is in order and without a hole up to readLoop's hands,
\* also over a time when ICE was down.
THEOREM MirrorLiveInOrder == Spec => []LiveInOrder
<1>1. IInv => LiveInOrder
  BY DEF IInv
<1>. QED BY <1>1, Always, PTL

\* The keys typed at a terminal reach its program as Pipe promises, whatever their
\* number: what is written grows only at its end, and is a beginning of what went in,
\* however the host cuts its writes and whatever breaks or closes; and what is typed at
\* one time goes in whole, unless it does not fit in a frame: then less of it does.
THEOREM MirrorInputImplementsPipe == Spec => InputImplementsPipe
<1>1. Init => InputPipe!Init
  BY DEF Init, InputPipe!Init
<1>2. IInv /\ [Next]_vars
        => [InputPipe!Put \/ InputPipe!Take]_(InputPipe!vars)
  <2>. SUFFICES ASSUME IInv, [Next]_vars
                PROVE  [InputPipe!Put \/ InputPipe!Take]_(InputPipe!vars)
    OBVIOUS
  <2>0. TypeOK /\ InputInOrder
    BY DEF IInv
  <2>1. CASE Person
    <3>1. UNCHANGED written
      BY <2>1 DEF Person, Type, SwitchSession, Resize, NewSession, sessVars
    <3>2. ASSUME NEW s \in Sessions
          PROVE  LET keys == InputPipe!Added(typed[s], typed'[s])
                     k == InputPipe!Added(kept[s], kept'[s])
                 IN  /\ InputPipe!IsPrefix(typed[s], typed'[s])
                     /\ InputPipe!IsPrefix(kept[s], kept'[s])
                     /\ InputPipe!IsPrefix(k, keys)
                     /\ Len(keys) <= MaxPayload - IdLen => k = keys
      <4>1. PICK keys \in Seq(Nat), k \in Seq(Nat) : PersonAdds(s, keys, k)
        BY <2>0, <2>1, PersonInput, Zenon
      <4>2. typed[s] \in Seq(Nat) /\ kept[s] \in Seq(Nat)
        BY <2>0 DEF TypeOK
      <4>3. /\ InputPipe!Added(typed[s], typed'[s]) = keys
            /\ InputPipe!Added(kept[s], kept'[s]) = k
        <5>1. \A x, y \in Seq(Nat) : InputPipe!Added(x, x \o y) = y
          BY CutBack, Zenon DEF InputPipe!Added
        <5>2. typed'[s] = typed[s] \o keys /\ kept'[s] = kept[s] \o k
          BY <4>1 DEF PersonAdds
        <5>. QED BY <4>2, <5>1, <5>2, Zenon
      <4>4. InputPipe!IsPrefix(typed[s], typed'[s]) /\ InputPipe!IsPrefix(kept[s], kept'[s])
        BY <4>1, <4>2, PrefixOfJoined DEF PersonAdds
      <4>. QED BY <4>1, <4>3, <4>4, Zenon DEF PersonAdds
    <3>. QED BY <3>1, <3>2, Zenon DEF InputPipe!Put
  <2>2. CASE WriteInput
    <3>1. UNCHANGED <<typed, kept>>
      BY <2>2 DEF WriteInput, netVars, pageVars
    <3>2. \A s \in Sessions : /\ InputPipe!IsPrefix(written[s], written'[s])
                              /\ InputPipe!IsPrefix(written'[s], kept[s])
      BY <2>0, <2>2, WriteInputSteps, Zenon
    <3>. QED BY <3>1, <3>2 DEF InputPipe!Take
  <2>3. CASE ~Person /\ ~WriteInput
    <3>1. UNCHANGED <<typed, kept, written>>
      <4>1. CASE \E s \in Sessions : ReadChunk(s) \/ SendOutput(s)
        BY <4>1 DEF ReadChunk, SendOutput, pageVars
      <4>2. CASE \E a \in Announcers : Announcer(a)
        BY <4>2 DEF Announcer, AnnounceList, AnnounceSnapshot, AnnounceScrollback,
           sessVars, pageVars
      <4>3. CASE Handler \/ WriteFails
        BY <4>3 DEF Handler, TakeBad, TakeResize, TakeInput, TakeSwitch, SendSwitched, TakeCreate,
           WriteFails, sessVars, pageVars
      <4>4. CASE IceUp \/ ChannelOpens \/ IceDown \/ PeerClose
        BY <4>4 DEF IceUp, ChannelOpens, IceDown, PeerClose, sessVars, pageVars
      <4>5. CASE Page
        BY <4>5 DEF Page, ShowBytes, ShowList, ShowError, sessVars
      <4>6. CASE UNCHANGED vars
        BY <4>6 DEF vars, sessVars, pageVars
      <4>. QED BY <2>3, <4>1, <4>2, <4>3, <4>4, <4>5, <4>6 DEF Next, Terminal
    <3>. QED BY <3>1 DEF InputPipe!vars
  <2>. QED BY <2>1, <2>2, <2>3
<1>. QED BY <1>1, <1>2, Always, PTL DEF Spec, InputImplementsPipe, InputPipe!Spec
=============================================================================
