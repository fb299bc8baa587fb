------------------------------- MODULE Codec -------------------------------
(***************************************************************************)
(* The wire format, written twice: in Go for the host (internal/protocol)  *)
(* and in JavaScript for the page (web/js/protocol.js).                    *)
(*                                                                         *)
(* A frame is one type byte, a length of two bytes and a body.  The body   *)
(* of a terminal message is a session id of IdLen bytes and raw bytes; of  *)
(* any other message it is a JSON text, here a sequence of one element,    *)
(* the object, whose fields the receiver looks up by name.  The channel    *)
(* keeps the bounds of messages, so a frame is never torn.                 *)
(***************************************************************************)
EXTENDS Naturals, Sequences

CONSTANTS Base,   \* values of a byte, 256 in the program
          IdLen   \* SessionIDSize, 16 in the program

ASSUME CodecAssumption == Base \in Nat /\ Base > 1 /\ IdLen \in Nat \ {0}

MaxPayload == Base * Base - 1

TermOutput    == 1
TermInput     == 2
TermResize    == 3
SessionList   == 6
SessionCreate == 7
SessionSwitch == 9
Scrollback    == 10
ErrorNote     == 15

ValidTypes    == 1 .. 12 \union {15}
TerminalTypes == {TermOutput, TermInput, Scrollback}

Message(type, id, data) == [type |-> type, id |-> id, data |-> data]

\* A control message carries no session id, whatever its sender knows.
Control(type, object) == Message(type, << >>, <<object>>)

\* What json.Unmarshal leaves in a field: zero when the text has no such name.
Field(object, name, zero) ==
  IF name \in DOMAIN object THEN object[name] ELSE zero

\* The two length bytes, high one first, and the number they stand for.
Frame(type, body) ==
  [type |-> type, hi |-> (Len(body) \div Base) % Base, lo |-> Len(body) % Base,
   body |-> body]
LengthOf(f) == f.hi * Base + f.lo

\* What a receiver takes for the payload: it looks no further than the length.
PayloadOf(f) == SubSeq(f.body, 1, LengthOf(f))
Parse(f) ==
  IF f.type \in TerminalTypes
  THEN Message(f.type, SubSeq(PayloadOf(f), 1, IdLen),
               SubSeq(PayloadOf(f), IdLen + 1, LengthOf(f)))
  ELSE Message(f.type, << >>, PayloadOf(f))

Whole(f) == /\ Len(f.body) >= LengthOf(f)
            /\ f.type \in TerminalTypes => LengthOf(f) >= IdLen

(***************************************************************************)
(* codec.go                                                                *)
(***************************************************************************)

BodyOf(m) == IF m.type \in TerminalTypes THEN m.id \o m.data ELSE m.data

\* A slip: the limit is compared with the bytes to send, not with the payload.
EncodableWithoutId(m) ==
  /\ m.type \in TerminalTypes => Len(m.id) = IdLen
  /\ Len(m.data) <= MaxPayload

\* Encode returns no error.
Encodable(m) ==
  /\ m.type \in TerminalTypes => Len(m.id) = IdLen
  /\ Len(BodyOf(m)) <= MaxPayload

Encode(m) == Frame(m.type, BodyOf(m))

\* Decode returns no error.
Decodable(f) == f.type \in ValidTypes /\ Whole(f)
Decode(f) == Parse(f)

(***************************************************************************)
(* protocol.js.  There is no limit on the payload and no error: an id is   *)
(* cut or padded, and of a length the lower 16 bits go out.                *)
(***************************************************************************)

JsId(id) == [i \in 1 .. IdLen |-> IF i <= Len(id) THEN id[i] ELSE 0]
JsEncode(m) ==
  Frame(m.type, IF m.type \in TerminalTypes THEN JsId(m.id) \o m.data ELSE m.data)

\* decode throws nothing; a type it does not know is left to its caller.
JsDecodable(f) == Whole(f)
JsDecode(f) == Parse(f)
=============================================================================
