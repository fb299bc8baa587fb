-------------------------- MODULE SignalingProofs --------------------------
(***************************************************************************)
(* Proofs about Signaling for any phones, peers, attempts and failures.    *)
(***************************************************************************)
EXTENDS Signaling, TLAPS

\* At the start nothing is offered, answered or accepted.
LEMMA InitIInv == Init => IInv
  <1> SUFFICES ASSUME Init PROVE IInv
    OBVIOUS
  <1> USE SignalingAssumption
  <1>1. TypeOK
    BY DEF Init, TypeOK, PeerTypes, RelayTypes, LoopTypes, PhoneTypes, Peers, Tries,
           Nil, LoopSteps, Conns, TrySteps, Kinds
  <1>2. PeerExists /\ LanAsked /\ OfferStands
    BY DEF Init, PeerExists, LanAsked, OfferStands
  <1>3. NotYetSent /\ AnswerIsNew /\ AnswerUsedOnce
    BY DEF Init, NotYetSent, AnswerIsNew, AnswerUsedOnce, Unused, Tries, Nil
  <1> QED BY <1>1, <1>2, <1>3 DEF IInv

(***************************************************************************)
(* The operations of peerManager.                                          *)
(***************************************************************************)

\* newOffer leaves a new peer that can take an answer.
LEMMA NewOfferMakes ==
  ASSUME PeerTypes, NewOffer
  PROVE  /\ PeerTypes'
         /\ made + 1 \in Peers /\ made + 1 # Nil
         /\ made' = made + 1 /\ peer' = made + 1 /\ accepted' = accepted
         /\ conn'[made + 1] = "offered"
         /\ made \in Nat /\ \A i \in 0 .. made : i \in 0 .. made'
  <1> USE SignalingAssumption
  <1>1. /\ made \in Nat /\ made + 1 \in Peers /\ made + 1 # Nil
        /\ made' = made + 1 /\ peer' = made + 1 /\ accepted' = accepted
        /\ made' \in 0 .. MaxPeers /\ peer' \in 0 .. made'
        /\ \A i \in 0 .. made : i \in 0 .. made'
    BY DEF PeerTypes, NewOffer, Peers, Nil
  <1>2. PreviousClosed \in [Peers -> Conns]
    BY DEF PeerTypes, PreviousClosed, Conns
  <1>3. conn' = [PreviousClosed EXCEPT ![made + 1] = "offered"]
    BY DEF NewOffer
  <1>4. conn' \in [Peers -> Conns] /\ conn'[made + 1] = "offered"
    BY <1>1, <1>2, <1>3 DEF Conns
  <1> QED BY <1>1, <1>4 DEF PeerTypes

\* A failing newOffer closes the previous peer and keeps it.
LEMMA NewOfferFailing ==
  ASSUME PeerTypes, NewOfferFails
  PROVE  PeerTypes' /\ made' = made /\ peer' = peer /\ accepted' = accepted
  BY DEF PeerTypes, NewOfferFails, PreviousClosed, Conns

\* An answer that is accepted is the peer's, and no other peer changes.
LEMMA AcceptTakes ==
  ASSUME PeerTypes, NEW p \in Peers, NEW a \in Tries \union {Nil}, Accept(p, a)
  PROVE  /\ PeerTypes' /\ made' = made /\ peer' = peer
         /\ accepted'[p] = a
         /\ \A q \in Peers : q # p => accepted'[q] = accepted[q]
  <1>1. conn' \in [Peers -> Conns]
    BY DEF PeerTypes, Accept, Conns
  <1>2. /\ accepted' \in [Peers -> Tries \union {Nil}]
        /\ accepted'[p] = a
        /\ \A q \in Peers : q # p => accepted'[q] = accepted[q]
    BY DEF PeerTypes, Accept
  <1> QED BY <1>1, <1>2 DEF PeerTypes, Accept

\* A call of connect() that moves on, with an offer or a peer or without.
LEMMA TryMoves ==
  ASSUME NEW D, NEW a \in Tries, NEW x \in TrySteps, NEW i \in D,
         try \in [Tries -> [at : TrySteps, phone : Phones, offer : D, target : D]]
  PROVE  /\ [try EXCEPT ![a].at = x] \in
               [Tries -> [at : TrySteps, phone : Phones, offer : D, target : D]]
         /\ [try EXCEPT ![a].at = x, ![a].offer = i] \in
               [Tries -> [at : TrySteps, phone : Phones, offer : D, target : D]]
         /\ [try EXCEPT ![a].at = x, ![a].target = i] \in
               [Tries -> [at : TrySteps, phone : Phones, offer : D, target : D]]
  OBVIOUS

(***************************************************************************)
(* Every step keeps the inductive invariant.                               *)
(***************************************************************************)

LEMMA LoopNewOfferKeepsIInv ==
  ASSUME IInv, LoopNewOffer
  PROVE  IInv'
  <1> USE SignalingAssumption DEF IInv, LoopNewOffer, NewOffer, NewOfferFails, PreviousClosed, peerVars, relayVars, phoneVars
  <1>1. TypeOK'
    <2>1. PeerTypes'
      BY NewOfferMakes, NewOfferFailing DEF TypeOK
    <2>2. RelayTypes'
      BY DEF TypeOK, PeerTypes, RelayTypes, LoopTypes, Tries, Nil, Kinds
    <2>3. LoopTypes'
      <3>1. CASE NewOffer /\ loop' = [loop EXCEPT !.at = "delete", !.offer = made + 1]
        <4>1. loop' \in [at : LoopSteps, first : BOOLEAN, offer : 0 .. made',
                         answer : Tries \union {Nil}, peer : 0 .. made', target : 0 .. made',
                         seen : BOOLEAN]
          BY <3>1, NewOfferMakes DEF TypeOK, LoopTypes, LoopSteps, PeerTypes
        <4> QED BY <3>1, <4>1 DEF TypeOK, LoopTypes, LoopSteps
      <3>2. CASE NewOfferFails /\ loop' = [loop EXCEPT !.at = IF loop.first THEN "off" ELSE "poll"]
        BY <3>2, NewOfferFailing DEF TypeOK, LoopTypes, LoopSteps
      <3> QED BY <3>1, <3>2
    <2>4. PhoneTypes'
      <3>1. \A i \in 0 .. made : i \in 0 .. made'
        BY NewOfferMakes, NewOfferFailing DEF TypeOK
      <3>2. try \in [Tries -> [at : TrySteps, phone : Phones,
                               offer : 0 .. made', target : 0 .. made']]
        BY <3>1 DEF TypeOK, PhoneTypes
      <3> QED BY <3>2 DEF TypeOK, PhoneTypes
    <2> QED BY <2>1, <2>2, <2>3, <2>4 DEF TypeOK
  <1>2. PeerExists'
    BY NewOfferMakes, NewOfferFailing DEF TypeOK, LoopTypes, PeerExists
  <1>3. LanAsked'
    BY DEF TypeOK, PhoneTypes, LanAsked, Nil
  <1>4. OfferStands'
    <2>1. CASE NewOffer /\ loop' = [loop EXCEPT !.at = "delete", !.offer = made + 1]
      BY <2>1, NewOfferMakes DEF TypeOK, LoopTypes, OfferStands
    <2>2. CASE "make" \in disturbed'
      BY <2>2 DEF OfferStands
    <2> QED BY <2>1, <2>2
  <1>5. NotYetSent'
    BY DEF TypeOK, RelayTypes, PhoneTypes, LoopTypes, NotYetSent, Unused, Tries, Nil
  <1>6. AnswerIsNew'
    BY DEF TypeOK, RelayTypes, PhoneTypes, LoopTypes, NotYetSent, AnswerIsNew, Unused, Tries, Nil
  <1>7. AnswerUsedOnce'
    BY DEF TypeOK, PeerTypes, LoopTypes, NotYetSent, AnswerIsNew, AnswerUsedOnce, Unused, Peers, Tries, Nil
  <1> QED BY <1>1, <1>2, <1>3, <1>4, <1>5, <1>6, <1>7

LEMMA DeleteAnswerKeepsIInv ==
  ASSUME IInv, DeleteAnswer
  PROVE  IInv'
  <1> USE SignalingAssumption DEF IInv, DeleteAnswer, peerVars, relayVars, phoneVars
  <1>1. TypeOK'
    <2>1. PeerTypes'
      BY DEF TypeOK, PeerTypes, Peers, Tries, Nil, Conns
    <2>2. RelayTypes'
      BY DEF TypeOK, PeerTypes, RelayTypes, LoopTypes, Tries, Nil, Kinds
    <2>3. LoopTypes'
      BY DEF TypeOK, PeerTypes, RelayTypes, LoopTypes, PeerExists, Tries, Nil, LoopSteps
    <2>4. PhoneTypes'
      BY DEF TypeOK, PeerTypes, RelayTypes, PhoneTypes, Tries, Nil, TrySteps
    <2> QED BY <2>1, <2>2, <2>3, <2>4 DEF TypeOK
  <1>2. PeerExists'
    BY DEF TypeOK, PeerTypes, PeerExists, Nil, Peers
  <1>3. LanAsked'
    BY DEF TypeOK, PhoneTypes, LanAsked, Nil
  <1>4. OfferStands'
    BY DEF TypeOK, PeerTypes, LoopTypes, PeerExists, LanAsked, OfferStands, Peers, Nil
  <1>5. NotYetSent'
    BY DEF TypeOK, RelayTypes, PhoneTypes, LoopTypes, NotYetSent, Unused, Tries, Nil
  <1>6. AnswerIsNew'
    BY DEF TypeOK, RelayTypes, PhoneTypes, LoopTypes, NotYetSent, AnswerIsNew, Unused, Tries, Nil
  <1>7. AnswerUsedOnce'
    BY DEF TypeOK, PeerTypes, LoopTypes, NotYetSent, AnswerIsNew, AnswerUsedOnce, Unused, Peers, Tries, Nil
  <1> QED BY <1>1, <1>2, <1>3, <1>4, <1>5, <1>6, <1>7

LEMMA PutOfferKeepsIInv ==
  ASSUME IInv, PutOffer
  PROVE  IInv'
  <1> USE SignalingAssumption DEF IInv, PutOffer, peerVars, relayVars, phoneVars
  <1>1. TypeOK'
    <2>1. PeerTypes'
      BY DEF TypeOK, PeerTypes, Peers, Tries, Nil, Conns
    <2>2. RelayTypes'
      BY DEF TypeOK, PeerTypes, RelayTypes, LoopTypes, Tries, Nil, Kinds
    <2>3. LoopTypes'
      BY ZenonT(30) DEF TypeOK, PeerTypes, RelayTypes, LoopTypes, PeerExists, Tries, Nil, LoopSteps
    <2>4. PhoneTypes'
      BY DEF TypeOK, PeerTypes, RelayTypes, PhoneTypes, Tries, Nil, TrySteps
    <2> QED BY <2>1, <2>2, <2>3, <2>4 DEF TypeOK
  <1>2. PeerExists'
    BY DEF TypeOK, PeerTypes, PeerExists, Nil, Peers
  <1>3. LanAsked'
    BY DEF TypeOK, PhoneTypes, LanAsked, Nil
  <1>4. OfferStands'
    BY DEF TypeOK, PeerTypes, LoopTypes, PeerExists, LanAsked, OfferStands, Peers, Nil
  <1>5. NotYetSent'
    BY DEF TypeOK, RelayTypes, PhoneTypes, LoopTypes, NotYetSent, Unused, Tries, Nil
  <1>6. AnswerIsNew'
    BY DEF TypeOK, RelayTypes, PhoneTypes, LoopTypes, NotYetSent, AnswerIsNew, Unused, Tries, Nil
  <1>7. AnswerUsedOnce'
    BY DEF TypeOK, PeerTypes, LoopTypes, NotYetSent, AnswerIsNew, AnswerUsedOnce, Unused, Peers, Tries, Nil
  <1> QED BY <1>1, <1>2, <1>3, <1>4, <1>5, <1>6, <1>7

LEMMA PollAnswerKeepsIInv ==
  ASSUME IInv, PollAnswer
  PROVE  IInv'
  <1> USE SignalingAssumption DEF IInv, PollAnswer, peerVars, relayVars, phoneVars
  <1>1. TypeOK'
    <2>1. PeerTypes'
      BY DEF TypeOK, PeerTypes, Peers, Tries, Nil, Conns
    <2>2. RelayTypes'
      BY DEF TypeOK, PeerTypes, RelayTypes, LoopTypes, Tries, Nil, Kinds
    <2>3. LoopTypes'
      BY DEF TypeOK, PeerTypes, RelayTypes, LoopTypes, PeerExists, Tries, Nil, LoopSteps
    <2>4. PhoneTypes'
      BY DEF TypeOK, PeerTypes, RelayTypes, PhoneTypes, Tries, Nil, TrySteps
    <2> QED BY <2>1, <2>2, <2>3, <2>4 DEF TypeOK
  <1>2. PeerExists'
    BY DEF TypeOK, PeerTypes, PeerExists, Nil, Peers
  <1>3. LanAsked'
    BY DEF TypeOK, PhoneTypes, LanAsked, Nil
  <1>4. OfferStands'
    BY DEF TypeOK, PeerTypes, LoopTypes, PeerExists, LanAsked, OfferStands, Peers, Nil
  <1>5. NotYetSent'
    BY DEF TypeOK, RelayTypes, PhoneTypes, LoopTypes, NotYetSent, Unused, Tries, Nil
  <1>6. AnswerIsNew'
    BY DEF TypeOK, RelayTypes, PhoneTypes, LoopTypes, NotYetSent, AnswerIsNew, Unused, Tries, Nil
  <1>7. AnswerUsedOnce'
    BY DEF TypeOK, PeerTypes, LoopTypes, NotYetSent, AnswerIsNew, AnswerUsedOnce, Unused, Peers, Tries, Nil
  <1> QED BY <1>1, <1>2, <1>3, <1>4, <1>5, <1>6, <1>7

LEMMA LoopReadPeerKeepsIInv ==
  ASSUME IInv, LoopReadPeer
  PROVE  IInv'
  <1> USE SignalingAssumption DEF IInv, LoopReadPeer, peerVars, relayVars, phoneVars
  <1>1. TypeOK'
    <2>1. PeerTypes'
      BY DEF TypeOK, PeerTypes, Peers, Tries, Nil, Conns
    <2>2. RelayTypes'
      BY DEF TypeOK, PeerTypes, RelayTypes, LoopTypes, Tries, Nil, Kinds
    <2>3. LoopTypes'
      BY DEF TypeOK, PeerTypes, RelayTypes, LoopTypes, PeerExists, Tries, Nil, LoopSteps
    <2>4. PhoneTypes'
      BY DEF TypeOK, PeerTypes, RelayTypes, PhoneTypes, Tries, Nil, TrySteps
    <2> QED BY <2>1, <2>2, <2>3, <2>4 DEF TypeOK
  <1>2. PeerExists'
    BY DEF TypeOK, PeerTypes, PeerExists, Nil, Peers
  <1>3. LanAsked'
    BY DEF TypeOK, PhoneTypes, LanAsked, Nil
  <1>4. OfferStands'
    BY DEF TypeOK, PeerTypes, LoopTypes, PeerExists, LanAsked, OfferStands, Peers, Nil
  <1>5. NotYetSent'
    BY DEF TypeOK, RelayTypes, PhoneTypes, LoopTypes, NotYetSent, Unused, Tries, Nil
  <1>6. AnswerIsNew'
    BY DEF TypeOK, RelayTypes, PhoneTypes, LoopTypes, NotYetSent, AnswerIsNew, Unused, Tries, Nil
  <1>7. AnswerUsedOnce'
    BY DEF TypeOK, PeerTypes, LoopTypes, NotYetSent, AnswerIsNew, AnswerUsedOnce, Unused, Peers, Tries, Nil
  <1> QED BY <1>1, <1>2, <1>3, <1>4, <1>5, <1>6, <1>7

LEMMA LoopSetAnswerKeepsIInv ==
  ASSUME IInv, LoopSetAnswer
  PROVE  IInv'
  <1> USE SignalingAssumption DEF IInv, LoopSetAnswer, Accept, Refuse, peerVars, relayVars, phoneVars
  <1>1. TypeOK'
    <2>1. PeerTypes'
      <3>1. loop.target \in Peers /\ loop.answer \in Tries \union {Nil}
        BY DEF TypeOK, PeerTypes, LoopTypes, Peers, Nil
      <3> QED BY <3>1, AcceptTakes DEF TypeOK, PeerTypes
    <2>2. RelayTypes'
      BY DEF TypeOK, PeerTypes, RelayTypes, LoopTypes, Tries, Nil, Kinds
    <2>3. LoopTypes'
      BY DEF TypeOK, PeerTypes, RelayTypes, LoopTypes, PeerExists, Tries, Nil, LoopSteps
    <2>4. PhoneTypes'
      BY DEF TypeOK, PeerTypes, RelayTypes, PhoneTypes, Tries, Nil, TrySteps
    <2> QED BY <2>1, <2>2, <2>3, <2>4 DEF TypeOK
  <1>2. PeerExists'
    BY DEF TypeOK, PeerTypes, PeerExists, Nil, Peers
  <1>3. LanAsked'
    BY DEF TypeOK, PhoneTypes, LanAsked, Nil
  <1>4. OfferStands'
    BY DEF TypeOK, PeerTypes, LoopTypes, PeerExists, LanAsked, OfferStands, Peers, Nil
  <1>5. NotYetSent'
    <2>1. loop.target \in Peers /\ loop.answer \in Tries \union {Nil}
      BY DEF TypeOK, PeerTypes, LoopTypes, Peers, Nil
    <2>2. CASE Accept(loop.target, loop.answer)
      <3>1. \A q \in Peers : accepted'[q] \in {loop.answer, accepted[q]}
        BY <2>1, <2>2, AcceptTakes DEF TypeOK
      <3>2. loop'.answer = loop.answer
        BY DEF TypeOK, LoopTypes
      <3> QED BY <3>1, <3>2 DEF NotYetSent, Unused
    <2>3. CASE Refuse(loop.target)
      BY <2>3 DEF TypeOK, LoopTypes, NotYetSent, Unused
    <2> QED BY <2>2, <2>3
  <1>6. AnswerIsNew'
    BY ZenonT(30) DEF TypeOK, RelayTypes, PhoneTypes, LoopTypes, NotYetSent, AnswerIsNew, Unused, Tries, Nil
  <1>7. AnswerUsedOnce'
    BY SMTT(30) DEF TypeOK, PeerTypes, LoopTypes, NotYetSent, AnswerIsNew, AnswerUsedOnce, Unused, Peers, Tries, Nil
  <1> QED BY <1>1, <1>2, <1>3, <1>4, <1>5, <1>6, <1>7

LEMMA SeeUpKeepsIInv ==
  ASSUME IInv, SeeUp
  PROVE  IInv'
  <1> USE SignalingAssumption DEF IInv, SeeUp, peerVars, relayVars, phoneVars
  <1>1. TypeOK'
    <2>1. PeerTypes'
      BY DEF TypeOK, PeerTypes, Peers, Tries, Nil, Conns
    <2>2. RelayTypes'
      BY DEF TypeOK, PeerTypes, RelayTypes, LoopTypes, Tries, Nil, Kinds
    <2>3. LoopTypes'
      BY DEF TypeOK, PeerTypes, RelayTypes, LoopTypes, PeerExists, Tries, Nil, LoopSteps
    <2>4. PhoneTypes'
      BY DEF TypeOK, PeerTypes, RelayTypes, PhoneTypes, Tries, Nil, TrySteps
    <2> QED BY <2>1, <2>2, <2>3, <2>4 DEF TypeOK
  <1>2. PeerExists'
    BY DEF TypeOK, PeerTypes, PeerExists, Nil, Peers
  <1>3. LanAsked'
    BY DEF TypeOK, PhoneTypes, LanAsked, Nil
  <1>4. OfferStands'
    BY DEF TypeOK, PeerTypes, LoopTypes, PeerExists, LanAsked, OfferStands, Peers, Nil
  <1>5. NotYetSent'
    BY DEF TypeOK, RelayTypes, PhoneTypes, LoopTypes, NotYetSent, Unused, Tries, Nil
  <1>6. AnswerIsNew'
    BY DEF TypeOK, RelayTypes, PhoneTypes, LoopTypes, NotYetSent, AnswerIsNew, Unused, Tries, Nil
  <1>7. AnswerUsedOnce'
    BY DEF TypeOK, PeerTypes, LoopTypes, NotYetSent, AnswerIsNew, AnswerUsedOnce, Unused, Peers, Tries, Nil
  <1> QED BY <1>1, <1>2, <1>3, <1>4, <1>5, <1>6, <1>7

LEMMA SeeEndKeepsIInv ==
  ASSUME IInv, SeeEnd
  PROVE  IInv'
  <1> USE SignalingAssumption DEF IInv, SeeEnd, peerVars, relayVars, phoneVars
  <1>1. TypeOK'
    <2>1. PeerTypes'
      BY DEF TypeOK, PeerTypes, Peers, Tries, Nil, Conns
    <2>2. RelayTypes'
      BY DEF TypeOK, PeerTypes, RelayTypes, LoopTypes, Tries, Nil, Kinds
    <2>3. LoopTypes'
      BY DEF TypeOK, PeerTypes, RelayTypes, LoopTypes, PeerExists, Tries, Nil, LoopSteps
    <2>4. PhoneTypes'
      BY DEF TypeOK, PeerTypes, RelayTypes, PhoneTypes, Tries, Nil, TrySteps
    <2> QED BY <2>1, <2>2, <2>3, <2>4 DEF TypeOK
  <1>2. PeerExists'
    BY DEF TypeOK, PeerTypes, PeerExists, Nil, Peers
  <1>3. LanAsked'
    BY DEF TypeOK, PhoneTypes, LanAsked, Nil
  <1>4. OfferStands'
    BY DEF TypeOK, PeerTypes, LoopTypes, PeerExists, LanAsked, OfferStands, Peers, Nil
  <1>5. NotYetSent'
    BY DEF TypeOK, RelayTypes, PhoneTypes, LoopTypes, NotYetSent, Unused, Tries, Nil
  <1>6. AnswerIsNew'
    BY DEF TypeOK, RelayTypes, PhoneTypes, LoopTypes, NotYetSent, AnswerIsNew, Unused, Tries, Nil
  <1>7. AnswerUsedOnce'
    BY DEF TypeOK, PeerTypes, LoopTypes, NotYetSent, AnswerIsNew, AnswerUsedOnce, Unused, Peers, Tries, Nil
  <1> QED BY <1>1, <1>2, <1>3, <1>4, <1>5, <1>6, <1>7

LEMMA DeadlineKeepsIInv ==
  ASSUME IInv, Deadline
  PROVE  IInv'
  <1> USE SignalingAssumption DEF IInv, Deadline, peerVars, relayVars, phoneVars
  <1>1. TypeOK'
    <2>1. PeerTypes'
      BY DEF TypeOK, PeerTypes, Peers, Tries, Nil, Conns
    <2>2. RelayTypes'
      BY DEF TypeOK, PeerTypes, RelayTypes, LoopTypes, Tries, Nil, Kinds
    <2>3. LoopTypes'
      BY DEF TypeOK, PeerTypes, RelayTypes, LoopTypes, PeerExists, Tries, Nil, LoopSteps
    <2>4. PhoneTypes'
      BY DEF TypeOK, PeerTypes, RelayTypes, PhoneTypes, Tries, Nil, TrySteps
    <2> QED BY <2>1, <2>2, <2>3, <2>4 DEF TypeOK
  <1>2. PeerExists'
    BY DEF TypeOK, PeerTypes, PeerExists, Nil, Peers
  <1>3. LanAsked'
    BY DEF TypeOK, PhoneTypes, LanAsked, Nil
  <1>4. OfferStands'
    BY DEF TypeOK, PeerTypes, LoopTypes, PeerExists, LanAsked, OfferStands, Peers, Nil
  <1>5. NotYetSent'
    BY DEF TypeOK, RelayTypes, PhoneTypes, LoopTypes, NotYetSent, Unused, Tries, Nil
  <1>6. AnswerIsNew'
    BY DEF TypeOK, RelayTypes, PhoneTypes, LoopTypes, NotYetSent, AnswerIsNew, Unused, Tries, Nil
  <1>7. AnswerUsedOnce'
    BY DEF TypeOK, PeerTypes, LoopTypes, NotYetSent, AnswerIsNew, AnswerUsedOnce, Unused, Peers, Tries, Nil
  <1> QED BY <1>1, <1>2, <1>3, <1>4, <1>5, <1>6, <1>7

LEMMA ExpireKeepsIInv ==
  ASSUME IInv, Expire
  PROVE  IInv'
  <1> USE SignalingAssumption DEF IInv, Expire, peerVars, relayVars, phoneVars
  <1>1. TypeOK'
    <2>1. PeerTypes'
      BY DEF TypeOK, PeerTypes, Peers, Tries, Nil, Conns
    <2>2. RelayTypes'
      BY DEF TypeOK, PeerTypes, RelayTypes, LoopTypes, Tries, Nil, Kinds
    <2>3. LoopTypes'
      BY DEF TypeOK, PeerTypes, RelayTypes, LoopTypes, PeerExists, Tries, Nil, LoopSteps
    <2>4. PhoneTypes'
      BY DEF TypeOK, PeerTypes, RelayTypes, PhoneTypes, Tries, Nil, TrySteps
    <2> QED BY <2>1, <2>2, <2>3, <2>4 DEF TypeOK
  <1>2. PeerExists'
    BY DEF TypeOK, PeerTypes, PeerExists, Nil, Peers
  <1>3. LanAsked'
    BY DEF TypeOK, PhoneTypes, LanAsked, Nil
  <1>4. OfferStands'
    BY DEF TypeOK, PeerTypes, LoopTypes, PeerExists, LanAsked, OfferStands, Peers, Nil
  <1>5. NotYetSent'
    BY DEF TypeOK, RelayTypes, PhoneTypes, LoopTypes, NotYetSent, Unused, Tries, Nil
  <1>6. AnswerIsNew'
    BY DEF TypeOK, RelayTypes, PhoneTypes, LoopTypes, NotYetSent, AnswerIsNew, Unused, Tries, Nil
  <1>7. AnswerUsedOnce'
    BY DEF TypeOK, PeerTypes, LoopTypes, NotYetSent, AnswerIsNew, AnswerUsedOnce, Unused, Peers, Tries, Nil
  <1> QED BY <1>1, <1>2, <1>3, <1>4, <1>5, <1>6, <1>7

LEMMA ComesUpKeepsIInv ==
  ASSUME IInv, NEW p \in Peers, ComesUp(p)
  PROVE  IInv'
  <1> USE SignalingAssumption DEF IInv, ComesUp, Matches, peerVars, relayVars, phoneVars
  <1>1. TypeOK'
    <2>1. PeerTypes'
      BY DEF TypeOK, PeerTypes, Peers, Tries, Nil, Conns
    <2>2. RelayTypes'
      BY DEF TypeOK, PeerTypes, RelayTypes, LoopTypes, Tries, Nil, Kinds
    <2>3. LoopTypes'
      BY DEF TypeOK, PeerTypes, RelayTypes, LoopTypes, PeerExists, Tries, Nil, LoopSteps
    <2>4. PhoneTypes'
      BY DEF TypeOK, PeerTypes, RelayTypes, PhoneTypes, Tries, Nil, TrySteps
    <2> QED BY <2>1, <2>2, <2>3, <2>4 DEF TypeOK
  <1>2. PeerExists'
    BY DEF TypeOK, PeerTypes, PeerExists, Nil, Peers
  <1>3. LanAsked'
    BY DEF TypeOK, PhoneTypes, LanAsked, Nil
  <1>4. OfferStands'
    BY DEF TypeOK, PeerTypes, LoopTypes, PeerExists, LanAsked, OfferStands, Peers, Nil
  <1>5. NotYetSent'
    BY DEF TypeOK, RelayTypes, PhoneTypes, LoopTypes, NotYetSent, Unused, Tries, Nil
  <1>6. AnswerIsNew'
    BY DEF TypeOK, RelayTypes, PhoneTypes, LoopTypes, NotYetSent, AnswerIsNew, Unused, Tries, Nil
  <1>7. AnswerUsedOnce'
    BY DEF TypeOK, PeerTypes, LoopTypes, NotYetSent, AnswerIsNew, AnswerUsedOnce, Unused, Peers, Tries, Nil
  <1> QED BY <1>1, <1>2, <1>3, <1>4, <1>5, <1>6, <1>7

LEMMA GoesDownKeepsIInv ==
  ASSUME IInv, NEW p \in Peers, GoesDown(p)
  PROVE  IInv'
  <1> USE SignalingAssumption DEF IInv, GoesDown, peerVars, relayVars, phoneVars
  <1>1. TypeOK'
    <2>1. PeerTypes'
      BY DEF TypeOK, PeerTypes, Peers, Tries, Nil, Conns
    <2>2. RelayTypes'
      BY DEF TypeOK, PeerTypes, RelayTypes, LoopTypes, Tries, Nil, Kinds
    <2>3. LoopTypes'
      BY DEF TypeOK, PeerTypes, RelayTypes, LoopTypes, PeerExists, Tries, Nil, LoopSteps
    <2>4. PhoneTypes'
      BY DEF TypeOK, PeerTypes, RelayTypes, PhoneTypes, Tries, Nil, TrySteps
    <2> QED BY <2>1, <2>2, <2>3, <2>4 DEF TypeOK
  <1>2. PeerExists'
    BY DEF TypeOK, PeerTypes, PeerExists, Nil, Peers
  <1>3. LanAsked'
    BY DEF TypeOK, PhoneTypes, LanAsked, Nil
  <1>4. OfferStands'
    BY DEF TypeOK, PeerTypes, LoopTypes, PeerExists, LanAsked, OfferStands, Peers, Nil
  <1>5. NotYetSent'
    BY DEF TypeOK, RelayTypes, PhoneTypes, LoopTypes, NotYetSent, Unused, Tries, Nil
  <1>6. AnswerIsNew'
    BY DEF TypeOK, RelayTypes, PhoneTypes, LoopTypes, NotYetSent, AnswerIsNew, Unused, Tries, Nil
  <1>7. AnswerUsedOnce'
    BY DEF TypeOK, PeerTypes, LoopTypes, NotYetSent, AnswerIsNew, AnswerUsedOnce, Unused, Peers, Tries, Nil
  <1> QED BY <1>1, <1>2, <1>3, <1>4, <1>5, <1>6, <1>7

LEMMA ConnectKeepsIInv ==
  ASSUME IInv, NEW a \in Tries, Connect(a)
  PROVE  IInv'
  <1> USE SignalingAssumption DEF IInv, Connect, peerVars, relayVars, phoneVars
  <1>1. TypeOK'
    <2>1. PeerTypes'
      BY DEF TypeOK, PeerTypes, Peers, Tries, Nil, Conns
    <2>2. RelayTypes'
      BY DEF TypeOK, PeerTypes, RelayTypes, LoopTypes, Tries, Nil, Kinds
    <2>3. LoopTypes'
      BY DEF TypeOK, PeerTypes, RelayTypes, LoopTypes, PeerExists, Tries, Nil, LoopSteps
    <2>4. PhoneTypes'
      <3>1. "fetch" \in TrySteps /\ 0 \in 0 .. made /\ made' = made
        BY DEF TypeOK, PeerTypes, TrySteps
      <3>2. try' \in [Tries -> [at : TrySteps, phone : Phones,
                                offer : 0 .. made', target : 0 .. made']]
        BY <3>1, TryMoves DEF TypeOK, PhoneTypes
      <3>3. \A b \in Tries : try'[b].at = "set" => try'[b].target # Nil
        BY DEF TypeOK, PhoneTypes
      <3> QED BY <3>2, <3>3 DEF TypeOK, PhoneTypes
    <2> QED BY <2>1, <2>2, <2>3, <2>4 DEF TypeOK
  <1>2. PeerExists'
    BY DEF TypeOK, PeerTypes, PeerExists, Nil, Peers
  <1>3. LanAsked'
    BY DEF TypeOK, PhoneTypes, LanAsked, Nil
  <1>4. OfferStands'
    BY DEF TypeOK, PeerTypes, LoopTypes, PeerExists, LanAsked, OfferStands, Peers, Nil
  <1>5. NotYetSent'
    BY DEF TypeOK, RelayTypes, PhoneTypes, LoopTypes, NotYetSent, Unused, Tries, Nil
  <1>6. AnswerIsNew'
    BY DEF TypeOK, RelayTypes, PhoneTypes, LoopTypes, NotYetSent, AnswerIsNew, Unused, Tries, Nil
  <1>7. AnswerUsedOnce'
    BY DEF TypeOK, PeerTypes, LoopTypes, NotYetSent, AnswerIsNew, AnswerUsedOnce, Unused, Peers, Tries, Nil
  <1> QED BY <1>1, <1>2, <1>3, <1>4, <1>5, <1>6, <1>7

LEMMA FetchOfferKeepsIInv ==
  ASSUME IInv, NEW a \in Tries, FetchOffer(a)
  PROVE  IInv'
  <1> USE SignalingAssumption DEF IInv, FetchOffer, StartPairing, peerVars, relayVars, phoneVars
  <1>1. TypeOK'
    <2>1. PeerTypes'
      BY DEF TypeOK, PeerTypes, Peers, Tries, Nil, Conns
    <2>2. RelayTypes'
      BY DEF TypeOK, PeerTypes, RelayTypes, LoopTypes, Tries, Nil, Kinds
    <2>3. LoopTypes'
      BY DEF TypeOK, PeerTypes, RelayTypes, LoopTypes, PeerExists, Tries, Nil, LoopSteps
    <2>4. PhoneTypes'
      <3>1. "answer" \in TrySteps /\ kvOffer \in 0 .. made /\ made' = made
        BY DEF TypeOK, RelayTypes, TrySteps
      <3>2. try' \in [Tries -> [at : TrySteps, phone : Phones,
                                offer : 0 .. made', target : 0 .. made']]
        BY <3>1, TryMoves DEF TypeOK, PhoneTypes
      <3>3. \A b \in Tries : try'[b].at = "set" => try'[b].target # Nil
        BY DEF TypeOK, PhoneTypes
      <3>4. /\ rtc' \in [Phones -> Tries \union {Nil}]
            /\ live' \subseteq Tries
        BY DEF TypeOK, PhoneTypes
      <3> QED BY <3>2, <3>3, <3>4 DEF PhoneTypes
    <2> QED BY <2>1, <2>2, <2>3, <2>4 DEF TypeOK
  <1>2. PeerExists'
    BY DEF TypeOK, PeerTypes, PeerExists, Nil, Peers
  <1>3. LanAsked'
    BY DEF TypeOK, PhoneTypes, LanAsked, Nil
  <1>4. OfferStands'
    BY DEF TypeOK, PeerTypes, LoopTypes, PeerExists, LanAsked, OfferStands, Peers, Nil
  <1>5. NotYetSent'
    BY DEF TypeOK, RelayTypes, PhoneTypes, LoopTypes, NotYetSent, Unused, Tries, Nil
  <1>6. AnswerIsNew'
    BY DEF TypeOK, RelayTypes, PhoneTypes, LoopTypes, NotYetSent, AnswerIsNew, Unused, Tries, Nil
  <1>7. AnswerUsedOnce'
    BY DEF TypeOK, PeerTypes, LoopTypes, NotYetSent, AnswerIsNew, AnswerUsedOnce, Unused, Peers, Tries, Nil
  <1> QED BY <1>1, <1>2, <1>3, <1>4, <1>5, <1>6, <1>7

LEMMA GetOfferKeepsIInv ==
  ASSUME IInv, NEW a \in Tries, GetOffer(a)
  PROVE  IInv'
  <1> USE SignalingAssumption DEF IInv, GetOffer, NewOffer, NewOfferFails, PreviousClosed, StartPairing, peerVars, relayVars, phoneVars
  <1>1. TypeOK'
    <2>1. PeerTypes'
      BY NewOfferMakes, NewOfferFailing DEF TypeOK
    <2>2. RelayTypes'
      BY DEF TypeOK, PeerTypes, RelayTypes, LoopTypes, Tries, Nil, Kinds
    <2>3. LoopTypes'
      BY DEF TypeOK, PeerTypes, RelayTypes, LoopTypes, PeerExists, Tries, Nil, LoopSteps
    <2>4. PhoneTypes'
      <3>1. CASE NewOffer /\ StartPairing(a, made + 1)
        <4>1. try' \in [Tries -> [at : TrySteps, phone : Phones,
                                  offer : 0 .. made', target : 0 .. made']]
          BY <3>1, NewOfferMakes DEF TypeOK, PeerTypes, PhoneTypes, TrySteps
        <4>2. \A b \in Tries : try'[b].at = "set" => try'[b].target # Nil
          BY <3>1 DEF TypeOK, PhoneTypes
        <4>3. /\ rtc' \in [Phones -> Tries \union {Nil}]
              /\ live' \subseteq Tries
          BY <3>1 DEF TypeOK, PhoneTypes
        <4> QED BY <4>1, <4>2, <4>3 DEF PhoneTypes
      <3>2. CASE NewOffer /\ UNCHANGED <<try, rtc, live>>
        BY <3>2, NewOfferMakes DEF TypeOK, PhoneTypes
      <3>3. CASE NewOfferFails /\ try' = [try EXCEPT ![a].at = "ended"] /\ UNCHANGED <<rtc, live>>
        BY <3>3, NewOfferFailing DEF TypeOK, PhoneTypes, TrySteps
      <3> QED BY <3>1, <3>2, <3>3
    <2> QED BY <2>1, <2>2, <2>3, <2>4 DEF TypeOK
  <1>2. PeerExists'
    BY DEF TypeOK, PeerTypes, PeerExists, Nil, Peers
  <1>3. LanAsked'
    BY DEF TypeOK, PhoneTypes, LanAsked, Nil
  <1>4. OfferStands'
    BY DEF TypeOK, PeerTypes, LoopTypes, PeerExists, LanAsked, OfferStands, Peers, Nil
  <1>5. NotYetSent'
    BY DEF TypeOK, RelayTypes, PhoneTypes, LoopTypes, NotYetSent, Unused, Tries, Nil
  <1>6. AnswerIsNew'
    BY DEF TypeOK, RelayTypes, PhoneTypes, LoopTypes, NotYetSent, AnswerIsNew, Unused, Tries, Nil
  <1>7. AnswerUsedOnce'
    BY DEF TypeOK, PeerTypes, LoopTypes, NotYetSent, AnswerIsNew, AnswerUsedOnce, Unused, Peers, Tries, Nil
  <1> QED BY <1>1, <1>2, <1>3, <1>4, <1>5, <1>6, <1>7

LEMMA PutAnswerKeepsIInv ==
  ASSUME IInv, NEW a \in Tries, PutAnswer(a)
  PROVE  IInv'
  <1> USE SignalingAssumption DEF IInv, PutAnswer, peerVars, relayVars, phoneVars
  <1>1. TypeOK'
    <2>1. PeerTypes'
      BY DEF TypeOK, PeerTypes, Peers, Tries, Nil, Conns
    <2>2. RelayTypes'
      BY DEF TypeOK, PeerTypes, RelayTypes, LoopTypes, Tries, Nil, Kinds
    <2>3. LoopTypes'
      BY DEF TypeOK, PeerTypes, RelayTypes, LoopTypes, PeerExists, Tries, Nil, LoopSteps
    <2>4. PhoneTypes'
      <3>1. "ended" \in TrySteps /\ 0 \in 0 .. made /\ made' = made
        BY DEF TypeOK, PeerTypes, TrySteps
      <3>2. try' \in [Tries -> [at : TrySteps, phone : Phones,
                                offer : 0 .. made', target : 0 .. made']]
        BY <3>1, TryMoves DEF TypeOK, PhoneTypes
      <3>3. \A b \in Tries : try'[b].at = "set" => try'[b].target # Nil
        BY DEF TypeOK, PhoneTypes
      <3> QED BY <3>2, <3>3 DEF TypeOK, PhoneTypes
    <2> QED BY <2>1, <2>2, <2>3, <2>4 DEF TypeOK
  <1>2. PeerExists'
    BY DEF TypeOK, PeerTypes, PeerExists, Nil, Peers
  <1>3. LanAsked'
    BY DEF TypeOK, PhoneTypes, LanAsked, Nil
  <1>4. OfferStands'
    BY DEF TypeOK, PeerTypes, LoopTypes, PeerExists, LanAsked, OfferStands, Peers, Nil
  <1>5. NotYetSent'
    BY DEF TypeOK, RelayTypes, PhoneTypes, LoopTypes, NotYetSent, Unused, Tries, Nil
  <1>6. AnswerIsNew'
    BY DEF TypeOK, RelayTypes, PhoneTypes, LoopTypes, NotYetSent, AnswerIsNew, Unused, Tries, Nil
  <1>7. AnswerUsedOnce'
    BY DEF TypeOK, PeerTypes, LoopTypes, NotYetSent, AnswerIsNew, AnswerUsedOnce, Unused, Peers, Tries, Nil
  <1> QED BY <1>1, <1>2, <1>3, <1>4, <1>5, <1>6, <1>7

LEMMA PostAnswerKeepsIInv ==
  ASSUME IInv, NEW a \in Tries, PostAnswer(a)
  PROVE  IInv'
  <1> USE SignalingAssumption DEF IInv, PostAnswer, peerVars, relayVars, phoneVars
  <1>1. TypeOK'
    <2>1. PeerTypes'
      BY DEF TypeOK, PeerTypes, Peers, Tries, Nil, Conns
    <2>2. RelayTypes'
      BY DEF TypeOK, PeerTypes, RelayTypes, LoopTypes, Tries, Nil, Kinds
    <2>3. LoopTypes'
      BY DEF TypeOK, PeerTypes, RelayTypes, LoopTypes, PeerExists, Tries, Nil, LoopSteps
    <2>4. PhoneTypes'
      <3>1. "post" \in TrySteps /\ 0 \in 0 .. made /\ made' = made
        BY DEF TypeOK, PeerTypes, TrySteps
      <3>2. try' \in [Tries -> [at : TrySteps, phone : Phones,
                                offer : 0 .. made', target : 0 .. made']]
        BY <3>1, TryMoves DEF TypeOK, PhoneTypes
      <3>3. \A b \in Tries : try'[b].at = "set" => try'[b].target # Nil
        BY DEF TypeOK, PhoneTypes
      <3> QED BY <3>2, <3>3 DEF TypeOK, PhoneTypes
    <2> QED BY <2>1, <2>2, <2>3, <2>4 DEF TypeOK
  <1>2. PeerExists'
    BY DEF TypeOK, PeerTypes, PeerExists, Nil, Peers
  <1>3. LanAsked'
    BY DEF TypeOK, PhoneTypes, LanAsked, Nil
  <1>4. OfferStands'
    BY DEF TypeOK, PeerTypes, LoopTypes, PeerExists, LanAsked, OfferStands, Peers, Nil
  <1>5. NotYetSent'
    BY DEF TypeOK, RelayTypes, PhoneTypes, LoopTypes, NotYetSent, Unused, Tries, Nil
  <1>6. AnswerIsNew'
    BY DEF TypeOK, RelayTypes, PhoneTypes, LoopTypes, NotYetSent, AnswerIsNew, Unused, Tries, Nil
  <1>7. AnswerUsedOnce'
    BY DEF TypeOK, PeerTypes, LoopTypes, NotYetSent, AnswerIsNew, AnswerUsedOnce, Unused, Peers, Tries, Nil
  <1> QED BY <1>1, <1>2, <1>3, <1>4, <1>5, <1>6, <1>7

LEMMA HandlerReadPeerKeepsIInv ==
  ASSUME IInv, NEW a \in Tries, HandlerReadPeer(a)
  PROVE  IInv'
  <1> USE SignalingAssumption DEF IInv, HandlerReadPeer, peerVars, relayVars, phoneVars
  <1>1. TypeOK'
    <2>1. PeerTypes'
      BY DEF TypeOK, PeerTypes, Peers, Tries, Nil, Conns
    <2>2. RelayTypes'
      BY DEF TypeOK, PeerTypes, RelayTypes, LoopTypes, Tries, Nil, Kinds
    <2>3. LoopTypes'
      BY DEF TypeOK, PeerTypes, RelayTypes, LoopTypes, PeerExists, Tries, Nil, LoopSteps
    <2>4. PhoneTypes'
      <3>1. (IF peer = Nil THEN "ended" ELSE "set") \in TrySteps
            /\ peer \in 0 .. made /\ made' = made
        BY DEF TypeOK, PeerTypes, TrySteps
      <3>2. try' \in [Tries -> [at : TrySteps, phone : Phones,
                                offer : 0 .. made', target : 0 .. made']]
        BY <3>1, TryMoves DEF TypeOK, PhoneTypes
      <3>3. \A b \in Tries : try'[b].at = "set" => try'[b].target # Nil
        BY DEF TypeOK, PhoneTypes
      <3> QED BY <3>2, <3>3 DEF TypeOK, PhoneTypes
    <2> QED BY <2>1, <2>2, <2>3, <2>4 DEF TypeOK
  <1>2. PeerExists'
    BY DEF TypeOK, PeerTypes, PeerExists, Nil, Peers
  <1>3. LanAsked'
    BY DEF TypeOK, PhoneTypes, LanAsked, Nil
  <1>4. OfferStands'
    BY DEF TypeOK, PeerTypes, LoopTypes, PeerExists, LanAsked, OfferStands, Peers, Nil
  <1>5. NotYetSent'
    BY DEF TypeOK, RelayTypes, PhoneTypes, LoopTypes, NotYetSent, Unused, Tries, Nil
  <1>6. AnswerIsNew'
    BY DEF TypeOK, RelayTypes, PhoneTypes, LoopTypes, NotYetSent, AnswerIsNew, Unused, Tries, Nil
  <1>7. AnswerUsedOnce'
    BY DEF TypeOK, PeerTypes, LoopTypes, NotYetSent, AnswerIsNew, AnswerUsedOnce, Unused, Peers, Tries, Nil
  <1> QED BY <1>1, <1>2, <1>3, <1>4, <1>5, <1>6, <1>7

LEMMA HandlerSetAnswerKeepsIInv ==
  ASSUME IInv, NEW a \in Tries, HandlerSetAnswer(a)
  PROVE  IInv'
  <1> USE SignalingAssumption DEF IInv, HandlerSetAnswer, Accept, Refuse, peerVars, relayVars, phoneVars
  <1>a. try[a].target \in Peers /\ try[a].at # "ended" /\ Unused(a) /\ a # Nil
    <2>1. try[a].target # Nil /\ try[a].target \in 0 .. made /\ made \in 0 .. MaxPeers
      BY DEF TypeOK, PeerTypes, PhoneTypes
    <2>2. try[a].at # "ended" /\ Unused(a)
      BY DEF NotYetSent
    <2> QED BY <2>1, <2>2 DEF Peers, Tries, Nil
  <1>b. ASSUME Accept(try[a].target, a), NEW q \in Peers
        PROVE  accepted'[q] = IF q = try[a].target THEN a ELSE accepted[q]
    BY <1>a, <1>b DEF TypeOK, PeerTypes
  <1>1. TypeOK'
    <2>1. PeerTypes'
      BY DEF TypeOK, PeerTypes, Peers, Tries, Nil, Conns
    <2>2. RelayTypes'
      BY DEF TypeOK, PeerTypes, RelayTypes, LoopTypes, Tries, Nil, Kinds
    <2>3. LoopTypes'
      BY DEF TypeOK, PeerTypes, RelayTypes, LoopTypes, PeerExists, Tries, Nil, LoopSteps
    <2>4. PhoneTypes'
      <3>1. "ended" \in TrySteps /\ 0 \in 0 .. made /\ made' = made
        BY DEF TypeOK, PeerTypes, TrySteps
      <3>2. try' \in [Tries -> [at : TrySteps, phone : Phones,
                                offer : 0 .. made', target : 0 .. made']]
        BY <3>1, TryMoves DEF TypeOK, PhoneTypes
      <3>3. \A b \in Tries : try'[b].at = "set" => try'[b].target # Nil
        BY DEF TypeOK, PhoneTypes
      <3> QED BY <3>2, <3>3 DEF TypeOK, PhoneTypes
    <2> QED BY <2>1, <2>2, <2>3, <2>4 DEF TypeOK
  <1>2. PeerExists'
    BY DEF TypeOK, PeerTypes, PeerExists, Nil, Peers
  <1>3. LanAsked'
    BY DEF TypeOK, PhoneTypes, LanAsked, Nil
  <1>4. OfferStands'
    BY DEF TypeOK, PeerTypes, LoopTypes, PeerExists, LanAsked, OfferStands, Peers, Nil
  <1>5. NotYetSent'
    <2>1. CASE Accept(try[a].target, a)
      <3>1. \A b \in Tries : try'[b].at # "ended" => b # a /\ try[b].at # "ended"
        BY DEF TypeOK, PhoneTypes
      <3> QED BY <1>b, <2>1, <3>1 DEF NotYetSent, Unused
    <2>2. CASE Refuse(try[a].target)
      BY <2>2 DEF TypeOK, PhoneTypes, NotYetSent, Unused
    <2> QED BY <2>1, <2>2
  <1>6. AnswerIsNew'
    <2>1. CASE Accept(try[a].target, a)
      <3>1. kvAnswer # a /\ loop.answer # a
        BY <1>a DEF NotYetSent
      <3> QED BY <1>b, <2>1, <3>1 DEF AnswerIsNew, Unused
    <2>2. CASE Refuse(try[a].target)
      BY <2>2 DEF AnswerIsNew, Unused
    <2> QED BY <2>1, <2>2
  <1>7. AnswerUsedOnce'
    <2>1. CASE Accept(try[a].target, a)
      BY <1>a, <1>b, <2>1 DEF AnswerUsedOnce, Unused
    <2>2. CASE Refuse(try[a].target)
      BY <2>2 DEF AnswerUsedOnce
    <2> QED BY <2>1, <2>2
  <1> QED BY <1>1, <1>2, <1>3, <1>4, <1>5, <1>6, <1>7

LEMMA GiveUpKeepsIInv ==
  ASSUME IInv, NEW a \in Tries, GiveUp(a)
  PROVE  IInv'
  <1> USE SignalingAssumption DEF IInv, GiveUp, peerVars, relayVars, phoneVars
  <1>1. TypeOK'
    <2>1. PeerTypes'
      BY DEF TypeOK, PeerTypes, Peers, Tries, Nil, Conns
    <2>2. RelayTypes'
      BY DEF TypeOK, PeerTypes, RelayTypes, LoopTypes, Tries, Nil, Kinds
    <2>3. LoopTypes'
      BY DEF TypeOK, PeerTypes, RelayTypes, LoopTypes, PeerExists, Tries, Nil, LoopSteps
    <2>4. PhoneTypes'
      <3>1. "ended" \in TrySteps /\ 0 \in 0 .. made /\ made' = made
        BY DEF TypeOK, PeerTypes, TrySteps
      <3>2. try' \in [Tries -> [at : TrySteps, phone : Phones,
                                offer : 0 .. made', target : 0 .. made']]
        BY <3>1, TryMoves DEF TypeOK, PhoneTypes
      <3>3. \A b \in Tries : try'[b].at = "set" => try'[b].target # Nil
        BY DEF TypeOK, PhoneTypes
      <3> QED BY <3>2, <3>3 DEF TypeOK, PhoneTypes
    <2> QED BY <2>1, <2>2, <2>3, <2>4 DEF TypeOK
  <1>2. PeerExists'
    BY DEF TypeOK, PeerTypes, PeerExists, Nil, Peers
  <1>3. LanAsked'
    BY DEF TypeOK, PhoneTypes, LanAsked, Nil
  <1>4. OfferStands'
    BY DEF TypeOK, PeerTypes, LoopTypes, PeerExists, LanAsked, OfferStands, Peers, Nil
  <1>5. NotYetSent'
    BY DEF TypeOK, RelayTypes, PhoneTypes, LoopTypes, NotYetSent, Unused, Tries, Nil
  <1>6. AnswerIsNew'
    BY DEF TypeOK, RelayTypes, PhoneTypes, LoopTypes, NotYetSent, AnswerIsNew, Unused, Tries, Nil
  <1>7. AnswerUsedOnce'
    BY DEF TypeOK, PeerTypes, LoopTypes, NotYetSent, AnswerIsNew, AnswerUsedOnce, Unused, Peers, Tries, Nil
  <1> QED BY <1>1, <1>2, <1>3, <1>4, <1>5, <1>6, <1>7

LEMMA NextKeepsIInv == IInv /\ [Next]_vars => IInv'
  <1> SUFFICES ASSUME IInv, [Next]_vars PROVE IInv'
    OBVIOUS
  <1>1. CASE RelayLoop
    BY <1>1, LoopNewOfferKeepsIInv, DeleteAnswerKeepsIInv, PutOfferKeepsIInv,
       PollAnswerKeepsIInv, LoopReadPeerKeepsIInv, LoopSetAnswerKeepsIInv,
       SeeUpKeepsIInv, SeeEndKeepsIInv, DeadlineKeepsIInv DEF RelayLoop
  <1>2. CASE Expire
    BY <1>2, ExpireKeepsIInv
  <1>3. ASSUME NEW p \in Peers, ComesUp(p) \/ GoesDown(p) PROVE IInv'
    BY <1>3, ComesUpKeepsIInv, GoesDownKeepsIInv
  <1>4. ASSUME NEW a \in Tries, Connect(a) \/ Pairing(a) \/ GiveUp(a) PROVE IInv'
    BY <1>4, ConnectKeepsIInv, FetchOfferKeepsIInv, GetOfferKeepsIInv,
       PutAnswerKeepsIInv, PostAnswerKeepsIInv, HandlerReadPeerKeepsIInv,
       HandlerSetAnswerKeepsIInv, GiveUpKeepsIInv DEF Pairing
  <1>5. CASE UNCHANGED vars
    BY <1>5 DEF IInv, TypeOK, PeerTypes, RelayTypes, LoopTypes, PhoneTypes, PeerExists,
                LanAsked, OfferStands, NotYetSent, AnswerIsNew, AnswerUsedOnce, Unused,
                Matches, vars, peerVars, relayVars, phoneVars
  <1> QED BY <1>1, <1>2, <1>3, <1>4, <1>5 DEF Next

(***************************************************************************)
(* The peers one after the other, and who watches them.                    *)
(***************************************************************************)

LEMMA InitWatch == Init => Watch
  BY DEF Init, Watch, PeersInTurn, LanPosts, RelayPeerWatched, Tries, Peers, Nil,
         SignalingAssumption

\* newOffer, or its failure, leaves no earlier peer open.
LEMMA OfferCloses ==
  ASSUME PeerTypes, PeersInTurn, NewOffer \/ NewOfferFails
  PROVE  /\ PeersInTurn' /\ accepted' = accepted
         /\ \A p \in Peers : accepted[p] # Nil => conn'[p] = "closed"
  <1> USE SignalingAssumption DEF Peers, Nil, PeerTypes
  <1>1. /\ peer = made /\ made \in 0 .. MaxPeers /\ MaxPeers \in Nat
        /\ \A p \in Peers : /\ p < peer => conn[p] = "closed"
                            /\ p > peer => conn[p] = "none" /\ accepted[p] = Nil
    BY DEF PeersInTurn
  <1>2. \A p \in Peers : PreviousClosed[p] = IF p = peer THEN "closed" ELSE conn[p]
    BY DEF PreviousClosed
  <1>3. \A p \in Peers : p <= peer => PreviousClosed[p] = "closed"
    BY <1>1, <1>2
  <1>4. CASE NewOffer
    <2>1. /\ made' = made + 1 /\ peer' = made + 1 /\ accepted' = accepted
          /\ made + 1 \in Peers
          /\ conn' = [PreviousClosed EXCEPT ![made + 1] = "offered"]
      BY <1>1, <1>4 DEF NewOffer
    <2>2. \A p \in Peers : p # made + 1 => conn'[p] = PreviousClosed[p]
      BY <2>1 DEF PreviousClosed
    <2> QED BY <1>1, <1>2, <1>3, <2>1, <2>2 DEF PeersInTurn
  <1>5. CASE NewOfferFails
    <2>1. made' = made /\ peer' = peer /\ accepted' = accepted /\ conn' = PreviousClosed
      BY <1>5 DEF NewOfferFails
    <2> QED BY <1>1, <1>2, <1>3, <2>1 DEF PeersInTurn
  <1> QED BY <1>4, <1>5

\* Only the current peer can take an answer.
LEMMA AcceptIsCurrent ==
  ASSUME PeerTypes, PeersInTurn, NEW p \in Peers, NEW a \in Tries \union {Nil}, Accept(p, a)
  PROVE  /\ p = peer /\ conn[p] = "offered" /\ PeersInTurn' /\ peer' = peer
         /\ accepted' = [accepted EXCEPT ![p] = a]
         /\ \A q \in Peers : q # p => conn'[q] = conn[q] /\ accepted'[q] = accepted[q]
  <1> USE SignalingAssumption DEF Peers, PeerTypes
  <1>1. /\ conn[p] = "offered" /\ made' = made /\ peer' = peer
        /\ conn' = [conn EXCEPT ![p] = "answered"]
        /\ accepted' = [accepted EXCEPT ![p] = a]
    BY DEF Accept
  <1>2. p = peer
    BY <1>1 DEF PeersInTurn
  <1>3. \A q \in Peers : q # p => conn'[q] = conn[q] /\ accepted'[q] = accepted[q]
    BY <1>1
  <1> QED BY <1>1, <1>2, <1>3 DEF PeersInTurn

\* A step that makes, closes and answers no peer and moves the loop, if at all, to
\* the next offer, or between steps at which no peer is watched.
LEMMA WatchStays ==
  ASSUME TypeOK, Watch, UNCHANGED <<accepted, made, peer>>,
         \A p \in Peers : \/ conn'[p] = conn[p]
                          \/ conn[p] \notin {"none", "closed"} /\ conn'[p] # "closed",
         conn' \in [Peers -> Conns],
         \A a \in Tries : try'[a].phone = try[a].phone,
         LanPosts',
         \/ loop'.at = "new"
         \/ loop.at # "new" /\ loop.at # "wait"
         \/ loop'.at = loop.at /\ loop'.peer = loop.peer
  PROVE  Watch'
  <1> USE SignalingAssumption DEF Watch, Peers, Nil
  <1>1. PeersInTurn'
    BY DEF PeersInTurn, Conns, TypeOK, PeerTypes
  <1>2. ASSUME NEW p \in Peers,
               accepted[p] # Nil, try[accepted[p]].phone \in RelayPhones, conn'[p] # "closed"
        PROVE  /\ p = peer
               /\ \/ loop'.at = "new"
                  \/ loop'.at = "wait" /\ (loop'.peer = p \/ conn'[loop'.peer] = "closed")
    <2>1. conn[p] # "closed"
      BY <1>2
    <2>2. /\ p = peer
          /\ \/ loop.at = "new"
             \/ loop.at = "wait" /\ (loop.peer = p \/ conn[loop.peer] = "closed")
      BY <1>2, <2>1 DEF RelayPeerWatched
    <2>3. loop.at = "wait" => loop.peer \in Peers
      BY DEF TypeOK, LoopTypes, PeerTypes
    <2>4. loop.at = "wait" /\ conn[loop.peer] = "closed" => conn'[loop.peer] = "closed"
      BY <2>3
    <2> QED BY <2>2, <2>4
  <1>3. \A p \in Peers : accepted[p] # Nil => accepted[p] \in Tries
    BY DEF TypeOK, PeerTypes
  <1>4. RelayPeerWatched'
    BY <1>2, <1>3 DEF RelayPeerWatched
  <1> QED BY <1>1, <1>4

\* After newOffer every peer that has an answer is closed.
LEMMA WatchAfterOffer ==
  ASSUME TypeOK, Watch, NewOffer \/ NewOfferFails, LanPosts'
  PROVE  Watch'
  <1>1. PeersInTurn' /\ \A p \in Peers : accepted'[p] # Nil => conn'[p] = "closed"
    BY OfferCloses DEF TypeOK, Watch
  <1>2. RelayPeerWatched'
    BY <1>1 DEF RelayPeerWatched
  <1> QED BY <1>1, <1>2 DEF Watch

\* The loop goes from the acceptance to the wait for the peer it noted: that is
\* the one that took the answer, or one that has been closed since.
LEMMA WatchAfterAnswer ==
  ASSUME TypeOK, Watch, LoopSetAnswer
  PROVE  Watch'
  <1> USE DEF Watch
  <1>1. loop.at = "set" /\ UNCHANGED <<try, disturbed>>
    BY DEF LoopSetAnswer, phoneVars
  <1>2. loop.target \in Peers /\ loop.peer \in Peers /\ loop.answer \in Tries \union {Nil}
    BY <1>1, SignalingAssumption DEF TypeOK, LoopTypes, PeerTypes, Peers, Nil
  <1>3. LanPosts'
    BY <1>1 DEF LanPosts
  <1>4. CASE Accept(loop.target, loop.answer) /\ loop' = [loop EXCEPT !.at = "wait", !.seen = FALSE]
    <2>1. /\ loop.target = peer /\ PeersInTurn' /\ peer' = peer
          /\ \A q \in Peers : q # loop.target => conn'[q] = conn[q] /\ accepted'[q] = accepted[q]
      BY <1>2, <1>4, AcceptIsCurrent DEF TypeOK
    <2>2. loop'.at = "wait" /\ loop'.peer = loop.peer
      BY <1>4 DEF TypeOK, LoopTypes
    <2>3. loop.peer = peer \/ conn'[loop.peer] = "closed"
      <3>1. loop.peer \in 0 .. made /\ peer = made /\ made \in Nat
        BY DEF TypeOK, LoopTypes, PeerTypes, PeersInTurn
      <3>2. loop.peer # peer => loop.peer < peer
        BY <1>2, <3>1
      <3> QED BY <1>2, <2>1, <3>2 DEF PeersInTurn
    <2>4. ASSUME NEW p \in Peers, p # peer, accepted'[p] # Nil, conn'[p] # "closed",
                 try[accepted'[p]].phone \in RelayPhones
          PROVE  FALSE
      <3>1. accepted[p] # Nil /\ conn[p] # "closed" /\ try[accepted[p]].phone \in RelayPhones
        BY <2>1, <2>4
      <3> QED BY <1>1, <2>4, <3>1 DEF RelayPeerWatched
    <2>5. RelayPeerWatched'
      BY <1>1, <2>1, <2>2, <2>3, <2>4 DEF RelayPeerWatched
    <2> QED BY <1>3, <2>1, <2>5
  <1>5. CASE Refuse(loop.target) /\ loop' = [loop EXCEPT !.at = "poll"]
    BY <1>1, <1>3, <1>5, WatchStays DEF Refuse, peerVars, TypeOK, PeerTypes
  <1> QED BY <1>4, <1>5 DEF LoopSetAnswer

\* A peer that takes the answer of a phone on the LAN needs no watch.
LEMMA WatchAfterPost ==
  ASSUME TypeOK, Watch, NEW a \in Tries, HandlerSetAnswer(a)
  PROVE  Watch'
  <1> USE DEF Watch
  <1>1. /\ try[a].at = "set" /\ try' = [try EXCEPT ![a].at = "ended"]
        /\ UNCHANGED <<loop, disturbed>>
    BY DEF HandlerSetAnswer
  <1>2. try[a].target \in Peers /\ try[a].phone \notin RelayPhones
    <2>1. try[a].phone \in LanPhones
      BY <1>1 DEF LanPosts
    <2> QED BY <1>1, <2>1, SignalingAssumption DEF TypeOK, PhoneTypes, PeerTypes, Peers, Nil
  <1>3. \A b \in Tries : try'[b].phone = try[b].phone /\ (b # a => try'[b].at = try[b].at)
    BY <1>1 DEF TypeOK, PhoneTypes
  <1>4. LanPosts'
    BY <1>1, <1>3 DEF LanPosts, TypeOK, PhoneTypes
  <1>5. CASE Accept(try[a].target, a)
    <2>1. /\ try[a].target = peer /\ PeersInTurn' /\ peer' = peer /\ accepted'[peer] = a
          /\ \A q \in Peers : q # peer => conn'[q] = conn[q] /\ accepted'[q] = accepted[q]
      <3>1. PeerTypes
        BY DEF TypeOK
      <3>2. /\ try[a].target = peer /\ PeersInTurn' /\ peer' = peer
            /\ accepted' = [accepted EXCEPT ![try[a].target] = a]
            /\ \A q \in Peers : q # try[a].target =>
                  conn'[q] = conn[q] /\ accepted'[q] = accepted[q]
        BY <1>2, <1>5, <3>1, AcceptIsCurrent
      <3> QED BY <1>2, <3>1, <3>2 DEF PeerTypes
    <2>2. \A q \in Peers : q # peer => accepted[q] = Nil \/ accepted[q] \in Tries
      BY DEF TypeOK, PeerTypes
    <2>3. RelayPeerWatched'
      BY <1>2, <1>3, <2>1, <2>2 DEF RelayPeerWatched
    <2> QED BY <1>4, <2>1, <2>3
  <1>6. CASE Refuse(try[a].target)
    BY <1>1, <1>3, <1>4, <1>6, WatchStays DEF Refuse, peerVars, TypeOK, PeerTypes
  <1> QED BY <1>5, <1>6 DEF HandlerSetAnswer

LEMMA LoopKeepsWatch ==
  ASSUME TypeOK, Watch, RelayLoop
  PROVE  Watch'
  <1> USE DEF peerVars, relayVars, phoneVars
  <1>1. LanPosts'
    BY DEF Watch, LanPosts, RelayLoop, LoopNewOffer, DeleteAnswer, PutOffer, PollAnswer,
           LoopReadPeer, LoopSetAnswer, SeeUp, SeeEnd, Deadline
  <1>2. CASE LoopNewOffer
    BY <1>1, <1>2, WatchAfterOffer DEF LoopNewOffer
  <1>3. CASE LoopSetAnswer
    BY <1>3, WatchAfterAnswer
  <1>4. CASE DeleteAnswer \/ PutOffer \/ PollAnswer \/ LoopReadPeer
    <2>1. loop.at \notin {"new", "wait"} /\ UNCHANGED <<peerVars, try>>
      BY <1>4 DEF DeleteAnswer, PutOffer, PollAnswer, LoopReadPeer
    <2> QED BY <1>1, <2>1, WatchStays DEF TypeOK, PeerTypes
  <1>5. CASE SeeUp \/ SeeEnd \/ Deadline
    <2>1. /\ UNCHANGED <<peerVars, try>>
          /\ loop'.at # "new" => (loop'.at = loop.at /\ loop'.peer = loop.peer)
      BY <1>5 DEF SeeUp, SeeEnd, Deadline, TypeOK, LoopTypes
    <2> QED BY <1>1, <2>1, WatchStays DEF TypeOK, PeerTypes
  <1> QED BY <1>2, <1>3, <1>4, <1>5 DEF RelayLoop

LEMMA NextKeepsWatch == IInv /\ Watch /\ [Next]_vars => Watch'
  <1> SUFFICES ASSUME IInv, Watch, [Next]_vars PROVE Watch'
    OBVIOUS
  <1>0. TypeOK
    BY DEF IInv
  <1> USE <1>0 DEF peerVars, relayVars, phoneVars
  <1>1. CASE RelayLoop
    BY <1>1, LoopKeepsWatch
  <1>2. CASE Expire
    BY <1>2, WatchStays DEF Expire, Watch, LanPosts, TypeOK, PeerTypes
  <1>3. ASSUME NEW p \in Peers, ComesUp(p) \/ GoesDown(p) PROVE Watch'
    <2>1. /\ UNCHANGED <<accepted, made, peer, loop, try>>
          /\ conn[p] \notin {"none", "closed"} /\ conn'[p] # "closed"
          /\ \A q \in Peers : q # p => conn'[q] = conn[q]
          /\ conn' \in [Peers -> Conns]
      BY <1>3 DEF ComesUp, GoesDown, TypeOK, PeerTypes, Conns
    <2>2. LanPosts'
      BY <2>1 DEF Watch, LanPosts
    <2> QED BY <2>1, <2>2, WatchStays
  <1>4. ASSUME NEW a \in Tries, Connect(a) \/ Pairing(a) \/ GiveUp(a) PROVE Watch'
    <2>1. LanPosts'
      <3>1. /\ \A b \in Tries : try'[b].phone = try[b].phone /\ (b # a => try'[b].at = try[b].at)
            /\ try'[a].at \in {"post", "set"} =>
                  try[a].at \in {"post", "set"} \/ try[a].phone \in LanPhones
        BY <1>4 DEF Connect, Pairing, GiveUp, FetchOffer, GetOffer, StartPairing, PutAnswer,
           PostAnswer, HandlerReadPeer, HandlerSetAnswer, TypeOK, PhoneTypes
      <3> QED BY <3>1 DEF Watch, LanPosts
    <2>2. CASE GetOffer(a) /\ ~UNCHANGED peerVars
      BY <2>1, <2>2, WatchAfterOffer DEF GetOffer
    <2>3. CASE HandlerSetAnswer(a)
      BY <2>3, WatchAfterPost
    <2>4. CASE UNCHANGED peerVars /\ ~HandlerSetAnswer(a)
      <3>1. UNCHANGED loop /\ \A b \in Tries : try'[b].phone = try[b].phone
        BY <1>4 DEF Connect, Pairing, GiveUp, FetchOffer, GetOffer, StartPairing, PutAnswer,
           PostAnswer, HandlerReadPeer, HandlerSetAnswer, TypeOK, PhoneTypes
      <3> QED BY <2>1, <2>4, <3>1, WatchStays DEF TypeOK, PeerTypes
    <2> QED BY <1>4, <2>2, <2>3, <2>4
            DEF Connect, Pairing, GiveUp, FetchOffer, PutAnswer, PostAnswer, HandlerReadPeer
  <1>5. CASE UNCHANGED vars
    BY <1>5, WatchStays DEF vars, Watch, LanPosts, TypeOK, PeerTypes
  <1> QED BY <1>1, <1>2, <1>3, <1>4, <1>5 DEF Next

(***************************************************************************)
(* Theorems.                                                               *)
(***************************************************************************)

\* Types; in particular acceptAnswer never goes on without a peer, and
\* WaitDisconnect always has one to wait for.
THEOREM SignalingTypeOK == Spec => []TypeOK
  <1>1. IInv => TypeOK
    BY DEF IInv
  <1> QED BY InitIInv, NextKeepsIInv, <1>1, PTL DEF Spec

\* The offer in the room can be answered whenever the loop waits for an answer
\* and nothing has failed or used /offer.
THEOREM SignalingOfferLives == Spec => []RelayOfferLives
  <1>1. IInv => RelayOfferLives
    BY DEF IInv, OfferStands, RelayOfferLives
  <1> QED BY InitIInv, NextKeepsIInv, <1>1, PTL DEF Spec

\* The answer that stays in the room is never given to a second peer, as long
\* as the DELETE and newOffer do not fail.
THEOREM SignalingAnswerUsedOnce == Spec => []AnswerUsedOnce
  <1>1. IInv => AnswerUsedOnce
    BY DEF IInv
  <1> QED BY InitIInv, NextKeepsIInv, <1>1, PTL DEF Spec

\* A peer that took the relay's answer is watched by the relay loop, or about to
\* be closed by its next offer, until it is closed, whatever /offer and failures do.
THEOREM SignalingPeerWatched == Spec => []RelayPeerWatched
  <1>1. Watch => RelayPeerWatched
    BY DEF Watch
  <1> QED BY InitIInv, InitWatch, NextKeepsIInv, NextKeepsWatch, <1>1, PTL DEF Spec
=============================================================================
