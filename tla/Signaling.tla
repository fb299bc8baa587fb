----------------------------- MODULE Signaling -----------------------------
(***************************************************************************)
(* How a phone and the host find each other: the host makes an offer, the  *)
(* phone answers it, the host accepts the answer.  Over the LAN a phone    *)
(* asks the host itself (GET /offer, POST /answer).  Otherwise both go     *)
(* through a relay that keeps one offer and one answer for five minutes;   *)
(* the host's relay loop waits for an answer, accepts it, waits until the  *)
(* connection is gone and offers again.                                    *)
(*                                                                         *)
(* An offer is the number of its peer, an answer the number of the attempt *)
(* of a phone that made it.  Time is left out: an entry of the relay may   *)
(* expire and a deadline may pass at any moment.                           *)
(***************************************************************************)
EXTENDS Naturals

CONSTANTS RelayPhones,  \* phones that have the room of the relay
          LanPhones,    \* phones that load the page from the host
          Faults,       \* what may go wrong, see Kinds
          MaxPeers,     \* bound: offers made
          MaxTries      \* bound: attempts of phones to connect

\* A DELETE or a PUT of the host fails, newOffer fails, an entry expires.
Kinds == {"delete", "put", "make", "expire"}

ASSUME SignalingAssumption ==
  /\ RelayPhones \intersect LanPhones = {}
  /\ Faults \subseteq Kinds
  /\ MaxPeers \in Nat /\ MaxTries \in Nat

Phones == RelayPhones \union LanPhones
Peers == 1 .. MaxPeers
Tries == 1 .. MaxTries
Nil == 0

VARIABLES
  \* peerManager and the peers
  conn,      \* state of each peer: "none" before it exists, then "offered",
             \* "answered", "up", "down" or "closed"
  accepted,  \* the answer each peer has accepted
  made,      \* peers made so far
  peer,      \* pm.peer
  \* the relay
  kvOffer,   \* room:offer, Nil if absent
  kvAnswer,  \* room:answer
  \* startRelaySignaling and its goroutine
  loop,      \* [at, first, offer, answer, peer, target, seen]
  \* the phones
  try,       \* [at, phone, offer, target]: the calls of connect()
  rtc,       \* this.rtc of each phone, an attempt
  live,      \* attempts whose RTCPeerConnection has not been closed
  \* history
  disturbed  \* what has gone wrong, and "lan" once /offer was used

peerVars  == <<conn, accepted, made, peer>>
relayVars == <<kvOffer, kvAnswer>>
phoneVars == <<try, rtc, live>>
vars == <<peerVars, relayVars, loop, phoneVars, disturbed>>

LoopSteps == {"new", "delete", "put", "poll", "read", "set", "wait", "off"}

Conns == {"none", "offered", "answered", "up", "down", "closed"}
TrySteps == {"none", "fetch", "answer", "post", "set", "ended"}

PeerTypes ==
  /\ conn \in [Peers -> Conns]
  /\ accepted \in [Peers -> Tries \union {Nil}]
  /\ made \in 0 .. MaxPeers /\ peer \in 0 .. made
RelayTypes ==
  /\ kvOffer \in 0 .. made /\ kvAnswer \in Tries \union {Nil}
  /\ disturbed \subseteq Kinds \union {"lan"}
LoopTypes ==
  /\ loop \in [at : LoopSteps, first : BOOLEAN, offer : 0 .. made,
               answer : Tries \union {Nil}, peer : 0 .. made, target : 0 .. made,
               seen : BOOLEAN]
  /\ loop.at \in {"read", "set", "wait"} => loop.peer # Nil
  /\ loop.at \in {"set", "wait"} => loop.target # Nil
PhoneTypes ==
  /\ try \in [Tries -> [at : TrySteps, phone : Phones,
                        offer : 0 .. made, target : 0 .. made]]
  /\ \A a \in Tries : try[a].at = "set" => try[a].target # Nil
  /\ rtc \in [Phones -> Tries \union {Nil}]
  /\ live \subseteq Tries

TypeOK == PeerTypes /\ RelayTypes /\ LoopTypes /\ PhoneTypes

\* runCommand has started the HTTP server and calls startRelaySignaling.
Init ==
  /\ conn = [p \in Peers |-> "none"] /\ accepted = [p \in Peers |-> Nil]
  /\ made = 0 /\ peer = Nil
  /\ kvOffer = Nil /\ kvAnswer = Nil
  /\ loop = [at |-> "new", first |-> TRUE, offer |-> Nil, answer |-> Nil,
             peer |-> Nil, target |-> Nil, seen |-> FALSE]
  /\ try \in [Tries -> [at : {"none"}, phone : Phones, offer : {Nil}, target : {Nil}]]
  /\ rtc = [ph \in Phones |-> Nil] /\ live = {}
  /\ disturbed = {}

(***************************************************************************)
(* peerManager.  newOffer runs under pm.mu; what happens while it gathers  *)
(* candidates cannot tell whether pm.peer has changed yet, so it is one    *)
(* step.  acceptAnswer reads pm.peer under pm.mu and uses it afterwards.   *)
(***************************************************************************)

\* A slip: the previous peer is left as it is.
PreviousOpen == conn

PreviousClosed ==
  [p \in Peers |-> IF p = peer THEN "closed" ELSE conn[p]]

NewOffer ==
  /\ made < MaxPeers
  /\ made' = made + 1 /\ peer' = made + 1
  /\ conn' = [PreviousClosed EXCEPT ![made + 1] = "offered"]
  /\ UNCHANGED accepted

\* It fails after the previous peer was closed (at the bound it has to).
NewOfferFails ==
  /\ "make" \in Faults \/ made = MaxPeers
  /\ conn' = PreviousClosed
  /\ UNCHANGED <<made, peer, accepted>>

\* rtc.AcceptAnswer: a peer takes one answer, whatever offer that answers.
Accept(p, a) ==
  /\ conn[p] = "offered"
  /\ conn' = [conn EXCEPT ![p] = "answered"]
  /\ accepted' = [accepted EXCEPT ![p] = a]
  /\ UNCHANGED <<made, peer>>

\* The error of SetRemoteDescription on a closed or an answered connection.
Refuse(p) == conn[p] # "offered" /\ UNCHANGED peerVars

Matches(p) == accepted[p] # Nil /\ try[accepted[p]].offer = p

\* ICE: a connection comes about, also again after "disconnected", only
\* between the peer that made the offer and the attempt that answered it.
ComesUp(p) ==
  /\ conn[p] \in {"answered", "down"} /\ Matches(p) /\ accepted[p] \in live
  /\ conn' = [conn EXCEPT ![p] = "up"]
  /\ UNCHANGED <<accepted, made, peer, relayVars, loop, phoneVars, disturbed>>

\* ICE reports disconnected or failed.
GoesDown(p) ==
  /\ conn[p] \in {"answered", "up"}
  /\ conn' = [conn EXCEPT ![p] = "down"]
  /\ UNCHANGED <<accepted, made, peer, relayVars, loop, phoneVars, disturbed>>

(***************************************************************************)
(* The relay loop.  At the first failure it never starts ("off"): the host *)
(* is then reachable over the LAN only.                                    *)
(***************************************************************************)

LoopNewOffer ==
  /\ loop.at = "new"
  /\ \/ /\ NewOffer
        /\ loop' = [loop EXCEPT !.at = "delete", !.offer = made + 1]
        /\ UNCHANGED disturbed
     \/ /\ NewOfferFails
        /\ loop' = [loop EXCEPT !.at = IF loop.first THEN "off" ELSE "poll"]
        /\ disturbed' = disturbed \union {"make"}
  /\ UNCHANGED <<relayVars, phoneVars>>

\* DeleteAnswer with a slip: the old answer is left in the room.
KeepAnswer ==
  /\ loop.at = "delete"
  /\ loop' = [loop EXCEPT !.at = "put"]
  /\ UNCHANGED <<peerVars, relayVars, phoneVars, disturbed>>

\* PostOffer clears the answer first and ignores a failure.
DeleteAnswer ==
  /\ loop.at = "delete"
  /\ \/ kvAnswer' = Nil /\ UNCHANGED disturbed
     \/ "delete" \in Faults /\ UNCHANGED kvAnswer
        /\ disturbed' = disturbed \union {"delete"}
  /\ loop' = [loop EXCEPT !.at = "put"]
  /\ UNCHANGED <<peerVars, kvOffer, phoneVars>>

\* A PUT that fails may have been carried out.  The loop does not retry it.
PutOffer ==
  /\ loop.at = "put"
  /\ \/ /\ kvOffer' = loop.offer
        /\ loop' = [loop EXCEPT !.at = "poll", !.first = FALSE]
        /\ UNCHANGED disturbed
     \/ /\ "put" \in Faults
        /\ kvOffer' \in {kvOffer, loop.offer}
        /\ loop' = [loop EXCEPT !.at = IF loop.first THEN "off" ELSE "poll"]
        /\ disturbed' = disturbed \union {"put"}
  /\ UNCHANGED <<peerVars, kvAnswer, phoneVars>>

\* PollAnswer has an answer, which stays in the room; the loop notes pm.peer.
PollAnswer ==
  /\ loop.at = "poll" /\ kvAnswer # Nil
  /\ loop' = [loop EXCEPT !.at = "read", !.answer = kvAnswer, !.peer = peer]
  /\ UNCHANGED <<peerVars, relayVars, phoneVars, disturbed>>

\* acceptAnswer reads pm.peer again ...
LoopReadPeer ==
  /\ loop.at = "read"
  /\ loop' = [loop EXCEPT !.at = "set", !.target = peer]
  /\ UNCHANGED <<peerVars, relayVars, phoneVars, disturbed>>

\* ... and applies the answer to it.
LoopSetAnswer ==
  /\ loop.at = "set"
  /\ \/ /\ Accept(loop.target, loop.answer)
        /\ loop' = [loop EXCEPT !.at = "wait", !.seen = FALSE]
     \/ /\ Refuse(loop.target)
        /\ loop' = [loop EXCEPT !.at = "poll"]
  /\ UNCHANGED <<relayVars, phoneVars, disturbed>>

\* WaitDisconnect looks at the state of the peer every half second.
SeeUp ==
  /\ loop.at = "wait" /\ ~loop.seen /\ conn[loop.peer] = "up"
  /\ loop' = [loop EXCEPT !.seen = TRUE]
  /\ UNCHANGED <<peerVars, relayVars, phoneVars, disturbed>>

\* SeeEnd with slips: only Close ends the wait; the loop polls again without
\* a new offer.
SeeClosed ==
  /\ loop.at = "wait" /\ conn[loop.peer] = "closed"
  /\ loop' = [loop EXCEPT !.at = "new"]
  /\ UNCHANGED <<peerVars, relayVars, phoneVars, disturbed>>

SeeEndAndPoll ==
  /\ loop.at = "wait" /\ conn[loop.peer] \in {"down", "closed"}
  /\ loop' = [loop EXCEPT !.at = "poll"]
  /\ UNCHANGED <<peerVars, relayVars, phoneVars, disturbed>>

SeeEnd ==
  /\ loop.at = "wait" /\ conn[loop.peer] \in {"down", "closed"}
  /\ loop' = [loop EXCEPT !.at = "new"]
  /\ UNCHANGED <<peerVars, relayVars, phoneVars, disturbed>>

\* Deadline with a slip: the test of connected is the wrong way round.
DeadlineIfSeen ==
  /\ loop.at = "wait" /\ loop.seen
  /\ loop' = [loop EXCEPT !.at = "new"]
  /\ UNCHANGED <<peerVars, relayVars, phoneVars, disturbed>>

\* Thirty seconds have passed and no look has found the peer connected.
Deadline ==
  /\ loop.at = "wait" /\ ~loop.seen
  /\ loop' = [loop EXCEPT !.at = "new"]
  /\ UNCHANGED <<peerVars, relayVars, phoneVars, disturbed>>

RelayLoop ==
  \/ LoopNewOffer \/ DeleteAnswer \/ PutOffer
  \/ PollAnswer \/ LoopReadPeer \/ LoopSetAnswer
  \/ SeeUp \/ SeeEnd \/ Deadline

\* The relay forgets an entry.
Expire ==
  /\ "expire" \in Faults
  /\ \/ kvOffer # Nil /\ kvOffer' = Nil /\ UNCHANGED kvAnswer
     \/ kvAnswer # Nil /\ kvAnswer' = Nil /\ UNCHANGED kvOffer
  /\ disturbed' = disturbed \union {"expire"}
  /\ UNCHANGED <<peerVars, loop, phoneVars>>

(***************************************************************************)
(* The phones.  connect() is called by a tap, a timer or after an error,   *)
(* also while an earlier call is still at work.                            *)
(***************************************************************************)

\* cleanup() closes this.rtc; what earlier calls are waiting for still comes.
Connect(a) ==
  LET ph == try[a].phone
  IN  /\ try[a].at = "none" /\ \A b \in Tries : b < a => try[b].at # "none"
      /\ try' = [try EXCEPT ![a].at = "fetch"]
      /\ live' = live \ {rtc[ph]}
      /\ rtc' = [rtc EXCEPT ![ph] = Nil]
      /\ UNCHANGED <<peerVars, relayVars, loop, disturbed>>

\* startPairing: a new RTCClient, which begins to answer the offer.
StartPairing(a, offer) ==
  /\ try' = [try EXCEPT ![a].at = "answer", ![a].offer = offer]
  /\ rtc' = [rtc EXCEPT ![try[a].phone] = a]
  /\ live' = live \union {a}

\* connectViaRelay asks every two seconds until there is an offer.
FetchOffer(a) ==
  /\ try[a].at = "fetch" /\ try[a].phone \in RelayPhones /\ kvOffer # Nil
  /\ StartPairing(a, kvOffer)
  /\ UNCHANGED <<peerVars, relayVars, loop, disturbed>>

\* connectLocal: the handler of /offer makes a new offer for each request; if
\* its response is lost the phone asks again.
GetOffer(a) ==
  /\ try[a].at = "fetch" /\ try[a].phone \in LanPhones
  /\ \/ /\ NewOffer
        /\ StartPairing(a, made + 1)
        /\ disturbed' = disturbed \union {"lan"}
     \/ /\ NewOffer
        /\ disturbed' = disturbed \union {"lan"}
        /\ UNCHANGED <<try, rtc, live>>
     \/ /\ NewOfferFails
        /\ try' = [try EXCEPT ![a].at = "ended"]
        /\ disturbed' = disturbed \union {"lan", "make"}
        /\ UNCHANGED <<rtc, live>>
  /\ UNCHANGED <<relayVars, loop>>

\* PUT /relay/:room/answer.
PutAnswer(a) ==
  /\ try[a].at = "answer" /\ try[a].phone \in RelayPhones
  /\ kvAnswer' = a
  /\ try' = [try EXCEPT ![a].at = "ended"]
  /\ UNCHANGED <<peerVars, kvOffer, loop, rtc, live, disturbed>>

\* POST /answer, in its steps: sent, pm.peer read, the answer applied.
PostAnswer(a) ==
  /\ try[a].at = "answer" /\ try[a].phone \in LanPhones
  /\ try' = [try EXCEPT ![a].at = "post"]
  /\ UNCHANGED <<peerVars, relayVars, loop, rtc, live, disturbed>>

\* With a slip: "no pending offer" is not noticed, a closed peer is dropped.
HandlerReadsAny(a) ==
  /\ try[a].at = "post"
  /\ try' = [try EXCEPT ![a].at = "set",
                        ![a].target = IF conn[peer] = "closed" THEN Nil ELSE peer]
  /\ UNCHANGED <<peerVars, relayVars, loop, rtc, live, disturbed>>

HandlerReadPeer(a) ==
  /\ try[a].at = "post"
  /\ try' = [try EXCEPT ![a].at = IF peer = Nil THEN "ended" ELSE "set",
                        ![a].target = peer]
  /\ UNCHANGED <<peerVars, relayVars, loop, rtc, live, disturbed>>

HandlerSetAnswer(a) ==
  /\ try[a].at = "set"
  /\ Accept(try[a].target, a) \/ Refuse(try[a].target)
  /\ try' = [try EXCEPT ![a].at = "ended"]
  /\ UNCHANGED <<relayVars, loop, rtc, live, disturbed>>

\* The phone turns to another host, acceptOffer throws since the client was
\* closed, or a request is lost.
GiveUp(a) ==
  /\ try[a].at \in {"fetch", "answer"}
  /\ try' = [try EXCEPT ![a].at = "ended"]
  /\ UNCHANGED <<peerVars, relayVars, loop, rtc, live, disturbed>>

Pairing(a) ==
  \/ FetchOffer(a) \/ GetOffer(a)
  \/ PutAnswer(a) \/ PostAnswer(a) \/ HandlerReadPeer(a) \/ HandlerSetAnswer(a)

Next ==
  \/ RelayLoop \/ Expire
  \/ \E p \in Peers : ComesUp(p) \/ GoesDown(p)
  \/ \E a \in Tries : Connect(a) \/ Pairing(a) \/ GiveUp(a)

Spec == Init /\ [][Next]_vars

\* The relay loop is one goroutine whose steps all end, and a call of
\* connect() runs on; nobody owes a connection or an attempt.
FairSpec == Spec /\ WF_vars(RelayLoop) /\ \A a \in Tries : WF_vars(Pairing(a))

(***************************************************************************)
(* Properties.                                                             *)
(***************************************************************************)

\* While the relay loop waits for an answer, the offer in the room is that of
\* the current peer, which can still take an answer, unless a request, an
\* entry or newOffer failed or somebody asked for /offer: of startRelaySignaling.
RelayOfferLives ==
  disturbed = {} /\ loop.at = "poll" => kvOffer = peer /\ conn[peer] = "offered"

\* No answer is given to two peers although the relay keeps it after it was
\* read, as long as neither newOffer nor the DELETE of PostOffer fails.
AnswerUsedOnce ==
  disturbed \intersect {"delete", "make"} = {} =>
    \A p, q \in Peers : p # q /\ accepted[p] # Nil => accepted[p] # accepted[q]

\* A peer that has the relay's answer is never forgotten: until it is closed the
\* loop waits for its end, or for a peer that ended already, or is about to make
\* the offer that closes it, whoever asks for /offer meanwhile.
RelayPeerWatched ==
  \A p \in Peers :
    accepted[p] # Nil /\ try[accepted[p]].phone \in RelayPhones /\ conn[p] # "closed" =>
      /\ p = peer
      /\ \/ loop.at = "new"
         \/ loop.at = "wait" /\ (loop.peer = p \/ conn[loop.peer] = "closed")

\* A peer that took the relay's answer to another offer, which will never
\* connect, is given up by the relay loop, whatever else fails.
MismatchHeals ==
  \A p \in Peers :
    ( /\ accepted[p] # Nil /\ ~Matches(p)
      /\ try[accepted[p]].phone \in RelayPhones ) ~> conn[p] = "closed"

\* If nothing disturbs it, a host whose connection was lost waits for an answer
\* to a fresh offer in the room, or the connection has recovered.
ReofferAfterDrop ==
  [](disturbed = {}) =>
    \A p \in Peers :
      (loop.at = "wait" /\ loop.peer = p /\ conn[p] = "down") ~>
        \/ conn[p] = "up"
        \/ loop.at = "poll" /\ kvOffer = peer /\ peer # p /\ conn[peer] = "offered"

(***************************************************************************)
(* Why the invariants hold: the parts of the inductive invariant.          *)
(***************************************************************************)

\* Once the loop has offered there is a current peer.
PeerExists == loop.at \notin {"new", "off"} \/ ~loop.first => peer # Nil

\* A LAN phone has an offer only if it asked for one.
LanAsked ==
  \A a \in Tries :
    \/ try[a].at \in {"post", "set"}
    \/ try[a].at = "answer" /\ try[a].phone \in LanPhones
    => "lan" \in disturbed

\* From its newOffer to the acceptance the loop deals with the current peer.
OfferStands ==
  disturbed = {} =>
    /\ loop.at \in {"delete", "put"} => loop.offer = peer
    /\ loop.at \in {"poll", "read", "set"} => kvOffer = peer
    /\ loop.at = "set" => loop.target = peer
    /\ loop.at \in {"delete", "put", "poll", "read", "set"} => conn[peer] = "offered"

Unused(a) == \A p \in Peers : accepted[p] # a

\* What a phone has not sent yet is nowhere at the host or in the relay.
NotYetSent ==
  \A a \in Tries :
    try[a].at # "ended" => Unused(a) /\ kvAnswer # a /\ loop.answer # a

\* From the DELETE to the acceptance the answer in the room is a new one.
AnswerIsNew ==
  disturbed \intersect {"delete", "make"} = {} =>
    /\ loop.at \in {"put", "poll", "read", "set"} /\ kvAnswer # Nil => Unused(kvAnswer)
    /\ loop.at \in {"read", "set"} => loop.answer # Nil /\ Unused(loop.answer)

\* Only the peer made last may be open, and later ones do not exist.
PeersInTurn ==
  /\ peer = made
  /\ \A p \in Peers : /\ p < peer => conn[p] = "closed"
                      /\ p > peer => conn[p] = "none" /\ accepted[p] = Nil

\* Only phones on the LAN answer with POST /answer.
LanPosts == \A a \in Tries : try[a].at \in {"post", "set"} => try[a].phone \in LanPhones

Watch == PeersInTurn /\ LanPosts /\ RelayPeerWatched

IInv == /\ TypeOK /\ PeerExists /\ LanAsked /\ OfferStands
        /\ NotYetSent /\ AnswerIsNew /\ AnswerUsedOnce
=============================================================================
