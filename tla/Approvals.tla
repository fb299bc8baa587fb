------------------------------ MODULE Approvals ------------------------------
(***************************************************************************)
(* What approval promises, whatever connections come and go: each prompt a *)
(* program shows is requested once at most, a request shows on one phone   *)
(* at most, and it is answered once at most, by a phone that shows it, in  *)
(* the session whose program asked.  Whether a prompt is requested at all  *)
(* is left open.                                                           *)
(***************************************************************************)
EXTENDS Naturals, Sequences

CONSTANTS Phones, Sessions

VARIABLES asked,     \* the session of each prompt shown, in order
          requests,  \* the prompt each request is for, in order
          cards,     \* the requests each phone shows or has shown
          given      \* the answers that reached a program, [req, sess], in order

vars == <<asked, requests, cards, given>>

Init == /\ asked = << >> /\ requests = << >> /\ given = << >>
        /\ cards = [p \in Phones |-> {}]

Ask(s) ==
  /\ asked' = Append(asked, s)
  /\ UNCHANGED <<requests, cards, given>>

Request(a) ==
  /\ a \in DOMAIN asked /\ \A r \in DOMAIN requests : requests[r] # a
  /\ requests' = Append(requests, a)
  /\ UNCHANGED <<asked, cards, given>>

Deliver(p, r) ==
  /\ r \in DOMAIN requests /\ \A q \in Phones : r \notin cards[q]
  /\ cards' = [cards EXCEPT ![p] = @ \union {r}]
  /\ UNCHANGED <<asked, requests, given>>

Give(p, r) ==
  /\ r \in cards[p] /\ \A i \in DOMAIN given : given[i].req # r
  /\ given' = Append(given, [req |-> r, sess |-> asked[requests[r]]])
  /\ UNCHANGED <<asked, requests, cards>>

Next == \/ \E s \in Sessions : Ask(s)
        \/ \E a \in DOMAIN asked : Request(a)
        \/ \E p \in Phones, r \in DOMAIN requests : Deliver(p, r) \/ Give(p, r)

Spec == Init /\ [][Next]_vars
=============================================================================
