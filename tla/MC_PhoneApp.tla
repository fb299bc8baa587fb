---------------------------- MODULE MC_PhoneApp -----------------------------
(***************************************************************************)
(* Two hosts, of which the phone knows one or both.                        *)
(***************************************************************************)
EXTENDS PhoneApp, TLC

Symmetry == Permutations(Hosts)

\* Bound: two calls of connect are under way at a time.  If both hosts are known, the
\* third call begins when those before it and their timers have ended.  After the
\* removal of a host, and once ICE is "completed", there are two calls.
UnderWay == {c \in Calls : call[c].at \notin {"unused", "over"}}
Few == /\ Cardinality(UnderWay) <= 2
       /\ Free = {} /\ known = Hosts => Cardinality(UnderWay \union timers) <= 1
       /\ "completed" \in Range(state) => Free # {} /\ removed = {}
       /\ removed = {} \/ Free # {}
=============================================================================
