----------------------------- MODULE MC_Bridge -----------------------------
(***************************************************************************)
(* Small hosts: one or two sessions, the connections of a phone that       *)
(* pairs once or comes back, one or two prompts.                           *)
(***************************************************************************)
EXTENDS Bridge, TLC

CONSTANTS s1, s2, s3

OneSession    == {s1}
ThreeSessions == {s1, s2, s3}

\* The sessions that phones create are interchangeable.
Created == Permutations({s2, s3})

\* Bound: prompts and messages of the phones come in one behaviour only while there
\* is one connection, and then two of them in all.
Apart == \/ asks = << >> \/ msgs = 0
         \/ conn[2] = "none" /\ Len(asks) + msgs <= 2
=============================================================================
