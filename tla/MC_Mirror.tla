----------------------------- MODULE MC_Mirror -----------------------------
(***************************************************************************)
(* A byte has two values and a session id one character, so that a frame   *)
(* takes 3 bytes; the ring is one byte larger, as in the program.          *)
(***************************************************************************)
EXTENDS Mirror

OneSession  == {<<0>>}
TwoSessions == {<<0>>, <<1>>}

\* Bound: pastes of which something is cut come in behaviours without output, over
\* a connection that ICE makes once.
Apart == kept # typed => Total = 0 /\ ups = 1
=============================================================================
