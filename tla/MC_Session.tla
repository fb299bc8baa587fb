---------------------------- MODULE MC_Session ----------------------------
(***************************************************************************)
(* One session, a bridge and the local terminal.  What more bridges add is *)
(* covered by SessionProofs, where their number is arbitrary.              *)
(***************************************************************************)
EXTENDS Session

CONSTANTS b1, stdout, none

MCOneBridge == {b1}
=============================================================================
