--------------------------- MODULE MC_Signaling ---------------------------
(***************************************************************************)
(* One phone that scanned the QR code of the relay and one on the LAN.     *)
(***************************************************************************)
EXTENDS Signaling

CONSTANTS r1, l1

RelayOnly == {r1}
LanOnly == {l1}
NoPhone == {}
=============================================================================
