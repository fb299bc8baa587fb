--------------------------- MODULE MC_RingBuffer ---------------------------
(***************************************************************************)
(* A ring of five bytes written with slices of up to seven: shorter than,  *)
(* equal to and longer than the ring, wrapping at every offset, and enough *)
(* bytes for the ring to be overwritten several times.                     *)
(***************************************************************************)
EXTENDS RingBuffer

MCSize     == 5
MCMaxWrite == 7
MCMaxTotal == 40
=============================================================================
