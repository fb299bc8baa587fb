---------------------------- MODULE MC_Terminal ----------------------------
(***************************************************************************)
(* Two prompts and an ordinary line.  A cut goes through what the pattern  *)
(* looks for, except that p2 is recognised by its second half alone ("...  *)
(* [Y/n]" cut before the bracket).                                         *)
(***************************************************************************)
EXTENDS Terminal

MCLines   == {"p1", "p2", "text"}
MCLeft    == [l \in MCLines |-> CASE l = "p1" -> "p1 left" [] l = "p2" -> "p2 left"
                                   [] OTHER -> "text"]
MCRight   == [l \in MCLines |-> CASE l = "p1" -> "p1 right" [] l = "p2" -> "p2 right"
                                   [] OTHER -> "blank"]
MCPrompts == {"p1", "p2", "p2 right"}
=============================================================================
