-------------------------------- MODULE Pipe --------------------------------
(***************************************************************************)
(* What a keyboard promises: for each of several ends, what comes out is   *)
(* what was typed there, in order, nothing twice and nothing of another    *)
(* end.  It may stop anywhere.  What is typed at one time goes in whole,   *)
(* unless it is longer than the limit: then its end may be missing, or all *)
(* of it.                                                                  *)
(***************************************************************************)
EXTENDS Naturals, Sequences, SequencesExt

CONSTANTS Ends, Limit

VARIABLES typed,   \* everything typed at an end so far
          in,      \* what went in of it
          out      \* what came out there

vars == <<typed, in, out>>

Init == /\ typed = [e \in Ends |-> << >>] /\ in = [e \in Ends |-> << >>]
        /\ out = [e \in Ends |-> << >>]

\* What a sequence that grew from old to new got.
Added(old, new) == SubSeq(new, Len(old) + 1, Len(new))

Put == /\ \A e \in Ends :
            LET keys == Added(typed[e], typed'[e])
            IN  /\ IsPrefix(typed[e], typed'[e]) /\ IsPrefix(in[e], in'[e])
                /\ IsPrefix(Added(in[e], in'[e]), keys)
                /\ Len(keys) <= Limit => Added(in[e], in'[e]) = keys
       /\ UNCHANGED out

Take == /\ \A e \in Ends : IsPrefix(out[e], out'[e]) /\ IsPrefix(out'[e], in[e])
        /\ UNCHANGED <<typed, in>>

Spec == Init /\ [][Put \/ Take]_vars
=============================================================================
