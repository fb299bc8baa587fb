------------------------------ MODULE Detector ------------------------------
(***************************************************************************)
(* approval.Detector: Scan as an operator of the chunk it is given and of  *)
(* the set of contents it has seen.  d.mu makes a Scan atomic.  A line is  *)
(* the text left after stripping escape sequences and blanks; which texts  *)
(* match one of the regular expressions is the constant Prompts.           *)
(***************************************************************************)
EXTENDS Naturals, Sequences

CONSTANTS Prompts,   \* texts that match a pattern
          Blank      \* the text of an empty line

ASSUME BlankAssumption == Blank \notin Prompts

\* Variants of Reported and SeenAfter, each with a slip.
ReportedFirstLine(chunk, seen, i) == chunk[i] \in Prompts \ seen /\ i = 1
SeenEveryLine(chunk, seen) == seen \union {chunk[i] : i \in 1 .. Len(chunk)}

\* Line i of the chunk is reported: a pattern matches it and its content was
\* not reported before, nor by an earlier line of the same chunk.
Reported(chunk, seen, i) ==
  /\ chunk[i] \in Prompts \ seen
  /\ \A j \in 1 .. i - 1 : chunk[j] # chunk[i]

\* The offsets of the lines Scan returns a detection for.
Scan(chunk, seen) == {i \in 1 .. Len(chunk) : Reported(chunk, seen, i)}

\* d.seen after the Scan: matching lines only, and for good.  (Reset has no
\* caller in the program.)
SeenAfter(chunk, seen) == seen \union ({chunk[i] : i \in 1 .. Len(chunk)} \cap Prompts)
=============================================================================
