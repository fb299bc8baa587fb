------------------------------ MODULE Terminal ------------------------------
(***************************************************************************)
(* The detector at work on the output of a terminal: a program prints      *)
(* lines, readLoop cuts the stream into chunks wherever a Read happens to  *)
(* end, also inside a line, and every chunk is scanned on its own.         *)
(***************************************************************************)
EXTENDS Detector, SequencesExt

CONSTANTS Lines,        \* lines the program may print
          Left, Right,  \* what is left of a line on either side of a cut
          MaxLines,     \* bound: lines printed in a behaviour
          MaxChunk      \* bound: whole lines in one chunk

ASSUME CutAssumption == DOMAIN Left = Lines /\ DOMAIN Right = Lines
ASSUME BoundsAssumption == MaxLines \in Nat /\ MaxChunk \in Nat

VARIABLES seen,      \* d.seen
          printed,   \* the lines printed so far
          open,      \* the last line was cut: its rest starts the next chunk
          arrived,   \* texts scanned so far, in order
          found      \* positions in arrived that Scan reported

vars == <<seen, printed, open, arrived, found>>

\* Every text a scan may be given.
Texts == Lines \union Range(Left) \union Range(Right)

TypeOK == /\ seen \subseteq Prompts
          /\ printed \in Seq(Lines) /\ Len(printed) <= MaxLines
          /\ open \in BOOLEAN
          /\ arrived \in Seq(Texts)
          /\ found \subseteq 1 .. Len(arrived)

Init == /\ seen = {} /\ found = {}
        /\ printed = << >> /\ arrived = << >>
        /\ open = FALSE

\* A Read returns what is left of the open line, some whole lines and,
\* perhaps, the beginning of one more.
Chunk(whole, cut) ==
  (IF open THEN <<Right[Last(printed)]>> ELSE << >>)
  \o whole
  \o (IF cut = << >> THEN << >> ELSE <<Left[cut[1]]>>)

Read(whole, cut) ==
  LET chunk == Chunk(whole, cut)
  IN  /\ chunk # << >>
      /\ Len(printed) + Len(whole) + Len(cut) <= MaxLines
      /\ printed' = printed \o whole \o cut
      /\ open' = (cut # << >>)
      /\ arrived' = arrived \o chunk
      /\ found' = found \union {Len(arrived) + i : i \in Scan(chunk, seen)}
      /\ seen' = SeenAfter(chunk, seen)

Next == \E whole \in BoundedSeq(Lines, MaxChunk), cut \in BoundedSeq(Lines, 1) :
          Read(whole, cut)

Spec == Init /\ [][Next]_vars

(***************************************************************************)
(* Properties.                                                             *)
(***************************************************************************)

\* Scan "returns all new detections": what it reports matches, and of the texts
\* that match each one is reported where it first comes, however many come in one
\* chunk and wherever the reads end.  What becomes of a text that comes again is
\* Bridge's EveryPromptReachesPhone.
NewTextsReported ==
  /\ \A i \in found : arrived[i] \in Prompts
  /\ \A i \in 1 .. Len(arrived) :
       arrived[i] \in Prompts /\ (\A j \in 1 .. i - 1 : arrived[j] # arrived[i])
         => i \in found

(***************************************************************************)
(* Why it holds: the parts of the inductive invariant.                     *)
(***************************************************************************)

\* Scanning chunk by chunk has come to the same as one scan of the whole.
ScannedWhole == found = Scan(arrived, {}) /\ seen = SeenAfter(arrived, {})

\* An open line is the last one printed.
OpenLine == open => printed # << >>

IInv == TypeOK /\ OpenLine /\ ScannedWhole

(***************************************************************************)
(* What the repository says of the detector, and the code does not do.     *)
(***************************************************************************)

\* ARCHITECTURE.md:192 "Scans last 512 bytes of output": a line that asks is
\* found once it has been read whole, also when one Read ended inside it.  Scan
\* is given each read on its own and remembers no output.
CutLinesFound ==
  \A i \in 1 .. Len(printed) :
    printed[i] \in Prompts /\ (i < Len(printed) \/ ~open)
      => \E k \in found : arrived[k] = printed[i]
=============================================================================
