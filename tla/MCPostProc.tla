------------------------------ MODULE MCPostProc -----------------------------
(* The ways a picture goes through the postprocessor.                      *)
EXTENDS PostProc

Plain == [passes |-> 0, raw |-> FALSE, zsl |-> FALSE, save |-> FALSE, faults |-> {}, bufs |-> 1,
          early |-> FALSE, ordered |-> TRUE]

\* A reprocess channel that may refuse a frame.
Refusing == {[Plain EXCEPT !.passes = 1, !.bufs = 2, !.faults = {"reprocess"}]}

\* Straight to the encoder; raw, outside ZSL and in it; one pass with a single
\* buffer; one pass, saved, with a single buffer and with two; two passes, in
\* order and not; raw after one pass; events that come too early.
Pictures ==
  {[Plain EXCEPT !.faults = {"encode"}],
   [Plain EXCEPT !.raw = TRUE, !.faults = {"raw"}],
   [Plain EXCEPT !.raw = TRUE, !.zsl = TRUE, !.faults = {"raw"}],
   [Plain EXCEPT !.passes = 1, !.faults = {"encode"}],
   [Plain EXCEPT !.passes = 1, !.save = TRUE],
   [Plain EXCEPT !.passes = 1, !.save = TRUE, !.bufs = 2],
   [Plain EXCEPT !.passes = 2, !.bufs = 2],
   [Plain EXCEPT !.passes = 2, !.bufs = 2, !.ordered = FALSE],
   [Plain EXCEPT !.passes = 1, !.raw = TRUE, !.zsl = TRUE, !.bufs = 2],
   [Plain EXCEPT !.passes = 1, !.early = TRUE],
   [Plain EXCEPT !.save = TRUE, !.early = TRUE]}
  \cup Refusing
=============================================================================
