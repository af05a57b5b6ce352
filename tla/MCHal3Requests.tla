--------------------------- MODULE MCHal3Requests ---------------------------
(***************************************************************************)
(* Small instances of Hal3Requests: one or two streams, and what may       *)
(* happen in each run.                                                     *)
(***************************************************************************)
EXTENDS Hal3Requests

CONSTANTS preview, picture

TwoStreams == {preview, picture}
OneStream  == {preview}

Live == {"live"}
Both == {"live", "reproc"}

World(kinds, faults, n, min) ==
  [kinds |-> kinds, faults |-> faults, maxFlush |-> n, min |-> min, max |-> min + 1]

\* Live requests with a flush and the daemon's pull; reprocess requests without a
\* flush; the daemon's death and the time-out; refused buffers, sensor restarts and
\* channels that cannot be stopped.
AllWorlds ==
  {World(Live, {"pull"}, 1, 1),
   World(Both, {"pull"}, 0, 2),
   World(Live, {"die", "timeout"}, 1, 2),
   World(Live, {"refuse", "restart", "stop"}, 1, 2)}

\* The two runs that find a disagreement.
ReprocFlushWorld == {World(Both, {"pull"}, 1, 2)}
TableWorld       == {World(Live, {"restart", "die"}, 1, 2)}
=============================================================================
