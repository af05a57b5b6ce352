-------------------------- MODULE MCSuperbufQueue --------------------------
(* The superbuf queue with the streams of a ZSL channel.                   *)
EXTENDS SuperbufQueue

CONSTANTS meta, snap, prev

MetaSnapPrev == {meta, snap, prev}
MetaOnly == {meta}
Marks == {0, 1}
Both == {TRUE, FALSE}

\* A metadata buffer or a request that expects, wants kept, or diverts frame 2, or
\* goes back to frame 0; and flash bracketing that wants 1 and then 3.
Some ==
  [expected_frame_id : {0, 2}, expected_frame_id_without_led : {0},
   good_frame_id : {0}, diverted_frame_id : {0, 2},
   isFlashBracketingEnabled : {FALSE}]
  \cup {[expected_frame_id |-> 0, expected_frame_id_without_led |-> 0,
         good_frame_id |-> 2, diverted_frame_id |-> 0,
         isFlashBracketingEnabled |-> FALSE],
        [expected_frame_id |-> 1, expected_frame_id_without_led |-> 3,
         good_frame_id |-> 1, diverted_frame_id |-> 0,
         isFlashBracketingEnabled |-> TRUE]}
=============================================================================
