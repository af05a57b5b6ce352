--------------------------- MODULE SuperbufQueue ---------------------------
(***************************************************************************)
(* The superbuf queue of a channel (mm_channel_queue_t in                  *)
(* mm-camera-interface/src/mm_camera_channel.c).  Buffers of the bundled   *)
(* streams arrive one by one, each with the index of the frame it belongs  *)
(* to; the queue gathers those of one frame in a node, and a node with a   *)
(* buffer of every stream is matched and may be handed to the HAL.  What   *)
(* does not fit is given back to the kernel (mm_channel_qbuf).             *)
(*                                                                         *)
(* Every operation is one step: the channel's command thread is the only   *)
(* one that works on the queue, and does so under queue->que.lock.  What   *)
(* the metadata and the requests change (the expected frame and the like)  *)
(* changes here to any value of Retargets.                                 *)
(***************************************************************************)
EXTENDS Integers, Sequences, FiniteSets

CONSTANTS
  Streams,          \* bundled_streams
  Meta,             \* those of type CAM_STREAM_TYPE_METADATA
  Priorities,       \* may attr.priority be MM_CAMERA_SUPER_BUF_PRIORITY_LOW
  MaxUnmatched,     \* attr.max_unmatched_frames
  PostFrameSkip,    \* attr.post_frame_skip
  Limits,           \* attr.water_mark and attr.look_back
  MaxIdx,           \* bound: the last frame a stream produces
  Retargets         \* what metadata and requests may ask for: see Target

ASSUME SuperbufAssumption ==
  /\ IsFiniteSet(Streams) /\ Streams # {}
  /\ Meta \subseteq Streams
  /\ Priorities \subseteq BOOLEAN
  /\ MaxUnmatched \in Nat /\ PostFrameSkip \in Nat /\ MaxIdx \in Nat
  /\ Limits \subseteq Nat

Frames == 1 .. MaxIdx

\* isFlashBracketingEnabled and diverted_frame_id are fields of the channel.
Target == [expected_frame_id : Nat, expected_frame_id_without_led : Nat,
           good_frame_id : Nat, diverted_frame_id : Nat,
           isFlashBracketingEnabled : BOOLEAN]

ASSUME RetargetsAssumption == Retargets \subseteq Target

\* A buffer, by the stream that owns it and the frame it holds.
Buffers == [stream : Streams, idx : Frames]

VARIABLES
  low,         \* attr.priority = MM_CAMERA_SUPER_BUF_PRIORITY_LOW, which stays
  nodes,       \* que: the superbufs, the head first
  match_cnt,
  target,      \* the fields of the queue and the channel that select frames
  last,        \* the last frame each stream delivered
  held,        \* the buffers taken from the kernel and not given back
  given        \* the buffers of the superbufs handed to the HAL

vars == <<low, nodes, match_cnt, target, last, held, given>>

\* mm_channel_queue_node_t: slot[s] is super_buf[s].frame_idx, 0 when that slot
\* is empty; meta is unmatched_meta_idx.
Node == [idx : Nat, slot : [Streams -> Nat], matched : BOOLEAN,
         expected_frame : BOOLEAN, meta : Nat]

QueueTypeOK ==
  /\ nodes \in Seq(Node)
  /\ match_cnt \in Nat
  /\ target \in Target
  /\ last \in [Streams -> Nat]
  /\ held \subseteq Buffers
  /\ given \subseteq Buffers

TypeOK == low \in Priorities /\ QueueTypeOK

\* mm_channel_start(): expected_frame_id is attr.user_expected_frame_id.
Init ==
  /\ low \in Priorities
  /\ nodes = << >>
  /\ match_cnt = 0
  /\ target = [expected_frame_id |-> 0, expected_frame_id_without_led |-> 0,
               good_frame_id |-> 0, diverted_frame_id |-> 0,
               isFlashBracketingEnabled |-> FALSE]
  /\ last = [s \in Streams |-> 0]
  /\ held = {}
  /\ given = {}
-----------------------------------------------------------------------------
(* The list.                                                               *)

FirstOf(S) == CHOOSE i \in S : \A j \in S : i <= j

\* s without its items a .. b - 1; s with x as item p.
Cut(s, a, b) ==
  [i \in 1 .. Len(s) - (b - a) |-> IF i < a THEN s[i] ELSE s[i + (b - a)]]

InsertAt(s, p, x) ==
  [i \in 1 .. Len(s) + 1 |->
     IF i < p THEN s[i] ELSE IF i = p THEN x ELSE s[i - 1]]

\* The buffers a node holds, and those of the nodes in the places P.
BufsOf(n) == {b \in Buffers : n.slot[b.stream] = b.idx}

BufsAt(P) == {b \in Buffers : \E i \in P : nodes[i].slot[b.stream] = b.idx}

Places    == 1 .. Len(nodes)
Unmatched == {i \in Places : ~nodes[i].matched}

\* Variant for the checks: a node takes the buffers of earlier frames too.
TakesEarlier(i, b) == ~nodes[i].matched /\ nodes[i].idx >= b.idx

\* The scan of mm_channel_superbuf_comp_and_enqueue: an unmatched node takes b
\* if it has the same frame or, with low priority, if b is the first metadata
\* after its frame or it holds only metadata of a later frame.
Takes(i, b) ==
  /\ ~nodes[i].matched
  /\ \/ nodes[i].idx = b.idx
     \/ /\ low /\ nodes[i].slot[b.stream] = 0
        /\ IF b.stream \in Meta THEN nodes[i].idx < b.idx
                                ELSE nodes[i].meta > b.idx

Takers(b) == {i \in Places : Takes(i, b)}
Pos(b)    == FirstOf(Takers(b))

Older(b) == {i \in Unmatched : nodes[i].idx < b.idx}
Newer(b) == {i \in Unmatched : nodes[i].idx > b.idx}

\* mm_channel_validate_super_buf, after the comparison with expected_frame_id.
TooOld(b) ==
  /\ b.idx < target.expected_frame_id
  /\ ~\E i \in Places : nodes[i].expected_frame /\ nodes[i].idx = b.idx
-----------------------------------------------------------------------------
(* mm_channel_superbuf_comp_and_enqueue, one action for each way out.      *)

\* A stream's frames come in order, and some never come.
Arrives(b) == last[b.stream] < b.idx /\ last' = [last EXCEPT ![b.stream] = b.idx]

\* Given back at once: frame 0, older than what is expected, too old for a full
\* queue.  What is given back at once is never held.
DropOld(b) ==
  /\ Arrives(b) /\ TooOld(b)
  /\ UNCHANGED <<nodes, match_cnt, target, held, given>>

DropUnplaced(b) ==
  /\ Arrives(b) /\ ~TooOld(b) /\ Takers(b) = {}
  /\ MaxUnmatched < Cardinality(Unmatched) /\ Older(b) = {}
  /\ UNCHANGED <<nodes, match_cnt, target, held, given>>

\* The node that takes b.  Its slot is free, or else BuffersAccounted would fail:
\* the branch that gives back a frame the node has already is never taken.  One that
\* held only metadata takes b's frame too.
Refit(n, b) ==
  IF n.meta > 0 THEN [n EXCEPT !.meta = 0, !.idx = b.idx] ELSE n

FilledBy(b) ==
  LET n == Refit(nodes[Pos(b)], b) IN [n EXCEPT !.slot[b.stream] = b.idx]

Complete(n) == \A s \in Streams : n.slot[s] # 0

\* The frame is not complete yet; a diverted one is kept for its other buffers.
Fill(b) ==
  /\ Arrives(b) /\ ~TooOld(b) /\ Takers(b) # {}
  /\ ~Complete(FilledBy(b))
  /\ LET diverted == target.diverted_frame_id = b.idx IN
       /\ nodes' = [nodes EXCEPT ![Pos(b)] =
            [FilledBy(b) EXCEPT !.expected_frame = @ \/ diverted]]
       /\ target' = [target EXCEPT !.diverted_frame_id = IF diverted THEN 0 ELSE @]
  /\ held' = held \cup {b}
  /\ UNCHANGED <<match_cnt, given>>

\* After a match the next frame is post_frame_skip away, except with flash
\* bracketing, which wants one frame without the LED.
NextTarget(b) ==
  IF target.isFlashBracketingEnabled
  THEN [target EXCEPT
          !.expected_frame_id = target.expected_frame_id_without_led,
          !.isFlashBracketingEnabled = b.idx < target.expected_frame_id_without_led]
  ELSE [target EXCEPT !.expected_frame_id = b.idx + PostFrameSkip]

\* Variant: the buffers of the older nodes are not given back.
MatchLeaksOlder(b) ==
  /\ Arrives(b) /\ ~TooOld(b) /\ Takers(b) # {}
  /\ Complete(FilledBy(b))
  /\ LET p == Pos(b)
         from == IF \E i \in Older(b) : i < p THEN FirstOf(Older(b)) ELSE p
         filled == [nodes EXCEPT ![p] =
           [FilledBy(b) EXCEPT !.matched = TRUE, !.expected_frame = FALSE]]
     IN nodes' = Cut(filled, from, p)
  /\ held' = held \cup {b}
  /\ match_cnt' = match_cnt + 1
  /\ target' = NextTarget(b)
  /\ UNCHANGED given

\* The frame is complete: its node is matched, and the nodes from the first
\* older unmatched one up to it are released, matched or not.
Match(b) ==
  /\ Arrives(b) /\ ~TooOld(b) /\ Takers(b) # {}
  /\ Complete(FilledBy(b))
  /\ LET p == Pos(b)
         from == IF \E i \in Older(b) : i < p THEN FirstOf(Older(b)) ELSE p
         filled == [nodes EXCEPT ![p] =
           [FilledBy(b) EXCEPT !.matched = TRUE, !.expected_frame = FALSE]]
     IN /\ nodes' = Cut(filled, from, p)
        /\ held' = (held \cup {b}) \ BufsAt(from .. p - 1)
  /\ match_cnt' = match_cnt + 1
  /\ target' = NextTarget(b)
  /\ UNCHANGED given

\* A frame the queue does not know.
NewNode(b) ==
  LET single == Streams = {b.stream} IN
  [idx     |-> b.idx,
   slot    |-> [s \in Streams |-> IF s = b.stream THEN b.idx ELSE 0],
   matched |-> single,
   expected_frame |-> ~single /\ b.idx \in {target.diverted_frame_id,
                                            target.good_frame_id},
   meta    |-> IF low /\ b.stream \in Meta THEN b.idx ELSE 0]

\* Where it goes: before the first newer unmatched node, or last.
InsertPlace(b) == IF Newer(b) = {} THEN Len(nodes) + 1 ELSE FirstOf(Newer(b))

\* What makes room for it in a full queue: from the first older node on, the
\* first that nothing asks to keep and that is not the one it goes before.  The
\* loop reads the node it has freed to go on, so the code is defined only if one
\* removal is enough, which UnmatchedBound says.
Victims(b) ==
  {i \in FirstOf(Older(b)) .. Len(nodes) :
     ~nodes[i].expected_frame /\ i # InsertPlace(b)}

Victim(b) == IF Victims(b) = {} THEN FirstOf(Older(b)) ELSE FirstOf(Victims(b))

InsertTarget(b) ==
  LET wanted == b.idx \in {target.diverted_frame_id, target.good_frame_id} IN
  [target EXCEPT
     !.diverted_frame_id = IF wanted THEN 0 ELSE @,
     !.expected_frame_id = IF Streams = {b.stream} THEN b.idx + PostFrameSkip ELSE @]

\* Variant: room is made one frame too late.
InsertOffByOne(b) ==
  /\ Arrives(b) /\ ~TooOld(b) /\ Takers(b) = {}
  /\ LET full == MaxUnmatched + 1 < Cardinality(Unmatched)
         v == Victim(b)
         p == InsertPlace(b)
     IN /\ full => Older(b) # {}
        /\ nodes' = IF full
             THEN InsertAt(Cut(nodes, v, v + 1), IF v < p THEN p - 1 ELSE p, NewNode(b))
             ELSE InsertAt(nodes, p, NewNode(b))
        /\ held' = (held \cup {b}) \ (IF full THEN BufsAt({v}) ELSE {})
  /\ target' = InsertTarget(b)
  /\ match_cnt' = IF Streams = {b.stream} THEN match_cnt + 1 ELSE match_cnt
  /\ UNCHANGED given

\* With one stream the new node is matched at once.
Insert(b) ==
  /\ Arrives(b) /\ ~TooOld(b) /\ Takers(b) = {}
  /\ LET full == MaxUnmatched < Cardinality(Unmatched)
         v == Victim(b)
         p == InsertPlace(b)
     IN /\ full => Older(b) # {}
        /\ nodes' = IF full
             THEN InsertAt(Cut(nodes, v, v + 1), IF v < p THEN p - 1 ELSE p, NewNode(b))
             ELSE InsertAt(nodes, p, NewNode(b))
        /\ held' = (held \cup {b}) \ (IF full THEN BufsAt({v}) ELSE {})
  /\ target' = InsertTarget(b)
  /\ match_cnt' = IF Streams = {b.stream} THEN match_cnt + 1 ELSE match_cnt
  /\ UNCHANGED given

CompAndEnqueue(b) ==
  \/ DropOld(b) \/ DropUnplaced(b) \/ Fill(b) \/ Match(b) \/ Insert(b)
-----------------------------------------------------------------------------
(* The other operations.                                                   *)

HeadMatched == nodes # << >> /\ nodes[1].matched

\* Variant: the count of matched nodes is left alone.
DequeueForgetsCount ==
  /\ HeadMatched
  /\ nodes' = Cut(nodes, 1, 2)
  /\ given' = given \cup BufsAt({1})
  /\ UNCHANGED <<match_cnt, target, last, held>>

\* mm_channel_superbuf_dequeue: the head, if it is matched, goes to the HAL.
Dequeue ==
  /\ HeadMatched
  /\ nodes' = Cut(nodes, 1, 2)
  /\ match_cnt' = match_cnt - 1
  /\ given' = given \cup BufsAt({1})
  /\ UNCHANGED <<target, last, held>>

\* mm_channel_superbuf_dequeue_frame_internal, for two cameras in step.
DequeueFrame(f) ==
  \E i \in Places :
    /\ nodes[i].matched /\ nodes[i].idx = f
    /\ \A j \in 1 .. i - 1 : ~(nodes[j].matched /\ nodes[j].idx = f)
    /\ nodes' = Cut(nodes, i, i + 1)
    /\ match_cnt' = match_cnt - 1
    /\ given' = given \cup BufsAt({i})
    /\ UNCHANGED <<target, last, held>>

\* One turn of the loops of mm_channel_superbuf_bufdone_overflow (down to the
\* water mark) and mm_channel_superbuf_skip (down to the look back).  With a head
\* that is not matched they would turn for ever.
DropExcess(limit) ==
  /\ match_cnt > limit
  /\ HeadMatched
  /\ nodes' = Cut(nodes, 1, 2)
  /\ match_cnt' = match_cnt - 1
  /\ held' = held \ BufsAt({1})
  /\ UNCHANGED <<target, last, given>>

\* handle_metadata, FLUSH_QUEUE and the capture commands move the expected frame,
\* with or without one of the two flushes.
Retarget ==
  target' \in Retargets

Settle == Retarget /\ UNCHANGED <<nodes, match_cnt, last, held, given>>

\* Variant: every node counts as matched.
FlushCountsAll ==
  /\ nodes' = << >>
  /\ match_cnt' = match_cnt - Len(nodes)
  /\ held' = held \ BufsAt(Places)
  /\ Retarget \/ UNCHANGED target
  /\ UNCHANGED <<last, given>>

\* mm_channel_superbuf_flush(CAM_STREAM_TYPE_DEFAULT), the type every caller uses.
Flush ==
  /\ nodes' = << >>
  /\ match_cnt' = match_cnt - Cardinality({i \in Places : nodes[i].matched})
  /\ held' = held \ BufsAt(Places)
  /\ Retarget \/ UNCHANGED target
  /\ UNCHANGED <<last, given>>

\* mm_channel_superbuf_flush_matched: heads, as long as they are matched.
FlushMatched ==
  LET first == IF Unmatched = {} THEN Len(nodes) + 1 ELSE FirstOf(Unmatched) IN
  /\ nodes' = Cut(nodes, 1, first)
  /\ match_cnt' = match_cnt - (first - 1)
  /\ held' = held \ BufsAt(1 .. first - 1)
  /\ Retarget \/ UNCHANGED target
  /\ UNCHANGED <<last, given>>

\* The HAL is done with a buffer (mm_channel_qbuf).
BufDone(b) ==
  /\ b \in given
  /\ given' = given \ {b}
  /\ held' = held \ {b}
  /\ UNCHANGED <<nodes, match_cnt, target, last>>

Next ==
  /\ \/ \E b \in Buffers : CompAndEnqueue(b) \/ BufDone(b)
     \/ Dequeue
     \/ \E f \in Frames : DequeueFrame(f)
     \/ \E limit \in Limits : DropExcess(limit)
     \/ Settle \/ Flush \/ FlushMatched
  /\ UNCHANGED low

Spec == Init /\ [][Next]_vars
-----------------------------------------------------------------------------
(* Properties.                                                             *)

\* The matched nodes are the first match_cnt of the list, whatever frames are
\* lost, late or asked for again: no frame that is ready waits behind one that is
\* not, and the counter that bounds the queue is exact.
MatchedFirst ==
  /\ match_cnt \in 0 .. Len(nodes)
  /\ \A i \in Places : nodes[i].matched <=> i <= match_cnt

\* bufdone_overflow and skip always find a matched head while the count exceeds
\* their limit: they do not turn for ever with the queue locked.
NoSpin == match_cnt > 0 => HeadMatched

\* Unmatched nodes are in the order of their frames, each frame once.
UnmatchedSorted ==
  \A i, j \in Unmatched : i < j => nodes[i].idx < nodes[j].idx

\* One removal makes room for an insertion, so the removal loop never reads the
\* node it has just freed to find a second one.
UnmatchedBound == Cardinality(Unmatched) <= MaxUnmatched + 1

\* The buffers of a superbuf belong to one frame; in a low priority queue the
\* metadata may be of a later one ("only meta frame id need not match (closest
\* suffices) but the other streams in this superbuf should have same frame id").
OneFrame ==
  \A i \in Places : \A s \in Streams :
    LET n == nodes[i] IN
    n.slot[s] # 0 =>
      \/ n.slot[s] = n.idx
      \/ low /\ s \in Meta /\ n.slot[s] > n.idx

\* Every buffer taken from the kernel is in one slot of one node or with the HAL:
\* none is lost and none is given back while it is still in use.
BuffersAccounted ==
  /\ held = BufsAt(Places) \cup given
  /\ BufsAt(Places) \cap given = {}
  /\ \A i, j \in Places : i # j => BufsOf(nodes[i]) \cap BufsOf(nodes[j]) = {}
=============================================================================
