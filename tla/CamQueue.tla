------------------------------ MODULE CamQueue ------------------------------
(***************************************************************************)
(* QCameraQueue (camera/QCamera2/util/QCameraQueue.cpp), the list that     *)
(* carries commands, frames and jobs between the threads of the HAL.       *)
(*                                                                         *)
(* Every operation of the class runs under m_lock, so each is one step of  *)
(* its caller; the operators below are the value of the queue after it and *)
(* what the call returns.  A queue is a record: active is m_active, nodes  *)
(* the data on the list m_head, its head first.                            *)
(***************************************************************************)
EXTENDS Integers, Sequences

\* A queue of data D.
QueueOf(D) == [active : BOOLEAN, nodes : Seq(D)]

\* QCameraQueue(): empty and active.
NewQueue == [active |-> TRUE, nodes |-> << >>]

\* init(): the queue accepts data again; what it holds stays.
InitQueue(q) == [q EXCEPT !.active = TRUE]

IsEmpty(q) == q.nodes = << >>

\* enqueue(), enqueueWithPriority(): a flushed queue refuses (the call returns
\* false and the caller keeps the data).
Enqueue(q, d) ==
  IF q.active THEN [q EXCEPT !.nodes = Append(@, d)] ELSE q

EnqueueWithPriority(q, d) ==
  IF q.active THEN [q EXCEPT !.nodes = <<d>> \o @] ELSE q

\* dequeue(bFromHead): something is returned only by an active queue that holds
\* something; the node is the first or the last one.
CanDequeue(q) == q.active /\ q.nodes # << >>

First(q) == Head(q.nodes)
Last(q)  == q.nodes[Len(q.nodes)]

DequeueHead(q) == [q EXCEPT !.nodes = Tail(@)]
DequeueTail(q) == [q EXCEPT !.nodes = SubSeq(@, 1, Len(@) - 1)]

\* flush(): every node is released through m_dataFn and the queue refuses data
\* until the next init().
Flush(q) ==
  IF q.active THEN [active |-> FALSE, nodes |-> << >>] ELSE q
=============================================================================
