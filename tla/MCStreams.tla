------------------------------ MODULE MCStreams ------------------------------
(***************************************************************************)
(* A channel with a metadata stream, for the super buffers, and a preview  *)
(* stream, which has a callback too; and channels with the preview alone   *)
(* and two buffers, of which the upper layer may hold one.                 *)
(***************************************************************************)
EXTENDS Streams

CONSTANTS metadata, preview, b1, b2

TwoStreams == {metadata, preview}
TwoBuffers == {b1, b2}
OnlyPreview == {preview}

Channel(order, used, held) ==
  [order |-> order,
   buffers |-> [s \in TwoStreams |-> used],
   held |-> [s \in TwoStreams |-> held]]

Channels ==
  {Channel(<<metadata, preview>>, {b1}, {}),
   Channel(<<preview>>, {b1, b2}, {}),
   Channel(<<preview>>, {b1, b2}, {b2})}
=============================================================================
