SPECIFICATION Spec
CONSTANTS
  metadata = metadata
  preview = preview
  b1 = b1
  b2 = b2
  Streams <- TwoStreams
  Buffers <- TwoBuffers
  Bundled <- TwoStreams
  Called <- OnlyPreview
  Setups <- Channels
  MaxStarts = 2
CHECK_DEADLOCK FALSE
INVARIANTS TypeOK BuffersAccounted
PROPERTIES FramesArrive CallsReturn
