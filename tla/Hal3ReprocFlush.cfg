SPECIFICATION Spec
CONSTANTS
  preview = preview
  picture = picture
  Streams <- TwoStreams
  Worlds <- ReprocFlushWorld
  Word = 256
  MaxFrame = 3
CHECK_DEADLOCK FALSE
INVARIANTS AnsweredOnce
