SPECIFICATION Spec
CONSTANTS
  preview = preview
  picture = picture
  Streams <- TwoStreams
  Worlds <- AllWorlds
  Word = 256
  MaxFrame = 3
CHECK_DEADLOCK FALSE
INVARIANTS TypeOK LiveCount BuffersAccounted AnsweredOnce NothingAfterDeinit
PROPERTIES FlushLeavesNothing EveryRequestAnswered ProcessReturns StateTable
