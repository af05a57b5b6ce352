SPECIFICATION Spec
CONSTANTS
  framework = framework
  tool = tool
  Apps <- Callers
  Worlds <- AllWorlds
  MaxPictures = 2
CHECK_DEADLOCK FALSE
INVARIANTS TypeOK OneAnswerEach CaptureState
PROPERTIES ApiReturns SyncEvtReturns
