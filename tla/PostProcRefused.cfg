SPECIFICATION Spec
CONSTANTS
  Worlds <- Refusing
  MaxShots = 2
  MaxSessions = 1
INVARIANTS FramesReturned
CHECK_DEADLOCK FALSE
