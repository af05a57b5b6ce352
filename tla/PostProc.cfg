SPECIFICATION Spec
CONSTANTS
  Worlds <- Pictures
  MaxShots = 2
  MaxSessions = 2
INVARIANTS TypeOK FramesAccounted PictureOfItsShot StoppedClean
PROPERTIES Answered
CHECK_DEADLOCK FALSE
