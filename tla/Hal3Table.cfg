SPECIFICATION Spec
CONSTANTS
  preview = preview
  picture = picture
  Streams <- OneStream
  Worlds <- TableWorld
  Word = 256
  MaxFrame = 3
CHECK_DEADLOCK FALSE
PROPERTIES StateTable
