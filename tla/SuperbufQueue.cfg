SPECIFICATION Spec
CONSTANTS
  meta = meta
  snap = snap
  prev = prev
  Streams <- MetaSnapPrev
  Meta <- MetaOnly
  Priorities <- Both
  MaxUnmatched = 1
  PostFrameSkip = 1
  Limits <- Marks
  MaxIdx = 4
  Retargets <- Some
CHECK_DEADLOCK FALSE
INVARIANTS TypeOK MatchedFirst UnmatchedBound OneFrame BuffersAccounted
