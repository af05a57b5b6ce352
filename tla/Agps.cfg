SPECIFICATION Spec
CONSTANTS
  Handles = {h1, h2}
  MaxRequests = 2
INVARIANTS TypeOK ReleasedWhenUnused GrantsAgree
PROPERTIES EveryRequestAnswered
CHECK_DEADLOCK FALSE
