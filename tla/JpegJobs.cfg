SPECIFICATION Spec
CONSTANTS
  Clients = {c1, c2}
  MaxJobs = 2
  MaxWakes = 1
INVARIANTS TypeOK HandleKept
PROPERTIES ServiceSpec
CHECK_DEADLOCK FALSE
