\* Three submissions, of which two are kept at once; validators nest once.
SPECIFICATION OwnerSpec
CONSTANTS
  small = small
  large = large
  o1 = o1
  o2 = o2
  foreign = foreign
  host = host
  NoOutcome = none
  Outcomes = {o1, o2}
  Foreign = {foreign}
  offer <- Cancellable
  Works <- SomeWorks
  Size <- Sizes
  max_executions = 2
  max_bytes = 6
  LastNext = 4
  MaxDepth = 2
INVARIANTS
  OwnerInv
  ReservedIsSum
  HandedOnce
PROPERTY
  KeepsLifecycle
CHECK_DEADLOCK FALSE
