\* A process session and an embedded one, two executions with three sessions, one failure, under fairness.
SPECIFICATION FairSpec
CONSTANTS
  one = one
  two = two
  Slots = {one, two}
  Embedded = {two}
  MaxSessions = 3
  MaxRuns = 2
  MaxFaults = 1
INVARIANT SessionsInv
PROPERTIES
  RemovesQuietScratch
  PublishesAfterCleanup
  CallsReturn
  CleanupCompletes
CHECK_DEADLOCK FALSE
