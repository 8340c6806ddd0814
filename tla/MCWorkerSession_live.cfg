\* with_session: the owner and a call inside its function.
SPECIFICATION FairSpec
CONSTANTS
  Opener = o
  Callers = {c1}
  Closers = {}
  NoTask = none
  Scoped = TRUE
  Modes = {"activate"}
  Messages <- WillingWorker
  Failures = {}
  MaxOutput = 3
PROPERTIES
  EveryTaskFinishes
  ScopedSessionEnds
INVARIANTS
  InductiveInv
