\* Two calls and two closes race over a session from Host::activate.
SPECIFICATION Spec
CONSTANTS
  Opener = o
  Callers = {c1, c2}
  Closers = {k1, k2}
  NoTask = none
  Scoped = FALSE
  Modes = {"activate"}
  Messages <- WillingWorker
  Failures = {}
  MaxOutput = 3
SYMMETRY Interchangeable
INVARIANTS
  LockStep
  QuietAfterInterrupt
PROPERTIES
  FirstStopStands
