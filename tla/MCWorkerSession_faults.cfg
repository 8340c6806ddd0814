\* A worker and a transport that fail in every way the session classifies.
SPECIFICATION Spec
CONSTANTS
  Opener = o
  Callers = {c1}
  Closers = {k1}
  NoTask = none
  Scoped = FALSE
  Modes = {"probe", "activate"}
  Messages <- FaultyWorker
  Failures = {"FrameInvalid", "RequestFrameLimit", "TransportFailed"}
  MaxOutput = 3
INVARIANTS
  CleanMeansAnswered
  NoOrphan
PROPERTIES
  RefusalStands
  KeepsSessionOrder
