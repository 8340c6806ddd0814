\* A worker that answers a call before the call is made.
SPECIFICATION UnsolicitedSpec
CONSTANTS
  Opener = o
  Callers = {c1}
  Closers = {}
  NoTask = none
  Scoped = FALSE
  Modes = {"activate"}
  Messages <- WillingWorker
  Failures = {}
  MaxOutput = 3
INVARIANT
  NoUnsolicitedReplyAccepted
