\* Two executions share one worker, and every record ends.
SPECIFICATION FairServiceSpec
CONSTANTS
  own = own
  large = large
  other = other
  c1 = c1
  NoOutcome = none
  NoValue = nothing
  Outcomes <- Admitted
  Foreign <- Refused
  offer <- NativeOffer
  Works <- SomeWorks
  Size <- Sizes
  max_executions = 8
  max_bytes = 100
  LastNext = 3
  MaxDepth = 0
  Values = {own}
  Large = {}
  Other = {}
  Callers = {c1}
  Asked <- AskedOfOne
  Workers = 1
INVARIANTS
  ServiceInv
  ReturnedSurvives
PROPERTY AcceptedEnds
CHECK_DEADLOCK FALSE
