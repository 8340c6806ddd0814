\* Two evaluations, a cancellation and a resumption end, also when one await fails.
SPECIFICATION FairSpec
CONSTANTS
  input = input
  large = large
  host = host
  NoOutcome = none
  Outcomes = {o1}
  Foreign = {}
  offer <- Offered
  Works <- TwoWorks
  Size <- SizeOf
  max_executions = 2
  max_bytes = 2
  LastNext = 3
  MaxDepth = 0
  Evaluations = {e1, e2}
  Cancels = {c1}
  Resumes = {r1}
  NoTask = notask
  NoCursor = nocursor
  Policy = FALSE
  MaxAccepted = 2
  MaxLosses = 1
INVARIANTS
  StaysConnected
PROPERTIES
  EvaluationReturns
  CallsEnd
CHECK_DEADLOCK FALSE
