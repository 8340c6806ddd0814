\* Policies were negotiated; the core accepts two executions, and two awaits of the page fail.
SPECIFICATION Spec
CONSTANTS
  input = input
  large = large
  host = host
  NoOutcome = none
  Outcomes = {o1}
  Foreign = {}
  offer <- Offered
  Works <- OneWork
  Size <- SizeOf
  max_executions = 2
  max_bytes = 2
  LastNext = 4
  MaxDepth = 0
  Evaluations = {e1, e2, e3}
  Cancels = {c1}
  Resumes = {r1}
  NoTask = notask
  NoCursor = nocursor
  Policy = TRUE
  MaxAccepted = 2
  MaxLosses = 2
INVARIANTS
  PageInv
  NothingForgotten
  ReturnsEvidence
  CancelKept
  StartsWhatIsAccepted
PROPERTY
  ViewAdvances
CHECK_DEADLOCK FALSE
