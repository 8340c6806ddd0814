\* A folder that is opened twice, or is written by other programs.
SPECIFICATION Spec
CONSTANTS
  f = f
  k = k
  v = v
  x = x
  original = original
  Absent = absent
  NoContent = nothing
  Files = {f, k}
  Versions = {original, v, x, absent}
  Outside = {x}
  Drafts <- TwoDrafts
  Original <- BothFiles
  Chunks = 2
  MaxTickets = 2
  MaxSetbacks = 1
INVARIANTS
  FilesInv
  ReportsAreTrue

  
CHECK_DEADLOCK FALSE
SYMMETRY EitherFile
CONSTRAINT Sparse
