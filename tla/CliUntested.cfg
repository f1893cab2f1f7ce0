SPECIFICATION Spec
CONSTANTS
  Branches = {b1}
  Own = Own
  Others = {x}
  Mine = {y}
  MergeCommit = MergeCommit
  None = None
  b1 = b1
  x = x
  y = y
  MaxUpstream = 1
  MaxRounds = 2
  MaxRetries = 1
INVARIANTS
  RequireTests
