SPECIFICATION FairSpec
CONSTANTS
  Branches = {b1}
  Own = Own
  Others = {x}
  Mine = {y}
  MergeCommit = MergeCommit
  None = None
  b1 = b1
  x = x
  y = y
  MaxUpstream = 2
  MaxRounds = 2
  MaxRetries = 1
INVARIANTS
  ResolvedIsTested
PROPERTIES
  LocalKept
  NothingLost
  RunEnds
