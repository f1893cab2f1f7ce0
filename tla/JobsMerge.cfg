SPECIFICATION FairSpec
CONSTANTS
  Jobs = {j1, j2}
  Workers = {w1, w2}
  Branches = {b1, b2}
  NoJob = NoJob
  NoBranch = NoBranch
  j1 = j1
  j2 = j2
  w1 = w1
  w2 = w2
  b1 = b1
  b2 = b2
  Layers = 1
  AutoResolve = TRUE
INVARIANTS
  OneWorkingSyncPerBranch
  OneWriterPerJob
  ResumableHasWorktree
  OnlyTestedIsPushed
PROPERTIES
  CandidateStable
  TransientEnds
  ImplementsJobStatus
CHECK_DEADLOCK FALSE
