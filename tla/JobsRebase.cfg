SPECIFICATION Spec
CONSTANTS
  Jobs = {j1, j2}
  Workers = {w1, w2}
  Branches = {b1}
  NoJob = NoJob
  NoBranch = NoBranch
  j1 = j1
  j2 = j2
  w1 = w1
  w2 = w2
  b1 = b1
  Layers = 2
  AutoResolve = TRUE
SYMMETRY Symmetry
INVARIANTS
  SyncPipelineExclusive
  TransientHasWorker
  StrayWorktreeOnlyOfFailedSync
CHECK_DEADLOCK FALSE
