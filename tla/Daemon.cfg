SPECIFICATION FairSpec
CONSTANTS
  Branches = {b1, b2}
  First = b1
  Advisories = {a1}
  MaxVersion = 1
  OsvJobs = {o1}
  NoJob = NoJob
  Direct = Direct
  b1 = b1
  b2 = b2
  a1 = a1
  o1 = o1
  MaxFailures = 2
  MaxPasses = 1
  SecondConflict = TRUE
INVARIANTS
  AdvisoriesFirst
  OkMeansSynced
  CacheIsSound
PROPERTIES
  NeverSilent
