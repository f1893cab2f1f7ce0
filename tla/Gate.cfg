SPECIFICATION Spec
CONSTANTS
  Gates = {g1, g2}
  Commits = {c1, c2}
  Signals = {sig1}
  Reports <- MCReports
  MaxStaticFiles = 2
  MaxPackages = 2
  MaxEntries = 2
  Projects = {proj1}
  proj1 = proj1
  Answers <- MCAnswers
  Outputs = {o1, o2}
  Github = TRUE
  MaxEdits = 1
  None = None
  g1 = g1
  g2 = g2
  c1 = c1
  c2 = c2
  sig1 = sig1
  o1 = o1
  o2 = o2
INVARIANTS
  JudgedBeforeRun
  PassedIsVerified
  ScanIsRecorded
  AwaitingIsVerified
SYMMETRY Symmetry
CHECK_DEADLOCK FALSE
