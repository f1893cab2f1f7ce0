SPECIFICATION Spec
CONSTANTS
  Jobs = {j1, j2}
  Others = {o1, o2}
  j1 = j1
  j2 = j2
  o1 = o1
  o2 = o2
  Rebase = TRUE
  Lease = TRUE
SYMMETRY Symmetry
INVARIANTS
  RecordedWasHeld
PROPERTIES
  ImplementsFork
  NothingLost
