SPECIFICATION FairSpec
CONSTANTS
  Runners = {r1, r2}
  PRs = {p1}
  Heads = {h1}
  Marks = {good, bad}
  MaxCloses = 1
  MaxTroubles = 1
  None = None
  Closed = Closed
  r1 = r1
  r2 = r2
  p1 = p1
  h1 = h1
  good = good
  bad = bad
INVARIANTS
PROPERTIES
  ChangesReported
  EventsAssessed
  Settles
