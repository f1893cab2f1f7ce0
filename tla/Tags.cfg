SPECIFICATION FairSpec
CONSTANTS
  Publishers = {p1, p2}
  Commits = {c1, c2, c3}
  NoCommit = NoCommit
  p1 = p1
  p2 = p2
  c1 = c1
  c2 = c2
  c3 = c3
  Last = 1
  Attempts = 2
  Foreign = {}
INVARIANTS
  OneTagPerCommit
  TaggedMeansPublished
PROPERTIES
  ImplementsRegistry
  PublisherEnds
