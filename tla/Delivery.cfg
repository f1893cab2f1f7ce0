SPECIFICATION FairDelivery
CONSTANTS
  Publishers = {p1, p2, p3}
  NoOne = NoOne
  p1 = p1
  p2 = p2
  p3 = p3
  Lease = 2
  Window = 2
  MaxPages = 2
INVARIANTS
  OneIssue
  DoneIsDelivered
PROPERTIES
  ClaimEnds
