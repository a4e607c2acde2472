CONSTANTS
  Works = {w1, w2, w3}
  Planners = {p1, p2}
  Nobody = Nobody
SPECIFICATION FairSpec
CHECK_DEADLOCK FALSE
INVARIANTS
  TypeOK
  FixedRevision
  RevisionMatches
  LaneConsistent
  ForegroundNotHeld
  OwedDone
  ReservedByOne
  NeverIdle
PROPERTIES
  DrainIsExact
  ForegroundCompletes
  ReleaseResolves
  OrdinaryCompletes
  AcquireResolves
