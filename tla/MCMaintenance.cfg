CONSTANTS
  Paths = {"a", "b", "c"}
  Ops <- TwoItems
  AutoItems = {1}
  People = {u1}
  Dreamer = dreamer
  Runs = {r1,r2}
  MaxItems = 1
  MaxFiles = 9
  MaxRevision = 2
  MaxTrouble = 2
  EarlierRollbacks = 0
  PauseThreshold = 1
SPECIFICATION MCSpec
SYMMETRY Alike
CHECK_DEADLOCK FALSE
INVARIANTS OutcomeTellsDisk OneChange NothingStranded OnlyApproved NoWriteWhilePaused PausesAreEarned
PROPERTIES ForeignKept RetiredIsFinal RunOutcomeOnce 
