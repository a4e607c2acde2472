CONSTANTS
  Paths = {"a", "b"}
  Bodies = {0, 1}
  Original = 0
  Written = {"a"}
  None = 9
  MaxInputs = 2
SPECIFICATION FairSpec
CHECK_DEADLOCK FALSE
INVARIANTS FastPathSound ReportedIsHeld
PROPERTIES IndexCatchesUp CloseDerives
