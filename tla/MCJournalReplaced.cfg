CONSTANTS
  fa = fa
  fb = fb
  fc = fc
  fd = fd
  t1 = t1
  t2 = t2
  edit = edit
  move = move
  drop = drop
  Absent = Absent
  Paths = {fa, fb, fc, fd}
  Texts = {t1, t2}
  Changes = {move}
  Plan <- MCOnlyMove
  Guarded <- MCNoTry
  Disks <- MCFullDisks
  Undoers = {u1}
  Twice = FALSE
  MaxEdits = 0
  MaxFaults = 0
  MaxCrashes = 0
SPECIFICATION Spec
CHECK_DEADLOCK FALSE
INVARIANT ExactBytesRestored
