CONSTANTS
  fa = fa
  fb = fb
  fc = fc
  fd = fd
  t1 = t1
  t2 = t2
  edit = edit
  move = move
  drop = drop
  Absent = Absent
  Paths = {fa, fb, fc, fd}
  Texts = {t1, t2}
  Changes = {edit, move, drop}
  Plan <- MCPlan
  Guarded <- MCGuarded
  Disks <- MCDisks
  Undoers = {u1}
  Twice = FALSE
  MaxEdits = 1
  MaxFaults = 1
  MaxCrashes = 1
SPECIFICATION Spec
VIEW MCView
CHECK_DEADLOCK FALSE
INVARIANTS
  TypeOK
  JournalTellsDisk
  CrashLeavesAPrefix
  FailureLeavesNothing
PROPERTY ConflictHasCause
