CONSTANTS
  fa = fa
  fb = fb
  t1 = t1
  t2 = t2
  t3 = t3
  w1 = w1
  w2 = w2
  w3 = w3
  w4 = w4
  Paths = {fa, fb}
  Texts = {t1, t2, t3}
  Absent = Absent
  Hole = Hole
  Writers = {w1, w2, w3, w4}
  Target <- MCTarget
  Text <- MCText
  First <- MCFirst
  Chunks = 2
  Overlap = FALSE
SPECIFICATION Spec
INVARIANT NeverHalfWritten
PROPERTY ImplementsReplace
