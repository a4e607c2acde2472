CONSTANTS
  Keys = {k1, k2}
  Requests = {r1, r2}
  Calls = {c1, c2}
  Nothing = Nothing
  MaxCrashes = 2
SPECIFICATION Spec
SYMMETRY Symmetric
INVARIANTS
  TypeOK
  AtMostOnce
  OneLiveCall
  FailsClosed
  SuccessIsJournalled
