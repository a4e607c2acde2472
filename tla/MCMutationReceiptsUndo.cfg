CONSTANTS
  Keys = {k1}
  Requests = {r1}
  Calls = {c1}
  Nothing = Nothing
  MaxCrashes = 0
SPECIFICATION Spec
PROPERTY ReplayKnowsUndo
