CONSTANTS
  h1 = h1
  h2 = h2
  h3 = h3
  h4 = h4
  p1 = p1
  p2 = p2
  p3 = p3
  Handles = {h1, h2, h3, h4}
  Pids = {p1, p2, p3}
  Nobody = Nobody
  ProcessOf <- Shared
SPECIFICATION Spec
INVARIANTS
  OneWriter
  WriterIsNamed
