SPECIFICATION Spec
CONSTANTS
  p1 = p1 p2 = p2 get = get put = put x = x y = y e1 = e1 v1 = v1 v2 = v2 t1 = t1 t2 = t2
  None = None Torn = Torn
  Procs = {p1, p2}
  Chain <- MCChain
  Modes <- MCModes
  Errors = {e1}
  Values = {v1, v2}
  RandSuffix = {1, 2}
  Second = 2
  Scan = 50
SYMMETRY Symmetric
CHECK_DEADLOCK FALSE
INVARIANTS LatestIsLast DriftStays FlakyTrue RepeatedNamed
