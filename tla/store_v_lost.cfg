SPECIFICATION Spec
CONSTANTS
  r1 = r1 r2 = r2 x1 = x1 x2 = x2 v1 = v1 vk = vk c1 = c1 c2 = c2 p1 = p1 p2 = p2
  None = None Torn = Torn
  Chains = {c1}
  RunIds = {r1, r2}
  Contents = {x1}
  Versions = {v1}
  KeptRed = {}
  Procs = {p1, p2}
  MaxClock = 2 MaxEdits = 0 MaxCrashes = 0
SYMMETRY Symmetric
INVARIANTS NothingLost
