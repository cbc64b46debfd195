SPECIFICATION Spec
CONSTANTS
  p1 = p1 p2 = p2 k1 = k1 k2 = k2 None = None Torn = Torn
  Procs = {p1}
  Profiles = {k1, k2}
  Uses <- UsesBoth
  NoExpiry = {k2}
  MaxTokens = 2 MaxCalls = 3 MaxRestarts = 1
INVARIANTS TypeOK WritesOnce EvidenceTrue RefusedForgotten
CHECK_DEADLOCK FALSE
