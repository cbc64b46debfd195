SPECIFICATION Spec
CONSTANTS
  p1 = p1 p2 = p2 k1 = k1 k2 = k2 None = None Torn = Torn
  Procs = {p1, p2}
  Profiles = {k1}
  Uses <- UsesBoth
  NoExpiry = {}
  MaxTokens = 2 MaxCalls = 1 MaxRestarts = 0
INVARIANTS WritesOnce EvidenceTrue
CHECK_DEADLOCK FALSE
