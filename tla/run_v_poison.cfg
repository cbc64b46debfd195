SPECIFICATION Spec
CONSTANTS
  fa = fa
  fb = fb
  ex = ex
  get = get
  put = put
  Chains <- Rewritten
  Fields <- AB
  Names <- X
  Calls = {get, put}
  MaxSteps = 3
  None = None
CHECK_DEADLOCK FALSE
INVARIANTS NothingPoisoned
