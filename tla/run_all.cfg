SPECIFICATION FairSpec
CONSTANTS
  fa = fa
  fb = fb
  ex = ex
  get = get
  put = put
  Chains <- MCChains
  Fields <- AB
  Names <- X
  Calls = {get, put}
  MaxSteps = 3
  None = None
CHECK_DEADLOCK FALSE
INVARIANTS NothingPoisoned PassedMeansPassed KeptRedSeen
PROPERTIES HeldIsPrinted
