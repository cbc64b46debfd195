SPECIFICATION Spec
CONSTANTS
  pa = pa
  pb = pb
  put = put
  get = get
  list = list
  Scenarios <- MCScenarios
  Profiles = {pa, pb}
  MaxRestarts = 1
  LateRestarts = 1
CHECK_DEADLOCK FALSE
INVARIANTS RestartIsNoFinding RestartIsNoRegression DefectIsFound GreenIsTrue NothingBeforeIsHidden
