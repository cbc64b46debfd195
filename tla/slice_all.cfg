SPECIFICATION Spec
CONSTANTS
  make = make
  set = set
  get = get
  list = list
  buyer = buyer
  seller = seller
  ids = ids
  name = name
  email = email
  Tag = Tag
  None = None
  Requests <- MCRequests
CHECK_DEADLOCK FALSE
INVARIANTS TypeOK ReadsSame Complete Least InputsOfRun
