SPECIFICATION Spec
CONSTANTS
  v1 = v1
  order = order
  item = item
  None = None
  Programs <- Threefold
  Values = {v1}
  Repeats = 3
  MaxCommands = 1
  MaxOutages = 0
  MaxKills = 0
CHECK_DEADLOCK FALSE
INVARIANTS StillRedIsRed
