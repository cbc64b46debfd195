SPECIFICATION FairSpec
CONSTANTS
  v1 = v1
  order = order
  item = item
  None = None
  Programs <- MCPrograms
  Values = {v1}
  Repeats = 3
  MaxCommands = 2
  MaxOutages = 1
  MaxKills = 1
CHECK_DEADLOCK FALSE
INVARIANTS VerifiedTrue BlameTrue IntermittentTrue CutIsPinned NoStepVanishes NoUnprovenRed
PROPERTIES PinnedIsGreen Ended
