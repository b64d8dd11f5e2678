SPECIFICATION Spec
CONSTANTS
  Residents = {nsp}
  Paths <- MCPaths
  Known <- MCKnown
  Cost <- MCCost
  UnknownCallGb = 5
  PriceMarginGb = 1
  MaxAskGb = 4
  ResidentBaseGb = 1
  BudgetGb <- MCBudgetGb
  Turns <- MCAllTurns
  Blocks = {b1, b2}
  Pids = {p1, p2}
  None = None
  TailLimit = 1
  KillLimit = 1
  ExitMayStall = TRUE
INVARIANTS
  TypeOK
  LedgerSound
  OneProcessOnItsBlock
  MeasuredWorkFits
PROPERTIES
  PoisonedNeverReused
CHECK_DEADLOCK FALSE
