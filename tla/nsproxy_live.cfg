SPECIFICATION FairSpec
CONSTANTS
  Residents = {nsp}
  Paths <- MCPaths
  Known <- MCKnown
  Cost <- MCCost
  UnknownCallGb = 5
  PriceMarginGb = 1
  MaxAskGb = 4
  ResidentBaseGb = 1
  BudgetGb <- MCBudgetGb
  Turns <- MCFewTurns
  Blocks = {b1, b2}
  Pids = {p1, p2}
  None = None
  TailLimit = 2
  KillLimit = 0
  ExitMayStall = FALSE
PROPERTIES
  EveryTurnSettles
  SessionIntact
