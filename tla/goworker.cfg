SPECIFICATION FairSpec
CONSTANTS
  Positions = {"p", "q", "r"}
  Turns = {"t1"}
  Succ <- MCSucc
  Over = {"r"}
  Foresee = 1
  MaxPositions = 2
  Resets = 2
  Crashes = 1
  NoTurn = NoTurn
  NoPos = NoPos
INVARIANTS TypeOK MirrorSound ChannelSound
PROPERTIES PlanningSettles
CHECK_DEADLOCK FALSE
