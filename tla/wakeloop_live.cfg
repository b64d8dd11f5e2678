SPECIFICATION LoopFairSpec
CONSTANTS
  Ops = {"hB", "ch"}
  Targets = {"B"}
  NoTarget = "none"
  Off = "off"
  Kind <- MCKind
  Target <- MCTarget
  Tick = 2
  Coalesce = 1
  WakeMin = 1
  FrameCap = 1
  RaceCap = 2
  Faults = 1
  Shotgun = TRUE
INVARIANTS OneContinuation
PROPERTIES LeftoversServed
