SPECIFICATION LoopSpec
CONSTANTS
  Ops = {"wA", "hB", "sh"}
  Targets = {"A", "B"}
  NoTarget = "none"
  Off = "off"
  Kind <- MCKind
  Target <- MCTarget
  Tick = 2
  Coalesce = 1
  WakeMin = 1
  FrameCap = 1
  RaceCap = 2
  Faults = 0
  Shotgun = FALSE
INVARIANTS LoopTypeOK WindowWakesHeard DeadlineOwned
