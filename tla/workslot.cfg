SPECIFICATION FairSpec
CONSTANTS
  Crimes = {"crime"}
  Grafts = {"graft"}
  Jobs = {"program", "company"}
  Programs = {"program"}
  Factions = {"faction"}
  MaxUnit = 3
  MaxFaults = 1
  None = None
INVARIANTS TypeOK ProgressWatched NoMasquerade
PROPERTIES KnownUnitKept EndIsSeen
