SPECIFICATION FairSpec
CONSTANTS
  Workers = {"o", "q", "s", "p"}
  Kind <- MCKind
  Gb <- MCGb
  MaxRam = 4
  Foreign = {0, 1}
  Nobody = "nobody"
INVARIANTS TypeOK HeapCovers
PROPERTIES HeapMovesExactly ReservationsReturn
