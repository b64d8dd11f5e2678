SPECIFICATION Spec
CONSTANTS
  Workers = {"o", "c"}
  Kind <- MCKind
  Gb <- MCGb
  MaxRam = 4
  Foreign = {0, 1}
  Nobody = "nobody"
INVARIANT HeapCovers
