---------------------------- MODULE MCRamLedger ----------------------------
EXTENDS RamLedger
MCKind == [w \in Workers |-> CASE w \in {"o", "q"} -> "op" [] w = "s" -> "share"
              [] w = "p" -> "pool" [] OTHER -> "charge"]
MCGb == [w \in Workers |-> IF w \in {"o", "q"} THEN 1 ELSE 2]
=============================================================================
