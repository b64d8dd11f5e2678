----------------------------- MODULE MCWakeLoop -----------------------------
EXTENDS WakeLoop
MCTargets == {"A", "B"}
MCHgw == {"wA", "hB"}
MCKind == [o \in Ops |-> CASE o = "wA" -> "weaken" [] o \in {"hA", "hB"} -> "hack"
              [] o = "ch" -> "charge" [] OTHER -> "exit"]
MCTarget == [o \in Ops |-> CASE o \in {"wA", "hA"} -> "A" [] o = "hB" -> "B"
              [] OTHER -> NoTarget]
=============================================================================
