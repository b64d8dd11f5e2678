---------------------------- MODULE MCServePool ----------------------------
EXTENDS ServePool
MCKind == [w \in Workers |-> IF w = 4 THEN "hack" ELSE "grow"]
MCThreads == [w \in Workers |-> IF w \in {2, 4} THEN 2 ELSE 1]
MCHost == [w \in Workers |-> IF w = 1 THEN "a" ELSE "b"]
MCTarget == [o \in Ops |-> IF o = "o3" THEN "u" ELSE "t"]
MCRequests == {[kind |-> "grow", threads |-> 1], [kind |-> "grow", threads |-> 3],
               [kind |-> "hack", threads |-> 1]}
=============================================================================
