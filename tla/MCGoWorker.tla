----------------------------- MODULE MCGoWorker -----------------------------
EXTENDS GoWorker
MCSucc == [p \in Positions |-> CASE p = "p" -> <<"r", "q">> [] p = "q" -> <<"p", "r">>
                                 [] OTHER -> <<>>]
=============================================================================
