----------------------------- MODULE MCNsProxy -----------------------------
(***************************************************************************)
(* Small instances of NsProxy.  Costs are in units of the price margin: two *)
(* cheap members that fit a default budget one at a time, one priced above  *)
(* MAX_ASK_GB, and one the runtime cannot price.                            *)
(***************************************************************************)
EXTENDS NsProxy, TLC

MCPaths == {"cheap", "dear", "huge", "renamed"}
MCKnown == MCPaths \ {"renamed"}
MCCost == [p \in MCPaths |->
             CASE p = "cheap" -> 1 [] p = "dear" -> 2
               [] p = "huge" -> 5 [] OTHER -> 1]
MCBudgetGb == [r \in Residents |-> 2]

MCCall(p) == [kind |-> "call", paths |-> {p}]
MCLease(D) == [kind |-> "lease", paths |-> D]
MCFree == [kind |-> "free", paths |-> {}]

\* Every kind of turn, one at a time.
MCAllTurns ==
  {MCCall(p) : p \in MCPaths}
    \cup {MCLease(D) : D \in {{}, {"cheap", "dear"}, {"cheap", "renamed"},
                              {"dear", "huge"}}}
    \cup {MCFree, [kind |-> "exec", paths |-> {}]}

\* Turns that queue behind one another.
MCFewTurns == {MCCall("dear"), MCLease({"cheap"}), MCFree}

=============================================================================
