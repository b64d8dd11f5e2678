------------------------------ MODULE RamPool ------------------------------
(***************************************************************************)
(* What the fleet allocator of shared/ram/heap.ts promises its two users,  *)
(* the dispatcher and the placement of residents: RAM is granted whole or  *)
(* not at all, only where it is spare, and comes back as it was granted.   *)
(* How a host is chosen is left open.                                      *)
(***************************************************************************)
EXTENDS Integers

CONSTANTS Hosts, Ids

VARIABLES
  spare,    \* what each host can still grant; negative under a reserve
  reserve,  \* what each host keeps back for its residents
  lent      \* what each grant still holds on each host

poolVars == <<spare, reserve, lent>>

Nothing == [h \in Hosts |-> 0]

Init ==
  /\ spare = Nothing /\ reserve = Nothing
  /\ lent = [i \in Ids |-> Nothing]

\* One grant takes blocks on any hosts, each within what that host can spare,
\* a resident's within its reserve too.
Grant(i) ==
  /\ lent[i] = Nothing
  /\ lent' = [lent EXCEPT ![i] = [h \in Hosts |-> spare[h] - spare'[h]]]
  /\ \/ \A h \in Hosts : spare'[h] < spare[h] => spare'[h] >= 0
     \/ \E h \in Hosts : /\ spare'[h] + reserve[h] >= 0
                         /\ \A g \in Hosts \ {h} : spare'[g] = spare[g]
  /\ \A h \in Hosts : spare'[h] <= spare[h]
  /\ UNCHANGED reserve

\* A part of one grant comes back, to the hosts it was taken from.
Return(i) ==
  /\ lent' = [lent EXCEPT ![i] = [h \in Hosts |-> lent[i][h] + spare[h] - spare'[h]]]
  /\ \A h \in Hosts : spare'[h] >= spare[h] /\ lent'[i][h] >= 0
  /\ UNCHANGED reserve

\* A host is seen for the first time, resized, reserved or observed.
Restate(h) ==
  /\ spare' \in [Hosts -> Int] /\ reserve' \in [Hosts -> Nat]
  /\ \A g \in Hosts \ {h} : spare'[g] = spare[g] /\ reserve'[g] = reserve[g]
  /\ UNCHANGED lent

Next ==
  \/ \E i \in Ids : Grant(i) \/ Return(i)
  \/ \E h \in Hosts : Restate(h)

Spec == Init /\ [][Next]_poolVars
=============================================================================
