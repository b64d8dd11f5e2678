-------------------------- MODULE DnetProberProofs --------------------------
(***************************************************************************)
(* Proofs about DnetProber, for any processes, plants and faults.          *)
(*                                                                         *)
(* The record and the launch it names agree (Named), so an exit clears the *)
(* record exactly when it is the exit of the prober on record; whoever     *)
(* leaves the record by any other path is put into `retiring` or           *)
(* `disowned` by the same step, and leaves `retiring` dead or spared.  A   *)
(* plant that holds an unsettled barrier holds the entry's (Holding), in   *)
(* whatever stage it is, because opening and releasing both settle what    *)
(* the entry held.                                                         *)
(***************************************************************************)
EXTENDS DnetProber, TLAPS

\* A prober on record is recorded under its own launch.
Named == prober.pid # None => prober.held /\ prober.launch = prober.pid

Holding == \A c \in Plants : awaits[c] \in Plants => refresh = awaits[c]

-----------------------------------------------------------------------------
(* Types *)

Stages == {"idle", "begin", "asking", "launch", "waiting", "claim", "done", "threw"}
Launches == [refresh : Plants \cup {None}, armoured : BOOLEAN, ticket : Pids \cup {None}]

ProcessOK ==
  /\ proc \in [Pids -> {"free", "booting", "standing", "dead"}]
  /\ desc \in [Pids -> Launches]
  /\ due \subseteq Pids /\ tickets \subseteq Pids

RecordOK ==
  /\ ns \in Pids \cup {None}
  /\ prober \in [held : BOOLEAN, pid : Pids \cup {None}, launch : Pids \cup {None}]
  /\ killMark \in Pids \cup {None}
  /\ respawn \in Pids \cup {None} /\ respawned \in BOOLEAN
  /\ retiring \subseteq Pids /\ disowned \subseteq Pids /\ spared \subseteq Pids

BarrierOK ==
  /\ refresh \in Plants \cup {None} /\ refreshLaunch \in Pids \cup {None}
  /\ ready \subseteq Plants
  /\ awaits \in [Plants -> Plants \cup Pids \cup {None, Report, Cancelled}]

RestOK ==
  /\ inbound \in {"none", "open", "lapsed"}
  /\ pc \in [Plants -> Stages]
  /\ zombie \subseteq Plants
  /\ sweep \in Pids \cup {None}
  /\ faults \in 0..Faults

LEMMA TypeParts == TypeOK <=> ProcessOK /\ RecordOK /\ BarrierOK /\ RestOK
  BY DEF TypeOK, ProcessOK, RecordOK, BarrierOK, RestOK, Stages, Launches

-----------------------------------------------------------------------------
(* What the helpers do *)

\* Releasing settles the entry's barrier and leaves no unsettled one behind.
LEMMA Releases ==
  ASSUME BarrierOK, Holding, NEW v \in {Report, Cancelled}, ReleaseProbeRefresh(v)
  PROVE  BarrierOK' /\ Holding'
<1>1. \A c \in Plants : awaits'[c] \notin Plants
  BY ProberAssumption DEF ReleaseProbeRefresh, Settled, ProberAssumption, BarrierOK, Holding
<1>2. BarrierOK'
  BY DEF ReleaseProbeRefresh, Settled, BarrierOK
<1> QED
  BY <1>1, <1>2 DEF Holding

\* Opening leaves the opener alone with an unsettled barrier.
LEMMA Opens ==
  ASSUME BarrierOK, Holding, NEW c \in Plants, OpenBarrier(c)
  PROVE  BarrierOK' /\ Holding'
<1>1. \A d \in Plants : d # c => awaits'[d] \notin Plants
  BY ProberAssumption DEF OpenBarrier, Settled, ProberAssumption, BarrierOK, Holding
<1>2. awaits'[c] = c /\ refresh' = c
  BY DEF OpenBarrier, BarrierOK, Settled
<1>3. BarrierOK'
  BY DEF OpenBarrier, Settled, BarrierOK
<1> QED
  BY <1>1, <1>2, <1>3 DEF Holding

\* What a plant takes to await is the entry's barrier, or no barrier.
LEMMA HoldsKeeps ==
  ASSUME BarrierOK, Holding, NEW c \in Plants, NEW v \in Plants \cup Pids \cup {None},
         v \in Plants => v = refresh, Holds(c, v)
  PROVE  BarrierOK' /\ Holding'
  BY DEF Holds, BarrierOK, Holding

\* Nothing of the barrier changes but the process it waits for.
LEMMA BindKeeps ==
  ASSUME BarrierOK, Holding, UNCHANGED <<refresh, ready, awaits>>,
         refreshLaunch' \in Pids \cup {None}
  PROVE  BarrierOK' /\ Holding'
  BY DEF BarrierOK, Holding

LEMMA LaunchKeeps ==
  ASSUME ProcessOK, NEW q \in Pids, NEW d \in Launches, LaunchProber(q, d)
  PROVE  /\ proc' \in [Pids -> {"free", "booting", "standing", "dead"}]
         /\ desc' \in [Pids -> Launches]
         /\ \A p \in Pids : proc'[p] = "standing" <=> proc[p] = "standing"
  BY DEF ProcessOK, LaunchProber, Free

-----------------------------------------------------------------------------
(* The record *)

Safe == Named /\ TrackedLends /\ StraysExplained

\* An exit clears the record exactly when the prober on record exits, and
\* nobody begins to stand.
LEMMA EndsFacts ==
  ASSUME ProcessOK, RecordOK, BarrierOK, Holding, Safe, NEW p \in Pids, Ends(p)
  PROVE  /\ ProcessOK' /\ BarrierOK' /\ Holding'
         /\ ns' \in Pids \cup {None} /\ killMark' \in Pids \cup {None}
         /\ prober' \in [held : BOOLEAN, pid : Pids \cup {None}, launch : Pids \cup {None}]
         /\ respawn' \in Pids \cup {None} /\ respawned' \in BOOLEAN
         /\ disowned' = disowned /\ spared' = spared
         /\ \A x \in Pids : proc'[x] = "standing" <=> (proc[x] = "standing" /\ x # p)
         /\ prober.pid = p => prober'.pid = None
         /\ prober.pid # p /\ prober.pid # None => prober' = prober /\ ns' = ns
         /\ prober.pid = None => prober'.pid = None
<1>1. CASE proc[p] = "booting"
  <2>1. prober.pid # p
    BY <1>1, ProberAssumption DEF Safe, TrackedLends, Tracked, ProberAssumption
  <2> QED
    BY <1>1, <2>1, BindKeeps DEF Ends, ProcessOK, RecordOK, BarrierOK
<1>2. CASE proc[p] = "standing" /\ ProberExits(p)
  <2>1. BarrierOK' /\ Holding'
    BY <1>2, BindKeeps DEF Ends, ProberExits, BarrierOK
  <2>2. ProcessOK'
    BY <1>2 DEF Ends, ProberExits, ProcessOK
  <2>3. prober.pid # None => (prober.launch = p <=> prober.pid = p)
    BY DEF Safe, Named
  <2>4. p # None
    BY ProberAssumption DEF ProberAssumption
  <2> QED
    BY <1>2, <2>1, <2>2, <2>3, <2>4 DEF Ends, ProberExits, Current, ProcessOK, RecordOK
<1> QED
  BY <1>1, <1>2 DEF Ends

\* Whoever is neither on record nor taken off it by a step that retires or
\* disowns it is not standing.
LEMMA EndsSafe ==
  ASSUME ProcessOK, RecordOK, BarrierOK, Holding, Safe, NEW p \in Pids, Ends(p),
         retiring \ {p} \subseteq retiring'
  PROVE  Safe'
<1> USE ProberAssumption DEF ProberAssumption
<1>1. /\ disowned' = disowned /\ spared' = spared
      /\ \A x \in Pids : proc'[x] = "standing" <=> (proc[x] = "standing" /\ x # p)
  BY EndsFacts
<1>2. \/ prober'.pid = None /\ prober.pid \in {None, p}
      \/ prober.pid # p /\ prober.pid # None /\ prober' = prober /\ ns' = ns
  BY EndsFacts
<1>3. Named'
  BY <1>2 DEF Safe, Named
<1>4. TrackedLends'
  <2>1. CASE prober'.pid = None
    BY <2>1 DEF TrackedLends, Tracked
  <2>2. CASE prober.pid # p /\ prober.pid # None /\ prober' = prober /\ ns' = ns
    <3>1. ns = prober.pid /\ proc[prober.pid] = "standing" /\ prober.pid \in Pids
      BY <2>2 DEF Safe, TrackedLends, Tracked, RecordOK
    <3> QED
      BY <1>1, <2>2, <3>1 DEF TrackedLends, Tracked
  <2> QED
    BY <1>2, <2>1, <2>2
<1>5. StraysExplained'
  BY <1>1, <1>2 DEF Safe, StraysExplained, Tracked
<1> QED
  BY <1>3, <1>4, <1>5 DEF Safe

\* A step that changes no process, and leaves the record or clears its pid,
\* retiring or disowning the one it had.
LEMMA RecordKeeps ==
  ASSUME Safe, RecordOK,
         \A x \in Pids : proc'[x] = "standing" <=> proc[x] = "standing",
         \/ prober' = prober /\ ns' = ns
         \/ prober'.pid = None /\ \A x \in Tracked : x \in retiring' \cup disowned'
                                                     \/ proc[x] # "standing",
         retiring \subseteq retiring' \cup spared',
         disowned \subseteq disowned', spared \subseteq spared'
  PROVE  Safe'
<1> USE ProberAssumption DEF ProberAssumption
<1>1. Named'
  BY DEF Safe, Named
<1>2. TrackedLends'
  BY DEF Safe, TrackedLends, Tracked, RecordOK
<1>3. StraysExplained'
  BY DEF Safe, StraysExplained, Tracked, RecordOK
<1> QED
  BY <1>1, <1>2, <1>3 DEF Safe

LEMMA LendSafe ==
  ASSUME ProcessOK, RecordOK, Safe, NEW p \in Pids, Lend(p)
  PROVE  Safe'
<1> USE ProberAssumption DEF ProberAssumption
<1>1. /\ proc'[p] = "standing" /\ \A x \in Pids : x # p => proc'[x] = proc[x]
      /\ ns' = p /\ prober' = [held |-> TRUE, pid |-> p, launch |-> p]
      /\ retiring' = retiring \cup Tracked /\ disowned' = disowned /\ spared' = spared
  BY DEF Lend, ProcessOK
<1>2. Named' /\ TrackedLends'
  BY <1>1 DEF Named, TrackedLends, Tracked
<1>3. StraysExplained'
  BY <1>1 DEF Safe, StraysExplained, Tracked
<1> QED
  BY <1>2, <1>3 DEF Safe

-----------------------------------------------------------------------------
(* Steps *)

Inductive == ProcessOK /\ RecordOK /\ BarrierOK /\ RestOK /\ Safe /\ Holding

LEMMA InitInductive == Init => Inductive
<1> SUFFICES ASSUME Init PROVE Inductive
  OBVIOUS
<1>1. PICK first \in Pids \cup {None} :
        /\ proc = [p \in Pids |-> IF p = first THEN "standing" ELSE "free"]
        /\ desc = [p \in Pids |-> [refresh |-> None, armoured |-> p = first, ticket |-> None]]
        /\ ns = first
        /\ prober = [held |-> first # None, pid |-> first, launch |-> first]
  BY DEF Init
<1>2. ProcessOK
  BY <1>1 DEF Init, ProcessOK, Launches
<1>3. RecordOK /\ RestOK
  <2>1. /\ killMark = None /\ respawn = None /\ respawned = FALSE
        /\ inbound = "none" /\ retiring = {} /\ disowned = {} /\ spared = {}
        /\ pc = [c \in Plants |-> "idle"]
        /\ zombie = {} /\ sweep = None /\ faults = 0
    BY DEF Init
  <2>2. RestOK
    BY <2>1, ProberAssumption DEF RestOK, Stages, ProberAssumption
  <2>3. ns \in Pids \cup {None} /\ (first # None) \in BOOLEAN
    BY <1>1
  <2>4. prober \in [held : BOOLEAN, pid : Pids \cup {None}, launch : Pids \cup {None}]
    BY <1>1, <2>3
  <2> QED
    BY <2>1, <2>2, <2>3, <2>4 DEF RecordOK
<1>4. BarrierOK /\ Holding
  BY ProberAssumption DEF Init, BarrierOK, Holding, ProberAssumption
<1>5. Safe
  <2>1. prober.pid = first /\ prober.launch = first
    BY <1>1
  <2>2. \A p \in Pids : proc[p] = "standing" <=> p = first
    BY <1>1
  <2> QED
    BY <1>1, <2>1, <2>2, ProberAssumption
       DEF Safe, Named, TrackedLends, StraysExplained, Tracked, ProberAssumption
<1> QED
  BY <1>2, <1>3, <1>4, <1>5 DEF Inductive

\* The parts a step leaves alone.
LEMMA KeepsProcess == ASSUME ProcessOK, UNCHANGED process PROVE ProcessOK'
  BY DEF process, ProcessOK
LEMMA KeepsRecord == ASSUME RecordOK, UNCHANGED record PROVE RecordOK'
  BY DEF record, RecordOK
LEMMA KeepsBarrier == ASSUME BarrierOK, Holding, UNCHANGED barrier PROVE BarrierOK' /\ Holding'
  BY DEF barrier, BarrierOK, Holding
LEMMA KeepsRest == ASSUME RestOK, UNCHANGED <<plant, inbound, sweep, faults>> PROVE RestOK'
  BY DEF plant, RestOK
LEMMA KeepsSafe == ASSUME Safe, UNCHANGED <<proc, record>> PROVE Safe'
  BY DEF record, Safe, Named, TrackedLends, StraysExplained, Tracked

LEMMA FaultCounts == ASSUME RestOK, Fault PROVE faults' \in 0..Faults
  BY ProberAssumption DEF RestOK, Fault, ProberAssumption

LEMMA RunningCounts ==
  ASSUME RestOK, NEW p, NEW answer, Running(p, answer) PROVE faults' \in 0..Faults
  BY FaultCounts DEF RestOK, Running

\* The processes: kills, boots and spawns.
LEMMA EngineStep ==
  ASSUME Inductive, NEW p \in Pids,
         Kill(p) \/ KillRejected(p) \/ EngineKills(p) \/ SpawnLands(p) \/ ExitUnclaimed(p)
         \/ Lend(p)
  PROVE  Inductive'
<1> USE DEF Inductive
<1>1. CASE Kill(p)
  <2>1. RestOK'
    BY <1>1, KeepsRest DEF Kill
  <2>2. CASE Ends(p)
    <3>1. RecordOK'
      BY <1>1, <2>2, EndsFacts DEF Kill, RecordOK
    <3> QED
      BY <1>1, <2>1, <2>2, <3>1, EndsFacts, EndsSafe DEF Kill
  <2>3. CASE proc[p] = "dead" /\ UNCHANGED <<process, ns, prober, killMark, respawn, respawned,
                                           barrier, disowned, spared>>
    <3>1. Safe'
      BY <1>1, <2>3 DEF Kill, process, Safe, Named, TrackedLends, StraysExplained, Tracked
    <3>2. RecordOK'
      BY <1>1, <2>3 DEF Kill, RecordOK
    <3> QED
      BY <2>1, <2>3, <3>1, <3>2, KeepsProcess, KeepsBarrier
  <2> QED
    BY <1>1, <2>2, <2>3 DEF Kill
<1>2. CASE EngineKills(p)
  <2>1. Ends(p) /\ retiring \subseteq retiring' /\ retiring' \subseteq retiring \cup {p}
    BY <1>2 DEF EngineKills
  <2>2. RecordOK'
    BY <2>1, EndsFacts DEF RecordOK
  <2>3. RestOK'
    BY <1>2, FaultCounts DEF EngineKills, RestOK, plant
  <2> QED
    BY <2>1, <2>2, <2>3, EndsFacts, EndsSafe
<1>3. CASE SpawnLands(p)
  <2>1. [refresh |-> None, armoured |-> FALSE, ticket |-> p] \in Launches
    BY DEF Launches
  <2>2. /\ proc' \in [Pids -> {"free", "booting", "standing", "dead"}]
        /\ desc' \in [Pids -> Launches]
        /\ \A x \in Pids : proc'[x] = "standing" <=> proc[x] = "standing"
    <3>1. CASE UNCHANGED <<proc, desc>>
      BY <3>1 DEF ProcessOK
    <3> QED
      BY <1>3, <2>1, <3>1, LaunchKeeps DEF SpawnLands
  <2>3. ProcessOK'
    BY <1>3, <2>2 DEF SpawnLands, ProcessOK
  <2>4. Safe'
    BY <1>3, <2>2, RecordKeeps DEF SpawnLands, record
  <2> QED
    BY <1>3, <2>3, <2>4, KeepsRecord, KeepsBarrier, KeepsRest DEF SpawnLands
<1>4. CASE ExitUnclaimed(p)
  <2>1. ProcessOK' /\ \A x \in Pids : proc'[x] = "standing" <=> proc[x] = "standing"
    BY <1>4 DEF ExitUnclaimed, ProcessOK
  <2>2. Safe'
    BY <1>4, <2>1, RecordKeeps DEF ExitUnclaimed, record
  <2> QED
    BY <1>4, <2>1, <2>2, KeepsRecord, KeepsBarrier, KeepsRest DEF ExitUnclaimed
<1>5. CASE Lend(p)
  <2>1. ProcessOK'
    BY <1>5 DEF Lend, ProcessOK
  <2>2. RecordOK'
    BY <1>5 DEF Lend, RecordOK, Tracked
  <2>3. BarrierOK' /\ Holding'
    BY <1>5 DEF Lend, Reports, BarrierOK, Holding
  <2> QED
    BY <1>5, <2>1, <2>2, <2>3, LendSafe, KeepsRest DEF Lend
<1>6. CASE KillRejected(p)
  <2>1. Safe'
    BY <1>6, RecordKeeps DEF KillRejected, process
  <2>2. RecordOK'
    BY <1>6 DEF KillRejected, RecordOK
  <2>3. RestOK'
    BY <1>6, FaultCounts DEF KillRejected, RestOK, plant
  <2> QED
    BY <1>6, <2>1, <2>2, <2>3, KeepsProcess, KeepsBarrier DEF KillRejected
<1> QED
  BY <1>1, <1>2, <1>3, <1>4, <1>5, <1>6

\* The controller: mutations, resizes, displacements, retirements, sweeps.
LEMMA ControllerStep ==
  ASSUME Inductive, Mutation \/ ResizeProber \/ DisplaceProber \/ RetireVantage
                    \/ SweepAsks \/ SweepAnswered
  PROVE  Inductive'
<1> USE DEF Inductive
<1>1. CASE Mutation
  <2>1. /\ ns' \in {ns, None}
        /\ \/ prober' = prober
           \/ prober' = [held |-> TRUE, pid |-> None, launch |-> refreshLaunch] /\ ~prober.held
    BY <1>1 DEF Mutation
  <2>2. RecordOK'
    <3>1. prober' \in [held : BOOLEAN, pid : Pids \cup {None}, launch : Pids \cup {None}]
      <4>1. CASE prober' = prober
        BY <4>1 DEF RecordOK
      <4>2. CASE prober' = [held |-> TRUE, pid |-> None, launch |-> refreshLaunch]
        BY <4>2 DEF BarrierOK
      <4> QED
        BY <2>1, <4>1, <4>2
    <3>2. UNCHANGED <<killMark, respawn, respawned, retiring, disowned, spared>>
      BY <1>1 DEF Mutation
    <3> QED
      BY <2>1, <3>1, <3>2 DEF RecordOK
  <2>3. \/ prober' = prober /\ ns' = ns
        \/ prober'.pid = None /\ Tracked = {}
    <3>1. Tracked # {} => ns \in Tracked /\ proc[ns] = "standing" /\ prober.held
      BY DEF RecordOK, Safe, Named, TrackedLends, Tracked
    <3>2. Tracked # {} => prober' = prober /\ ns' = ns
      BY <1>1, <3>1 DEF Mutation
    <3>3. Tracked = {} => prober.pid = None
      BY DEF Tracked
    <3> QED
      BY <2>1, <3>2, <3>3
  <2>4. Safe'
    BY <1>1, <2>3, RecordKeeps DEF Mutation, process
  <2> QED
    BY <1>1, <2>2, <2>4, KeepsProcess, KeepsBarrier, KeepsRest DEF Mutation
<1>2. CASE ResizeProber
  <2>1. prober.pid \in Pids /\ desc[prober.pid].armoured \in BOOLEAN
    BY <1>2 DEF ResizeProber, Tracked, RecordOK, ProcessOK, Launches
  <2>2. [refresh |-> None, armoured |-> ~desc[prober.pid].armoured, ticket |-> None] \in Launches
    BY <2>1 DEF Launches
  <2>3. /\ proc' \in [Pids -> {"free", "booting", "standing", "dead"}]
        /\ desc' \in [Pids -> Launches]
        /\ \A x \in Pids : proc'[x] = "standing" <=> proc[x] = "standing"
        /\ BarrierOK' /\ Holding'
    <3>1. CASE UNCHANGED <<proc, desc, barrier>>
      BY <3>1, KeepsBarrier DEF ProcessOK
    <3>2. ASSUME NEW q \in Pids, BindProberLaunch(q),
                 LaunchProber(q, [refresh |-> None, armoured |-> ~desc[prober.pid].armoured,
                                  ticket |-> None])
          PROVE  <2>3!:
      <4>1. BarrierOK' /\ Holding'
        BY <3>2, BindKeeps DEF BindProberLaunch, BarrierOK
      <4> QED
        BY <3>2, <2>2, <4>1, LaunchKeeps
    <3> QED
      BY <1>2, <3>1, <3>2 DEF ResizeProber
  <2>4. ProcessOK' /\ RecordOK'
    BY <1>2, <2>3 DEF ResizeProber, RespawnReaped, ProcessOK, RecordOK
  <2>5. Safe'
    BY <1>2, <2>3, RecordKeeps DEF ResizeProber
  <2> QED
    BY <1>2, <2>3, <2>4, <2>5, KeepsRest DEF ResizeProber
<1>3. CASE DisplaceProber
  <2>1. RecordOK'
    BY <1>3 DEF DisplaceProber, RecordOK, Tracked
  <2>2. prober'.pid = None
    BY <1>3 DEF DisplaceProber, RecordOK
  <2>3. Safe'
    BY <1>3, <2>2, RecordKeeps DEF DisplaceProber, process
  <2>4. RestOK'
    BY <1>3, FaultCounts DEF DisplaceProber, RestOK, plant
  <2> QED
    BY <1>3, <2>1, <2>3, <2>4, KeepsProcess, KeepsBarrier DEF DisplaceProber
<1>4. CASE RetireVantage
  <2>1. RecordOK'
    BY <1>4 DEF RetireVantage, RetireVantageEffect, RecordOK, Tracked, NoRecord
  <2>2. BarrierOK' /\ Holding'
    BY <1>4, Releases DEF RetireVantage, RetireVantageEffect
  <2>3. Safe'
    BY <1>4, RecordKeeps DEF RetireVantage, RetireVantageEffect, NoRecord, process
  <2>4. RestOK'
    BY <1>4, FaultCounts DEF RetireVantage, RetireVantageEffect, RestOK, plant
  <2> QED
    BY <1>4, <2>1, <2>2, <2>3, <2>4, KeepsProcess DEF RetireVantage
<1>5. CASE SweepAsks
  <2>1. RestOK'
    BY <1>5 DEF SweepAsks, Tracked, RecordOK, RestOK, plant
  <2> QED
    BY <1>5, <2>1, KeepsProcess, KeepsRecord, KeepsBarrier, KeepsSafe DEF SweepAsks, process
<1>6. CASE SweepAnswered
  <2>0. /\ sweep' \in Pids \cup {None} /\ faults' \in 0..Faults
        /\ UNCHANGED <<proc, desc, due, pc, zombie>>
    BY <1>6, RunningCounts DEF SweepAnswered, plant
  <2>1. CASE UNCHANGED <<record, barrier, inbound, tickets>>
    <3>1. RestOK' /\ ProcessOK'
      BY <2>0, <2>1 DEF RestOK, ProcessOK
    <3> QED
      BY <2>0, <2>1, <3>1, KeepsRecord, KeepsBarrier, KeepsSafe
  <2>2. CASE /\ RespawnReaped
             /\ prober' = [prober EXCEPT !.held = TRUE, !.pid = None]
             /\ disowned' = disowned \cup (Tracked \cap Live)
             /\ UNCHANGED <<ns, killMark, respawned, retiring, spared, barrier, inbound>>
    <3>1. RestOK' /\ ProcessOK' /\ RecordOK'
      BY <2>0, <2>2 DEF RespawnReaped, RestOK, ProcessOK, RecordOK, Live
    <3>2. prober'.pid = None
      BY <2>2 DEF RecordOK
    <3>3. \A x \in Tracked : x \in disowned' \/ proc[x] # "standing"
      BY <2>2 DEF Live, Tracked, RecordOK
    <3>4. Safe'
      BY <2>0, <2>2, <3>2, <3>3, RecordKeeps
    <3> QED
      BY <2>2, <3>1, <3>4, KeepsBarrier
  <2>3. CASE RetireVantageEffect
             /\ UNCHANGED <<ns, respawn, respawned, disowned, spared, tickets>>
    <3>1. RestOK' /\ ProcessOK' /\ RecordOK'
      BY <2>0, <2>3 DEF RetireVantageEffect, RestOK, ProcessOK, RecordOK, Tracked, NoRecord
    <3>2. BarrierOK' /\ Holding'
      BY <2>3, Releases DEF RetireVantageEffect
    <3>3. Safe'
      BY <2>0, <2>3, RecordKeeps DEF RetireVantageEffect, NoRecord
    <3> QED
      BY <3>1, <3>2, <3>3
  <2> QED
    BY <1>6, <2>1, <2>2, <2>3 DEF SweepAnswered
<1> QED
  BY <1>1, <1>2, <1>3, <1>4, <1>5, <1>6

\* Derive passes and the agent.
LEMMA PassStep ==
  ASSUME Inductive, WindowLapses \/ ReapGhostLaunches \/ ReleasePlanned \/ AgentAdopts
  PROVE  Inductive'
<1> USE DEF Inductive
<1>1. ProcessOK' /\ RecordOK' /\ Safe'
  <2>1. UNCHANGED <<process, record>>
    BY DEF WindowLapses, ReapGhostLaunches, ReleasePlanned, AgentAdopts
  <2> QED
    BY <2>1, KeepsProcess, KeepsRecord, KeepsSafe DEF process
<1>2. RestOK'
  BY DEF WindowLapses, ReapGhostLaunches, ReleasePlanned, AgentAdopts, RestOK, plant
<1>3. BarrierOK' /\ Holding'
  <2>1. CASE UNCHANGED barrier
    BY <2>1, KeepsBarrier
  <2>2. CASE ReleaseProbeRefresh(Cancelled) \/ ReleaseProbeRefresh(Report)
    BY <2>2, Releases
  <2> QED
    BY <2>1, <2>2 DEF WindowLapses, ReapGhostLaunches, ReleasePlanned, AgentAdopts
<1> QED
  BY <1>1, <1>2, <1>3

LEMMA Moves ==
  ASSUME RestOK, NEW c \in Plants, NEW here, NEW there \in Stages, At(c, here, there),
         inbound' \in {inbound, "none", "open"}, UNCHANGED <<zombie, sweep, faults>>
  PROVE  RestOK'
  BY DEF RestOK, At

\* The plants.
LEMMA PlantStep ==
  ASSUME Inductive, NEW c \in Plants,
         PreparePlant(c) \/ BeginProbeRefresh(c) \/ RefreshAnswered(c) \/ PlantProber(c)
         \/ BarrierSettled(c) \/ ClaimPlanted(c) \/ PlantKilled(c)
  PROVE  Inductive'
<1> USE DEF Inductive
<1>1. CASE PreparePlant(c)
  <2>1. RestOK'
    <3>1. \E there \in Stages : At(c, "idle", there)
      BY <1>1 DEF PreparePlant, Stages
    <3> QED
      BY <1>1, <3>1, Moves DEF PreparePlant
  <2>2. ProcessOK' /\ RecordOK'
    BY <1>1 DEF PreparePlant, RespawnReaped, ProcessOK, RecordOK
  <2>3. Safe'
    BY <1>1, RecordKeeps DEF PreparePlant
  <2> QED
    BY <1>1, <2>1, <2>2, <2>3, KeepsBarrier DEF PreparePlant
<1>2. CASE BeginProbeRefresh(c)
  <2>1. RestOK'
    <3>1. \E there \in Stages : At(c, "begin", there)
      BY <1>2 DEF BeginProbeRefresh, Stages
    <3> QED
      BY <1>2, <3>1, Moves DEF BeginProbeRefresh
  <2>2. BarrierOK' /\ Holding'
    <3>1. CASE OpenBarrier(c)
      BY <3>1, Opens
    <3>2. CASE Holds(c, refresh)
      BY <3>2, HoldsKeeps DEF BarrierOK
    <3>3. CASE Holds(c, refreshLaunch)
      <4>1. refreshLaunch \notin Plants \/ refreshLaunch = refresh
        BY ProberAssumption DEF ProberAssumption, BarrierOK
      <4> QED
        BY <3>3, <4>1, HoldsKeeps DEF BarrierOK
    <3> QED
      BY <1>2, <3>1, <3>2, <3>3 DEF BeginProbeRefresh
  <2> QED
    BY <1>2, <2>1, <2>2, KeepsProcess, KeepsRecord, KeepsSafe DEF BeginProbeRefresh, process
<1>3. CASE RefreshAnswered(c)
  <2>1. RestOK'
    <3>1. \E there \in Stages : At(c, "asking", there)
      BY <1>3 DEF RefreshAnswered, Stages
    <3>2. faults' \in 0..Faults /\ UNCHANGED <<zombie, inbound, sweep>>
      BY <1>3, RunningCounts DEF RefreshAnswered
    <3> QED
      BY <3>1, <3>2 DEF RestOK, At
  <2>2. BarrierOK' /\ Holding'
    <3>1. CASE OpenBarrier(c)
      BY <3>1, Opens
    <3>2. CASE Holds(c, refresh)
      BY <3>2, HoldsKeeps DEF BarrierOK
    <3> QED
      BY <1>3, <3>1, <3>2 DEF RefreshAnswered
  <2> QED
    BY <1>3, <2>1, <2>2, KeepsProcess, KeepsRecord, KeepsSafe DEF RefreshAnswered, process
<1>4. CASE PlantProber(c)
  <2>1. RestOK'
    <3>1. \E there \in Stages : At(c, "launch", there)
      BY <1>4 DEF PlantProber, Stages
    <3> QED
      BY <1>4, <3>1, Moves DEF PlantProber
  <2>2. RecordOK'
    BY <1>4, KeepsRecord DEF PlantProber
  <2>3. /\ ProcessOK' /\ BarrierOK' /\ Holding'
        /\ \A x \in Pids : proc'[x] = "standing" <=> proc[x] = "standing"
    <3>1. CASE UNCHANGED process /\ Holds(c, None)
      <4>1. None \notin Plants
        BY ProberAssumption DEF ProberAssumption
      <4> QED
        BY <3>1, <4>1, HoldsKeeps, KeepsProcess DEF process
    <3>2. CASE UNCHANGED process /\ (ReleaseProbeRefresh(Cancelled) \/ UNCHANGED barrier)
      BY <3>2, Releases, KeepsBarrier, KeepsProcess DEF process
    <3>3. ASSUME NEW q \in Pids, BindProberLaunch(q), UNCHANGED <<due, tickets>>,
                 LaunchProber(q, [refresh |-> c, armoured |-> FALSE, ticket |-> None])
          PROVE  <2>3!:
      <4>1. [refresh |-> c, armoured |-> FALSE, ticket |-> None] \in Launches
        BY DEF Launches
      <4>2. BarrierOK' /\ Holding'
        BY <3>3, BindKeeps DEF BindProberLaunch, BarrierOK
      <4>3. /\ proc' \in [Pids -> {"free", "booting", "standing", "dead"}]
            /\ desc' \in [Pids -> Launches]
            /\ \A x \in Pids : proc'[x] = "standing" <=> proc[x] = "standing"
        BY <3>3, <4>1, LaunchKeeps
      <4> QED
        BY <3>3, <4>2, <4>3 DEF ProcessOK
    <3> QED
      BY <1>4, <3>1, <3>2, <3>3 DEF PlantProber
  <2>4. Safe'
    BY <1>4, <2>3, RecordKeeps DEF PlantProber, record
  <2> QED
    BY <2>1, <2>2, <2>3, <2>4
<1>5. CASE BarrierSettled(c)
  <2>1. RestOK'
    <3>1. \E there \in Stages : At(c, "waiting", there)
      BY <1>5 DEF BarrierSettled, Stages
    <3> QED
      BY <1>5, <3>1, Moves DEF BarrierSettled
  <2>2. BarrierOK' /\ Holding'
    <3>1. None \notin Plants
      BY ProberAssumption DEF ProberAssumption
    <3> QED
      BY <1>5, <3>1, HoldsKeeps DEF BarrierSettled
  <2> QED
    BY <1>5, <2>1, <2>2, KeepsProcess, KeepsRecord, KeepsSafe DEF BarrierSettled, process
<1>6. CASE ClaimPlanted(c)
  <2>1. RestOK'
    <3>1. \E there \in Stages : At(c, "claim", there)
      BY <1>6 DEF ClaimPlanted, Stages
    <3> QED
      BY <1>6, <3>1, Moves DEF ClaimPlanted
  <2>2. CASE UNCHANGED <<process, record, barrier>>
    BY <2>1, <2>2, KeepsProcess, KeepsRecord, KeepsBarrier, KeepsSafe DEF process
  <2>3. ASSUME NEW p \in Pids, Ends(p),
               retiring' = IF proc[p] = "standing" THEN retiring \cup {p} ELSE retiring
        PROVE  Inductive'
    <3>1. RecordOK'
      BY <2>3, EndsFacts DEF RecordOK
    <3> QED
      BY <2>1, <2>3, <3>1, EndsFacts, EndsSafe
  <2> QED
    BY <1>6, <2>2, <2>3 DEF ClaimPlanted, Live
<1>7. CASE PlantKilled(c)
  <2>1. RestOK'
    BY <1>7, FaultCounts DEF PlantKilled, RestOK
  <2> QED
    BY <1>7, <2>1, KeepsProcess, KeepsRecord, KeepsBarrier, KeepsSafe DEF PlantKilled, process
<1> QED
  BY <1>1, <1>2, <1>3, <1>4, <1>5, <1>6, <1>7

LEMMA InductiveStep == Inductive /\ [Next]_vars => Inductive'
<1> SUFFICES ASSUME Inductive, [Next]_vars PROVE Inductive'
  OBVIOUS
<1>1. CASE UNCHANGED vars
  BY <1>1, KeepsProcess, KeepsRecord, KeepsBarrier, KeepsRest, KeepsSafe DEF vars, Inductive, process
<1>2. CASE Next
  BY <1>2, EngineStep, ControllerStep, PassStep, PlantStep DEF Next
<1> QED
  BY <1>1, <1>2

LEMMA Invariance == Spec => []Inductive
  BY InitInductive, InductiveStep, PTL DEF Spec

-----------------------------------------------------------------------------
(* Theorems *)

\* Type correctness of the record, the barrier and the plants.
THEOREM TypeCorrect == Spec => []TypeOK
<1>1. Inductive => TypeOK
  BY TypeParts DEF Inductive
<1> QED
  BY <1>1, Invariance, PTL

\* The prober on record stands and its `ns` is the one lent, whoever exits,
\* lends or is displaced in whatever order (controller.ts:593-605, 2662-2698).
LEMMA RecordIsTrue == Spec => []TrackedLends
<1>1. Inductive => TrackedLends
  BY DEF Inductive, Safe
<1> QED
  BY <1>1, Invariance, PTL

\* Lends, displacements, retirements and exits converge to one prober: what
\* stands is on record or being killed, but for what a late or failed answer to
\* the mutation sweep took off the record (controller.ts:2604-2607, 3003-3016)
\* and what a rejected kill left standing (controller.ts:568-577).
LEMMA NoOtherStrays == Spec => []StraysExplained
<1>1. Inductive => StraysExplained
  BY DEF Inductive, Safe
<1> QED
  BY <1>1, Invariance, PTL

\* The prober on record stands and lends, and another one that stands is being
\* killed or was left there by the sweep's answer or by a rejected kill, whoever
\* exits, lends or is displaced in whatever order and whichever calls fail
\* (controller.ts:568-577, 593-605, 2604-2607, 2662-2698, 3003-3016).
THEOREM OneOnRecord == Spec => []OneProberOnRecord
  BY RecordIsTrue, NoOtherStrays, PTL DEF OneProberOnRecord

\* No barrier is replaced or forgotten while a plant waits for it unsettled
\* (controller.ts:249-260, 2562-2600).
THEOREM NobodyWaitsOnAForgottenBarrier == Spec => []WaitsOnHeldBarrier
<1>1. Inductive => WaitsOnHeldBarrier
  BY DEF Inductive, Holding, WaitsOnHeldBarrier
<1> QED
  BY <1>1, Invariance, PTL
=============================================================================
