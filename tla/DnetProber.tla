----------------------------- MODULE DnetProber -----------------------------
(***************************************************************************)
(* The prober of one darknet host: the process that lends its `ns` to the  *)
(* controller, and everything that launches, replaces, faults or waits for  *)
(* it (game/dnet/controller.ts, prober.ts, plantOne of orders.ts).         *)
(*                                                                         *)
(* Plants on neighbouring hosts open or join a first-probe barrier and     *)
(* launch a prober; a booted prober lends and answers its barrier; a       *)
(* derive pass releases the barrier once the report was planned; armour    *)
(* changes, walks, pins and retirements replace or kill the prober; the    *)
(* engine faults it with its host, and an armoured one then spawns its own  *)
(* successor.                                                              *)
(*                                                                         *)
(* One action is one stretch of code between awaits.  The controller lives *)
(* throughout, the host stays in its map, the agent of the host is         *)
(* external, and the clock is free: a grace period, a respawn floor or a   *)
(* launch window lapses at any moment.                                     *)
(***************************************************************************)
EXTENDS Integers, FiniteSets

CONSTANTS
  Pids,    \* processes running dnet/prober.js, numbered as they are launched
  Plants,  \* plantOne calls aimed at this host
  Faults,  \* bound on faults by the engine, failed calls, displacements and retirements
  None,
  Report, Cancelled   \* what a barrier settles with

ASSUME ProberAssumption ==
  /\ Pids \subseteq Nat
  /\ Pids \cap Plants = {}
  /\ {None, Report, Cancelled} \cap (Pids \cup Plants) = {}
  /\ Report # None /\ Cancelled # None /\ Report # Cancelled
  /\ Faults \in Nat

VARIABLES
  proc,          \* proc[p]: free, booting, standing (it lent) or dead
  desc,          \* desc[p]: its launch: barrier, armour, spawn ticket (its predecessor)
  ns,            \* HostEntry.ns: the process whose `ns` is lent
  prober,        \* HostEntry.prober
  killMark,      \* HostEntry.proberKillMark
  respawn,       \* HostEntry.proberRespawn: the ticket announced
  respawned,     \* HostEntry.proberRespawnAt is set
  refresh,       \* HostEntry.probeRefresh: the barrier, named by the plant that opened it
  refreshLaunch, \* HostEntry.probeRefreshLaunch
  inbound,       \* HostEntry.inbound: none, open or lapsed (its window is over)
  retiring,      \* retiringPids: faults ordered and not done
  ready,         \* readyProbeRefreshes: the barriers whose report came
  due,           \* dying probers whose spawn timer runs
  tickets,       \* spawn_launches: spawn descriptors nobody has captured
  pc,            \* pc[c]: where plant c is
  awaits,        \* awaits[c]: the barrier it holds, or what that one was settled with;
                 \* while it asks, the process it asks about
  zombie,        \* plants whose own process was killed
  sweep,         \* the answer the mutation sweep is waiting for
  faults,        \* how many of those happened
  disowned,      \* history: live processes whose pid the sweep took off the record
  spared         \* history: live processes whose ordered kill was rejected

process == <<proc, desc, due, tickets>>
record  == <<ns, prober, killMark, respawn, respawned, retiring, disowned, spared>>
barrier == <<refresh, refreshLaunch, ready, awaits>>
plant   == <<pc, zombie>>
vars == <<process, record, barrier, plant, inbound, sweep, faults>>

NoRecord == [held |-> FALSE, pid |-> None, launch |-> None]
Live == {p \in Pids : proc[p] \in {"booting", "standing"}}
Tracked == {prober.pid} \ {None}

TypeOK ==
  /\ proc \in [Pids -> {"free", "booting", "standing", "dead"}]
  /\ desc \in [Pids -> [refresh : Plants \cup {None}, armoured : BOOLEAN,
                        ticket : Pids \cup {None}]]
  /\ ns \in Pids \cup {None}
  /\ prober \in [held : BOOLEAN, pid : Pids \cup {None}, launch : Pids \cup {None}]
  /\ killMark \in Pids \cup {None}
  /\ respawn \in Pids \cup {None} /\ respawned \in BOOLEAN
  /\ refresh \in Plants \cup {None} /\ refreshLaunch \in Pids \cup {None}
  /\ inbound \in {"none", "open", "lapsed"}
  /\ retiring \subseteq Pids /\ disowned \subseteq Pids /\ spared \subseteq Pids
  /\ ready \subseteq Plants
  /\ due \subseteq Pids /\ tickets \subseteq Pids
  /\ pc \in [Plants -> {"idle", "begin", "asking", "launch", "waiting", "claim", "done", "threw"}]
  /\ awaits \in [Plants -> Plants \cup Pids \cup {None, Report, Cancelled}]
  /\ zombie \subseteq Plants
  /\ sweep \in Pids \cup {None}
  /\ faults \in 0..Faults

\* Nobody has launched here yet, or an armoured prober stands.
Init ==
  \E first \in Pids \cup {None} :
    /\ first # None => \A p \in Pids : first <= p
    /\ proc = [p \in Pids |-> IF p = first THEN "standing" ELSE "free"]
    /\ desc = [p \in Pids |-> [refresh |-> None, armoured |-> p = first, ticket |-> None]]
    /\ ns = first
    /\ prober = [held |-> first # None, pid |-> first, launch |-> first]
    /\ killMark = None /\ respawn = None /\ respawned = FALSE
    /\ refresh = None /\ refreshLaunch = None /\ ready = {}
    /\ awaits = [c \in Plants |-> None]
    /\ inbound = "none" /\ retiring = {} /\ disowned = {} /\ spared = {}
    /\ due = {} /\ tickets = {}
    /\ pc = [c \in Plants |-> "idle"]
    /\ zombie = {} /\ sweep = None /\ faults = 0

-----------------------------------------------------------------------------
(* Barriers.                                                               *)

\* Whoever holds the barrier of the entry will resume with `value`.
Settled(value) == [c \in Plants |-> IF refresh # None /\ awaits[c] = refresh THEN value
                                    ELSE awaits[c]]

\* The entry forgets its barrier.
ReleaseProbeRefresh(value) ==
  /\ refresh' = None /\ refreshLaunch' = None
  /\ ready' = ready \ {refresh}
  /\ awaits' = Settled(value)

\* Mutant: the barrier that is replaced is not settled.
OpenOver(c) ==
  /\ refresh' = c /\ refreshLaunch' = None
  /\ ready' = ready \ {refresh}
  /\ awaits' = [awaits EXCEPT ![c] = c]

\* c opens its own barrier, cancelling the one the entry holds, if any.
OpenBarrier(c) ==
  /\ refresh' = c /\ refreshLaunch' = None
  /\ ready' = ready \ {refresh}
  /\ awaits' = [Settled(Cancelled) EXCEPT ![c] = c]

-----------------------------------------------------------------------------
(* Launches and deaths.                                                    *)

Fault == faults < Faults /\ faults' = faults + 1

Free == {p \in Pids : proc[p] = "free"}

\* What a proxied isRunning says of p: the truth, or that a live process is
\* gone, because the call failed.
Running(p, answer) ==
  \/ answer = (p \in Live) /\ UNCHANGED faults
  \/ p \in Live /\ ~answer /\ Fault

\* exec admits process q; the launch is bound to the entry before q runs.
LaunchProber(q, d) ==
  /\ q \in Free /\ \A p \in Free : q <= p
  /\ proc' = [proc EXCEPT ![q] = "booting"]
  /\ desc' = [desc EXCEPT ![q] = d]

BindProberLaunch(q) ==
  /\ refreshLaunch' = IF refresh = None THEN refreshLaunch ELSE q
  /\ UNCHANGED <<refresh, ready, awaits>>

\* Mutant: the exit is compared with the launch the barrier waits for.
BoundLaunch(p) == refreshLaunch = p

\* The launch on record is p's.
Current(p) == prober.launch = p

\* atExit of a prober that lent: its launch is over for the entry, and armour
\* schedules a successor unless the kill was announced or a respawn was
\* admitted within the floor (any earlier one may be that recent).
ProberExits(p) ==
  LET marked == killMark = p IN
  /\ proc' = [proc EXCEPT ![p] = "dead"]
  /\ refreshLaunch' = IF refreshLaunch = p THEN None ELSE refreshLaunch
  /\ ns' = IF Current(p) THEN None ELSE ns
  /\ prober' = IF Current(p) THEN [prober EXCEPT !.pid = None] ELSE prober
  /\ \/ /\ ~desc[p].armoured \/ respawned
        /\ UNCHANGED <<killMark, respawn, respawned, due, tickets>>
     \/ /\ desc[p].armoured /\ marked
        /\ killMark' = None
        /\ UNCHANGED <<respawn, respawned, due, tickets>>
     \/ /\ desc[p].armoured /\ ~marked
        /\ respawned' = TRUE /\ respawn' = p
        /\ due' = due \cup {p} /\ tickets' = tickets \cup {p}
        /\ UNCHANGED killMark

\* A process ends: one that has not lent yet has registered nothing.
Ends(p) ==
  /\ \/ proc[p] = "standing" /\ ProberExits(p)
     \/ /\ proc[p] = "booting"
        /\ proc' = [proc EXCEPT ![p] = "dead"]
        /\ UNCHANGED <<refreshLaunch, ns, prober, killMark, respawn, respawned, due, tickets>>
  /\ UNCHANGED <<desc, refresh, ready, awaits, disowned, spared>>

\* The kill the controller ordered reaches the engine; a pid already gone is
\* as conclusive.
Kill(p) ==
  /\ p \in retiring
  /\ retiring' = retiring \ {p}
  /\ \/ Ends(p)
     \/ /\ proc[p] = "dead"
        /\ UNCHANGED <<process, ns, prober, killMark, respawn, respawned, barrier, disowned,
                       spared>>
  /\ UNCHANGED <<plant, inbound, sweep, faults>>

\* The proxied kill is rejected before it reached the engine: the controller
\* takes the pid for retired all the same, and the process goes on.
KillRejected(p) ==
  /\ p \in retiring \cap Live
  /\ Fault
  /\ retiring' = retiring \ {p}
  /\ spared' = spared \cup {p}
  /\ UNCHANGED <<process, ns, prober, killMark, respawn, respawned, disowned, barrier, plant,
                 inbound, sweep>>

\* The engine faults a process on its own account: its host restarts, or the
\* player faults it.  The exit hook orders the retirement of its pid.
EngineKills(p) ==
  /\ p \in Live
  /\ Fault
  /\ retiring' = IF proc[p] = "standing" THEN retiring \cup {p} ELSE retiring
  /\ Ends(p)
  /\ UNCHANGED <<plant, inbound, sweep>>

\* The spawn timer of p fires: its successor starts, or the host cannot hold it.
SpawnLands(p) ==
  /\ p \in due
  /\ due' = due \ {p}
  /\ \/ \E q \in Pids : LaunchProber(q, [refresh |-> None, armoured |-> FALSE, ticket |-> p])
     \/ UNCHANGED <<proc, desc>>
  /\ UNCHANGED <<tickets, record, barrier, plant, inbound, sweep, faults>>

-----------------------------------------------------------------------------
(* Lending.                                                                *)

\* A successor whose ticket was withdrawn finds no launch and leaves.
ExitUnclaimed(p) ==
  /\ proc[p] = "booting"
  /\ desc[p].ticket \notin tickets \cup {None}
  /\ proc' = [proc EXCEPT ![p] = "dead"]
  /\ UNCHANGED <<desc, due, tickets, record, barrier, plant, inbound, sweep, faults>>

\* Mutant: a report that comes after the window closed is dropped.
ReportsInWindow(p) == refresh # None /\ desc[p].refresh = refresh /\ inbound # "none"

\* p carries the barrier the entry holds.
Reports(p) == refresh # None /\ desc[p].refresh = refresh

\* lend and the probe inside it: whoever was on record is marked and retired,
\* the newcomer owns the slot, and the barrier it carries has its report.
Lend(p) ==
  LET outgoing == Tracked IN
  /\ proc[p] = "booting"
  /\ desc[p].ticket \in tickets \cup {None}
  /\ proc' = [proc EXCEPT ![p] = "standing"]
  /\ tickets' = tickets \ {desc[p].ticket}
  /\ refreshLaunch' = IF refresh = None THEN refreshLaunch ELSE p
  /\ respawn' = None
  /\ killMark' = IF outgoing = {} THEN killMark ELSE prober.pid
  /\ retiring' = retiring \cup outgoing
  /\ ns' = p
  /\ prober' = [held |-> TRUE, pid |-> p, launch |-> p]
  /\ ready' = IF Reports(p) THEN ready \cup {refresh} ELSE ready
  /\ UNCHANGED <<desc, due, respawned, disowned, spared, refresh, awaits, plant, inbound,
                 sweep, faults>>

\* A mutation: every lender is probed again, and one that no longer answers is
\* dropped.
Mutation ==
  /\ ns # None
  /\ IF proc[ns] = "standing"
     THEN /\ prober' = IF prober.held THEN prober
                       ELSE [held |-> TRUE, pid |-> None, launch |-> refreshLaunch]
          /\ UNCHANGED ns
     ELSE /\ ns' = None /\ UNCHANGED prober
  /\ UNCHANGED <<process, killMark, respawn, respawned, retiring, disowned, spared, barrier,
                 plant, inbound, sweep, faults>>

-----------------------------------------------------------------------------
(* Replacing, displacing and retiring.                                     *)

\* A respawn is pending unless its grace is over, and then its ticket is withdrawn.
RespawnReaped ==
  /\ respawn' = None
  /\ tickets' = tickets \ {respawn}

\* An order boundary: the incumbent launches a prober of the other size, or
\* the host has no room for it.  A launch window holds it up while it is open;
\* one that lapsed and was not reaped yet does not.
ResizeProber ==
  /\ inbound # "open" /\ retiring = {}
  /\ ns # None /\ Tracked # {}
  /\ RespawnReaped
  /\ \/ \E q \in Pids :
          /\ proc[ns] = "standing"
          /\ LaunchProber(q, [refresh |-> None, armoured |-> ~desc[prober.pid].armoured,
                              ticket |-> None])
          /\ BindProberLaunch(q)
     \/ UNCHANGED <<proc, desc, barrier>>
  /\ UNCHANGED <<due, ns, prober, killMark, respawned, retiring, disowned, spared, plant,
                 inbound, sweep, faults>>

\* A walk or a finished pin takes the prober's place.
DisplaceProber ==
  /\ Tracked # {}
  /\ killMark' = prober.pid
  /\ retiring' = retiring \cup Tracked
  /\ prober' = [prober EXCEPT !.pid = None]
  /\ Fault
  /\ UNCHANGED <<process, ns, respawn, respawned, disowned, spared, barrier, plant, inbound,
                 sweep>>

\* Mutant: a pid of zero is retired like any other.
RetireZero ==
  /\ killMark' = prober.pid
  /\ retiring' = retiring \cup {prober.pid}
  /\ prober' = NoRecord
  /\ inbound' = "none"
  /\ ReleaseProbeRefresh(Cancelled)

\* The host loses its standing: everything known about its processes goes.
RetireVantageEffect ==
  /\ killMark' = IF Tracked = {} THEN killMark ELSE prober.pid
  /\ retiring' = retiring \cup Tracked
  /\ prober' = NoRecord
  /\ inbound' = "none"
  /\ ReleaseProbeRefresh(Cancelled)

RetireVantage ==
  /\ Fault
  /\ RetireVantageEffect
  /\ UNCHANGED <<process, ns, respawn, respawned, disowned, spared, plant, sweep>>

\* The mutation sweep asks whether the prober on record still runs ...
SweepAsks ==
  /\ sweep = None
  /\ Tracked # {}
  /\ sweep' = prober.pid
  /\ UNCHANGED <<process, record, barrier, plant, inbound, faults>>

\* ... and acts on the record it finds when the answer comes: beside an agent
\* it clears the prober, whichever that is now; without one the host is lost.
SweepAnswered ==
  /\ sweep # None
  /\ sweep' = None
  /\ \E alive \in BOOLEAN :
       /\ Running(sweep, alive)
       /\ \/ /\ alive \/ respawn # None
             /\ UNCHANGED <<record, barrier, inbound, tickets>>
          \/ /\ ~alive
             /\ RespawnReaped
             /\ prober' = [prober EXCEPT !.held = TRUE, !.pid = None]
             /\ disowned' = disowned \cup (Tracked \cap Live)
             /\ UNCHANGED <<ns, killMark, respawned, retiring, spared, barrier, inbound>>
          \/ /\ ~alive
             /\ RetireVantageEffect
             /\ UNCHANGED <<ns, respawn, respawned, disowned, spared, tickets>>
  /\ UNCHANGED <<proc, desc, due, plant>>

-----------------------------------------------------------------------------
(* Derive passes and the agent.                                            *)

WindowLapses ==
  /\ inbound = "open"
  /\ inbound' = "lapsed"
  /\ UNCHANGED <<process, record, barrier, plant, sweep, faults>>

\* A lapsed window is closed, and a barrier nobody launched for dies with it.
ReapGhostLaunches ==
  /\ inbound = "lapsed"
  /\ inbound' = "none"
  /\ IF refreshLaunch = None THEN ReleaseProbeRefresh(Cancelled) ELSE UNCHANGED barrier
  /\ UNCHANGED <<process, record, plant, sweep, faults>>

\* The end of a pass: a barrier whose report came is released.
ReleasePlanned ==
  /\ refresh \in ready
  /\ ReleaseProbeRefresh(Report)
  /\ UNCHANGED <<process, record, plant, inbound, sweep, faults>>

AgentAdopts ==
  /\ inbound # "none" /\ inbound' = "none"
  /\ UNCHANGED <<process, record, barrier, plant, sweep, faults>>

-----------------------------------------------------------------------------
(* A plant.                                                                *)

At(c, here, there) == pc[c] = here /\ pc' = [pc EXCEPT ![c] = there]

Holds(c, what) ==
  /\ awaits' = [awaits EXCEPT ![c] = what]
  /\ UNCHANGED <<refresh, refreshLaunch, ready>>

\* preparePlant, once every ordered kill is done: a standing prober, a
\* successor on its way or a target that wants none makes a launch needless.
PreparePlant(c) ==
  /\ retiring = {}
  /\ inbound' = "open"
  /\ \/ At(c, "idle", "claim") /\ (respawn # None \/ Tracked = {})
        /\ UNCHANGED <<respawn, tickets>>
     \/ /\ RespawnReaped
        /\ At(c, "idle", IF ns # None /\ Tracked # {} THEN "claim" ELSE "begin")
  /\ UNCHANGED <<proc, desc, due, ns, prober, killMark, respawned, retiring, disowned, spared,
                 barrier, zombie, sweep, faults>>

\* beginProbeRefresh up to its await: open a barrier, join one whose launcher
\* still owns it, or ask about the process it waits for.
BeginProbeRefresh(c) ==
  /\ \/ /\ refresh = None
        /\ At(c, "begin", "launch") /\ OpenBarrier(c)
     \/ /\ refresh # None /\ refreshLaunch = None
        /\ At(c, "begin", "waiting") /\ Holds(c, refresh)
     \/ /\ refresh # None /\ refreshLaunch # None
        /\ At(c, "begin", "asking") /\ Holds(c, refreshLaunch)
  /\ UNCHANGED <<process, record, zombie, inbound, sweep, faults>>

\* The rest of it: the barrier is the one the entry holds when the answer
\* comes, which may be another one or none, and its launch may be alive for all
\* that the answer says.
RefreshAnswered(c) ==
  /\ \E alive \in BOOLEAN :
       /\ Running(awaits[c], alive)
       /\ \/ /\ alive
             /\ At(c, "asking", IF refresh = None THEN "threw" ELSE "waiting")
             /\ Holds(c, refresh)
          \/ /\ ~alive
             /\ At(c, "asking", "launch") /\ OpenBarrier(c)
  /\ UNCHANGED <<process, record, zombie, inbound, sweep>>

\* exec of the prober: a killed plant throws here, a refused one gives up.
PlantProber(c) ==
  /\ \/ /\ c \in zombie /\ At(c, "launch", "threw") /\ Holds(c, None)
        /\ UNCHANGED <<process, refresh, refreshLaunch, ready, inbound>>
     \/ /\ c \notin zombie /\ At(c, "launch", "waiting")
        /\ \E q \in Pids :
             /\ LaunchProber(q, [refresh |-> c, armoured |-> FALSE, ticket |-> None])
             /\ BindProberLaunch(q)
        /\ UNCHANGED <<due, tickets, inbound>>
     \/ /\ c \notin zombie /\ At(c, "launch", "done")
        /\ IF refresh = c THEN ReleaseProbeRefresh(Cancelled)
                          ELSE UNCHANGED barrier
        /\ inbound' = "none"
        /\ UNCHANGED process
  /\ UNCHANGED <<record, zombie, sweep, faults>>

\* The barrier settled: with a report the plant goes on, cancelled it closes
\* its window.
BarrierSettled(c) ==
  /\ \/ /\ awaits[c] = Report /\ At(c, "waiting", "claim")
        /\ UNCHANGED inbound
     \/ /\ awaits[c] = Cancelled /\ At(c, "waiting", "done")
        /\ inbound' = "none"
  /\ Holds(c, None)
  /\ UNCHANGED <<process, record, zombie, sweep, faults>>

\* claimPlanted and the agent's exec: nothing to run, launched, thrown by a
\* killed plant, or refused, and then the prober this plant launched is killed.
ClaimPlanted(c) ==
  /\ \/ At(c, "claim", "done") /\ inbound' = "none"
        /\ UNCHANGED <<process, record, barrier>>
     \/ c \notin zombie /\ At(c, "claim", "done") /\ inbound' = "open"
        /\ UNCHANGED <<process, record, barrier>>
     \/ c \in zombie /\ At(c, "claim", "threw") /\ inbound' = "open"
        /\ UNCHANGED <<process, record, barrier>>
     \/ /\ c \notin zombie /\ At(c, "claim", "done") /\ inbound' = "none"
        /\ \E p \in Live :
             /\ desc[p].refresh = c
             /\ Ends(p)
             /\ retiring' = IF proc[p] = "standing" THEN retiring \cup {p} ELSE retiring
  /\ UNCHANGED <<zombie, sweep, faults>>

PlantKilled(c) ==
  /\ c \notin zombie
  /\ pc[c] \notin {"idle", "done", "threw"}
  /\ Fault
  /\ zombie' = zombie \cup {c}
  /\ UNCHANGED <<process, record, barrier, pc, inbound, sweep>>

-----------------------------------------------------------------------------
Next ==
  \/ \E p \in Pids : Kill(p) \/ KillRejected(p) \/ EngineKills(p) \/ SpawnLands(p)
                     \/ ExitUnclaimed(p) \/ Lend(p)
  \/ Mutation \/ ResizeProber \/ DisplaceProber \/ RetireVantage \/ SweepAsks \/ SweepAnswered
  \/ WindowLapses \/ ReapGhostLaunches \/ ReleasePlanned \/ AgentAdopts
  \/ \E c \in Plants : PreparePlant(c) \/ BeginProbeRefresh(c) \/ RefreshAnswered(c)
                       \/ PlantProber(c) \/ BarrierSettled(c) \/ ClaimPlanted(c)
                       \/ PlantKilled(c)

Spec == Init /\ [][Next]_vars


\* The engine runs its kills and boots its processes, a derive pass ends and
\* reaps, mutations go on, and a plant goes on when its await resolves.
Fairness ==
  /\ WF_vars(Mutation) /\ WF_vars(ReleasePlanned) /\ WF_vars(WindowLapses \/ ReapGhostLaunches)
  /\ \A p \in Pids : WF_vars(Lend(p) \/ ExitUnclaimed(p) \/ Kill(p))
  /\ \A c \in Plants : WF_vars(BeginProbeRefresh(c) \/ RefreshAnswered(c) \/ PlantProber(c)
                              \/ BarrierSettled(c) \/ ClaimPlanted(c))

FairSpec == Spec /\ Fairness

-----------------------------------------------------------------------------
(* Properties.                                                             *)

\* The prober on record stands and is the one whose `ns` is lent: dispatch and
\* probes go through a process that is there (controller.ts:593-605, 2662-2698).
TrackedLends == \A p \in Tracked : ns = p /\ proc[p] = "standing"

\* A prober that lent and still stands is on record or is being killed: lends,
\* displacements, retirements and exits in any order converge to one
\* (controller.ts:2604-2607).  Two things leave a stray: the mutation sweep
\* clears the record it finds after a late or failed answer
\* (controller.ts:3003-3016), and a rejected kill counts as done
\* (controller.ts:568-577).
StraysExplained ==
  \A p \in Pids : proc[p] = "standing" =>
                     p \in Tracked \cup retiring \cup disowned \cup spared

\* The record is true, and complete but for those two.
OneProberOnRecord == TrackedLends /\ StraysExplained

\* A plant that waits for an unsettled barrier waits for the one the entry
\* holds: a barrier that is replaced or dropped settles first, or nobody could
\* ever resume those who joined it (controller.ts:249-260, 2562-2600).
WaitsOnHeldBarrier ==
  \A c \in Plants : pc[c] = "waiting" /\ awaits[c] \in Plants => refresh = awaits[c]

\* The two ways a barrier is lost: its prober died before it lent, so nobody
\* hears of its exit, or the plant that opened it died before it launched and
\* another plant closed the window that would have been reaped.
Lost(t) ==
  \/ t \notin ready /\ \E p \in Pids : desc[p].refresh = t /\ proc[p] = "dead"
  \/ pc[t] = "threw" /\ inbound = "none"

\* A waiting plant resumes, unless its barrier is lost (orders.ts:330).
BarrierSettles ==
  \A c \in Plants : pc[c] = "waiting" ~>
                      (pc[c] # "waiting" \/ (awaits[c] \in Plants /\ Lost(awaits[c])))

\* A dead process does not stay the lender: a retirement that forgot it before
\* its exit is made good by the next mutation's probe (controller.ts:1709-1722).
StaleLenderDropped ==
  (ns # None /\ proc[ns] = "dead") ~> (ns = None \/ proc[ns] = "standing")

\* A refresh ends, and so does a dead lender's term.
RefreshesSettle == BarrierSettles /\ StaleLenderDropped
=============================================================================
