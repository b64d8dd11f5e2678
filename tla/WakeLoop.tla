------------------------------ MODULE WakeLoop ------------------------------
(***************************************************************************)
(* The controller's scheduling loop and everything that may wake it.       *)
(*                                                                         *)
(* The controller alternates a pass (sweep, then each due driver, the      *)
(* hacking heartbeat among them) with a window: it sleeps until the next   *)
(* tick, and a wake that wins the race lets the hacking driver pump the    *)
(* targets that have something to do (game/lib/controller.ts).  Workers    *)
(* queue completions from atExit and signal; weaken completions signal     *)
(* through a trailing debounce (game/worker/worker.ts).  Realm timers hold *)
(* the next launch deadline of each target and the next shotgun burst      *)
(* (game/lib/features/hacking.ts).                                         *)
(*                                                                         *)
(* JavaScript interleaves only at awaits: an action of the controller is   *)
(* the code between two awaits, and the outside acts while it awaits.      *)
(* What the planner decides is left open: which targets are left with      *)
(* parked launches, which operations start, whether a burst was cut short. *)
(* Time is counted in units of the smallest throttle.  The hacking feature *)
(* is taken to be unlocked throughout.                                     *)
(***************************************************************************)
EXTENDS Integers, FiniteSets

CONSTANTS
  Ops,        \* worker operations
  Targets,    \* servers worked on
  NoTarget,   \* the "" of an untargeted completion
  Off,        \* no weaken debounce runs
  Kind,       \* Kind[o]: hack (or grow), weaken, charge, exit (of a share or pool worker)
  Target,     \* Target[o]: its target; NoTarget for a charge or an exit
  Tick,       \* TICK_MS
  Coalesce,   \* the controller's one wake pump per landing slot
  WakeMin,    \* WAKE_MIN_MS
  FrameCap,   \* WAKE_MAX_PER_FRAME
  RaceCap,    \* wakes a window races before it sleeps to its end
  Faults,     \* how many pumps may throw
  Shotgun     \* whether the farm plans shotgun bursts

ASSUME WakeAssumption ==
  /\ NoTarget \notin Targets /\ Off \notin Targets \cup {NoTarget}
  /\ Kind \in [Ops -> {"hack", "weaken", "charge", "exit"}]
  /\ Target \in [Ops -> Targets \cup {NoTarget}]
  /\ \A o \in Ops : Target[o] = NoTarget <=> Kind[o] \in {"charge", "exit"}
  /\ {Tick, Coalesce, WakeMin, FrameCap, RaceCap} \subseteq Nat \ {0}
  /\ Faults \in Nat
  /\ Shotgun \in BOOLEAN

VARIABLES
  phase,         \* where the controller is
  left,          \* nextTick - now
  sinceBeat,     \* age of featureLastRun.hacking, up to Tick
  sinceSlot,     \* age of lastWakePumpAt, up to Coalesce
  sincePump,     \* age of lastPumpAt, up to WakeMin
  races,         \* wakeRaces
  frame,         \* wakesThisFrame, up to FrameCap
  armed,         \* dispatch_wake holds a resolver
  woken,         \* the promise last armed is resolved
  pending,       \* dispatch_wake_pending
  wakeTargets,   \* dispatch_wake_targets
  weakenTimer,   \* target the weaken debounce will signal, NoTarget for none, or Off
  timers,        \* targets with an entry in dispatch_jit_timers
  shotTimer,     \* target of the armed shotgun timer, or NoTarget
  shotTarget,    \* shotgunPumpTarget
  charging,      \* charge_context_pending
  op,            \* op[o]: idle, running, or how its completion is queued
  planned,       \* targets with launches parked for a deadline
  todo,          \* targets the wake pass has still to visit
  cur,           \* the target being pumped
  burst,         \* the target whose shotgun timer this wake pass consumed
  broken,        \* a pump threw since the last full heartbeat
  throws         \* pumps that may still throw

controller == <<races, frame, sinceBeat, sinceSlot, sincePump>>
rendezvous == <<armed, woken, pending>>
shot == <<shotTimer, shotTarget>>
plan == <<planned, timers>>
wakePass == <<todo, cur, burst>>
fault == <<broken, throws>>
loopVars == <<phase, left, controller, rendezvous, wakeTargets, weakenTimer, shot,
              charging, op, plan, wakePass, fault>>

\* A completion is early when it was queued before the window was armed,
\* fresh when queued since, and seen once a wake was taken after it.
Queued == {"early", "fresh", "seen"}
QueuedOps == {o \in Ops : op[o] \in Queued}
InWindow == phase \in {"loop", "race", "storm", "each", "wview", "wlaunch"}

LoopInit ==
  /\ phase = "sweep" /\ left = 0 /\ races = 0 /\ frame = 0
  /\ sinceBeat = Tick /\ sinceSlot = Coalesce /\ sincePump = WakeMin
  /\ armed = FALSE /\ woken = FALSE /\ pending = FALSE
  /\ wakeTargets = {} /\ weakenTimer = Off
  /\ shotTimer = NoTarget /\ shotTarget = NoTarget
  /\ charging = FALSE
  /\ op = [o \in Ops |-> "idle"]
  /\ planned = {} /\ timers = {}
  /\ todo = {} /\ cur = NoTarget /\ burst = NoTarget
  /\ broken = FALSE /\ throws = Faults

-----------------------------------------------------------------------------
(* The rendezvous: signalWake and armWake of game/lib/wake.ts.             *)

\* A resolver in place is called and removed, be it of a promise the loop
\* still races or of one it left behind; without one the wake is latched.
Signal(ts) ==
  /\ wakeTargets' = wakeTargets \cup ts
  /\ armed' = FALSE
  /\ IF armed THEN woken' = TRUE /\ UNCHANGED pending
              ELSE pending' = TRUE /\ UNCHANGED woken

\* Mutant: a promise is armed only when a wake was latched.
ArmLate ==
  /\ woken' = pending
  /\ pending' = FALSE
  /\ UNCHANGED armed

\* A latched wake resolves the new promise at once.
ArmWake ==
  /\ woken' = pending
  /\ armed' = (armed \/ ~pending)
  /\ pending' = FALSE

-----------------------------------------------------------------------------
(* What happens while the controller awaits.                               *)

LoopAwaits == phase \notin {"loop", "each"} /\ ~(phase = "race" /\ woken)

\* A worker's atExit queues its completion and signals; what a weaken
\* worker reports, the exit of a pooled one too, restarts the debounce instead.
\* A charge that was not killed flags the held player.
Complete(o) ==
  /\ LoopAwaits /\ op[o] = "running"
  /\ op' = [op EXCEPT ![o] = IF InWindow THEN "fresh" ELSE "early"]
  /\ IF Kind[o] = "charge" THEN charging' \in {charging, TRUE}
                           ELSE UNCHANGED charging
  /\ \/ Kind[o] \in {"weaken", "exit"}
        /\ weakenTimer' = Target[o] /\ UNCHANGED <<wakeTargets, rendezvous>>
     \/ Kind[o] # "weaken"
        /\ Signal({Target[o]} \ {NoTarget}) /\ UNCHANGED weakenTimer
  /\ UNCHANGED <<phase, left, controller, shot, plan, wakePass, fault>>

FireWeaken ==
  /\ LoopAwaits /\ weakenTimer # Off
  /\ weakenTimer' = Off
  /\ Signal({weakenTimer} \ {NoTarget})
  /\ UNCHANGED <<phase, left, controller, shot, charging, op, plan, wakePass, fault>>

\* The timer scheduleJitWake armed for t.
FireDeadline(t) ==
  /\ LoopAwaits /\ t \in timers
  /\ timers' = timers \ {t}
  /\ Signal({t})
  /\ UNCHANGED <<phase, left, controller, weakenTimer, shot, charging, op, planned,
                 wakePass, fault>>

\* The timer scheduleShotgunPump armed; its wake names no target.
FireShotgun ==
  /\ LoopAwaits /\ shotTimer # NoTarget
  /\ shotTimer' = NoTarget /\ shotTarget' = shotTimer
  /\ Signal({})
  /\ UNCHANGED <<phase, left, controller, weakenTimer, charging, op, plan, wakePass,
                 fault>>

Older(age, top) == IF age < top THEN age + 1 ELSE top
Latest == -(2 * Tick + 1)    \* later than this, lateness changes nothing

Elapse ==
  /\ LoopAwaits
  /\ left' = IF left > Latest THEN left - 1 ELSE Latest
  /\ sinceBeat' = Older(sinceBeat, Tick)
  /\ sinceSlot' = Older(sinceSlot, Coalesce)
  /\ sincePump' = Older(sincePump, WakeMin)
  /\ UNCHANGED <<phase, races, frame, rendezvous, wakeTargets, weakenTimer, shot,
                 charging, op, plan, wakePass, fault>>

-----------------------------------------------------------------------------
(* The pump: drain, plan and launch, then arm what the plan asks for.      *)

\* Mutant: a pump without a target drains the untargeted only.
DrainedOwn(t) == {o \in QueuedOps : Target[o] \in {t, NoTarget}}

\* drainCompletions: without a target everything, with one also the
\* untargeted.
Drained(t) ==
  {o \in QueuedOps : t = NoTarget \/ Target[o] \in {t, NoTarget}}

\* Completions d leave the queue and the planner starts some operations.
PlanAndLaunch(d, startable) ==
  \E l \in SUBSET {o \in startable : op[o] = "idle" \/ o \in d} :
    op' = [o \in Ops |-> IF o \in l THEN "running"
                         ELSE IF o \in d THEN "idle" ELSE op[o]]

\* Mutant: the fired burst is kept when the next one is scheduled.
ScheduleAnother ==
  /\ UNCHANGED shotTarget
  /\ shotTimer' \in {NoTarget} \cup (IF Shotgun THEN Targets ELSE {})

\* A burst that hit its cap asks for the next one, of its farm target.
ScheduleShotgun ==
  /\ shotTarget' = NoTarget
  /\ shotTimer' \in {NoTarget} \cup (IF Shotgun THEN Targets ELSE {})

PumpEnds == sincePump' = 0

-----------------------------------------------------------------------------
(* The pass.                                                               *)

\* The hacking driver runs when TICK_MS passed since its last run, and asks
\* for the player first when a charge completed.
Sweep ==
  /\ phase = "sweep"
  /\ IF sinceBeat < Tick
       THEN phase' = "tail" /\ UNCHANGED <<sinceBeat, frame>>
       ELSE /\ sinceBeat' = 0
            /\ IF charging THEN phase' = "player" /\ UNCHANGED frame
                           ELSE phase' = "read" /\ frame' = 0
  /\ UNCHANGED <<left, races, sinceSlot, sincePump, rendezvous, wakeTargets,
                 weakenTimer, shot, charging, op, plan, wakePass, fault>>

RefreshPlayer ==
  /\ phase = "player" /\ phase' = "read"
  /\ charging' = FALSE /\ frame' = 0
  /\ UNCHANGED <<left, races, sinceBeat, sinceSlot, sincePump, rendezvous,
                 wakeTargets, weakenTimer, shot, op, plan, wakePass, fault>>

\* The live reads are in.
BeatPlan ==
  /\ phase = "read" /\ phase' = "launch"
  /\ wakeTargets' = {}
  /\ planned' \in SUBSET Targets
  /\ PlanAndLaunch(Drained(NoTarget), Ops)
  /\ UNCHANGED <<left, controller, rendezvous, weakenTimer, shot, charging,
                 timers, wakePass, fault>>

\* Mutant: the heartbeat clears the timers nobody wants and arms no new one.
BeatFinishClears ==
  /\ phase = "launch" /\ phase' = "tail"
  /\ ScheduleShotgun
  /\ timers' = timers \cap planned
  /\ broken' = FALSE
  /\ PumpEnds
  /\ UNCHANGED <<left, races, frame, sinceBeat, sinceSlot, rendezvous,
                 wakeTargets, weakenTimer, charging, op, planned, wakePass,
                 throws>>

\* Timers of targets with nothing parked are cleared, the others kept or set.
BeatFinish ==
  /\ phase = "launch" /\ phase' = "tail"
  /\ ScheduleShotgun
  /\ timers' = planned
  /\ broken' = FALSE
  /\ PumpEnds
  /\ UNCHANGED <<left, races, frame, sinceBeat, sinceSlot, rendezvous,
                 wakeTargets, weakenTimer, charging, op, planned, wakePass,
                 throws>>

Throw ==
  /\ throws > 0 /\ throws' = throws - 1
  /\ broken' = TRUE

\* The controller contains a driver that throws.
BeatThrows ==
  /\ phase \in {"player", "read", "launch"} /\ phase' = "tail"
  /\ Throw
  /\ UNCHANGED <<left, controller, rendezvous, wakeTargets, weakenTimer, shot,
                 charging, op, plan, wakePass>>

\* The next deadline is absolute; a pass more than a tick late restarts it.
ArmWindow ==
  /\ phase = "tail" /\ phase' = "loop"
  /\ left' = IF left < -(2 * Tick) THEN 0 ELSE left + Tick
  /\ ArmWake
  /\ races' = 0 /\ sinceSlot' = Coalesce
  /\ op' = [o \in Ops |-> IF op[o] \in Queued THEN "early" ELSE op[o]]
  /\ UNCHANGED <<frame, sinceBeat, sincePump, wakeTargets, weakenTimer, shot,
                 charging, plan, wakePass, fault>>

-----------------------------------------------------------------------------
(* The window.                                                             *)

\* Mutant: the storm cap is dropped.
LoopUncapped ==
  /\ phase = "loop"
  /\ phase' = IF left <= 0 THEN "sweep" ELSE "race"
  /\ UNCHANGED <<left, controller, rendezvous, wakeTargets, weakenTimer, shot,
                 charging, op, plan, wakePass, fault>>

\* Past the cap the rest of the window is slept without racing the wake.
Window ==
  /\ phase = "loop"
  /\ phase' = IF left <= 0 THEN "sweep"
           ELSE IF races >= RaceCap THEN "storm" ELSE "race"
  /\ UNCHANGED <<left, controller, rendezvous, wakeTargets, weakenTimer, shot,
                 charging, op, plan, wakePass, fault>>

WindowEnds ==
  /\ phase = "storm" \/ (phase = "race" /\ ~woken)
  /\ left <= 0
  /\ phase' = "sweep"
  /\ UNCHANGED <<left, controller, rendezvous, wakeTargets, weakenTimer, shot,
                 charging, op, plan, wakePass, fault>>

\* The promise resolved: it is armed anew before anything else.  Within a slot
\* only one wake pumps, and none while a charge waits for its heartbeat.  The
\* pump first settles share workers the arena stopped, then takes the targets
\* with a signal, a completion or a burst to continue.
Wake ==
  /\ phase = "race" /\ woken
  /\ races' = races + 1
  /\ ArmWake
  /\ \E settled \in SUBSET {o \in QueuedOps : Kind[o] = "exit"} :
       /\ sinceSlot < Coalesce => settled = {}
       /\ op' = [o \in Ops |-> IF o \in settled THEN "idle"
                               ELSE IF op[o] \in Queued THEN "seen" ELSE op[o]]
  /\ sinceSlot' = IF sinceSlot < Coalesce THEN sinceSlot ELSE 0
  /\ IF sinceSlot < Coalesce \/ charging
       THEN phase' = "loop" /\ UNCHANGED <<shotTarget, todo, burst>>
       ELSE /\ phase' = "each"
            /\ todo' = (wakeTargets \cup {shotTarget}
                        \cup {Target[o] : o \in QueuedOps}) \ {NoTarget}
            /\ burst' = shotTarget /\ shotTarget' = NoTarget
  /\ UNCHANGED <<left, frame, sinceBeat, sincePump, wakeTargets, weakenTimer,
                 shotTimer, charging, plan, cur, fault>>

WakePassEnds ==
  /\ phase = "each" /\ todo = {} /\ phase' = "loop"
  /\ cur' = NoTarget /\ burst' = NoTarget
  /\ UNCHANGED <<left, controller, rendezvous, wakeTargets, weakenTimer, shot,
                 charging, op, plan, todo, fault>>

\* Completions other than a weaken's are throttled; a target without any is
\* taken for a deadline.
Throttled(t) ==
  /\ t # burst
  /\ \E o \in QueuedOps : Target[o] = t
  /\ ~ \E o \in QueuedOps : Target[o] = t /\ Kind[o] = "weaken"
  /\ sincePump < WakeMin \/ frame >= FrameCap

Skip(t) ==
  /\ phase = "each" /\ t \in todo /\ Throttled(t)
  /\ todo' = todo \ {t}
  /\ UNCHANGED <<phase, left, controller, rendezvous, wakeTargets, weakenTimer, shot,
                 charging, op, plan, cur, burst, fault>>

Serve(t) ==
  /\ phase = "each" /\ t \in todo /\ ~Throttled(t)
  /\ phase' = "wview"
  /\ todo' = todo \ {t} /\ cur' = t
  /\ wakeTargets' = wakeTargets \ {t}
  /\ frame' = Older(frame, FrameCap)
  /\ UNCHANGED <<left, races, sinceBeat, sinceSlot, sincePump, rendezvous,
                 weakenTimer, shot, charging, op, plan, burst, fault>>

\* A target wake plans and launches for its target alone; a shotgun pass runs
\* the farm and prep planning of a heartbeat, up to the share decision.
WakePlan ==
  /\ phase = "wview" /\ phase' = "wlaunch"
  /\ IF cur = burst
       THEN /\ planned' \in SUBSET Targets
            /\ PlanAndLaunch(Drained(cur), {o \in Ops : Kind[o] # "charge"})
       ELSE /\ planned' \in {planned \ {cur}, planned \cup {cur}}
            /\ PlanAndLaunch(Drained(cur),
                 {o \in Ops : Target[o] = cur \/ Kind[o] = "exit"})
  /\ UNCHANGED <<left, controller, rendezvous, wakeTargets, weakenTimer, shot,
                 charging, timers, wakePass, fault>>

\* Mutant: a target wake rearms as the heartbeat does.
RearmWanted ==
  IF cur = burst
    THEN timers' = {} /\ ScheduleShotgun
    ELSE timers' = {cur} \cap planned /\ UNCHANGED shot

\* A target wake arms or clears the timer of its own target.  A shotgun pass
\* came back with its burst as the only wake to schedule, and every deadline
\* timer is cleared as no longer wanted.
Rearm ==
  IF cur = burst
    THEN timers' = {} /\ ScheduleShotgun
    ELSE timers' = (timers \ {cur}) \cup ({cur} \cap planned) /\ UNCHANGED shot

WakeFinish ==
  /\ phase = "wlaunch" /\ phase' = "each"
  /\ Rearm
  /\ cur' = NoTarget
  /\ PumpEnds
  /\ UNCHANGED <<left, races, frame, sinceBeat, sinceSlot, rendezvous,
                 wakeTargets, weakenTimer, charging, op, planned, todo,
                 burst, fault>>

\* The rest of the wake pass is given up.
WakeThrows ==
  /\ phase \in {"wview", "wlaunch"} /\ phase' = "loop"
  /\ Throw
  /\ todo' = {} /\ cur' = NoTarget /\ burst' = NoTarget
  /\ UNCHANGED <<left, controller, rendezvous, wakeTargets, weakenTimer, shot,
                 charging, op, plan>>

-----------------------------------------------------------------------------
Controller ==
  \/ Sweep \/ RefreshPlayer \/ BeatPlan \/ BeatFinish \/ BeatThrows \/ ArmWindow
  \/ Window \/ WindowEnds \/ Wake \/ WakePassEnds
  \/ \E t \in Targets : Skip(t) \/ Serve(t)
  \/ WakePlan \/ WakeFinish \/ WakeThrows

LoopNext ==
  \/ Controller
  \/ \E o \in Ops : Complete(o)
  \/ \E t \in Targets : FireDeadline(t)
  \/ FireWeaken \/ FireShotgun \/ Elapse

LoopSpec == LoopInit /\ [][LoopNext]_loopVars

\* What the controller awaits settles, and the clock runs while it waits.
LoopFairness == WF_loopVars(Controller) /\ WF_loopVars(Elapse)

LoopFairSpec == LoopSpec /\ LoopFairness

-----------------------------------------------------------------------------
(* Properties.                                                             *)

FlagsOK ==
  /\ armed \in BOOLEAN /\ woken \in BOOLEAN /\ pending \in BOOLEAN
  /\ charging \in BOOLEAN /\ broken \in BOOLEAN

StateOK ==
  /\ phase \in {"sweep", "player", "read", "launch", "tail", "loop", "race",
             "storm", "each", "wview", "wlaunch"}
  /\ left \in Latest .. Tick
  /\ sinceBeat \in 0 .. Tick /\ sinceSlot \in 0 .. Coalesce
  /\ sincePump \in 0 .. WakeMin
  /\ races \in 0 .. RaceCap /\ frame \in 0 .. FrameCap
  /\ wakeTargets \subseteq Targets /\ todo \subseteq Targets
  /\ timers \subseteq Targets /\ planned \subseteq Targets
  /\ weakenTimer \in Targets \cup {NoTarget, Off}
  /\ shotTimer \in Targets \cup {NoTarget} /\ shotTarget \in Targets \cup {NoTarget}
  /\ cur \in Targets \cup {NoTarget} /\ burst \in Targets \cup {NoTarget}
  /\ op \in [Ops -> {"idle", "running"} \cup Queued]
  /\ throws \in 0 .. Faults

\* The loop's state keeps its shape; no window races more wakes than the cap,
\* so a pump whose own workers wake it again cannot hold the loop.
LoopTypeOK == FlagsOK /\ StateOK

\* While the loop sleeps in a race with no wake to take, every completion
\* queued since the window was armed, during the pumps of the window too, has
\* been given a wake, or the weaken debounce is still to give it one: arming
\* again before each pump loses none.
Unheard(queued) == {o \in Ops : op[o] \in queued}
WindowWakesHeard ==
  phase = "race" /\ ~woken /\ weakenTimer = Off => Unheard({"fresh"}) = {}

\* A target with launches parked is not forgotten: it has its timer, or a place
\* among the signalled targets, which it keeps until a pass takes it, or a pass
\* is at work that re-arms it; whatever other targets the passes in between
\* re-arm or clear.  It is no promise of a wake: one that is coalesced leaves the
\* target signalled with nothing to wake the loop (DeadlinesServed says what
\* becomes of it).  A pump that threw, until a heartbeat completes, and shotgun
\* bursts excepted.
DeadlineOwned ==
  \A t \in planned \ (timers \cup wakeTargets) :
    \/ phase = "launch"
    \/ phase \in {"wview", "wlaunch"} /\ cur = t
    \/ broken \/ Shotgun

\* A shotgun continuation is either a timer still to fire or a fired one still
\* to serve, never both: after the planner rescheduled, the burst it replaced
\* cannot be launched by the next completion.
OneContinuation == shotTarget # NoTarget => shotTimer = NoTarget

\* No completion stays queued for good: each is absorbed in the end, even when
\* the loop is kept busy by wakes, some of its completions are throttled, passes
\* are late and pumps throw now and then.
CompletionsAbsorbed ==
  \A o \in Ops : []<>(op[o] \notin Queued)

\* A target never stays parked without a timer for good: when it fired and its
\* wake was passed over, a burst's pass cleared it or a pump threw, it is armed
\* anew or left with nothing parked in the end.
DeadlinesServed ==
  \A t \in Targets : []<>(t \notin planned \ timers)

\* What a pass leaves behind, completions and deadlines, another takes up.
LeftoversServed == CompletionsAbsorbed /\ DeadlinesServed

\* "Signal a controller wake without losing it when the controller is inside
\* another feature tick": while the loop sleeps in a race no completion waits
\* that was queued, between windows or inside one, without a wake.
NoLostWake ==
  phase = "race" /\ ~woken /\ weakenTimer = Off
    => Unheard({"early", "fresh"}) = {}

=============================================================================
