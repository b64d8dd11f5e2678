-------------------------- MODULE ControllerProofs --------------------------
(***************************************************************************)
(* Proofs about the two halves of the controller's loop: how it sleeps and *)
(* wakes (WakeLoop), for any operations, targets, throttles and caps, and  *)
(* whose work its drivers leave in the player's slot (WorkSlot), for any   *)
(* works, bounds and number of failures.                                   *)
(*                                                                         *)
(* A window loses no wake: inside a window there is always a resolver in   *)
(* place or a resolved promise (Rendezvous), because a wake that is taken  *)
(* arms before anything else happens; so a signal of the window ends in a  *)
(* resolved promise (Heard).                                               *)
(*                                                                         *)
(* A watched promise is the slot's own (WatchesTheSlot), so the end of the *)
(* slot's unit always leaves a notice if anything is watched, and none if  *)
(* nothing is.  Known progress work is watched or noticed except between a *)
(* disarm and the next look (SeenIsWatched), where nothing is watched      *)
(* (DisarmedBeforeActing); a driver's notice stays in hand while it acts   *)
(* (NoticeInHand); and the arbiter leaves a locked unit to career or to a  *)
(* mandatory claim (LockHolds).                                            *)
(***************************************************************************)
EXTENDS WakeLoop, WorkSlot, TLAPS

-----------------------------------------------------------------------------
(* The loop: how it sleeps and wakes.                                      *)

Paced ==
  /\ phase = "race" => races < RaceCap
  /\ phase \in {"sweep", "player", "read", "launch", "tail"} => left <= 0
  /\ phase \in {"wview", "wlaunch"} => cur \in Targets

Rendezvous == InWindow => armed \/ woken

Heard == InWindow /\ weakenTimer = Off /\ Unheard({"fresh"}) # {} => woken

Inv == FlagsOK /\ StateOK /\ Paced /\ Rendezvous /\ Heard

\* Without shotgun bursts no burst is ever scheduled or served.
NoBurst ==
  ~Shotgun => shotTimer = NoTarget /\ shotTarget = NoTarget /\ burst = NoTarget

-----------------------------------------------------------------------------
LEMMA Aging ==
  ASSUME NEW top \in Nat, NEW age \in 0 .. top
  PROVE  Older(age, top) \in 0 .. top
  BY DEF Older

LEMMA LoopTypeInit == LoopInit => LoopTypeOK
<1> SUFFICES ASSUME LoopInit PROVE LoopTypeOK
  OBVIOUS
<1>1. FlagsOK
  BY DEF LoopInit, FlagsOK
<1>2. StateOK
  BY WakeAssumption DEF WakeAssumption, LoopInit, StateOK, Latest, Queued
<1> QED
  BY <1>1, <1>2 DEF LoopTypeOK

LEMMA FlagsStep == FlagsOK /\ [LoopNext]_loopVars => FlagsOK'
<1> SUFFICES ASSUME FlagsOK, [LoopNext]_loopVars PROVE FlagsOK'
  OBVIOUS
<1> USE DEF FlagsOK, rendezvous, fault
<1>1. ASSUME NEW o \in Ops, Complete(o) PROVE FlagsOK'
  BY <1>1, Zenon DEF Complete, Signal
<1>2. CASE FireWeaken
  BY <1>2, Zenon DEF FireWeaken, Signal
<1>3. ASSUME NEW t \in Targets, FireDeadline(t) PROVE FlagsOK'
  BY <1>3, Zenon DEF FireDeadline, Signal
<1>4. CASE FireShotgun
  BY <1>4, Zenon DEF FireShotgun, Signal
<1>5. CASE Elapse
  BY <1>5, Zenon DEF Elapse
<1>6. CASE Sweep
  BY <1>6, Zenon DEF Sweep
<1>7. CASE RefreshPlayer
  BY <1>7, Zenon DEF RefreshPlayer
<1>8. CASE BeatPlan
  BY <1>8, Zenon DEF BeatPlan, PlanAndLaunch
<1>9. CASE BeatFinish
  BY <1>9, Zenon DEF BeatFinish, ScheduleShotgun, PumpEnds
<1>10. CASE BeatThrows
  BY <1>10, Zenon DEF BeatThrows, Throw
<1>11. CASE ArmWindow
  BY <1>11, Zenon DEF ArmWindow, ArmWake
<1>12. CASE Window
  BY <1>12, Zenon DEF Window
<1>13. CASE WindowEnds
  BY <1>13, Zenon DEF WindowEnds
<1>14. CASE Wake
  BY <1>14, Zenon DEF Wake, ArmWake, QueuedOps
<1>15. CASE WakePassEnds
  BY <1>15, Zenon DEF WakePassEnds
<1>16. ASSUME NEW t \in Targets, Skip(t) PROVE FlagsOK'
  BY <1>16, Zenon DEF Skip
<1>17. ASSUME NEW t \in Targets, Serve(t) PROVE FlagsOK'
  BY <1>17, Zenon DEF Serve
<1>18. CASE WakePlan
  BY <1>18, Zenon DEF WakePlan, PlanAndLaunch
<1>19. CASE WakeFinish
  BY <1>19, Zenon DEF WakeFinish, Rearm, ScheduleShotgun, PumpEnds
<1>20. CASE WakeThrows
  BY <1>20, Zenon DEF WakeThrows, Throw
<1>21. CASE UNCHANGED loopVars
  BY <1>21, Zenon DEF loopVars
<1> QED
  BY <1>1, <1>2, <1>3, <1>4, <1>5, <1>6, <1>7, <1>8, <1>9, <1>10, <1>11, <1>12,
     <1>13, <1>14, <1>15, <1>16, <1>17, <1>18, <1>19, <1>20, <1>21
     DEF LoopNext, Controller

LEMMA StateStep == StateOK /\ Paced /\ [LoopNext]_loopVars => StateOK'
<1> SUFFICES ASSUME StateOK, Paced, [LoopNext]_loopVars PROVE StateOK'
  OBVIOUS
<1>0. /\ Tick \in Nat \ {0} /\ Coalesce \in Nat \ {0} /\ WakeMin \in Nat \ {0}
      /\ FrameCap \in Nat \ {0} /\ RaceCap \in Nat \ {0} /\ Faults \in Nat
      /\ NoTarget \notin Targets
  BY WakeAssumption DEF WakeAssumption
<1> USE <1>0 DEF StateOK, Paced, Latest, Queued,
        controller, shot, plan, wakePass, fault
<1>1. ASSUME NEW o \in Ops, Complete(o) PROVE StateOK'
  BY <1>1, WakeAssumption DEF Complete, Signal
<1>2. CASE FireWeaken
  BY <1>2 DEF FireWeaken, Signal
<1>3. ASSUME NEW t \in Targets, FireDeadline(t) PROVE StateOK'
  BY <1>3 DEF FireDeadline, Signal
<1>4. CASE FireShotgun
  BY <1>4 DEF FireShotgun, Signal
<1>5. CASE Elapse
  BY <1>5, Aging DEF Elapse
<1>6. CASE Sweep
  BY <1>6 DEF Sweep
<1>7. CASE RefreshPlayer
  BY <1>7 DEF RefreshPlayer
<1>8. CASE BeatPlan
  BY <1>8 DEF BeatPlan, PlanAndLaunch
<1>9. CASE BeatFinish
  BY <1>9 DEF BeatFinish, ScheduleShotgun, PumpEnds
<1>10. CASE BeatThrows
  BY <1>10 DEF BeatThrows, Throw
<1>11. CASE ArmWindow
  <2>1. left' \in Latest .. Tick
    <3>1. left' = IF left < -(2 * Tick) THEN 0 ELSE left + Tick
      BY <1>11 DEF ArmWindow
    <3>2. left \in Int /\ left <= 0
      BY <1>11 DEF ArmWindow
    <3> QED
      BY <3>1, <3>2
  <2>2. op' \in [Ops -> {"idle", "running"} \cup Queued]
    BY <1>11 DEF ArmWindow
  <2> QED
    BY <1>11, <2>1, <2>2 DEF ArmWindow
<1>12. CASE Window
  BY <1>12 DEF Window
<1>13. CASE WindowEnds
  BY <1>13 DEF WindowEnds
<1>14. CASE Wake
  BY <1>14, WakeAssumption DEF Wake, ArmWake, QueuedOps
<1>15. CASE WakePassEnds
  BY <1>15 DEF WakePassEnds
<1>16. ASSUME NEW t \in Targets, Skip(t) PROVE StateOK'
  BY <1>16 DEF Skip
<1>17. ASSUME NEW t \in Targets, Serve(t) PROVE StateOK'
  BY <1>17, Aging DEF Serve
<1>18. CASE WakePlan
  <2>1. op' \in [Ops -> {"idle", "running"} \cup Queued]
    BY <1>18 DEF WakePlan, PlanAndLaunch
  <2>2. planned' \subseteq Targets
    BY <1>18 DEF WakePlan
  <2> QED
    BY <1>18, <2>1, <2>2 DEF WakePlan
<1>19. CASE WakeFinish
  BY <1>19 DEF WakeFinish, Rearm, ScheduleShotgun, PumpEnds
<1>20. CASE WakeThrows
  BY <1>20 DEF WakeThrows, Throw
<1>21. CASE UNCHANGED loopVars
  BY <1>21 DEF loopVars
<1> QED
  BY <1>1, <1>2, <1>3, <1>4, <1>5, <1>6, <1>7, <1>8, <1>9, <1>10, <1>11, <1>12,
     <1>13, <1>14, <1>15, <1>16, <1>17, <1>18, <1>19, <1>20, <1>21
     DEF LoopNext, Controller
LEMMA PacedStep == StateOK /\ Paced /\ [LoopNext]_loopVars => Paced'
<1> SUFFICES ASSUME StateOK, Paced, [LoopNext]_loopVars PROVE Paced'
  OBVIOUS
<1> USE WakeAssumption DEF WakeAssumption, StateOK, Paced, LoopAwaits, Latest,
        controller, wakePass
<1>1. ASSUME NEW o \in Ops, Complete(o) PROVE Paced'
  BY <1>1 DEF Complete
<1>2. CASE FireWeaken
  BY <1>2 DEF FireWeaken
<1>3. ASSUME NEW t \in Targets, FireDeadline(t) PROVE Paced'
  BY <1>3 DEF FireDeadline
<1>4. CASE FireShotgun
  BY <1>4 DEF FireShotgun
<1>5. CASE Elapse
  BY <1>5 DEF Elapse
<1>6. CASE Sweep
  BY <1>6 DEF Sweep
<1>7. CASE RefreshPlayer
  BY <1>7 DEF RefreshPlayer
<1>8. CASE BeatPlan
  BY <1>8 DEF BeatPlan
<1>9. CASE BeatFinish
  BY <1>9 DEF BeatFinish
<1>10. CASE BeatThrows
  BY <1>10 DEF BeatThrows
<1>11. CASE ArmWindow
  BY <1>11 DEF ArmWindow
<1>12. CASE Window
  BY <1>12 DEF Window
<1>13. CASE WindowEnds
  BY <1>13 DEF WindowEnds
<1>14. CASE Wake
  BY <1>14 DEF Wake
<1>15. CASE WakePassEnds
  BY <1>15 DEF WakePassEnds
<1>16. ASSUME NEW t \in Targets, Skip(t) PROVE Paced'
  BY <1>16 DEF Skip
<1>17. ASSUME NEW t \in Targets, Serve(t) PROVE Paced'
  BY <1>17 DEF Serve
<1>18. CASE WakePlan
  BY <1>18 DEF WakePlan
<1>19. CASE WakeFinish
  BY <1>19 DEF WakeFinish
<1>20. CASE WakeThrows
  BY <1>20 DEF WakeThrows
<1>21. CASE UNCHANGED loopVars
  BY <1>21 DEF loopVars
<1> QED
  BY <1>1, <1>2, <1>3, <1>4, <1>5, <1>6, <1>7, <1>8, <1>9, <1>10, <1>11, <1>12,
     <1>13, <1>14, <1>15, <1>16, <1>17, <1>18, <1>19, <1>20, <1>21
     DEF LoopNext, Controller

\* A signal inside the window resolves the promise.
LEMMA SignalResolves ==
  ASSUME FlagsOK, Rendezvous, InWindow, NEW ts, Signal(ts) PROVE woken'
  BY Zenon DEF FlagsOK, Rendezvous, Signal

LEMMA HeardStep ==
  Inv /\ [LoopNext]_loopVars => Rendezvous' /\ Heard'
<1> SUFFICES ASSUME FlagsOK, StateOK, Rendezvous, Heard, [LoopNext]_loopVars
             PROVE  (Rendezvous /\ Heard)'
  BY DEF Inv
<1> USE DEF FlagsOK, StateOK, Rendezvous, Heard, InWindow, Unheard, LoopAwaits,
        Queued, rendezvous
<1>1. ASSUME NEW o \in Ops, Complete(o) PROVE (Rendezvous /\ Heard)'
  <2>1. CASE weakenTimer' = Target[o] /\ UNCHANGED <<wakeTargets, rendezvous>>
    <3>1. weakenTimer' # Off
      BY <2>1, WakeAssumption DEF WakeAssumption
    <3> QED
      BY <1>1, <2>1, <3>1 DEF Complete
  <2>2. CASE Signal({Target[o]} \ {NoTarget}) /\ UNCHANGED weakenTimer
    BY <1>1, <2>2, SignalResolves DEF Complete
  <2> QED
    BY <1>1, <2>1, <2>2 DEF Complete
<1>2. CASE FireWeaken
  BY <1>2, SignalResolves DEF FireWeaken, Signal
<1>3. ASSUME NEW t \in Targets, FireDeadline(t) PROVE (Rendezvous /\ Heard)'
  BY <1>3, SignalResolves DEF FireDeadline, Signal
<1>4. CASE FireShotgun
  BY <1>4, SignalResolves DEF FireShotgun, Signal
<1>5. CASE Elapse
  BY <1>5 DEF Elapse
<1>6. CASE Sweep
  BY <1>6 DEF Sweep
<1>7. CASE RefreshPlayer
  BY <1>7 DEF RefreshPlayer
<1>8. CASE BeatPlan
  BY <1>8 DEF BeatPlan, PlanAndLaunch
<1>9. CASE BeatFinish
  BY <1>9 DEF BeatFinish
<1>10. CASE BeatThrows
  BY <1>10 DEF BeatThrows
<1>11. CASE ArmWindow
  BY <1>11 DEF ArmWindow, ArmWake
<1>12. CASE Window
  BY <1>12 DEF Window
<1>13. CASE WindowEnds
  BY <1>13 DEF WindowEnds
<1>14. CASE Wake
  BY <1>14 DEF Wake, ArmWake, QueuedOps
<1>15. CASE WakePassEnds
  BY <1>15 DEF WakePassEnds
<1>16. ASSUME NEW t \in Targets, Skip(t) PROVE (Rendezvous /\ Heard)'
  BY <1>16 DEF Skip
<1>17. ASSUME NEW t \in Targets, Serve(t) PROVE (Rendezvous /\ Heard)'
  BY <1>17 DEF Serve
<1>18. CASE WakePlan
  BY <1>18 DEF WakePlan, PlanAndLaunch
<1>19. CASE WakeFinish
  BY <1>19 DEF WakeFinish
<1>20. CASE WakeThrows
  BY <1>20 DEF WakeThrows
<1>21. CASE UNCHANGED loopVars
  BY <1>21 DEF loopVars
<1> QED
  BY <1>1, <1>2, <1>3, <1>4, <1>5, <1>6, <1>7, <1>8, <1>9, <1>10, <1>11, <1>12,
     <1>13, <1>14, <1>15, <1>16, <1>17, <1>18, <1>19, <1>20, <1>21
     DEF LoopNext, Controller

-----------------------------------------------------------------------------
(* Who owns a deadline, and a shotgun continuation.                        *)

LEMMA ContinuationStep ==
  NoBurst /\ OneContinuation /\ [LoopNext]_loopVars => NoBurst' /\ OneContinuation'
<1> SUFFICES ASSUME NoBurst, OneContinuation, [LoopNext]_loopVars
             PROVE  (NoBurst /\ OneContinuation)'
  OBVIOUS
<1> USE DEF NoBurst, OneContinuation, shot, wakePass
<1>1. ASSUME NEW o \in Ops, Complete(o) PROVE (NoBurst /\ OneContinuation)'
  BY <1>1 DEF Complete, Signal
<1>2. CASE FireWeaken
  BY <1>2 DEF FireWeaken, Signal
<1>3. ASSUME NEW t \in Targets, FireDeadline(t) PROVE (NoBurst /\ OneContinuation)'
  BY <1>3 DEF FireDeadline, Signal
<1>4. CASE FireShotgun
  BY <1>4 DEF FireShotgun, Signal
<1>5. CASE Elapse
  BY <1>5 DEF Elapse
<1>6. CASE Sweep
  BY <1>6 DEF Sweep
<1>7. CASE RefreshPlayer
  BY <1>7 DEF RefreshPlayer
<1>8. CASE BeatPlan
  BY <1>8 DEF BeatPlan
<1>9. CASE BeatFinish
  BY <1>9 DEF BeatFinish, ScheduleShotgun
<1>10. CASE BeatThrows
  BY <1>10 DEF BeatThrows, Throw
<1>11. CASE ArmWindow
  BY <1>11 DEF ArmWindow
<1>12. CASE Window
  BY <1>12 DEF Window
<1>13. CASE WindowEnds
  BY <1>13 DEF WindowEnds
<1>14. CASE Wake
  BY <1>14 DEF Wake
<1>15. CASE WakePassEnds
  BY <1>15 DEF WakePassEnds
<1>16. ASSUME NEW t \in Targets, Skip(t) PROVE (NoBurst /\ OneContinuation)'
  BY <1>16 DEF Skip
<1>17. ASSUME NEW t \in Targets, Serve(t) PROVE (NoBurst /\ OneContinuation)'
  BY <1>17 DEF Serve
<1>18. CASE WakePlan
  BY <1>18 DEF WakePlan
<1>19. CASE WakeFinish
  BY <1>19 DEF WakeFinish, Rearm, ScheduleShotgun
<1>20. CASE WakeThrows
  BY <1>20 DEF WakeThrows, Throw
<1>21. CASE UNCHANGED loopVars
  BY <1>21 DEF loopVars
<1> QED
  BY <1>1, <1>2, <1>3, <1>4, <1>5, <1>6, <1>7, <1>8, <1>9, <1>10, <1>11, <1>12,
     <1>13, <1>14, <1>15, <1>16, <1>17, <1>18, <1>19, <1>20, <1>21
     DEF LoopNext, Controller

LEMMA OwnedStep ==
  StateOK /\ Paced /\ NoBurst /\ DeadlineOwned /\ [LoopNext]_loopVars => DeadlineOwned'
<1> SUFFICES ASSUME StateOK, Paced, NoBurst, DeadlineOwned, [LoopNext]_loopVars, ~Shotgun,
                    NEW s \in planned', s \notin timers', s \notin wakeTargets'
             PROVE  \/ phase' = "launch"
                    \/ phase' \in {"wview", "wlaunch"} /\ cur' = s
                    \/ broken'
  BY DEF DeadlineOwned
<1> DEFINE Goal == \/ phase' = "launch"
                   \/ phase' \in {"wview", "wlaunch"} /\ cur' = s
                   \/ broken'
<1> USE WakeAssumption DEF WakeAssumption, Paced, NoBurst, DeadlineOwned, plan, wakePass, fault
<1>1. ASSUME NEW o \in Ops, Complete(o) PROVE Goal
  BY <1>1 DEF Complete, Signal
<1>2. CASE FireWeaken
  BY <1>2 DEF FireWeaken, Signal
<1>3. ASSUME NEW t \in Targets, FireDeadline(t) PROVE Goal
  BY <1>3 DEF FireDeadline, Signal
<1>4. CASE FireShotgun
  BY <1>4 DEF FireShotgun, Signal
<1>5. CASE Elapse
  BY <1>5 DEF Elapse
<1>6. CASE Sweep
  BY <1>6 DEF Sweep
<1>7. CASE RefreshPlayer
  BY <1>7 DEF RefreshPlayer
<1>8. CASE BeatPlan
  BY <1>8 DEF BeatPlan
<1>9. CASE BeatFinish
  BY <1>9 DEF BeatFinish, ScheduleShotgun
<1>10. CASE BeatThrows
  BY <1>10 DEF BeatThrows, Throw
<1>11. CASE ArmWindow
  BY <1>11 DEF ArmWindow
<1>12. CASE Window
  BY <1>12 DEF Window
<1>13. CASE WindowEnds
  BY <1>13 DEF WindowEnds
<1>14. CASE Wake
  BY <1>14 DEF Wake
<1>15. CASE WakePassEnds
  BY <1>15 DEF WakePassEnds
<1>16. ASSUME NEW t \in Targets, Skip(t) PROVE Goal
  BY <1>16 DEF Skip
<1>17. ASSUME NEW t \in Targets, Serve(t) PROVE Goal
  BY <1>17 DEF Serve
<1>18. CASE WakePlan
  BY <1>18 DEF WakePlan
<1>19. CASE WakeFinish
  BY <1>19 DEF WakeFinish, Rearm, ScheduleShotgun
<1>20. CASE WakeThrows
  BY <1>20 DEF WakeThrows, Throw
<1>21. CASE UNCHANGED loopVars
  BY <1>21 DEF loopVars
<1> QED
  BY <1>1, <1>2, <1>3, <1>4, <1>5, <1>6, <1>7, <1>8, <1>9, <1>10, <1>11, <1>12,
     <1>13, <1>14, <1>15, <1>16, <1>17, <1>18, <1>19, <1>20, <1>21
     DEF LoopNext, Controller

-----------------------------------------------------------------------------
LEMMA LoopInvariance == LoopSpec => []Inv
<1>1. LoopInit => Inv
  BY LoopTypeInit DEF LoopTypeOK, Inv, LoopInit, Paced, Rendezvous, Heard, InWindow
<1>2. Inv /\ [LoopNext]_loopVars => Inv'
  BY FlagsStep, StateStep, PacedStep, HeardStep DEF Inv
<1> QED
  BY <1>1, <1>2, PTL DEF LoopSpec

\* The type invariant: for any operations, targets, throttles and caps the
\* loop's state keeps its shape, lateness and the ages stay in their bounds,
\* and no window races more wakes than its cap (wakeRaces in the window loop
\* of game/lib/controller.ts).
THEOREM LoopTypeCorrect == LoopSpec => []LoopTypeOK
<1>1. Inv => LoopTypeOK
  BY DEF Inv, LoopTypeOK
<1> QED
  BY <1>1, LoopInvariance, PTL

\* No completion queued while a window is open, during its pumps included, is
\* left without a wake when the loop next sleeps (armWake before pumpOnWake in
\* game/lib/controller.ts, signalWake of game/lib/wake.ts).
THEOREM WindowSound == LoopSpec => []WindowWakesHeard
<1>1. Inv => WindowWakesHeard
  BY DEF Inv, FlagsOK, Heard, WindowWakesHeard, InWindow
<1> QED
  BY <1>1, LoopInvariance, PTL

\* A fired shotgun burst and an armed one never coexist
\* (scheduleShotgunPump of game/lib/features/hacking.ts).
THEOREM ContinuationSound == LoopSpec => []OneContinuation
<1>1. LoopInit => NoBurst /\ OneContinuation
  BY DEF LoopInit, NoBurst, OneContinuation
<1> QED
  BY <1>1, ContinuationStep, PTL DEF LoopSpec

\* Of a farm without bursts and pumps that throw: a target with parked launches
\* is never forgotten, whatever the passes for other targets re-arm or clear; it
\* has its timer, is signalled, or a pass is about to re-arm it (scheduleJitWake
\* and the rearming at the end of runPump, game/lib/features/hacking.ts).
THEOREM DeadlinesOwned == LoopSpec => []DeadlineOwned
<1>1. LoopInit => NoBurst /\ OneContinuation /\ DeadlineOwned
  BY DEF LoopInit, NoBurst, OneContinuation, DeadlineOwned
<1>2. Inv => StateOK /\ Paced
  BY DEF Inv
<1> QED
  BY <1>1, <1>2, LoopInvariance, ContinuationStep, OwnedStep, PTL DEF LoopSpec

-----------------------------------------------------------------------------
(* The slot: whose work the drivers leave in it.                          *)

\* Units are numbered in order, and everything named one that was started.
UnitsInOrder ==
  /\ slot # None => slot.unit = units
  /\ locked # None => locked <= units
  /\ digest # None => digest.unit <= units
  /\ read # None => read.unit <= units

\* A watched promise is that of the work in the slot.
WatchesTheSlot == watched # None => slot # None /\ watched = slot.unit

\* Between a disarm and the look that ends it.
Replacing == \/ pc \in {"factionsActs", "factionsLooks"} /\ tick.act \in Grafts
             \/ pc = "careerActs"
             \/ pc = "careerLooks" /\ tick.act \notin {None, "continue"}

\* Progress work that was seen is watched or noticed, except while it is replaced.
SeenIsWatched ==
  /\ Mode(digest) = "progress" /\ ~unwatched /\ ~Replacing => notice # None \/ watched # None
  /\ pc = "probed" /\ Mode(read) = "progress" => notice # None \/ watched # None

\* Nothing is watched from the disarm to the call that replaces the work.
DisarmedBeforeActing ==
  pc = "careerActs" \/ (pc = "factionsActs" /\ tick.act \in Grafts) => watched = None

\* A peeked notice stays until the tick that peeked it is over.
NoticeInHand ==
  /\ tick.boundary => tick.notice # None
  /\ tick.notice # None => pc \in {"boundary", "deciding", "careerActs", "careerLooks", "bladeburner"}
  /\ tick.notice # None /\ pc \in {"boundary", "deciding", "careerActs", "careerLooks"} =>
       notice # None
  /\ pc = "boundary" => tick.notice # None
  /\ pc = "deciding" /\ tick.notice # None =>
       /\ digest = slot /\ (slot # None => watched = slot.unit)
       /\ digest # None => digest.work = tick.notice.work
  /\ pc = "careerActs" /\ tick.act \in Works \cup {"stop"} /\ Mode(digest) = "progress" =>
       tick.notice # None /\ digest.work = tick.notice.work
  /\ pc = "careerActs" => tick.act \in Actions \ {"continue"}
  /\ pc = "careerLooks" => tick.act \in Actions \cup {None}
  /\ pc \in {"factions", "career", "boundary", "deciding"} => tick.act = None
  /\ pc = "factionsActs" => tick.act \in Factions \cup Grafts /\ holder = "factions"

\* While the drivers run, the unit career's claim is for is in nobody else's
\* reach but that of a mandatory claim.
LockHolds ==
  /\ pc \notin {"top", "probed", "pass"} /\ slot # None /\ locked = slot.unit
  => holder = "career" \/ (holder = "factions" /\ bids.factions = Mandatory)

Base == TypeOK /\ UnitsInOrder /\ WatchesTheSlot
Inductive == /\ Base /\ SeenIsWatched /\ DisarmedBeforeActing
             /\ NoticeInHand /\ NoMasquerade /\ LockHolds

-----------------------------------------------------------------------------
(* What the watcher does                                                    *)

LEMMA NoneIsApart ==
  /\ \A u \in 1..MaxUnit : u # None
  /\ \A w \in Works : w # None
  /\ \A n \in Notice : n # None
  BY WorkAssumption DEF WorkAssumption

\* Nothing is watched after the slot's unit ended, and a notice is there if it was.
LEMMA ResolvesFacts ==
  ASSUME Base, NEW cause \in Causes, Resolves(cause)
  PROVE  /\ WatcherOK' /\ watched' = None
         /\ watched = None => notice' = notice
         /\ watched # None => /\ notice' = [work |-> slot.work, cause |-> cause]
                              /\ notice' \in Notice /\ notice' # None
<1> DEFINE heard == {l \in listeners : slot # None /\ l.unit = slot.unit}
<1>1. WatcherOK /\ slot \in Task \cup {None} /\ WatchesTheSlot
  BY DEF Base, TypeOK, ReadingsOK
<1>2. /\ listeners' = listeners \ heard
      /\ IF \E l \in heard : l.current
         THEN watched' = None /\ notice' = [work |-> slot.work, cause |-> cause]
         ELSE watched' = watched /\ notice' = notice
  BY DEF Resolves
<1>3. CASE watched = None
  <2>1. \A l \in listeners : ~l.current
    BY <1>1, <1>3, NoneIsApart DEF WatcherOK
  <2>2. watched' = None /\ notice' = notice
    BY <1>2, <1>3, <2>1
  <2>3. WatcherOK'
    BY <1>1, <1>2, <2>1, <2>2 DEF WatcherOK
  <2> QED
    BY <1>3, <2>2, <2>3
<1>4. CASE watched # None
  <2>1. slot \in Task /\ watched = slot.unit
    BY <1>1, <1>4 DEF WatchesTheSlot
  <2>2. \A l \in listeners : l.current => l \in heard
    BY <1>1, <1>4, <2>1 DEF WatcherOK, WatchesTheSlot
  <2>3. \E l \in heard : l.current
    BY <1>1, <1>4, <2>2 DEF WatcherOK
  <2>4. watched' = None /\ notice' = [work |-> slot.work, cause |-> cause]
    BY <1>2, <2>3
  <2>5. \A l \in listeners' : ~l.current
    BY <1>2, <2>2
  <2>6. WatcherOK'
    BY <1>1, <1>2, <2>4, <2>5 DEF WatcherOK
  <2>7. [work |-> slot.work, cause |-> cause] \in Notice
    BY <2>1 DEF Task, Notice
  <2> QED
    BY <1>4, <2>4, <2>6, <2>7, NoneIsApart
<1> QED
  BY <1>3, <1>4

LEMMA DisarmFacts ==
  ASSUME Base, Disarm
  PROVE  WatcherOK' /\ watched' = None
<1>1. WatcherOK
  BY DEF Base, TypeOK
<1>2. /\ \A l \in listeners : [l EXCEPT !.current = FALSE] \in [work : Works, unit : 1..MaxUnit, current : BOOLEAN]
      /\ \A l \in listeners : ~[l EXCEPT !.current = FALSE].current
  BY <1>1 DEF WatcherOK
<1>3. listeners' = {[l EXCEPT !.current = FALSE] : l \in listeners} /\ watched' = None
  BY DEF Disarm, Stale
<1> QED
  BY <1>2, <1>3 DEF WatcherOK

LEMMA ArmFacts ==
  ASSUME Base, Arm
  PROVE  WatcherOK' /\ changed' \in BOOLEAN /\ watched' = Unit(slot)
<1>1. WatcherOK /\ slot \in Task \cup {None} /\ WatchesTheSlot /\ changed \in BOOLEAN
  BY DEF Base, TypeOK, ReadingsOK
<1>2. CASE slot = None \/ watched = Unit(slot)
  <2>1. UNCHANGED <<listeners, watched, changed>>
    BY <1>2 DEF Arm
  <2> QED
    BY <1>1, <1>2, <2>1 DEF WatcherOK, WatchesTheSlot, Unit
<1>3. CASE ~(slot = None \/ watched = Unit(slot))
  <2> DEFINE new == [work |-> slot.work, unit |-> slot.unit, current |-> TRUE]
  <2>1. slot \in Task /\ Unit(slot) = slot.unit
    BY <1>1, <1>3 DEF Unit
  <2>2. /\ watched' = slot.unit /\ changed' = TRUE
        /\ listeners' = {[l EXCEPT !.current = FALSE] : l \in listeners} \cup {new}
    BY <1>3 DEF Arm, Stale
  <2>3. /\ \A l \in listeners : [l EXCEPT !.current = FALSE] \in [work : Works, unit : 1..MaxUnit, current : BOOLEAN]
        /\ \A l \in listeners : ~[l EXCEPT !.current = FALSE].current
    BY <1>1 DEF WatcherOK
  <2>4. new \in [work : Works, unit : 1..MaxUnit, current : BOOLEAN] /\ new.current /\ new.unit = slot.unit
    BY <2>1 DEF Task
  <2>5. slot.unit \in 1..MaxUnit
    BY <2>1 DEF Task
  <2>6. \A l \in listeners' : l.current => l = new
    BY <2>2, <2>3
  <2> QED
    BY <2>1, <2>2, <2>3, <2>4, <2>5, <2>6 DEF WatcherOK
<1> QED
  BY <1>2, <1>3

\* What every change of the slot has in common.
Changes(cause) == (\E w \in Works : Starts(w, cause)) \/ Stops(cause)

LEMMA ChangesFacts ==
  ASSUME Base, NEW cause \in Causes, Changes(cause)
  PROVE  /\ slot' \in Task \cup {None} /\ units' \in 0..MaxUnit /\ units <= units'
         /\ slot' # None => slot'.unit = units' /\ units' = units + 1
         /\ WatcherOK' /\ watched' = None
         /\ watched = None => notice' = notice
         /\ watched # None => /\ notice' = [work |-> slot.work, cause |-> cause]
                              /\ notice' \in Notice /\ notice' # None
<1>1. Resolves(cause) /\ units \in 0..MaxUnit /\ MaxUnit \in Nat
  BY WorkAssumption DEF Changes, Starts, Stops, Base, TypeOK, ReadingsOK, WorkAssumption
<1>2. CASE \E w \in Works : Starts(w, cause)
  <2>1. PICK w \in Works : Starts(w, cause)
    BY <1>2
  <2>2. units' = units + 1 /\ units < MaxUnit /\ slot' = [work |-> w, unit |-> units + 1]
    BY <2>1 DEF Starts
  <2>3. slot' \in Task /\ slot'.unit = units' /\ units' \in 0..MaxUnit /\ units <= units'
    BY <1>1, <2>2 DEF Task
  <2> QED
    BY <1>1, <2>2, <2>3, ResolvesFacts
<1>3. CASE Stops(cause)
  BY <1>1, <1>3, ResolvesFacts DEF Stops
<1> QED
  BY <1>2, <1>3 DEF Changes

-----------------------------------------------------------------------------
(* The environment                                                          *)

LEMMA EnvironmentStep ==
  ASSUME Inductive, NEW cause \in Causes \ {"replaced"}, Changes(cause), Awaiting,
         UNCHANGED Loop, prestiged' \in BOOLEAN, faults' \in 0..MaxFaults
  PROVE  Inductive'
<1>1. /\ slot' \in Task \cup {None} /\ units' \in 0..MaxUnit /\ units <= units'
      /\ slot' # None => slot'.unit = units' /\ units' = units + 1
      /\ WatcherOK' /\ watched' = None
      /\ watched = None => notice' = notice
      /\ watched # None => /\ notice' = [work |-> slot.work, cause |-> cause]
                           /\ notice' \in Notice /\ notice' # None
  BY ChangesFacts DEF Inductive
<1>2. /\ UNCHANGED <<digest, read, reviewed, lastMode, backoff, bids, locked, holder, pc, tick, changed, unwatched>>
      /\ pc # "deciding"
  BY DEF Loop, career, grants, Awaiting
<1>3. /\ notice' \in Notice \cup {None}
      /\ notice # None => notice' # None
      /\ watched # None => notice' # None
  BY <1>1 DEF Inductive, Base, TypeOK
<1>4. TypeOK'
  BY <1>1, <1>2, <1>3 DEF Inductive, Base, TypeOK, ReadingsOK, CareerOK, GrantsOK, TickOK
<1>5. UnitsInOrder' /\ WatchesTheSlot' /\ LockHolds'
  <2>1. units \in Nat /\ (locked # None => locked \in Nat) /\ (digest # None => digest.unit \in Nat)
        /\ (read # None => read.unit \in Nat) /\ units' \in Nat
    BY <1>1, WorkAssumption DEF Inductive, Base, TypeOK, ReadingsOK, GrantsOK, Task, WorkAssumption
  <2>2. UnitsInOrder
    BY DEF Inductive, Base
  <2>3. UnitsInOrder'
    BY <1>1, <1>2, <2>1, <2>2 DEF UnitsInOrder
  <2>4. ~(slot' # None /\ locked' = slot'.unit)
    BY <1>1, <1>2, <2>1, <2>2, WorkAssumption DEF UnitsInOrder, WorkAssumption
  <2> QED
    BY <1>1, <2>3, <2>4 DEF WatchesTheSlot, LockHolds
<1>6. SeenIsWatched'
  BY <1>2, <1>3 DEF Inductive, SeenIsWatched, Replacing, Mode
<1>7. DisarmedBeforeActing'
  BY <1>1 DEF DisarmedBeforeActing
<1>8. NoticeInHand'
  BY <1>2, <1>3 DEF Inductive, NoticeInHand, Mode
<1>9. NoMasquerade'
  BY <1>1 DEF Inductive, NoMasquerade
<1> QED
  BY <1>4, <1>5, <1>6, <1>7, <1>8, <1>9 DEF Inductive, Base

LEMMA FaultFacts ==
  ASSUME Base, Fault
  PROVE  faults' \in 0..MaxFaults
  BY WorkAssumption DEF Base, TypeOK, Fault, WorkAssumption

LEMMA UnitEndsStep == Inductive /\ UnitEnds => Inductive'
<1> SUFFICES ASSUME Inductive, UnitEnds PROVE Inductive'
  OBVIOUS
<1>1. Changes("banked")
  BY DEF UnitEnds, Changes, Works, Progress
<1>2. Awaiting /\ UNCHANGED Loop /\ prestiged' \in BOOLEAN /\ faults' \in 0..MaxFaults
  BY DEF UnitEnds, Inductive, Base, TypeOK
<1> QED
  BY <1>1, <1>2, EnvironmentStep DEF Causes

LEMMA PlayerActsStep == Inductive /\ PlayerActs => Inductive'
<1> SUFFICES ASSUME Inductive, PlayerActs PROVE Inductive'
  OBVIOUS
<1>1. Changes("cancelled")
  BY DEF PlayerActs, Changes
<1>2. Awaiting /\ UNCHANGED Loop /\ prestiged' \in BOOLEAN /\ faults' \in 0..MaxFaults
  BY FaultFacts DEF PlayerActs, Inductive, Base, TypeOK
<1> QED
  BY <1>1, <1>2, EnvironmentStep DEF Causes

LEMMA PrestigeStep == Inductive /\ Prestige => Inductive'
<1> SUFFICES ASSUME Inductive, Prestige PROVE Inductive'
  OBVIOUS
<1>1. Changes("cancelled")
  BY DEF Prestige, Changes
<1>2. Awaiting /\ UNCHANGED Loop /\ prestiged' \in BOOLEAN /\ faults' \in 0..MaxFaults
  BY FaultFacts DEF Prestige, Inductive
<1> QED
  BY <1>1, <1>2, EnvironmentStep DEF Causes

LEMMA BackoffLapsesStep == Inductive /\ BackoffLapses => Inductive'
<1> SUFFICES ASSUME Inductive, BackoffLapses PROVE Inductive'
  OBVIOUS
<1>1. backoff' = {} /\ UNCHANGED <<slot, units, listeners, watched, notice, changed, digest, read,
        reviewed, lastMode, bids, locked, holder, pc, tick, unwatched, prestiged, faults>>
  BY DEF BackoffLapses, watcher, grants
<1>2. Base'
  BY <1>1 DEF Inductive, Base, TypeOK, WatcherOK, ReadingsOK, CareerOK, GrantsOK, TickOK,
              UnitsInOrder, WatchesTheSlot
<1> QED
  BY <1>1, <1>2 DEF Inductive, SeenIsWatched, Replacing, Mode, DisarmedBeforeActing, NoticeInHand,
                    NoMasquerade, LockHolds

-----------------------------------------------------------------------------
(* The loop                                                                 *)

LEMMA ResetWalkStep == Inductive /\ ResetWalk => Inductive'
<1> SUFFICES ASSUME Inductive, ResetWalk PROVE Inductive'
  OBVIOUS
<1>1. WatcherOK' /\ watched' = None
  BY DisarmFacts DEF ResetWalk, Inductive
<1>2. /\ pc = "top" /\ notice' = None /\ changed' = FALSE /\ digest' = None /\ reviewed' = FALSE
      /\ lastMode' = "none" /\ backoff' = {} /\ bids' = [f \in Features |-> Silent]
      /\ locked' = None /\ holder' = None /\ unwatched' = FALSE /\ prestiged' = FALSE
      /\ UNCHANGED <<slot, units, read, pc, tick, faults>>
  BY DEF ResetWalk
<1>3. /\ bids' \in [career : {Silent, Priced, Lock}, bladeburner : {Silent, Priced, Ordinary},
                    factions : {Silent, Priced, Ordinary, Mandatory}]
      /\ bids'.career # Lock
  BY <1>2 DEF Features, Silent, Lock
<1>4. TypeOK'
  BY <1>1, <1>2, <1>3 DEF Inductive, Base, TypeOK, ReadingsOK, CareerOK, GrantsOK, TickOK
<1>5. UnitsInOrder' /\ WatchesTheSlot'
  BY <1>1, <1>2 DEF Inductive, Base, UnitsInOrder, WatchesTheSlot
<1> QED
  BY <1>1, <1>2, <1>4, <1>5
     DEF Inductive, Base, SeenIsWatched, Replacing, Mode, DisarmedBeforeActing, NoticeInHand,
         NoMasquerade, LockHolds

LEMMA ProbeReadsStep == Inductive /\ ProbeReads => Inductive'
<1> SUFFICES ASSUME Inductive, ProbeReads PROVE Inductive'
  OBVIOUS
<1>1. WatcherOK' /\ changed' \in BOOLEAN /\ watched' = Unit(slot)
  BY ArmFacts DEF ProbeReads, Inductive
<1>2. /\ pc = "top" /\ pc' = "probed" /\ read' = slot
      /\ UNCHANGED <<slot, units, notice, digest, reviewed, lastMode, backoff, bids, locked, holder,
                     tick, unwatched, prestiged, faults>>
  BY DEF ProbeReads, career, grants
<1>3. TypeOK'
  BY <1>1, <1>2 DEF Inductive, Base, TypeOK, ReadingsOK, CareerOK, GrantsOK, TickOK
<1>4. slot # None => slot.unit = units /\ units <= units /\ slot.unit # None
  BY NoneIsApart, WorkAssumption DEF Inductive, Base, UnitsInOrder, TypeOK, ReadingsOK, Task, WorkAssumption
<1>5. UnitsInOrder' /\ WatchesTheSlot'
  BY <1>1, <1>2, <1>4 DEF Inductive, Base, UnitsInOrder, WatchesTheSlot, Unit
<1>6. watched # None => watched' # None
  BY <1>1, <1>4 DEF Inductive, Base, WatchesTheSlot, Unit
<1>7. SeenIsWatched'
  BY <1>1, <1>2, <1>4, <1>6 DEF Inductive, SeenIsWatched, Replacing, Mode, Unit
<1> QED
  BY <1>2, <1>3, <1>5, <1>7
     DEF Inductive, Base, DisarmedBeforeActing, NoticeInHand, NoMasquerade, LockHolds

LEMMA ProbeEmitsStep == Inductive /\ ProbeEmits => Inductive'
<1> SUFFICES ASSUME Inductive, ProbeEmits PROVE Inductive'
  OBVIOUS
<1>1. /\ pc = "probed" /\ pc' = "pass" /\ read' = None
      /\ \/ digest' = read /\ unwatched' = FALSE
         \/ UNCHANGED <<digest, unwatched>>
      /\ faults' \in 0..MaxFaults
      /\ UNCHANGED <<slot, units, listeners, watched, notice, changed, reviewed, lastMode, backoff,
                     bids, locked, holder, tick, prestiged>>
  BY FaultFacts DEF ProbeEmits, watcher, career, grants, Inductive, Base, TypeOK
<1>2. TypeOK'
  <2>1. WatcherOK' /\ CareerOK' /\ GrantsOK'
    BY <1>1 DEF Inductive, Base, TypeOK, WatcherOK, CareerOK, GrantsOK
  <2>2. ReadingsOK' /\ unwatched' \in BOOLEAN
    BY <1>1 DEF Inductive, Base, TypeOK, ReadingsOK
  <2>3. TickOK'
    BY <1>1 DEF Inductive, Base, TypeOK, TickOK
  <2> QED
    BY <1>1, <2>1, <2>2, <2>3 DEF Inductive, Base, TypeOK
<1>4. UnitsInOrder' /\ WatchesTheSlot'
  BY <1>1 DEF Inductive, Base, UnitsInOrder, WatchesTheSlot
<1>3. SeenIsWatched'
  BY <1>1 DEF Inductive, SeenIsWatched, Replacing, Mode
<1> QED
  BY <1>1, <1>2, <1>3, <1>4
     DEF Inductive, Base, DisarmedBeforeActing, NoticeInHand, NoMasquerade, LockHolds

\* A locked unit goes to career or to a mandatory claim.
LEMMA WinnersFacts ==
  ASSUME NEW bid, NEW incumbent \in {None} \cup Features, NEW held \in BOOLEAN,
         bid \in [career : {Silent, Priced, Lock}, bladeburner : {Silent, Priced, Ordinary},
                  factions : {Silent, Priced, Ordinary, Mandatory}],
         bid.career = Lock,
         held => incumbent = "career"
  PROVE  /\ Winners(bid, incumbent, held) # {}
         /\ \A w \in Winners(bid, incumbent, held) :
              w = "career" \/ (w = "factions" /\ bid.factions = Mandatory)
<1> USE DEF Silent, Priced, Ordinary, Lock, Mandatory, Margin, Features
<1>0. None \notin Features
  BY WorkAssumption DEF WorkAssumption
<1> DEFINE challengers == Leaders(bid, Features \ {incumbent})
           beats(f) == bid[f] > bid[incumbent] + IF bid[incumbent] = Priced THEN 0 ELSE Margin
           ties(f) == bid[f] = Priced /\ bid[incumbent] = Priced
<1>1. CASE incumbent = None
  <2>1. Winners(bid, incumbent, held) = Leaders(bid, Features)
    BY <1>1 DEF Winners
  <2>2. "career" \in Leaders(bid, Features) \/ "factions" \in Leaders(bid, Features)
    BY DEF Leaders
  <2>3. \A w \in Leaders(bid, Features) : w = "career" \/ (w = "factions" /\ bid.factions = Mandatory)
    BY DEF Leaders
  <2> QED
    BY <2>1, <2>2, <2>3
<1>2. CASE incumbent = "career"
  <2>1. incumbent # None
    BY <1>0, <1>2
  <2>2. \A f \in challengers : f \in Features /\ f # "career"
    BY <1>2 DEF Leaders
  <2>3. ~\E f \in challengers : beats(f)
    BY <1>2, <2>2
  <2>4. ~\E f \in challengers : ties(f)
    BY <1>2
  <2>5. Winners(bid, incumbent, held) =
          IF held THEN {incumbent} ELSE {incumbent} \cup {f \in challengers : ties(f)}
    BY <2>1, <2>3 DEF Winners
  <2>6. Winners(bid, incumbent, held) = {"career"}
    <3> HIDE DEF challengers, ties
    <3> QED
      BY <1>2, <2>4, <2>5
  <2> QED
    BY <2>6
<1>3. CASE incumbent = "factions"
  <2>1. challengers = {"career"}
    BY <1>3 DEF Leaders
  <2>2. ~held /\ incumbent # None
    BY <1>0, <1>3
  <2>3. CASE bid.factions = Mandatory
    <3>1. ~beats("career") /\ ~ties("career")
      BY <1>3, <2>3
    <3>2. Winners(bid, incumbent, held) = {incumbent} \cup {f \in challengers : ties(f)}
      BY <2>1, <2>2, <3>1 DEF Winners
    <3> QED
      BY <1>3, <2>1, <2>3, <3>1, <3>2
  <2>4. CASE bid.factions # Mandatory
    <3>1. beats("career")
      BY <1>3, <2>4
    <3>2. Winners(bid, incumbent, held) = challengers
      BY <2>1, <2>2, <3>1 DEF Winners
    <3> QED
      BY <2>1, <3>2
  <2> QED
    BY <2>3, <2>4
<1>4. CASE incumbent = "bladeburner"
  <2>1. challengers = {IF bid.factions = Mandatory THEN "factions" ELSE "career"}
    BY <1>4 DEF Leaders
  <2>2. ~held /\ incumbent # None
    BY <1>0, <1>4
  <2>3. \E f \in challengers : beats(f)
    BY <1>4, <2>1
  <2>4. Winners(bid, incumbent, held) = challengers
    BY <2>2, <2>3 DEF Winners
  <2> QED
    BY <2>1, <2>4
<1> QED
  BY <1>1, <1>2, <1>3, <1>4

LEMMA PassStep == Inductive /\ Pass => Inductive'
<1> SUFFICES ASSUME Inductive, Pass PROVE Inductive'
  OBVIOUS
<1>1. PICK due \in SUBSET Features :
        /\ IF "career" \in due THEN \E u \in {None, Unit(digest)} : Locks(u) /\ locked' = u
           ELSE locked' = locked
        /\ \E c \in Bids("career", due, {IF locked' = None THEN Priced ELSE Lock}),
              f \in Bids("factions", due, {Silent, Priced, Ordinary, Mandatory}),
              b \in Bids("bladeburner", due, {Silent, Priced, Ordinary}) :
                bids' = [career |-> c, factions |-> f, bladeburner |-> b]
        /\ \E incumbent \in Incumbents, lapsed \in BOOLEAN :
             LET held == incumbent = "career" /\ locked' # None /\ ~lapsed
                 won == Winners(bids', incumbent, held)
             IN IF won = {} THEN holder' = None ELSE holder' \in won
        /\ tick' = IF "career" \in due THEN [NoTick EXCEPT !.due = TRUE] ELSE NoTick
  BY DEF Pass
<1>2. /\ pc \in {"top", "pass"} /\ pc' = "factions"
      /\ UNCHANGED <<slot, units, listeners, watched, notice, changed, digest, read, reviewed,
                     lastMode, backoff, unwatched, prestiged, faults>>
  BY DEF Pass, watcher, career
<1>3. /\ locked' \in 1..MaxUnit \cup {None}
      /\ locked' # None => locked' <= units
  <2>1. CASE "career" \in due
    <3>1. PICK u \in {None, Unit(digest)} : Locks(u) /\ locked' = u
      BY <1>1, <2>1
    <3> QED
      BY <3>1 DEF Inductive, Base, TypeOK, ReadingsOK, UnitsInOrder, Unit, Task
  <2>2. CASE "career" \notin due
    BY <1>1, <2>2 DEF Inductive, Base, TypeOK, GrantsOK, UnitsInOrder
  <2> QED
    BY <2>1, <2>2
<1>4. /\ bids' \in [career : {Silent, Priced, Lock}, bladeburner : {Silent, Priced, Ordinary},
                    factions : {Silent, Priced, Ordinary, Mandatory}]
      /\ locked' # None <=> bids'.career = Lock
  <2>1. PICK c \in Bids("career", due, {IF locked' = None THEN Priced ELSE Lock}),
             f \in Bids("factions", due, {Silent, Priced, Ordinary, Mandatory}),
             b \in Bids("bladeburner", due, {Silent, Priced, Ordinary}) :
               bids' = [career |-> c, factions |-> f, bladeburner |-> b]
    BY <1>1
  <2>2. /\ bids.career \in {Silent, Priced, Lock} /\ bids.bladeburner \in {Silent, Priced, Ordinary}
        /\ bids.factions \in {Silent, Priced, Ordinary, Mandatory}
        /\ locked # None <=> bids.career = Lock
    BY DEF Inductive, Base, TypeOK, GrantsOK
  <2>3. f \in {Silent, Priced, Ordinary, Mandatory} /\ b \in {Silent, Priced, Ordinary}
    BY <2>2 DEF Bids
  <2>4. c \in {Silent, Priced, Lock} /\ (locked' # None <=> c = Lock)
    <3>1. CASE "career" \in due
      BY <3>1 DEF Bids, Priced, Lock
    <3>2. CASE "career" \notin due
      BY <1>1, <2>2, <3>2 DEF Bids
    <3> QED
      BY <3>1, <3>2
  <2> QED
    BY <2>1, <2>3, <2>4
<1>5. PICK incumbent \in Incumbents, lapsed \in BOOLEAN :
        LET held == incumbent = "career" /\ locked' # None /\ ~lapsed
            won == Winners(bids', incumbent, held)
        IN IF won = {} THEN holder' = None ELSE holder' \in won
  BY <1>1
<1> DEFINE held == incumbent = "career" /\ locked' # None /\ ~lapsed
<1>6. IF Winners(bids', incumbent, held) = {} THEN holder' = None
      ELSE holder' \in Winners(bids', incumbent, held)
  BY <1>5
<1>7. incumbent \in {None} \cup Features
  BY <1>5 DEF Incumbents, Inductive, Base, TypeOK, GrantsOK
<1>8. Winners(bids', incumbent, held) \subseteq Features \cup {incumbent}
  <2> DEFINE challengers == Leaders(bids', Features \ {incumbent})
             beats(f) == bids'[f] > bids'[incumbent] + IF bids'[incumbent] = Priced THEN 0 ELSE Margin
             ties(f) == bids'[f] = Priced /\ bids'[incumbent] = Priced
  <2>1. Leaders(bids', Features) \subseteq Features /\ challengers \subseteq Features
    BY DEF Leaders
  <2>2. Winners(bids', incumbent, held) =
          IF incumbent = None THEN Leaders(bids', Features)
          ELSE IF held THEN {incumbent}
          ELSE IF \E f \in challengers : beats(f) THEN challengers
          ELSE {incumbent} \cup {f \in challengers : ties(f)}
    BY DEF Winners
  <2> HIDE DEF challengers, beats, ties, held
  <2> QED
    BY <2>1, <2>2
<1>9. holder' \in Features \cup {None}
  <2> DEFINE won == Winners(bids', incumbent, held)
  <2>1. (IF won = {} THEN holder' = None ELSE holder' \in won) /\ won \subseteq Features \cup {incumbent}
    BY <1>6, <1>8
  <2> HIDE DEF won
  <2> QED
    BY <1>7, <2>1
<1>10. TickOK'
  <2>1. CASE "career" \in due
    BY <1>1, <1>2, <2>1 DEF TickOK, NoTick
  <2>2. CASE "career" \notin due
    BY <1>1, <1>2, <2>2 DEF TickOK, NoTick
  <2> QED
    BY <2>1, <2>2
<1>11. TypeOK'
  BY <1>2, <1>3, <1>4, <1>9, <1>10
     DEF Inductive, Base, TypeOK, WatcherOK, ReadingsOK, CareerOK, GrantsOK
<1>12. UnitsInOrder' /\ WatchesTheSlot'
  BY <1>2, <1>3 DEF Inductive, Base, UnitsInOrder, WatchesTheSlot
<1>13. LockHolds'
  <2> SUFFICES ASSUME slot # None, locked' = slot.unit
               PROVE  holder' = "career" \/ (holder' = "factions" /\ bids'.factions = Mandatory)
    BY <1>2 DEF LockHolds
  <2>1. slot.unit # None /\ Unit(slot) = slot.unit
    BY NoneIsApart DEF Inductive, Base, TypeOK, ReadingsOK, Task, Unit
  <2>2. bids'.career = Lock /\ (held => incumbent = "career")
    BY <1>4, <2>1
  <2>3. held \in BOOLEAN
    OBVIOUS
  <2> HIDE DEF held
  <2> QED
    BY <1>4, <1>6, <1>7, <2>2, <2>3, WinnersFacts
<1>14. tick'.act = None /\ tick'.notice = None /\ ~tick'.boundary
  BY <1>1 DEF NoTick
<1> QED
  BY <1>2, <1>11, <1>12, <1>13, <1>14
     DEF Inductive, Base, SeenIsWatched, Replacing, Mode, DisarmedBeforeActing, NoticeInHand, NoMasquerade

-----------------------------------------------------------------------------
(* The drivers                                                              *)

\* A look leaves the digest with what is in the slot, and that watched.
LEMMA ObservesFacts ==
  ASSUME Base, Observes
  PROVE  /\ WatcherOK' /\ changed' \in BOOLEAN
         /\ digest' = slot /\ unwatched' = FALSE /\ watched' = Unit(slot)
         /\ digest' \in Task \cup {None}
         /\ slot # None => /\ digest'.unit <= units /\ watched' # None /\ watched' = slot.unit
         /\ Mode(slot) = "progress" => watched' # None
<1>1. WatcherOK' /\ changed' \in BOOLEAN /\ watched' = Unit(slot)
  BY ArmFacts DEF Observes
<1>2. digest' = slot /\ unwatched' = FALSE /\ slot \in Task \cup {None}
  BY DEF Observes, Base, TypeOK, ReadingsOK
<1>3. slot # None => slot.unit = units /\ units \in Nat /\ slot.unit # None /\ Unit(slot) = slot.unit
  BY <1>2, NoneIsApart, WorkAssumption
     DEF Base, UnitsInOrder, TypeOK, ReadingsOK, Task, Unit, WorkAssumption
<1>4. Mode(slot) = "progress" => slot # None
  BY DEF Mode
<1> QED
  BY <1>1, <1>2, <1>3, <1>4

LEMMA FactionsIdleStep == Inductive /\ FactionsIdle => Inductive'
<1> SUFFICES ASSUME Inductive, FactionsIdle PROVE Inductive'
  OBVIOUS
<1>1. /\ pc = "factions" /\ pc' = "career"
      /\ UNCHANGED <<slot, units, listeners, watched, notice, changed, digest, read, reviewed, lastMode,
                     backoff, bids, locked, holder, tick, unwatched, prestiged, faults>>
  BY DEF FactionsIdle, watcher, career, grants
<1>2. Base'
  BY <1>1 DEF Inductive, Base, TypeOK, WatcherOK, ReadingsOK, CareerOK, GrantsOK, TickOK,
              UnitsInOrder, WatchesTheSlot
<1> QED
  BY <1>1, <1>2 DEF Inductive, SeenIsWatched, Replacing, Mode, DisarmedBeforeActing, NoticeInHand,
                    NoMasquerade, LockHolds

LEMMA FactionsDecidesStep == Inductive /\ FactionsDecides => Inductive'
<1> SUFFICES ASSUME Inductive, FactionsDecides PROVE Inductive'
  OBVIOUS
<1>1. PICK w \in Factions \cup Grafts :
        /\ tick' = [tick EXCEPT !.act = w]
        /\ IF w \in Grafts THEN Disarm ELSE UNCHANGED <<listeners, watched>>
  BY DEF FactionsDecides
<1>2. /\ pc = "factions" /\ pc' = "factionsActs" /\ holder = "factions"
      /\ UNCHANGED <<slot, units, notice, changed, digest, read, reviewed, lastMode, backoff, bids,
                     locked, holder, unwatched, prestiged, faults>>
  BY DEF FactionsDecides, career, grants
<1>3. /\ WatcherOK'
      /\ IF w \in Grafts THEN watched' = None ELSE watched' = watched
  <2>1. CASE w \in Grafts
    BY <1>1, <2>1, DisarmFacts DEF Inductive
  <2>2. CASE w \notin Grafts
    BY <1>1, <2>2 DEF Inductive, Base, TypeOK, WatcherOK
  <2> QED
    BY <2>1, <2>2
<1>4. /\ tick'.act = w /\ tick'.notice = tick.notice /\ tick'.boundary = tick.boundary
      /\ TickOK'
  BY <1>1, <1>2 DEF Inductive, Base, TypeOK, TickOK, Works, Progress
<1>5. TypeOK'
  BY <1>2, <1>3, <1>4 DEF Inductive, Base, TypeOK, ReadingsOK, CareerOK, GrantsOK
<1>6. UnitsInOrder' /\ WatchesTheSlot'
  BY <1>2, <1>3 DEF Inductive, Base, UnitsInOrder, WatchesTheSlot
<1>7. SeenIsWatched' /\ DisarmedBeforeActing'
  BY <1>2, <1>3, <1>4 DEF Inductive, SeenIsWatched, DisarmedBeforeActing, Replacing, Mode
<1>8. NoticeInHand' /\ NoMasquerade' /\ LockHolds'
  BY <1>1, <1>2, <1>4 DEF Inductive, NoticeInHand, NoMasquerade, LockHolds
<1> QED
  BY <1>5, <1>6, <1>7, <1>8 DEF Inductive, Base

LEMMA FactionsActsStep == Inductive /\ FactionsActs => Inductive'
<1> SUFFICES ASSUME Inductive, FactionsActs PROVE Inductive'
  OBVIOUS
<1> DEFINE graft == tick.act \in Grafts
           cause == IF graft THEN "replaced" ELSE "taken"
<1>1. /\ pc = "factionsActs" /\ pc' = IF graft THEN "factionsLooks" ELSE "career"
      /\ tick' = IF graft THEN tick ELSE [tick EXCEPT !.act = None]
      /\ Changes(cause) \/ NothingStarts
      /\ UNCHANGED <<changed, digest, read, reviewed, lastMode, backoff, bids, locked, holder,
                     unwatched, prestiged, faults>>
  BY DEF FactionsActs, career, grants, Changes, NoticeInHand, Inductive, Works, Progress
<1>2. graft => watched = None
  BY <1>1 DEF Inductive, DisarmedBeforeActing
<1>3. /\ slot' \in Task \cup {None} /\ units' \in 0..MaxUnit
      /\ \/ slot' = slot /\ units' = units
         \/ slot' = None /\ units <= units'
         \/ slot' # None /\ slot'.unit = units' /\ units' = units + 1
      /\ WatcherOK'
      /\ watched' = None \/ (watched' = watched /\ slot' = slot)
      /\ notice' \in Notice \cup {None} /\ (notice # None => notice' # None)
      /\ watched # None => notice' # None \/ watched' # None
      /\ NoMasquerade'
  <2>1. CASE NothingStarts
    <3>1. UNCHANGED <<slot, units, listeners, watched, notice>>
      BY <2>1 DEF NothingStarts
    <3> QED
      BY <3>1 DEF Inductive, Base, TypeOK, ReadingsOK, WatcherOK, NoMasquerade
  <2>2. CASE Changes(cause)
    <3>1. cause \in Causes /\ (watched # None => cause = "taken")
      BY <1>2 DEF Causes
    <3>2. /\ slot' \in Task \cup {None} /\ units' \in 0..MaxUnit /\ units <= units'
          /\ slot' # None => slot'.unit = units' /\ units' = units + 1
          /\ WatcherOK' /\ watched' = None
          /\ watched = None => notice' = notice
          /\ watched # None => /\ notice' = [work |-> slot.work, cause |-> cause]
                               /\ notice' \in Notice /\ notice' # None
      BY <2>2, <3>1, ChangesFacts DEF Inductive
    <3>3. notice \in Notice \cup {None} /\ NoMasquerade
      BY DEF Inductive, Base, TypeOK
    <3> HIDE DEF cause
    <3> QED
      BY <3>1, <3>2, <3>3 DEF NoMasquerade
  <2> QED
    BY <1>1, <2>1, <2>2
<1>4. TickOK'
  <2>1. CASE graft
    BY <1>1, <2>1 DEF Inductive, Base, TypeOK, TickOK
  <2>2. CASE ~graft
    BY <1>1, <2>2 DEF Inductive, Base, TypeOK, TickOK
  <2> QED
    BY <2>1, <2>2
<1>5. TypeOK'
  BY <1>1, <1>3, <1>4 DEF Inductive, Base, TypeOK, ReadingsOK, CareerOK, GrantsOK
<1>6. UnitsInOrder' /\ WatchesTheSlot' /\ LockHolds'
  <2>1. /\ units \in Nat /\ units' \in Nat /\ (locked # None => locked \in Nat)
        /\ (digest # None => digest.unit \in Nat) /\ (read # None => read.unit \in Nat)
    BY <1>3, WorkAssumption DEF Inductive, Base, TypeOK, ReadingsOK, GrantsOK, Task, WorkAssumption
  <2>2. UnitsInOrder /\ WatchesTheSlot /\ LockHolds
    BY DEF Inductive, Base
  <2>3. UnitsInOrder'
    BY <1>1, <1>3, <2>1, <2>2 DEF UnitsInOrder
  <2>4. WatchesTheSlot'
    BY <1>3, <2>2 DEF WatchesTheSlot
  <2>5. LockHolds'
    <3>1. slot' # slot => ~(slot' # None /\ locked' = slot'.unit)
      BY <1>1, <1>3, <2>1, <2>2, WorkAssumption DEF UnitsInOrder, WorkAssumption
    <3> QED
      BY <1>1, <2>2, <3>1 DEF LockHolds
  <2> QED
    BY <2>3, <2>4, <2>5
<1>7. SeenIsWatched' /\ DisarmedBeforeActing'
  <2>1. graft => tick'.act \in Grafts
    BY <1>1
  <2>2. DisarmedBeforeActing'
    BY <1>1 DEF DisarmedBeforeActing
  <2>3. SeenIsWatched'
    BY <1>1, <1>3, <2>1 DEF Inductive, SeenIsWatched, Replacing, Mode
  <2> QED
    BY <2>2, <2>3
<1>8. NoticeInHand'
  <2>1. tick'.notice = tick.notice /\ tick'.boundary = tick.boundary
    BY <1>1 DEF Inductive, Base, TypeOK, TickOK
  <2> QED
    BY <1>1, <2>1 DEF Inductive, NoticeInHand
<1> QED
  BY <1>3, <1>5, <1>6, <1>7, <1>8 DEF Inductive, Base

LEMMA FactionsLooksStep == Inductive /\ FactionsLooks => Inductive'
<1> SUFFICES ASSUME Inductive, FactionsLooks PROVE Inductive'
  OBVIOUS
<1>1. /\ WatcherOK' /\ changed' \in BOOLEAN
      /\ digest' = slot /\ unwatched' = FALSE /\ watched' = Unit(slot)
      /\ digest' \in Task \cup {None}
      /\ slot # None => /\ digest'.unit <= units /\ watched' # None /\ watched' = slot.unit
      /\ Mode(slot) = "progress" => watched' # None
  BY ObservesFacts DEF FactionsLooks, Inductive
<1>2. /\ pc = "factionsLooks" /\ pc' = "career" /\ tick' = [tick EXCEPT !.act = None]
      /\ UNCHANGED <<slot, units, notice, read, reviewed, lastMode, backoff, bids, locked, holder,
                     prestiged, faults>>
  BY DEF FactionsLooks, career, grants
<1>3. TickOK' /\ tick'.boundary = tick.boundary /\ tick'.notice = tick.notice
  BY <1>2 DEF Inductive, Base, TypeOK, TickOK
<1>4. TypeOK'
  <2>1. unwatched' \in BOOLEAN
    BY <1>1
  <2>2. ReadingsOK' /\ CareerOK' /\ GrantsOK'
    BY <1>1, <1>2 DEF Inductive, Base, TypeOK, ReadingsOK, CareerOK, GrantsOK
  <2> QED
    BY <1>1, <1>2, <1>3, <2>1, <2>2 DEF Inductive, Base, TypeOK
<1>5. UnitsInOrder' /\ WatchesTheSlot'
  BY <1>1, <1>2 DEF Inductive, Base, UnitsInOrder, WatchesTheSlot, Unit
<1>6. SeenIsWatched'
  BY <1>1, <1>2 DEF SeenIsWatched, Mode
<1> QED
  BY <1>2, <1>3, <1>4, <1>5, <1>6
     DEF Inductive, Base, DisarmedBeforeActing, NoticeInHand, NoMasquerade, LockHolds

LEMMA FactionsFailsStep == Inductive /\ FactionsFails => Inductive'
<1> SUFFICES ASSUME Inductive, FactionsFails PROVE Inductive'
  OBVIOUS
<1>1. /\ pc \in {"factionsActs", "factionsLooks"} /\ pc' = "career"
      /\ tick' = [tick EXCEPT !.act = None] /\ faults' \in 0..MaxFaults
      /\ unwatched' = (unwatched \/ tick.act \in Grafts)
      /\ UNCHANGED <<slot, units, listeners, watched, notice, changed, digest, read, reviewed,
                     lastMode, backoff, bids, locked, holder, prestiged>>
  BY FaultFacts DEF FactionsFails, watcher, career, grants, Inductive
<1>2. TickOK' /\ tick'.boundary = tick.boundary /\ tick'.notice = tick.notice
  BY <1>1 DEF Inductive, Base, TypeOK, TickOK
<1>3. unwatched' \in BOOLEAN /\ (unwatched' <=> unwatched \/ tick.act \in Grafts)
  BY <1>1 DEF Inductive, Base, TypeOK
<1>4. TypeOK'
  BY <1>1, <1>2, <1>3 DEF Inductive, Base, TypeOK, WatcherOK, ReadingsOK, CareerOK, GrantsOK
<1>5. UnitsInOrder' /\ WatchesTheSlot'
  BY <1>1 DEF Inductive, Base, UnitsInOrder, WatchesTheSlot
<1>6. SeenIsWatched'
  BY <1>1, <1>3 DEF Inductive, SeenIsWatched, Replacing, Mode
<1> QED
  BY <1>1, <1>2, <1>4, <1>5, <1>6
     DEF Inductive, Base, DisarmedBeforeActing, NoticeInHand, NoMasquerade, LockHolds

LEMMA CareerTickStep == Inductive /\ CareerTick => Inductive'
<1> SUFFICES ASSUME Inductive, CareerTick PROVE Inductive'
  OBVIOUS
<1>1. /\ pc = "career"
      /\ \/ pc' = "bladeburner" /\ changed' = changed /\ tick' = tick
         \/ /\ changed' = FALSE
            /\ tick' = [tick EXCEPT !.notice = notice, !.mode = Mode(digest)]
            /\ pc' \in {"bladeburner", IF notice = None THEN "deciding" ELSE "boundary"}
      /\ UNCHANGED <<slot, units, listeners, watched, notice, digest, read, reviewed, lastMode, backoff,
                     bids, locked, holder, unwatched, prestiged, faults>>
  BY DEF CareerTick, career, grants
<1>2. CASE tick' = tick /\ changed' = changed /\ pc' = "bladeburner"
  <2>1. Base'
    BY <1>1, <1>2 DEF Inductive, Base, TypeOK, WatcherOK, ReadingsOK, CareerOK, GrantsOK, TickOK,
                      UnitsInOrder, WatchesTheSlot
  <2> QED
    BY <1>1, <1>2, <2>1 DEF Inductive, SeenIsWatched, Replacing, Mode, DisarmedBeforeActing,
                            NoticeInHand, NoMasquerade, LockHolds
<1>3. CASE /\ changed' = FALSE
           /\ tick' = [tick EXCEPT !.notice = notice, !.mode = Mode(digest)]
           /\ pc' \in {"bladeburner", IF notice = None THEN "deciding" ELSE "boundary"}
  <2>1. notice \in Notice \cup {None} /\ Mode(digest) \in {"idle", "continuous", "progress"}
    BY DEF Inductive, Base, TypeOK, Mode
  <2>2. TickOK' /\ tick'.notice = notice /\ tick'.boundary = tick.boundary /\ tick'.act = tick.act
    BY <1>3, <2>1 DEF Inductive, Base, TypeOK, TickOK
  <2>3. TypeOK' /\ UnitsInOrder' /\ WatchesTheSlot'
    <3>0. changed' \in BOOLEAN
      BY <1>3
    <3>1. WatcherOK' /\ ReadingsOK' /\ CareerOK' /\ GrantsOK'
      BY <1>1 DEF Inductive, Base, TypeOK, WatcherOK, ReadingsOK, CareerOK, GrantsOK
    <3>2. UnitsInOrder' /\ WatchesTheSlot'
      BY <1>1 DEF Inductive, Base, UnitsInOrder, WatchesTheSlot
    <3> QED
      BY <1>1, <2>2, <3>0, <3>1, <3>2 DEF Inductive, Base, TypeOK
  <2>4. SeenIsWatched' /\ DisarmedBeforeActing' /\ NoMasquerade' /\ LockHolds'
    BY <1>1, <1>3 DEF Inductive, SeenIsWatched, Replacing, Mode, DisarmedBeforeActing, NoMasquerade,
                      LockHolds
  <2>5. /\ pc' \in {"bladeburner", "deciding", "boundary"}
        /\ pc' = "boundary" => notice # None
        /\ pc' = "deciding" => notice = None
    BY <1>3
  <2>6. notice' = notice /\ (tick.boundary => notice # None)
    BY <1>1 DEF Inductive, NoticeInHand
  <2>7. tick.act = None
    BY <1>1 DEF Inductive, NoticeInHand
  <2>8. NoticeInHand'
    BY <2>2, <2>5, <2>6, <2>7 DEF NoticeInHand
  <2> QED
    BY <2>3, <2>4, <2>8 DEF Inductive, Base
<1> QED
  BY <1>1, <1>2, <1>3

LEMMA CareerLooksStep == Inductive /\ CareerLooks => Inductive'
<1> SUFFICES ASSUME Inductive, CareerLooks PROVE Inductive'
  OBVIOUS
<1>1. /\ WatcherOK' /\ changed' \in BOOLEAN
      /\ digest' = slot /\ unwatched' = FALSE /\ watched' = Unit(slot)
      /\ digest' \in Task \cup {None}
      /\ slot # None => /\ digest'.unit <= units /\ watched' # None /\ watched' = slot.unit
      /\ Mode(slot) = "progress" => watched' # None
  BY ObservesFacts DEF CareerLooks, Inductive
<1>2. /\ pc = "boundary" /\ UNCHANGED <<slot, units, read, bids, locked, holder, backoff, prestiged, faults>>
      /\ \/ /\ pc' = "deciding" /\ UNCHANGED <<notice, reviewed, lastMode>>
            /\ tick' = [tick EXCEPT !.boundary = TRUE]
            /\ slot # None => slot.work = tick.notice.work
         \/ /\ pc' = "bladeburner" /\ notice' = None
            /\ reviewed' = TRUE /\ lastMode' = Mode(slot) /\ tick' = tick
  BY DEF CareerLooks, AtBoundary, career, grants
<1>3. tick.notice # None /\ notice # None
  BY <1>2 DEF Inductive, NoticeInHand
<1>4. tick' \in [due : BOOLEAN, notice : Notice \cup {None}, boundary : BOOLEAN,
               mode : {"idle", "continuous", "progress"}, act : Actions \cup Works \cup {None}]
      /\ tick'.notice = tick.notice
  BY <1>2 DEF Inductive, Base, TypeOK, TickOK
<1>5. TypeOK'
  <2>1. TickOK'
    BY <1>2, <1>4 DEF TickOK
  <2>2. Mode(slot) \in {"idle", "continuous", "progress"} /\ unwatched' \in BOOLEAN
    BY <1>1 DEF Mode
  <2>3. ReadingsOK' /\ GrantsOK'
    BY <1>1, <1>2 DEF Inductive, Base, TypeOK, ReadingsOK, GrantsOK
  <2>4. CareerOK' /\ notice' \in Notice \cup {None}
    BY <1>2, <2>2 DEF Inductive, Base, TypeOK, CareerOK
  <2> QED
    BY <1>1, <1>2, <2>1, <2>2, <2>3, <2>4 DEF Inductive, Base, TypeOK
<1>6. UnitsInOrder' /\ WatchesTheSlot'
  BY <1>1, <1>2 DEF Inductive, Base, UnitsInOrder, WatchesTheSlot, Unit
<1>7. SeenIsWatched' /\ NoMasquerade'
  BY <1>1, <1>2 DEF Inductive, SeenIsWatched, NoMasquerade, Mode
<1>8. NoticeInHand'
  <2>1. tick.act = None /\ tick'.act = tick.act
    BY <1>2 DEF Inductive, NoticeInHand, Base, TypeOK, TickOK
  <2> QED
    BY <1>1, <1>2, <1>3, <1>4, <2>1 DEF NoticeInHand, Unit
<1> QED
  BY <1>2, <1>5, <1>6, <1>7, <1>8 DEF Inductive, Base, DisarmedBeforeActing, LockHolds

LEMMA CareerHoldsStep == Inductive /\ CareerHolds => Inductive'
<1> SUFFICES ASSUME Inductive, CareerHolds PROVE Inductive'
  OBVIOUS
<1>1. /\ pc = "deciding" /\ reviewed' = TRUE /\ lastMode' = tick.mode
      /\ \/ tick.notice = None /\ watched = None /\ pc' = "careerLooks"
         \/ /\ pc' = "bladeburner"
      /\ notice' = IF tick.notice # None /\ holder # "career" THEN None ELSE notice
      /\ UNCHANGED <<slot, units, listeners, watched, changed, digest, read, bids, locked, holder, tick,
                     backoff, unwatched, prestiged, faults>>
  BY DEF CareerHolds, Review, grants
<1>2. TypeOK'
  <2>1. tick.mode \in {"idle", "continuous", "progress"} /\ TickOK'
    BY <1>1 DEF Inductive, Base, TypeOK, TickOK
  <2> QED
    BY <1>1, <2>1 DEF Inductive, Base, TypeOK, WatcherOK, ReadingsOK, CareerOK, GrantsOK
<1>3. UnitsInOrder' /\ WatchesTheSlot'
  BY <1>1 DEF Inductive, Base, UnitsInOrder, WatchesTheSlot
<1>4. SeenIsWatched'
  <2> SUFFICES ASSUME Mode(digest) = "progress", ~unwatched, ~Replacing'
               PROVE  notice' # None \/ watched # None
    BY <1>1 DEF SeenIsWatched, Mode
  <2>1. notice # None \/ watched # None
    BY <1>1 DEF Inductive, SeenIsWatched, Replacing
  <2>2. CASE tick.notice # None
    <3>1. digest = slot /\ slot # None
      BY <1>1, <2>2 DEF Inductive, NoticeInHand, Mode
    <3>2. watched = slot.unit /\ slot.unit # None
      BY <1>1, <2>2, <3>1, NoneIsApart DEF Inductive, NoticeInHand, Base, TypeOK, ReadingsOK, Task
    <3> QED
      BY <3>2
  <2>3. CASE tick.notice = None
    BY <1>1, <2>1, <2>3
  <2> QED
    BY <2>2, <2>3
<1>5. NoticeInHand' /\ NoMasquerade' /\ LockHolds' /\ DisarmedBeforeActing'
  BY <1>1 DEF Inductive, NoticeInHand, NoMasquerade, LockHolds, DisarmedBeforeActing
<1> QED
  BY <1>2, <1>3, <1>4, <1>5 DEF Inductive, Base

LEMMA CareerDecidesStep == Inductive /\ CareerDecides => Inductive'
<1> SUFFICES ASSUME Inductive, CareerDecides PROVE Inductive'
  OBVIOUS
<1>1. PICK act \in Actions \ backoff :
        /\ MayDo(act)
        /\ tick' = [tick EXCEPT !.act = act]
        /\ IF act = "continue" THEN pc' = "careerLooks" /\ UNCHANGED <<listeners, watched>>
           ELSE pc' = "careerActs" /\ Disarm
  BY DEF CareerDecides
<1>2. /\ pc = "deciding" /\ reviewed' = TRUE /\ lastMode' = tick.mode
      /\ UNCHANGED <<slot, units, notice, changed, digest, read, bids, locked, holder, backoff,
                     unwatched, prestiged, faults>>
  BY DEF CareerDecides, Review, grants
<1>3. /\ tick' \in [due : BOOLEAN, notice : Notice \cup {None}, boundary : BOOLEAN,
               mode : {"idle", "continuous", "progress"}, act : Actions \cup Works \cup {None}]
      /\ tick'.notice = tick.notice /\ tick'.boundary = tick.boundary /\ tick'.act = act
      /\ tick.mode \in {"idle", "continuous", "progress"}
  BY <1>1 DEF Inductive, Base, TypeOK, TickOK
<1>4. /\ WatcherOK' /\ pc' \in {"careerActs", "careerLooks"}
      /\ act = "continue" => pc' = "careerLooks" /\ watched' = watched
      /\ act # "continue" => pc' = "careerActs" /\ watched' = None
  <2>1. CASE act = "continue"
    BY <1>1, <2>1 DEF Inductive, Base, TypeOK, WatcherOK
  <2>2. CASE act # "continue"
    BY <1>1, <2>2, DisarmFacts DEF Inductive
  <2> QED
    BY <2>1, <2>2
<1>5. TypeOK'
  <2>1. TickOK'
    BY <1>3, <1>4 DEF TickOK
  <2>2. ReadingsOK' /\ CareerOK' /\ GrantsOK'
    BY <1>2, <1>3 DEF Inductive, Base, TypeOK, ReadingsOK, CareerOK, GrantsOK
  <2> QED
    BY <1>2, <1>4, <2>1, <2>2 DEF Inductive, Base, TypeOK
<1>6. UnitsInOrder' /\ WatchesTheSlot'
  BY <1>2, <1>4 DEF Inductive, Base, UnitsInOrder, WatchesTheSlot
<1>7. SeenIsWatched' /\ DisarmedBeforeActing'
  BY <1>2, <1>3, <1>4 DEF Inductive, SeenIsWatched, DisarmedBeforeActing, Replacing, Mode
<1>8. NoticeInHand'
  <2>1. pc' = "careerActs" /\ act \in Works \cup {"stop"} /\ Mode(digest) = "progress" =>
          tick.notice # None /\ digest.work = tick.notice.work
    <3> SUFFICES ASSUME pc' = "careerActs", act \in Works \cup {"stop"}, Mode(digest) = "progress"
                 PROVE  tick.notice # None /\ digest.work = tick.notice.work
      OBVIOUS
    <3>0. digest # None
      BY DEF Mode
    <3>1. CASE act \in Works
      <4>1. act \notin {"stop", "continue", "errand"}
        BY <3>1, WorkAssumption DEF WorkAssumption
      <4>2. tick.boundary
        BY <1>1, <4>1 DEF MayDo
      <4> QED
        BY <1>2, <3>0, <4>2 DEF Inductive, NoticeInHand
    <3>2. CASE act = "stop"
      <4>1. "stop" \notin Works
        BY WorkAssumption DEF WorkAssumption
      <4> QED
        BY <1>1, <3>2, <4>1 DEF MayDo
    <3> QED
      BY <3>1, <3>2
  <2>2. Mode(digest)' = Mode(digest)
    BY <1>2 DEF Mode
  <2> QED
    BY <1>2, <1>3, <1>4, <2>1, <2>2 DEF Inductive, NoticeInHand
<1>9. NoMasquerade' /\ LockHolds'
  BY <1>2 DEF Inductive, NoMasquerade, LockHolds
<1> QED
  BY <1>5, <1>6, <1>7, <1>8, <1>9 DEF Inductive, Base

LEMMA CareerActsStep == Inductive /\ CareerActs => Inductive'
<1> SUFFICES ASSUME Inductive, CareerActs PROVE Inductive'
  OBVIOUS
<1>1. /\ pc = "careerActs" /\ pc' = "careerLooks"
      /\ Changes("replaced") \/ NothingStarts
      /\ UNCHANGED <<changed, digest, read, reviewed, lastMode, backoff, bids, locked, holder, tick,
                     unwatched, prestiged, faults>>
  BY DEF CareerActs, career, grants, Changes
<1>2. watched = None
  BY <1>1 DEF Inductive, DisarmedBeforeActing
<1>3. /\ slot' \in Task \cup {None} /\ units' \in 0..MaxUnit
      /\ \/ slot' = slot /\ units' = units
         \/ slot' = None /\ units <= units'
         \/ slot' # None /\ slot'.unit = units' /\ units' = units + 1
      /\ WatcherOK' /\ watched' = None /\ notice' = notice
  <2>1. CASE NothingStarts
    <3>1. UNCHANGED <<slot, units, listeners, watched, notice>>
      BY <2>1 DEF NothingStarts
    <3> QED
      BY <1>2, <3>1 DEF Inductive, Base, TypeOK, ReadingsOK, WatcherOK
  <2>2. CASE Changes("replaced")
    <3>1. "replaced" \in Causes
      BY DEF Causes
    <3>2. /\ slot' \in Task \cup {None} /\ units' \in 0..MaxUnit /\ units <= units'
          /\ slot' # None => slot'.unit = units' /\ units' = units + 1
          /\ WatcherOK' /\ watched' = None
          /\ watched = None => notice' = notice
      BY <2>2, <3>1, ChangesFacts DEF Inductive
    <3> QED
      BY <1>2, <3>2
  <2> QED
    BY <1>1, <2>1, <2>2
<1>4. TypeOK'
  BY <1>1, <1>3 DEF Inductive, Base, TypeOK, ReadingsOK, CareerOK, GrantsOK, TickOK
<1>5. UnitsInOrder' /\ WatchesTheSlot' /\ LockHolds'
  <2>1. /\ units \in Nat /\ units' \in Nat /\ (locked # None => locked \in Nat)
        /\ (digest # None => digest.unit \in Nat) /\ (read # None => read.unit \in Nat)
    BY <1>3, WorkAssumption DEF Inductive, Base, TypeOK, ReadingsOK, GrantsOK, Task, WorkAssumption
  <2>2. UnitsInOrder /\ LockHolds
    BY DEF Inductive, Base
  <2>3. UnitsInOrder'
    BY <1>1, <1>3, <2>1, <2>2 DEF UnitsInOrder
  <2>4. slot' # slot => ~(slot' # None /\ locked' = slot'.unit)
    BY <1>1, <1>3, <2>1, <2>2, WorkAssumption DEF UnitsInOrder, WorkAssumption
  <2> QED
    BY <1>1, <1>3, <2>2, <2>3, <2>4 DEF LockHolds, WatchesTheSlot
<1>6. tick.act \notin {None, "continue"}
  <2>1. tick.act \in Actions \ {"continue"}
    BY <1>1 DEF Inductive, NoticeInHand
  <2>2. None \notin Actions
    BY WorkAssumption DEF WorkAssumption, Actions, Works, Progress
  <2> QED
    BY <2>1, <2>2
<1>7. SeenIsWatched' /\ DisarmedBeforeActing' /\ NoMasquerade'
  BY <1>1, <1>3, <1>6 DEF Inductive, SeenIsWatched, Replacing, Mode, DisarmedBeforeActing, NoMasquerade
<1>8. NoticeInHand'
  BY <1>1, <1>3 DEF Inductive, NoticeInHand
<1> QED
  BY <1>4, <1>5, <1>7, <1>8 DEF Inductive, Base

LEMMA CareerConcludesStep == Inductive /\ CareerConcludes => Inductive'
<1> SUFFICES ASSUME Inductive, CareerConcludes PROVE Inductive'
  OBVIOUS
<1>1. /\ WatcherOK' /\ changed' \in BOOLEAN
      /\ digest' = slot /\ unwatched' = FALSE /\ watched' = Unit(slot)
      /\ digest' \in Task \cup {None}
      /\ slot # None => /\ digest'.unit <= units /\ watched' # None /\ watched' = slot.unit
      /\ Mode(slot) = "progress" => watched' # None
  BY ObservesFacts DEF CareerConcludes, Inductive
<1>2. /\ pc = "careerLooks" /\ pc' = "bladeburner" /\ lastMode' = Mode(slot)
      /\ notice' = IF tick.notice # None THEN None ELSE notice
      /\ UNCHANGED <<slot, units, read, reviewed, backoff, bids, locked, holder, tick, prestiged, faults>>
  BY DEF CareerConcludes, grants
<1>3. TypeOK'
  <2>1. Mode(slot) \in {"idle", "continuous", "progress"} /\ unwatched' \in BOOLEAN
    BY <1>1 DEF Mode
  <2>2. ReadingsOK' /\ GrantsOK' /\ TickOK'
    BY <1>1, <1>2 DEF Inductive, Base, TypeOK, ReadingsOK, GrantsOK, TickOK
  <2>3. CareerOK' /\ notice' \in Notice \cup {None}
    BY <1>2, <2>1 DEF Inductive, Base, TypeOK, CareerOK
  <2> QED
    BY <1>1, <1>2, <2>1, <2>2, <2>3 DEF Inductive, Base, TypeOK
<1>4. UnitsInOrder' /\ WatchesTheSlot'
  BY <1>1, <1>2 DEF Inductive, Base, UnitsInOrder, WatchesTheSlot, Unit
<1>5. SeenIsWatched' /\ NoMasquerade'
  BY <1>1, <1>2 DEF Inductive, SeenIsWatched, NoMasquerade, Mode
<1>6. NoticeInHand' /\ DisarmedBeforeActing' /\ LockHolds'
  BY <1>2 DEF Inductive, NoticeInHand, DisarmedBeforeActing, LockHolds
<1> QED
  BY <1>3, <1>4, <1>5, <1>6 DEF Inductive, Base

LEMMA CareerFailsStep == Inductive /\ CareerFails => Inductive'
<1> SUFFICES ASSUME Inductive, CareerFails PROVE Inductive'
  OBVIOUS
<1> DEFINE replacing == pc # "boundary" /\ tick.act \notin {None, "continue"}
<1>1. /\ pc \in {"boundary", "careerActs", "careerLooks"} /\ pc' = "bladeburner"
      /\ backoff' = IF pc = "boundary" THEN backoff ELSE backoff \cup ({tick.act} \ {None})
      /\ unwatched' = (unwatched \/ replacing) /\ faults' \in 0..MaxFaults
      /\ UNCHANGED <<slot, units, listeners, watched, notice, changed, digest, read, reviewed, lastMode,
                     bids, locked, holder, tick, prestiged>>
  BY FaultFacts DEF CareerFails, watcher, grants, Inductive
<1>2. unwatched' \in BOOLEAN /\ (unwatched' <=> unwatched \/ replacing)
  BY <1>1, Zenon DEF Inductive, Base, TypeOK
<1>3. pc # "boundary" => tick.act \in Actions \cup {None}
  BY <1>1 DEF Inductive, NoticeInHand
<1>4. backoff' \subseteq Actions
  BY <1>1, <1>3 DEF Inductive, Base, TypeOK, CareerOK
<1>5. TypeOK'
  <2>1. WatcherOK' /\ ReadingsOK' /\ GrantsOK' /\ TickOK' /\ CareerOK'
    BY <1>1, <1>4 DEF Inductive, Base, TypeOK, WatcherOK, ReadingsOK, GrantsOK, TickOK, CareerOK
  <2> QED
    BY <1>1, <1>2, <2>1 DEF Inductive, Base, TypeOK
<1>6. UnitsInOrder' /\ WatchesTheSlot'
  BY <1>1 DEF Inductive, Base, UnitsInOrder, WatchesTheSlot
<1>7. SeenIsWatched'
  <2>1. Replacing => replacing
    <3>1. None \notin Actions
      BY WorkAssumption DEF WorkAssumption, Actions, Works, Progress
    <3> QED
      BY <1>1, <3>1 DEF Replacing, Inductive, NoticeInHand
  <2> QED
    BY <1>1, <1>2, <2>1 DEF Inductive, SeenIsWatched, Mode
<1>8. NoticeInHand' /\ DisarmedBeforeActing' /\ NoMasquerade' /\ LockHolds'
  BY <1>1 DEF Inductive, NoticeInHand, DisarmedBeforeActing, NoMasquerade, LockHolds
<1> QED
  BY <1>5, <1>6, <1>7, <1>8 DEF Inductive, Base

LEMMA BladeburnerTickStep == Inductive /\ BladeburnerTick => Inductive'
<1> SUFFICES ASSUME Inductive, BladeburnerTick PROVE Inductive'
  OBVIOUS
<1>1. /\ pc = "bladeburner" /\ pc' = "top" /\ tick' = NoTick
      /\ Changes("taken") \/ NothingStarts
      /\ UNCHANGED <<changed, digest, read, reviewed, lastMode, backoff, bids, locked, holder,
                     unwatched, prestiged, faults>>
  BY DEF BladeburnerTick, career, grants, Changes
<1>2. /\ slot' \in Task \cup {None} /\ units' \in 0..MaxUnit /\ units <= units'
      /\ slot' # slot /\ slot' # None => slot'.unit = units'
      /\ slot' = slot => units' = units \/ slot' = None
      /\ WatcherOK'
      /\ watched' = None \/ (watched' = watched /\ slot' = slot)
      /\ notice' \in Notice \cup {None} /\ (notice # None => notice' # None)
      /\ watched # None => notice' # None \/ watched' # None
      /\ NoMasquerade'
  <2>0. notice \in Notice \cup {None} /\ NoMasquerade /\ units \in 0..MaxUnit
    BY DEF Inductive, Base, TypeOK, ReadingsOK
  <2>1. CASE NothingStarts
    <3>1. UNCHANGED <<slot, units, listeners, watched, notice>>
      BY <2>1 DEF NothingStarts
    <3> QED
      BY <3>1 DEF Inductive, Base, TypeOK, ReadingsOK, WatcherOK, NoMasquerade
  <2>2. CASE Changes("taken")
    <3>1. "taken" \in Causes
      BY DEF Causes
    <3>2. /\ slot' \in Task \cup {None} /\ units' \in 0..MaxUnit /\ units <= units'
          /\ slot' # None => slot'.unit = units' /\ units' = units + 1
          /\ WatcherOK' /\ watched' = None
          /\ watched = None => notice' = notice
          /\ watched # None => /\ notice' = [work |-> slot.work, cause |-> "taken"]
                               /\ notice' \in Notice /\ notice' # None
      BY <2>2, <3>1, ChangesFacts DEF Inductive
    <3>3. slot' = slot => slot' = None
      BY <2>0, <3>2 DEF Inductive, Base, UnitsInOrder
    <3> QED
      BY <2>0, <3>2, <3>3 DEF NoMasquerade
  <2> QED
    BY <1>1, <2>1, <2>2
<1>3. TickOK' /\ tick'.notice = None /\ tick'.boundary = FALSE
  BY <1>1 DEF NoTick, TickOK
<1>4. TypeOK'
  BY <1>1, <1>2, <1>3 DEF Inductive, Base, TypeOK, ReadingsOK, CareerOK, GrantsOK
<1>5. UnitsInOrder' /\ WatchesTheSlot'
  <2>1. /\ units \in Nat /\ units' \in Nat /\ (locked # None => locked \in Nat)
        /\ (digest # None => digest.unit \in Nat) /\ (read # None => read.unit \in Nat)
    BY <1>2, WorkAssumption DEF Inductive, Base, TypeOK, ReadingsOK, GrantsOK, Task, WorkAssumption
  <2>2. UnitsInOrder /\ WatchesTheSlot
    BY DEF Inductive, Base
  <2> QED
    BY <1>1, <1>2, <2>1, <2>2 DEF UnitsInOrder, WatchesTheSlot
<1>6. SeenIsWatched'
  BY <1>1, <1>2 DEF Inductive, SeenIsWatched, Replacing, Mode
<1>7. NoticeInHand' /\ DisarmedBeforeActing' /\ LockHolds'
  BY <1>1, <1>3 DEF NoticeInHand, DisarmedBeforeActing, LockHolds
<1> QED
  BY <1>2, <1>4, <1>5, <1>6, <1>7 DEF Inductive, Base

-----------------------------------------------------------------------------
(* Theorems                                                                 *)

LEMMA InitIsInductive == Init => Inductive
<1> SUFFICES ASSUME Init PROVE Inductive
  OBVIOUS
<1>0. reviewed \in BOOLEAN /\ changed \in BOOLEAN /\ unwatched \in BOOLEAN /\ prestiged \in BOOLEAN
  BY Zenon DEF Init
<1>1. WatcherOK /\ ReadingsOK /\ CareerOK
  <2>1. WatcherOK
    BY DEF Init, WatcherOK
  <2>2. ReadingsOK
    BY WorkAssumption DEF Init, ReadingsOK, WorkAssumption
  <2>3. CareerOK
    BY <1>0 DEF Init, CareerOK
  <2> QED
    BY <2>1, <2>2, <2>3
<1>2. GrantsOK
  BY DEF Init, GrantsOK, Features, Silent, Lock
<1>3. TickOK
  BY DEF Init, TickOK, NoTick
<1>4. TypeOK
  <2>1. notice = None /\ faults = 0 /\ MaxFaults \in Nat
    BY WorkAssumption DEF Init, WorkAssumption
  <2> QED
    BY <1>0, <1>1, <1>2, <1>3, <2>1 DEF TypeOK
<1> QED
  BY <1>4 DEF Init, Inductive, Base, UnitsInOrder, WatchesTheSlot, SeenIsWatched, Mode,
     DisarmedBeforeActing, NoticeInHand, NoTick, NoMasquerade, LockHolds

LEMMA StutterStep == Inductive /\ UNCHANGED vars => Inductive'
<1> SUFFICES ASSUME Inductive, UNCHANGED vars PROVE Inductive'
  OBVIOUS
<1>1. UNCHANGED <<slot, units, listeners, watched, notice, changed, digest, read, reviewed, lastMode,
                  backoff, bids, locked, holder, pc, tick, unwatched, prestiged, faults>>
  BY DEF vars, watcher, career, grants
<1>2. Base'
  BY <1>1 DEF Inductive, Base, TypeOK, WatcherOK, ReadingsOK, CareerOK, GrantsOK, TickOK,
              UnitsInOrder, WatchesTheSlot
<1> QED
  BY <1>1, <1>2 DEF Inductive, SeenIsWatched, Replacing, Mode, DisarmedBeforeActing, NoticeInHand,
                    NoMasquerade, LockHolds

LEMMA EveryStep == Inductive /\ [Next]_vars => Inductive'
  BY UnitEndsStep, PlayerActsStep, PrestigeStep, BackoffLapsesStep, ResetWalkStep, ProbeReadsStep,
     ProbeEmitsStep, PassStep, FactionsIdleStep, FactionsDecidesStep, FactionsActsStep,
     FactionsLooksStep, FactionsFailsStep, CareerTickStep, CareerLooksStep, CareerHoldsStep,
     CareerDecidesStep, CareerActsStep, CareerConcludesStep, CareerFailsStep, BladeburnerTickStep,
     StutterStep
     DEF Next, Environment, Drivers

\* The inductive invariant holds in every reachable state.
THEOREM Invariance == Spec => []Inductive
  BY InitIsInductive, EveryStep, PTL DEF Spec

\* Every variable keeps its type, and at most the unit last armed on is watched.
THEOREM TypeCorrect == Spec => []TypeOK
<1>1. Inductive => TypeOK
  BY DEF Inductive, Base
<1> QED
  BY <1>1, Invariance, PTL

\* Progress work that was seen is watched, or its notice waits, between passes.
THEOREM SeenWorkIsWatched == Spec => []ProgressWatched
<1>1. Inductive => ProgressWatched
  BY DEF Inductive, Base, SeenIsWatched, WatchesTheSlot, Replacing, ProgressWatched
<1> QED
  BY <1>1, Invariance, PTL

\* Work that was replaced on purpose never leaves a notice.
THEOREM ReplacedIsNoCompletion == Spec => []NoMasquerade
<1>1. Inductive => NoMasquerade
  BY DEF Inductive
<1> QED
  BY <1>1, Invariance, PTL

\* Career cuts a unit the planner sees only as the boundary of a notice for the
\* same work, an errand never, and another driver only past career's standing
\* claim for that unit or under a mandatory one (stepCareer of features/career.ts,
\* resolveSlot of strategy/arbiter.ts, the tick of dispatchFeature).
THEOREM SeenUnitIsKept == Spec => KnownUnitKept
<1>1. ASSUME Inductive, [Next]_vars PROVE [Cuts => MayCut]_vars
  <2> SUFFICES ASSUME Cuts PROVE MayCut
    OBVIOUS
  <2>1. CASE CareerActs
    <3>1. pc = "careerActs" /\ Mode(digest) = "progress"
      BY <2>1 DEF CareerActs, Cuts, Known
    <3>2. tick.act \in Works \cup {"stop"}
      <4>1. slot.work \notin Jobs
        BY <2>1, WorkAssumption DEF Cuts, Known, Mode, WorkAssumption
      <4> QED
        BY <2>1, <4>1 DEF CareerActs, NothingStarts, Cuts
    <3>3. tick.notice # None /\ digest.work = tick.notice.work /\ digest = slot
      BY <1>1, <2>1, <3>1, <3>2 DEF Inductive, NoticeInHand, Cuts, Known
    <3> QED
      BY <3>1, <3>3 DEF MayCut
  <2>2. CASE BladeburnerTick
    <3>1. pc = "bladeburner" /\ holder = "bladeburner" /\ slot # None
      BY <2>2 DEF BladeburnerTick, NothingStarts, Cuts, Known
    <3> QED
      BY <1>1, <3>1 DEF Inductive, LockHolds, MayCut
  <2>3. CASE FactionsActs
    <3>1. pc = "factionsActs" /\ slot # None
      BY <2>3 DEF FactionsActs, Cuts, Known
    <3>2. holder = "factions"
      BY <1>1, <3>1 DEF Inductive, NoticeInHand
    <3> QED
      BY <1>1, <3>1, <3>2 DEF Inductive, LockHolds, MayCut
  <2> QED
    BY <2>1, <2>2, <2>3 DEF Cuts
<1> QED
  BY <1>1, Invariance, PTL DEF Spec, KnownUnitKept
=============================================================================
