------------------------------ MODULE WorkSlot ------------------------------
(***************************************************************************)
(* Player.currentWork, the one piece of player work the game runs, and     *)
(* the three features that compete for it: the completion watcher          *)
(* (work-completion.ts), career's driver and claims (features/career.ts),   *)
(* the slot half of the arbiter (strategy/arbiter.ts), factions' work and   *)
(* grafts, Bladeburner's actions, and the 30-second probe of the slot.      *)
(*                                                                         *)
(* The controller is one sequential loop: probe, claims, arbitration, then  *)
(* the due drivers one after the other.  At each of its awaits the engine   *)
(* may finish a unit of work, or the player may change it.  An action is    *)
(* one stretch between awaits.  What a plan is worth is left free, and so   *)
(* is the clock: a cadence lapses, or does not, at any pass.                *)
(***************************************************************************)
EXTENDS Integers, FiniteSets

CONSTANTS
  Crimes,    \* repeating progress work: a finished unit starts the next
  Grafts,    \* progress work that ends with its unit
  Jobs,      \* continuous work of career: company, class, program
  Programs,  \* those of them that end by themselves
  Factions,  \* continuous work of the factions driver
  MaxUnit,   \* bound on the units of work ever started
  MaxFaults, \* bound on failed calls, prestiges and actions of the player
  None

Progress == Crimes \cup Grafts
Works == Progress \cup Jobs \cup Factions
Task == [work : Works, unit : 1..MaxUnit]       \* a unit of work and its promise
Causes == {"banked", "cancelled", "taken", "replaced"}
Notice == [work : Works, cause : Causes]
Actions == Crimes \cup Jobs \cup {"stop", "continue", "errand"}
Features == {"career", "factions", "bladeburner"}
Mandatory == 121   Lock == 120   Ordinary == 60   Priced == 0   Silent == -1

ASSUME WorkAssumption ==
  /\ Progress \cap (Jobs \cup Factions) = {} /\ Jobs \cap Factions = {}
  /\ Crimes \cap Grafts = {} /\ Programs \subseteq Jobs
  /\ Works \cap {"stop", "continue", "errand"} = {}
  /\ None \notin Works \cup {"stop", "continue", "errand"} \cup Features
  /\ None \notin Nat /\ None \notin Notice
  /\ MaxUnit \in Nat /\ MaxFaults \in Nat

VARIABLES
  slot,       \* Player.currentWork, or None
  units,      \* units started so far
  listeners,  \* callbacks attached to promises; current: with the latest token
  watched,    \* workPromise: the unit watched, or None
  notice,     \* workNotice; cause is history: how the unit really ended
  changed,    \* workChanged
  digest,     \* topics.career.currentWork; unit is what its observation saw
  read,       \* the probe's own reading, until it is emitted
  reviewed,   \* lastReviewedAt is set
  lastMode,   \* lastWorkMode
  bids,       \* contributions: the standing time claim of each feature
  locked,     \* the unit career's standing claim locks the slot for, or None
  holder,     \* workSlot: who was granted the slot
  pc,         \* where the loop is
  tick,       \* the running tick: career is due, its peeked notice, boundary, mode, action
  backoff,    \* executeBackoff: actions that failed lately
  unwatched,  \* history: a call failed between a disarm and the next look
  prestiged,  \* the node ended and the gate has not seen it
  faults

watcher == <<listeners, watched, notice, changed>>
career == <<reviewed, lastMode, backoff>>
grants == <<bids, locked, holder>>
vars == <<slot, units, watcher, digest, read, career, grants, pc, tick, unwatched, prestiged, faults>>

NoTick == [due |-> FALSE, notice |-> None, boundary |-> FALSE, mode |-> "idle", act |-> None]
Mode(task) == IF task = None THEN "idle" ELSE IF task.work \in Progress THEN "progress" ELSE "continuous"
Unit(task) == IF task = None THEN None ELSE task.unit

Init ==
  /\ slot = None /\ units = 0
  /\ listeners = {} /\ watched = None /\ notice = None /\ changed = FALSE
  /\ digest = None /\ read = None
  /\ reviewed = FALSE /\ lastMode = "none" /\ backoff = {}
  /\ bids = [f \in Features |-> Silent] /\ locked = None /\ holder = None
  /\ pc = "top" /\ tick = NoTick
  /\ unwatched = FALSE /\ prestiged = FALSE /\ faults = 0

-----------------------------------------------------------------------------
(* The watcher.  A callback whose token is not the latest one does nothing. *)

Stale(ls) == {[l EXCEPT !.current = FALSE] : l \in ls}

Arm == \* on the task in the slot, as getCurrentWork just returned it
  IF slot = None \/ watched = Unit(slot)
  THEN UNCHANGED <<listeners, watched, changed>>
  ELSE /\ watched' = slot.unit
       /\ changed' = TRUE
       /\ listeners' = Stale(listeners)
            \cup {[work |-> slot.work, unit |-> slot.unit, current |-> TRUE]}

\* Mutant: disarming forgets the promise and not its token.
DisarmPromiseOnly ==
  /\ watched' = None
  /\ UNCHANGED listeners

Disarm ==
  /\ listeners' = Stale(listeners)
  /\ watched' = None

\* Mutant: a promise that resolved stays the watched one.
ResolvesStillWatched(cause) ==
  LET heard == {l \in listeners : slot # None /\ l.unit = slot.unit} IN
  /\ listeners' = listeners \ heard
  /\ notice' = IF \E l \in heard : l.current THEN [work |-> slot.work, cause |-> cause] ELSE notice
  /\ UNCHANGED watched

\* The promise of the slot's unit resolves: it was banked, cancelled by the
\* player, taken by a driver that does not disarm, or replaced by one that does.
Resolves(cause) ==
  LET heard == {l \in listeners : slot # None /\ l.unit = slot.unit} IN
  /\ listeners' = listeners \ heard
  /\ IF \E l \in heard : l.current
     THEN /\ watched' = None
          /\ notice' = [work |-> slot.work, cause |-> cause]
     ELSE UNCHANGED <<watched, notice>>

\* Work w starts in the slot and ends the unit that was there.
Starts(w, cause) ==
  /\ units < MaxUnit
  /\ units' = units + 1
  /\ slot' = [work |-> w, unit |-> units + 1]
  /\ Resolves(cause)
Stops(cause) ==
  /\ slot' = None
  /\ Resolves(cause)
  /\ UNCHANGED units
NothingStarts == UNCHANGED <<slot, units, listeners, watched, notice>>

-----------------------------------------------------------------------------
(* The engine and the player, at any await of the loop.                     *)

Awaiting == pc # "deciding"
Fault == faults < MaxFaults /\ faults' = faults + 1
Loop == <<digest, read, career, grants, pc, tick, changed, unwatched>>

UnitEnds ==
  /\ Awaiting /\ slot # None
  /\ \/ slot.work \in Crimes /\ Starts(slot.work, "banked")
     \/ slot.work \in Grafts \cup Programs /\ Stops("banked")
  /\ UNCHANGED <<Loop, prestiged, faults>>

PlayerActs ==
  /\ Awaiting /\ Fault
  /\ \/ \E w \in Works : Starts(w, "cancelled")
     \/ slot # None /\ Stops("cancelled")
  /\ UNCHANGED <<Loop, prestiged>>

Prestige ==
  /\ Awaiting /\ Fault
  /\ Stops("cancelled")
  /\ prestiged' = TRUE
  /\ UNCHANGED Loop

-----------------------------------------------------------------------------
(* The loop: reset walk, probe, claims and arbitration.                     *)

ResetWalk ==
  /\ pc = "top" /\ prestiged
  /\ prestiged' = FALSE
  /\ Disarm /\ notice' = None /\ changed' = FALSE
  /\ digest' = None /\ reviewed' = FALSE /\ lastMode' = "none" /\ backoff' = {}
  /\ bids' = [f \in Features |-> Silent] /\ locked' = None /\ holder' = None
  /\ unwatched' = FALSE
  /\ UNCHANGED <<slot, units, read, pc, tick, faults>>

ProbeReads == \* career.work
  /\ pc = "top"
  /\ Arm /\ read' = slot
  /\ pc' = "probed"
  /\ UNCHANGED <<slot, units, notice, digest, career, grants, tick, unwatched, prestiged, faults>>

ProbeEmits ==
  /\ pc = "probed"
  /\ \/ digest' = read /\ unwatched' = FALSE /\ UNCHANGED faults
     \/ Fault /\ UNCHANGED <<digest, unwatched>>
  /\ read' = None
  /\ pc' = "pass"
  /\ UNCHANGED <<slot, units, watcher, career, grants, tick, prestiged>>

CareerWakes == changed \/ notice # None \/ lastMode = "idle"

\* progressLockUntil: the progress unit last seen, while no notice waits and by
\* the clock it has not banked.  When it will is an estimate, and none without
\* its duration: the lock may end before the unit does, or after.
Locks(unit) ==
  unit # None => unit = Unit(digest) /\ Mode(digest) = "progress" /\ notice = None

\* What a feature bids when it is due; its standing claim is kept when it is not.
Bids(f, due, fresh) == IF f \in due THEN fresh ELSE {bids[f]}

\* resolveSlot: whom the slot may go to.  Hard claims go by their priority and a
\* challenger needs a margin; between priced ones the values decide, left free.
Margin == 10  \* PREEMPT_MARGIN
Leaders(bid, fs) == {f \in fs : bid[f] # Silent /\ \A g \in fs : bid[g] <= bid[f]}
Winners(bid, incumbent, held) ==
  LET challengers == Leaders(bid, Features \ {incumbent})
      beats(f) == bid[f] > bid[incumbent] + IF bid[incumbent] = Priced THEN 0 ELSE Margin
      ties(f) == bid[f] = Priced /\ bid[incumbent] = Priced
  IN IF incumbent = None THEN Leaders(bid, Features)
     ELSE IF held THEN {incumbent}
     ELSE IF \E f \in challengers : beats(f) THEN challengers
     ELSE {incumbent} \cup {f \in challengers : ties(f)}

\* An incumbent that asks no more, or for another faction, is none.
Incumbents == IF holder = None \/ bids'[holder] = Silent THEN {None}
              ELSE {holder} \cup (IF holder = "factions" THEN {None} ELSE {})

Pass ==
  /\ pc \in {"top", "pass"}
  /\ \E due \in SUBSET Features :
       /\ CareerWakes => "career" \in due
       /\ IF "career" \in due THEN \E u \in {None, Unit(digest)} : Locks(u) /\ locked' = u
          ELSE UNCHANGED locked
       /\ \E c \in Bids("career", due, {IF locked' = None THEN Priced ELSE Lock}),
             f \in Bids("factions", due, {Silent, Priced, Ordinary, Mandatory}),
             b \in Bids("bladeburner", due, {Silent, Priced, Ordinary}) :
               bids' = [career |-> c, factions |-> f, bladeburner |-> b]
       /\ \E incumbent \in Incumbents, lapsed \in BOOLEAN : \* the hold of a standing claim
            LET held == incumbent = "career" /\ locked' # None /\ ~lapsed
                won == Winners(bids', incumbent, held)
            IN IF won = {} THEN holder' = None ELSE holder' \in won
       /\ tick' = IF "career" \in due THEN [NoTick EXCEPT !.due = TRUE] ELSE NoTick
  /\ pc' = "factions"
  /\ UNCHANGED <<slot, units, watcher, digest, read, career, unwatched, prestiged, faults>>

-----------------------------------------------------------------------------
(* The drivers, in the order of FEATURE_IDS.                                *)

\* Mutant: a look publishes what it saw and does not arm.
ObservesUnarmed ==
  /\ digest' = slot
  /\ unwatched' = FALSE
  /\ UNCHANGED <<listeners, watched, changed>>

Observes == \* getCurrentWork, arm, publish the digest
  /\ Arm
  /\ digest' = slot
  /\ unwatched' = FALSE

FactionsIdle ==
  /\ pc = "factions"
  /\ pc' = "career"
  /\ UNCHANGED <<slot, units, watcher, digest, read, career, grants, tick, unwatched, prestiged, faults>>

FactionsDecides == \* needs the slot, and leaves a graft it knows of alone
  /\ pc = "factions" /\ holder = "factions"
  /\ digest # None => digest.work \notin Grafts
  /\ \E w \in Factions \cup Grafts :
       /\ tick' = [tick EXCEPT !.act = w]
       /\ IF w \in Grafts THEN Disarm ELSE UNCHANGED <<listeners, watched>>
  /\ pc' = "factionsActs"
  /\ UNCHANGED <<slot, units, notice, changed, digest, read, career, grants, unwatched, prestiged, faults>>

FactionsActs ==
  /\ pc = "factionsActs"
  /\ LET graft == tick.act \in Grafts IN
     /\ \/ Starts(tick.act, IF graft THEN "replaced" ELSE "taken")
        \/ NothingStarts
     /\ pc' = IF graft THEN "factionsLooks" ELSE "career"
     /\ tick' = IF graft THEN tick ELSE [tick EXCEPT !.act = None]
  /\ UNCHANGED <<changed, digest, read, career, grants, unwatched, prestiged, faults>>

FactionsLooks ==
  /\ pc = "factionsLooks"
  /\ Observes
  /\ pc' = "career"
  /\ tick' = [tick EXCEPT !.act = None]
  /\ UNCHANGED <<slot, units, notice, read, career, grants, prestiged, faults>>

FactionsFails ==
  /\ pc \in {"factionsActs", "factionsLooks"} /\ Fault
  /\ unwatched' = (unwatched \/ tick.act \in Grafts)
  /\ pc' = "career"
  /\ tick' = [tick EXCEPT !.act = None]
  /\ UNCHANGED <<slot, units, watcher, digest, read, career, grants, prestiged>>

\* Mutant: a notice does not make the review due.
ScheduledByClock(mode) == ~reviewed \/ mode = "idle"

\* careerSchedule: a progress task is reviewed on its notice only.
Scheduled(mode) == \/ ~reviewed \/ notice # None \/ mode = "idle"

CareerTick ==
  /\ pc = "career"
  /\ LET mode == Mode(digest) IN
     IF ~tick.due THEN pc' = "bladeburner" /\ UNCHANGED <<changed, tick>>
     ELSE /\ changed' = FALSE
          /\ tick' = [tick EXCEPT !.notice = notice, !.mode = mode]
          /\ \/ /\ Scheduled(mode) \/ mode = "continuous"
                /\ pc' = IF notice = None THEN "deciding" ELSE "boundary"
             \/ ~Scheduled(mode) /\ pc' = "bladeburner"
  /\ UNCHANGED <<slot, units, listeners, watched, notice, digest, read, career, grants, unwatched,
                 prestiged, faults>>

\* The slot is looked at again before the notice counts as a boundary.
AtBoundary(task) == task = None \/ task.work = tick.notice.work

CareerLooks ==
  /\ pc = "boundary"
  /\ Observes
  /\ IF AtBoundary(slot)
     THEN /\ pc' = "deciding"
          /\ tick' = [tick EXCEPT !.boundary = TRUE]
          /\ UNCHANGED <<notice, career>>
     ELSE /\ pc' = "bladeburner"
          /\ notice' = None
          /\ reviewed' = TRUE /\ lastMode' = Mode(slot)
          /\ UNCHANGED <<backoff, tick>>
  /\ UNCHANGED <<slot, units, read, grants, prestiged, faults>>

Review == reviewed' = TRUE /\ lastMode' = tick.mode

\* stepCareer: what it may decide for the slot it sees.  An errand is an
\* application, a promotion, a resignation or a journey: it needs no slot.
Same(w) == digest # None /\ digest.work = w
\* Mutant: unbanked work is replaced without a boundary.
MayDoAnyTime(act) ==
  \/ act \in Works /\ holder = "career" /\ ~Same(act)
  \/ act = "continue" /\ holder = "career" /\ tick.boundary /\ \E w \in Crimes \cup Jobs : Same(w)
  \/ act = "stop" /\ holder = "career" /\ Mode(digest) = "continuous"
  \/ act = "errand"

MayDo(act) ==
  \/ act \in Works /\ holder = "career" /\ ~Same(act) /\ (Mode(digest) = "progress" => tick.boundary)
  \/ act = "continue" /\ holder = "career" /\ tick.boundary /\ \E w \in Crimes \cup Jobs : Same(w)
  \/ act = "stop" /\ holder = "career" /\ Mode(digest) = "continuous"
  \/ act = "errand"

\* No action, or one that failed lately: the notice stays unless another feature
\* has the slot.  A progress task nobody watches is looked at.
CareerHolds ==
  /\ pc = "deciding"
  /\ Review
  /\ \/ /\ tick.notice = None /\ Mode(digest) = "progress" /\ watched = None
        /\ pc' = "careerLooks"
     \/ /\ tick.notice # None \/ Mode(digest) # "progress" \/ watched # None
           \/ \E act \in backoff : MayDo(act)
        /\ pc' = "bladeburner"
  /\ notice' = IF tick.notice # None /\ holder # "career" THEN None ELSE notice
  /\ UNCHANGED <<slot, units, listeners, watched, changed, digest, read, grants, tick, backoff,
                 unwatched, prestiged, faults>>

CareerDecides == \* everything but "continue" goes through replaceWork
  /\ pc = "deciding"
  /\ \E act \in Actions \ backoff :
       /\ MayDo(act)
       /\ tick' = [tick EXCEPT !.act = act]
       /\ IF act = "continue" THEN pc' = "careerLooks" /\ UNCHANGED <<listeners, watched>>
          ELSE pc' = "careerActs" /\ Disarm
  /\ Review
  /\ UNCHANGED <<slot, units, notice, changed, digest, read, grants, backoff, unwatched, prestiged, faults>>

CareerActs == \* a resignation is an errand that ends the work of its company
  /\ pc = "careerActs"
  /\ \/ tick.act \in Works /\ Starts(tick.act, "replaced")
     \/ tick.act = "stop" /\ Stops("replaced")
     \/ tick.act = "errand" /\ slot # None /\ slot.work \in Jobs \ Programs /\ Stops("replaced")
     \/ tick.act # "stop" /\ NothingStarts
  /\ pc' = "careerLooks"
  /\ UNCHANGED <<changed, digest, read, career, grants, tick, unwatched, prestiged, faults>>

CareerConcludes ==
  /\ pc = "careerLooks"
  /\ Observes
  /\ lastMode' = Mode(slot)
  /\ notice' = IF tick.notice # None THEN None ELSE notice
  /\ pc' = "bladeburner"
  /\ UNCHANGED <<slot, units, read, reviewed, backoff, grants, tick, prestiged, faults>>

CareerFails == \* the notice is kept; an action that failed rests for a while
  /\ pc \in {"boundary", "careerActs", "careerLooks"} /\ Fault
  /\ backoff' = IF pc = "boundary" THEN backoff ELSE backoff \cup ({tick.act} \ {None})
  /\ unwatched' = (unwatched \/ (pc # "boundary" /\ tick.act \notin {None, "continue"}))
  /\ pc' = "bladeburner"
  /\ UNCHANGED <<slot, units, watcher, digest, read, reviewed, lastMode, grants, tick, prestiged>>

BackoffLapses ==
  /\ Awaiting /\ backoff # {}
  /\ backoff' = {}
  /\ UNCHANGED <<slot, units, watcher, digest, read, reviewed, lastMode, grants, pc, tick,
                 unwatched, prestiged, faults>>

BladeburnerTick == \* an action of its own ends the player's work
  /\ pc = "bladeburner"
  /\ \/ holder = "bladeburner" /\ slot # None /\ Stops("taken")
     \/ NothingStarts
  /\ tick' = NoTick
  /\ pc' = "top"
  /\ UNCHANGED <<changed, digest, read, career, grants, unwatched, prestiged, faults>>

-----------------------------------------------------------------------------

Drivers ==
  \/ FactionsIdle \/ FactionsDecides \/ FactionsActs \/ FactionsLooks \/ FactionsFails
  \/ CareerTick \/ CareerLooks \/ CareerHolds \/ CareerDecides
  \/ CareerActs \/ CareerConcludes \/ CareerFails \/ BladeburnerTick
Environment == UnitEnds \/ PlayerActs \/ Prestige \/ BackoffLapses
Next == Environment \/ ResetWalk \/ ProbeReads \/ ProbeEmits \/ Pass \/ Drivers

Spec == Init /\ [][Next]_vars

\* The loop goes on from await to await.  No fairness for the probe: what the
\* notices promise must not rest on its cadence.
FairSpec == Spec /\ WF_vars(ProbeEmits \/ Pass \/ Drivers)

-----------------------------------------------------------------------------
(* What the slot promises.                                                  *)

WatcherOK == \* the watched unit is that of the listener with the latest token
  /\ listeners \subseteq [work : Works, unit : 1..MaxUnit, current : BOOLEAN]
  /\ watched \in 1..MaxUnit \cup {None}
  /\ watched # None => \E l \in listeners : l.current
  /\ \A l \in listeners : l.current => l.unit = watched
ReadingsOK == /\ slot \in Task \cup {None} /\ units \in 0..MaxUnit
              /\ digest \in Task \cup {None} /\ read \in Task \cup {None}
CareerOK == /\ reviewed \in BOOLEAN /\ lastMode \in {"none", "idle", "continuous", "progress"}
            /\ backoff \subseteq Actions
GrantsOK == /\ bids \in [career : {Silent, Priced, Lock}, bladeburner : {Silent, Priced, Ordinary},
                         factions : {Silent, Priced, Ordinary, Mandatory}]
            /\ locked \in 1..MaxUnit \cup {None} /\ (locked # None <=> bids.career = Lock)
            /\ holder \in Features \cup {None}
TickOK ==
  /\ pc \in {"top", "probed", "pass", "factions", "factionsActs", "factionsLooks", "career",
             "boundary", "deciding", "careerActs", "careerLooks", "bladeburner"}
  /\ tick \in [due : BOOLEAN, notice : Notice \cup {None}, boundary : BOOLEAN,
               mode : {"idle", "continuous", "progress"}, act : Actions \cup Works \cup {None}]
TypeOK ==
  /\ WatcherOK /\ ReadingsOK /\ CareerOK /\ GrantsOK /\ TickOK
  /\ notice \in Notice \cup {None} /\ changed \in BOOLEAN
  /\ unwatched \in BOOLEAN /\ prestiged \in BOOLEAN /\ faults \in 0..MaxFaults

\* Between passes, progress work the planner knows of is watched, or its notice
\* waits: career is due for it by nothing else.  A call that failed after the
\* watcher was disarmed is the exception, until the probe or a driver looks.
ProgressWatched ==
  pc = "top" /\ Mode(digest) = "progress" /\ ~unwatched =>
    notice # None \/ (slot # None /\ watched = slot.unit)

\* The end of work that career or a graft replaced on purpose is never taken
\* for a completed unit, whatever failed and whoever armed in between.
NoMasquerade == notice # None => notice.cause # "replaced"

\* A unit of progress work the planner sees is cut by career only as the
\* boundary of a notice for the same work, and by another driver only while
\* career's standing claim does not lock that very unit, or under a mandatory
\* claim: who holds the slot was decided before awaits in which units end.  It
\* is no promise for the whole unit: the lock ends by an estimate, and a notice
\* names a work and not a unit (career.ts:561-576, 741-783, schedule.ts:49-77).
Known == slot # None /\ digest = slot /\ Mode(slot) = "progress"
Cuts == (FactionsActs \/ CareerActs \/ BladeburnerTick) /\ Known /\ slot' # slot
MayCut ==
  \/ pc = "careerActs" /\ tick.notice # None /\ tick.notice.work = slot.work
  \/ /\ pc # "careerActs"
     /\ locked # slot.unit \/ (holder = "factions" /\ bids.factions = Mandatory)
KnownUnitKept == [][Cuts => MayCut]_vars

\* When a unit of known progress work has ended, the drivers come to see what
\* the slot holds without the help of the probe, unless the watch was lost.
EndIsSeen ==
  (Mode(digest) = "progress" /\ digest # slot)
    ~> (Mode(digest) # "progress" \/ digest = slot \/ unwatched)
=============================================================================
