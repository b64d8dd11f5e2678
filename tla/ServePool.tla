----------------------------- MODULE ServePool -----------------------------
(***************************************************************************)
(* Serving workers, the pool that remembers them, and the calls they make. *)
(*                                                                         *)
(* A serving worker has a fixed kind and thread count and performs one     *)
(* call after another (game/worker/worker.ts).  The dispatcher keeps a     *)
(* record of each, lists the idle ones by kind and size, composes a request*)
(* from idle workers and spawns the rest (shared/strategy/worker-pool.ts,  *)
(* dispatch.ts); the driver posts a call into a worker's mailbox and pokes *)
(* it, or registers a worker, queues its first call and executes it        *)
(* (game/lib/dispatch-driver.ts, launch-shared.ts).                        *)
(*                                                                         *)
(* Continuations of settled promises run before any other task of the      *)
(* realm: a poked worker takes its call before a timer fires or a process  *)
(* is killed, and a worker that gave up waiting has left before anyone     *)
(* else runs.  RAM is RamLedger's subject: here an allocation succeeds with*)
(* any free ids.  An id nothing mentions any more stands for the next new  *)
(* one.  A worker's role and owner are part of its kind.                   *)
(***************************************************************************)
EXTENDS Integers, FiniteSets, SetSums

CONSTANTS
  Workers,   \* worker ids, in the order of their spawning
  Kind,      \* Kind[w]: hack, grow or weaken
  Threads,   \* Threads[w]: spawned threads
  Host,      \* Host[w]: where it runs
  Ops,       \* call ids
  Targets,   \* servers worked on
  Target,    \* Target[o]: the server call o works on
  Requests,  \* [kind, threads]: the operations a batch consists of
  Nobody,    \* no worker
  NoOp       \* no call

Kinds == {"hack", "grow", "weaken"}

ASSUME ServeAssumption ==
  /\ Workers \subseteq Nat /\ IsFiniteSet(Workers) /\ Nobody \notin Workers /\ NoOp \notin Ops
  /\ Kind \in [Workers -> Kinds] /\ Threads \in [Workers -> Nat \ {0}]
  /\ Target \in [Ops -> Targets]
  /\ Requests \subseteq [kind : Kinds, threads : Nat \ {0}]

VARIABLES
  pool,      \* pool[w]: out, or what the record says: idle or busy
  listed,    \* listed[w]: entries of w in the idle index
  by,        \* by[o]: worker of a tracked call, or Nobody
  info,      \* worker_info, and worker_jobs with it
  mail,      \* mail[w]: calls in its mailbox
  proc,      \* proc[w]: none, boot, parked, poked (its resolver was called) or running
  cur,       \* cur[w]: the call in flight
  landed,    \* calls with a completion in dispatch_done
  exits,     \* workers with a workerExit in dispatch_done
  pc,        \* the controller: window, plan, start or boot
  todo,      \* calls planned and not started
  spawning,  \* workers planned and not executed
  booting,   \* the worker whose readiness is awaited
  ready,     \* it resolved its readiness
  failed     \* calls that could not be started

memory == <<pool, listed, by>>
worker == <<info, mail, proc, cur>>
done == <<landed, exits>>
pump == <<todo, spawning, failed>>
boot == <<booting, ready>>
vars == <<memory, worker, done, pc, pump, boot>>

Total(S) == SumOver(Threads, S)
Tracked == {o \in Ops : by[o] # Nobody}

Init ==
  /\ pool = [w \in Workers |-> "out"] /\ listed = [w \in Workers |-> 0]
  /\ by = [o \in Ops |-> Nobody]
  /\ info = {} /\ mail = [w \in Workers |-> {}]
  /\ proc = [w \in Workers |-> "none"] /\ cur = [w \in Workers |-> NoOp]
  /\ landed = {} /\ exits = {}
  /\ pc = "window" /\ todo = {} /\ spawning = {} /\ failed = {}
  /\ booting = Nobody /\ ready = FALSE

----------------------------------------------------------------------------
(* The pool's records and its idle index *)

\* noteExit for workers E and noteJobDone for workers F, whatever is known of
\* them: the guards are the records'.
Freed(w, E, F) ==
  IF pool[w] = "out" \/ w \in E THEN "out" ELSE IF w \in F THEN "idle" ELSE pool[w]

\* Mutant: a worker that exits stays in the index.
RelistedNever(w, E, F) ==
  IF w \in F /\ pool[w] = "busy" /\ w \notin E THEN listed[w] + 1 ELSE listed[w]

\* Mutant: an exit unlists the worker whatever it was doing.
RelistedUnchecked(w, E, F) ==
  CASE pool[w] = "out" -> listed[w]
    [] w \in E -> listed[w] - 1
    [] w \in F /\ pool[w] = "busy" -> listed[w] + 1
    [] OTHER -> listed[w]

Relisted(w, E, F) ==
  IF w \in E /\ pool[w] = "idle" /\ listed[w] > 0 THEN listed[w] - 1
  ELSE IF w \in F \ E /\ pool[w] = "busy" THEN listed[w] + 1 ELSE listed[w]

Note(E, F) ==
  /\ pool' = [w \in Workers |-> Freed(w, E, F)]
  /\ listed' = [w \in Workers |-> Relisted(w, E, F)]

\* Idle workers of a kind, and the order in which they are looked at: larger
\* first, then older.
Idle(k, reserved) == {w \in Workers : Kind[w] = k /\ listed[w] > 0} \ reserved
Ahead(v, w) == Threads[v] > Threads[w] \/ (Threads[v] = Threads[w] /\ v < w)

\* The smallest of F, and of these the oldest, as a set of at most one.
Smallest(F) ==
  {w \in F : \A v \in F : Threads[w] < Threads[v]
                           \/ (Threads[w] = Threads[v] /\ w <= v)}

\* The workers the walk over the index takes for n threads.
Composed(n, F) ==
  {T \in SUBSET F :
     \A w \in F : w \in T <=> Threads[w] <= n - Total({v \in T : Ahead(v, w)})}

\* Mutant: what is left over is not looked for among the larger workers.
PlanTakeNoPart(r, reserved) ==
  {[take |-> T, miss |-> r.threads - Total(T)]
     : T \in Composed(r.threads, Idle(r.kind, reserved))}

\* What a request takes of the idle workers and how many threads it misses: a
\* hack is one call; a grow may use an oversized worker for its remainder.
PlanTake(r, reserved) ==
  LET F == Idle(r.kind, reserved) IN
  IF r.kind = "hack"
    THEN LET best == Smallest({w \in F : Threads[w] >= r.threads}) IN
         {[take |-> best, miss |-> IF best = {} THEN r.threads ELSE 0]}
    ELSE {LET left == r.threads - Total(T)
              part == IF r.kind = "grow" /\ left >= 1
                        THEN Smallest({w \in F \ T : Threads[w] > left}) ELSE {}
          IN  [take |-> T \cup part, miss |-> IF part = {} THEN left ELSE 0]
          : T \in Composed(r.threads, F)}

----------------------------------------------------------------------------
(* A pump: completions are absorbed, batches planned, calls started. *)

\* No continuation of a settled promise is waiting to run.
Settled == \A w \in Workers : proc[w] # "poked"

\* A pump for one target drains its completions and every exit; the heartbeat
\* drains all.
Drain(D) ==
  /\ pc = "window" /\ Settled /\ pc' = "plan"
  /\ Note(exits, {by[o] : o \in D})
  /\ by' = [o \in Ops |-> IF o \in D THEN Nobody ELSE by[o]]
  /\ landed' = landed \ D /\ exits' = {}
  /\ UNCHANGED <<worker, pump, boot>>

WakePump(t) == Drain({o \in landed : Target[o] = t})
Heartbeat == Drain(landed)

\* New ids.
NewWorkers == {w \in Workers : /\ pool[w] = "out" /\ w \notin info \cup exits
                               /\ \A o \in Ops : by[o] # w}
NewOps(t) == {o \in Ops : /\ Target[o] = t /\ by[o] = Nobody /\ o \notin landed
                          /\ \A w \in Workers : cur[w] # o /\ o \notin mail[w]}

\* Blocks of an allocation of n threads.
Blocks(k, n, avoid) == {B \in SUBSET ({w \in NewWorkers : Kind[w] = k} \ avoid) : Total(B) = n}

\* Every worker a request is composed of gets a call, a new worker its first;
\* idle ones leave the index.  slots holds <<request, worker>> pairs.
Emit(slots, new, t) ==
  LET W == {x[2] : x \in slots} IN
  \E call \in [slots -> NewOps(t)] :
    /\ \A x, y \in slots : x # y => call[x] # call[y]
    /\ pool' = [w \in Workers |-> IF w \in W THEN "busy" ELSE pool[w]]
    /\ listed' = [w \in Workers |-> IF w \in W /\ pool[w] = "idle" /\ listed[w] > 0
                                      THEN listed[w] - 1 ELSE listed[w]]
    /\ by' = [o \in Ops |-> IF \E x \in slots : call[x] = o
                              THEN (CHOOSE x \in slots : call[x] = o)[2] ELSE by[o]]
    /\ todo' = todo \cup {call[x] : x \in slots}
    /\ spawning' = spawning \cup new
    /\ UNCHANGED <<worker, done, pc, failed, boot>>

\* An operation due on a target's pipeline; without room nothing is launched.
LaunchJit(r, t) ==
  /\ pc = "plan"
  /\ \E p \in PlanTake(r, {}) : \E B \in Blocks(r.kind, p.miss, {}) :
       Emit({1} \X (p.take \cup B), B, t)

\* Mutant: the plans of one batch do not see each other.
ReservedNothing(p) == {}

\* What an operation planned earlier in the same batch has taken is kept from
\* the next one: nothing is marked until all of them have room.
Reserved(p) == p.take

LaunchEager(r, q, t) ==
  /\ pc = "plan"
  /\ \E p \in PlanTake(r, {}) : \E s \in PlanTake(q, Reserved(p)) :
       \E B \in Blocks(r.kind, p.miss, {}) : \E C \in Blocks(q.kind, s.miss, B) :
         Emit(({1} \X (p.take \cup B)) \cup ({2} \X (s.take \cup C)), B \cup C, t)

Planned ==
  /\ pc = "plan" /\ pc' = "start"
  /\ UNCHANGED <<memory, worker, done, pump, boot>>

\* Mutant: a mailbox is not looked for before the call is pushed.
PostBlind(o) ==
  /\ pc = "start" /\ o \in todo /\ by[o] \notin spawning
  /\ todo' = todo \ {o}
  /\ mail' = [mail EXCEPT ![by[o]] = @ \cup {o}]
  /\ proc' = [proc EXCEPT ![by[o]] = IF @ = "parked" THEN "poked" ELSE @]
  /\ UNCHANGED <<memory, info, cur, done, pc, spawning, failed, boot>>

\* A call for a worker that runs already: into its mailbox, and a poke; its
\* worker may have left since the call was planned.
Post(o) ==
  /\ pc = "start" /\ o \in todo /\ by[o] \notin spawning
  /\ todo' = todo \ {o}
  /\ IF by[o] \in info
       THEN /\ mail' = [mail EXCEPT ![by[o]] = @ \cup {o}]
            /\ proc' = [proc EXCEPT ![by[o]] = IF @ = "parked" THEN "poked" ELSE @]
            /\ UNCHANGED failed
       ELSE failed' = failed \cup {o} /\ UNCHANGED <<mail, proc>>
  /\ UNCHANGED <<memory, info, cur, done, pc, spawning, boot>>

\* Over the process ceiling, not deployed, or the engine answers 0.
Refuse(o) ==
  /\ pc = "start" /\ o \in todo /\ by[o] \in spawning
  /\ todo' = todo \ {o} /\ spawning' = spawning \ {by[o]}
  /\ failed' = failed \cup {o}
  /\ UNCHANGED <<memory, worker, done, pc, boot>>

\* Descriptor and first call are there before the process is.
Exec(o) ==
  /\ pc = "start" /\ pc' = "boot" /\ o \in todo /\ by[o] \in spawning
  /\ todo' = todo \ {o} /\ spawning' = spawning \ {by[o]}
  /\ info' = info \cup {by[o]}
  /\ mail' = [mail EXCEPT ![by[o]] = {o}]
  /\ proc' = [proc EXCEPT ![by[o]] = "boot"]
  /\ booting' = by[o] /\ ready' = FALSE
  /\ UNCHANGED <<memory, cur, done, failed>>

Resume ==
  /\ pc = "boot" /\ ready /\ pc' = "start"
  /\ booting' = Nobody /\ ready' = FALSE
  /\ UNCHANGED <<memory, worker, done, pump>>

\* The process is not running: before it was ready, or after, when the answer
\* of the engine overtakes its readiness.
Gone ==
  /\ pc = "boot" /\ proc[booting] = "none" /\ pc' = "start"
  /\ info' = info \ {booting}
  /\ mail' = [mail EXCEPT ![booting] = {}]
  /\ failed' = failed \cup {o \in Ops : by[o] = booting}
  /\ booting' = Nobody /\ ready' = FALSE
  /\ UNCHANGED <<memory, proc, cur, done, todo, spawning>>

\* A call that failed releases its worker with it.
ReportFailed ==
  /\ pc = "start" /\ todo = {} /\ pc' = "window"
  /\ Note({by[o] : o \in failed}, {})
  /\ by' = [o \in Ops |-> IF o \in failed THEN Nobody ELSE by[o]]
  /\ failed' = {}
  /\ UNCHANGED <<worker, done, todo, spawning, boot>>

----------------------------------------------------------------------------
(* The worker *)

\* Timers and the engine act while the controller awaits a task.
Task == pc \in {"window", "boot"} /\ Settled

\* The loop's turn: the next call, or parked beside the idle timer.
Loop(w, box) ==
  \/ /\ box = {}
     /\ proc' = [proc EXCEPT ![w] = "parked"] /\ cur' = [cur EXCEPT ![w] = NoOp]
     /\ mail' = [mail EXCEPT ![w] = {}]
  \/ \E o \in box :
       /\ proc' = [proc EXCEPT ![w] = "running"] /\ cur' = [cur EXCEPT ![w] = o]
       /\ mail' = [mail EXCEPT ![w] = box \ {o}]

\* main: captured, its atExit in place, it is ready and takes its first call.
Boot(w) ==
  /\ Task /\ proc[w] = "boot"
  /\ ready' = TRUE
  /\ Loop(w, mail[w])
  /\ UNCHANGED <<memory, info, done, pc, pump, booting>>

Take(w) ==
  /\ proc[w] = "poked"
  /\ Loop(w, mail[w])
  /\ UNCHANGED <<memory, info, done, pc, pump, boot>>

Land(w) ==
  /\ Task /\ proc[w] = "running"
  /\ landed' = landed \cup {cur[w]}
  /\ Loop(w, mail[w])
  /\ UNCHANGED <<memory, info, exits, pc, pump, boot>>

\* Mutant: the call in flight is not reported by the worker that is killed.
AtExitQuietly(W) ==
  /\ info' = info \ W
  /\ mail' = [w \in Workers |-> IF w \in W THEN {} ELSE mail[w]]
  /\ exits' = exits \cup W /\ UNCHANGED landed
  /\ proc' = [w \in Workers |-> IF w \in W THEN "none" ELSE proc[w]]
  /\ cur' = [w \in Workers |-> IF w \in W THEN NoOp ELSE cur[w]]

\* Registry and mailbox go, the call in flight and the exit are reported.
AtExit(W) ==
  /\ info' = info \ W
  /\ mail' = [w \in Workers |-> IF w \in W THEN {} ELSE mail[w]]
  /\ exits' = exits \cup W
  /\ landed' = landed \cup ({cur[w] : w \in W} \ {NoOp})
  /\ proc' = [w \in Workers |-> IF w \in W THEN "none" ELSE proc[w]]
  /\ cur' = [w \in Workers |-> IF w \in W THEN NoOp ELSE cur[w]]

IdleOut(w) ==
  /\ Task /\ proc[w] = "parked"
  /\ AtExit({w})
  /\ UNCHANGED <<memory, pc, pump, boot>>

Killed(w) ==
  /\ Task /\ proc[w] = "running"
  /\ AtExit({w})
  /\ UNCHANGED <<memory, pc, pump, boot>>

\* Before its atExit is in place.
DiesBooting(w) ==
  /\ Task /\ proc[w] = "boot"
  /\ proc' = [proc EXCEPT ![w] = "none"]
  /\ UNCHANGED <<memory, info, mail, cur, done, pc, pump, boot>>

\* The whole host is cleared for a call that ends the run: its workers and the
\* calls they have are released at once.
CriticalKill(h) ==
  LET V == {w \in Workers \cap info : Host[w] = h /\ pool[w] # "out"} IN
  /\ pc = "window" /\ Settled /\ V # {}
  /\ AtExit(V)
  /\ Note(V, {})
  /\ by' = [o \in Ops |-> IF by[o] \in V THEN Nobody ELSE by[o]]
  /\ UNCHANGED <<pc, pump, boot>>

----------------------------------------------------------------------------
Launch ==
  \/ \E o \in Ops : Post(o) \/ Refuse(o) \/ Exec(o)
  \/ Resume \/ Gone \/ ReportFailed

Next ==
  \/ Heartbeat \/ Planned \/ Launch
  \/ \E t \in Targets :
       \/ WakePump(t)
       \/ \E r \in Requests : LaunchJit(r, t) \/ \E q \in Requests : LaunchEager(r, q, t)
  \/ \E w \in Workers :
       Boot(w) \/ Take(w) \/ Land(w) \/ IdleOut(w) \/ Killed(w) \/ DiesBooting(w)
  \/ \E h \in {Host[w] : w \in Workers} : CriticalKill(h)

Spec == Init /\ [][Next]_vars

\* The controller goes on and has its heartbeat; calls return, processes boot.
Fairness ==
  /\ SF_vars(Heartbeat) /\ WF_vars(Planned) /\ WF_vars(Launch)
  /\ \A w \in Workers : /\ WF_vars(Take(w)) /\ SF_vars(Land(w) \/ Killed(w))
                        /\ WF_vars(Boot(w) \/ DiesBooting(w))

FairSpec == Spec /\ Fairness

----------------------------------------------------------------------------
(* Properties *)

TypeOK ==
  /\ pool \in [Workers -> {"out", "idle", "busy"}] /\ listed \in [Workers -> Nat]
  /\ by \in [Ops -> Workers \cup {Nobody}]
  /\ info \subseteq Workers /\ mail \in [Workers -> SUBSET Ops]
  /\ proc \in [Workers -> {"none", "boot", "parked", "poked", "running"}]
  /\ cur \in [Workers -> Ops \cup {NoOp}]
  /\ landed \subseteq Ops /\ exits \subseteq Workers
  /\ pc \in {"window", "plan", "start", "boot"}
  /\ todo \subseteq Ops /\ spawning \subseteq Workers /\ failed \subseteq Ops
  /\ booting \in Workers \cup {Nobody} /\ ready \in BOOLEAN

\* The idle index: "every entry is a worker in `workers` with `busy === false`,
\* and every such worker appears exactly once".
IndexExact == \A w \in Workers : listed[w] = IF pool[w] = "idle" THEN 1 ELSE 0

\* A worker offered as idle owes nothing, really: no call of its is tracked, in
\* its mailbox, in flight or reported and not absorbed; and a worker thought
\* busy owes exactly one.  Timed calls are never queued behind each other.
OneCallAtATime ==
  \A w \in Workers :
    LET mine == {o \in Ops : by[o] = w} IN
    /\ pool[w] = "idle" => mine = {} /\ mail[w] = {} /\ cur[w] = NoOp
    /\ pool[w] = "busy" => \E o \in Ops : mine = {o} /\ mail[w] \cup {cur[w]} \subseteq {o, NoOp}

\* No call is lost between the planner, the mailbox, the worker and the queue,
\* whoever times out, is killed or dies booting meanwhile: a tracked call waits
\* to be started or reported as failed, is with its worker, or is reported.
NoLostCall ==
  \A o \in Tracked :
    \/ o \in todo \cup failed \cup landed
    \/ by[o] \in info /\ (cur[by[o]] = o \/ o \in mail[by[o]])

\* A call has one outcome: what is reported is not performed again, nor failed
\* and performed.
OneOutcome ==
  \A o \in Ops : \A w \in Workers :
    o \in mail[w] \/ cur[w] = o => /\ o \notin landed \cup todo \cup failed
                                   /\ \A v \in Workers \ {w} : cur[v] # o /\ o \notin mail[v]

\* Each tracked call is somewhere, and has one fate (startOp, main, its atExit).
CallsAccounted == NoLostCall /\ OneOutcome

\* RAM that idle workers hold is used before more is allocated: what a request
\* misses, no idle worker of the kind could have served within the rules.
HeldRamFirst ==
  \A r \in Requests : \A R \in SUBSET Workers : \A p \in PlanTake(r, R) :
    /\ p.take \subseteq Idle(r.kind, R)
    /\ p.miss > 0 => \A w \in Idle(r.kind, R) \ p.take :
         CASE r.kind = "hack" -> Threads[w] < r.threads
           [] r.kind = "grow" -> FALSE
           [] OTHER -> Threads[w] > p.miss

\* Every call is settled: completed, failed, or released with its host.
CallsSettle == \A o \in Ops : by[o] # Nobody ~> by[o] = Nobody
=============================================================================
