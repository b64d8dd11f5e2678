# Verification of the bitburner scripts

TLA+ models, TLC runs and TLAPS proofs of the parts of this repository that
decide *when* something happens and *who holds* a shared thing: the resident
processes that lend their `ns`, the RAM heap, the controller's wake loop, the
ledger and the pool of the workers it launches, the neural Go worker, the darknet
probers, and the player's one work slot. Paths are relative to the repository,
without the leading `src/`.

## 1. The system

`game/start.ts` is the autoexec wrapper. It spawns `game/main.ts`, whose loop is
`game/lib/controller.ts`. The controller runs in 3.2 GB and calls nothing
expensive itself: every costly call goes through a *resident*, a process that
lends its `ns` (`game/lib/ns-proxy.ts`). Each pass may sweep the fleet (scan, root,
deploy, reconcile the heap), gates and probes what the save can do, collects the
needs and claims of the feature drivers, arbitrates money and the work slot, ticks
the due drivers, and then sleeps until the next tick or until something wakes
it. The hacking driver plans operations (`shared/strategy/dispatch.ts`), reserves
RAM for them in the heap (`shared/ram/heap.ts`) and starts worker processes
(`game/worker/worker.ts`), which report by a queue in the realm's globals. The Go
driver evaluates boards in a Web Worker. The darknet has a controller of its own
(`game/dnet/controller.ts`), with agents that run orders and one prober per host.

All scripts share one JavaScript realm, so the only interleaving points are
awaits, timers, promise callbacks and the engine's `atExit` callbacks; the Web
Worker is the one truly parallel part and is reached by messages only.

| component | state it keeps | operations | talks to | what is hard | what makes it correct |
|---|---|---|---|---|---|
| ns residents (`game/lib/ns-proxy.ts`) | a promise chain, the process, what it was billed for, its block, its ask | call, exec, guaranteeFit lease, free, recycle, respawn | a placer, the engine, all callers | several awaits per respawn; refusals, deaths and timeouts at each | no block leaks or is used after release; one process; a lease is not disturbed; every turn settles |
| RAM heap (`shared/ram/heap.ts`) | per-host size, use, reserve; slabs; totals | upsert, resync, reserveOn, allocateAll, free | dispatcher, placement | derived buckets and totals; tentative batches; rounding | no overcommitment; all or nothing; nothing that fits is refused |
| wake loop (`controller.ts`, `wake.ts`, `features/hacking.ts`) | the rendezvous, timers, throttles, the completion queue | pass, arm, race, wake pump | workers, timers, drivers | a signal may come at any await | no completion sleeps without a wake; no launch deadline loses its timer; everything is absorbed |
| worker ledger (`dispatch-driver.ts`, `dispatch.ts`) | tracked operations, shares, charges, pool workers, heap use | plan, start, drain, fail, stop, kill, orphan, resync | workers, sweep, heap | six ways to lose a worker, some at once; a scan that is several awaits old | each reservation returned exactly once; the heap covers what is reserved |
| serving workers (`worker.ts`, `worker-pool.ts`) | records, idle index, mailbox, idle timer | take, post, spawn, perform, idle out, exit | dispatcher, engine | a timeout or a kill between the plan and the post; a batch planned before any of it is marked | an idle worker is listed once and owes nothing; a call is reported once |
| launch rendezvous (`launch-shared.ts`) | launch by pid, spawn tickets | publish, capture, observe gone | residents, workers, probers | readiness against death | ready or gone, once |
| neural Go worker (`go-neural-worker*.ts`, `features/remaining.ts`) | the client's mirror, the worker's cache, queue and committed turn | install, evaluate, commit, confirm, predict, reset | the driver, two message channels | eviction and predictions cross requests; prestige and crash at any moment | the mirror claims nothing the worker lacks; every request is answered once; planning is never stuck |
| darknet probers (`game/dnet`) | the host's record, its barrier, launches, tickets | plant, lend, replace, displace, retire, sweep, respawn | agents, engine, derive pass | late answers about a prober that was replaced; two plants, one barrier; hosts that die | one prober on record and lending; plants resume |
| work slot (`work-completion.ts`, `features/career.ts`, `arbiter.ts`, `features/factions.ts`) | the watched promise and token, the notice, standing claims, the grant | arm, disarm, peek, consume, claim, grant, act | engine, player, drivers | cancellation looks like completion; the notice is read before awaits and consumed after | known progress work is watched; what was replaced is never banked; unbanked work is not cut |
| placement and arena (`controller.ts`, `shared/ram/broker.ts`) | leases, standing asks, reserves | placeResident, buildArena | residents, heap | two residents compete; the fleet view is itself a proxied call | both residents land |
| fleet sweep (`fleet.ts`, `net.ts`) | server snapshots | scan, reclaim, root, deploy, reap | residents, heap | everything is awaited | the heap ends as the host's real use |
| reset walk, sync activation (`reset.ts`, `deployment.ts`, `start.ts`) | epochs, staged record | classify, forget, hand over | all drivers | a dead world's caches; two controllers | nothing outlives its world |
| money arbiter, needs (`arbiter.ts`, `needs.ts`) | standing needs and claims | post, replace, allocate | drivers | stale claims | no double spending |
| store, telemetry, UI, probes | topics, dirty sets | set, merge, ship | UI | reconnects | no lost topic |
| darknet agents (`game/dnet/agent.ts`, `orders.ts`) | orders, reports, agents | walk, attempt, report | engine, darknet controller | a network that changes under it | orders done once |
| simulator (`sim`) | virtual clock, transcribed engine | schedule, run | tests | order of timers | the game's order |

`PROJECT.json` lists them all, with the reason for each that is not modelled.

## 2. Modules

### NsProxy

`class Resident`. A turn is queued by `Submit`; the running turn is the head of
`tail`, which is `#tail`. `pc` names the await the turn is at: `call` and `use`
(inside a caller's callback), `respawn` (asking the placer), `kill` (awaiting an
exit), `launch` (awaiting readiness), `retry` (the delay), `poison` and `freeing`.
`placement` and `next` are the block held and the block being moved to,
`granted` is the placer's own ledger of what it gave and has not got back, and
`procs` is the engine's process table. Both are needed: the properties relate
what the class believes to what the placer and the engine have.

The model keeps the order in which the ask is raised and clamped, prices of
members the runtime does not know, the recycling of a process whose budget is
spent, refusals, a process that dies while it boots, an outside kill, and an exit
that outlasts `EXIT_TIMEOUT_MS` (the process joins `abandoned`). The
placer is any that keeps its contract: `Offers` is every size from the floor to
what was asked. `TypeOK` says besides of the derived state that a process's bill is
the sum of the prices of what was paid for on it.

### RamHeap and RamPool

`class Heap`. Hosts other than home sit in slabs by free RAM. `AllocateAll`
starts a batch, `PlaceOne` places one request against the tentative ledger,
`Commit` applies it, `PlaceFails` drops it. `Plans(rq, t)` is the set of
placements each policy (`contiguous`, `homeFirst`, `spread`) may choose; a choice by
name or by age in a bucket is left open. `Passed(h)` is the use the dispatcher passes for
a host the heap knows: the heap's own (`dispatch.ts:1058-1077`). Its callers free an
allocation whole or by blocks, never both: `pieced` remembers which was begun. `RamPool` is the promise: a grant is
whole, only of what is spare (a resident's may use the reserve), and what comes
back was lent. `PoolSpec` is the refinement mapping. A batch takes several steps
in the model and none in between is visible outside, as in the code, which does not
await there; it maps to stutters and one `Grant`.

### WakeLoop

The controller's loop. `phase` goes `sweep -> (player) -> read -> launch -> tail`
in a pass (`Sweep`) and `loop -> race -> each -> wview -> wlaunch` in a window
(`Window`); `LoopInit`, `LoopNext` and the like carry the prefix because
`ControllerProofs` extends this module and WorkSlot. `Signal` and
`ArmWake` are `wake.ts`. `op[o]` says whether an operation is running, or how
its completion is queued: `early` before the window was armed, `fresh` after,
`seen` once a wake was taken. This is history, not code state; only the properties
`WindowWakesHeard` and `NoLostWake` depend on it. `timers`, `shotTimer` and
`weakenTimer` are the realm's timers, `planned` what the planner has parked
for a deadline. What it plans is open (`PlanAndLaunch`, `planned'`).

`weakenTimer` tells three things apart: no debounce (`Off`), one with a target, and one
without, which a pooled weaken worker's exit starts (`worker.ts:196`). A worker's exit
either goes through the debounce or signals at once.

Time is a countdown `left` to the next tick and ages that saturate at their
throttle, in units of the smallest throttle; `Elapse` may happen at any await, so
a pass may be arbitrarily late.

### RamLedger

One host. `booked` stands for the four ledgers (`tracked`, `shareWorkers`,
`chargeWorkers`, `pool.workers`), `info` for the realm's registry, `queue` for the
completions, `alive` for the engine's processes, `used` for the heap's use.
`Scan` and `Resync` are the two ends of a sweep. A worker ends by returning
(`Exit`), by a reset of the realm under it (`Torn`), while booting (`DiesBooting`),
by a critical kill, or it never starts (`Refuse`). Its reservation comes back by a
drain (`Beat`, `WakePump`, `SettleShares`), a failed start (`ReportFailed`), a
stop without a descriptor (`Stop`), a kill (`CriticalKill`) or as an orphan (`Resync`).
Hosts do not interact in this ledger, hence one.

### ServePool

What RamLedger calls a pool worker, seen from inside. `pool[w]` and `listed[w]`
are a worker's record and how often the idle index names it (`worker-pool.ts`); `mail`,
`proc` and `cur` are its mailbox, its process and the call in flight (`worker.ts`);
`landed` and `exits` are what it put into the realm's queue. `PlanTake` is the
best-fit walk of the index, by kind. `LaunchEager` plans all operations of a batch
against the pool before any worker is marked, with `Reserved` to keep two of
them apart; `LaunchJit` does them one at a time. `Post` and `Exec` are the two halves of
`startOp`, and between the plan and them the worker may idle out, be killed or go with
a critical call. A settled promise's continuation runs before any other task, so a
worker that gave up waiting has left before anyone else runs.

### GoWorker

Three parties over two ordered channels `req` and `rsp`: the turn of the driver
(`pc`, `view`, `parent`), the client (`known`, `pushed`, `pred`: what it believes the
worker holds) and the worker (`held`, oldest first, `evald`, `queue`, `active`, `job`).
`Put` is the cache with its eviction, `Want` shares one evaluation between a
turn and a prediction, `Push` sends a predicted answer, `EngineReset` ends an
evaluation and lets the requests that waited for the reset go. A commit foresees the
`Foresee` most probable continuations that go on (`Selected`). `Evaluate` may ask
although a prediction of the position is there, as when it was for another tick.
`Reset` (a prestige)
and `Crash` may come at any moment.

### DnetProber

One host, the plants of its neighbours and every process that ever ran its prober.
`prober`, `ns`, `killMark`, `respawn`, `refresh`, `refreshLaunch` and `inbound` are
the fields of `HostEntry`; `desc` is the launch descriptor; `awaits` is what a plant
holds between its awaits. `Lend` is the controller's handler of a booted prober,
`Ends` its exit (with the successor an armoured one spawns), `Mutation` the sweep
after a change of the network, `SweepAsks`/`SweepAnswered` the two sides of an await in
the main loop. A proxied call may fail: `Running` then answers that a live process does
not run, and `KillRejected` forgets a process that goes on standing. `WindowLapses`, `ReapGhostLaunches` and `ReleasePlanned` are the derive
pass. `disowned` and `spared`, the processes a sweep's answer took off the record and
those that outlived a rejected kill, are history. The controller lives throughout, and the clock is free.

### WorkSlot

`Player.currentWork` and the three features that compete for it. A unit of work has
a number, and `listeners` are the callbacks attached to its promise; `Arm` and
`Disarm` are `work-completion.ts`, and `Resolves` runs the callbacks of the unit that
ends, each writing the `notice` if its token is the latest. `pc` goes
`top -> probed -> pass -> factions -> career -> bladeburner` with the awaits of
each driver in between; at each await `UnitEnds`, `PlayerActs` or `Prestige` may
happen. `Pass` collects the claims of the features that are due and
grants the slot as `resolveSlot` does: priorities, the margin of hard claims and the
hold of an incumbent are kept, the values of priced claims are left open. A claim locks
the unit it sees at most until it ends and perhaps less (`Locks`): the code
ends the lock by an estimate. Company work is left unwatched, and an errand may end it. `digest`
is the store's `currentWork`, which may be older than the slot. A notice's `cause`
and a digest's `unit` are history: the code has neither, and the properties
use them to say what a notice really was.

### SetSums and the proof modules

`SumOver` is the one sum over a set that NsProxy (prices), RamHeap (totals), RamLedger
and ServePool use; `SetSumsProofs` has its laws. The proofs about a component are in a module of
their own, named after it; those of WakeLoop and WorkSlot, the two halves of the
controller's pass, are together in `ControllerProofs`.

### How they fit

`RamHeap` is what `RamLedger` calls `used` and what a placer of `NsProxy` asks;
`WakeLoop` says when the pump of `RamLedger` and `ServePool` runs; `ServePool` is the
inside of a `pool` worker of `RamLedger`; `WorkSlot`, `GoWorker` and the probes run in the
pass of `WakeLoop` between two of its awaits, and their calls go through `NsProxy`, any
of which may fail. They are checked apart, each with the others' behaviour left
open; composing placement with the heap and the ledger is first in the plan.

## 3. Runs

| run | states | bounds, and why they are enough | what it shows |
|---|---|---|---|
| `nsproxy_one` | 1,175,206 | one resident, one turn queued at a time, two blocks (held and next), two processes (dying and booting), four members: cheap, dear, above `MAX_ASK_GB`, unpriced; one outside kill; stalling exits | the safety of every kind of turn |
| `nsproxy_live` | 11,956 | two turns queued, no outside kill | a lease is left alone while turns wait behind it; every turn settles |
| `ramheap_small` | 149,064 | home and two servers, one that may be quarantined, one that may be upgraded; half gigabytes; one batch of up to two requests, one reservation or lease outstanding beside arbitrary observed use | slabs, totals, refusals, home last, and the refinement of `RamPool` |
| `wakeloop_jit` | 4,478,859 | two targets, a weaken, a hack and a share exit; every throttle one unit, a tick of two, two races a window | wakes and deadlines of a JIT farm |
| `wakeloop_live` | 1,161,997 | a farm with bursts: a hack and a charge, one target, one pump that throws | one continuation at a time; every completion is absorbed and every parked deadline served |
| `wakeloop_lost` | | as `wakeloop_jit`, one operation | finding 1 |
| `ramledger_workers` | 35,917 | two operations, a share, a pool worker that together exceed a 4 GB host, up to 1 GB of foreign use | the ledger without charges, safety and liveness |
| `ramledger_charge` | | an operation and a charge | finding 2 |
| `servepool` | 24,030 | three growing workers of sizes one and two on two hosts, a hacking one; three calls on two targets; single operations and batches of two | the index, the mailboxes and the calls under timeouts, kills, deaths at boot and critical calls |
| `goworker` | 922,923 | three positions and a cache of two, so that an install evicts; one committed turn; two prestiges, one crash | the mirror, the channels and the turn |
| `dnetprober` | 125,243 | two plants and two processes to launch, from an empty host or one with an armoured prober; one kill by the engine, failed call, displacement, retirement or killed plant | replacement, and the barrier two plants share |
| `workslot` | 1,020,010 | a crime, a graft, a program, a company's work, a faction's; three units, so that a unit may end and be replaced twice while a driver awaits; one fault: a failed call, a prestige or the player | the watcher, the notices and the slot |

Bounds that are not in the code: `TailLimit`, `KillLimit` and the finite `Blocks`
and `Pids` (NsProxy); `Ids`, `Sightings` (RamHeap); `Faults`, `Latest` (WakeLoop: later
than two ticks, the code does the same whatever the lateness); the finite ids, where
an id nothing mentions any more stands for the next new one (ServePool, GoWorker);
`Resets`, `Crashes` (GoWorker); `Pids`, `Plants`, `Faults` (DnetProber: failed calls count); `MaxUnit`,
`MaxFaults` (WorkSlot). `RaceCap`, `MaxPositions` and `Foresee` are the code's own caps, smaller. With one
continuation foreseen the instance still shows a finished game that takes no place and
a continuation that is not installed; the theorems are about any number.

`CHECK_DEADLOCK FALSE` appears where the system may really stop: a resident nobody
calls once its kills are spent; a Go client whose worker crashed, which
refuses every turn until a prestige; a darknet host where everything has finished, or
where a plant waits for a prober that died before it was heard of.

### Fairness

- NsProxy: every await of a turn settles, processes told to stop exit, and a placer
  or an engine that is willing again and again is eventually met while it is
  (strong fairness; the code retries for ever at a fixed delay). Outside kills
  are excluded in this run: an environment that always kills wins.
- WakeLoop: the controller is weakly fair, because what it awaits are timers and
  proxied calls that settle, and the clock runs. Timers and workers get no
  fairness: a completion, once queued, must be absorbed without them.
- RamLedger: the controller's actions, and strongly the sweep, which is on a
  counter of passes (`SWEEP_EVERY_TICKS`). Workers get none.
- ServePool: the heartbeat strongly, because its window comes back however often the wakes
  take its place; the rest of the pump, a poked worker's continuation and a boot weakly;
  a call in flight strongly returns or is killed, since the game ends it.
- GoWorker: messages arrive, requests are handled, evaluations end or fail. Timers,
  prestiges, crashes and the driver's own steps get none.
- DnetProber: mutations go on, a derive pass ends, a launch window lapses or is reaped,
  the engine runs a kill or boots a process, and a plant goes on when its await
  resolves. The sweep, the displacements and the faults get none.
- WorkSlot: the loop's steps, which are awaits of proxied calls, as one weakly fair
  action. The 30-second probe gets none, on purpose: what the notices promise must
  not rest on it.

### The properties, by what could go wrong

- *Between two awaits.* `LedgerSound`, `OneProcessOnItsBlock`: a respawn that is refused,
  killed or overtaken at any of its awaits neither leaks a block nor releases one that
  a live process uses. `CallsAccounted`: a call planned for a worker that has left
  meanwhile is neither lost nor performed twice. `ProgressWatched`, `NoMasquerade`: a unit
  that ends while a driver replaces it, or while another driver looks, is noticed if
  it was banked and never if it was replaced.
- *Behind one another.* `SessionIntact`, `PoisonedNeverReused`: turns queued behind a
  lease cannot touch its process, and one whose member threw is put down first.
  `ChannelSound`, `MirrorSound`: messages that cross each other leave the two sides agreeing.
- *Derived state.* `SlabsFitFree`, `TalliesExact`, `PlacementSound`, `IndexExact`,
  `HeldRamFirst`: the shortcuts agree with the plain definitions.
- *A wake at the wrong moment.* `WindowWakesHeard`, `OneContinuation`. `DeadlineOwned`: a
  parked launch keeps its timer, its place among the signalled targets or a pass that
  re-arms it. That does not promise a wake before the heartbeat (section 4);
  `LeftoversServed` says it is served in the end.
- *A late answer.* `OneProberOnRecord`: the prober on record stands and lends, and an exit or a
  lend that concerns an older process does not unseat it. What else stands is on its way
  out, was unseated by a sweep's answer, or outlived a rejected kill: the code
  has those strays (section 4). `WaitsOnHeldBarrier`: no barrier is dropped under a plant.
  `KnownUnitKept`: a unit the planner knows is cut by career only at the boundary of a
  notice for the same work, and by others only where career's claim does not lock that
  very unit, or under a mandatory claim. It does not say that a lock outlasts the
  unit, or that a notice is of the unit it cuts: neither is so in the code.
- *Twice or never.* `HeapMovesExactly`, `HeapCovers`, `OneCallAtATime`.
- *Eventually.* `EveryTurnSettles`, `LeftoversServed`, `ReservationsReturn`, `CallsSettle`,
  `PlanningSettles`, `RefreshesSettle`, `EndIsSeen`.

Some are conjunctions of parts with names of their own in the modules:
`LedgerSound` is `BlocksAccounted` and `LiveWorkIsReserved`, `HeapMovesExactly` is
`ExactlyOnce` and `SweepRepairs`, `LeftoversServed` is `CompletionsAbsorbed` and
`DeadlinesServed`, and so on. Each has a mutant in `PROJECT.json`: an
operator in the module, marked `Mutant`, that changes the code's behaviour in a way a
plausible edit would, and that breaks it.

## 4. What the runs found

1. **A wake can be lost between windows** (`wakeloop_lost`). A window that ends on
   its timer leaves its resolver in `dispatch_wake`. The next signal is spent on
   it (`wake.ts:51`) and not latched. If the completion came after the heartbeat
   had drained, the loop sleeps the next window with it queued. The
   heartbeat absorbs it, so `LeftoversServed` holds; what is lost is the time.
2. **A charge is erased by the sweep** (`ramledger_charge`). The accounted sum of
   `dispatch-driver.ts:648` leaves `chargeWorkers` out, so a charge that has exited and
   is not drained is subtracted twice. `HeapCovers` holds, and is proved,
   for hosts without charge workers.

Met while modelling and kept in the models, without a run of their own.

Residents and RAM:

- `ns-proxy.ts:545` admits a member when it fits exactly; lines 149-152 say an exact
  fit is a coin flip and the margin exists to avoid it.
- A recycling call raises its ask to the floor and is then clamped to `MAX_ASK_GB`
  (`ns-proxy.ts:563`), so it can ask for less than it demands, although lines
  541-542 say the two can never disagree; and the ask can fall, although line 340
  says it only ever rises. The lease path does the two in the other order.
- After a refused exec the next block is handed back when the old one is already
  gone (`ns-proxy.ts:687`, against 640-641): for a moment the resident holds nothing.
- `host()` is undefined while a replacement boots (`ns-proxy.ts:670`); the landing
  count of `controller.ts:123-125` says a recycling resident keeps its placement.
- `heap.capacity()` does not clamp a host whose reserve exceeds its free RAM
  (`heap.ts:134`, against 129).
- `killWorkersForCritical` leaves charge workers alone (`dispatch-driver.ts:507`).
- A worker that exits between the scan and the resync is left in the heap as
  foreign use until a later sweep (`dispatch-driver.ts:659`). Tracked operations are
  not among the orphans looked for (`dispatch-driver.ts:616`).
- The fallback to home places a resident without a lease (`controller.ts:156`).

Wake loop:

- A shotgun pass clears other targets' timers: `hacking.ts:1728` keeps the deadlines
  the plan wants, and the plan of a shotgun pass has returned before it emits any
  (`dispatch.ts:2185`). `DeadlineOwned` is therefore stated for farms without bursts.
- `controller.ts:577` passes over every wake within 50 ms of the last pump. The comment
  is right for completions, which stay queued; a deadline's timer is gone. Its target stays
  among those signalled, with nothing left to wake the loop before another signal or the
  heartbeat, whose pass plans it anew (`DeadlinesServed`).
- After a late heartbeat the next may be omitted: the cadence is elapsed time and the
  ticks are absolute (`features/index.ts:239`, against `spec/targeting.md:20`).
- A deadline beside a queued completion of its target is throttled like a
  completion (`hacking.ts:1783`, against 1784-1787).
- A charge that completes during a wake pass is not seen by it: the flag was read
  before its awaits (`hacking.ts:1770`, against 1766-1769). It is cleared after the player
  was awaited (`hacking.ts:1832`), so one the engine has not applied yet counts as refreshed.

Go worker:

- `reset()` drops the mirror before the round trip so that no tick is told its position
  is installed (`go-neural-worker.ts:241-244`). An install's reply that was under way
  puts its position back (line 139), and the worker then drops it. `MirrorSound` is
  stated up to the first prestige; without that, TLC refutes it in eight steps. The
  turn recovers by an error and a new install.

Darknet:

- The sweep asks whether the prober on record runs and, when the answer comes, clears
  whichever is on record then (`controller.ts:3010-3013`): a successor that lent meanwhile
  stands on unknown, against 2604-2607 ("still converges to one prober"). TLC shows it
  in six steps; `StraysExplained` excepts it (`disowned`).
- A rejected kill is swallowed and the pid dropped from those retiring
  (`dnet/controller.ts:568-577`): the prober stands, off the record, and nothing asks for
  it again. `StraysExplained` excepts it (`spared`).
- A failed `isRunning` reads as dead (1540-1543), so the sweep retires a prober that lends,
  and a follower opens a barrier beside one that is about to report.
- `beginProbeRefresh` promises one outstanding barrier (`shared.ts:424-426`). A follower
  that asks whether the prober runs (2571-2573) may be answered after the barrier was
  settled or replaced, and joins one that is over.
- A prober that dies before it was captured never resolves `exited`, and a plant that
  waits for its barrier waits for ever; `BarrierSettles` excepts it, and
  the window another plant closed (`Lost`).
- `proberKillMark` is one slot for several deliberate kills (`controller.ts:641`, 886,
  2645, 2688). A retirement drops the prober before its exit is heard, so the lent `ns` is
  of a dead process until the next mutation. A report after the pass drained its probes is
  released unplanned (2333-2344). `bindProberLaunch` overwrites the launch of a barrier
  that a newer plant owns (593-595).

Work slot:

- A graft of the factions driver arms the watcher, and career's tick in the same pass
  consumes the flag it raised (`career.ts:544`) without a review; career's standing claim
  is then one without the lock for up to its cadence, and Bladeburner may win the slot
  and cancel the graft. `KnownUnitKept` allows it, because the claim locks another unit.
- The lock ends when the unit should, by an estimate (`schedule.ts:44-46`, 72-76). A unit
  that takes longer, as a graft out of focus does, is unlocked before it banks, and another
  priced driver may cut it, against `career.ts:746-751` ("Before the boundary the lock
  is absolute").
- A decision that fails, or is idle, keeps the notice (`career.ts:645-650`). After the
  30 s of its backoff it counts as a boundary of whatever same-named unit is under way, away
  from the "exact completion boundary" of `career/decide.ts:709`.
- `arbiter.ts:334-335` says the mandatory claims "must be able to interrupt even
  unbanked work". `resolveSlot` honours `holdUntil` first (line 998), and 121 does not
  exceed 120 by `PREEMPT_MARGIN`.
- After the notice of a graft while another feature has the slot, the last mode stays
  the old one, so the next review waits for the cadence.

## 5. Proofs

Eight proof modules, 13,008 obligations. The theorems hold for every value of
the constants under the one named assumption of each module; TLC evaluates those on
every run. Nothing else is assumed: every safety invariant and every action property of
the passing runs is stated by a theorem.

- **SetSums**. The library's induction theorems take a predicate as a parameter, which the
  provers cannot instantiate. `SetInduction` says the same of a set: if each part of a
  finite set belongs to it whenever its parts with one element less do, so does the
  whole. What is to be shown of a sum becomes membership in such a set. `TableExists` and `TableUnique` show in this way that the
  community modules' fold is a function; `SumAny`, `SumAdd`, `SumDisjoint`, `SumLeq`,
  `SumChange` and the rest follow. They replace what earlier had to be assumed of prices and RAM.
- **NsProxy** (`ConstantsAssumption`). `TypeOK` is `Shape` and `BillsExact`. `IInv` adds to `Shape` and `BlocksAccounted`:
  `Phases`, which fields are empty or set at each `pc`; `Processes`, which processes a
  resident answers for and on which block; `Budgets`. The ledger alone is not
  inductive: that a release is of a held block depends on where the turn is. From it
  follow `LedgerIsSound`, `OneProcessOnBlock`, and the action properties `LeaseIntact` and
  `PoisonCleared`. `MeasuredFits` needs `Measured` of each resident: the bill is the sum of what was
  paid for, its measured part fits the budget of the process that is there, and the
  ask and the block of a replacement are large enough for the turn that waits. The same invariant gives the exact bill of `TypeOK`. It does not
  say that the whole bill fits, because members without a known price may exceed it.
- **RamHeap** (`HeapAssumption`: finitely many hosts, home among them; requests of no more than
  a last slab's thread). `Inductive` adds `TentativeFits`: what the placed
  requests of a batch take from a host, it has free. It makes `Commit` a legal `Grant`;
  `ImplementsPool` is the refinement. `TalliesCorrect` needs besides that a host which is
  not known has nothing on record (`UnknownBare`), as a host that is added brings its
  whole record into the totals. `PlacementCorrect` is about the greedy walk. A
  contiguous request is refused only when no slab from the size's own upward
  holds a host, and then no host fits. For a divisible one, take the smallest beginning of
  the order in which hosts are visited whose threads suffice: it ends on the host where
  the rest fits, and is a plan; without one all the hosts together do not suffice.
- **ControllerProofs, WakeLoop** (`WakeAssumption`). `Inv` is the type, `Paced` (which throttled
  state, lateness and target each phase allows), `Rendezvous` (in a window a resolver is in
  place or the promise is resolved) and `Heard` (what is fresh has a
  resolved promise, or a pending debounce). `DeadlinesOwned` needs `NoBurst` as well:
  a farm without bursts never enters the branch that drops timers.
- **ControllerProofs, WorkSlot** (`WorkAssumption`). `WatchesTheSlot`: a watched promise is
  that of the work in the slot, so its end always leaves a notice and no other end does.
  `SeenIsWatched` carries `ProgressWatched` through the passes, with `DisarmedBeforeActing`
  for the stretch in which nothing is watched; `NoticeInHand` and `LockHolds` give
  `SeenUnitIsKept`, one for career's cuts and one for the others': while the slot is held
  on a lock, it is of the unit the claim saw.
- **RamLedger** (`LedgerAssumption`). `Inductive` is `TypeOK` and `PumpOK`: what a pump
  has still to do concerns workers nothing else touches. `HeapIsExact` follows step by
  step, and `HeapCoversAll` from it and the arithmetic of `Reconciled`, for hosts
  without charges.
- **ServePool** (`ServeAssumption`). Neither the index nor the mailboxes are inductive
  alone. `Own`: a call a worker has is tracked with that worker. `Once`: it is neither
  waiting nor reported. `Procs`: a living process is in the registry, and the registry
  knows nobody the pool forgot. `PumpOK`: what is planned and not started is apart
  from what ran or failed. So a completion that is absorbed is its worker's only
  call, whence `IndexIsExact`, `NeverTwoCalls` and `EachCallOnce`. `HeldRamIsUsedFirst`
  is about the walk of the index alone: after each worker it looked at, what is missing is
  the request less what was taken.
- **GoWorker** (`GoAssumption`). The largest proof: three parties, two channels, and
  nothing inductive alone. The type has the cache duplicate-free and within its
  size, and the wipe of a reset last in the queue. `Owed` counts, message by message, what the
  turn and the resets await (`ChannelIsSound`). That no prediction follows a verdict
  rests on `Order`: a turn's requests are in order (`InOrder`), a commit that is still to be judged has had no
  verdict (`Judging`), and at most one evaluation runs in the name of the current commit
  (`Owns`). `MirrorIsSound` rests on `Faithful`, until a prestige: nothing of a reset is under
  way (`Calm`), and what the client credits the worker with, or will when it reads the
  answers under way, is held or followed by its eviction (`Credits`), as is what
  the expected turn's commit waits for (`Waits`). Each step of the worker is reduced to
  what it tells the client (`Says`, `Truthful`), what it keeps (`Keeps`) and what
  becomes of its job (`Goes`); the invariants are shown once from those.
- **DnetProber** (`ProberAssumption`). `ProcessOK` ties each process to its launch and
  its ticket, `RecordOK` the record to a process, `BarrierOK` the barrier to the plants that
  hold it; with them `Safe` (every process that stands is on record, on its way out,
  disowned or spared) and `Holding` are inductive, and are the two theorems
  `OneOnRecord` and `NobodyWaitsOnAForgottenBarrier`.

Only model-checked: liveness (`EveryTurnSettles`, `LeftoversServed`,
`ReservationsReturn`, `CallsSettle`, `PlanningSettles`, `RefreshesSettle`, `EndIsSeen`),
which needs fairness and `ENABLED`, beyond the prover.

## 6. Not modelled

- The planner's numbers (batch shapes, thread counts, landing times, scores) and the
  strategy engines: optimisation over reals, with no small instance that means
  anything. Whatever they decide is allowed in WakeLoop, RamLedger and ServePool.
- Telemetry, UI, save format, generated tables, tools, the go programs: presentation,
  data and conversion, or programs of their own. They are most of the repository's lines.
- The allocation of money, and the rates and returns that price a claim: pure numeric
  functions of one pass.
- In modelled parts: messages and stall reports of the residents, `capacity()` and
  the diagnostics of a failed allocation, the parked reservations of the
  non-pooling JIT path, segment tallies, and leases inside the ledger; RAM tallies per
  host and role of the pool, and spawn tickets outside the prober; the tick an
  evaluation is for in the worker's cache, the second evaluation of a turn whose slot
  slipped (`remaining.ts:1346-1353`), seeded moves and the playbook; the darknet's relaunch orders
  (`orders.ts:605-634`), a host that is removed and found again, the stand-down of its
  controller and its agents.
- In WorkSlot: promises that reject, tasks without one, the early return before the first
  player probe, a missing crime or graft table (no lock then), cadences, and more than
  one bid of a feature. The factions action `stopWork` is handled and never decided.
- The engine's turn that applies a charge: `Refresh` reads a player who is assumed to
  have it. The hazard at `hacking.ts:1832` is about that and is open.

Three hazards in `PROJECT.json` have no property that covers them: a resident placed
while a sweep runs (`controller.ts:102`), whose lease a resync with the older scan
erases, which needs the placement module; the install's reply that overtakes a
reset (`go-neural-worker.ts:139`, section 4); and the prober that a sweep's late answer
unseats (`dnet/controller.ts:3007`, section 4).

## 7. Plan

In order; each with its abstract specification and what to prove.

1. **Placement**: `placeResident` and its leases composed with NsProxy's `granted`
   and RamLedger's `used`. Questions: does a resync erase the lease of a resident placed
   since the scan; do both residents land, given the room held back for a sibling.
   Prove: leases and worker reservations are disjoint parts of `used`.
2. **Launch**: the rendezvous by pid and by ticket, refining "ready or gone, once".
   NsProxy, RamLedger, ServePool and DnetProber then instantiate it.
3. **Charge context**: the engine turn between a charge's `atExit` and its effect,
   added to WakeLoop.
4. **Darknet agents**: orders, reports and the fold of what they found, with DnetProber's
   host as the vantage they work from.
5. **Activation and reset**: staged record, hand-over, reset walk. Abstract: one
   controller, no cache older than its world.
6. **Money**: the arbiter's reservations and needs as operators against a reference
   definition.
7. **SimClock**: the virtual timers as a refinement of the realm's.
8. **Store and telemetry**: the resend after a lost connection.

Proofs to add: ServePool as a refinement of RamLedger's pool worker, the ledger as a
refinement of RamPool, what the mirror regains after a prestige. The violation
runs of findings that are settled in the code give way to passing ones.
