----------------------------- MODULE RamLedger -----------------------------
(***************************************************************************)
(* The RAM the dispatcher reserves for workers on one host, against the    *)
(* processes that use it (game/lib/dispatch-driver.ts, the ledgers of      *)
(* shared/strategy/dispatch.ts, game/worker/worker.ts, game/lib/fleet.ts). *)
(*                                                                         *)
(* A reservation is made when a pump plans, before any exec.  It may come  *)
(* back by a drained completion, a failed start, a share stop, a critical  *)
(* kill or the release of an orphan; a worker may meet several of these.   *)
(* The fleet sweep reads the host's real usage early and rewrites the heap *)
(* from it late, while workers go on exiting.                              *)
(*                                                                         *)
(* Four kinds of worker: an operation, a share, a charge and a serving     *)
(* worker of the pool, whose jobs hold no RAM of their own.  An action of  *)
(* the controller is the code between two awaits.  What is launched and    *)
(* which shares are stopped is left open.                                  *)
(***************************************************************************)
EXTENDS Integers, FiniteSets, SetSums

CONSTANTS
  Workers,   \* worker slots; a slot is planned again under a new id
  Kind,      \* Kind[w]: "op", "share", "charge" or "pool"
  Gb,        \* Gb[w]: its threads times WORKER_RAM
  MaxRam,    \* the host's RAM
  Foreign,   \* what scripts that are not ours may take of it
  Nobody

\* The RAM of a set of workers.
Total(S) == SumOver(Gb, S)

ASSUME LedgerAssumption ==
  /\ IsFiniteSet(Workers)
  /\ Kind \in [Workers -> {"op", "share", "charge", "pool"}]
  /\ Gb \in [Workers -> Nat]
  /\ MaxRam \in Nat /\ Foreign \subseteq Nat
  /\ Nobody \notin Workers

VARIABLES
  used,      \* the heap's use of the host
  booked,    \* tracked, shareWorkers, chargeWorkers, pool.workers
  stopping,  \* shares asked to leave
  info,      \* worker_info
  alive,     \* the engine's processes
  queue,     \* dispatch_done
  charging,  \* charge_context_pending
  outside,   \* RAM used by scripts that are not ours
  scan,      \* ramUsed of the last fleet scan
  pc,        \* where the controller is
  todo,      \* planned launches the pump has still to start
  stops,     \* stopShare actions it has still to execute
  booting,   \* the worker whose readiness it awaits
  failed     \* launches to report as failed

engine == <<info, alive, outside>>
pump == <<todo, stops, booting, failed>>
vars == <<used, booked, stopping, queue, charging, scan, pc, engine, pump>>

InUse == Total(alive) + outside

Init ==
  /\ used = 0 /\ booked = {} /\ stopping = {}
  /\ info = {} /\ alive = {} /\ queue = {} /\ charging = FALSE
  /\ outside = 0 /\ scan = 0
  /\ pc = "window" /\ todo = {} /\ stops = {} /\ booting = Nobody /\ failed = {}

----------------------------------------------------------------------------
(* Releases *)

\* Mutant: the ledgers do not guard against a second release.
FreedBlindly(S) == Total(S)

\* What releasing these workers frees: each ledger is its own guard.
Freed(S) == Total(S \cap booked)

Release(S) ==
  /\ used' = used - Freed(S)
  /\ booked' = booked \ S
  /\ stopping' = stopping \ S

----------------------------------------------------------------------------
(* The sweep *)

\* The scan opens the sweep; the reads, the rooting, the copies and the reaping
\* that follow are awaited before its result is used.
Scan ==
  /\ pc = "window" /\ pc' = "scanned"
  /\ scan' = InUse
  /\ UNCHANGED <<used, booked, stopping, queue, charging, engine, pump>>

\* Mutant: orphans are not looked for.
NoOrphans == {}

\* Gone without a completion, and none can ever arrive.
Orphans == {w \in booked : Kind[w] # "op" /\ w \notin info \cup queue}

\* Mutant: the scan replaces the heap.
ReconciledByScan(kept, before) == scan

AtLeast0(n) == IF n > 0 THEN n ELSE 0

\* The heap becomes what is accounted for and what looks foreign; a worker
\* whose exit is pending keeps the foreign part from shrinking.
Reconciled(kept, before) ==
  LET counted == {w \in kept : Kind[w] # "charge"}
      accounted == Total(counted)
      live == Total(counted \cap info)
      prior == AtLeast0(before - accounted)
      observed == AtLeast0(scan - live)
  IN  accounted + IF accounted > live /\ prior > observed THEN prior ELSE observed

Resync ==
  /\ pc = "scanned" /\ pc' = "beat"
  /\ used' = Reconciled(booked \ Orphans, used - Freed(Orphans))
  /\ booked' = booked \ Orphans
  /\ stopping' = stopping \ Orphans
  /\ UNCHANGED <<queue, charging, scan, engine, pump>>

\* Most passes have no sweep.
SkipSweep ==
  /\ pc = "window" /\ pc' = "beat"
  /\ UNCHANGED <<used, booked, stopping, queue, charging, scan, engine, pump>>

\* Another driver needs RAM for a call that ends the run: every worker with a
\* live descriptor is killed, charges apart, and released at once; each still
\* queues a completion from its atExit.
CriticalKill ==
  LET V == {w \in booked \cap info : Kind[w] # "charge"} IN
  /\ pc = "beat" /\ V # {}
  /\ alive' = alive \ V /\ info' = info \ V /\ queue' = queue \cup V
  /\ Release(V)
  /\ UNCHANGED <<charging, scan, pc, outside, pump>>

----------------------------------------------------------------------------
(* The pump *)

\* Completions D are consumed, then launches are reserved in what is free.
Plan(D, startable) ==
  \E N \in SUBSET {w \in startable : w \notin booked \ D /\ w \notin queue \ D
                                     /\ w \notin alive \cup info} :
    LET left == used - Freed(D) IN
    /\ N = {} \/ left + Total(N) <= MaxRam
    /\ used' = left + Total(N)
    /\ booked' = (booked \ D) \cup N
    /\ queue' = queue \ D
    /\ todo' = N /\ failed' = {}
    /\ stops' \in SUBSET {w \in booked \ D : Kind[w] = "share"}
    /\ stopping' = (stopping \ D) \cup stops'
    /\ pc' = "start"
    /\ UNCHANGED <<charging, scan, engine, booting>>

\* The heartbeat reads the player first when a charge completed.
Refresh ==
  /\ pc = "beat" /\ pc' = "read"
  /\ charging' = FALSE
  /\ UNCHANGED <<used, booked, stopping, queue, scan, engine, pump>>

Beat == pc = "read" /\ Plan(queue, Workers)

\* A wake drains its target's completions and the untargeted ones.
WakePump(D) ==
  /\ pc = "window" /\ ~charging
  /\ D \subseteq queue /\ {w \in queue : Kind[w] # "op"} \subseteq D
  /\ Plan(D, {w \in Workers : Kind[w] # "charge"})

\* Before it, the exits of shares the arena stopped are consumed alone.
SettleShares ==
  LET S == {w \in queue \cap stopping : Kind[w] = "share"} IN
  /\ pc = "window" /\ S # {}
  /\ queue' = queue \ S
  /\ Release(S)
  /\ UNCHANGED <<charging, scan, pc, engine, pump>>

\* A stop with no live descriptor releases; with one it only asks.
Stop(w) ==
  /\ pc = "start" /\ w \in stops
  /\ stops' = stops \ {w}
  /\ IF w \in info THEN UNCHANGED <<used, booked, stopping>> ELSE Release({w})
  /\ UNCHANGED <<queue, charging, scan, pc, engine, todo, booting, failed>>

\* Over the process ceiling, not deployed, or the engine answers 0.
Refuse(w) ==
  /\ pc = "start" /\ w \in todo
  /\ todo' = todo \ {w} /\ failed' = failed \cup {w}
  /\ UNCHANGED <<used, booked, stopping, queue, charging, scan, pc, engine, stops,
                 booting>>

\* A job for a serving worker that has gone fails, and its worker with it.
PostRefused(w) ==
  /\ pc = "start" /\ w \in booked \ (info \cup todo \cup failed)
  /\ Kind[w] = "pool"
  /\ failed' = failed \cup {w}
  /\ UNCHANGED <<used, booked, stopping, queue, charging, scan, pc, engine, todo,
                 stops, booting>>

\* The descriptor is there before the process; then its readiness is awaited.
Exec(w) ==
  /\ pc = "start" /\ pc' = "boot" /\ w \in todo
  /\ InUse + Gb[w] <= MaxRam
  /\ todo' = todo \ {w} /\ booting' = w
  /\ info' = info \cup {w} /\ alive' = alive \cup {w}
  /\ UNCHANGED <<used, booked, stopping, queue, charging, scan, outside, stops,
                 failed>>

Ready ==
  /\ pc = "boot" /\ booting \in alive /\ pc' = "start"
  /\ booting' = Nobody
  /\ UNCHANGED <<used, booked, stopping, queue, charging, scan, engine, todo, stops,
                 failed>>

\* Mutant: the descriptor of a worker that died booting stays.
GoneKept ==
  /\ pc = "boot" /\ booting \notin alive /\ pc' = "start"
  /\ booting' = Nobody
  /\ failed' = failed \cup {booting}
  /\ UNCHANGED <<used, booked, stopping, queue, charging, scan, engine, todo, stops>>

\* It died before its atExit was in place.
Gone ==
  /\ pc = "boot" /\ booting \notin alive /\ pc' = "start"
  /\ booting' = Nobody
  /\ info' = info \ {booting} /\ failed' = failed \cup {booting}
  /\ UNCHANGED <<used, booked, stopping, queue, charging, scan, alive, outside, todo,
                 stops>>

ReportFailed ==
  /\ pc = "start" /\ todo = {} /\ stops = {} /\ pc' = "window"
  /\ Release(failed) /\ failed' = {}
  /\ UNCHANGED <<queue, charging, scan, engine, todo, stops, booting>>

----------------------------------------------------------------------------
(* The engine, while the controller awaits *)

Awaiting == pc # "start"

\* A worker returns or is killed: its atExit queues the completion.  A charge
\* that was not killed flags the player as outdated.
Exit(w) ==
  /\ Awaiting /\ w \in alive \ {booting}
  /\ alive' = alive \ {w} /\ info' = info \ {w} /\ queue' = queue \cup {w}
  /\ IF Kind[w] = "charge" THEN charging' \in {charging, TRUE}
                           ELSE UNCHANGED charging
  /\ UNCHANGED <<used, booked, stopping, scan, pc, outside, pump>>

\* A reset of the realm takes the registry away under it.
Torn(w) ==
  /\ Awaiting /\ w \in alive \ {booting}
  /\ alive' = alive \ {w} /\ info' = info \ {w}
  /\ UNCHANGED <<used, booked, stopping, queue, charging, scan, pc, outside, pump>>

DiesBooting ==
  /\ pc = "boot" /\ booting \in alive
  /\ alive' = alive \ {booting}
  /\ UNCHANGED <<used, booked, stopping, queue, charging, scan, pc, info, outside,
                 pump>>

OtherScripts ==
  /\ Awaiting
  /\ outside' \in {g \in Foreign : Total(alive) + g <= MaxRam}
  /\ UNCHANGED <<used, booked, stopping, queue, charging, scan, pc, info, alive,
                 pump>>

----------------------------------------------------------------------------
Sweep == Scan \/ Resync

Launch ==
  \/ \E w \in Workers : Stop(w) \/ Refuse(w) \/ PostRefused(w) \/ Exec(w)
  \/ Ready \/ Gone \/ ReportFailed

Next ==
  \/ Sweep \/ SkipSweep \/ CriticalKill
  \/ Refresh \/ Beat \/ SettleShares \/ Launch
  \/ \E D \in SUBSET queue : WakePump(D)
  \/ \E w \in Workers : Exit(w) \/ Torn(w)
  \/ DiesBooting \/ OtherScripts

Spec == Init /\ [][Next]_vars

\* The controller's awaits settle and every so many passes one sweeps.
Fairness ==
  /\ SF_vars(Scan) /\ WF_vars(Resync) /\ WF_vars(Refresh \/ Beat)
  /\ WF_vars(Launch)

FairSpec == Spec /\ Fairness

----------------------------------------------------------------------------
(* Properties *)

\* The ledger's state keeps its shape, and a launch in progress is reserved.
TypeOK ==
  /\ used \in Int /\ scan \in Nat /\ outside \in Foreign \cup {0}
  /\ charging \in BOOLEAN
  /\ booked \subseteq Workers /\ alive \subseteq info /\ info \subseteq booked
  /\ queue \subseteq Workers \ info /\ stopping \subseteq booked
  /\ todo \subseteq booked \ info /\ stops \subseteq booked
  /\ failed \subseteq booked \ (todo \cup info)
  /\ pc \in {"window", "scanned", "beat", "read", "start", "boot"}
  /\ booting \in info \cup {Nobody}
  /\ booting # Nobody <=> pc = "boot"

\* What a pump has still to do concerns workers that nothing else touches.
PumpOK ==
  /\ pc \notin {"start", "boot"} => todo = {} /\ stops = {} /\ failed = {}
  /\ stops \cap (todo \cup failed \cup {booting}) = {}
  /\ \A w \in stops : Kind[w] = "share"
  /\ todo \cap queue = {}

\* What RamLedgerProofs keeps.
Inductive == TypeOK /\ PumpOK

\* The heap never offers what a worker has reserved: whatever a sweep observed
\* and whatever happened since, every reservation is counted in full until it
\* is released.  "keep every reservation until dispatch consumes its
\* completion".
HeapCovers == used >= Total(booked)

\* Every reservation is returned once: a worker may be killed for a critical
\* call and then drain its completion, stopped and settled, refused and
\* orphaned, and the heap moves by what leaves the ledgers and no more.
ExactlyOnce == used' - Total(booked') = used - Total(booked)

\* What the sweep is for: when no worker has left since it looked and none is
\* missing, the heap becomes the host's real use, foreign RAM that has gone
\* included.
SweepRepairs == booked' \subseteq alive /\ scan = InUse => used' = InUse

\* Only the sweep changes what the heap holds beside the ledgers, and then to
\* the truth.
HeapMovesExactly == [][IF pc = "scanned" /\ pc' = "beat" THEN SweepRepairs ELSE ExactlyOnce]_vars

\* No reservation is kept for ever by a worker that has gone, however it went:
\* a completion is drained, an orphan is found.  Operations torn down without a
\* completion are excepted: nothing looks for them.
ReservationsReturn ==
  \A w \in Workers :
    w \in booked \ (alive \cup todo) /\ (Kind[w] = "op" => w \in queue)
      ~> w \notin booked \/ w \in alive
=============================================================================
