------------------------------ MODULE NsProxy ------------------------------
(***************************************************************************)
(* The ns resident of game/lib/ns-proxy.ts (class Resident).               *)
(*                                                                         *)
(* A resident is a process that lends its `ns` to the controller.  Every   *)
(* operation on it is a turn of one serial promise chain (#tail): a plain  *)
(* call, a guaranteeFit lease, or a free.  A turn that does not fit what   *)
(* the process has paid for kills it and stands a new one up on a block    *)
(* granted by a placer; each await of the code is a pc value here, so the  *)
(* engine, the placer and the callers interleave at exactly those points.  *)
(*                                                                         *)
(* GB are small naturals in units of the price margin.  A placer's answer  *)
(* is any block its contract allows; the engine may refuse an exec.        *)
(***************************************************************************)
EXTENDS Integers, FiniteSets, Sequences, SetSums

CONSTANTS
  Residents,      \* the labels: nsp, nspLong
  Paths,          \* dotted ns paths, "exec" apart
  Known,          \* the paths the runtime can price
  Cost,           \* [Paths -> Nat], what the engine bills for a path
  UnknownCallGb,  \* UNKNOWN_CALL_GB, the price guessed for the others
  PriceMarginGb,  \* PRICE_MARGIN_GB
  MaxAskGb,       \* MAX_ASK_GB
  ResidentBaseGb, \* RESIDENT_BASE_GB
  BudgetGb,       \* [Residents -> Nat], the budget a resident is created with
  Turns,          \* the turns callers may queue
  Blocks,         \* identities of granted placements
  Pids,           \* engine process ids
  None,
  TailLimit,      \* bound on the length of a chain
  KillLimit,      \* bound on processes killed from outside the proxy
  ExitMayStall    \* may an exit outlast EXIT_TIMEOUT_MS?

Kinds == {"call", "exec", "lease", "free"}

ASSUME ConstantsAssumption ==
  /\ Known \subseteq Paths /\ IsFiniteSet(Paths)
  /\ Cost \in [Paths -> Nat]
  /\ UnknownCallGb \in Nat /\ PriceMarginGb \in Nat /\ MaxAskGb \in Nat
  /\ ResidentBaseGb \in Nat
  /\ BudgetGb \in [Residents -> Nat]
  /\ Turns \subseteq [kind : Kinds, paths : SUBSET Paths]
  /\ None \notin Blocks /\ None \notin Pids
  /\ TailLimit \in Nat /\ KillLimit \in Nat /\ ExitMayStall \in BOOLEAN

----------------------------------------------------------------------------
(* Prices *)

\* priceOf: a name the runtime cannot price is guessed, never free.
Price(p) == IF p \in Known THEN Cost[p] ELSE UnknownCallGb

PriceAll(D) == SumOver([p \in Paths |-> Price(p)], D)

Larger(a, b) == IF a >= b THEN a ELSE b
Smaller(a, b) == IF a <= b THEN a ELSE b

\* The floor of a lease: the measured part of a union is kept whole, only the
\* guessed part of it may be clamped to what a resident can be granted.
FloorGb(D) ==
  IF D \subseteq Known
    THEN PriceAll(D) + PriceMarginGb
    ELSE Larger(PriceAll(D \cap Known) + PriceMarginGb,
                Smaller(PriceAll(D) + PriceMarginGb, MaxAskGb))

\* What a call asks for: first the floor raises the ask, and then the working
\* set a recycle has just learned replaces it, clamped at MAX_ASK_GB.
AskAfterCall(ask, floor, workingSet, recycling) ==
  LET raised == Larger(floor, ask)
  IN  IF recycling /\ workingSet > raised
        THEN Smaller(workingSet, MaxAskGb) ELSE raised

\* What a lease asks for: the same two rules in the other order.
AskAfterLease(ask, floor, workingSet, recycling) ==
  Larger(floor, IF recycling /\ workingSet > ask
                  THEN Smaller(workingSet, MaxAskGb) ELSE ask)

----------------------------------------------------------------------------
VARIABLES
  tail,        \* #tail: the turns queued on each resident, the running one first
  pc,          \* where the running turn awaits
  preferredGb, \* #preferredGb, what the resident asks for
  budgetGb,    \* #budgetGb, what its process may spend
  ns,          \* #ns (with #pid, #stop and #exited): the process lending its ns
  booting,     \* launch: the process whose readiness is awaited
  paid,        \* #paid, the members this process has been billed for
  paidGb,      \* #paidGb, their price
  placement,   \* #placement, the block the resident holds
  needGb,      \* respawn: the floor of this respawn
  next,        \* respawn: the block the next process goes to
  incident,    \* respawn: has an adequate block been obtained?
  dying,       \* killProcess: the process whose exit is awaited
  memberFailed,\* guaranteeFit: has a leased member thrown?
  outcome,     \* how the last turn's promise settled
  granted,     \* the placer's ledger: outstanding block -> its executable GB
  procs,       \* the engine's process table: live pid -> [of, block]
  abandoned,   \* processes whose exit was not waited for
  kills        \* processes killed from outside so far

turnVars == <<tail, pc, outcome>>
askVars == <<preferredGb, needGb>>
procVars == <<ns, paid, paidGb, budgetGb>>
blockVars == <<placement, next, granted>>
awaitVars == <<booting, dying, incident>>
engineVars == <<procs, abandoned, kills>>
vars == <<tail, pc, preferredGb, budgetGb, ns, booting, paid, paidGb, placement,
          needGb, next, incident, dying, memberFailed, outcome, granted, procs,
          abandoned, kills>>

PCs == {"idle", "call", "use", "respawn", "kill", "launch", "retry",
        "poison", "freeing"}

Init ==
  /\ tail = [r \in Residents |-> <<>>]
  /\ pc = [r \in Residents |-> "idle"]
  /\ preferredGb = BudgetGb
  /\ budgetGb = [r \in Residents |-> 0]
  /\ ns = [r \in Residents |-> None]
  /\ booting = [r \in Residents |-> None]
  /\ paid = [r \in Residents |-> {}]
  /\ paidGb = [r \in Residents |-> 0]
  /\ placement = [r \in Residents |-> None]
  /\ needGb = [r \in Residents |-> 0]
  /\ next = [r \in Residents |-> None]
  /\ incident = [r \in Residents |-> FALSE]
  /\ dying = [r \in Residents |-> None]
  /\ memberFailed = [r \in Residents |-> FALSE]
  /\ outcome = [r \in Residents |-> "none"]
  /\ granted = [b \in {} |-> 0]
  /\ procs = [p \in {} |-> 0]
  /\ abandoned = {}
  /\ kills = 0

----------------------------------------------------------------------------
(* Helpers *)

turn(r) == Head(tail[r])

Alive(p) == p \in DOMAIN procs

\* A turn of this kind is at the head of the chain and has not started.
Starting(r, kind) == pc[r] = "idle" /\ tail[r] # <<>> /\ turn(r).kind = kind

Goto(r, where) == pc' = [pc EXCEPT ![r] = where] /\ UNCHANGED <<tail, outcome>>

\* The turn's promise settles and the chain moves on, whatever the outcome.
Settle(r, how) ==
  /\ tail' = [tail EXCEPT ![r] = Tail(@)]
  /\ pc' = [pc EXCEPT ![r] = "idle"]
  /\ outcome' = [outcome EXCEPT ![r] = how]

\* A placer grants a block; release() of the placement hands it back once.
Granted(ledger, b, gb) ==
  [x \in DOMAIN ledger \cup {b} |-> IF x = b THEN gb ELSE ledger[x]]

Released(ledger, b) == [x \in DOMAIN ledger \ {b} |-> ledger[x]]

\* Mutant of the second half of #killProcess: the exit is not waited for.
KillNotAwaited(r) ==
  dying' = [dying EXCEPT ![r] = None] /\ UNCHANGED abandoned

\* Mutant of the first half: the members are forgotten and their bill is not.
BeginKillKeepsBill(r) ==
  /\ dying' = [dying EXCEPT ![r] = ns[r]]
  /\ ns' = [ns EXCEPT ![r] = None]
  /\ paid' = [paid EXCEPT ![r] = {}]
  /\ UNCHANGED <<paidGb, budgetGb>>

\* The synchronous half of #killProcess: forget the process, ask it to stop.
BeginKill(r) ==
  /\ dying' = [dying EXCEPT ![r] = ns[r]]
  /\ ns' = [ns EXCEPT ![r] = None]
  /\ paid' = [paid EXCEPT ![r] = {}]
  /\ paidGb' = [paidGb EXCEPT ![r] = 0]
  /\ UNCHANGED budgetGb

\* The await of #killProcess ends when the process has exited, or when
\* EXIT_TIMEOUT_MS passes first and it is given up on.
KillAwaited(r) ==
  /\ \/ ~Alive(dying[r]) /\ UNCHANGED abandoned
     \/ Alive(dying[r]) /\ ExitMayStall
        /\ abandoned' = abandoned \cup {dying[r]}
  /\ dying' = [dying EXCEPT ![r] = None]

----------------------------------------------------------------------------
(* What a turn does once process p serves it: resolve and pay the members   *)
(* it lacks, then run.  A name the runtime does not know may not resolve:   *)
(* the members before it stay paid and the turn fails.                      *)

Bill(r, S) ==
  /\ paid' = [paid EXCEPT ![r] = @ \cup S]
  /\ paidGb' = [paidGb EXCEPT ![r] = @ + PriceAll(S \ paid[r])]

Serve(r, p) ==
  LET D == turn(r).paths
  IN \/ /\ Bill(r, D)
        /\ CASE turn(r).kind = "lease" ->
                  /\ Goto(r, "use")
                  /\ memberFailed' = [memberFailed EXCEPT ![r] = FALSE]
             [] turn(r).kind = "call" /\ Alive(p) ->
                  Goto(r, "call") /\ UNCHANGED memberFailed
             [] OTHER -> Settle(r, "error") /\ UNCHANGED memberFailed
     \/ /\ \E S \in SUBSET (D \cap Known) : Bill(r, S)
        /\ ~(D \subseteq Known \cup paid[r])
        /\ Settle(r, "error")
        /\ UNCHANGED memberFailed

\* The turn needs a new process that may spend at least this much.
NeedsRespawn(r, gb) ==
  /\ Goto(r, "respawn")
  /\ needGb' = [needGb EXCEPT ![r] = gb]
  /\ incident' = [incident EXCEPT ![r] = FALSE]
  /\ UNCHANGED <<paid, paidGb, memberFailed>>

(* The callers *)

\* call(), guaranteeFit() and free() append a turn to the chain.
Submit(r, t) ==
  /\ Len(tail[r]) < TailLimit
  /\ tail' = [tail EXCEPT ![r] = Append(@, t)]
  /\ UNCHANGED <<pc, outcome, askVars, procVars, blockVars, engineVars,
                 awaitVars, memberFailed>>

(* #invoke *)

\* exec runs on nsMain and never touches the resident.
InvokeExec(r) ==
  /\ Starting(r, "exec")
  /\ Settle(r, "ok")
  /\ UNCHANGED <<askVars, procVars, blockVars, engineVars, awaitVars,
                 memberFailed>>

\* Mutant: what the process has already paid for is forgotten.
FitsAlone(r, gb) == ns[r] # None /\ gb <= budgetGb[r]

Fits(r, gb) == ns[r] # None /\ paidGb[r] + gb <= budgetGb[r]

Memoised(r) == ns[r] # None /\ turn(r).paths \subseteq paid[r]

\* A member this process has already paid for runs at once; through a process
\* that is gone it throws.
InvokeMemo(r) ==
  /\ Starting(r, "call") /\ Memoised(r)
  /\ IF Alive(ns[r]) THEN Goto(r, "call") ELSE Settle(r, "error")
  /\ UNCHANGED <<askVars, procVars, blockVars, engineVars, awaitVars,
                 memberFailed>>

\* A new member raises the ask to its own floor, and is served by the running
\* process if it still fits beside what has been paid.
InvokeNew(r) ==
  LET cost == PriceAll(turn(r).paths)
      floor == cost + PriceMarginGb
  IN /\ Starting(r, "call") /\ ~Memoised(r)
     /\ preferredGb' = [preferredGb EXCEPT ![r] =
          AskAfterCall(@, floor, paidGb[r] + cost + PriceMarginGb,
                       ns[r] # None /\ ~Fits(r, cost))]
     /\ IF Fits(r, cost)
          THEN Serve(r, ns[r]) /\ UNCHANGED <<needGb, incident>>
          ELSE NeedsRespawn(r, floor)
     /\ UNCHANGED <<ns, budgetGb, blockVars, engineVars, booting, dying>>

(* #guaranteeFit *)

\* The whole declared union is priced before its first call; what it lacks
\* either fits beside what is paid or costs a respawn at the union's floor.
Guarantee(r) ==
  LET D == turn(r).paths
      missing == IF ns[r] = None THEN PriceAll(D) ELSE PriceAll(D \ paid[r])
  IN /\ Starting(r, "lease") /\ D # {}
     /\ IF Fits(r, missing)
          THEN Serve(r, ns[r]) /\ UNCHANGED <<askVars, incident>>
          ELSE /\ preferredGb' = [preferredGb EXCEPT ![r] =
                    AskAfterLease(@, FloorGb(D),
                                  paidGb[r] + missing + PriceMarginGb,
                                  ns[r] # None)]
               /\ NeedsRespawn(r, FloorGb(D))
     /\ UNCHANGED <<ns, budgetGb, blockVars, engineVars, booting, dying>>

\* A lease that declares nothing is refused.
GuaranteeNothing(r) ==
  /\ Starting(r, "lease") /\ turn(r).paths = {}
  /\ Settle(r, "error")
  /\ UNCHANGED <<askVars, procVars, blockVars, engineVars, awaitVars,
                 memberFailed>>

\* The awaited member of a plain call settles.  In a killed process it never
\* does, and the turn holds the chain for ever.
CallSettles(r) ==
  /\ pc[r] = "call" /\ Alive(ns[r])
  /\ \E how \in {"ok", "error"} : Settle(r, how)
  /\ UNCHANGED <<askVars, procVars, blockVars, engineVars, awaitVars,
                 memberFailed>>

\* A leased member throws: its own error, or that its process is gone.
MemberThrows(r) ==
  /\ pc[r] = "use" /\ ~memberFailed[r]
  /\ memberFailed' = [memberFailed EXCEPT ![r] = TRUE]
  /\ UNCHANGED <<turnVars, askVars, procVars, blockVars, engineVars, awaitVars>>

\* The callback of a lease returns ...
UseReturns(r) ==
  /\ pc[r] = "use"
  /\ Settle(r, "ok")
  /\ UNCHANGED <<askVars, procVars, blockVars, engineVars, awaitVars,
                 memberFailed>>

\* Mutant: a rejecting lease keeps the process its member threw in.
UseRejectsKept(r) ==
  /\ pc[r] = "use"
  /\ Settle(r, "error")
  /\ UNCHANGED <<askVars, procVars, blockVars, engineVars, awaitVars,
                 memberFailed>>

\* ... or rejects, and a process whose member threw is then put down.
UseRejects(r) ==
  /\ pc[r] = "use"
  /\ IF memberFailed[r]
       THEN Goto(r, "poison") /\ BeginKill(r)
       ELSE Settle(r, "error") /\ UNCHANGED <<procVars, dying>>
  /\ UNCHANGED <<askVars, blockVars, engineVars, booting, incident,
                 memberFailed>>

PoisonGone(r) ==
  /\ pc[r] = "poison"
  /\ KillAwaited(r)
  /\ Settle(r, "error")
  /\ UNCHANGED <<askVars, procVars, blockVars, procs, kills, booting, incident,
                 memberFailed>>

(* free() *)

\* Mutant: free() does not take its turn in the chain.
FreeJumpsTheChain(r) ==
  /\ \E i \in DOMAIN tail[r] : tail[r][i].kind = "free"
  /\ dying[r] = None
  /\ BeginKill(r)
  /\ UNCHANGED <<turnVars, askVars, blockVars, engineVars, booting, incident,
                 memberFailed>>

FreeBegins(r) ==
  /\ Starting(r, "free")
  /\ BeginKill(r)
  /\ Goto(r, "freeing")
  /\ UNCHANGED <<askVars, blockVars, engineVars, booting, incident,
                 memberFailed>>

FreeEnds(r) ==
  /\ pc[r] = "freeing"
  /\ KillAwaited(r)
  /\ granted' = Released(granted, placement[r])
  /\ placement' = [placement EXCEPT ![r] = None]
  /\ Settle(r, "ok")
  /\ UNCHANGED <<askVars, procVars, next, procs, kills, booting, incident,
                 memberFailed>>

----------------------------------------------------------------------------
(* #respawn: one iteration of its loop *)

MinGb(r) == ResidentBaseGb + needGb[r]
WantGb(r) == ResidentBaseGb + preferredGb[r]

\* The held block is reused when it still fits and no growth is wanted.
Reusable(r) ==
  /\ placement[r] # None
  /\ MinGb(r) <= granted[placement[r]] /\ WantGb(r) <= granted[placement[r]]

\* The placer's contract (ProxyPlacer): it is asked for a range, and answers
\* with nothing, with the floor, or with a block no larger than the ask.
Offers(r) == {MinGb(r)} \cup 1 .. WantGb(r)

\* An adequate block is in hand: the old process may now go.
Adequate(r, b) ==
  /\ next' = [next EXCEPT ![r] = b]
  /\ incident' = [incident EXCEPT ![r] = TRUE]
  /\ BeginKill(r)
  /\ Goto(r, "kill")
  /\ UNCHANGED <<askVars, placement, engineVars, booting, memberFailed>>

ReuseHeld(r) ==
  /\ pc[r] = "respawn" /\ Reusable(r)
  /\ Adequate(r, placement[r])
  /\ UNCHANGED granted

PlaceNext(r, b, gb) ==
  /\ pc[r] = "respawn" /\ ~Reusable(r)
  /\ b \notin DOMAIN granted
  /\ gb >= MinGb(r)
  /\ Adequate(r, b)
  /\ granted' = Granted(granted, b, gb)

\* A block below the floor is handed straight back.
PlaceUndersized(r, b, gb) ==
  /\ pc[r] = "respawn" /\ ~Reusable(r)
  /\ b \notin DOMAIN granted
  /\ gb < MinGb(r)
  /\ granted' = Released(Granted(granted, b, gb), b)
  /\ Goto(r, "retry")
  /\ UNCHANGED <<askVars, procVars, placement, next, engineVars, awaitVars,
                 memberFailed>>

\* Nothing is offered.
PlaceNothing(r) ==
  /\ pc[r] = "respawn" /\ ~Reusable(r)
  /\ Goto(r, "retry")
  /\ UNCHANGED <<askVars, procVars, blockVars, engineVars, awaitVars,
                 memberFailed>>

\* The old process is gone.  The old block is let go of only now, with the
\* next one held ...
LedgerWithoutOld(r) ==
  IF next[r] # placement[r] THEN Released(granted, placement[r]) ELSE granted

\* ... and the engine execs the new process into the next block ...
LaunchAccepted(r, p) ==
  /\ pc[r] = "kill"
  /\ KillAwaited(r)
  /\ granted' = LedgerWithoutOld(r)
  /\ placement' = [placement EXCEPT ![r] = IF next[r] # @ THEN None ELSE @]
  /\ ~Alive(p) /\ p \notin abandoned
  /\ \A q \in Residents : p \notin {ns[q], booting[q], dying[q]}
  /\ procs' = [x \in DOMAIN procs \cup {p} |->
                 IF x = p THEN [of |-> r, block |-> next[r]] ELSE procs[x]]
  /\ booting' = [booting EXCEPT ![r] = p]
  /\ Goto(r, "launch")
  /\ UNCHANGED <<askVars, procVars, next, kills, incident, memberFailed>>

\* ... or refuses, and the next block goes back too.
\* Mutant: one lease leaks per refused exec.
LaunchRefusedLeaks(r) ==
  /\ pc[r] = "kill"
  /\ KillAwaited(r)
  /\ granted' = LedgerWithoutOld(r)
  /\ placement' = [placement EXCEPT ![r] = None]
  /\ next' = [next EXCEPT ![r] = None]
  /\ Goto(r, "retry")
  /\ UNCHANGED <<askVars, procVars, procs, kills, booting, incident,
                 memberFailed>>

LaunchRefused(r) ==
  /\ pc[r] = "kill"
  /\ KillAwaited(r)
  /\ granted' = Released(LedgerWithoutOld(r), next[r])
  /\ placement' = [placement EXCEPT ![r] = None]
  /\ next' = [next EXCEPT ![r] = None]
  /\ Goto(r, "retry")
  /\ UNCHANGED <<askVars, procVars, procs, kills, booting, incident,
                 memberFailed>>

\* The launched process publishes its ns: the resident stands, and the turn
\* that wanted it is served.
LaunchReady(r) ==
  /\ pc[r] = "launch" /\ Alive(booting[r])
  /\ ns' = [ns EXCEPT ![r] = booting[r]]
  /\ booting' = [booting EXCEPT ![r] = None]
  /\ placement' = [placement EXCEPT ![r] = next[r]]
  /\ budgetGb' = [budgetGb EXCEPT ![r] = granted[next[r]] - ResidentBaseGb]
  /\ next' = [next EXCEPT ![r] = None]
  /\ Serve(r, booting[r])
  /\ UNCHANGED <<askVars, granted, engineVars, incident, dying>>

\* It died before publishing: same rollback as a refused exec.
LaunchGone(r) ==
  /\ pc[r] = "launch" /\ ~Alive(booting[r])
  /\ granted' = Released(granted, next[r])
  /\ placement' = [placement EXCEPT ![r] = None]
  /\ next' = [next EXCEPT ![r] = None]
  /\ booting' = [booting EXCEPT ![r] = None]
  /\ Goto(r, "retry")
  /\ UNCHANGED <<askVars, procVars, engineVars, incident, dying, memberFailed>>

\* The retry delay ends.
RetryDelay(r) ==
  /\ pc[r] = "retry"
  /\ Goto(r, "respawn")
  /\ UNCHANGED <<askVars, procVars, blockVars, engineVars, awaitVars,
                 memberFailed>>

\* IMPOSSIBLE_AFTER_MS of refusal with no adequate block ever obtained: throw.
\* Mutant: the loop has no exit but a block.
NeverImpossible(r) == pc[r] = "retry" /\ FALSE /\ UNCHANGED vars

Impossible(r) ==
  /\ pc[r] = "retry" /\ ~incident[r]
  /\ Settle(r, "error")
  /\ UNCHANGED <<askVars, procVars, blockVars, engineVars, awaitVars,
                 memberFailed>>

----------------------------------------------------------------------------
(* The engine *)

\* A process told to stop returns from main and its RAM is given back.
ProcessExits(p) ==
  /\ Alive(p)
  /\ p \in abandoned \/ \E r \in Residents : dying[r] = p
  /\ procs' = [x \in DOMAIN procs \ {p} |-> procs[x]]
  /\ abandoned' = abandoned \ {p}
  /\ UNCHANGED <<turnVars, askVars, procVars, blockVars, kills, awaitVars,
                 memberFailed>>

\* Something outside the proxy kills a resident's process.
KilledOutside(p) ==
  /\ Alive(p) /\ kills < KillLimit
  /\ kills' = kills + 1
  /\ procs' = [x \in DOMAIN procs \ {p} |-> procs[x]]
  /\ abandoned' = abandoned \ {p}
  /\ UNCHANGED <<turnVars, askVars, procVars, blockVars, awaitVars,
                 memberFailed>>

----------------------------------------------------------------------------
Respawn(r) ==
  \/ ReuseHeld(r)
  \/ \E b \in Blocks : \E gb \in Offers(r) :
       PlaceNext(r, b, gb) \/ PlaceUndersized(r, b, gb)
  \/ PlaceNothing(r)
  \/ \E p \in Pids : LaunchAccepted(r, p)
  \/ LaunchRefused(r)
  \/ LaunchReady(r)
  \/ LaunchGone(r)
  \/ RetryDelay(r)
  \/ Impossible(r)

Turn(r) ==
  \/ InvokeExec(r) \/ InvokeMemo(r) \/ InvokeNew(r)
  \/ Guarantee(r) \/ GuaranteeNothing(r)
  \/ CallSettles(r)
  \/ MemberThrows(r) \/ UseReturns(r) \/ UseRejects(r) \/ PoisonGone(r)
  \/ FreeBegins(r) \/ FreeEnds(r)

Next ==
  \/ \E r \in Residents : \E t \in Turns : Submit(r, t)
  \/ \E r \in Residents : Turn(r) \/ Respawn(r)
  \/ \E p \in Pids : ProcessExits(p) \/ KilledOutside(p)

Spec == Init /\ [][Next]_vars

\* Microtasks and realm timers run; a process told to stop exits; a borrowed
\* call and the callback of a lease return; the engine does not refuse an exec
\* for ever; a fleet that once had an adequate block has one again; and a
\* minute of refusal passes.
Fairness ==
  /\ \A r \in Residents :
       /\ WF_vars(InvokeExec(r) \/ InvokeMemo(r) \/ InvokeNew(r))
       /\ WF_vars(Guarantee(r) \/ GuaranteeNothing(r) \/ FreeBegins(r))
       /\ WF_vars(CallSettles(r) \/ UseReturns(r))
       /\ WF_vars(PoisonGone(r) \/ FreeEnds(r) \/ LaunchRefused(r))
       /\ WF_vars(LaunchReady(r) \/ LaunchGone(r) \/ RetryDelay(r))
       /\ WF_vars(ReuseHeld(r) \/ PlaceNothing(r))
       /\ SF_vars(incident[r] /\ \E b \in Blocks : \E gb \in Offers(r) :
                                   PlaceNext(r, b, gb))
       /\ SF_vars(\E p \in Pids : LaunchAccepted(r, p))
       /\ SF_vars(Impossible(r))
  /\ \A p \in Pids : WF_vars(ProcessExits(p))

FairSpec == Spec /\ Fairness

----------------------------------------------------------------------------
(* Properties *)

Shape ==
  /\ tail \in [Residents -> Seq(Turns)]
  /\ pc \in [Residents -> PCs]
  /\ preferredGb \in [Residents -> Nat] /\ needGb \in [Residents -> Nat]
  /\ paidGb \in [Residents -> Nat] /\ budgetGb \in [Residents -> Int]
  /\ paid \in [Residents -> SUBSET Paths]
  /\ ns \in [Residents -> Pids \cup {None}]
  /\ booting \in [Residents -> Pids \cup {None}]
  /\ dying \in [Residents -> Pids \cup {None}]
  /\ placement \in [Residents -> Blocks \cup {None}]
  /\ next \in [Residents -> Blocks \cup {None}]
  /\ incident \in [Residents -> BOOLEAN]
  /\ memberFailed \in [Residents -> BOOLEAN]
  /\ outcome \in [Residents -> {"none", "ok", "error"}]
  /\ DOMAIN granted \subseteq Blocks
  /\ \A b \in DOMAIN granted : granted[b] \in Nat
  /\ DOMAIN procs \subseteq Pids
  /\ \A p \in DOMAIN procs : procs[p] \in [of : Residents, block : Blocks]
  /\ abandoned \subseteq DOMAIN procs
  /\ kills \in 0 .. KillLimit

BillsExact ==
  \A r \in Residents :
    /\ paidGb[r] = PriceAll(paid[r])
    /\ ns[r] = None => paid[r] = {}

\* Every variable keeps its shape, and the bill that is carried from call to call
\* is the price of what the process has paid for: after each kill, refusal and
\* throw it starts again from nothing with the next process.
TypeOK == Shape /\ BillsExact

Holds(r) == {placement[r], next[r]} \ {None}

\* No block leaks and none is used after its release: through every recycle,
\* refusal, throw and free, the outstanding blocks of the placer's ledger are
\* exactly those some resident holds, and no two residents hold the same one.
BlocksAccounted ==
  /\ \A r \in Residents : Holds(r) \subseteq DOMAIN granted
  /\ \A b \in DOMAIN granted : \E r \in Residents : b \in Holds(r)
  /\ \A q, r \in Residents : q # r => Holds(q) \cap Holds(r) = {}

\* A resident process always runs under an outstanding block: its RAM is never
\* given back to the dispatcher before it has exited, unless EXIT_TIMEOUT_MS
\* passed waiting for it.
LiveWorkIsReserved ==
  \A p \in DOMAIN procs \ abandoned : procs[p].block \in DOMAIN granted

\* The placer's ledger is true in both directions: its blocks are those held,
\* and what runs is under one of them (#respawn, #killProcess).
LedgerSound == BlocksAccounted /\ LiveWorkIsReserved

\* A replacement never races its own corpse: a resident has at most one live
\* process, those given up on after EXIT_TIMEOUT_MS apart.
OneProcessEach ==
  \A p, q \in DOMAIN procs \ abandoned :
    procs[p].of = procs[q].of => p = q

\* The ns a resident lends belongs to a process on the block it holds, and it
\* may spend exactly what that block grants.
RunsOnItsBlock ==
  \A r \in Residents : ns[r] # None =>
    /\ placement[r] # None
    /\ budgetGb[r] = granted[placement[r]] - ResidentBaseGb
    /\ Alive(ns[r]) => procs[ns[r]] = [of |-> r, block |-> placement[r]]

\* One process for each resident, on the block it pays for.
OneProcessOnItsBlock == OneProcessEach /\ RunsOnItsBlock

\* The engine kills a script whose billed members outgrow its allocation: what
\* a resident has paid for at a measured price always fits its budget.
MeasuredWorkFits ==
  \A r \in Residents : ns[r] # None =>
    PriceAll(paid[r] \cap Known) <= budgetGb[r]

\* Authority is bound to the calling pid: while the callback of a lease runs,
\* no other turn recycles, frees or refills the process it was given.
SessionIntact ==
  [][\A r \in Residents : pc[r] = "use" /\ pc'[r] = "use" =>
       /\ ns'[r] = ns[r] /\ paid'[r] = paid[r] /\ placement'[r] = placement[r]
       /\ placement[r] \in DOMAIN granted']_vars

\* A process whose leased member threw is gone before the lease rejects, so
\* the retry of the whole sequence cannot run on it again.
PoisonedNeverReused ==
  [][\A r \in Residents :
       /\ pc[r] \in {"use", "poison"} /\ memberFailed[r]
       /\ pc'[r] = "idle" /\ outcome'[r] = "error"
       => ns'[r] = None]_vars

\* The chain never wedges: if no process is killed from outside, every queued
\* turn settles, by answer or by throw, however the fleet refuses.
EveryTurnSettles ==
  \A r \in Residents :
    \/ []<>(tail[r] = <<>>)
    \/ []<><<tail[r] # <<>> /\ tail'[r] = Tail(tail[r])>>_vars

=============================================================================
