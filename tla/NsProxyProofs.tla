--------------------------- MODULE NsProxyProofs ---------------------------
(***************************************************************************)
(* Proofs about NsProxy, for every set of residents, paths, prices, blocks *)
(* and pids: its type invariant, that the placer's ledger and the engine's *)
(* process table stay in step with what the residents hold, that measured  *)
(* work fits the budget it runs on, and what a step may do to a lease.     *)
(***************************************************************************)
EXTENDS NsProxy, SetSumsProofs, TLAPS

\* What each pc means for the blocks and processes of its resident: a next
\* block exists exactly while a replacement is under way, no process is lent
\* while one is being stopped or started, and a lent process has a block.
Phases ==
  \A r \in Residents :
    /\ pc[r] # "idle" => tail[r] # <<>>
    /\ pc[r] \in {"kill", "launch"} <=> next[r] # None
    /\ pc[r] = "launch" <=> booting[r] # None
    /\ dying[r] # None => pc[r] \in {"kill", "poison", "freeing"}
    /\ pc[r] \in {"kill", "launch", "poison", "freeing"} => ns[r] = None
    /\ pc[r] \in {"use", "call"} => ns[r] # None
    /\ pc[r] = "launch" => placement[r] \in {None, next[r]}
    /\ ns[r] # None => placement[r] # None

\* Process p runs for resident r on block b.
Owns(p, r, b) == procs[p].of = r /\ procs[p].block = b

\* The processes a resident answers for.
Roles(r) == {ns[r], booting[r], dying[r]}

\* A live process that was not given up on is the one its resident lends,
\* starts or stops, and runs on the block that role says.
Processes ==
  /\ \A p \in DOMAIN procs \ abandoned : p \in Roles(procs[p].of)
  /\ \A r \in Residents :
       /\ ns[r] \notin abandoned
       /\ booting[r] \notin abandoned
       /\ dying[r] \notin abandoned
       /\ Alive(ns[r]) => Owns(ns[r], r, placement[r])
       /\ Alive(booting[r]) => Owns(booting[r], r, next[r])
       /\ Alive(dying[r]) => placement[r] # None /\ Owns(dying[r], r, placement[r])

\* What a resident may spend is what its block grants.
Budgets ==
  \A r \in Residents : ns[r] # None =>
    budgetGb[r] = granted[placement[r]] - ResidentBaseGb

IInv == Shape /\ BlocksAccounted /\ Phases /\ Processes /\ Budgets

\* The waits in which a turn holds a next block or a dying process.
Holding == {"kill", "launch", "poison", "freeing"}

----------------------------------------------------------------------------
(* Prices and asks are naturals *)

LEMMA PriceAllNat ==
  ASSUME NEW D \in SUBSET Paths PROVE PriceAll(D) \in Nat
<1>1. IsFiniteSet(D)
  BY ConstantsAssumption, FS_Subset DEF ConstantsAssumption
<1>2. \A p \in D : [q \in Paths |-> Price(q)][p] \in Nat
  BY ConstantsAssumption DEF ConstantsAssumption, Price
<1> QED BY <1>1, <1>2, SumNat DEF PriceAll

\* More paths cost more, and what is added costs what it adds.
LEMMA PriceAllGrows ==
  ASSUME NEW D \in SUBSET Paths, NEW C \in SUBSET D
  PROVE  PriceAll(C) <= PriceAll(D)
<1>1. IsFiniteSet(D)
  BY ConstantsAssumption, FS_Subset DEF ConstantsAssumption
<1>2. \A p \in D : [q \in Paths |-> Price(q)][p] \in Nat
  BY ConstantsAssumption DEF ConstantsAssumption, Price
<1> QED BY <1>1, <1>2, SumSubset DEF PriceAll

LEMMA PriceAllAdds ==
  ASSUME NEW C \in SUBSET Paths, NEW D \in SUBSET Paths
  PROVE  PriceAll(C \cup D) = PriceAll(C) + PriceAll(D \ C)
<1>1. IsFiniteSet(C) /\ IsFiniteSet(D \ C)
  BY ConstantsAssumption, FS_Subset DEF ConstantsAssumption
<1>2. \A p \in C \cup (D \ C) : [q \in Paths |-> Price(q)][p] \in Int
  BY ConstantsAssumption DEF ConstantsAssumption, Price
<1>3. C \cup D = C \cup (D \ C) /\ C \cap (D \ C) = {}
  OBVIOUS
<1> QED BY <1>1, <1>2, <1>3, SumUnion DEF PriceAll

LEMMA FloorGbNat ==
  ASSUME NEW D \in SUBSET Paths PROVE FloorGb(D) \in Nat
<1>1. PriceAll(D) \in Nat /\ PriceAll(D \cap Known) \in Nat
  BY PriceAllNat
<1>2. PriceMarginGb \in Nat /\ MaxAskGb \in Nat
  BY ConstantsAssumption
<1> QED BY <1>1, <1>2 DEF FloorGb, Larger, Smaller

----------------------------------------------------------------------------
(* The initial states *)

LEMMA InitIInv == Init => IInv
BY ConstantsAssumption
DEF Init, IInv, Shape, BlocksAccounted, Holds, Phases, Processes, Budgets,
    Roles, Alive, PCs

----------------------------------------------------------------------------
(* What the helpers shared by several actions do to the invariant's parts *)

\* The ledger stays exact when one resident exchanges what it holds for blocks
\* nobody else has.
LEMMA Exchange ==
  ASSUME BlocksAccounted, NEW r \in Residents, NEW H,
         \A q \in Residents \ {r} : Holds(q)' = Holds(q),
         Holds(r)' = H,
         DOMAIN granted' = (DOMAIN granted \ Holds(r)) \cup H,
         H \cap (DOMAIN granted \ Holds(r)) = {}
  PROVE  BlocksAccounted'
<1>1. \A q \in Residents : Holds(q)' \subseteq DOMAIN granted'
  BY DEF BlocksAccounted
<1>2. \A b \in DOMAIN granted' : \E q \in Residents : b \in Holds(q)'
  BY DEF BlocksAccounted
<1>3. \A p, q \in Residents : p # q => Holds(p)' \cap Holds(q)' = {}
  <2> SUFFICES ASSUME NEW p \in Residents, NEW q \in Residents, p # q
               PROVE  Holds(p)' \cap Holds(q)' = {}
    OBVIOUS
  <2>1. CASE p # r /\ q # r
    BY <2>1 DEF BlocksAccounted
  <2>2. CASE p = r
    BY <2>2 DEF BlocksAccounted
  <2>3. CASE q = r
    BY <2>3 DEF BlocksAccounted
  <2> QED BY <2>1, <2>2, <2>3
<1> QED BY <1>1, <1>2, <1>3 DEF BlocksAccounted

\* Asking the lent process to stop only renames its role from lent to dying.
LEMMA BeginKillProcesses ==
  ASSUME Shape, Phases, Processes, NEW r \in Residents,
         pc[r] \notin Holding, BeginKill(r),
         UNCHANGED <<procs, abandoned, placement, booting>>,
         \A q \in Residents \ {r} : next'[q] = next[q]
  PROVE  Processes'
<1>1. dying[r] = None /\ booting[r] = None
  BY DEF Phases, Holding
<1>2. ns'[r] = None /\ booting'[r] = None /\ dying'[r] = ns[r]
  BY <1>1 DEF BeginKill, Shape
<1>3. \A q \in Residents \ {r} :
        ns'[q] = ns[q] /\ booting'[q] = booting[q] /\ dying'[q] = dying[q]
  BY DEF BeginKill, Shape
<1>4. None \notin DOMAIN procs /\ None \notin abandoned
  BY ConstantsAssumption DEF Shape
<1>5. \A p \in DOMAIN procs : procs[p].of \in Residents
  BY DEF Shape
<1>6. \A p \in DOMAIN procs' \ abandoned' :
        p \in Roles(procs[p].of)'
  BY <1>1, <1>2, <1>3, <1>4, <1>5 DEF Processes, Roles
<1>7. ASSUME NEW q \in Residents
      PROVE  /\ ns'[q] \notin abandoned'
             /\ booting'[q] \notin abandoned'
             /\ dying'[q] \notin abandoned'
             /\ Alive(ns[q])' => Owns(ns[q], q, placement[q])'
             /\ Alive(booting[q])' => Owns(booting[q], q, next[q])'
             /\ Alive(dying[q])' =>
                  placement'[q] # None /\ Owns(dying[q], q, placement[q])'
  <2>1. CASE q = r
    BY <2>1, <1>1, <1>2, <1>4 DEF Processes, Phases, Alive, Owns
  <2>2. CASE q # r
    BY <2>2, <1>3 DEF Processes, Alive, Owns
  <2> QED BY <2>1, <2>2
<1> QED BY <1>6, <1>7 DEF Processes

\* When the wait for a dying process ends it has exited or been given up on:
\* either way its resident answers for it no longer, and may let its block go.
LEMMA KillAwaitedProcesses ==
  ASSUME Shape, Phases, Processes, NEW r \in Residents,
         pc[r] \in {"kill", "poison", "freeing"}, KillAwaited(r),
         UNCHANGED <<procs, ns, booting>>,
         \A q \in Residents \ {r} :
           next'[q] = next[q] /\ placement'[q] = placement[q]
  PROVE  Processes'
<1>1. ns[r] = None /\ booting[r] = None
  BY DEF Phases
<1>2. dying'[r] = None
  BY DEF KillAwaited, Shape
<1>3. \A q \in Residents \ {r} : dying'[q] = dying[q]
  BY DEF KillAwaited, Shape
<1>4. None \notin DOMAIN procs /\ None \notin abandoned
  BY ConstantsAssumption DEF Shape
<1>5. \A p \in DOMAIN procs : procs[p].of \in Residents
  BY DEF Shape
<1>6. /\ abandoned \subseteq abandoned'
      /\ abandoned' \subseteq abandoned \cup {dying[r]}
      /\ Alive(dying[r]) => dying[r] \in abandoned'
      /\ dying[r] \in abandoned' => Alive(dying[r])
  BY DEF KillAwaited, Processes
<1>7. \A p \in DOMAIN procs' \ abandoned' :
        p \in Roles(procs[p].of)'
  BY <1>1, <1>2, <1>3, <1>4, <1>5, <1>6 DEF Processes, Roles, Alive
<1>8. ASSUME NEW q \in Residents
      PROVE  /\ ns'[q] \notin abandoned'
             /\ booting'[q] \notin abandoned'
             /\ dying'[q] \notin abandoned'
             /\ Alive(ns[q])' => Owns(ns[q], q, placement[q])'
             /\ Alive(booting[q])' => Owns(booting[q], q, next[q])'
             /\ Alive(dying[q])' =>
                  placement'[q] # None /\ Owns(dying[q], q, placement[q])'
  <2>1. CASE q = r
    BY <2>1, <1>1, <1>2, <1>4, <1>6 DEF Processes, Alive, Owns, Shape
  <2>2. CASE q # r
    <3>1. dying[r] \in abandoned' => procs[dying[r]].of = r
      BY <1>6 DEF Processes, Owns
    <3>2. dying[r] \in abandoned' =>
            dying[r] \notin {ns[q], booting[q], dying[q]}
      BY <3>1, <1>6, <2>2 DEF Processes, Alive, Owns
    <3> QED BY <2>2, <1>3, <1>6, <3>2 DEF Processes, Alive, Owns
  <2> QED BY <2>1, <2>2
<1> QED BY <1>7, <1>8 DEF Processes

\* A turn that moves on or settles leaves a chain of turns, at a known pc.
LEMMA ChainType ==
  ASSUME Shape, NEW r \in Residents, tail[r] # <<>>,
         \/ \E w \in PCs : Goto(r, w)
         \/ \E how \in {"none", "ok", "error"} : Settle(r, how)
  PROVE  /\ tail' \in [Residents -> Seq(Turns)]
         /\ pc' \in [Residents -> PCs]
         /\ outcome' \in [Residents -> {"none", "ok", "error"}]
<1>1. Tail(tail[r]) \in Seq(Turns)
  BY DEF Shape
<1>2. tail' \in [Residents -> Seq(Turns)]
  <2>1. tail' = tail \/ tail' = [tail EXCEPT ![r] = Tail(tail[r])]
    BY DEF Goto, Settle
  <2>2. tail \in [Residents -> Seq(Turns)]
    BY DEF Shape
  <2> QED BY <1>1, <2>1, <2>2
<1>3. pc' \in [Residents -> PCs]
  BY DEF Shape, Goto, Settle, PCs
<1>4. outcome' \in [Residents -> {"none", "ok", "error"}]
  BY DEF Shape, Goto, Settle
<1> QED BY <1>2, <1>3, <1>4

\* A turn that only moves on, outside the waits that hold something, disturbs
\* neither the blocks nor the processes.
LEMMA MoveTurn ==
  ASSUME IInv, NEW r \in Residents, pc[r] \notin Holding, tail[r] # <<>>,
         \/ \E w \in PCs \ Holding :
              Goto(r, w) /\ (w \in {"use", "call"} => ns[r] # None)
         \/ \E how \in {"none", "ok", "error"} : Settle(r, how),
         memberFailed' \in [Residents -> BOOLEAN],
         UNCHANGED <<askVars, procVars, placement, next, engineVars, awaitVars>>,
         DOMAIN granted' = DOMAIN granted,
         \A b \in DOMAIN granted : granted'[b] = granted[b]
  PROVE  IInv'
<1> USE DEF IInv, Goto, Settle, askVars, procVars, engineVars, awaitVars
<1>1. Shape' BY ChainType DEF Shape
<1>2. BlocksAccounted' BY DEF BlocksAccounted, Holds
<1>3. Phases' BY DEF Phases, Holding, Shape, PCs
<1>4. Processes' BY DEF Processes, Roles, Owns, Alive
<1>5. Budgets'
  BY ConstantsAssumption DEF Budgets, BlocksAccounted, Holds, Phases, Shape
<1> QED BY <1>1, <1>2, <1>3, <1>4, <1>5

\* What serving a turn can do: it settles it or moves it to its awaited part,
\* and what is billed are paths at natural prices.
LEMMA ServeEffect ==
  ASSUME Shape, NEW r \in Residents, NEW p, tail[r] # <<>>, Serve(r, p)
  PROVE  /\ \/ \E w \in {"use", "call"} : Goto(r, w)
            \/ Settle(r, "error")
         /\ memberFailed' \in [Residents -> BOOLEAN]
         /\ paid' \in [Residents -> SUBSET Paths]
         /\ paidGb' \in [Residents -> Nat]
<1>1. turn(r).paths \in SUBSET Paths
  BY ConstantsAssumption DEF Shape, turn
<1>2. ASSUME NEW S \in SUBSET Paths, Bill(r, S)
      PROVE  paid' \in [Residents -> SUBSET Paths] /\ paidGb' \in [Residents -> Nat]
  <2>1. PriceAll(S \ paid[r]) \in Nat
    BY PriceAllNat
  <2> QED BY <1>2, <2>1 DEF Bill, Shape
<1>3. paid' \in [Residents -> SUBSET Paths] /\ paidGb' \in [Residents -> Nat]
  BY <1>1, <1>2 DEF Serve
<1>4. memberFailed' \in [Residents -> BOOLEAN]
  BY DEF Serve, Shape
<1>5. (\E w \in {"use", "call"} : Goto(r, w)) \/ Settle(r, "error")
  BY DEF Serve
<1> QED BY <1>3, <1>4, <1>5

----------------------------------------------------------------------------
(* Steps that move no block and no process *)

LEMMA SubmitStep ==
  ASSUME IInv, NEW r \in Residents, NEW t \in Turns, Submit(r, t)
  PROVE  IInv'
<1> USE DEF IInv, Submit, askVars, procVars, blockVars, engineVars, awaitVars
<1>1. Shape' BY DEF Shape
<1>2. BlocksAccounted' BY DEF BlocksAccounted, Holds
<1>3. Phases'
  <2>1. Append(tail[r], t) # <<>>
    BY DEF Shape
  <2>2. \A q \in Residents : tail[q] # <<>> => tail'[q] # <<>>
    BY <2>1 DEF Shape
  <2> QED BY <2>2 DEF Phases
<1>4. Processes' BY DEF Processes, Roles, Owns, Alive
<1>5. Budgets' BY DEF Budgets
<1> QED BY <1>1, <1>2, <1>3, <1>4, <1>5

LEMMA PlainTurnStep ==
  ASSUME IInv, NEW r \in Residents,
         \/ InvokeExec(r) \/ InvokeMemo(r) \/ GuaranteeNothing(r)
         \/ CallSettles(r) \/ UseReturns(r) \/ PlaceNothing(r)
         \/ RetryDelay(r) \/ Impossible(r)
  PROVE  IInv'
<1>1. tail[r] # <<>> /\ pc[r] \notin Holding
  BY DEF IInv, Phases, InvokeExec, InvokeMemo, GuaranteeNothing, CallSettles,
         UseReturns, PlaceNothing, RetryDelay, Impossible, Starting, Holding
<1>2. \/ \E w \in PCs \ Holding :
           Goto(r, w) /\ (w \in {"use", "call"} => ns[r] # None)
      \/ \E how \in {"none", "ok", "error"} : Settle(r, how)
  BY DEF InvokeExec, InvokeMemo, Memoised, GuaranteeNothing, CallSettles,
         UseReturns, PlaceNothing, RetryDelay, Impossible, PCs, Holding
<1>3. UNCHANGED <<askVars, procVars, blockVars, engineVars, awaitVars, memberFailed>>
  BY DEF InvokeExec, InvokeMemo, GuaranteeNothing, CallSettles, UseReturns,
         PlaceNothing, RetryDelay, Impossible
<1>4. memberFailed' \in [Residents -> BOOLEAN]
  BY <1>3 DEF IInv, Shape
<1> QED BY <1>1, <1>2, <1>3, <1>4, MoveTurn DEF blockVars

LEMMA PlaceUndersizedStep ==
  ASSUME IInv, NEW r \in Residents, NEW b \in Blocks, NEW gb \in Nat,
         PlaceUndersized(r, b, gb)
  PROVE  IInv'
<1>1. tail[r] # <<>> /\ pc[r] \notin Holding
  BY DEF IInv, Phases, PlaceUndersized, Holding
<1>2. Goto(r, "retry") /\ "retry" \in PCs \ Holding
  BY DEF PlaceUndersized, PCs, Holding
<1>3. /\ DOMAIN granted' = DOMAIN granted
      /\ \A x \in DOMAIN granted : granted'[x] = granted[x]
  BY DEF PlaceUndersized, Granted, Released
<1>4. memberFailed' \in [Residents -> BOOLEAN]
  BY DEF PlaceUndersized, IInv, Shape
<1> QED BY <1>1, <1>2, <1>3, <1>4, MoveTurn DEF PlaceUndersized

LEMMA MemberThrowsStep ==
  ASSUME IInv, NEW r \in Residents, MemberThrows(r)
  PROVE  IInv'
<1> USE DEF IInv, MemberThrows, turnVars, askVars, procVars, blockVars,
            engineVars, awaitVars
<1>1. Shape' BY DEF Shape
<1>2. BlocksAccounted' BY DEF BlocksAccounted, Holds
<1>3. Phases' BY DEF Phases
<1>4. Processes' BY DEF Processes, Roles, Owns, Alive
<1>5. Budgets' BY DEF Budgets
<1> QED BY <1>1, <1>2, <1>3, <1>4, <1>5

\* A new member or a lease either fits the running process and is served, or
\* turns to the respawn loop with a new ask and floor.
LEMMA TurnStarts ==
  ASSUME IInv, NEW r \in Residents, pc[r] = "idle", tail[r] # <<>>,
         preferredGb' \in [Residents -> Nat], needGb' \in [Residents -> Nat],
         \/ ns[r] # None /\ Serve(r, ns[r]) /\ UNCHANGED incident
         \/ \E gb \in Nat : NeedsRespawn(r, gb),
         UNCHANGED <<ns, budgetGb, blockVars, engineVars, booting, dying>>
  PROVE  IInv'
<1> USE DEF IInv, blockVars, engineVars
<1>1. \/ \E w \in {"use", "call"} : Goto(r, w) /\ ns[r] # None
      \/ Goto(r, "respawn")
      \/ Settle(r, "error")
  BY ServeEffect DEF NeedsRespawn
<1>2. /\ memberFailed' \in [Residents -> BOOLEAN]
      /\ paid' \in [Residents -> SUBSET Paths]
      /\ paidGb' \in [Residents -> Nat]
      /\ incident' \in [Residents -> BOOLEAN]
  <2>1. CASE ns[r] # None /\ Serve(r, ns[r]) /\ UNCHANGED incident
    BY <2>1, ServeEffect DEF Shape
  <2>2. CASE \E gb \in Nat : NeedsRespawn(r, gb)
    BY <2>2 DEF NeedsRespawn, Shape
  <2> QED BY <2>1, <2>2
<1>3. Shape'
  <2>1. /\ tail' \in [Residents -> Seq(Turns)]
        /\ pc' \in [Residents -> PCs]
        /\ outcome' \in [Residents -> {"none", "ok", "error"}]
    BY <1>1, ChainType DEF PCs
  <2> QED BY <1>2, <2>1 DEF Shape
<1>4. BlocksAccounted' BY DEF BlocksAccounted, Holds
<1>5. Phases'
  <2>1. CASE \E w \in {"use", "call"} : Goto(r, w) /\ ns[r] # None
    BY <2>1 DEF Phases, Shape, Goto
  <2>2. CASE Goto(r, "respawn")
    BY <2>2 DEF Phases, Shape, Goto
  <2>3. CASE Settle(r, "error")
    BY <2>3 DEF Phases, Shape, Settle
  <2> QED BY <1>1, <2>1, <2>2, <2>3
<1>6. Processes' BY DEF Processes, Roles, Owns, Alive
<1>7. Budgets' BY DEF Budgets
<1> QED BY <1>3, <1>4, <1>5, <1>6, <1>7

LEMMA InvokeNewStep ==
  ASSUME IInv, NEW r \in Residents, InvokeNew(r)
  PROVE  IInv'
<1> DEFINE cost == PriceAll(turn(r).paths)
<1>1. pc[r] = "idle" /\ tail[r] # <<>> /\ turn(r).paths \in SUBSET Paths
  BY ConstantsAssumption DEF InvokeNew, Starting, IInv, Shape, turn
<1>2. cost \in Nat /\ PriceMarginGb \in Nat
  BY <1>1, PriceAllNat, ConstantsAssumption
<1> HIDE DEF cost
<1>3. preferredGb' \in [Residents -> Nat]
  <2>1. preferredGb[r] \in Nat /\ paidGb[r] \in Nat
    BY DEF IInv, Shape
  <2>2. AskAfterCall(preferredGb[r], cost + PriceMarginGb,
          paidGb[r] + cost + PriceMarginGb, ns[r] # None /\ ~Fits(r, cost)) \in Nat
    BY <1>2, <2>1, ConstantsAssumption DEF AskAfterCall, Larger, Smaller
  <2> QED BY <2>2 DEF InvokeNew, cost, IInv, Shape
<1>4. \/ ns[r] # None /\ Serve(r, ns[r]) /\ UNCHANGED <<needGb, incident>>
      \/ NeedsRespawn(r, cost + PriceMarginGb)
  BY DEF InvokeNew, cost, Fits
<1>5. needGb' \in [Residents -> Nat]
  BY <1>2, <1>4 DEF NeedsRespawn, IInv, Shape
<1>6. cost + PriceMarginGb \in Nat
  BY <1>2
<1>7. UNCHANGED <<ns, budgetGb, blockVars, engineVars, booting, dying>>
  BY DEF InvokeNew
<1> QED BY <1>1, <1>3, <1>4, <1>5, <1>6, <1>7, TurnStarts

LEMMA GuaranteeStep ==
  ASSUME IInv, NEW r \in Residents, Guarantee(r)
  PROVE  IInv'
<1> DEFINE D == turn(r).paths
           missing == IF ns[r] = None THEN PriceAll(D) ELSE PriceAll(D \ paid[r])
<1>1. pc[r] = "idle" /\ tail[r] # <<>> /\ D \in SUBSET Paths
  BY ConstantsAssumption DEF Guarantee, Starting, IInv, Shape, turn
<1>2. missing \in Nat /\ FloorGb(D) \in Nat /\ PriceMarginGb \in Nat
  <2>1. PriceAll(D) \in Nat /\ PriceAll(D \ paid[r]) \in Nat /\ FloorGb(D) \in Nat
    BY <1>1, PriceAllNat, FloorGbNat
  <2> QED BY <2>1, ConstantsAssumption
<1> HIDE DEF missing
<1>3. preferredGb' \in [Residents -> Nat]
  <2>1. preferredGb[r] \in Nat /\ paidGb[r] \in Nat
    BY DEF IInv, Shape
  <2>2. AskAfterLease(preferredGb[r], FloorGb(D),
          paidGb[r] + missing + PriceMarginGb, ns[r] # None) \in Nat
    BY <1>2, <2>1, ConstantsAssumption DEF AskAfterLease, Larger, Smaller
  <2> QED BY <2>2 DEF Guarantee, missing, askVars, IInv, Shape
<1>4. \/ ns[r] # None /\ Serve(r, ns[r]) /\ UNCHANGED <<needGb, incident>>
      \/ NeedsRespawn(r, FloorGb(D))
  BY DEF Guarantee, missing, Fits, askVars
<1>5. needGb' \in [Residents -> Nat]
  <2>1. FloorGb(D) \in Nat /\ needGb \in [Residents -> Nat]
    BY <1>2 DEF IInv, Shape
  <2>2. needGb' = needGb \/ needGb' = [needGb EXCEPT ![r] = FloorGb(D)]
    BY <1>4 DEF NeedsRespawn
  <2> QED BY <2>1, <2>2
<1>6. UNCHANGED <<ns, budgetGb, blockVars, engineVars, booting, dying>>
  BY DEF Guarantee
<1> QED BY <1>1, <1>2, <1>3, <1>4, <1>5, <1>6, TurnStarts

----------------------------------------------------------------------------
(* Steps that stop a process *)

\* A held block is outstanding, and a block that is not is held by nobody.
LEMMA HeldOutstanding ==
  ASSUME Shape, BlocksAccounted
  PROVE  /\ \A r \in Residents : placement[r] # None => placement[r] \in DOMAIN granted
         /\ \A r \in Residents : next[r] # None => next[r] \in DOMAIN granted
         /\ None \notin DOMAIN granted
BY ConstantsAssumption DEF Shape, BlocksAccounted, Holds

\* The type of what #killProcess assigns when it starts.
LEMMA BeginKillType ==
  ASSUME Shape, NEW r \in Residents, BeginKill(r)
  PROVE  /\ dying' \in [Residents -> Pids \cup {None}]
         /\ ns' \in [Residents -> Pids \cup {None}]
         /\ paid' \in [Residents -> SUBSET Paths]
         /\ paidGb' \in [Residents -> Nat]
         /\ budgetGb' \in [Residents -> Int]
BY DEF Shape, BeginKill

LEMMA KillAwaitedType ==
  ASSUME Shape, NEW r \in Residents, KillAwaited(r)
  PROVE  /\ dying' \in [Residents -> Pids \cup {None}]
         /\ abandoned' \subseteq DOMAIN procs
BY DEF Shape, KillAwaited, Alive

LEMMA UseRejectsStep ==
  ASSUME IInv, NEW r \in Residents, UseRejects(r)
  PROVE  IInv'
<1>1. tail[r] # <<>> /\ pc[r] = "use" /\ pc[r] \notin Holding
  BY DEF IInv, Phases, UseRejects, Holding
<1>2. CASE ~memberFailed[r]
  <2>1. Settle(r, "error") /\ UNCHANGED <<procVars, dying>>
    BY <1>2 DEF UseRejects
  <2>2. memberFailed' \in [Residents -> BOOLEAN]
    BY DEF UseRejects, IInv, Shape
  <2> QED BY <1>1, <2>1, <2>2, MoveTurn DEF UseRejects, blockVars, awaitVars
<1>3. CASE memberFailed[r]
  <2> USE DEF IInv, askVars, blockVars, engineVars
  <2>1. Goto(r, "poison") /\ BeginKill(r)
    BY <1>3 DEF UseRejects
  <2>2. UNCHANGED <<askVars, blockVars, engineVars, booting, incident, memberFailed>>
    BY DEF UseRejects
  <2>3. Shape'
    BY <1>1, <2>1, <2>2, BeginKillType, ChainType DEF Shape, PCs
  <2>4. BlocksAccounted' BY <2>2 DEF BlocksAccounted, Holds
  <2>5. Phases' BY <1>1, <2>1, <2>2 DEF Phases, Shape, Goto, BeginKill
  <2>6. Processes' BY <1>1, <2>1, <2>2, BeginKillProcesses
  <2>7. Budgets' BY <2>1, <2>2 DEF Budgets, BeginKill, Shape
  <2> QED BY <2>3, <2>4, <2>5, <2>6, <2>7
<1> QED BY <1>2, <1>3

LEMMA FreeBeginsStep ==
  ASSUME IInv, NEW r \in Residents, FreeBegins(r)
  PROVE  IInv'
<1> USE DEF IInv, askVars, blockVars, engineVars
<1>1. tail[r] # <<>> /\ pc[r] = "idle" /\ pc[r] \notin Holding
  BY DEF FreeBegins, Starting, Holding
<1>2. Goto(r, "freeing") /\ BeginKill(r)
  BY DEF FreeBegins
<1>3. UNCHANGED <<askVars, blockVars, engineVars, booting, incident, memberFailed>>
  BY DEF FreeBegins
<1>4. Shape'
  BY <1>1, <1>2, <1>3, BeginKillType, ChainType DEF Shape, PCs
<1>5. BlocksAccounted' BY <1>3 DEF BlocksAccounted, Holds
<1>6. Phases' BY <1>1, <1>2, <1>3 DEF Phases, Shape, Goto, BeginKill
<1>7. Processes' BY <1>1, <1>2, <1>3, BeginKillProcesses
<1>8. Budgets' BY <1>2, <1>3 DEF Budgets, BeginKill, Shape
<1> QED BY <1>4, <1>5, <1>6, <1>7, <1>8

LEMMA PoisonGoneStep ==
  ASSUME IInv, NEW r \in Residents, PoisonGone(r)
  PROVE  IInv'
<1> USE DEF IInv, askVars, procVars, blockVars
<1>1. tail[r] # <<>> /\ pc[r] = "poison"
  BY DEF Phases, PoisonGone
<1>2. Settle(r, "error") /\ KillAwaited(r)
  BY DEF PoisonGone
<1>3. UNCHANGED <<askVars, procVars, blockVars, procs, kills, booting, incident,
                  memberFailed>>
  BY DEF PoisonGone
<1>4. Shape'
  BY <1>1, <1>2, <1>3, KillAwaitedType, ChainType DEF Shape
<1>5. BlocksAccounted' BY <1>3 DEF BlocksAccounted, Holds
<1>6. Phases' BY <1>1, <1>2, <1>3 DEF Phases, Shape, Settle, KillAwaited
<1>7. Processes' BY <1>1, <1>2, <1>3, KillAwaitedProcesses
<1>8. Budgets' BY <1>3 DEF Budgets
<1> QED BY <1>4, <1>5, <1>6, <1>7, <1>8

\* free() hands back the one block its resident holds.
LEMMA FreeEndsStep ==
  ASSUME IInv, NEW r \in Residents, FreeEnds(r)
  PROVE  IInv'
<1> USE DEF IInv, askVars, procVars
<1>1. tail[r] # <<>> /\ pc[r] = "freeing" /\ next[r] = None
  BY DEF Phases, FreeEnds
<1>2. Settle(r, "ok") /\ KillAwaited(r)
  BY DEF FreeEnds
<1>3. /\ placement' = [placement EXCEPT ![r] = None]
      /\ granted' = Released(granted, placement[r])
      /\ UNCHANGED <<askVars, procVars, next, procs, kills, booting, incident,
                     memberFailed>>
  BY DEF FreeEnds
<1>4. Shape'
  BY <1>1, <1>2, <1>3, KillAwaitedType, ChainType DEF Shape, Released
<1>5. BlocksAccounted'
  <2>1. \A q \in Residents \ {r} : Holds(q)' = Holds(q)
    BY <1>3 DEF Holds, Shape
  <2>2. Holds(r)' = {} /\ Holds(r) = {placement[r]} \ {None}
    BY <1>1, <1>3 DEF Holds, Shape
  <2>3. DOMAIN granted' = DOMAIN granted \ Holds(r)
    BY <1>3, <2>2, HeldOutstanding DEF Released
  <2> QED BY <2>1, <2>2, <2>3, Exchange
<1>6. Phases' BY <1>1, <1>2, <1>3 DEF Phases, Shape, Settle, KillAwaited
<1>7. Processes'
  <2>1. \A q \in Residents \ {r} : next'[q] = next[q] /\ placement'[q] = placement[q]
    BY <1>3 DEF Shape
  <2> QED BY <1>1, <1>2, <1>3, <2>1, KillAwaitedProcesses
<1>8. Budgets'
  <2> SUFFICES ASSUME NEW q \in Residents, ns'[q] # None
               PROVE  budgetGb'[q] = granted'[placement'[q]] - ResidentBaseGb
    BY DEF Budgets
  <2>1. q # r
    BY <1>1, <1>3 DEF Phases
  <2>2. placement'[q] = placement[q] /\ placement[q] \in DOMAIN granted
        /\ budgetGb[q] = granted[placement[q]] - ResidentBaseGb
    BY <1>3, <2>1, HeldOutstanding DEF Budgets, Phases, Shape
  <2>3. placement[q] # placement[r]
    BY <2>1, <2>2, HeldOutstanding DEF BlocksAccounted, Holds
  <2> QED BY <1>3, <2>2, <2>3 DEF Released
<1> QED BY <1>4, <1>5, <1>6, <1>7, <1>8

----------------------------------------------------------------------------
(* Steps of the respawn loop *)

\* An adequate block, the held one or a fresh one, becomes the next block.
LEMMA AdequateStep ==
  ASSUME IInv, NEW r \in Residents, NEW b \in Blocks, pc[r] = "respawn",
         Adequate(r, b), DOMAIN granted' = DOMAIN granted \cup {b},
         \A x \in DOMAIN granted : granted'[x] = granted[x],
         \A x \in DOMAIN granted' : granted'[x] \in Nat,
         b = placement[r] \/ b \notin DOMAIN granted
  PROVE  IInv'
<1> USE DEF IInv, askVars, engineVars
<1>1. tail[r] # <<>> /\ pc[r] \notin Holding /\ next[r] = None
  BY DEF Phases, Holding
<1>2. Goto(r, "kill") /\ BeginKill(r)
  BY DEF Adequate
<1>3. /\ next' = [next EXCEPT ![r] = b]
      /\ incident' = [incident EXCEPT ![r] = TRUE]
      /\ UNCHANGED <<askVars, placement, engineVars, booting, memberFailed>>
  BY DEF Adequate
<1>4. Shape'
  BY <1>1, <1>2, <1>3, BeginKillType, ChainType DEF Shape, PCs
<1>5. BlocksAccounted'
  <2>1. \A q \in Residents \ {r} : Holds(q)' = Holds(q)
    BY <1>3 DEF Holds, Shape
  <2>2. Holds(r)' = Holds(r) \cup {b}
    BY <1>1, <1>3, ConstantsAssumption DEF Holds, Shape
  <2>3. Holds(r) \subseteq DOMAIN granted
    BY DEF BlocksAccounted
  <2>4. b \in Holds(r) \/ b \notin DOMAIN granted
    BY ConstantsAssumption DEF Holds
  <2>5. DOMAIN granted' = (DOMAIN granted \ Holds(r)) \cup (Holds(r) \cup {b})
    BY <2>3
  <2>6. (Holds(r) \cup {b}) \cap (DOMAIN granted \ Holds(r)) = {}
    BY <2>4
  <2> QED BY <2>1, <2>2, <2>5, <2>6, Exchange
<1>6. Phases'
  BY <1>1, <1>2, <1>3, ConstantsAssumption DEF Phases, Shape, Goto, BeginKill
<1>7. Processes'
  <2>1. \A q \in Residents \ {r} : next'[q] = next[q]
    BY <1>3 DEF Shape
  <2> QED BY <1>1, <1>2, <1>3, <2>1, BeginKillProcesses
<1>8. Budgets'
  BY <1>2, <1>3, HeldOutstanding DEF Budgets, BeginKill, Shape, Phases
<1> QED BY <1>4, <1>5, <1>6, <1>7, <1>8

LEMMA ReuseHeldStep ==
  ASSUME IInv, NEW r \in Residents, ReuseHeld(r)
  PROVE  IInv'
<1>1. placement[r] \in Blocks /\ placement[r] \in DOMAIN granted
  BY HeldOutstanding DEF ReuseHeld, Reusable, IInv, Shape
<1>2. pc[r] = "respawn" /\ Adequate(r, placement[r]) /\ granted' = granted
  BY DEF ReuseHeld
<1>3. \A x \in DOMAIN granted : granted[x] \in Nat
  BY DEF IInv, Shape
<1>4. DOMAIN granted' = DOMAIN granted \cup {placement[r]}
  BY <1>1, <1>2
<1> QED BY <1>1, <1>2, <1>3, <1>4, AdequateStep

LEMMA PlaceNextStep ==
  ASSUME IInv, NEW r \in Residents, NEW b \in Blocks, NEW gb \in Nat,
         PlaceNext(r, b, gb)
  PROVE  IInv'
<1>1. pc[r] = "respawn" /\ Adequate(r, b) /\ b \notin DOMAIN granted
  BY DEF PlaceNext
<1>2. /\ DOMAIN granted' = DOMAIN granted \cup {b}
      /\ \A x \in DOMAIN granted : granted'[x] = granted[x]
      /\ \A x \in DOMAIN granted' : granted'[x] \in Nat
  BY <1>1 DEF PlaceNext, Granted, IInv, Shape
<1> QED BY <1>1, <1>2, AdequateStep

\* The old block goes only once the next one is held.
LEMMA LedgerWithoutOldEffect ==
  ASSUME Shape, BlocksAccounted, Phases, NEW r \in Residents, pc[r] = "kill"
  PROVE  /\ DOMAIN LedgerWithoutOld(r) = (DOMAIN granted \ Holds(r)) \cup {next[r]}
         /\ \A x \in DOMAIN LedgerWithoutOld(r) : LedgerWithoutOld(r)[x] = granted[x]
         /\ next[r] \in Blocks
<1>1. next[r] # None /\ next[r] \in Blocks
  BY DEF Phases, Shape
<1>2. Holds(r) \subseteq DOMAIN granted /\ next[r] \in Holds(r)
  BY <1>1 DEF BlocksAccounted, Holds
<1>3. None \notin DOMAIN granted
  BY HeldOutstanding
<1>4. CASE next[r] = placement[r]
  <2>1. Holds(r) = {next[r]}
    BY <1>1, <1>4 DEF Holds
  <2> QED BY <1>1, <1>2, <1>4, <2>1 DEF LedgerWithoutOld
<1>5. CASE next[r] # placement[r]
  <2>1. Holds(r) \ {None} = {next[r]} \cup ({placement[r]} \ {None})
    BY <1>1 DEF Holds
  <2>2. DOMAIN LedgerWithoutOld(r) = DOMAIN granted \ {placement[r]}
    BY <1>5 DEF LedgerWithoutOld, Released
  <2>3. \A x \in DOMAIN LedgerWithoutOld(r) : LedgerWithoutOld(r)[x] = granted[x]
    BY <1>5 DEF LedgerWithoutOld, Released
  <2> QED BY <1>1, <1>2, <1>3, <1>5, <2>1, <2>2, <2>3 DEF Holds
<1> QED BY <1>4, <1>5

\* What other residents may spend does not change while their blocks do not.
LEMMA OthersBudgets ==
  ASSUME Shape, BlocksAccounted, Phases, Budgets, NEW r \in Residents, ns'[r] = None,
         \A x \in DOMAIN granted \ Holds(r) : granted'[x] = granted[x],
         \A q \in Residents \ {r} : /\ ns'[q] = ns[q] /\ budgetGb'[q] = budgetGb[q]
                                    /\ placement'[q] = placement[q]
  PROVE  Budgets'
<1> SUFFICES ASSUME NEW q \in Residents, ns'[q] # None
             PROVE  budgetGb'[q] = granted'[placement'[q]] - ResidentBaseGb
  BY DEF Budgets
<1>1. q # r
  OBVIOUS
<1>2. placement[q] \in Holds(q) /\ placement[q] \in DOMAIN granted
  BY <1>1, HeldOutstanding DEF Holds, Phases
<1>3. placement[q] \notin Holds(r)
  BY <1>1, <1>2 DEF BlocksAccounted
<1> QED BY <1>1, <1>2, <1>3 DEF Budgets

LEMMA LaunchAcceptedStep ==
  ASSUME IInv, NEW r \in Residents, NEW p \in Pids, LaunchAccepted(r, p)
  PROVE  IInv'
<1> USE DEF IInv, askVars, procVars
<1>1. /\ tail[r] # <<>> /\ pc[r] = "kill" /\ next[r] # None /\ next[r] \in Blocks
      /\ ns[r] = None /\ booting[r] = None
  BY DEF Phases, LaunchAccepted, Shape
<1>2. Goto(r, "launch") /\ KillAwaited(r)
  BY DEF LaunchAccepted
<1>3. /\ granted' = LedgerWithoutOld(r)
      /\ placement' = [placement EXCEPT ![r] = IF next[r] # @ THEN None ELSE @]
      /\ booting' = [booting EXCEPT ![r] = p]
      /\ UNCHANGED <<askVars, procVars, next, kills, incident, memberFailed>>
  BY DEF LaunchAccepted
<1>4. /\ DOMAIN procs' = DOMAIN procs \cup {p}
      /\ procs'[p] = [of |-> r, block |-> next[r]]
      /\ \A x \in DOMAIN procs : procs'[x] = procs[x]
      /\ p \notin DOMAIN procs /\ p \notin abandoned
      /\ \A q \in Residents : p \notin {ns[q], booting[q], dying[q]}
  BY DEF LaunchAccepted, Alive
<1>5. /\ DOMAIN granted' = (DOMAIN granted \ Holds(r)) \cup {next[r]}
      /\ \A x \in DOMAIN granted' : granted'[x] = granted[x]
  BY <1>1, <1>3, LedgerWithoutOldEffect
<1>6. Shape'
  <2>1. /\ DOMAIN granted' \subseteq Blocks
        /\ \A x \in DOMAIN granted' : granted'[x] \in Nat
    BY <1>1, <1>3, <1>5, HeldOutstanding DEF Shape
  <2>2. /\ DOMAIN procs' \subseteq Pids
        /\ \A x \in DOMAIN procs' : procs'[x] \in [of : Residents, block : Blocks]
    BY <1>1, <1>4 DEF Shape
  <2>3. /\ dying' \in [Residents -> Pids \cup {None}]
        /\ abandoned' \subseteq DOMAIN procs'
    BY <1>2, <1>4, KillAwaitedType
  <2>4. /\ placement' \in [Residents -> Blocks \cup {None}]
        /\ booting' \in [Residents -> Pids \cup {None}]
    BY <1>3 DEF Shape
  <2>5. "launch" \in PCs
    BY DEF PCs
  <2>6. /\ tail' \in [Residents -> Seq(Turns)]
        /\ pc' \in [Residents -> PCs]
        /\ outcome' \in [Residents -> {"none", "ok", "error"}]
    BY <1>1, <1>2, <2>5, ChainType
  <2> QED BY <1>3, <2>1, <2>2, <2>3, <2>4, <2>6 DEF Shape
<1>7. BlocksAccounted'
  <2>1. \A q \in Residents \ {r} : Holds(q)' = Holds(q)
    BY <1>3 DEF Holds, Shape
  <2>2. Holds(r)' = {next[r]}
    BY <1>1, <1>3 DEF Holds, Shape
  <2>3. next[r] \in Holds(r)
    BY <1>1 DEF Holds
  <2> QED BY <1>5, <2>1, <2>2, <2>3, Exchange
<1>8. Phases'
  <2>1. p # None /\ dying'[r] = None
    BY <1>2, ConstantsAssumption DEF KillAwaited, Shape
  <2>2. \A q \in Residents \ {r} : dying'[q] = dying[q]
    BY <1>2 DEF KillAwaited, Shape
  <2> QED BY <1>1, <1>2, <1>3, <2>1, <2>2 DEF Phases, Shape, Goto
<1>9. Processes'
  <2>1. /\ dying'[r] = None
        /\ \A q \in Residents \ {r} : dying'[q] = dying[q]
    BY <1>2 DEF KillAwaited, Shape
  <2>2. /\ booting'[r] = p
        /\ \A q \in Residents \ {r} : booting'[q] = booting[q]
        /\ \A q \in Residents : ns'[q] = ns[q] /\ next'[q] = next[q]
        /\ \A q \in Residents \ {r} : placement'[q] = placement[q]
    BY <1>3 DEF Shape
  <2>3. None \notin DOMAIN procs /\ None \notin abandoned /\ p # None
    BY ConstantsAssumption DEF Shape
  <2>4. \A x \in DOMAIN procs : procs[x].of \in Residents
    BY DEF Shape
  <2>5. /\ abandoned \subseteq abandoned'
        /\ abandoned' \subseteq abandoned \cup {dying[r]}
        /\ Alive(dying[r]) => dying[r] \in abandoned'
        /\ dying[r] \in abandoned' => Alive(dying[r])
    BY <1>2 DEF KillAwaited, Processes
  <2>6. ASSUME NEW x \in DOMAIN procs' \ abandoned'
        PROVE  x \in Roles(procs[x].of)'
    <3>1. CASE x = p
      BY <3>1, <1>4, <2>2 DEF Roles
    <3>2. CASE x # p
      <4>1. x \in DOMAIN procs \ abandoned /\ procs'[x] = procs[x] /\ x # dying[r]
        BY <3>2, <1>4, <2>5 DEF Alive
      <4>2. x \in {ns[procs[x].of], booting[procs[x].of], dying[procs[x].of]}
        BY <4>1 DEF Processes, Roles
      <4> QED BY <4>1, <4>2, <1>1, <2>1, <2>2, <2>3, <2>4 DEF Roles
    <3> QED BY <3>1, <3>2
  <2>7. ASSUME NEW q \in Residents
        PROVE  /\ ns'[q] \notin abandoned'
               /\ booting'[q] \notin abandoned'
               /\ dying'[q] \notin abandoned'
               /\ Alive(ns[q])' => Owns(ns[q], q, placement[q])'
               /\ Alive(booting[q])' => Owns(booting[q], q, next[q])'
               /\ Alive(dying[q])' =>
                    placement'[q] # None /\ Owns(dying[q], q, placement[q])'
    <3>1. CASE q = r
      <4>1. ns'[r] = None /\ booting'[r] = p /\ dying'[r] = None
        BY <1>1, <2>1, <2>2
      <4>2. None \notin DOMAIN procs' /\ None \notin abandoned'
        BY <1>4, <2>3, <2>5 DEF Alive
      <4>3. p \notin abandoned'
        BY <1>4, <2>5
      <4> QED BY <3>1, <4>1, <4>2, <4>3, <1>4, <2>2 DEF Alive, Owns
    <3>2. CASE q # r
      <4>1. ns'[q] = ns[q] /\ booting'[q] = booting[q] /\ dying'[q] = dying[q]
            /\ placement'[q] = placement[q] /\ next'[q] = next[q]
        BY <3>2, <2>1, <2>2
      <4>2. dying[r] \in abandoned' => procs[dying[r]].of = r
        BY <2>5 DEF Processes, Owns
      <4>3. dying[r] \in abandoned' => dying[r] \notin {ns[q], booting[q], dying[q]}
        BY <4>2, <2>5, <3>2 DEF Processes, Alive, Owns
      <4>4. \A x \in {ns[q], booting[q], dying[q]} : x \in DOMAIN procs' =>
              x \in DOMAIN procs /\ procs'[x] = procs[x]
        BY <1>4
      <4> QED BY <4>1, <4>3, <4>4, <2>5 DEF Processes, Alive, Owns
    <3> QED BY <3>1, <3>2
  <2> QED BY <2>6, <2>7 DEF Processes
<1>10. Budgets'
  BY <1>1, <1>3, <1>5, OthersBudgets DEF Shape, BlocksAccounted
<1> QED BY <1>6, <1>7, <1>8, <1>9, <1>10

LEMMA LaunchRefusedStep ==
  ASSUME IInv, NEW r \in Residents, LaunchRefused(r)
  PROVE  IInv'
<1> USE DEF IInv, askVars, procVars
<1>1. tail[r] # <<>> /\ pc[r] = "kill" /\ next[r] # None /\ ns[r] = None
  BY DEF Phases, LaunchRefused
<1>2. Goto(r, "retry") /\ KillAwaited(r)
  BY DEF LaunchRefused
<1>3. /\ granted' = Released(LedgerWithoutOld(r), next[r])
      /\ placement' = [placement EXCEPT ![r] = None]
      /\ next' = [next EXCEPT ![r] = None]
      /\ UNCHANGED <<askVars, procVars, procs, kills, booting, incident,
                     memberFailed>>
  BY DEF LaunchRefused
<1>4. /\ DOMAIN granted' = DOMAIN granted \ Holds(r)
      /\ \A x \in DOMAIN granted' : granted'[x] = granted[x]
  <2>1. next[r] \in Holds(r)
    BY <1>1 DEF Holds
  <2> QED BY <1>1, <1>3, <2>1, LedgerWithoutOldEffect DEF Released
<1>5. Shape'
  <2>1. /\ DOMAIN granted' \subseteq Blocks
        /\ \A x \in DOMAIN granted' : granted'[x] \in Nat
    BY <1>4 DEF Shape
  <2> QED BY <1>1, <1>2, <1>3, <2>1, KillAwaitedType, ChainType DEF Shape, PCs
<1>6. BlocksAccounted'
  <2>1. \A q \in Residents \ {r} : Holds(q)' = Holds(q)
    BY <1>3 DEF Holds, Shape
  <2>2. Holds(r)' = {}
    BY <1>3 DEF Holds, Shape
  <2> QED BY <1>4, <2>1, <2>2, Exchange
<1>7. Phases' BY <1>1, <1>2, <1>3 DEF Phases, Shape, Goto, KillAwaited
<1>8. Processes'
  <2>1. \A q \in Residents \ {r} : next'[q] = next[q] /\ placement'[q] = placement[q]
    BY <1>3 DEF Shape
  <2> QED BY <1>1, <1>2, <1>3, <2>1, KillAwaitedProcesses
<1>9. Budgets'
  BY <1>1, <1>3, <1>4, OthersBudgets DEF Shape
<1> QED BY <1>5, <1>6, <1>7, <1>8, <1>9

\* The same rollback when the launched process died before it was ready.
LEMMA LaunchGoneStep ==
  ASSUME IInv, NEW r \in Residents, LaunchGone(r)
  PROVE  IInv'
<1> USE DEF IInv, askVars, procVars, engineVars
<1>1. /\ tail[r] # <<>> /\ pc[r] = "launch" /\ next[r] # None /\ ns[r] = None
      /\ ~Alive(booting[r]) /\ dying[r] = None
  BY DEF Phases, LaunchGone
<1>2. Goto(r, "retry")
  BY DEF LaunchGone
<1>3. /\ granted' = Released(granted, next[r])
      /\ placement' = [placement EXCEPT ![r] = None]
      /\ next' = [next EXCEPT ![r] = None]
      /\ booting' = [booting EXCEPT ![r] = None]
      /\ UNCHANGED <<askVars, procVars, engineVars, incident, dying, memberFailed>>
  BY DEF LaunchGone
<1>4. /\ DOMAIN granted' = DOMAIN granted \ Holds(r)
      /\ \A x \in DOMAIN granted' : granted'[x] = granted[x]
  <2>1. Holds(r) = {next[r]}
    BY <1>1 DEF Holds, Phases
  <2> QED BY <1>3, <2>1 DEF Released
<1>5. Shape'
  <2>1. /\ DOMAIN granted' \subseteq Blocks
        /\ \A x \in DOMAIN granted' : granted'[x] \in Nat
    BY <1>4 DEF Shape
  <2> QED BY <1>1, <1>2, <1>3, <2>1, ChainType DEF Shape, PCs
<1>6. BlocksAccounted'
  <2>1. \A q \in Residents \ {r} : Holds(q)' = Holds(q)
    BY <1>3 DEF Holds, Shape
  <2>2. Holds(r)' = {}
    BY <1>3 DEF Holds, Shape
  <2> QED BY <1>4, <2>1, <2>2, Exchange
<1>7. Phases' BY <1>1, <1>2, <1>3 DEF Phases, Shape, Goto
<1>8. Processes'
  <2>1. /\ ns'[r] = None /\ booting'[r] = None /\ dying'[r] = None
        /\ \A q \in Residents \ {r} :
             /\ booting'[q] = booting[q] /\ next'[q] = next[q]
             /\ placement'[q] = placement[q]
    BY <1>1, <1>3 DEF Shape
  <2>2. None \notin DOMAIN procs /\ None \notin abandoned
    BY ConstantsAssumption DEF Shape
  <2>3. \A x \in DOMAIN procs \ abandoned : x \in Roles(procs[x].of)'
    BY <1>1, <1>3, <2>1, <2>2 DEF Processes, Roles, Alive, Shape
  <2>4. ASSUME NEW q \in Residents
        PROVE  /\ ns'[q] \notin abandoned
               /\ booting'[q] \notin abandoned
               /\ dying'[q] \notin abandoned
               /\ Alive(ns[q])' => Owns(ns[q], q, placement[q])'
               /\ Alive(booting[q])' => Owns(booting[q], q, next[q])'
               /\ Alive(dying[q])' =>
                    placement'[q] # None /\ Owns(dying[q], q, placement[q])'
    BY <1>3, <2>1, <2>2 DEF Processes, Alive, Owns
  <2> QED BY <1>3, <2>3, <2>4 DEF Processes
<1>9. Budgets'
  BY <1>1, <1>3, <1>4, OthersBudgets DEF Shape
<1> QED BY <1>5, <1>6, <1>7, <1>8, <1>9

\* The published process takes over its next block as the held one.
LEMMA LaunchReadyStep ==
  ASSUME IInv, NEW r \in Residents, LaunchReady(r)
  PROVE  IInv'
<1> USE DEF IInv, askVars, engineVars
<1>1. /\ tail[r] # <<>> /\ pc[r] = "launch" /\ next[r] # None /\ next[r] \in Blocks
      /\ ns[r] = None /\ dying[r] = None /\ booting[r] # None /\ booting[r] \in Pids
      /\ placement[r] \in {None, next[r]}
  BY DEF Phases, LaunchReady, Shape
<1>2. /\ ns' = [ns EXCEPT ![r] = booting[r]]
      /\ booting' = [booting EXCEPT ![r] = None]
      /\ placement' = [placement EXCEPT ![r] = next[r]]
      /\ budgetGb' = [budgetGb EXCEPT ![r] = granted[next[r]] - ResidentBaseGb]
      /\ next' = [next EXCEPT ![r] = None]
      /\ UNCHANGED <<askVars, granted, engineVars, incident, dying>>
  BY DEF LaunchReady
<1>3. Serve(r, booting[r])
  BY DEF LaunchReady
<1>4. (\E w \in {"use", "call"} : Goto(r, w)) \/ Settle(r, "error")
  BY <1>1, <1>3, ServeEffect
<1>5. Shape'
  <2>1. /\ tail' \in [Residents -> Seq(Turns)]
        /\ pc' \in [Residents -> PCs]
        /\ outcome' \in [Residents -> {"none", "ok", "error"}]
    BY <1>1, <1>4, ChainType DEF PCs
  <2>2. /\ memberFailed' \in [Residents -> BOOLEAN]
        /\ paid' \in [Residents -> SUBSET Paths]
        /\ paidGb' \in [Residents -> Nat]
    BY <1>1, <1>3, ServeEffect
  <2>3. granted[next[r]] - ResidentBaseGb \in Int
    BY <1>1, HeldOutstanding, ConstantsAssumption DEF Shape
  <2> QED BY <1>1, <1>2, <2>1, <2>2, <2>3 DEF Shape
<1>6. BlocksAccounted'
  <2>1. \A q \in Residents \ {r} : Holds(q)' = Holds(q)
    BY <1>2 DEF Holds, Shape
  <2>2. Holds(r)' = Holds(r)
    BY <1>1, <1>2 DEF Holds, Shape
  <2> QED BY <1>2, <2>1, <2>2 DEF BlocksAccounted
<1>7. Phases'
  BY <1>1, <1>2, <1>4 DEF Phases, Shape, Goto, Settle
<1>8. Processes'
  <2>1. /\ ns'[r] = booting[r] /\ booting'[r] = None /\ dying'[r] = None
        /\ placement'[r] = next[r]
        /\ \A q \in Residents \ {r} :
             /\ ns'[q] = ns[q] /\ booting'[q] = booting[q] /\ next'[q] = next[q]
             /\ placement'[q] = placement[q]
    BY <1>1, <1>2 DEF Shape
  <2>2. None \notin DOMAIN procs /\ None \notin abandoned
    BY ConstantsAssumption DEF Shape
  <2>3. \A x \in DOMAIN procs : procs[x].of \in Residents
    BY DEF Shape
  <2>4. \A x \in DOMAIN procs \ abandoned : x \in Roles(procs[x].of)'
    BY <1>1, <1>2, <2>1, <2>2, <2>3 DEF Processes, Roles
  <2>5. ASSUME NEW q \in Residents
        PROVE  /\ ns'[q] \notin abandoned
               /\ booting'[q] \notin abandoned
               /\ dying'[q] \notin abandoned
               /\ Alive(ns[q])' => Owns(ns[q], q, placement[q])'
               /\ Alive(booting[q])' => Owns(booting[q], q, next[q])'
               /\ Alive(dying[q])' =>
                    placement'[q] # None /\ Owns(dying[q], q, placement[q])'
    <3>1. CASE q = r
      BY <3>1, <1>2, <2>1, <2>2 DEF Processes, Alive, Owns
    <3>2. CASE q # r
      BY <3>2, <1>2, <2>1 DEF Processes, Alive, Owns
    <3> QED BY <3>1, <3>2
  <2> QED BY <1>2, <2>4, <2>5 DEF Processes
<1>9. Budgets'
  BY <1>1, <1>2 DEF Budgets, Shape
<1> QED BY <1>5, <1>6, <1>7, <1>8, <1>9

----------------------------------------------------------------------------
(* Steps of the engine *)

\* A process that ends leaves the table and the list of those given up on.
LEMMA ProcessGoneStep ==
  ASSUME IInv, NEW p \in Pids, ProcessExits(p) \/ KilledOutside(p)
  PROVE  IInv'
<1> USE DEF IInv, ProcessExits, KilledOutside, turnVars, askVars, procVars,
            blockVars, awaitVars
<1>1. /\ DOMAIN procs' = DOMAIN procs \ {p}
      /\ \A x \in DOMAIN procs' : procs'[x] = procs[x]
      /\ abandoned' = abandoned \ {p}
      /\ UNCHANGED <<turnVars, askVars, procVars, blockVars, awaitVars, memberFailed>>
  OBVIOUS
<1>2. kills' \in 0 .. KillLimit
  BY ConstantsAssumption DEF Shape
<1>3. Shape' BY <1>1, <1>2 DEF Shape
<1>4. BlocksAccounted' BY <1>1 DEF BlocksAccounted, Holds
<1>5. Phases' BY <1>1 DEF Phases
<1>6. Processes' BY <1>1 DEF Processes, Roles, Owns, Alive
<1>7. Budgets' BY <1>1 DEF Budgets
<1> QED BY <1>3, <1>4, <1>5, <1>6, <1>7

----------------------------------------------------------------------------
(* The specification *)

LEMMA OffersNat ==
  ASSUME Shape, NEW r \in Residents, NEW gb \in Offers(r)
  PROVE  gb \in Nat
BY ConstantsAssumption DEF Offers, MinGb, WantGb, Shape

LEMMA NextIInv == IInv /\ [Next]_vars => IInv'
<1> SUFFICES ASSUME IInv, [Next]_vars PROVE IInv'
  OBVIOUS
<1>1. ASSUME NEW r \in Residents, NEW t \in Turns, Submit(r, t) PROVE IInv'
  BY <1>1, SubmitStep
<1>2. ASSUME NEW r \in Residents, Turn(r) PROVE IInv'
  BY <1>2, PlainTurnStep, InvokeNewStep, GuaranteeStep, MemberThrowsStep,
     UseRejectsStep, PoisonGoneStep, FreeBeginsStep, FreeEndsStep DEF Turn
<1>3. ASSUME NEW r \in Residents, Respawn(r) PROVE IInv'
  <2>1. CASE ReuseHeld(r)
    BY <2>1, ReuseHeldStep
  <2>2. ASSUME NEW b \in Blocks, NEW gb \in Offers(r),
               PlaceNext(r, b, gb) \/ PlaceUndersized(r, b, gb)
        PROVE  IInv'
    <3>1. gb \in Nat
      BY OffersNat DEF IInv
    <3> QED BY <2>2, <3>1, PlaceNextStep, PlaceUndersizedStep
  <2>3. CASE PlaceNothing(r) \/ RetryDelay(r) \/ Impossible(r)
    BY <2>3, PlainTurnStep
  <2>4. ASSUME NEW p \in Pids, LaunchAccepted(r, p) PROVE IInv'
    BY <2>4, LaunchAcceptedStep
  <2>5. CASE LaunchRefused(r)
    BY <2>5, LaunchRefusedStep
  <2>6. CASE LaunchReady(r)
    BY <2>6, LaunchReadyStep
  <2>7. CASE LaunchGone(r)
    BY <2>7, LaunchGoneStep
  <2> QED BY <1>3, <2>1, <2>2, <2>3, <2>4, <2>5, <2>6, <2>7 DEF Respawn
<1>4. ASSUME NEW p \in Pids, ProcessExits(p) \/ KilledOutside(p) PROVE IInv'
  BY <1>4, ProcessGoneStep
<1>5. CASE UNCHANGED vars
  <2>1. Shape'  BY <1>5 DEF vars, IInv, Shape
  <2>2. BlocksAccounted' /\ Budgets'
    BY <1>5 DEF vars, IInv, BlocksAccounted, Holds, Budgets
  <2>3. Phases'  BY <1>5 DEF vars, IInv, Phases
  <2>4. Processes'  BY <1>5 DEF vars, IInv, Processes, Roles, Owns, Alive
  <2> QED BY <2>1, <2>2, <2>3, <2>4 DEF IInv
<1> QED BY <1>1, <1>2, <1>3, <1>4, <1>5 DEF Next

\* IInv holds in every state the residents can reach.
THEOREM Invariance == Spec => []IInv
BY InitIInv, NextIInv, PTL DEF Spec

\* No placement leaks and none is used after release, through every respawn,
\* refusal, throw and free of any number of residents.
LEMMA LedgerExact == Spec => []BlocksAccounted
<1>1. IInv => BlocksAccounted
  BY DEF IInv
<1> QED BY <1>1, Invariance, PTL

\* A resident's process never outlives the reservation it runs under, unless
\* the bounded wait for its exit was given up.
LEMMA LiveWorkReserved == Spec => []LiveWorkIsReserved
<1>1. IInv => LiveWorkIsReserved
  <2> SUFFICES ASSUME IInv, NEW p \in DOMAIN procs \ abandoned
               PROVE  procs[p].block \in DOMAIN granted
    BY DEF LiveWorkIsReserved
  <2>1. procs[p].of \in Residents
    BY DEF IInv, Shape
  <2>2. p \in Roles(procs[p].of) /\ p # None
    BY ConstantsAssumption DEF IInv, Shape, Processes
  <2>3. \/ procs[p].block = placement[procs[p].of] /\ placement[procs[p].of] # None
        \/ procs[p].block = next[procs[p].of] /\ next[procs[p].of] # None
    BY <2>1, <2>2 DEF IInv, Processes, Phases, Roles, Owns, Alive
  <2> QED BY <2>1, <2>3, HeldOutstanding DEF IInv
<1> QED BY <1>1, Invariance, PTL

\* A resident never has two live processes it still answers for: the
\* replacement is launched only after the wait for its predecessor.
LEMMA OneProcess == Spec => []OneProcessEach
<1>1. IInv => OneProcessEach
  <2> SUFFICES ASSUME IInv, NEW p \in DOMAIN procs \ abandoned,
                      NEW q \in DOMAIN procs \ abandoned, procs[p].of = procs[q].of
               PROVE  p = q
    BY DEF OneProcessEach
  <2> DEFINE r == procs[p].of
  <2>1. r \in Residents /\ p # None /\ q # None
    BY ConstantsAssumption DEF IInv, Shape
  <2>2. p \in Roles(r) /\ q \in Roles(r)
    BY DEF IInv, Processes
  <2> HIDE DEF r
  <2> QED BY <2>1, <2>2 DEF IInv, Phases, Roles
<1> QED BY <1>1, Invariance, PTL

\* The lent process runs on the held block with exactly that block's budget.
LEMMA RunsOnBlock == Spec => []RunsOnItsBlock
<1>1. IInv => RunsOnItsBlock
  <2> SUFFICES ASSUME IInv, NEW r \in Residents, ns[r] # None
               PROVE  /\ placement[r] # None
                      /\ budgetGb[r] = granted[placement[r]] - ResidentBaseGb
                      /\ Alive(ns[r]) =>
                           procs[ns[r]] = [of |-> r, block |-> placement[r]]
    BY DEF RunsOnItsBlock
  <2>1. placement[r] # None /\ budgetGb[r] = granted[placement[r]] - ResidentBaseGb
    BY DEF IInv, Phases, Budgets
  <2>2. Alive(ns[r]) => procs[ns[r]].of = r /\ procs[ns[r]].block = placement[r]
    BY DEF IInv, Processes, Owns
  <2>3. Alive(ns[r]) => procs[ns[r]] \in [of : Residents, block : Blocks]
    BY DEF IInv, Shape, Alive
  <2> QED BY <2>1, <2>2, <2>3
<1> QED BY <1>1, Invariance, PTL

\* The placer's blocks are those held, each once, and what runs is under one of
\* them (#respawn, #killProcess).
THEOREM LedgerIsSound == Spec => []LedgerSound
BY LedgerExact, LiveWorkReserved, PTL DEF LedgerSound

\* One process for each resident, on the block it holds and with its budget
\* (#respawn, #waitForExit).
THEOREM OneProcessOnBlock == Spec => []OneProcessOnItsBlock
BY OneProcess, RunsOnBlock, PTL DEF OneProcessOnItsBlock

\* Killing or billing one resident's process leaves the others alone.
LEMMA OthersKeep ==
  ASSUME Shape, NEW q \in Residents, NEW r \in Residents, q # r
  PROVE  /\ BeginKill(q) => ns'[r] = ns[r] /\ paid'[r] = paid[r]
         /\ \A p : Serve(q, p) => paid'[r] = paid[r]
<1>1. BeginKill(q) => ns'[r] = ns[r] /\ paid'[r] = paid[r]
  BY DEF BeginKill, Shape
<1>2. ASSUME NEW S, Bill(q, S) PROVE paid'[r] = paid[r]
  BY <1>2 DEF Bill, Shape
<1>3. ASSUME NEW p, Serve(q, p) PROVE paid'[r] = paid[r]
  <2>1. \E S : Bill(q, S)
    BY <1>3 DEF Serve
  <2> QED BY <1>2, <2>1
<1> QED BY <1>1, <1>3

\* While the callback of a lease runs, no other turn, no process death and no
\* other resident changes the process, the paid members or the block it uses.
THEOREM LeaseIntact == Spec => SessionIntact
<1> DEFINE Step == \A r \in Residents : pc[r] = "use" /\ pc'[r] = "use" =>
       /\ ns'[r] = ns[r] /\ paid'[r] = paid[r] /\ placement'[r] = placement[r]
       /\ placement[r] \in DOMAIN granted'
<1>1. IInv /\ IInv' /\ [Next]_vars => [Step]_vars
  <2> SUFFICES ASSUME IInv, IInv', [Next]_vars, NEW r \in Residents,
                      pc[r] = "use", pc'[r] = "use"
               PROVE  /\ ns'[r] = ns[r] /\ paid'[r] = paid[r]
                      /\ placement'[r] = placement[r]
                      /\ placement[r] \in DOMAIN granted'
    OBVIOUS
  <2>1. ns'[r] = ns[r] /\ paid'[r] = paid[r] /\ placement'[r] = placement[r]
    <3>1. ASSUME NEW q \in Residents, NEW t \in Turns, Submit(q, t)
          PROVE  UNCHANGED <<ns, paid, placement>>
      BY <3>1 DEF Submit, procVars, blockVars
    <3>2. ASSUME NEW q \in Residents, Turn(q)
          PROVE  ns'[r] = ns[r] /\ paid'[r] = paid[r] /\ placement'[r] = placement[r]
      <4>1. CASE q # r
        <5>1. CASE InvokeNew(q) \/ Guarantee(q)
          <6>1. paid'[r] = paid[r]
            BY <4>1, <5>1, OthersKeep DEF InvokeNew, Guarantee, NeedsRespawn, IInv
          <6> QED BY <5>1, <6>1 DEF InvokeNew, Guarantee, blockVars
        <5>2. CASE UseRejects(q) \/ FreeBegins(q)
          <6>1. ns'[r] = ns[r] /\ paid'[r] = paid[r]
            BY <4>1, <5>2, OthersKeep DEF UseRejects, FreeBegins, procVars, IInv
          <6> QED BY <5>2, <6>1 DEF UseRejects, FreeBegins, blockVars
        <5>3. CASE FreeEnds(q)
          BY <4>1, <5>3 DEF FreeEnds, procVars, IInv, Shape
        <5>4. CASE \/ InvokeExec(q) \/ InvokeMemo(q) \/ GuaranteeNothing(q)
                   \/ CallSettles(q) \/ MemberThrows(q) \/ UseReturns(q)
                   \/ PoisonGone(q)
          BY <5>4 DEF InvokeExec, InvokeMemo, GuaranteeNothing, CallSettles,
             MemberThrows, UseReturns, PoisonGone, procVars, blockVars
        <5> QED BY <3>2, <5>1, <5>2, <5>3, <5>4 DEF Turn
      <4>2. CASE q = r
        BY <3>2, <4>2
        DEF IInv, Shape, Turn, InvokeExec, InvokeMemo, InvokeNew, Guarantee,
            GuaranteeNothing, CallSettles, MemberThrows, UseReturns, UseRejects,
            PoisonGone, FreeBegins, FreeEnds, Starting, Goto, Settle,
            procVars, blockVars
      <4> QED BY <4>1, <4>2
    <3>3. ASSUME NEW q \in Residents, Respawn(q)
          PROVE  ns'[r] = ns[r] /\ paid'[r] = paid[r] /\ placement'[r] = placement[r]
      <4>1. q # r
        BY <3>3
        DEF Respawn, ReuseHeld, PlaceNext, PlaceUndersized, PlaceNothing,
            LaunchAccepted, LaunchRefused, LaunchReady, LaunchGone, RetryDelay,
            Impossible
      <4>2. CASE ReuseHeld(q) \/ \E b \in Blocks : \E gb \in Offers(q) :
                                   PlaceNext(q, b, gb)
        <5>1. BeginKill(q) /\ UNCHANGED placement
          BY <4>2 DEF ReuseHeld, PlaceNext, Adequate
        <5> QED BY <4>1, <5>1, OthersKeep DEF IInv
      <4>3. CASE (\E p \in Pids : LaunchAccepted(q, p)) \/ LaunchRefused(q)
                 \/ LaunchGone(q)
        <5>1. UNCHANGED <<ns, paid>>
          BY <4>3 DEF LaunchAccepted, LaunchRefused, LaunchGone, procVars
        <5>2. placement'[r] = placement[r]
          <6>1. placement \in [Residents -> Blocks \cup {None}]
            BY DEF IInv, Shape
          <6> QED BY <4>1, <4>3, <6>1
                  DEF LaunchAccepted, LaunchRefused, LaunchGone
        <5> QED BY <5>1, <5>2
      <4>4. CASE LaunchReady(q)
        <5>1. paid'[r] = paid[r]
          BY <4>1, <4>4, OthersKeep DEF LaunchReady, IInv
        <5> QED BY <4>1, <4>4, <5>1 DEF LaunchReady, IInv, Shape
      <4>5. CASE \/ \E b \in Blocks : \E gb \in Offers(q) :
                      PlaceUndersized(q, b, gb)
                 \/ PlaceNothing(q) \/ RetryDelay(q) \/ Impossible(q)
        BY <4>5 DEF PlaceUndersized, PlaceNothing, RetryDelay, Impossible,
                    procVars, blockVars
      <4> QED BY <3>3, <4>2, <4>3, <4>4, <4>5 DEF Respawn
    <3>4. ASSUME NEW p \in Pids, ProcessExits(p) \/ KilledOutside(p)
          PROVE  UNCHANGED <<ns, paid, placement>>
      BY <3>4 DEF ProcessExits, KilledOutside, procVars, blockVars
    <3> QED BY <3>1, <3>2, <3>3, <3>4 DEF Next, vars
  <2>2. ns[r] # None /\ placement'[r] # None
    BY <2>1 DEF IInv, Phases
  <2>3. placement'[r] \in DOMAIN granted'
    BY <2>2 DEF IInv, BlocksAccounted, Holds
  <2> QED BY <2>1, <2>3
<1> QED BY <1>1, Invariance, PTL DEF Spec, SessionIntact

\* A turn whose leased member threw settles with an error only after its
\* process has been put down.
THEOREM PoisonCleared == Spec => PoisonedNeverReused
<1> DEFINE Step == \A r \in Residents :
       /\ pc[r] \in {"use", "poison"} /\ memberFailed[r]
       /\ pc'[r] = "idle" /\ outcome'[r] = "error"
       => ns'[r] = None
<1>1. IInv /\ [Next]_vars => [Step]_vars
  <2> SUFFICES ASSUME IInv, [Next]_vars, NEW r \in Residents,
                      pc[r] \in {"use", "poison"}, memberFailed[r],
                      pc'[r] = "idle", outcome'[r] = "error"
               PROVE  ns'[r] = None
    OBVIOUS
  <2>1. ASSUME NEW q \in Residents, q # r,
               (\E w : Goto(q, w)) \/ (\E how : Settle(q, how))
        PROVE  FALSE
    BY <2>1 DEF Goto, Settle, IInv, Shape
  <2>2. ~UNCHANGED pc
    OBVIOUS
  <2>3. ASSUME NEW q \in Residents, Turn(q) PROVE ns'[r] = None
    <3>1. (\E w : Goto(q, w)) \/ (\E how : Settle(q, how))
      <4>1. CASE InvokeNew(q) \/ Guarantee(q)
        BY <4>1 DEF InvokeNew, Guarantee, NeedsRespawn, Serve
      <4>2. CASE \/ InvokeExec(q) \/ InvokeMemo(q) \/ GuaranteeNothing(q)
                 \/ CallSettles(q) \/ UseReturns(q) \/ UseRejects(q)
                 \/ PoisonGone(q) \/ FreeBegins(q) \/ FreeEnds(q)
        BY <4>2 DEF InvokeExec, InvokeMemo, GuaranteeNothing, CallSettles,
           UseReturns, UseRejects, PoisonGone, FreeBegins, FreeEnds
      <4>3. ~MemberThrows(q)
        BY <2>2 DEF MemberThrows, turnVars
      <4> QED BY <2>3, <4>1, <4>2, <4>3 DEF Turn
    <3>2. q = r
      BY <2>1, <3>1
    <3>3. PoisonGone(r)
      BY <2>3, <3>2
      DEF Turn, InvokeExec, InvokeMemo, InvokeNew, Guarantee, GuaranteeNothing,
          CallSettles, MemberThrows, UseReturns, UseRejects, FreeBegins, FreeEnds,
          Starting, Goto, Settle, turnVars, IInv, Shape
    <3> QED BY <3>3 DEF PoisonGone, procVars, IInv, Phases
  <2>4. ASSUME NEW q \in Residents, Respawn(q) PROVE ns'[r] = None
    <3>1. pc[q] \in {"respawn", "kill", "launch", "retry"}
      BY <2>4 DEF Respawn, ReuseHeld, PlaceNext, PlaceUndersized, PlaceNothing,
         LaunchAccepted, LaunchRefused, LaunchReady, LaunchGone, RetryDelay,
         Impossible
    <3>2. (\E w : Goto(q, w)) \/ (\E how : Settle(q, how))
      BY <2>4 DEF Respawn, ReuseHeld, PlaceNext, PlaceUndersized, PlaceNothing,
         LaunchAccepted, LaunchRefused, LaunchReady, LaunchGone, RetryDelay,
         Impossible, Adequate, Serve
    <3> QED BY <2>1, <3>1, <3>2
  <2>5. \A q \in Residents, t \in Turns : ~Submit(q, t)
    BY <2>2 DEF Submit
  <2>6. \A p \in Pids : ~ProcessExits(p) /\ ~KilledOutside(p)
    BY <2>2 DEF ProcessExits, KilledOutside, turnVars
  <2>7. ~UNCHANGED vars
    BY <2>2 DEF vars
  <2> QED BY <2>3, <2>4, <2>5, <2>6, <2>7 DEF Next
<1> QED BY <1>1, Invariance, PTL DEF Spec, PoisonedNeverReused

----------------------------------------------------------------------------
(* What a process has paid for at a measured price *)

\* The waits of a turn that needs a new process.
Respawning == {"respawn", "kill", "launch", "retry"}

\* The bill is the price of what is paid, a process that is not there has no
\* bill, and the measured part of one that is there fits; a turn that waits
\* for a process asks for at least its measured part, and the block the next
\* process goes to grants what was asked for.
Measured(r) ==
  /\ paidGb[r] = PriceAll(paid[r])
  /\ ns[r] = None => paid[r] = {}
  /\ ns[r] # None => PriceAll(paid[r] \cap Known) <= budgetGb[r]
  /\ pc[r] \in Respawning => PriceAll(turn(r).paths \cap Known) <= needGb[r]
  /\ pc[r] \in {"kill", "launch"} => MinGb(r) <= granted[next[r]]

\* What Measured(r) reads, the ledger apart.
Reads(r) ==
  <<pc[r], needGb[r], ns[r], paid[r], paidGb[r], budgetGb[r], next[r], Head(tail[r])>>

LEMMA MeasuredKept ==
  ASSUME NEW r, Measured(r), Reads(r)' = Reads(r),
         next[r] # None => granted'[next[r]] = granted[next[r]],
         pc[r] \in {"kill", "launch"} => next[r] # None
  PROVE  Measured(r)'
BY DEF Measured, Reads, turn, MinGb

\* A step of one resident leaves the ledger alone but for its own blocks.
LEMMA OthersGranted ==
  ASSUME IInv, NEW q \in Residents, Turn(q) \/ Respawn(q),
         NEW x \in DOMAIN granted, x \notin Holds(q)
  PROVE  granted'[x] = granted[x]
<1>1. x # None /\ x # placement[q] /\ x # next[q]
  BY HeldOutstanding DEF IInv, Holds
<1>2. CASE Turn(q)
  <2>1. granted' = granted \/ granted' = Released(granted, placement[q])
    BY <1>2
    DEF Turn, InvokeExec, InvokeMemo, InvokeNew, Guarantee, GuaranteeNothing,
        CallSettles, MemberThrows, UseReturns, UseRejects, PoisonGone, FreeBegins,
        FreeEnds, blockVars
  <2> QED BY <1>1, <2>1 DEF Released
<1>3. CASE Respawn(q)
  <2>1. CASE \E b \in Blocks : \E gb \in Offers(q) :
               PlaceNext(q, b, gb) \/ PlaceUndersized(q, b, gb)
    <3>1. PICK b \in Blocks, gb \in Offers(q) :
            PlaceNext(q, b, gb) \/ PlaceUndersized(q, b, gb)
      BY <2>1
    <3>2. b \notin DOMAIN granted /\ x # b
      BY <3>1 DEF PlaceNext, PlaceUndersized
    <3>3. \/ granted' = Granted(granted, b, gb)
          \/ granted' = Released(Granted(granted, b, gb), b)
      BY <3>1 DEF PlaceNext, PlaceUndersized
    <3> QED BY <3>2, <3>3 DEF Granted, Released
  <2>2. CASE ReuseHeld(q) \/ PlaceNothing(q) \/ LaunchReady(q) \/ RetryDelay(q)
             \/ Impossible(q)
    BY <2>2 DEF ReuseHeld, PlaceNothing, LaunchReady, RetryDelay, Impossible, blockVars
  <2>3. CASE (\E p \in Pids : LaunchAccepted(q, p)) \/ LaunchRefused(q)
    <3>1. x \in DOMAIN LedgerWithoutOld(q) /\ LedgerWithoutOld(q)[x] = granted[x]
      BY <1>1 DEF LedgerWithoutOld, Released
    <3>2. \/ granted' = LedgerWithoutOld(q)
          \/ granted' = Released(LedgerWithoutOld(q), next[q])
      BY <2>3 DEF LaunchAccepted, LaunchRefused
    <3> QED BY <1>1, <3>1, <3>2 DEF Released
  <2>4. CASE LaunchGone(q)
    BY <1>1, <2>4 DEF LaunchGone, Released
  <2> QED BY <1>3, <2>1, <2>2, <2>3, <2>4 DEF Respawn
<1> QED BY <1>2, <1>3

\* A step of one resident changes nothing another's measure reads.
LEMMA OthersReads ==
  ASSUME Shape, NEW q \in Residents, NEW r \in Residents, q # r, Turn(q) \/ Respawn(q)
  PROVE  Reads(r)' = Reads(r)
<1>1. /\ \A w : Goto(q, w) => pc'[r] = pc[r] /\ tail'[r] = tail[r]
      /\ \A how : Settle(q, how) => pc'[r] = pc[r] /\ tail'[r] = tail[r]
  BY DEF Goto, Settle, Shape
<1>2. BeginKill(q) => /\ ns'[r] = ns[r] /\ paid'[r] = paid[r]
                      /\ paidGb'[r] = paidGb[r] /\ budgetGb'[r] = budgetGb[r]
  BY DEF BeginKill, Shape
<1>3. \A p : Serve(q, p) => /\ pc'[r] = pc[r] /\ tail'[r] = tail[r]
                            /\ paid'[r] = paid[r] /\ paidGb'[r] = paidGb[r]
  <2> TAKE p
  <2>1. \A S : Bill(q, S) => paid'[r] = paid[r] /\ paidGb'[r] = paidGb[r]
    BY DEF Bill, Shape
  <2> QED BY <1>1, <2>1 DEF Serve
<1>4. \A gb : NeedsRespawn(q, gb) =>
                /\ pc'[r] = pc[r] /\ tail'[r] = tail[r] /\ needGb'[r] = needGb[r]
                /\ paid'[r] = paid[r] /\ paidGb'[r] = paidGb[r]
  BY <1>1 DEF NeedsRespawn, Shape
<1>5. CASE InvokeNew(q) \/ Guarantee(q)
  BY <1>3, <1>4, <1>5 DEF InvokeNew, Guarantee, Reads, askVars, blockVars
<1>6. CASE UseRejects(q) \/ FreeBegins(q)
  BY <1>1, <1>2, <1>6 DEF UseRejects, FreeBegins, Reads, askVars, blockVars, procVars
<1>7. CASE \/ InvokeExec(q) \/ InvokeMemo(q) \/ GuaranteeNothing(q) \/ CallSettles(q)
           \/ UseReturns(q) \/ PoisonGone(q) \/ FreeEnds(q)
  BY <1>1, <1>7
  DEF InvokeExec, InvokeMemo, GuaranteeNothing, CallSettles, UseReturns, PoisonGone,
      FreeEnds, Reads, askVars, blockVars, procVars
<1>8. CASE MemberThrows(q)
  BY <1>8 DEF MemberThrows, Reads, turnVars, askVars, blockVars, procVars
<1>9. \A b : Adequate(q, b) => Reads(r)' = Reads(r)
  BY <1>1, <1>2 DEF Adequate, Reads, askVars, Shape
<1>10. CASE \/ ReuseHeld(q)
            \/ \E b \in Blocks : \E gb \in Offers(q) : PlaceNext(q, b, gb)
  BY <1>9, <1>10 DEF ReuseHeld, PlaceNext
<1>11. CASE \/ \E b \in Blocks : \E gb \in Offers(q) : PlaceUndersized(q, b, gb)
            \/ PlaceNothing(q) \/ RetryDelay(q) \/ Impossible(q)
  BY <1>1, <1>11 DEF PlaceUndersized, PlaceNothing, RetryDelay, Impossible, Reads,
                     askVars, procVars, blockVars
<1>12. CASE (\E p \in Pids : LaunchAccepted(q, p)) \/ LaunchRefused(q) \/ LaunchGone(q)
  BY <1>1, <1>12 DEF LaunchAccepted, LaunchRefused, LaunchGone, Reads, askVars,
                     procVars, Shape
<1>13. CASE LaunchReady(q)
  BY <1>3, <1>13 DEF LaunchReady, Reads, askVars, Shape
<1> QED BY <1>5, <1>6, <1>7, <1>8, <1>10, <1>11, <1>12, <1>13 DEF Turn, Respawn

\* What is billed on top of what is paid keeps the bill exact, and adds to its
\* measured part no more than the price of the turn.
LEMMA ServeMeasure ==
  ASSUME Shape, NEW r \in Residents, NEW p, tail[r] # <<>>,
         paidGb[r] = PriceAll(paid[r]), Serve(r, p)
  PROVE  /\ paidGb'[r] = PriceAll(paid'[r])
         /\ paid'[r] \in SUBSET Paths
         /\ paid'[r] \subseteq paid[r] \cup turn(r).paths
         /\ turn(r).paths \in SUBSET Paths
<1>1. turn(r).paths \in SUBSET Paths /\ paid[r] \in SUBSET Paths
  BY ConstantsAssumption DEF Shape, turn
<1>2. PICK S \in SUBSET turn(r).paths : Bill(r, S)
  <2>1. CASE Bill(r, turn(r).paths)
    BY <2>1
  <2>2. CASE \E S \in SUBSET (turn(r).paths \cap Known) : Bill(r, S)
    BY <2>2
  <2> QED BY <2>1, <2>2 DEF Serve
<1>3. /\ paid'[r] = paid[r] \cup S
      /\ paidGb'[r] = paidGb[r] + PriceAll(S \ paid[r])
  BY <1>2 DEF Bill, Shape
<1>4. PriceAll(paid[r] \cup S) = PriceAll(paid[r]) + PriceAll(S \ paid[r])
  BY <1>1, PriceAllAdds
<1> QED BY <1>1, <1>3, <1>4

\* A turn served within the budget keeps the measured bill within it.
LEMMA ServeFits ==
  ASSUME IInv, NEW r \in Residents, tail[r] # <<>>, Measured(r), ns[r] # None,
         paidGb[r] + PriceAll(turn(r).paths \ paid[r]) <= budgetGb[r],
         Serve(r, ns[r]), ns' = ns, budgetGb' = budgetGb
  PROVE  Measured(r)'
<1> DEFINE D == turn(r).paths
<1>1. /\ paidGb'[r] = PriceAll(paid'[r]) /\ paid'[r] \in SUBSET Paths
      /\ paid'[r] \subseteq paid[r] \cup D /\ D \in SUBSET Paths
  BY ServeMeasure DEF IInv, Measured
<1>2. PriceAll(paid'[r] \cap Known) <= PriceAll(paid[r] \cup D)
  <2>1. paid[r] \cup D \in SUBSET Paths /\ paid'[r] \cap Known \in SUBSET (paid[r] \cup D)
    BY <1>1 DEF IInv, Shape
  <2> QED BY <2>1, PriceAllGrows
<1>3. PriceAll(paid[r] \cup D) = paidGb[r] + PriceAll(D \ paid[r])
  BY <1>1, PriceAllAdds DEF IInv, Shape, Measured
<1>4. /\ PriceAll(paid'[r] \cap Known) \in Nat /\ PriceAll(D \ paid[r]) \in Nat
      /\ paidGb[r] \in Nat /\ budgetGb[r] \in Int
  BY <1>1, PriceAllNat DEF IInv, Shape
<1>5. PriceAll(paid'[r] \cap Known) <= budgetGb'[r]
  BY <1>2, <1>3, <1>4
<1>6. pc'[r] \notin Respawning
  <2>1. (\E w \in {"use", "call"} : Goto(r, w)) \/ Settle(r, "error")
    BY ServeEffect DEF IInv
  <2> QED BY <2>1 DEF IInv, Shape, Goto, Settle, Respawning
<1>7. ns'[r] # None /\ pc'[r] \notin {"kill", "launch"}
  BY <1>6 DEF Respawning
<1> QED BY <1>1, <1>5, <1>6, <1>7 DEF Measured

LEMMA PriceOfNothing == PriceAll({}) = 0
BY SumEmpty DEF PriceAll

\* Both floors keep the measured part of a turn whole.
LEMMA FloorsCover ==
  ASSUME NEW D \in SUBSET Paths
  PROVE  /\ PriceAll(D \cap Known) <= PriceAll(D) + PriceMarginGb
         /\ PriceAll(D \cap Known) <= FloorGb(D)
<1>1. /\ PriceAll(D) \in Nat /\ PriceAll(D \cap Known) \in Nat
      /\ PriceMarginGb \in Nat /\ MaxAskGb \in Nat
  BY PriceAllNat, ConstantsAssumption DEF ConstantsAssumption
<1>2. PriceAll(D \cap Known) <= PriceAll(D)
  BY PriceAllGrows
<1>3. D \subseteq Known => FloorGb(D) = PriceAll(D) + PriceMarginGb
  BY DEF FloorGb
<1>4. ~(D \subseteq Known) => FloorGb(D) >= PriceAll(D \cap Known) + PriceMarginGb
  BY <1>1 DEF FloorGb, Larger, Smaller
<1>5. FloorGb(D) \in Nat
  BY FloorGbNat
<1> QED BY <1>1, <1>2, <1>3, <1>4, <1>5

\* A process that is stopped leaves no bill.
LEMMA KilledMeasure ==
  ASSUME IInv, NEW r \in Residents, BeginKill(r), pc'[r] \notin Respawning
  PROVE  Measured(r)'
<1>1. ns'[r] = None /\ paid'[r] = {} /\ paidGb'[r] = 0
  BY DEF BeginKill, IInv, Shape
<1>2. pc'[r] \notin {"kill", "launch"}
  BY DEF Respawning
<1> QED BY <1>1, <1>2, PriceOfNothing DEF Measured

LEMMA InvokeNewMeasure ==
  ASSUME IInv, NEW r \in Residents, Measured(r), InvokeNew(r)
  PROVE  Measured(r)'
<1> DEFINE D == turn(r).paths
<1>1. tail[r] # <<>> /\ D \in SUBSET Paths
  BY ConstantsAssumption DEF ConstantsAssumption, InvokeNew, Starting, IInv, Shape, turn
<1>2. UNCHANGED <<ns, budgetGb, granted, next>>
  BY DEF InvokeNew, blockVars
<1>3. /\ PriceAll(D) \in Nat /\ PriceAll(D \ paid[r]) \in Nat
      /\ paidGb[r] \in Nat /\ budgetGb[r] \in Int
  BY <1>1, PriceAllNat DEF IInv, Shape
<1>4. CASE Fits(r, PriceAll(D))
  <2>1. Serve(r, ns[r]) /\ ns[r] # None /\ paidGb[r] + PriceAll(D) <= budgetGb[r]
    BY <1>4 DEF InvokeNew, Fits
  <2>2. PriceAll(D \ paid[r]) <= PriceAll(D)
    BY <1>1, PriceAllGrows
  <2>3. paidGb[r] + PriceAll(D \ paid[r]) <= budgetGb[r]
    BY <1>3, <2>1, <2>2
  <2> QED BY <1>1, <1>2, <2>1, <2>3, ServeFits
<1>5. CASE ~Fits(r, PriceAll(D))
  <2>1. NeedsRespawn(r, PriceAll(D) + PriceMarginGb)
    BY <1>5 DEF InvokeNew
  <2>2. PriceAll(D \cap Known) <= PriceAll(D) + PriceMarginGb
    BY <1>1, FloorsCover
  <2>3. /\ pc'[r] = "respawn" /\ tail' = tail /\ paid' = paid /\ paidGb' = paidGb
        /\ needGb'[r] = PriceAll(D) + PriceMarginGb
    BY <2>1 DEF NeedsRespawn, Goto, IInv, Shape
  <2> QED BY <1>2, <2>2, <2>3 DEF Measured, turn
<1> QED BY <1>4, <1>5

LEMMA GuaranteeMeasure ==
  ASSUME IInv, NEW r \in Residents, Measured(r), Guarantee(r)
  PROVE  Measured(r)'
<1> DEFINE D == turn(r).paths
           missing == IF ns[r] = None THEN PriceAll(D) ELSE PriceAll(D \ paid[r])
<1>1. tail[r] # <<>> /\ D \in SUBSET Paths
  BY ConstantsAssumption DEF ConstantsAssumption, Guarantee, Starting, IInv, Shape, turn
<1>2. UNCHANGED <<ns, budgetGb, granted, next>>
  BY DEF Guarantee, blockVars
<1>3. CASE Fits(r, missing)
  <2>1. Serve(r, ns[r]) /\ ns[r] # None /\ paidGb[r] + missing <= budgetGb[r]
    BY <1>3 DEF Guarantee, Fits
  <2> QED BY <1>1, <1>2, <2>1, ServeFits
<1>4. CASE ~Fits(r, missing)
  <2>1. NeedsRespawn(r, FloorGb(D))
    BY <1>4 DEF Guarantee
  <2>2. PriceAll(D \cap Known) <= FloorGb(D)
    BY <1>1, FloorsCover
  <2>3. /\ pc'[r] = "respawn" /\ tail' = tail /\ paid' = paid /\ paidGb' = paidGb
        /\ needGb'[r] = FloorGb(D)
    BY <2>1 DEF NeedsRespawn, Goto, IInv, Shape
  <2> QED BY <1>2, <2>2, <2>3 DEF Measured, turn
<1> QED BY <1>3, <1>4

\* A turn that only moves on or settles, and asks for no process, keeps the
\* measure; so does one that moves between the waits for a process.
LEMMA MovedMeasure ==
  ASSUME IInv, NEW r \in Residents, Measured(r), UNCHANGED <<procVars, needGb>>,
         \/ \E w \in PCs : /\ Goto(r, w)
                           /\ w \in Respawning => pc[r] \in Respawning
                           /\ w \notin {"kill", "launch"}
         \/ \E how : Settle(r, how)
  PROVE  Measured(r)'
<1>1. CASE \E w \in PCs : /\ Goto(r, w)
                          /\ w \in Respawning => pc[r] \in Respawning
                          /\ w \notin {"kill", "launch"}
  <2>1. PICK w \in PCs : /\ Goto(r, w)
                         /\ w \in Respawning => pc[r] \in Respawning
                         /\ w \notin {"kill", "launch"}
    BY <1>1
  <2>2. pc'[r] = w /\ tail' = tail
    BY <2>1 DEF Goto, IInv, Shape
  <2> QED BY <2>1, <2>2 DEF Measured, procVars, turn
<1>2. CASE \E how : Settle(r, how)
  <2>1. pc'[r] = "idle"
    BY <1>2 DEF Settle, IInv, Shape
  <2> QED BY <2>1 DEF Measured, procVars, Respawning
<1> QED BY <1>1, <1>2

LEMMA TurnMeasure ==
  ASSUME IInv, NEW r \in Residents, Measured(r), Turn(r)
  PROVE  Measured(r)'
<1>1. CASE InvokeNew(r)
  BY <1>1, InvokeNewMeasure
<1>2. CASE Guarantee(r)
  BY <1>2, GuaranteeMeasure
<1>3. CASE \/ InvokeExec(r) \/ InvokeMemo(r) \/ GuaranteeNothing(r) \/ CallSettles(r)
           \/ UseReturns(r) \/ PoisonGone(r) \/ FreeEnds(r)
  <2>1. (\E w \in {"call"} : Goto(r, w)) \/ (\E how : Settle(r, how))
    BY <1>3 DEF InvokeExec, InvokeMemo, GuaranteeNothing, CallSettles, UseReturns,
                PoisonGone, FreeEnds
  <2>2. UNCHANGED <<procVars, needGb>>
    BY <1>3 DEF InvokeExec, InvokeMemo, GuaranteeNothing, CallSettles, UseReturns,
                PoisonGone, FreeEnds, askVars
  <2> QED BY <2>1, <2>2, MovedMeasure DEF PCs, Respawning
<1>4. CASE MemberThrows(r)
  <2>1. Reads(r)' = Reads(r) /\ granted' = granted
    BY <1>4 DEF MemberThrows, Reads, turnVars, askVars, procVars, blockVars
  <2> QED BY <2>1, MeasuredKept DEF IInv, Phases
<1>5. CASE UseRejects(r) /\ ~memberFailed[r]
  BY <1>5, MovedMeasure DEF UseRejects, askVars
<1>6. CASE (UseRejects(r) /\ memberFailed[r]) \/ FreeBegins(r)
  <2>1. BeginKill(r) /\ (Goto(r, "poison") \/ Goto(r, "freeing"))
    BY <1>6 DEF UseRejects, FreeBegins
  <2>2. pc'[r] \notin Respawning
    BY <2>1 DEF Goto, Respawning, IInv, Shape
  <2> QED BY <2>1, <2>2, KilledMeasure
<1> QED BY <1>1, <1>2, <1>3, <1>4, <1>5, <1>6 DEF Turn

\* An adequate block grants what the turn asked for.
LEMMA AdequateMeasure ==
  ASSUME IInv, NEW r \in Residents, NEW b, Measured(r), pc[r] = "respawn",
         Adequate(r, b), MinGb(r) <= granted'[b]
  PROVE  Measured(r)'
<1>1. /\ pc'[r] = "kill" /\ tail' = tail /\ needGb' = needGb /\ next'[r] = b
      /\ ns'[r] = None /\ paid'[r] = {} /\ paidGb'[r] = 0
  BY DEF Adequate, BeginKill, Goto, askVars, IInv, Shape
<1> QED BY <1>1, PriceOfNothing DEF Measured, Respawning, turn, MinGb

\* The new process has the budget the turn asked for, and no bill yet.
LEMMA ReadyMeasure ==
  ASSUME IInv, NEW r \in Residents, Measured(r), LaunchReady(r)
  PROVE  Measured(r)'
<1> DEFINE D == turn(r).paths
<1>1. /\ tail[r] # <<>> /\ pc[r] = "launch" /\ ns[r] = None /\ paid[r] = {}
      /\ next[r] # None
  BY DEF LaunchReady, IInv, Phases, Measured
<1>2. PriceAll(D \cap Known) <= needGb[r] /\ MinGb(r) <= granted[next[r]]
  BY <1>1 DEF Measured, Respawning
<1>3. budgetGb'[r] = granted[next[r]] - ResidentBaseGb /\ Serve(r, booting[r])
  BY DEF LaunchReady, IInv, Shape
<1>4. /\ paidGb'[r] = PriceAll(paid'[r]) /\ paid'[r] \subseteq D /\ D \in SUBSET Paths
  BY <1>1, <1>3, ServeMeasure DEF IInv, Measured
<1>5. PriceAll(paid'[r] \cap Known) <= PriceAll(D \cap Known)
  <2>1. D \cap Known \in SUBSET Paths /\ paid'[r] \cap Known \in SUBSET (D \cap Known)
    BY <1>4
  <2> QED BY <2>1, PriceAllGrows
<1>6. /\ PriceAll(paid'[r] \cap Known) \in Nat /\ PriceAll(D \cap Known) \in Nat
      /\ needGb[r] \in Nat /\ granted[next[r]] \in Nat /\ ResidentBaseGb \in Nat
  BY <1>1, <1>4, PriceAllNat, HeldOutstanding, ConstantsAssumption
  DEF ConstantsAssumption, IInv, Shape
<1>7. PriceAll(paid'[r] \cap Known) <= budgetGb'[r]
  BY <1>2, <1>3, <1>5, <1>6 DEF MinGb
<1>8. pc'[r] \notin Respawning
  <2>1. (\E w \in {"use", "call"} : Goto(r, w)) \/ Settle(r, "error")
    BY <1>1, <1>3, ServeEffect DEF IInv
  <2> QED BY <2>1 DEF IInv, Shape, Goto, Settle, Respawning
<1>9. ns'[r] # None /\ pc'[r] \notin {"kill", "launch"}
  BY <1>1, <1>8 DEF LaunchReady, Respawning, IInv, Shape, Phases
<1> QED BY <1>4, <1>7, <1>8, <1>9 DEF Measured

LEMMA RespawnMeasure ==
  ASSUME IInv, NEW r \in Residents, Measured(r), Respawn(r)
  PROVE  Measured(r)'
<1>1. CASE ReuseHeld(r)
  BY <1>1, AdequateMeasure DEF ReuseHeld, Reusable
<1>2. ASSUME NEW b \in Blocks, NEW gb \in Offers(r), PlaceNext(r, b, gb)
      PROVE  Measured(r)'
  <2>1. MinGb(r) <= gb /\ granted'[b] = gb
    BY <1>2, OffersNat, ConstantsAssumption
    DEF ConstantsAssumption, PlaceNext, Granted, MinGb, IInv, Shape
  <2> QED BY <1>2, <2>1, AdequateMeasure DEF PlaceNext
<1>3. CASE \/ \E b \in Blocks : \E gb \in Offers(r) : PlaceUndersized(r, b, gb)
           \/ PlaceNothing(r) \/ RetryDelay(r) \/ Impossible(r)
           \/ LaunchRefused(r) \/ LaunchGone(r)
  <2>1. \/ pc[r] \in Respawning /\ \E w \in {"respawn", "retry"} : Goto(r, w)
        \/ \E how : Settle(r, how)
    BY <1>3 DEF PlaceUndersized, PlaceNothing, RetryDelay, Impossible, LaunchRefused,
                LaunchGone, Respawning
  <2>2. UNCHANGED <<procVars, needGb>>
    BY <1>3 DEF PlaceUndersized, PlaceNothing, RetryDelay, Impossible, LaunchRefused,
                LaunchGone, askVars
  <2> QED BY <2>1, <2>2, MovedMeasure DEF PCs
<1>4. ASSUME NEW p \in Pids, LaunchAccepted(r, p) PROVE Measured(r)'
  <2>1. pc[r] = "kill" /\ next[r] # None /\ granted' = LedgerWithoutOld(r)
    BY <1>4 DEF LaunchAccepted, IInv, Phases
  <2>2. granted'[next[r]] = granted[next[r]]
    BY <2>1, LedgerWithoutOldEffect DEF IInv
  <2>3. /\ pc'[r] = "launch" /\ tail' = tail /\ needGb' = needGb /\ next' = next
        /\ UNCHANGED procVars
    BY <1>4 DEF LaunchAccepted, Goto, askVars, IInv, Shape
  <2> QED BY <2>1, <2>2, <2>3 DEF Measured, Respawning, procVars, turn, MinGb
<1>5. CASE LaunchReady(r)
  BY <1>5, ReadyMeasure
<1> QED BY <1>1, <1>2, <1>3, <1>4, <1>5 DEF Respawn

LEMMA SubmitMeasure ==
  ASSUME IInv, NEW q \in Residents, NEW t \in Turns, Submit(q, t),
         NEW r \in Residents, Measured(r)
  PROVE  Measured(r)'
<1>1. UNCHANGED <<pc, needGb, ns, paid, paidGb, budgetGb, next, granted>>
  BY DEF Submit, askVars, procVars, blockVars
<1>2. pc[r] \in Respawning => Head(tail'[r]) = Head(tail[r])
  <2> HAVE pc[r] \in Respawning
  <2>1. tail[r] # <<>> /\ tail[r] \in Seq(Turns)
    BY DEF IInv, Phases, Shape, Respawning
  <2>2. tail'[r] = tail[r] \/ tail'[r] = Append(tail[r], t)
    BY DEF Submit, IInv, Shape
  <2> QED BY <2>1, <2>2
<1> QED BY <1>1, <1>2 DEF Measured, turn, MinGb

LEMMA MeasuredNext ==
  ASSUME IInv, [Next]_vars, NEW r \in Residents, Measured(r)
  PROVE  Measured(r)'
<1>0. /\ pc[r] \in {"kill", "launch"} => next[r] # None
      /\ next[r] # None => next[r] \in DOMAIN granted /\ next[r] \in Holds(r)
  BY HeldOutstanding DEF IInv, Phases, Holds
<1>1. ASSUME NEW q \in Residents, NEW t \in Turns, Submit(q, t) PROVE Measured(r)'
  BY <1>1, SubmitMeasure
<1>2. ASSUME NEW q \in Residents, Turn(q) \/ Respawn(q) PROVE Measured(r)'
  <2>1. CASE q = r
    BY <1>2, <2>1, TurnMeasure, RespawnMeasure
  <2>2. CASE q # r
    <3>1. Reads(r)' = Reads(r)
      BY <1>2, <2>2, OthersReads DEF IInv
    <3>2. next[r] # None => granted'[next[r]] = granted[next[r]]
      <4>1. next[r] # None => next[r] \notin Holds(q)
        BY <1>0, <2>2 DEF IInv, BlocksAccounted
      <4> QED BY <1>0, <1>2, <4>1, OthersGranted
    <3> QED BY <1>0, <3>1, <3>2, MeasuredKept
  <2> QED BY <2>1, <2>2
<1>3. ASSUME NEW p \in Pids, ProcessExits(p) \/ KilledOutside(p) PROVE Measured(r)'
  <2>1. Reads(r)' = Reads(r) /\ granted' = granted
    BY <1>3 DEF ProcessExits, KilledOutside, Reads, turnVars, askVars, procVars, blockVars
  <2> QED BY <1>0, <2>1, MeasuredKept
<1>4. CASE UNCHANGED vars
  <2>1. Reads(r)' = Reads(r) /\ granted' = granted
    BY <1>4 DEF vars, Reads
  <2> QED BY <1>0, <2>1, MeasuredKept
<1> QED BY <1>1, <1>2, <1>3, <1>4 DEF Next

LEMMA MeasuredAlways == Spec => [](\A r \in Residents : Measured(r))
<1> DEFINE All == \A r \in Residents : Measured(r)
<1>1. Init => All
  BY PriceOfNothing DEF Init, Measured, Respawning
<1>2. IInv /\ All /\ [Next]_vars => All'
  BY MeasuredNext
<1> QED BY <1>1, <1>2, Invariance, PTL DEF Spec

\* Every variable of the proxy keeps its shape, whatever callers, placer and
\* engine do, and the carried bill is the price of what the process has paid
\* for, none without a process (#killProcess, #invoke, #guaranteeFit).
THEOREM TypeCorrect == Spec => []TypeOK
<1>1. IInv /\ (\A r \in Residents : Measured(r)) => TypeOK
  BY DEF IInv, Measured, TypeOK, BillsExact
<1> QED BY <1>1, MeasuredAlways, Invariance, PTL

\* What a process is billed at a measured price never outgrows its allocation,
\* so the engine never kills it for what the runtime could price: the floor of
\* every respawn covers it, and no turn is served beyond the budget
\* (#invoke, #guaranteeFit, #respawn, #needed).
THEOREM MeasuredFits == Spec => []MeasuredWorkFits
<1>1. (\A r \in Residents : Measured(r)) => MeasuredWorkFits
  BY DEF Measured, MeasuredWorkFits
<1> QED BY <1>1, MeasuredAlways, PTL
=============================================================================
