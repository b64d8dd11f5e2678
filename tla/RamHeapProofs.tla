--------------------------- MODULE RamHeapProofs ---------------------------
(***************************************************************************)
(* Proofs about RamHeap, for any fleet, requests and machine sizes: its    *)
(* variables keep their shape, every host is in the bucket of what it has  *)
(* free, the totals are the sums over the hosts, a refusal means that      *)
(* nothing fits, and the heap implements the pool of RamPool.              *)
(***************************************************************************)
EXTENDS RamHeap, SetSumsProofs, SequenceTheorems, TLAPS

----------------------------------------------------------------------------
(* Arithmetic: whole threads of a host hold what was asked of them *)

\* What \div returns.
LEMMA DivBounds ==
  ASSUME NEW a \in Int, NEW b \in Nat \ {0}
  PROVE  /\ a \div b \in Int
         /\ b * (a \div b) <= a
         /\ a < b * (a \div b) + b
BY SMT

\* A factor that is less than one more is no more.
LEMMA FactorBound ==
  ASSUME NEW q \in Int, NEW f \in Int, NEW b \in Nat \ {0}, b * q < b * f + b
  PROVE  q <= f
<1>1. CASE q >= f + 1
  <2>1. PICK k \in Nat : q = f + 1 + k  BY <1>1
  <2>2. b * q = b * f + b + b * k  BY <2>1, SMT
  <2>3. b * k \in Nat  BY SMT
  <2> QED  BY <2>2, <2>3
<1>2. CASE q <= f  BY <1>2
<1> QED  BY <1>1, <1>2

\* Rounding up the threads for an effect that f threads have gives at most f.
LEMMA CeilDivBound ==
  ASSUME NEW r \in Nat \ {0}, NEW f \in Int, NEW b \in Nat \ {0}, r <= f * b
  PROVE  CeilDiv(r, b) \in Nat /\ CeilDiv(r, b) <= f
<1> DEFINE q == (r + b - 1) \div b
<1>1. /\ q \in Int
      /\ b * q <= r + b - 1
      /\ r + b - 1 < b * q + b
  BY DivBounds
<1>2. b * q < b * f + b
  <2> f * b = b * f  BY SMT
  <2> QED  BY <1>1
<1>3. q <= f  BY <1>1, <1>2, FactorBound
<1>4. b * 0 < b * q + b  BY <1>1
<1>5. 0 <= q  BY <1>1, <1>4, FactorBound
<1> QED  BY <1>1, <1>3, <1>5 DEF CeilDiv

\* Multiplying by a natural keeps the order.
LEMMA TimesKeepsOrder ==
  ASSUME NEW a \in Int, NEW b \in Int, NEW c \in Nat, a <= b
  PROVE  a * c <= b * c
<1>1. PICK k \in Nat : b = a + k  OBVIOUS
<1>2. b * c = a * c + k * c  BY <1>1
<1>3. k * c \in Nat  OBVIOUS
<1> QED BY <1>2, <1>3

----------------------------------------------------------------------------
(* Placement: a plan takes from a host only what it has free *)

\* What a request and a state must be for the lemmas on placement.
Placing(rq, t) == rq \in RequestType /\ t \in [Hosts -> Nat] /\ TypeOK

\* The use and the effect of a thread are numbers.
LEMMA PlacingTypes ==
  ASSUME NEW rq, NEW t, Placing(rq, t), NEW h \in Hosts
  PROVE  /\ Effect(h, rq) \in Nat \ {0} /\ Want(rq) \in Nat \ {0}
         /\ rq.size \in Nat \ {0}
         /\ Free(h) \in Int /\ FreeBeside(h, t) \in Int
<1>1. rq.size \in Nat \ {0} /\ rq.threads \in Nat \ {0}
  BY DEF Placing, RequestType
<1>2. /\ maxRam[h] \in Nat /\ used[h] \in Int /\ reserved[h] \in Nat
      /\ cores[h] \in Nat \ {0} /\ t[h] \in Nat
  BY DEF Placing, TypeOK
<1>3. Effect(h, rq) \in Nat \ {0}  BY <1>2 DEF Effect
<1>4. Want(rq) \in Nat \ {0}  BY <1>1 DEF Want
<1>5. Free(h) \in Int  BY <1>2 DEF Free
<1>6. FreeBeside(h, t) \in Int  BY <1>2, <1>5 DEF FreeBeside
<1> QED  BY <1>1, <1>3, <1>4, <1>5, <1>6

\* As many whole threads as fit on a host take no more than it has free.
LEMMA FitFits ==
  ASSUME NEW rq, NEW t, Placing(rq, t), NEW h \in Hosts, Fit(h, rq, t) >= 1
  PROVE  /\ Fit(h, rq, t) \in Nat
         /\ Fit(h, rq, t) * rq.size \in Nat
         /\ Fit(h, rq, t) * rq.size <= FreeBeside(h, t)
<1> DEFINE f == FreeBeside(h, t)
           s == rq.size
<1>1. f \in Int /\ s \in Nat \ {0}  BY PlacingTypes
<1> HIDE DEF f, s
<1>2. f \div s \in Int /\ s * (f \div s) <= f  BY <1>1, DivBounds
<1>3. Fit(h, rq, t) = f \div s  BY DEF Fit, f, s
<1>4. s * (f \div s) = (f \div s) * s  BY <1>1, <1>2
<1>5. f \div s \in Nat  BY <1>2, <1>3
<1>6. (f \div s) * s \in Nat  BY <1>1, <1>5
<1> QED  BY <1>2, <1>3, <1>4, <1>5, <1>6 DEF f, s

\* Room for some effect on a host is room for the block that has it.
LEMMA BlockFits ==
  ASSUME NEW rq, NEW t, Placing(rq, t), NEW h \in Hosts, NEW e \in Nat \ {0},
         Fit(h, rq, t) >= 1, e <= Fit(h, rq, t) * Effect(h, rq)
  PROVE  /\ BlockGb(h, rq, e) \in Nat
         /\ BlockGb(h, rq, e) <= FreeBeside(h, t)
<1>1. /\ Effect(h, rq) \in Nat \ {0} /\ rq.size \in Nat \ {0}
      /\ FreeBeside(h, t) \in Int
  BY PlacingTypes
<1>2. /\ Fit(h, rq, t) \in Nat
      /\ Fit(h, rq, t) * rq.size \in Nat
      /\ Fit(h, rq, t) * rq.size <= FreeBeside(h, t)
  BY FitFits
<1> DEFINE x == Effect(h, rq)
           c == CeilDiv(e, x)
           f == Fit(h, rq, t)
           s == rq.size
<1>3. f \in Nat /\ s \in Nat /\ x \in Nat \ {0} /\ e <= f * x  BY <1>1, <1>2
<1> HIDE DEF x, f, s
<1>4. c \in Nat /\ c <= f  BY <1>3, CeilDivBound
<1> HIDE DEF c
<1>5. c * s <= f * s /\ c * s \in Nat  BY <1>3, <1>4, TimesKeepsOrder
<1>6. BlockGb(h, rq, e) = c * s  BY DEF BlockGb, c, s, x
<1> QED  BY <1>1, <1>2, <1>5, <1>6 DEF f, s

\* The RAM of a call on one host is a number.
LEMMA BlockIsNat ==
  ASSUME NEW rq, NEW t, Placing(rq, t), NEW h \in Hosts
  PROVE  BlockGb(h, rq, Want(rq)) \in Nat
<1> DEFINE w == Want(rq)
           b == Effect(h, rq)
           s == rq.size
<1>1. w \in Nat \ {0} /\ b \in Nat \ {0} /\ s \in Nat \ {0}  BY PlacingTypes
<1> HIDE DEF w, b, s
<1>2. w * 1 <= w * b  
  <2> 1 * w <= b * w  BY <1>1, TimesKeepsOrder
  <2> QED  BY <1>1
<1>3. w <= w * b  BY <1>1, <1>2
<1>4. CeilDiv(w, b) \in Nat  BY <1>1, <1>3, CeilDivBound
<1>5. CeilDiv(w, b) * s \in Nat  BY <1>1, <1>4
<1> QED  BY <1>5 DEF BlockGb, w, b, s

\* A block on one host that fits there is a plan within what is free.
LEMMA OnFits ==
  ASSUME NEW rq, NEW t, Placing(rq, t), NEW h \in Hosts, Alone(h, rq, t)
  PROVE  /\ On(h, rq) \in [Hosts -> Nat]
         /\ \A g \in Hosts : On(h, rq)[g] > 0 => On(h, rq)[g] <= FreeBeside(g, t)
<1>1. BlockGb(h, rq, Want(rq)) \in Nat  BY BlockIsNat
<1> QED  BY <1>1 DEF On, Nothing, Alone

\* Greedy filling takes from each host only what it has free.
LEMMA SpreadFits ==
  ASSUME NEW rq, NEW t, Placing(rq, t), NEW p \in SpreadPlans(rq, t)
  PROVE  /\ p \in [Hosts -> Nat]
         /\ \A g \in Hosts : p[g] > 0 => p[g] <= FreeBeside(g, t)
<1> DEFINE V == Visited(rq, t)
           plan(full, last) ==
             [h \in Hosts |-> IF h \in full THEN Fit(h, rq, t) * rq.size
                              ELSE IF h = last THEN BlockGb(h, rq, Remaining(full, rq, t))
                              ELSE 0]
<1>0. PICK last \in V :
        \E full \in SUBSET (V \ {last}) : EndsOn(last, full, rq, t) /\ p = plan(full, last)
  BY DEF SpreadPlans
<1>1. PICK full \in SUBSET (V \ {last}) :
        EndsOn(last, full, rq, t) /\ p = plan(full, last)
  BY <1>0
<1>2. \A h \in V : h \in Hosts /\ Fit(h, rq, t) >= 1
  BY DEF Visited, Placing, TypeOK
<1>3. \A h \in full : /\ Fit(h, rq, t) * rq.size \in Nat
                      /\ Fit(h, rq, t) * rq.size <= FreeBeside(h, t)
  BY <1>2, FitFits
<1>4. /\ BlockGb(last, rq, Remaining(full, rq, t)) \in Nat
      /\ BlockGb(last, rq, Remaining(full, rq, t)) <= FreeBeside(last, t)
  <2>1. Fit(last, rq, t) \in Nat /\ Effect(last, rq) \in Nat
    BY <1>2, FitFits, PlacingTypes
  <2>2. Fit(last, rq, t) * Effect(last, rq) \in Nat  BY <2>1
  <2>3. /\ Remaining(full, rq, t) \in Nat \ {0}
        /\ Remaining(full, rq, t) <= Fit(last, rq, t) * Effect(last, rq)
    BY <1>1, <2>2 DEF EndsOn, EffectOn
  <2> QED  BY <1>2, <2>3, BlockFits
<1> QED  BY <1>1, <1>3, <1>4

\* A plan of any policy takes from each host only what it has free beside the
\* requests placed before it.
LEMMA PlanFits ==
  ASSUME NEW rq, NEW t, Placing(rq, t), NEW p \in Plans(rq, t)
  PROVE  /\ p \in [Hosts -> Nat]
         /\ \A g \in Hosts : p[g] > 0 => p[g] <= FreeBeside(g, t)
<1>1. CASE p \in ContiguousPlans(rq, t)
  <2>1. PICK h \in Hosts : Alone(h, rq, t) /\ p = On(h, rq)
    BY <1>1 DEF ContiguousPlans, Best, Placing, TypeOK
  <2> QED  BY <2>1, OnFits
<1>2. CASE Home \in known /\ Alone(Home, rq, t) /\ p = On(Home, rq)
  <2>1. Home \in Hosts  BY <1>2 DEF Placing, TypeOK
  <2> QED  BY <1>2, <2>1, OnFits
<1>3. CASE p \in SpreadPlans(rq, t)  BY <1>3, SpreadFits
<1> QED  BY <1>1, <1>2, <1>3 DEF Plans

\* A host is always put in one of the slabs.
LEMMA SlabInRange ==
  ASSUME NEW free
  PROVE  SlabOf(free) \in 0 .. Slabs - 1
<1> DEFINE all == 0 .. Slabs - 2
           below == {i \in all : SlabTop(i) < free}
<1>1. Slabs \in Nat \ {0}  BY HeapAssumption
<1>2. IsFiniteSet(all) /\ Cardinality(all) = Slabs - 1
  BY <1>1, FS_Interval
<1>3. IsFiniteSet(below) /\ Cardinality(below) <= Cardinality(all)
  BY <1>2, FS_Subset
<1>4. Cardinality(below) \in Nat  BY <1>3, FS_CardinalityType
<1> QED  BY <1>1, <1>2, <1>3, <1>4 DEF SlabOf

----------------------------------------------------------------------------
(* The inductive invariant *)

\* What every call of #update leaves behind.
LEMMA UpdateKeeps ==
  ASSUME TypeOK, SlabsFitFree, NEW S \in SUBSET Hosts, NEW newUsed \in [Hosts -> Int],
         Update(S, newUsed),
         maxRam' \in [Hosts -> Nat], reserved' \in [Hosts -> Nat], known' \subseteq Hosts,
         \A h \in Hosts \ S : /\ newUsed[h] = used[h] /\ maxRam'[h] = maxRam[h]
                              /\ reserved'[h] = reserved[h] /\ (h \in known' => h \in known)
  PROVE  /\ used' = newUsed
         /\ slab' \in [Hosts -> 0 .. Slabs - 1]
         /\ SlabsFitFree'
<1>1. /\ used' = newUsed
      /\ slab' = [h \in Hosts |-> IF h \in S \ {Home}
                                    THEN SlabOf(Larger(0, Free(h)')) ELSE slab[h]]
  BY DEF Update
<1>2. slab' \in [Hosts -> 0 .. Slabs - 1]
  BY <1>1, SlabInRange DEF TypeOK
<1>3. SUFFICES ASSUME NEW h \in known' \ {Home}
               PROVE  slab'[h] = SlabOf(Larger(0, Free(h)'))
  BY <1>1, <1>2 DEF SlabsFitFree
<1>4. h \in Hosts  OBVIOUS
<1>5. CASE h \in S  BY <1>1, <1>4, <1>5
<1>6. CASE h \notin S
  <2>1. Free(h)' = Free(h)  BY <1>1, <1>4, <1>6 DEF Free
  <2>2. slab'[h] = slab[h]  BY <1>1, <1>4, <1>6
  <2> QED  BY <1>4, <1>6, <2>1, <2>2 DEF SlabsFitFree
<1> QED  BY <1>5, <1>6

LEMMA InitInductive == Init => Inductive
<1> SUFFICES ASSUME Init PROVE Inductive  OBVIOUS
<1>1. 0 \in 0 .. Slabs - 1  BY HeapAssumption
<1>2. TypeOK  BY <1>1 DEF Init, Nothing, TypeOK
<1>3. SlabsFitFree /\ TentativeFits
  BY DEF Init, Nothing, SlabsFitFree, TentativeFits
<1> QED  BY <1>2, <1>3 DEF Inductive

\* What the requests of a batch are while they wait to be placed.
LEMMA TodoTypes ==
  ASSUME TypeOK, ~Idle
  PROVE  /\ Placing(Head(todo), tentative)
         /\ Tail(todo) \in Seq(RequestType)
         /\ Len(todo) > 1 => Tail(todo) # <<>>
<1>1. todo \in Seq(RequestType) /\ todo # <<>>  BY DEF TypeOK, Idle
<1>2. Head(todo) \in RequestType /\ Tail(todo) \in Seq(RequestType)
  BY <1>1, HeadTailProperties
<1>3. Len(todo) > 1 => Tail(todo) # <<>>
  <2>1. Len(Tail(todo)) = Len(todo) - 1  BY <1>1, HeadTailProperties
  <2>2. Len(<<>>) = 0  OBVIOUS
  <2>3. Len(todo) \in Nat  BY <1>1, LenProperties
  <2> DEFINE n == Len(todo)
             k == Len(Tail(todo))
  <2>4. n \in Nat /\ k = n - 1  BY <2>1, <2>3
  <2> HIDE DEF n, k
  <2>5. n > 1 => k # 0  BY <2>4
  <2> QED  BY <2>2, <2>5 DEF n, k
<1> QED  BY <1>2, <1>3 DEF Placing, TypeOK

\* A host is upserted as one of the machines it may be.
LEMMA UpsertKeeps ==
  ASSUME Inductive, NEW h \in Hosts, NEW m \in Machines[h], NEW u \in Int,
         Upsert(h, m, u)
  PROVE  Inductive'
<1> DEFINE newUsed == [used EXCEPT ![h] = u]
<1>1. m.maxRam \in Nat /\ m.cores \in Nat \ {0} /\ m.reserved \in Nat
  BY HeapAssumption DEF MachineType
<1>2. /\ maxRam' \in [Hosts -> Nat] /\ reserved' \in [Hosts -> Nat]
      /\ cores' \in [Hosts -> Nat \ {0}] /\ known' \subseteq Hosts
      /\ newUsed \in [Hosts -> Int]
  BY <1>1 DEF Upsert, Inductive, TypeOK
<1>3. \A g \in Hosts \ {h} : /\ newUsed[g] = used[g] /\ maxRam'[g] = maxRam[g]
                             /\ reserved'[g] = reserved[g] /\ (g \in known' => g \in known)
  <2>1. /\ known' = known \cup {h} /\ \E x : maxRam' = [maxRam EXCEPT ![h] = x]
        /\ \E x : reserved' = [reserved EXCEPT ![h] = x]
    BY DEF Upsert
  <2>2. \A f : f \in [Hosts -> Int] \/ f \in [Hosts -> Nat] =>
          \A x : \A g \in Hosts \ {h} : [f EXCEPT ![h] = x][g] = f[g]
    OBVIOUS
  <2>3. used \in [Hosts -> Int] /\ maxRam \in [Hosts -> Nat] /\ reserved \in [Hosts -> Nat]
    BY DEF Inductive, TypeOK
  <2> QED  BY <2>1, <2>2, <2>3
<1>4. Update({h}, newUsed)  BY DEF Upsert
<1>5. used' = newUsed /\ slab' \in [Hosts -> 0 .. Slabs - 1] /\ SlabsFitFree'
  BY <1>2, <1>3, <1>4, UpdateKeeps DEF Inductive
<1>6. TypeOK'  BY <1>2, <1>5 DEF Upsert, Inductive, TypeOK
<1>7. TentativeFits'
  BY DEF Upsert, Inductive, TentativeFits, Idle, Nothing
<1> QED  BY <1>5, <1>6, <1>7 DEF Inductive

\* What is passed for a host's use is a use.
LEMMA PassedIsUse ==
  ASSUME TypeOK, NEW h \in Hosts, NEW u \in Passed(h)
  PROVE  u \in Int
BY HeapAssumption DEF Passed, TypeOK

\* A use that changes on some hosts leaves them in the right buckets.
LEMMA UseKeeps ==
  ASSUME Inductive, NEW S \in SUBSET Hosts, NEW newUsed \in [Hosts -> Int],
         Update(S, newUsed), UNCHANGED hostVars,
         \A h \in Hosts \ S : newUsed[h] = used[h],
         lent' \in [Ids -> [Hosts -> Nat]], pieced' \subseteq Ids,
         todo' = <<>>, tentative' = Nothing
  PROVE  Inductive'
<1>1. /\ maxRam' = maxRam /\ reserved' = reserved /\ cores' = cores /\ known' = known
  BY DEF hostVars
<1>2. used' = newUsed /\ slab' \in [Hosts -> 0 .. Slabs - 1] /\ SlabsFitFree'
  BY <1>1, UpdateKeeps DEF Inductive, TypeOK
<1>3. TypeOK'
  BY <1>1, <1>2 DEF Inductive, TypeOK, Nothing
<1>4. TentativeFits'  BY DEF TentativeFits, Nothing
<1> QED  BY <1>2, <1>3, <1>4 DEF Inductive

\* Between batches nothing is tentative.
LEMMA IdleStays ==
  ASSUME Inductive, Idle, UNCHANGED <<todo, tentative>>
  PROVE  todo' = <<>> /\ tentative' = Nothing
BY DEF Inductive, TentativeFits, Idle

\* What a batch takes, its last request included, it takes within what is free.
LEMMA CommitFits ==
  ASSUME Inductive, NEW i \in Ids, NEW p, Commit(i, p)
  PROVE  LET all == [h \in Hosts |-> tentative[h] + p[h]]
         IN /\ all \in [Hosts -> Nat]
            /\ \A h \in Hosts : all[h] > 0 => all[h] <= Free(h)
<1>1. ~Idle /\ p \in Plans(Head(todo), tentative)
  <2>1. Len(todo) = 1 /\ p \in Plans(Head(todo), tentative)  BY DEF Commit
  <2>2. Len(<<>>) = 0  OBVIOUS
  <2> QED  BY <2>1, <2>2 DEF Idle
<1>2. Placing(Head(todo), tentative)  BY <1>1, TodoTypes DEF Inductive
<1>3. /\ p \in [Hosts -> Nat]
      /\ \A g \in Hosts : p[g] > 0 => p[g] <= FreeBeside(g, tentative)
  BY <1>1, <1>2, PlanFits
<1>4. \A g \in Hosts : Free(g) \in Int
  BY <1>2, PlacingTypes
<1> QED
  BY <1>3, <1>4 DEF Inductive, TypeOK, TentativeFits, FreeBeside

LEMMA NextInductive == Inductive /\ [Next]_vars => Inductive'
<1> SUFFICES ASSUME Inductive, [Next]_vars PROVE Inductive'  OBVIOUS
<1>1. TypeOK  BY DEF Inductive
<1>2. ASSUME NEW h \in Hosts, NEW m \in Machines[h], NEW u \in Passed(h),
             Upsert(h, m, u)
      PROVE  Inductive'
  BY <1>1, <1>2, PassedIsUse, UpsertKeeps
<1>3. ASSUME NEW h \in Hosts, NEW observed \in Sightings, Resync(h, observed)
      PROVE  Inductive'
  <2>1. [used EXCEPT ![h] = observed] \in [Hosts -> Int]
    BY <1>1, HeapAssumption DEF TypeOK
  <2>2. /\ lent' \in [Ids -> [Hosts -> Nat]] /\ pieced' \subseteq Ids
        /\ todo' = <<>> /\ tentative' = Nothing
    BY <1>1, <1>3, IdleStays DEF Resync, TypeOK
  <2>3. \A g \in Hosts \ {h} : [used EXCEPT ![h] = observed][g] = used[g]
    BY <1>1 DEF TypeOK
  <2> QED  BY <1>3, <2>1, <2>2, <2>3, UseKeeps DEF Resync
<1>4. ASSUME NEW i \in Ids, NEW h \in Hosts, NEW gb \in Leases, NEW draw \in BOOLEAN,
             ReserveOn(i, h, gb, draw)
      PROVE  Inductive'
  <2>0. gb \in Nat  BY HeapAssumption
  <2>1. [used EXCEPT ![h] = @ + gb] \in [Hosts -> Int]
    BY <1>1, <2>0 DEF TypeOK
  <2>2. lent' \in [Ids -> [Hosts -> Nat]] /\ pieced' \subseteq Ids
    BY <1>1, <1>4, <2>0 DEF ReserveOn, TypeOK, Nothing
  <2>3. todo' = <<>> /\ tentative' = Nothing
    BY <1>4, IdleStays DEF ReserveOn
  <2>4. \A g \in Hosts \ {h} : [used EXCEPT ![h] = @ + gb][g] = used[g]
    BY <1>1 DEF TypeOK
  <2>5. Update({h}, [used EXCEPT ![h] = @ + gb]) /\ UNCHANGED hostVars
    BY <1>4 DEF ReserveOn
  <2> QED  BY <2>1, <2>2, <2>3, <2>4, <2>5, UseKeeps
<1>5. ASSUME NEW requests \in Batches, AllocateAll(requests)
      PROVE  Inductive'
  <2>1. requests \in Seq(RequestType) /\ requests # <<>>  BY HeapAssumption
  <2> QED
    BY <1>5, <2>1 DEF AllocateAll, Inductive, TypeOK, SlabsFitFree, TentativeFits,
      Idle, hostVars, Free
<1>6. ASSUME NEW p, PlaceOne(p)
      PROVE  Inductive'
  <2>1. ~Idle  BY <1>1, <1>6 DEF PlaceOne, Idle, TypeOK
  <2>2. /\ Placing(Head(todo), tentative)
        /\ todo' \in Seq(RequestType) /\ todo' # <<>>
    BY <1>1, <1>6, <2>1, TodoTypes DEF PlaceOne
  <2>3. /\ p \in [Hosts -> Nat]
        /\ \A g \in Hosts : p[g] > 0 => p[g] <= FreeBeside(g, tentative)
    BY <1>6, <2>2, PlanFits DEF PlaceOne
  <2>4. UNCHANGED <<maxRam, reserved, cores, known, used, slab, lent, pieced>>
    BY <1>6 DEF PlaceOne, hostVars
  <2>5. tentative' = [h \in Hosts |-> tentative[h] + p[h]]  BY <1>6 DEF PlaceOne
  <2>6. TypeOK'  BY <1>1, <2>2, <2>3, <2>4, <2>5 DEF TypeOK
  <2>7. SlabsFitFree'  BY <2>4 DEF Inductive, SlabsFitFree, Free
  <2>8. \A h \in Hosts : tentative'[h] > 0 => tentative'[h] <= Free(h)'
    <3> SUFFICES ASSUME NEW h \in Hosts PROVE tentative'[h] > 0 => tentative'[h] <= Free(h)'
      OBVIOUS
    <3>1. Free(h)' = Free(h)  BY <2>4 DEF Free
    <3>2. Free(h) \in Int  BY <2>2, PlacingTypes
    <3>3. tentative[h] \in Nat /\ p[h] \in Nat  BY <1>1, <2>3 DEF TypeOK
    <3>4. tentative[h] > 0 => tentative[h] <= Free(h)  BY DEF Inductive, TentativeFits
    <3>5. p[h] > 0 => p[h] <= Free(h) - tentative[h]  BY <2>3 DEF FreeBeside
    <3> QED  BY <2>5, <3>1, <3>2, <3>3, <3>4, <3>5
  <2>9. TentativeFits'  BY <2>2, <2>8 DEF TentativeFits, Idle
  <2> QED  BY <2>6, <2>7, <2>9 DEF Inductive
<1>7. ASSUME NEW i \in Ids, NEW p, Commit(i, p)
      PROVE  Inductive'
  <2> DEFINE all == [h \in Hosts |-> tentative[h] + p[h]]
             newUsed == [h \in Hosts |-> used[h] + all[h]]
             S == {h \in Hosts : all[h] # 0}
  <2>1. all \in [Hosts -> Nat]  BY <1>7, CommitFits
  <2>2. /\ Update(S, newUsed) /\ UNCHANGED hostVars
        /\ lent' = [lent EXCEPT ![i] = all] /\ todo' = <<>> /\ tentative' = Nothing
    BY <1>7 DEF Commit
  <2>3. newUsed \in [Hosts -> Int]  BY <1>1, <2>1 DEF TypeOK
  <2>4. \A h \in Hosts \ S : newUsed[h] = used[h]  BY <1>1, <2>1 DEF TypeOK
  <2>5. lent' \in [Ids -> [Hosts -> Nat]] /\ pieced' \subseteq Ids
    BY <1>1, <1>7, <2>1, <2>2 DEF Commit, TypeOK
  <2> HIDE DEF all, newUsed, S
  <2>6. S \in SUBSET Hosts  BY DEF S
  <2> QED  BY <2>2, <2>3, <2>4, <2>5, <2>6, UseKeeps
<1>8. ASSUME PlaceFails
      PROVE  Inductive'
  <2>1. UNCHANGED <<maxRam, reserved, cores, known, used, slab, lent, pieced>>
    BY <1>8 DEF PlaceFails, hostVars
  <2>2. todo' = <<>> /\ tentative' = Nothing  BY <1>8 DEF PlaceFails
  <2>3. TypeOK'  BY <1>1, <2>1, <2>2 DEF TypeOK, Nothing
  <2>4. SlabsFitFree'  BY <2>1 DEF Inductive, SlabsFitFree, Free
  <2>5. TentativeFits'  BY <2>2 DEF TentativeFits, Nothing
  <2> QED  BY <2>3, <2>4, <2>5 DEF Inductive
<1>9. ASSUME NEW i \in Ids, Release(i)
      PROVE  Inductive'
  <2> DEFINE newUsed == [h \in Hosts |-> used[h] - lent[i][h]]
             S == {h \in Hosts : lent[i][h] # 0}
  <2>1. newUsed \in [Hosts -> Int] /\ \A h \in Hosts \ S : newUsed[h] = used[h]
    BY <1>1 DEF TypeOK
  <2>2. lent' \in [Ids -> [Hosts -> Nat]] /\ pieced' \subseteq Ids
    BY <1>1, <1>9 DEF Release, TypeOK, Nothing
  <2>3. todo' = <<>> /\ tentative' = Nothing  BY <1>9, IdleStays DEF Release
  <2>4. Update(S, newUsed) /\ UNCHANGED hostVars  BY <1>9 DEF Release
  <2> HIDE DEF newUsed, S
  <2>5. S \in SUBSET Hosts  BY DEF S
  <2> QED  BY <2>1, <2>2, <2>3, <2>4, <2>5, UseKeeps
<1>10. ASSUME NEW i \in Ids, NEW h \in Hosts, NEW gb \in Pieces, FreeBlock(i, h, gb)
       PROVE  Inductive'
  <2>0. gb \in Nat /\ gb <= lent[i][h]  BY <1>10, HeapAssumption DEF FreeBlock
  <2>1. [used EXCEPT ![h] = @ - gb] \in [Hosts -> Int]  BY <1>1, <2>0 DEF TypeOK
  <2>2. lent' \in [Ids -> [Hosts -> Nat]]
    <3>1. lent[i][h] - gb \in Nat  BY <1>1, <2>0 DEF TypeOK
    <3> QED  BY <1>1, <1>10, <3>1 DEF FreeBlock, TypeOK
  <2>3. todo' = <<>> /\ tentative' = Nothing  BY <1>10, IdleStays DEF FreeBlock
  <2>4. \A g \in Hosts \ {h} : [used EXCEPT ![h] = @ - gb][g] = used[g]
    BY <1>1 DEF TypeOK
  <2>5. pieced' \subseteq Ids  BY <1>1, <1>10 DEF FreeBlock, TypeOK
  <2>6. Update({h}, [used EXCEPT ![h] = @ - gb]) /\ UNCHANGED hostVars
    BY <1>10 DEF FreeBlock
  <2> QED  BY <2>1, <2>2, <2>3, <2>4, <2>5, <2>6, UseKeeps
<1>11. CASE UNCHANGED vars
  BY <1>11 DEF vars, Inductive, TypeOK, SlabsFitFree, TentativeFits, Idle, Free
<1> QED
  BY <1>2, <1>3, <1>4, <1>5, <1>6, <1>7, <1>8, <1>9, <1>10, <1>11 DEF Next, Allocation

----------------------------------------------------------------------------
(* The heap implements the pool *)

Spare == [h \in Hosts |-> Free(h)]

\* Where only use changes, what a host can spare moves against it.
LEMMA SpareMoves ==
  ASSUME TypeOK, TypeOK', UNCHANGED hostVars, NEW h \in Hosts
  PROVE  /\ Spare[h] \in Int /\ Spare'[h] \in Int /\ reserved[h] \in Nat
         /\ used[h] \in Int /\ used'[h] \in Int
         /\ Spare[h] = Free(h)
         /\ Spare'[h] = Spare[h] + used[h] - used'[h]
<1>1. /\ maxRam[h] \in Nat /\ reserved[h] \in Nat /\ used[h] \in Int /\ used'[h] \in Int
      /\ maxRam'[h] = maxRam[h] /\ reserved'[h] = reserved[h]
  BY DEF TypeOK, hostVars
<1>2. Spare[h] = maxRam[h] - used[h] - reserved[h]  BY DEF Spare, Free
<1>3. Spare'[h] = maxRam'[h] - used'[h] - reserved'[h]  BY DEF Spare, Free
<1>4. Spare[h] = Free(h)  BY DEF Spare
<1> QED  BY <1>1, <1>2, <1>3, <1>4

\* The pool's step for a step of the heap that leaves every host as it is.
LEMMA UnusedStutters ==
  ASSUME UNCHANGED <<hostVars, used, lent>>
  PROVE  UNCHANGED Pool!poolVars
BY DEF hostVars, Pool!poolVars, Free

LEMMA PoolGrant ==
  ASSUME TypeOK, TypeOK', UNCHANGED hostVars, NEW i \in Ids, lent[i] = Nothing,
         NEW all \in [Hosts -> Nat],
         used' = [h \in Hosts |-> used[h] + all[h]],
         lent' = [lent EXCEPT ![i] = all],
         \/ \A h \in Hosts : all[h] > 0 => all[h] <= Free(h)
         \/ \E h \in Hosts : /\ all[h] <= Free(h) + reserved[h]
                             /\ \A g \in Hosts \ {h} : all[g] = 0
  PROVE  Pool!Grant(i)
<1>1. \A h \in Hosts : /\ Spare[h] \in Int /\ Spare'[h] \in Int /\ reserved[h] \in Nat
                       /\ all[h] \in Nat
                       /\ Spare[h] = Free(h) /\ Spare'[h] = Spare[h] - all[h]
  <2> SUFFICES ASSUME NEW h \in Hosts
               PROVE  /\ Spare[h] \in Int /\ Spare'[h] \in Int /\ reserved[h] \in Nat
                      /\ all[h] \in Nat
                      /\ Spare[h] = Free(h) /\ Spare'[h] = Spare[h] - all[h]
    OBVIOUS
  <2>1. used'[h] = used[h] + all[h] /\ all[h] \in Nat  OBVIOUS
  <2>2. /\ Spare[h] \in Int /\ Spare'[h] \in Int /\ reserved[h] \in Nat
        /\ used[h] \in Int /\ used'[h] \in Int
        /\ Spare[h] = Free(h) /\ Spare'[h] = Spare[h] + used[h] - used'[h]
    BY SpareMoves
  <2> HIDE DEF Spare
  <2> QED  BY <2>1, <2>2
<1>2. lent[i] = Pool!Nothing  BY DEF Nothing, Pool!Nothing
<1>3. lent' = [lent EXCEPT ![i] = [h \in Hosts |-> Spare[h] - Spare'[h]]]
  <2>1. \A h \in Hosts : Spare[h] - Spare'[h] = all[h]  BY <1>1
  <2>2. [h \in Hosts |-> Spare[h] - Spare'[h]] = all  BY <2>1
  <2> QED  BY <2>2
<1>4. \/ \A h \in Hosts : Spare'[h] < Spare[h] => Spare'[h] >= 0
      \/ \E h \in Hosts : /\ Spare'[h] + reserved[h] >= 0
                          /\ \A g \in Hosts \ {h} : Spare'[g] = Spare[g]
  <2>1. CASE \A h \in Hosts : all[h] > 0 => all[h] <= Free(h)
    BY <1>1, <2>1
  <2>2. ASSUME NEW h \in Hosts, all[h] <= Free(h) + reserved[h],
               \A g \in Hosts \ {h} : all[g] = 0
        PROVE  \E x \in Hosts : /\ Spare'[x] + reserved[x] >= 0
                                /\ \A g \in Hosts \ {x} : Spare'[g] = Spare[g]
    <3>1. Spare'[h] + reserved[h] >= 0  BY <1>1, <2>2
    <3>2. \A g \in Hosts \ {h} : Spare'[g] = Spare[g]  BY <1>1, <2>2
    <3> QED  BY <3>1, <3>2
  <2> QED  BY <2>1, <2>2
<1>5. \A h \in Hosts : Spare'[h] <= Spare[h]  BY <1>1
<1>6. UNCHANGED reserved  BY DEF hostVars
<1> QED  BY <1>2, <1>3, <1>4, <1>5, <1>6 DEF Pool!Grant, Spare

LEMMA PoolReturn ==
  ASSUME TypeOK, TypeOK', UNCHANGED hostVars, NEW i \in Ids,
         NEW back \in [Hosts -> Nat], \A h \in Hosts : back[h] <= lent[i][h],
         used' = [h \in Hosts |-> used[h] - back[h]],
         lent' = [lent EXCEPT ![i] = [h \in Hosts |-> lent[i][h] - back[h]]]
  PROVE  Pool!Return(i)
<1>1. \A h \in Hosts : /\ Spare[h] \in Int /\ Spare'[h] \in Int
                       /\ back[h] \in Nat /\ Spare'[h] = Spare[h] + back[h]
  <2> SUFFICES ASSUME NEW h \in Hosts
               PROVE  /\ Spare[h] \in Int /\ Spare'[h] \in Int
                      /\ back[h] \in Nat /\ Spare'[h] = Spare[h] + back[h]
    OBVIOUS
  <2>1. used'[h] = used[h] - back[h] /\ back[h] \in Nat  OBVIOUS
  <2>2. /\ Spare[h] \in Int /\ Spare'[h] \in Int /\ used[h] \in Int /\ used'[h] \in Int
        /\ Spare'[h] = Spare[h] + used[h] - used'[h]
    BY SpareMoves
  <2> HIDE DEF Spare
  <2> QED  BY <2>1, <2>2
<1>2. \A h \in Hosts : lent[i][h] \in Nat  BY DEF TypeOK
<1>3. \A h \in Hosts : lent[i][h] + Spare[h] - Spare'[h] = lent[i][h] - back[h]
  BY <1>1, <1>2
<1>4. [h \in Hosts |-> lent[i][h] + Spare[h] - Spare'[h]]
        = [h \in Hosts |-> lent[i][h] - back[h]]
  BY <1>3
<1>5. lent' = [lent EXCEPT ![i] = [h \in Hosts |-> lent[i][h] + Spare[h] - Spare'[h]]]
  BY <1>4
<1>6. \A h \in Hosts : Spare'[h] >= Spare[h] /\ lent'[i][h] >= 0
  <2>1. \A h \in Hosts : lent'[i][h] \in Nat  BY DEF TypeOK
  <2> HIDE DEF Spare
  <2> QED  BY <1>1, <2>1
<1>7. UNCHANGED reserved  BY DEF hostVars
<1> QED  BY <1>5, <1>6, <1>7 DEF Pool!Return, Spare

LEMMA PoolRestate ==
  ASSUME TypeOK, TypeOK', NEW h \in Hosts, UNCHANGED lent,
         \A g \in Hosts \ {h} : /\ maxRam'[g] = maxRam[g] /\ used'[g] = used[g]
                                /\ reserved'[g] = reserved[g]
  PROVE  Pool!Restate(h)
<1>1. \A g \in Hosts : Free(g)' \in Int /\ reserved'[g] \in Nat
  <2> TAKE g \in Hosts
  <2>1. maxRam'[g] \in Nat /\ used'[g] \in Int /\ reserved'[g] \in Nat  BY DEF TypeOK
  <2> QED  BY <2>1 DEF Free
<1>2. \A g \in Hosts \ {h} : Free(g)' = Free(g)  BY DEF Free
<1> QED  BY <1>1, <1>2 DEF Pool!Restate, TypeOK

LEMMA InitPool == Init => Pool!Init
<1> SUFFICES ASSUME Init PROVE Pool!Init  OBVIOUS
<1>1. \A h \in Hosts : Free(h) = 0  BY DEF Init, Nothing, Free
<1> QED  BY <1>1 DEF Init, Nothing, Pool!Init, Pool!Nothing

LEMMA StepPool == Inductive /\ Inductive' /\ [Next]_vars => [Pool!Next]_(Pool!poolVars)
<1> SUFFICES ASSUME Inductive, Inductive', [Next]_vars
             PROVE  Pool!Next \/ UNCHANGED Pool!poolVars
  OBVIOUS
<1>1. TypeOK /\ TypeOK'  BY DEF Inductive
<1>2. ASSUME NEW h \in Hosts, NEW m \in Machines[h], NEW u \in Passed(h),
             Upsert(h, m, u)
      PROVE  Pool!Restate(h)
  <2>1. \A g \in Hosts \ {h} : /\ maxRam'[g] = maxRam[g] /\ used'[g] = used[g]
                               /\ reserved'[g] = reserved[g]
    BY <1>1, <1>2 DEF Upsert, Update, TypeOK
  <2> QED  BY <1>1, <1>2, <2>1, PoolRestate DEF Upsert
<1>3. ASSUME NEW h \in Hosts, NEW observed \in Sightings, Resync(h, observed)
      PROVE  Pool!Restate(h)
  <2>1. \A g \in Hosts \ {h} : /\ maxRam'[g] = maxRam[g] /\ used'[g] = used[g]
                               /\ reserved'[g] = reserved[g]
    BY <1>1, <1>3 DEF Resync, Update, TypeOK, hostVars
  <2> QED  BY <1>1, <1>3, <2>1, PoolRestate DEF Resync
<1>4. ASSUME NEW i \in Ids, NEW h \in Hosts, NEW gb \in Leases, NEW draw \in BOOLEAN,
             ReserveOn(i, h, gb, draw)
      PROVE  Pool!Grant(i)
  <2> DEFINE all == [Nothing EXCEPT ![h] = gb]
  <2>0. gb \in Nat  BY HeapAssumption
  <2>1. all \in [Hosts -> Nat]  BY <2>0 DEF Nothing
  <2>2. UNCHANGED hostVars /\ lent[i] = Nothing /\ lent' = [lent EXCEPT ![i] = all]
    BY <1>4 DEF ReserveOn
  <2>3. used' = [g \in Hosts |-> used[g] + all[g]]
    <3>1. used' = [used EXCEPT ![h] = @ + gb]  BY <1>4 DEF ReserveOn, Update
    <3>2. used \in [Hosts -> Int]  BY <1>1 DEF TypeOK
    <3>3. \A g \in Hosts : used'[g] = used[g] + all[g]
      BY <2>0, <3>1, <3>2 DEF Nothing
    <3> QED  BY <3>1, <3>2, <3>3
  <2>4. /\ all[h] <= Free(h) + reserved[h]
        /\ \A g \in Hosts \ {h} : all[g] = 0
    <3>1. gb <= Free(h) + IF draw THEN reserved[h] ELSE 0  BY <1>4 DEF ReserveOn
    <3>2. reserved[h] \in Nat /\ Free(h) \in Int  BY <1>1 DEF TypeOK, Free
    <3>3. gb <= Free(h) + reserved[h]  BY <2>0, <3>1, <3>2
    <3> QED  BY <3>3 DEF Nothing
  <2> HIDE DEF all
  <2> QED  BY <1>1, <2>1, <2>2, <2>3, <2>4, PoolGrant
<1>5. ASSUME NEW requests \in Batches, AllocateAll(requests)
      PROVE  UNCHANGED Pool!poolVars
  BY <1>5, UnusedStutters DEF AllocateAll
<1>6. ASSUME NEW p, PlaceOne(p)
      PROVE  UNCHANGED Pool!poolVars
  BY <1>6, UnusedStutters DEF PlaceOne
<1>7. ASSUME NEW i \in Ids, NEW p, Commit(i, p)
      PROVE  Pool!Grant(i)
  <2> DEFINE all == [h \in Hosts |-> tentative[h] + p[h]]
  <2>1. all \in [Hosts -> Nat] /\ \A h \in Hosts : all[h] > 0 => all[h] <= Free(h)
    BY <1>7, CommitFits
  <2>2. /\ UNCHANGED hostVars /\ lent[i] = Nothing
        /\ lent' = [lent EXCEPT ![i] = all]
        /\ used' = [h \in Hosts |-> used[h] + all[h]]
    BY <1>7 DEF Commit, Update
  <2> HIDE DEF all
  <2> QED  BY <1>1, <2>1, <2>2, PoolGrant
<1>8. ASSUME PlaceFails
      PROVE  UNCHANGED Pool!poolVars
  BY <1>8, UnusedStutters DEF PlaceFails
<1>9. ASSUME NEW i \in Ids, Release(i)
      PROVE  Pool!Return(i)
  <2>1. lent[i] \in [Hosts -> Nat] /\ \A h \in Hosts : lent[i][h] <= lent[i][h]
    BY <1>1 DEF TypeOK
  <2>2. UNCHANGED hostVars /\ used' = [h \in Hosts |-> used[h] - lent[i][h]]
    BY <1>9 DEF Release, Update
  <2>3. lent' = [lent EXCEPT ![i] = [h \in Hosts |-> lent[i][h] - lent[i][h]]]
    <3>1. \A h \in Hosts : lent[i][h] - lent[i][h] = 0  BY <2>1
    <3>2. [h \in Hosts |-> lent[i][h] - lent[i][h]] = Nothing  BY <3>1 DEF Nothing
    <3> QED  BY <1>9, <3>2 DEF Release
  <2> QED  BY <1>1, <2>1, <2>2, <2>3, PoolReturn
<1>10. ASSUME NEW i \in Ids, NEW h \in Hosts, NEW gb \in Pieces, FreeBlock(i, h, gb)
       PROVE  Pool!Return(i)
  <2> DEFINE back == [Nothing EXCEPT ![h] = gb]
  <2>0. gb \in Nat /\ gb <= lent[i][h]  BY <1>10, HeapAssumption DEF FreeBlock
  <2>9. lent[i] \in [Hosts -> Nat] /\ used \in [Hosts -> Int]  BY <1>1 DEF TypeOK
  <2>1. back \in [Hosts -> Nat] /\ \A g \in Hosts : back[g] <= lent[i][g]
    BY <2>0, <2>9 DEF Nothing
  <2>2. UNCHANGED hostVars /\ used' = [used EXCEPT ![h] = @ - gb]
    BY <1>10 DEF FreeBlock, Update
  <2>3. used' = [g \in Hosts |-> used[g] - back[g]]
    <3>1. \A g \in Hosts : used'[g] = used[g] - back[g]
      BY <2>0, <2>9, <2>2 DEF Nothing
    <3> QED  BY <2>9, <2>2, <3>1
  <2>4. lent' = [lent EXCEPT ![i] = [g \in Hosts |-> lent[i][g] - back[g]]]
    <3>0. \A g \in Hosts : [lent[i] EXCEPT ![h] = @ - gb][g] = lent[i][g] - back[g]
      BY <2>0, <2>9 DEF Nothing
    <3>1. [lent[i] EXCEPT ![h] = @ - gb] = [g \in Hosts |-> lent[i][g] - back[g]]
      BY <2>9, <3>0
    <3>2. lent' = [lent EXCEPT ![i] = [lent[i] EXCEPT ![h] = @ - gb]]
      BY <1>1, <1>10 DEF FreeBlock, TypeOK
    <3> QED  BY <3>1, <3>2
  <2> HIDE DEF back
  <2> QED  BY <1>1, <2>1, <2>2, <2>3, <2>4, PoolReturn
<1>11. CASE UNCHANGED vars
  BY <1>11, UnusedStutters DEF vars, hostVars
<1> QED
  BY <1>2, <1>3, <1>4, <1>5, <1>6, <1>7, <1>8, <1>9, <1>10, <1>11
  DEF Next, Allocation, Pool!Next

----------------------------------------------------------------------------
(* The tallies: the totals move by what the hosts of an #update move *)

\* A host the heap does not know has no RAM, and nothing is taken from it.
UnknownBare ==
  \A h \in Hosts \ known :
    /\ maxRam[h] = 0 /\ used[h] = 0 /\ reserved[h] = 0 /\ tentative[h] = 0
    /\ \A i \in Ids : lent[i][h] = 0

\* A plan uses known hosts only.
LEMMA PlanKnown ==
  ASSUME NEW rq, NEW t, Placing(rq, t), NEW p \in Plans(rq, t)
  PROVE  \A h \in Hosts \ known : p[h] = 0
<1>1. CASE \E h \in known : p = On(h, rq)
  BY <1>1 DEF On, Nothing
<1>2. CASE p \in SpreadPlans(rq, t)
  <2> DEFINE V == Visited(rq, t)
             plan(full, last) ==
               [h \in Hosts |-> IF h \in full THEN Fit(h, rq, t) * rq.size
                                ELSE IF h = last THEN BlockGb(h, rq, Remaining(full, rq, t))
                                ELSE 0]
  <2>1. PICK last \in V : \E full \in SUBSET (V \ {last}) : p = plan(full, last)
    BY <1>2 DEF SpreadPlans
  <2>2. PICK full \in SUBSET (V \ {last}) : p = plan(full, last)
    BY <2>1
  <2>3. V \subseteq known  BY DEF Visited
  <2> QED  BY <2>2, <2>3
<1>3. p \in ContiguousPlans(rq, t) => \E h \in known : p = On(h, rq)
  BY DEF ContiguousPlans, Best
<1> QED  BY <1>1, <1>2, <1>3 DEF Plans

\* The sum of a column over the known hosts moves by its change where it moved.
LEMMA TallyMoved ==
  ASSUME NEW K \in SUBSET Hosts, NEW L \in SUBSET Hosts, NEW S \in SUBSET Hosts,
         NEW now, NEW was, \A h \in Hosts : now[h] \in Int /\ was[h] \in Int,
         \A h \in Hosts \ S : now[h] = was[h],
         \A h \in Hosts \ K : was[h] = 0, \A h \in Hosts \ L : now[h] = 0
  PROVE  SumOver(now, L) = SumOver(was, K) + Change(now, was, S)
<1>1. IsFiniteSet(Hosts)  BY HeapAssumption
<1>2. SumOver(now, Hosts) = SumOver(now, L) /\ SumOver(was, Hosts) = SumOver(was, K)
  BY <1>1, SumZeroes
<1> DEFINE d == [h \in S |-> now[h] - was[h]]
<1>3. \A h \in S : d[h] = now[h] - was[h]  OBVIOUS
<1> HIDE DEF d
<1>4. SumOver(now, Hosts) = SumOver(was, Hosts) + SumOver(d, S)
  BY <1>1, <1>3, SumChange
<1> QED  BY <1>2, <1>4 DEF Change, d

\* Every call of #update carries the totals along.
LEMMA UpdateTallies ==
  ASSUME TypeOK, TypeOK', UnknownBare, UnknownBare', TalliesExact,
         NEW S \in SUBSET Hosts, NEW newUsed, Update(S, newUsed),
         \A h \in Hosts \ S : /\ used'[h] = used[h] /\ maxRam'[h] = maxRam[h]
                              /\ reserved'[h] = reserved[h]
  PROVE  TalliesExact'
<1>1. /\ totals'.maxRam = totals.maxRam + Change(maxRam', maxRam, S)
      /\ totals'.used = totals.used + Change(used', used, S)
      /\ totals'.reserved = totals.reserved + Change(reserved', reserved, S)
  BY DEF Update
<1>2. \A h \in Hosts : /\ maxRam[h] \in Int /\ maxRam'[h] \in Int
                       /\ used[h] \in Int /\ used'[h] \in Int
                       /\ reserved[h] \in Int /\ reserved'[h] \in Int
  BY DEF TypeOK
<1>3. known \in SUBSET Hosts /\ known' \in SUBSET Hosts  BY DEF TypeOK
<1>4. SumOver(maxRam', known') = SumOver(maxRam, known) + Change(maxRam', maxRam, S)
  BY <1>2, <1>3, TallyMoved DEF UnknownBare
<1>5. SumOver(used', known') = SumOver(used, known) + Change(used', used, S)
  BY <1>2, <1>3, TallyMoved DEF UnknownBare
<1>6. SumOver(reserved', known') = SumOver(reserved, known) + Change(reserved', reserved, S)
  BY <1>2, <1>3, TallyMoved DEF UnknownBare
<1> QED  BY <1>1, <1>4, <1>5, <1>6 DEF TalliesExact

\* Steps that change no host.
LEMMA UntouchedTallies ==
  ASSUME TalliesExact, UNCHANGED <<hostVars, used, totals>>
  PROVE  TalliesExact'
BY DEF TalliesExact, hostVars

LEMMA InitTallied == Init => UnknownBare /\ TalliesExact
<1> SUFFICES ASSUME Init PROVE UnknownBare /\ TalliesExact  OBVIOUS
<1>1. UnknownBare  BY DEF Init, UnknownBare, Nothing
<1>2. \A f : SumOver(f, {}) = 0  BY SumEmpty
<1>3. TalliesExact  BY <1>2 DEF Init, TalliesExact
<1> QED  BY <1>1, <1>3

LEMMA NextTallied ==
  Inductive /\ Inductive' /\ UnknownBare /\ TalliesExact /\ [Next]_vars
    => UnknownBare' /\ TalliesExact'
<1> SUFFICES ASSUME Inductive, Inductive', UnknownBare, TalliesExact, [Next]_vars
             PROVE  UnknownBare' /\ TalliesExact'
  OBVIOUS
<1>1. TypeOK /\ TypeOK'  BY DEF Inductive
<1>2. ASSUME NEW h \in Hosts, NEW m \in Machines[h], NEW u \in Passed(h),
             Upsert(h, m, u)
      PROVE  UnknownBare' /\ TalliesExact'
  <2> DEFINE newUsed == [used EXCEPT ![h] = u]
  <2>1. known' = known \cup {h} /\ Update({h}, newUsed)  BY <1>2 DEF Upsert
  <2>2. used' = newUsed  BY <2>1 DEF Update
  <2>3. \A g \in Hosts \ {h} : /\ used'[g] = used[g] /\ maxRam'[g] = maxRam[g]
                               /\ reserved'[g] = reserved[g]
    BY <1>1, <1>2, <2>2 DEF Upsert, TypeOK
  <2>4. UNCHANGED <<lent, tentative>>  BY <1>2 DEF Upsert
  <2>5. UnknownBare'  BY <2>1, <2>3, <2>4 DEF UnknownBare
  <2> HIDE DEF newUsed
  <2> QED  BY <1>1, <2>1, <2>3, <2>5, UpdateTallies
<1>3. ASSUME NEW S \in SUBSET Hosts, NEW newUsed \in [Hosts -> Int], Update(S, newUsed),
             \A h \in Hosts \ S : newUsed[h] = used[h], UNCHANGED hostVars,
             \A h \in Hosts \ known : newUsed[h] = 0 /\ tentative'[h] = 0
                                      /\ \A i \in Ids : lent'[i][h] = 0
      PROVE  UnknownBare' /\ TalliesExact'
  <2>1. used' = newUsed  BY <1>3 DEF Update
  <2>2. UnknownBare'  BY <1>3, <2>1 DEF UnknownBare, hostVars
  <2>3. \A h \in Hosts \ S : /\ used'[h] = used[h] /\ maxRam'[h] = maxRam[h]
                             /\ reserved'[h] = reserved[h]
    BY <1>3, <2>1 DEF hostVars
  <2> QED  BY <1>1, <1>3, <2>2, <2>3, UpdateTallies
<1>4. ASSUME NEW h \in Hosts, NEW observed \in Sightings, Resync(h, observed)
      PROVE  UnknownBare' /\ TalliesExact'
  <2> DEFINE newUsed == [used EXCEPT ![h] = observed]
  <2>1. newUsed \in [Hosts -> Int]  BY <1>1, HeapAssumption DEF TypeOK
  <2>2. h \in known /\ Update({h}, newUsed) /\ UNCHANGED <<hostVars, lent, tentative>>
    BY <1>4 DEF Resync
  <2>3. \A g \in Hosts \ {h} : newUsed[g] = used[g]  BY <1>1 DEF TypeOK
  <2>4. \A g \in Hosts \ known : newUsed[g] = 0 /\ tentative'[g] = 0
                                 /\ \A i \in Ids : lent'[i][g] = 0
    BY <1>1, <2>2, <2>3 DEF UnknownBare, TypeOK
  <2> HIDE DEF newUsed
  <2> QED  BY <1>3, <2>1, <2>2, <2>3, <2>4
<1>5. ASSUME NEW i \in Ids, NEW h \in Hosts, NEW gb \in Leases, NEW draw \in BOOLEAN,
             ReserveOn(i, h, gb, draw)
      PROVE  UnknownBare' /\ TalliesExact'
  <2> DEFINE newUsed == [used EXCEPT ![h] = @ + gb]
  <2>0. gb \in Nat  BY HeapAssumption
  <2>1. newUsed \in [Hosts -> Int]  BY <1>1, <2>0 DEF TypeOK
  <2>2. /\ h \in known /\ Update({h}, newUsed) /\ UNCHANGED <<hostVars, tentative>>
        /\ lent' = [lent EXCEPT ![i] = [Nothing EXCEPT ![h] = gb]]
    BY <1>5 DEF ReserveOn
  <2>3. \A g \in Hosts \ {h} : newUsed[g] = used[g]  BY <1>1 DEF TypeOK
  <2>4. \A g \in Hosts \ known : newUsed[g] = 0 /\ tentative'[g] = 0
                                 /\ \A j \in Ids : lent'[j][g] = 0
    BY <1>1, <2>2, <2>3 DEF UnknownBare, TypeOK, Nothing
  <2> HIDE DEF newUsed
  <2> QED  BY <1>3, <2>1, <2>2, <2>3, <2>4
<1>6. ASSUME NEW requests \in Batches, AllocateAll(requests)
      PROVE  UnknownBare' /\ TalliesExact'
  BY <1>6, UntouchedTallies DEF AllocateAll, UnknownBare, hostVars
<1>7. ASSUME NEW p, PlaceOne(p)
      PROVE  UnknownBare' /\ TalliesExact'
  <2>1. ~Idle  BY <1>1, <1>7 DEF PlaceOne, Idle, TypeOK
  <2>2. Placing(Head(todo), tentative)  BY <1>1, <2>1, TodoTypes
  <2>3. \A h \in Hosts \ known : p[h] = 0  BY <1>7, <2>2, PlanKnown DEF PlaceOne
  <2>4. tentative' = [h \in Hosts |-> tentative[h] + p[h]]  BY <1>7 DEF PlaceOne
  <2>5. \A h \in Hosts \ known : tentative'[h] = 0  BY <2>3, <2>4 DEF UnknownBare
  <2>6. UNCHANGED <<hostVars, used, totals, lent>>  BY <1>7 DEF PlaceOne
  <2> QED  BY <2>5, <2>6, UntouchedTallies DEF UnknownBare, hostVars
<1>8. ASSUME NEW i \in Ids, NEW p, Commit(i, p)
      PROVE  UnknownBare' /\ TalliesExact'
  <2> DEFINE all == [h \in Hosts |-> tentative[h] + p[h]]
             newUsed == [h \in Hosts |-> used[h] + all[h]]
             S == {h \in Hosts : all[h] # 0}
  <2>1. ~Idle
    <3>1. Len(todo) = 1  BY <1>8 DEF Commit
    <3>2. Len(<<>>) = 0  OBVIOUS
    <3> QED  BY <3>1, <3>2 DEF Idle
  <2>2. Placing(Head(todo), tentative)  BY <1>1, <2>1, TodoTypes
  <2>3. \A h \in Hosts \ known : p[h] = 0  BY <1>8, <2>2, PlanKnown DEF Commit
  <2>4. \A h \in Hosts \ known : all[h] = 0  BY <2>3 DEF UnknownBare
  <2>5. all \in [Hosts -> Nat]  BY <1>8, CommitFits
  <2>6. newUsed \in [Hosts -> Int]
    <3>1. used \in [Hosts -> Int]  BY <1>1 DEF TypeOK
    <3> HIDE DEF all
    <3> QED  BY <2>5, <3>1
  <2>7. \A h \in Hosts \ S : newUsed[h] = used[h]  BY <1>1, <2>5 DEF TypeOK
  <2>8. /\ Update(S, newUsed) /\ UNCHANGED hostVars
        /\ lent' = [lent EXCEPT ![i] = all] /\ tentative' = Nothing
    BY <1>8 DEF Commit
  <2>9. \A h \in Hosts \ known : newUsed[h] = 0  BY <2>4 DEF UnknownBare
  <2> HIDE DEF all, newUsed
  <2>10. \A h \in Hosts \ known : tentative'[h] = 0 /\ \A j \in Ids : lent'[j][h] = 0
    BY <1>1, <2>4, <2>8 DEF UnknownBare, TypeOK, Nothing
  <2>11. S \in SUBSET Hosts  OBVIOUS
  <2> HIDE DEF S
  <2> QED  BY <1>3, <2>6, <2>7, <2>8, <2>9, <2>10, <2>11
<1>9. ASSUME PlaceFails
      PROVE  UnknownBare' /\ TalliesExact'
  BY <1>9, UntouchedTallies DEF PlaceFails, UnknownBare, hostVars, Nothing
<1>10. ASSUME NEW i \in Ids, Release(i)
       PROVE  UnknownBare' /\ TalliesExact'
  <2> DEFINE newUsed == [h \in Hosts |-> used[h] - lent[i][h]]
             S == {h \in Hosts : lent[i][h] # 0}
  <2>1. newUsed \in [Hosts -> Int] /\ \A h \in Hosts \ S : newUsed[h] = used[h]
    <3>1. used \in [Hosts -> Int] /\ lent[i] \in [Hosts -> Nat]  BY <1>1 DEF TypeOK
    <3> QED  BY <3>1
  <2>2. /\ Update(S, newUsed) /\ UNCHANGED <<hostVars, tentative>>
        /\ lent' = [lent EXCEPT ![i] = Nothing]
    BY <1>10 DEF Release
  <2>3. \A h \in Hosts \ known : newUsed[h] = 0  BY DEF UnknownBare
  <2> HIDE DEF newUsed
  <2>4. \A h \in Hosts \ known : tentative'[h] = 0 /\ \A j \in Ids : lent'[j][h] = 0
    BY <1>1, <2>2 DEF UnknownBare, TypeOK, Nothing
  <2>5. S \in SUBSET Hosts  OBVIOUS
  <2> HIDE DEF S
  <2> QED  BY <1>3, <2>1, <2>2, <2>3, <2>4, <2>5
<1>11. ASSUME NEW i \in Ids, NEW h \in Hosts, NEW gb \in Pieces, FreeBlock(i, h, gb)
       PROVE  UnknownBare' /\ TalliesExact'
  <2> DEFINE newUsed == [used EXCEPT ![h] = @ - gb]
  <2>0. gb \in Nat \ {0} /\ gb <= lent[i][h] /\ lent[i][h] \in Nat
    BY <1>1, <1>11, HeapAssumption DEF FreeBlock, TypeOK
  <2>1. h \in known  BY <2>0 DEF UnknownBare
  <2>2. newUsed \in [Hosts -> Int]
    <3>1. used \in [Hosts -> Int]  BY <1>1 DEF TypeOK
    <3> QED  BY <2>0, <3>1
  <2>3. /\ Update({h}, newUsed) /\ UNCHANGED <<hostVars, tentative>>
        /\ lent' = [lent EXCEPT ![i][h] = @ - gb]
    BY <1>11 DEF FreeBlock
  <2>4. \A g \in Hosts \ {h} : newUsed[g] = used[g]  BY <1>1 DEF TypeOK
  <2>5. \A g \in Hosts \ known : newUsed[g] = 0  BY <2>1, <2>4 DEF UnknownBare
  <2> HIDE DEF newUsed
  <2>6. \A g \in Hosts \ known : tentative'[g] = 0 /\ \A j \in Ids : lent'[j][g] = 0
    BY <1>1, <2>1, <2>3 DEF UnknownBare, TypeOK
  <2> QED  BY <1>3, <2>2, <2>3, <2>4, <2>5, <2>6
<1>12. CASE UNCHANGED vars
  BY <1>12, UntouchedTallies DEF vars, UnknownBare, hostVars
<1> QED
  BY <1>2, <1>4, <1>5, <1>6, <1>7, <1>8, <1>9, <1>10, <1>11, <1>12 DEF Next, Allocation

----------------------------------------------------------------------------
(* Placement is complete: what the fleet can hold finds a place *)

\* A power of two is the number of subsets of a set, so it grows.
LEMMA TwoToGrows ==
  ASSUME NEW m \in Nat, NEW n \in Nat, m <= n
  PROVE  2 ^ m \in Nat /\ 2 ^ n \in Nat /\ 2 ^ m <= 2 ^ n
<1>1. /\ IsFiniteSet(1 .. m) /\ Cardinality(1 .. m) = m
      /\ IsFiniteSet(1 .. n) /\ Cardinality(1 .. n) = n
  BY FS_Interval
<1>2. /\ IsFiniteSet(SUBSET (1 .. m)) /\ Cardinality(SUBSET (1 .. m)) = 2 ^ m
      /\ IsFiniteSet(SUBSET (1 .. n)) /\ Cardinality(SUBSET (1 .. n)) = 2 ^ n
  BY <1>1, FS_SUBSET
<1>3. SUBSET (1 .. m) \subseteq SUBSET (1 .. n)  OBVIOUS
<1> DEFINE A == SUBSET (1 .. m)
           B == SUBSET (1 .. n)
<1>4. IsFiniteSet(A) /\ IsFiniteSet(B) /\ A \subseteq B  BY <1>2, <1>3
<1>5. Cardinality(A) = 2 ^ m /\ Cardinality(B) = 2 ^ n  BY <1>2
<1> HIDE DEF A, B
<1>6. Cardinality(A) <= Cardinality(B)  BY <1>4, FS_Subset
<1>7. Cardinality(A) \in Nat /\ Cardinality(B) \in Nat  BY <1>4, FS_CardinalityType
<1> QED  BY <1>5, <1>6, <1>7

LEMMA SlabTopGrows ==
  ASSUME NEW i \in Nat, NEW j \in Nat, i <= j
  PROVE  SlabTop(i) \in Int /\ SlabTop(j) \in Int /\ SlabTop(i) <= SlabTop(j)
<1> DEFINE a == 2 ^ (i + 1)
           b == 2 ^ (j + 1)
<1>1. a \in Nat /\ b \in Nat /\ a <= b  BY TwoToGrows
<1>2. SlabTop(i) = (a - 1) * Gb /\ SlabTop(j) = (b - 1) * Gb  BY DEF SlabTop
<1>3. Gb \in Nat  BY HeapAssumption
<1> HIDE DEF a, b
<1>4. a - 1 \in Int /\ b - 1 \in Int /\ a - 1 <= b - 1  BY <1>1
<1>5. (a - 1) * Gb <= (b - 1) * Gb  BY <1>3, <1>4, TimesKeepsOrder
<1>6. (a - 1) * Gb \in Int /\ (b - 1) * Gb \in Int  BY <1>3, <1>4
<1> QED  BY <1>2, <1>5, <1>6

\* The top of a host's slab is not below a thread that fits what it has free,
\* if the last slab's is not.
LEMMA SlabHolds ==
  ASSUME NEW free \in Int, NEW size \in Int, size <= free,
         size <= (2 ^ Slabs - 1) * Gb
  PROVE  size <= SlabTop(SlabOf(free))
<1> DEFINE all == 0 .. Slabs - 2
           below == {i \in all : SlabTop(i) < free}
           k == SlabOf(free)
<1>1. Slabs \in Nat \ {0} /\ k \in 0 .. Slabs - 1  BY HeapAssumption, SlabInRange
<1>2. k = Cardinality(below)  BY DEF SlabOf
<1>3. SlabTop(k) \in Int
  <2>1. k \in Nat /\ k <= k  BY <1>1
  <2> HIDE DEF k
  <2> QED  BY <2>1, SlabTopGrows
<1>4. CASE k = Slabs - 1
  <2>1. k + 1 = Slabs  BY <1>1, <1>4
  <2>2. SlabTop(k) = (2 ^ Slabs - 1) * Gb  BY <2>1 DEF SlabTop
  <2> QED  BY <2>2
<1>5. CASE k \in all
  <2>1. SUFFICES ASSUME SlabTop(k) < size PROVE FALSE  BY <1>3
  <2>2. SlabTop(k) < free  BY <1>3, <2>1
  <2>3. \A i \in 0 .. k : i \in below
    <3>1. TAKE i \in 0 .. k
    <3>2. i \in Nat /\ k \in Nat /\ i <= k  BY <1>1
    <3>3. SlabTop(i) \in Int /\ SlabTop(i) <= SlabTop(k)
      <4> HIDE DEF k
      <4> QED  BY <3>2, SlabTopGrows
    <3>4. i \in all  BY <1>1, <1>5, <3>2
    <3> QED  BY <1>3, <2>2, <3>3, <3>4
  <2>4. IsFiniteSet(all)  BY <1>1, FS_Interval
  <2>5. IsFiniteSet(below)  BY <2>4, FS_Subset
  <2>6. 0 .. k \subseteq below  BY <2>3
  <2> HIDE DEF below
  <2>7. Cardinality(0 .. k) <= Cardinality(below)  BY <2>5, <2>6, FS_Subset
  <2>8. Cardinality(0 .. k) = k + 1
    <3> HIDE DEF k
    <3>1. k \in Nat  BY <1>1
    <3>2. 0 <= k  BY <3>1
    <3> QED  BY <3>1, <3>2, FS_Interval
  <2> HIDE DEF k
  <2> QED  BY <1>1, <1>2, <2>7, <2>8
<1> QED  BY <1>1, <1>4, <1>5

\* A thread is at most what the largest machine of the last slab has.
ThreadFits(rq) == rq.size <= (2 ^ Slabs - 1) * Gb

\* Every host that can take a thread is visited: the slabs skipped have none.
LEMMA VisitedIfFits ==
  ASSUME NEW rq, NEW t, Placing(rq, t), SlabsFitFree, ThreadFits(rq),
         NEW h \in known, Fit(h, rq, t) >= 1
  PROVE  h \in Visited(rq, t)
<1>1. h \in Hosts  BY DEF Placing, TypeOK
<1>2. /\ Fit(h, rq, t) \in Nat /\ Fit(h, rq, t) * rq.size \in Nat
      /\ Fit(h, rq, t) * rq.size <= FreeBeside(h, t)
  BY <1>1, FitFits
<1>3. rq.size \in Nat \ {0} /\ Free(h) \in Int /\ FreeBeside(h, t) \in Int
  BY <1>1, PlacingTypes
<1>4. 1 * rq.size <= Fit(h, rq, t) * rq.size
  <2> DEFINE f == Fit(h, rq, t)
             s == rq.size
  <2>1. f \in Nat /\ s \in Nat /\ 1 <= f  BY <1>2, <1>3
  <2> HIDE DEF f, s
  <2>2. 1 * s <= f * s  BY <2>1, TimesKeepsOrder
  <2> QED  BY <2>2 DEF f, s
<1>5. FreeBeside(h, t) <= Free(h)
  BY <1>1, <1>3 DEF FreeBeside, Placing
<1>6. rq.size <= Free(h)  BY <1>2, <1>3, <1>4, <1>5
<1>7. CASE h # Home
  <2>1. slab[h] = SlabOf(Larger(0, Free(h)))  BY <1>7 DEF SlabsFitFree
  <2>2. Larger(0, Free(h)) \in Int /\ rq.size <= Larger(0, Free(h))
    BY <1>3, <1>6 DEF Larger
  <2>3. rq.size <= SlabTop(slab[h])
    BY <1>3, <2>1, <2>2, SlabHolds DEF ThreadFits
  <2>4. slab[h] \in Nat  BY <1>1 DEF Placing, TypeOK
  <2>5. SlabTop(slab[h]) \in Int  BY <2>4, SlabTopGrows
  <2> QED  BY <1>3, <2>3, <2>5 DEF Visited
<1>8. CASE h = Home  BY <1>8 DEF Visited
<1> QED  BY <1>7, <1>8

\* Some host is the best of those that can take the call.
LEMMA BestExists ==
  ASSUME NEW rq, NEW t, Placing(rq, t), NEW S \in SUBSET Hosts,
         NEW host \in S, Alone(host, rq, t)
  PROVE  Best(S, rq, t) # {}
<1> DEFINE F == {h \in S : Alone(h, rq, t)}
           gb == [h \in Hosts |-> BlockGb(h, rq, Want(rq))]
           core == [h \in Hosts |-> IF rq.coreAware THEN 0 ELSE cores[h]]
           room == [h \in Hosts |-> FreeBeside(h, t)]
<1>1. \A h \in Hosts : gb[h] \in Int /\ core[h] \in Int /\ room[h] \in Int
  <2> TAKE h \in Hosts
  <2>1. BlockGb(h, rq, Want(rq)) \in Nat /\ FreeBeside(h, t) \in Int
    BY BlockIsNat, PlacingTypes
  <2>2. cores[h] \in Int  BY DEF Placing, TypeOK
  <2> QED  BY <2>1, <2>2
<1>2. F \subseteq Hosts /\ F # {}  OBVIOUS
<1>3. \A T \in SUBSET Hosts : IsFiniteSet(T)  BY HeapAssumption, FS_Subset
<1>4. \A h \in F : (\A g \in F : ~Better(g, h, rq, t)) => h \in Best(S, rq, t)
  BY DEF Best
<1>5. \A g, h \in Hosts : Better(g, h, rq, t) =>
        \/ gb[g] < gb[h]
        \/ gb[g] = gb[h] /\ core[g] < core[h]
        \/ gb[g] = gb[h] /\ core[g] = core[h] /\ room[g] < room[h]
  BY DEF Better
<1> HIDE DEF F, gb, core, room
<1>6. PICK a \in F : \A y \in F : gb[a] <= gb[y]
  BY <1>1, <1>2, <1>3, LeastValue
<1> DEFINE F1 == {h \in F : gb[h] = gb[a]}
<1>7. PICK b \in F1 : \A y \in F1 : core[b] <= core[y]
  <2>1. F1 \subseteq Hosts /\ a \in F1  BY <1>2, <1>6
  <2>2. IsFiniteSet(F1) /\ F1 # {} /\ \A x \in F1 : core[x] \in Int  BY <1>1, <1>3, <2>1
  <2> HIDE DEF F1
  <2> QED  BY <2>2, LeastValue
<1> DEFINE F2 == {h \in F1 : core[h] = core[b]}
<1>8. PICK c \in F2 : \A y \in F2 : room[c] <= room[y]
  <2>1. F2 \subseteq Hosts /\ b \in F2  BY <1>2, <1>7
  <2>2. IsFiniteSet(F2) /\ F2 # {} /\ \A x \in F2 : room[x] \in Int  BY <1>1, <1>3, <2>1
  <2> HIDE DEF F2
  <2> QED  BY <2>2, LeastValue
<1>9. c \in F /\ gb[c] = gb[a] /\ core[c] = core[b]  BY <1>8
<1>10. ASSUME NEW g \in F, Better(g, c, rq, t) PROVE FALSE
  <2>1. g \in Hosts /\ c \in Hosts /\ a \in Hosts /\ b \in Hosts
    BY <1>2, <1>6, <1>7, <1>9
  <2>2. CASE gb[g] < gb[c]  BY <1>1, <1>6, <1>9, <2>1, <2>2
  <2>3. CASE gb[g] = gb[c] /\ core[g] < core[c]
    <3>1. g \in F1  BY <1>9, <2>3
    <3>2. core[b] <= core[g]  BY <1>7, <3>1
    <3> QED  BY <1>1, <1>9, <2>1, <2>3, <3>2
  <2>4. CASE gb[g] = gb[c] /\ core[g] = core[c] /\ room[g] < room[c]
    <3>1. g \in F2  BY <1>9, <2>4
    <3>2. room[c] <= room[g]  BY <1>8, <3>1
    <3> QED  BY <1>1, <2>1, <2>4, <3>2
  <2> QED  BY <1>5, <1>10, <2>1, <2>2, <2>3, <2>4
<1> QED  BY <1>4, <1>9, <1>10

\* Of any hosts one is visited last: no other comes after it.
LEMMA LastExists ==
  ASSUME NEW rq, NEW t, Placing(rq, t), NEW T \in SUBSET Hosts, T # {}
  PROVE  \E last \in T : \A g \in T : ~Before(last, g, rq)
<1>1. CASE Home \in T  BY <1>1 DEF Before
<1>2. CASE Home \notin T
  <2> DEFINE core == [h \in Hosts |-> IF rq.coreAware THEN cores[h] ELSE 0]
             back == [h \in Hosts |-> 0 - slab[h]]
  <2>1. \A h \in Hosts : /\ cores[h] \in Int /\ slab[h] \in Int
                         /\ core[h] \in Int /\ back[h] \in Int
    <3>1. cores \in [Hosts -> Nat \ {0}] /\ slab \in [Hosts -> 0 .. Slabs - 1]
          /\ Slabs \in Nat
      BY HeapAssumption DEF Placing, TypeOK
    <3>2. \A h \in Hosts : cores[h] \in Int /\ slab[h] \in Int  BY <3>1
    <3> QED  BY <3>2
  <2>2. \A A \in SUBSET Hosts : IsFiniteSet(A)  BY HeapAssumption, FS_Subset
  <2>3. \A g, h \in Hosts : Before(g, h, rq) /\ h # Home =>
          core[g] > core[h] \/ (core[g] = core[h] /\ back[g] > back[h])
    BY <2>1 DEF Before
  <2> HIDE DEF core, back
  <2>4. PICK a \in T : \A y \in T : core[a] <= core[y]
    BY <2>1, <2>2, LeastValue
  <2> DEFINE T1 == {h \in T : core[h] = core[a]}
  <2>5. PICK b \in T1 : \A y \in T1 : back[b] <= back[y]
    <3>1. T1 \subseteq Hosts /\ a \in T1  BY <2>4
    <3>2. IsFiniteSet(T1) /\ T1 # {} /\ \A x \in T1 : back[x] \in Int  BY <2>1, <2>2, <3>1
    <3> HIDE DEF T1
    <3> QED  BY <3>2, LeastValue
  <2>6. b \in T /\ core[b] = core[a]  BY <2>5
  <2>7. ASSUME NEW g \in T, Before(b, g, rq) PROVE FALSE
    <3>1. g \in Hosts /\ b \in Hosts /\ g # Home  BY <1>2, <2>6
    <3>2. core[b] <= core[g]  BY <2>4, <2>6
    <3>3. core[b] = core[g] /\ back[b] > back[g]
      BY <2>1, <2>3, <2>7, <3>1, <3>2
    <3>4. g \in T1  BY <2>6, <3>3
    <3>5. back[b] <= back[g]  BY <2>5, <3>4
    <3> QED  BY <2>1, <3>1, <3>3, <3>5
  <2> QED  BY <2>6, <2>7
<1> QED  BY <1>1, <1>2

\* What an unfilled host adds is at least one thread's effect.
LEMMA EffectTypes ==
  ASSUME NEW rq, NEW t, Placing(rq, t), NEW h \in Hosts
  PROVE  /\ EffectOn(h, rq, t) \in Int
         /\ Fit(h, rq, t) >= 1 => EffectOn(h, rq, t) \in Nat
         /\ ~(Fit(h, rq, t) >= 1) => EffectOn(h, rq, t) <= 0
<1> DEFINE f == Fit(h, rq, t)
           x == Effect(h, rq)
           room == FreeBeside(h, t)
           s == rq.size
<1>1. x \in Nat \ {0} /\ room \in Int /\ s \in Nat \ {0}  BY PlacingTypes
<1>2. f = room \div s  BY DEF Fit
<1>3. EffectOn(h, rq, t) = f * x  BY DEF EffectOn
<1> HIDE DEF x, room, s
<1>4. f \in Int  BY <1>1, <1>2, DivBounds
<1> HIDE DEF f
<1>5. f * x \in Int  BY <1>1, <1>4
<1>6. f >= 1 => f * x \in Nat  BY <1>1, <1>4
<1>7. ~(f >= 1) => f * x <= 0
  <2>1. SUFFICES ASSUME ~(f >= 1) PROVE f * x <= 0  OBVIOUS
  <2>2. f <= 0 /\ x \in Nat  BY <1>1, <1>4, <2>1
  <2>3. f * x <= 0 * x  BY <1>4, <2>2, TimesKeepsOrder
  <2> QED  BY <1>1, <2>3
<1> QED  BY <1>3, <1>5, <1>6, <1>7 DEF f

\* Filling the visited hosts in their order places a request that they can
\* hold together: of the beginnings of the order that can hold it, the
\* smallest ends on the host where what remains fits.
LEMMA SpreadCompletes ==
  ASSUME NEW rq, NEW t, Placing(rq, t),
         Want(rq) <= SumOver([h \in Hosts |-> EffectOn(h, rq, t)], Visited(rq, t))
  PROVE  SpreadPlans(rq, t) # {}
<1> DEFINE V == Visited(rq, t)
           e == [h \in Hosts |-> EffectOn(h, rq, t)]
           begins(T) == \A g \in V \ T : \A h \in T : ~Before(g, h, rq)
           F == {T \in SUBSET V : begins(T) /\ Want(rq) <= SumOver(e, T)}
           size == [T \in SUBSET V |-> Cardinality(T)]
<1>1. V \subseteq Hosts /\ IsFiniteSet(V)
  <2>1. V \subseteq Hosts  BY DEF Visited, Placing, TypeOK
  <2> HIDE DEF V
  <2> QED  BY <2>1, HeapAssumption, FS_Subset
<1>2. \A h \in V : e[h] = EffectOn(h, rq, t) /\ e[h] \in Nat
  BY <1>1, EffectTypes DEF Visited
<1>3. \A T \in SUBSET V : IsFiniteSet(T) /\ SumOver(e, T) \in Nat /\ Cardinality(T) \in Nat
  <2> HIDE DEF V, e
  <2> QED  BY <1>1, <1>2, FS_Subset, FS_CardinalityType, SumNat
<1>4. Want(rq) \in Nat \ {0}
  <2>1. Home \in Hosts  BY HeapAssumption
  <2> QED  BY <2>1, PlacingTypes
<1>5. V \in F  OBVIOUS
<1>6. PICK T \in F : \A U \in F : Cardinality(T) <= Cardinality(U)
  <2>1. IsFiniteSet(SUBSET V)  BY <1>1, FS_SUBSET
  <2>2. IsFiniteSet(F)  BY <2>1, FS_Subset
  <2>3. \A U \in F : size[U] = Cardinality(U) /\ size[U] \in Int  BY <1>3
  <2> HIDE DEF F, size, V
  <2>4. PICK T \in F : \A U \in F : size[T] <= size[U]
    BY <1>5, <2>2, <2>3, LeastValue
  <2> QED  BY <2>3, <2>4
<1>7. T \subseteq V /\ begins(T) /\ Want(rq) <= SumOver(e, T)  OBVIOUS
<1>8. T # {}  BY <1>4, <1>7, SumEmpty
<1>9. PICK last \in T : \A g \in T : ~Before(last, g, rq)
  <2>1. T \subseteq Hosts  BY <1>1, <1>7
  <2> HIDE DEF F, V, begins, e
  <2> QED  BY <1>8, <2>1, LastExists
<1> DEFINE full == T \ {last}
<1>10. full \in SUBSET (V \ {last}) /\ last \in V /\ T = full \cup {last}
  BY <1>7, <1>9
<1>11. begins(full)
  <2>1. SUFFICES ASSUME NEW g \in V \ full, NEW h \in full PROVE ~Before(g, h, rq)
    OBVIOUS
  <2>2. CASE g = last  BY <1>9, <2>2
  <2>3. CASE g # last  BY <1>7, <2>3
  <2> QED  BY <2>2, <2>3
<1>12. Cardinality(full) < Cardinality(T)
  <2>1. IsFiniteSet(T)  BY <1>3, <1>7
  <2>2. Cardinality(full) = Cardinality(T) - 1
    BY <1>9, <2>1, FS_RemoveElement
  <2>3. Cardinality(T) \in Nat  BY <1>3, <1>7
  <2> QED  BY <2>2, <2>3
<1>13. ~(Want(rq) <= SumOver(e, full))
  <2>1. SUFFICES ASSUME Want(rq) <= SumOver(e, full) PROVE FALSE  OBVIOUS
  <2>2. full \in F  BY <1>10, <1>11, <2>1
  <2>3. Cardinality(T) <= Cardinality(full)  BY <1>6, <2>2
  <2>4. Cardinality(T) \in Nat /\ Cardinality(full) \in Nat  BY <1>3, <1>7, <1>10
  <2> QED  BY <1>12, <2>3, <2>4
<1>14. SumOver(e, T) = e[last] + SumOver(e, full)
  <2>1. IsFiniteSet(T) /\ \A h \in T : e[h] \in Int  BY <1>2, <1>3, <1>7
  <2> HIDE DEF F, V, begins, e
  <2> QED  BY <1>9, <2>1, SumRemove
<1>15. Remaining(full, rq, t) = Want(rq) - SumOver(e, full)
  <2> DEFINE d == [h \in full |-> EffectOn(h, rq, t)]
  <2>1. IsFiniteSet(full)  BY <1>3, <1>10
  <2>2. \A h \in full : d[h] \in Int /\ d[h] = e[h]  BY <1>2, <1>10
  <2> HIDE DEF F, V, begins, e, d, full
  <2>3. SumOver(d, full) = SumOver(e, full)  BY <2>1, <2>2, SumSame
  <2> QED  BY <2>3 DEF Remaining, d
<1>16. EndsOn(last, full, rq, t)
  <2>1. SumOver(e, full) \in Nat  BY <1>3, <1>10
  <2>2. e[last] \in Nat /\ e[last] = EffectOn(last, rq, t)  BY <1>2, <1>10
  <2> HIDE DEF F, V, begins, e, full
  <2> QED  BY <1>4, <1>7, <1>13, <1>14, <1>15, <2>1, <2>2 DEF EndsOn
<1>17. /\ \A g \in full : ~Before(last, g, rq)
       /\ \A g \in V \ (full \cup {last}) : ~Before(g, last, rq)
  BY <1>7, <1>9
<1> HIDE DEF F, V, begins, e, full
<1> DEFINE inOrder(f, l) == /\ \A g \in f : ~Before(l, g, rq)
                            /\ \A g \in V \ (f \cup {l}) : ~Before(g, l, rq)
           plan(f, l) ==
             [h \in Hosts |-> IF h \in f THEN Fit(h, rq, t) * rq.size
                              ELSE IF h = l THEN BlockGb(h, rq, Remaining(f, rq, t))
                              ELSE 0]
           fills(l) == {f \in SUBSET (V \ {l}) : inOrder(f, l) /\ EndsOn(l, f, rq, t)}
<1>18. SpreadPlans(rq, t) = UNION {{plan(f, l) : f \in fills(l)} : l \in V}
  BY DEF SpreadPlans, V
<1>19. full \in fills(last)  BY <1>10, <1>16, <1>17
<1> HIDE DEF plan, fills
<1>20. plan(full, last) \in {plan(f, last) : f \in fills(last)}  BY <1>19
<1> QED  BY <1>10, <1>18, <1>20

\* A request is refused only when the hosts together cannot hold it.
LEMMA RefusedOnlyWhenFull ==
  ASSUME NEW rq, Placing(rq, Nothing), SlabsFitFree, ThreadFits(rq),
         Plans(rq, Nothing) = {}
  PROVE  IF rq.policy = "contiguous"
           THEN \A h \in known : ~Alone(h, rq, Nothing)
           ELSE SumOver([h \in known |-> Larger(0, EffectOn(h, rq, Nothing))], known)
                  < Want(rq)
<1>1. CASE rq.policy = "contiguous"
  <2>1. SUFFICES ASSUME NEW h \in known, Alone(h, rq, Nothing) PROVE FALSE
    BY <1>1
  <2>2. known \subseteq Hosts  BY DEF Placing, TypeOK
  <2> DEFINE away == Best(known \ {Home}, rq, Nothing)
             here == Best(known \cap {Home}, rq, Nothing)
  <2>3. away # {} \/ here # {}
    <3>1. CASE h = Home
      <4>1. h \in known \cap {Home} /\ known \cap {Home} \in SUBSET Hosts  BY <2>2, <3>1
      <4> QED  BY <2>1, <4>1, BestExists
    <3>2. CASE h # Home
      <4>1. h \in known \ {Home} /\ known \ {Home} \in SUBSET Hosts  BY <2>2, <3>2
      <4> QED  BY <2>1, <4>1, BestExists
    <3> QED  BY <3>1, <3>2
  <2> QED  BY <1>1, <2>3 DEF Plans, ContiguousPlans
<1>2. CASE rq.policy # "contiguous"
  <2> DEFINE V == Visited(rq, Nothing)
             e == [h \in Hosts |-> EffectOn(h, rq, Nothing)]
             d == [h \in known |-> Larger(0, EffectOn(h, rq, Nothing))]
  <2>1. SpreadPlans(rq, Nothing) = {}  BY <1>2 DEF Plans
  <2>2. ~(Want(rq) <= SumOver(e, V))  BY <2>1, SpreadCompletes
  <2>3. known \subseteq Hosts /\ V \subseteq known  BY DEF Placing, TypeOK, Visited
  <2>4. IsFiniteSet(known) /\ IsFiniteSet(V)
    <3> HIDE DEF V
    <3> QED  BY <2>3, HeapAssumption, FS_Subset
  <2>5. \A h \in V : e[h] \in Nat /\ d[h] = e[h]
    <3> TAKE h \in V
    <3>1. h \in Hosts /\ h \in known /\ Fit(h, rq, Nothing) >= 1  BY <2>3 DEF Visited
    <3>2. EffectOn(h, rq, Nothing) \in Nat  BY <3>1, EffectTypes
    <3> QED  BY <3>1, <3>2 DEF Larger
  <2>6. \A h \in known \ V : d[h] = 0
    <3> TAKE h \in known \ V
    <3>1. h \in Hosts /\ ~(Fit(h, rq, Nothing) >= 1)  BY <2>3, VisitedIfFits
    <3>2. EffectOn(h, rq, Nothing) \in Int /\ EffectOn(h, rq, Nothing) <= 0
      BY <3>1, EffectTypes
    <3> QED  BY <3>2 DEF Larger
  <2> HIDE DEF V, e, d
  <2>7. \A h \in known : d[h] \in Int  BY <2>5, <2>6
  <2>8. SumOver(d, known) = SumOver(d, V)  BY <2>3, <2>4, <2>6, <2>7, SumZeroes
  <2>9. SumOver(e, V) = SumOver(d, V) /\ SumOver(e, V) \in Nat
    BY <2>4, <2>5, SumSame, SumNat
  <2>10. Want(rq) \in Nat
    <3>1. Home \in Hosts  BY HeapAssumption
    <3> QED  BY <3>1, PlacingTypes
  <2>11. SumOver(d, known) < Want(rq)
    BY <2>2, <2>8, <2>9, <2>10 DEF V
  <2> QED  BY <1>2, <2>11 DEF d
<1> QED  BY <1>1, <1>2

\* A spread that touches home has filled every other host.
LEMMA SpreadHomeLast ==
  ASSUME NEW rq, Placing(rq, Nothing), SlabsFitFree, ThreadFits(rq),
         NEW p \in SpreadPlans(rq, Nothing), p[Home] > 0, NEW h \in known \ {Home}
  PROVE  Free(h) - p[h] < rq.size
<1> DEFINE V == Visited(rq, Nothing)
           plan(full, last) ==
             [x \in Hosts |-> IF x \in full THEN Fit(x, rq, Nothing) * rq.size
                              ELSE IF x = last
                                THEN BlockGb(x, rq, Remaining(full, rq, Nothing))
                              ELSE 0]
           inOrder(full, last) ==
             /\ \A g \in full : ~Before(last, g, rq)
             /\ \A g \in V \ (full \cup {last}) : ~Before(g, last, rq)
<1>1. PICK last \in V : \E full \in SUBSET (V \ {last}) :
        inOrder(full, last) /\ p = plan(full, last)
  BY DEF SpreadPlans
<1>2. PICK full \in SUBSET (V \ {last}) : inOrder(full, last) /\ p = plan(full, last)
  BY <1>1
<1>3. h \in Hosts /\ Home \in Hosts /\ V \subseteq Hosts
  BY HeapAssumption DEF Placing, TypeOK, Visited
<1>4. last = Home
  <2>1. Home \in full \/ Home = last  BY <1>2, <1>3
  <2>2. Home \in full => ~Before(last, Home, rq) /\ last # Home  BY <1>2
  <2> QED  BY <2>1, <2>2 DEF Before
<1>5. V \ {Home} \subseteq full  BY <1>2, <1>4 DEF Before
<1>6. Free(h) \in Int /\ FreeBeside(h, Nothing) = Free(h) /\ rq.size \in Nat \ {0}
  BY <1>3, PlacingTypes DEF FreeBeside, Nothing
<1>7. /\ Fit(h, rq, Nothing) \in Int
      /\ Free(h) < rq.size * Fit(h, rq, Nothing) + rq.size
  BY <1>6, DivBounds DEF Fit
<1>8. CASE h \in V
  <2>1. p[h] = Fit(h, rq, Nothing) * rq.size  BY <1>2, <1>3, <1>5, <1>8
  <2> DEFINE f == Fit(h, rq, Nothing)
             s == rq.size
  <2>2. f * s = s * f /\ s * f \in Int
    <3>1. f \in Int /\ s \in Int  BY <1>6, <1>7
    <3> HIDE DEF f, s
    <3> QED  BY <3>1
  <2> QED  BY <1>6, <1>7, <2>1, <2>2
<1>9. CASE h \notin V
  <2>1. p[h] = 0  BY <1>2, <1>3, <1>4, <1>9
  <2>2. ~(Fit(h, rq, Nothing) >= 1)  BY <1>9, VisitedIfFits
  <2> DEFINE f == Fit(h, rq, Nothing)
             s == rq.size
  <2>3. s * f <= 0 /\ s * f \in Int
    <3>1. f \in Int /\ s \in Nat /\ f <= 0  BY <1>6, <1>7, <2>2
    <3> HIDE DEF f, s
    <3>2. f * s <= 0 * s  BY <3>1, TimesKeepsOrder
    <3> QED  BY <3>1, <3>2
  <2> QED  BY <1>6, <1>7, <2>1, <2>3
<1> QED  BY <1>8, <1>9

\* One call that goes to home fits nowhere else.
LEMMA ContiguousHomeLast ==
  ASSUME NEW rq, Placing(rq, Nothing), NEW p \in ContiguousPlans(rq, Nothing),
         p[Home] > 0, NEW h \in known \ {Home}
  PROVE  ~Alone(h, rq, Nothing)
<1>1. Home \in Hosts /\ known \subseteq Hosts  BY HeapAssumption DEF Placing, TypeOK
<1>2. PICK x : p = On(x, rq) /\ x \in IF Best(known \ {Home}, rq, Nothing) # {}
                                        THEN Best(known \ {Home}, rq, Nothing)
                                        ELSE Best(known \cap {Home}, rq, Nothing)
  BY DEF ContiguousPlans
<1>3. x = Home  BY <1>1, <1>2 DEF On, Nothing
<1>4. Best(known \ {Home}, rq, Nothing) = {}  BY <1>2, <1>3 DEF Best
<1>5. known \ {Home} \in SUBSET Hosts  BY <1>1
<1> QED  BY <1>4, <1>5, BestExists

LEMMA InductivePlaces == Inductive => PlacementSound
<1> SUFFICES ASSUME Inductive, NEW batch \in Batches
             PROVE  LET rq == Head(batch) IN
               /\ Plans(rq, Nothing) = {} =>
                    IF rq.policy = "contiguous"
                      THEN \A h \in known : ~Alone(h, rq, Nothing)
                      ELSE SumOver([h \in known |-> Larger(0, EffectOn(h, rq, Nothing))],
                                   known) < Want(rq)
               /\ rq.policy # "homeFirst" =>
                    \A p \in Plans(rq, Nothing) : p[Home] > 0 =>
                      \A h \in known \ {Home} :
                        IF rq.policy = "spread" THEN Free(h) - p[h] < rq.size
                        ELSE ~Alone(h, rq, Nothing)
  BY DEF PlacementSound, NothingFittingIsRefused, HomeIsLast
<1> DEFINE rq == Head(batch)
<1>1. /\ batch \in Seq(RequestType) /\ batch # <<>>
      /\ \A i \in DOMAIN batch : batch[i].size <= (2 ^ Slabs - 1) * Gb
  BY HeapAssumption
<1>2. rq \in RequestType  BY <1>1, HeadTailProperties
<1>3. ThreadFits(rq)
  <2>1. 1 \in DOMAIN batch /\ rq = batch[1]  BY <1>1
  <2> QED  BY <1>1, <2>1 DEF ThreadFits
<1>4. Placing(rq, Nothing) /\ SlabsFitFree
  BY <1>2 DEF Placing, Inductive, Nothing
<1>5. rq.policy \in Policies  BY <1>2 DEF RequestType
<1> HIDE DEF rq
<1>6. ASSUME rq.policy # "homeFirst", NEW p \in Plans(rq, Nothing), p[Home] > 0,
             NEW h \in known \ {Home}
      PROVE  IF rq.policy = "spread" THEN Free(h) - p[h] < rq.size
             ELSE ~Alone(h, rq, Nothing)
  <2>1. CASE rq.policy = "spread"
    <3>1. p \in SpreadPlans(rq, Nothing)  BY <1>6, <2>1 DEF Plans
    <3> QED  BY <1>3, <1>4, <1>6, <2>1, <3>1, SpreadHomeLast
  <2>2. CASE rq.policy = "contiguous"
    <3>1. p \in ContiguousPlans(rq, Nothing)  BY <1>6, <2>2 DEF Plans
    <3> QED  BY <1>4, <1>6, <2>2, <3>1, ContiguousHomeLast
  <2> QED  BY <1>5, <1>6, <2>1, <2>2 DEF Policies
<1>7. Plans(rq, Nothing) = {} =>
        IF rq.policy = "contiguous"
          THEN \A h \in known : ~Alone(h, rq, Nothing)
          ELSE SumOver([h \in known |-> Larger(0, EffectOn(h, rq, Nothing))], known)
                 < Want(rq)
  BY <1>3, <1>4, RefusedOnlyWhenFull
<1> QED  BY <1>6, <1>7 DEF rq

----------------------------------------------------------------------------
(* The theorems *)

\* The inductive invariant holds of every behavior of the heap.
THEOREM Invariance == Spec => []Inductive
<1>1. Init => Inductive  BY InitInductive
<1>2. Inductive /\ [Next]_vars => Inductive'  BY NextInductive
<1> QED  BY <1>1, <1>2, PTL DEF Spec

\* Whatever upsert, resync, reserveOn, allocateAll, free and release do, the
\* variables of the heap keep their shape; no reservation holds less than nothing.
THEOREM TypeCorrect == Spec => []TypeOK
<1>1. Inductive => TypeOK  BY DEF Inductive
<1> QED  BY <1>1, Invariance, PTL

\* After every #update each host sits in the slab of what it has free, so the
\* spread policy finds it where it looks.
THEOREM SlabsCorrect == Spec => []SlabsFitFree
<1>1. Inductive => SlabsFitFree  BY DEF Inductive
<1> QED  BY <1>1, Invariance, PTL

\* Skipping slabs and filling greedily never miss a placement: #place refuses a
\* call only when no host can take it, a divisible request only when all known
\* hosts together cannot, and touches home only when nothing else has room.
THEOREM PlacementCorrect == Spec => []PlacementSound
BY InductivePlaces, Invariance, PTL

\* The totals that the planners read are the sums over the known hosts of their
\* size, their use and their reserve, whatever operation changed them last.
THEOREM TalliesCorrect == Spec => []TalliesExact
<1>1. Init => UnknownBare /\ TalliesExact  BY InitTallied
<1>2. Inductive /\ Inductive' /\ UnknownBare /\ TalliesExact /\ [Next]_vars
        => UnknownBare' /\ TalliesExact'
  BY NextTallied
<1> QED  BY <1>1, <1>2, Invariance, PTL DEF Spec

\* Every call of the heap is a step of the pool, or none: a batch takes all its
\* requests or nothing, from hosts that have it, and gives back what it took.
THEOREM ImplementsPool == Spec => PoolSpec
<1>1. Init => Pool!Init  BY InitPool
<1>2. Inductive /\ Inductive' /\ [Next]_vars => [Pool!Next]_(Pool!poolVars)
  BY StepPool
<1> QED  BY <1>1, <1>2, Invariance, PTL DEF Spec, PoolSpec, Pool!Spec
=============================================================================
