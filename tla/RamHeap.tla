------------------------------ MODULE RamHeap ------------------------------
(***************************************************************************)
(* The fleet RAM allocator of shared/ram/heap.ts (class Heap).             *)
(*                                                                         *)
(* Hosts other than home sit in power-of-two slabs by what they have free. *)
(* A request is placed by one of three policies; the requests of one batch *)
(* are placed against a tentative ledger and committed together or not at  *)
(* all.  RAM is counted in integer units, Gb of them to a gigabyte, and    *)
(* the effect of a thread in sixteenths (coreEffect is 1 + (cores - 1)/16).*)
(* A choice the code makes by name or by age in a bucket is left open.     *)
(***************************************************************************)
EXTENDS Integers, FiniteSets, Sequences, SetSums

CONSTANTS
  Hosts, Home,
  Gb,        \* RAM units per gigabyte
  Slabs,     \* SLABS
  Machines,  \* [Hosts -> sets of MachineType], what a host may be upserted as
  Sightings, \* the RAM uses a sweep may observe
  Batches,   \* the request sequences a caller may make
  Leases,    \* the sizes a resident may ask for
  Pieces,    \* the blocks of a reservation that may complete on their own
  Ids        \* the reservations that can be outstanding at once

MachineType == [maxRam : Nat, cores : Nat \ {0}, reserved : Nat]
Policies == {"contiguous", "homeFirst", "spread"}
RequestType ==
  [size : Nat \ {0}, threads : Nat \ {0}, policy : Policies, coreAware : BOOLEAN]

ASSUME HeapAssumption ==
  /\ IsFiniteSet(Hosts) /\ Home \in Hosts
  /\ Gb \in Nat \ {0} /\ Slabs \in Nat \ {0}
  /\ \A h \in Hosts : Machines[h] \subseteq MachineType
  /\ Sightings \subseteq Nat /\ Leases \subseteq Nat \ {0}
  /\ Pieces \subseteq Nat \ {0}
  /\ \A h \in Hosts : \A m \in Machines[h] : m.maxRam <= (2 ^ Slabs - 1) * Gb
  /\ Batches \subseteq Seq(RequestType) /\ <<>> \notin Batches
  /\ \A batch \in Batches : \A i \in DOMAIN batch :
       batch[i].size <= (2 ^ Slabs - 1) * Gb

VARIABLES
  known,     \* #hosts: the hosts that have been upserted
  maxRam, used, reserved, cores,  \* HeapHost, by host name
  slab,      \* the slab whose bucket each host is in
  totals,    \* maxRam, usedTotal and reservedTotal of the heap
  lent,      \* what each outstanding reservation still holds on each host
  pieced,    \* the reservations of which free() has given back a part
  todo,      \* allocateAll: the requests not yet placed
  tentative  \* allocateAll: what the placed ones take from each host

hostVars == <<maxRam, reserved, cores, known>>
vars ==
  <<known, maxRam, used, reserved, cores, slab, totals, lent, pieced, todo, tentative>>

Nothing == [h \in Hosts |-> 0]

Init ==
  /\ known = {}
  /\ maxRam = Nothing /\ used = Nothing /\ reserved = Nothing
  /\ cores = [h \in Hosts |-> 1]
  /\ slab = Nothing
  /\ totals = [maxRam |-> 0, used |-> 0, reserved |-> 0]
  /\ lent = [i \in Ids |-> Nothing] /\ pieced = {}
  /\ todo = <<>> /\ tentative = Nothing

----------------------------------------------------------------------------
(* Measures *)

Larger(a, b) == IF a >= b THEN a ELSE b
CeilDiv(a, b) == (a + b - 1) \div b

Free(h) == maxRam[h] - used[h] - reserved[h]

\* Mutant: the other requests of the batch are not looked at.
FreeAlone(h, t) == Free(h)

FreeBeside(h, t) == Free(h) - t[h]

\* The most a host in slab i has free: (2^(i+1) - 1) GB.
SlabTop(i) == (2 ^ (i + 1) - 1) * Gb

\* slabIndex: the first slab whose top is not below what is free.
SlabOf(free) == Cardinality({i \in 0 .. Slabs - 2 : SlabTop(i) < free})

Idle == todo = <<>>

----------------------------------------------------------------------------
(* #update: the one place where a host's RAM use and its bucket change *)

\* What the hosts of S have more than they had.
Change(now, was, S) == SumOver([h \in S |-> now[h] - was[h]], S)

\* Mutant: a host whose use did not change stays in its bucket.
UpdateIfUsed(S, newUsed) ==
  /\ used' = newUsed
  /\ slab' = [h \in Hosts |-> IF h \in S \ {Home} /\ used'[h] # used[h]
                                THEN SlabOf(Larger(0, Free(h)')) ELSE slab[h]]
  /\ totals' = [maxRam |-> totals.maxRam + Change(maxRam', maxRam, S),
                used |-> totals.used + Change(used', used, S),
                reserved |-> totals.reserved + Change(reserved', reserved, S)]

\* Mutant: the total of what is reserved is not carried along.
UpdateUncounted(S, newUsed) ==
  /\ used' = newUsed
  /\ slab' = [h \in Hosts |-> IF h \in S \ {Home}
                                THEN SlabOf(Larger(0, Free(h)')) ELSE slab[h]]
  /\ totals' = [totals EXCEPT
       !.maxRam = @ + Change(maxRam', maxRam, S),
       !.used = @ + Change(used', used, S)]

Update(S, newUsed) ==
  /\ used' = newUsed
  /\ slab' = [h \in Hosts |-> IF h \in S \ {Home}
                                THEN SlabOf(Larger(0, Free(h)')) ELSE slab[h]]
  /\ totals' = [maxRam |-> totals.maxRam + Change(maxRam', maxRam, S),
                used |-> totals.used + Change(used', used, S),
                reserved |-> totals.reserved + Change(reserved', reserved, S)]

----------------------------------------------------------------------------
(* #place *)

Effect(h, rq) == IF rq.coreAware THEN 15 + cores[h] ELSE 16
Want(rq) == 16 * rq.threads

\* A block of this many threads' effect on one host.
BlockGb(h, rq, effect) == CeilDiv(effect, Effect(h, rq)) * rq.size

Alone(h, rq, t) == BlockGb(h, rq, Want(rq)) <= FreeBeside(h, t)

On(h, rq) == [Nothing EXCEPT ![h] = BlockGb(h, rq, Want(rq))]

\* choose(): least RAM, then (when cores are no use) fewest cores, then
\* tightest fit.
Better(g, h, rq, t) ==
  LET gb(x) == BlockGb(x, rq, Want(rq))
      core(x) == IF rq.coreAware THEN 0 ELSE cores[x]
  IN \/ gb(g) < gb(h)
     \/ gb(g) = gb(h) /\ core(g) < core(h)
     \/ gb(g) = gb(h) /\ core(g) = core(h) /\ FreeBeside(g, t) < FreeBeside(h, t)

Best(S, rq, t) ==
  LET fitting == {h \in S : Alone(h, rq, t)}
  IN {h \in fitting : \A g \in fitting : ~Better(g, h, rq, t)}

ContiguousPlans(rq, t) ==
  LET remote == Best(known \ {Home}, rq, t)
  IN {On(h, rq) : h \in IF remote # {} THEN remote ELSE Best(known \cap {Home}, rq, t)}

Fit(h, rq, t) == FreeBeside(h, t) \div rq.size

\* Mutant: a slab is skipped unless all its hosts can take a thread.
VisitedByFloor(rq, t) ==
  {h \in known : /\ Fit(h, rq, t) >= 1
                 /\ rq.coreAware \/ h = Home \/ (2 ^ slab[h] - 1) * Gb >= rq.size}

\* The hosts a spread visits: whole slabs too small for one thread are skipped.
Visited(rq, t) ==
  {h \in known : /\ Fit(h, rq, t) >= 1
                 /\ rq.coreAware \/ h = Home \/ SlabTop(slab[h]) >= rq.size}

\* The order of the visit: home last, most cores first where they count, then
\* the smallest slabs.
Before(g, h, rq) ==
  /\ g # Home
  /\ \/ h = Home
     \/ rq.coreAware /\ cores[g] > cores[h]
     \/ (rq.coreAware => cores[g] = cores[h]) /\ slab[g] < slab[h]

\* The effect of the threads that fit on a host.
EffectOn(h, rq, t) == Fit(h, rq, t) * Effect(h, rq)

\* The effect still to be placed once some hosts are full.
Remaining(full, rq, t) ==
  Want(rq) - SumOver([h \in full |-> EffectOn(h, rq, t)], full)

\* Mutant: the loop goes on when nothing remains.
EndsLate(h, full, rq, t) ==
  Remaining(full, rq, t) <= EffectOn(h, rq, t)

\* The host on which what remains fits.
EndsOn(h, full, rq, t) ==
  Remaining(full, rq, t) \in 1 .. EffectOn(h, rq, t)

\* Hosts are filled one after the other until the rest fits on the last one.
SpreadPlans(rq, t) ==
  LET V == Visited(rq, t)
      inOrder(full, last) ==
        /\ \A g \in full : ~Before(last, g, rq)
        /\ \A g \in V \ (full \cup {last}) : ~Before(g, last, rq)
      plan(full, last) ==
        [h \in Hosts |-> IF h \in full THEN Fit(h, rq, t) * rq.size
                         ELSE IF h = last THEN BlockGb(h, rq, Remaining(full, rq, t))
                         ELSE 0]
      fills(last) ==
        {full \in SUBSET (V \ {last}) : inOrder(full, last) /\ EndsOn(last, full, rq, t)}
  IN UNION {{plan(full, last) : full \in fills(last)} : last \in V}

Plans(rq, t) ==
  IF rq.policy = "contiguous" THEN ContiguousPlans(rq, t)
  ELSE IF rq.policy = "homeFirst" /\ Home \in known /\ Alone(Home, rq, t)
    THEN {On(Home, rq)}
  ELSE SpreadPlans(rq, t)

----------------------------------------------------------------------------
(* The operations *)

\* The use the callers of upsert pass: of a host the heap knows, the ledger's.
Passed(h) == IF h \in known THEN {used[h]} ELSE Sightings

\* upsert: a host is added, or resized, reserved and given the use passed.
Upsert(h, m, u) ==
  /\ Idle
  /\ known' = known \cup {h}
  /\ maxRam' = [maxRam EXCEPT ![h] = m.maxRam]
  /\ cores' = [cores EXCEPT ![h] = m.cores]
  /\ reserved' = [reserved EXCEPT ![h] = m.reserved]
  /\ Update({h}, [used EXCEPT ![h] = u])
  /\ UNCHANGED <<lent, pieced, todo, tentative>>

\* resync: the use a sweep observed replaces the ledger's.
Resync(h, observed) ==
  /\ Idle /\ h \in known
  /\ UNCHANGED <<hostVars, lent, pieced, todo, tentative>>
  /\ Update({h}, [used EXCEPT ![h] = observed])

\* reserveOn: a lease on a named host, within its reserve if it may draw on it.
ReserveOn(i, h, gb, draw) ==
  /\ Idle /\ h \in known /\ lent[i] = Nothing
  /\ gb <= Free(h) + IF draw THEN reserved[h] ELSE 0
  /\ UNCHANGED <<hostVars, todo, tentative>>
  /\ Update({h}, [used EXCEPT ![h] = @ + gb])
  /\ lent' = [lent EXCEPT ![i] = [Nothing EXCEPT ![h] = gb]]
  /\ pieced' = pieced \ {i}

\* allocate and allocateAll place their requests one by one, undisturbed ...
AllocateAll(requests) ==
  /\ Idle /\ \E i \in Ids : lent[i] = Nothing
  /\ todo' = requests
  /\ UNCHANGED <<hostVars, used, slab, totals, lent, pieced, tentative>>

PlaceOne(p) ==
  /\ Len(todo) > 1
  /\ p \in Plans(Head(todo), tentative)
  /\ tentative' = [h \in Hosts |-> tentative[h] + p[h]]
  /\ todo' = Tail(todo)
  /\ UNCHANGED <<hostVars, used, slab, totals, lent, pieced>>

\* ... and give up at the first that finds no place ...
PlaceFails ==
  /\ ~Idle /\ Plans(Head(todo), tentative) = {}
  /\ todo' = <<>> /\ tentative' = Nothing
  /\ UNCHANGED <<hostVars, used, slab, totals, lent, pieced>>

\* ... or commit them all with the last.
Commit(i, p) ==
  /\ Len(todo) = 1 /\ lent[i] = Nothing
  /\ p \in Plans(Head(todo), tentative)
  /\ UNCHANGED hostVars
  /\ LET all == [h \in Hosts |-> tentative[h] + p[h]]
     IN /\ Update({h \in Hosts : all[h] # 0}, [h \in Hosts |-> used[h] + all[h]])
        /\ lent' = [lent EXCEPT ![i] = all]
  /\ pieced' = pieced \ {i}
  /\ todo' = <<>> /\ tentative' = Nothing

\* release() gives back all that was granted, once.  Its callers drop a
\* reservation whole or free() its blocks, never one after the other.
Release(i) ==
  /\ Idle /\ lent[i] # Nothing /\ i \notin pieced
  /\ UNCHANGED <<hostVars, pieced, todo, tentative>>
  /\ Update({h \in Hosts : lent[i][h] # 0}, [h \in Hosts |-> used[h] - lent[i][h]])
  /\ lent' = [lent EXCEPT ![i] = Nothing]

\* free(): the blocks of one reservation complete apart from each other, any
\* part of what it holds on a host first.
FreeBlock(i, h, gb) ==
  /\ Idle /\ gb <= lent[i][h]
  /\ UNCHANGED <<hostVars, todo, tentative>>
  /\ Update({h}, [used EXCEPT ![h] = @ - gb])
  /\ lent' = [lent EXCEPT ![i][h] = @ - gb]
  /\ pieced' = pieced \cup {i}

Allocation ==
  \/ \E requests \in Batches : AllocateAll(requests)
  \/ \E p \in IF Idle THEN {} ELSE Plans(Head(todo), tentative) :
       PlaceOne(p) \/ \E i \in Ids : Commit(i, p)
  \/ PlaceFails

Next ==
  \/ \E h \in Hosts : \E m \in Machines[h] : \E u \in Passed(h) : Upsert(h, m, u)
  \/ \E h \in Hosts : \E observed \in Sightings : Resync(h, observed)
  \/ \E i \in Ids : \E h \in Hosts : \E gb \in Leases : \E draw \in BOOLEAN :
       ReserveOn(i, h, gb, draw)
  \/ Allocation
  \/ \E i \in Ids : Release(i)
  \/ \E i \in Ids : \E h \in Hosts : \E gb \in Pieces : FreeBlock(i, h, gb)

Spec == Init /\ [][Next]_vars

----------------------------------------------------------------------------
(* Properties *)

\* Every variable keeps its shape; TalliesExact says what totals are.
TypeOK ==
  /\ known \subseteq Hosts
  /\ maxRam \in [Hosts -> Nat] /\ reserved \in [Hosts -> Nat]
  /\ used \in [Hosts -> Int]
  /\ cores \in [Hosts -> Nat \ {0}]
  /\ slab \in [Hosts -> 0 .. Slabs - 1]
  /\ lent \in [Ids -> [Hosts -> Nat]] /\ pieced \subseteq Ids
  /\ todo \in Seq(RequestType)
  /\ tentative \in [Hosts -> Nat]

\* Every host is in the bucket of what it has free, whichever of its use, its
\* size or its reserve changed last.
SlabsFitFree ==
  \A h \in known \ {Home} : slab[h] = SlabOf(Larger(0, Free(h)))

\* The totals the planners read are those of the hosts.
TalliesExact ==
  /\ totals.maxRam = SumOver(maxRam, known)
  /\ totals.used = SumOver(used, known)
  /\ totals.reserved = SumOver(reserved, known)

\* A request is refused only when the fleet cannot hold it: skipping slabs and
\* filling greedily never miss a placement.
NothingFittingIsRefused ==
  \A batch \in Batches : LET rq == Head(batch) IN Plans(rq, Nothing) = {} =>
    IF rq.policy = "contiguous"
      THEN \A h \in known : ~Alone(h, rq, Nothing)
      ELSE SumOver([h \in known |-> Larger(0, EffectOn(h, rq, Nothing))], known) < Want(rq)

\* Home is the last resort: a placement that touches it, unless it asked for
\* home first, found no room for one more thread, or for the one call, elsewhere.
HomeIsLast ==
  \A batch \in Batches : LET rq == Head(batch) IN
    rq.policy # "homeFirst" =>
      \A p \in Plans(rq, Nothing) : p[Home] > 0 =>
        \A h \in known \ {Home} :
          IF rq.policy = "spread" THEN Free(h) - p[h] < rq.size
          ELSE ~Alone(h, rq, Nothing)

\* A placement exists whenever the fleet can hold the request, and home serves
\* it last (#planSpread and its siblings).
PlacementSound == NothingFittingIsRefused /\ HomeIsLast

\* What the placed requests of a batch take from a host, it has free.
TentativeFits ==
  /\ Idle => tentative = Nothing
  /\ \A h \in Hosts : tentative[h] > 0 => tentative[h] <= Free(h)

\* What the proofs of RamHeapProofs keep.
Inductive == TypeOK /\ SlabsFitFree /\ TentativeFits

\* The heap implements the pool: batches are all or nothing, no grant is taken
\* from a host that has not got it, and every return is of something granted.
Pool == INSTANCE RamPool WITH
  spare <- [h \in Hosts |-> Free(h)], reserve <- reserved

PoolSpec == Pool!Spec

=============================================================================
