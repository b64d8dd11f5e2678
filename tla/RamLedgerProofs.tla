-------------------------- MODULE RamLedgerProofs --------------------------
(***************************************************************************)
(* Proofs about RamLedger, for any workers, sizes and foreign load.        *)
(*                                                                         *)
(* Every action but the sweep's last moves the heap by exactly what leaves *)
(* or enters the ledgers (ExactlyOnce), because a release counts only what is    *)
(* still in them.  The sweep rebuilds the heap on top of what it accounts  *)
(* for, so without charges, which it does not, the heap never falls below  *)
(* the reservations.                                                       *)
(***************************************************************************)
EXTENDS RamLedger, SetSumsProofs, TLAPS

SetsOK ==
  /\ booked \subseteq Workers /\ alive \subseteq info /\ info \subseteq booked
  /\ queue \subseteq Workers \ info /\ stopping \subseteq booked
  /\ todo \subseteq booked \ info /\ stops \subseteq booked
  /\ failed \subseteq booked \ (todo \cup info)
  /\ pc \in {"window", "scanned", "beat", "read", "start", "boot"}
  /\ booting \in info \cup {Nobody}
  /\ booting # Nobody <=> pc = "boot"
  /\ PumpOK

NumbersOK ==
  /\ used \in Int /\ scan \in Nat /\ outside \in Foreign \cup {0}

LEMMA InductiveParts ==
  Inductive <=> SetsOK /\ NumbersOK /\ charging \in BOOLEAN
  BY DEF Inductive, TypeOK, SetsOK, NumbersOK

-----------------------------------------------------------------------------
(* Sums *)

LEMMA TotalNat ==
  ASSUME NEW S \in SUBSET Workers
  PROVE  Total(S) \in Nat
<1>1. IsFiniteSet(S)
  BY LedgerAssumption, FS_Subset DEF LedgerAssumption
<1>2. \A w \in S : Gb[w] \in Nat
  BY LedgerAssumption DEF LedgerAssumption
<1> QED
  BY <1>1, <1>2, SumNat DEF Total

LEMMA TotalUnion ==
  ASSUME NEW S \in SUBSET Workers, NEW T \in SUBSET Workers, S \cap T = {}
  PROVE  Total(S \cup T) = Total(S) + Total(T)
<1>1. IsFiniteSet(S) /\ IsFiniteSet(T)
  BY LedgerAssumption, FS_Subset DEF LedgerAssumption
<1>2. \A w \in S \cup T : Gb[w] \in Int
  BY LedgerAssumption DEF LedgerAssumption
<1> QED
  BY <1>1, <1>2, SumUnion DEF Total

\* What a release frees is what the ledgers lose.
LEMMA FreedExact ==
  ASSUME NEW S, booked \subseteq Workers
  PROVE  /\ Freed(S) \in Nat
         /\ Total(booked \ S) \in Nat /\ Total(booked) \in Nat
         /\ Total(booked) - Freed(S) = Total(booked \ S)
<1>1. /\ S \cap booked \in SUBSET Workers /\ booked \ S \in SUBSET Workers
      /\ (S \cap booked) \cap (booked \ S) = {}
      /\ booked = (S \cap booked) \cup (booked \ S)
  OBVIOUS
<1>2. Total(booked) = Total(S \cap booked) + Total(booked \ S)
  BY <1>1, TotalUnion
<1>3. /\ Total(S \cap booked) \in Nat /\ Total(booked \ S) \in Nat
      /\ Total(booked) \in Nat
  BY <1>1, TotalNat
<1> QED
  BY <1>2, <1>3 DEF Freed

LEMMA ReleaseExact ==
  ASSUME SetsOK, used \in Int, NEW S, Release(S)
  PROVE  ExactlyOnce /\ used' \in Int
<1>1. booked \subseteq Workers
  BY DEF SetsOK
<1>2. used' = used - Freed(S) /\ booked' = booked \ S
  BY DEF Release
<1> QED
  BY <1>1, <1>2, FreedExact DEF ExactlyOnce

LEMMA PlanExact ==
  ASSUME SetsOK, used \in Int, NEW D, NEW T \in SUBSET Workers, Plan(D, T)
  PROVE  ExactlyOnce /\ used' \in Int
<1>1. booked \subseteq Workers
  BY DEF SetsOK
<1>2. PICK N \in SUBSET T : /\ N \cap (booked \ D) = {}
                           /\ used' = used - Freed(D) + Total(N)
                           /\ booked' = (booked \ D) \cup N
  BY DEF Plan
<1>3. N \in SUBSET Workers /\ booked \ D \in SUBSET Workers
  BY <1>1, <1>2
<1>4. Total((booked \ D) \cup N) = Total(booked \ D) + Total(N) /\ Total(N) \in Nat
  BY <1>2, <1>3, TotalNat, TotalUnion
<1> QED
  BY <1>1, <1>2, <1>4, FreedExact DEF ExactlyOnce

LEMMA KeptExact ==
  ASSUME UNCHANGED <<used, booked>>, booked \subseteq Workers, used \in Int
  PROVE  ExactlyOnce /\ used' \in Int
  BY TotalNat DEF ExactlyOnce

-----------------------------------------------------------------------------
(* The sets *)

LEMMA SetsStep == SetsOK /\ [Next]_vars => SetsOK'
<1> SUFFICES ASSUME SetsOK, [Next]_vars PROVE SetsOK'
  OBVIOUS
<1> USE LedgerAssumption DEF LedgerAssumption, SetsOK, PumpOK, engine, pump
<1>1. CASE Scan
  BY <1>1 DEF Scan
<1>2. CASE Resync
  BY <1>2 DEF Resync, Orphans
<1>3. CASE SkipSweep
  BY <1>3 DEF SkipSweep
<1>4. CASE CriticalKill
  BY <1>4 DEF CriticalKill, Release
<1>5. CASE Refresh
  BY <1>5 DEF Refresh
<1>6. CASE Beat
  BY <1>6 DEF Beat, Plan
<1>7. CASE SettleShares
  BY <1>7 DEF SettleShares, Release
<1>8. ASSUME NEW w \in Workers, Stop(w) PROVE SetsOK'
  BY <1>8 DEF Stop, Release
<1>9. ASSUME NEW w \in Workers, Refuse(w) PROVE SetsOK'
  BY <1>9 DEF Refuse
<1>10. ASSUME NEW w \in Workers, PostRefused(w) PROVE SetsOK'
  BY <1>10 DEF PostRefused
<1>11. ASSUME NEW w \in Workers, Exec(w) PROVE SetsOK'
  BY <1>11 DEF Exec
<1>12. CASE Ready
  BY <1>12 DEF Ready
<1>13. CASE Gone
  BY <1>13 DEF Gone
<1>14. CASE ReportFailed
  BY <1>14 DEF ReportFailed, Release
<1>15. ASSUME NEW D \in SUBSET queue, WakePump(D) PROVE SetsOK'
  BY <1>15 DEF WakePump, Plan
<1>16. ASSUME NEW w \in Workers, Exit(w) PROVE SetsOK'
  BY <1>16 DEF Exit, Awaiting
<1>17. ASSUME NEW w \in Workers, Torn(w) PROVE SetsOK'
  BY <1>17 DEF Torn, Awaiting
<1>18. CASE DiesBooting
  BY <1>18 DEF DiesBooting
<1>19. CASE OtherScripts
  BY <1>19 DEF OtherScripts, Awaiting
<1>20. CASE UNCHANGED vars
  BY <1>20 DEF vars
<1> QED
  BY <1>1, <1>2, <1>3, <1>4, <1>5, <1>6, <1>7, <1>8, <1>9, <1>10, <1>11, <1>12, <1>13, <1>14, <1>15, <1>16, <1>17, <1>18, <1>19, <1>20 DEF Next, Sweep, Launch

-----------------------------------------------------------------------------
(* The numbers *)

\* The sweep rebuilds the heap from what it accounts for, and never below it.
LEMMA ReconciledBounds ==
  ASSUME NEW kept \in SUBSET Workers, NEW before \in Int, scan \in Nat
  PROVE  /\ Reconciled(kept, before) \in Int
         /\ Reconciled(kept, before) >= Total({w \in kept : Kind[w] # "charge"})
<1> DEFINE counted == {w \in kept : Kind[w] # "charge"}
           accounted == Total(counted)
           live == Total(counted \cap info)
<1>1. counted \in SUBSET Workers /\ counted \cap info \in SUBSET Workers
  OBVIOUS
<1>2. accounted \in Nat /\ live \in Nat
  BY <1>1, TotalNat
<1>3. AtLeast0(before - accounted) \in Nat /\ AtLeast0(scan - live) \in Nat
  BY <1>2 DEF AtLeast0
<1> QED
  BY <1>2, <1>3 DEF Reconciled

LEMMA ResyncInt ==
  ASSUME SetsOK, NumbersOK, Resync
  PROVE  used' \in Int /\ UNCHANGED <<scan, outside>>
<1>1. booked \ Orphans \in SUBSET Workers
  BY DEF SetsOK
<1>2. used \in Int /\ booked \subseteq Workers
  BY DEF SetsOK, NumbersOK
<1>3. Freed(Orphans) \in Nat
  BY <1>2, FreedExact
<1>4. used - Freed(Orphans) \in Int
  BY <1>2, <1>3
<1> QED
  BY <1>1, <1>4, ReconciledBounds DEF NumbersOK, Resync, engine

\* Every action but the sweep's last leaves the heap beside the ledgers alone.
LEMMA ExactStep ==
  ASSUME SetsOK, NumbersOK, [Next]_vars, ~Resync
  PROVE  ExactlyOnce /\ used' \in Int
<1>0. used \in Int /\ booked \subseteq Workers /\ queue \in SUBSET Workers
  BY DEF NumbersOK, SetsOK
<1> DEFINE Goal == ExactlyOnce /\ used' \in Int
<1> SUFFICES Goal
  BY DEF Goal
<1> HIDE DEF Goal
<1>k. UNCHANGED <<used, booked>> => Goal
  BY <1>0, KeptExact DEF Goal
<1>r. ASSUME NEW S, Release(S) PROVE Goal
  BY <1>0, <1>r, ReleaseExact DEF Goal
<1>p. ASSUME NEW D, NEW T \in SUBSET Workers, Plan(D, T) PROVE Goal
  BY <1>0, <1>p, PlanExact DEF Goal
<1>1. CASE Scan
  BY <1>1, <1>k DEF Scan
<1>2. CASE Resync
  BY <1>2
<1>3. CASE SkipSweep
  BY <1>3, <1>k DEF SkipSweep
<1>4. CASE CriticalKill
  BY <1>4, <1>r DEF CriticalKill
<1>5. CASE Refresh
  BY <1>5, <1>k DEF Refresh
<1>6. CASE Beat
  BY <1>6, <1>p DEF Beat
<1>7. CASE SettleShares
  BY <1>7, <1>r DEF SettleShares
<1>8. ASSUME NEW w \in Workers, Stop(w) PROVE Goal
  BY <1>8, <1>r, <1>k DEF Stop
<1>9. ASSUME NEW w \in Workers, Refuse(w) PROVE Goal
  BY <1>9, <1>k DEF Refuse
<1>10. ASSUME NEW w \in Workers, PostRefused(w) PROVE Goal
  BY <1>10, <1>k DEF PostRefused
<1>11. ASSUME NEW w \in Workers, Exec(w) PROVE Goal
  BY <1>11, <1>k DEF Exec
<1>12. CASE Ready
  BY <1>12, <1>k DEF Ready
<1>13. CASE Gone
  BY <1>13, <1>k DEF Gone
<1>14. CASE ReportFailed
  BY <1>14, <1>r DEF ReportFailed
<1>15. ASSUME NEW D \in SUBSET queue, WakePump(D) PROVE Goal
  BY <1>15, <1>p DEF WakePump
<1>16. ASSUME NEW w \in Workers, Exit(w) PROVE Goal
  BY <1>16, <1>k DEF Exit
<1>17. ASSUME NEW w \in Workers, Torn(w) PROVE Goal
  BY <1>17, <1>k DEF Torn
<1>18. CASE DiesBooting
  BY <1>18, <1>k DEF DiesBooting
<1>19. CASE OtherScripts
  BY <1>19, <1>k DEF OtherScripts
<1>20. CASE UNCHANGED vars
  BY <1>20, <1>k DEF vars
<1> QED
  BY <1>1, <1>2, <1>3, <1>4, <1>5, <1>6, <1>7, <1>8, <1>9, <1>10, <1>11, <1>12, <1>13, <1>14, <1>15, <1>16, <1>17, <1>18, <1>19, <1>20 DEF Next, Sweep, Launch

LEMMA InUseNat == SetsOK /\ NumbersOK => InUse \in Nat
<1> SUFFICES ASSUME SetsOK, NumbersOK PROVE InUse \in Nat
  OBVIOUS
<1>1. Total(alive) \in Nat
  BY TotalNat DEF SetsOK
<1>2. outside \in Nat
  BY LedgerAssumption DEF NumbersOK, LedgerAssumption
<1> QED
  BY <1>1, <1>2 DEF InUse

\* What is read of the engine keeps its range.
LEMMA ReadsStep ==
  ASSUME SetsOK, NumbersOK, [Next]_vars
  PROVE  scan' \in Nat /\ outside' \in Foreign \cup {0}
<1> DEFINE Goal == scan' \in Nat /\ outside' \in Foreign \cup {0}
<1> SUFFICES Goal
  BY DEF Goal
<1>k. UNCHANGED <<scan, outside>> => Goal
  BY DEF NumbersOK
<1> USE DEF engine
<1>1. CASE Scan
  BY <1>1, InUseNat DEF Scan, NumbersOK
<1>2. CASE Resync
  BY <1>2, <1>k DEF Resync
<1>3. CASE SkipSweep
  BY <1>3, <1>k DEF SkipSweep
<1>4. CASE CriticalKill
  BY <1>4, <1>k DEF CriticalKill
<1>5. CASE Refresh
  BY <1>5, <1>k DEF Refresh
<1>6. CASE Beat
  BY <1>6, <1>k DEF Beat, Plan
<1>7. CASE SettleShares
  BY <1>7, <1>k DEF SettleShares
<1>8. ASSUME NEW w \in Workers, Stop(w) PROVE Goal
  BY <1>8, <1>k DEF Stop
<1>9. ASSUME NEW w \in Workers, Refuse(w) PROVE Goal
  BY <1>9, <1>k DEF Refuse
<1>10. ASSUME NEW w \in Workers, PostRefused(w) PROVE Goal
  BY <1>10, <1>k DEF PostRefused
<1>11. ASSUME NEW w \in Workers, Exec(w) PROVE Goal
  BY <1>11, <1>k DEF Exec
<1>12. CASE Ready
  BY <1>12, <1>k DEF Ready
<1>13. CASE Gone
  BY <1>13, <1>k DEF Gone
<1>14. CASE ReportFailed
  BY <1>14, <1>k DEF ReportFailed
<1>15. ASSUME NEW D \in SUBSET queue, WakePump(D) PROVE Goal
  BY <1>15, <1>k DEF WakePump, Plan
<1>16. ASSUME NEW w \in Workers, Exit(w) PROVE Goal
  BY <1>16, <1>k DEF Exit
<1>17. ASSUME NEW w \in Workers, Torn(w) PROVE Goal
  BY <1>17, <1>k DEF Torn
<1>18. CASE DiesBooting
  BY <1>18, <1>k DEF DiesBooting
<1>19. CASE OtherScripts
  BY <1>19 DEF OtherScripts, NumbersOK
<1>20. CASE UNCHANGED vars
  BY <1>20, <1>k DEF vars
<1> HIDE DEF Goal
<1> QED
  BY <1>1, <1>2, <1>3, <1>4, <1>5, <1>6, <1>7, <1>8, <1>9, <1>10, <1>11, <1>12, <1>13, <1>14, <1>15, <1>16, <1>17, <1>18, <1>19, <1>20 DEF Next, Sweep, Launch

LEMMA NumbersStep == SetsOK /\ NumbersOK /\ [Next]_vars => NumbersOK'
<1> SUFFICES ASSUME SetsOK, NumbersOK, [Next]_vars PROVE NumbersOK'
  OBVIOUS
<1>1. used' \in Int
  BY ResyncInt, ExactStep
<1> QED
  BY <1>1, ReadsStep DEF NumbersOK

LEMMA ChargingStep ==
  charging \in BOOLEAN /\ [Next]_vars => charging' \in BOOLEAN
<1> SUFFICES ASSUME charging \in BOOLEAN, [Next]_vars PROVE charging' \in BOOLEAN
  OBVIOUS
<1>1. CASE Scan
  BY <1>1, Zenon DEF Scan
<1>2. CASE Resync
  BY <1>2, Zenon DEF Resync
<1>3. CASE SkipSweep
  BY <1>3, Zenon DEF SkipSweep
<1>4. CASE CriticalKill
  BY <1>4, Zenon DEF CriticalKill
<1>5. CASE Refresh
  BY <1>5, Zenon DEF Refresh
<1>6. CASE Beat
  BY <1>6, Zenon DEF Beat, Plan
<1>7. CASE SettleShares
  BY <1>7, Zenon DEF SettleShares
<1>8. ASSUME NEW w \in Workers, Stop(w) PROVE charging' \in BOOLEAN
  BY <1>8, Zenon DEF Stop
<1>9. ASSUME NEW w \in Workers, Refuse(w) PROVE charging' \in BOOLEAN
  BY <1>9, Zenon DEF Refuse
<1>10. ASSUME NEW w \in Workers, PostRefused(w) PROVE charging' \in BOOLEAN
  BY <1>10, Zenon DEF PostRefused
<1>11. ASSUME NEW w \in Workers, Exec(w) PROVE charging' \in BOOLEAN
  BY <1>11, Zenon DEF Exec
<1>12. CASE Ready
  BY <1>12, Zenon DEF Ready
<1>13. CASE Gone
  BY <1>13, Zenon DEF Gone
<1>14. CASE ReportFailed
  BY <1>14, Zenon DEF ReportFailed
<1>15. ASSUME NEW D \in SUBSET queue, WakePump(D) PROVE charging' \in BOOLEAN
  BY <1>15, Zenon DEF WakePump, Plan
<1>16. ASSUME NEW w \in Workers, Exit(w) PROVE charging' \in BOOLEAN
  BY <1>16, Zenon DEF Exit
<1>17. ASSUME NEW w \in Workers, Torn(w) PROVE charging' \in BOOLEAN
  BY <1>17, Zenon DEF Torn
<1>18. CASE DiesBooting
  BY <1>18, Zenon DEF DiesBooting
<1>19. CASE OtherScripts
  BY <1>19, Zenon DEF OtherScripts
<1>20. CASE UNCHANGED vars
  BY <1>20, Zenon DEF vars
<1> QED
  BY <1>1, <1>2, <1>3, <1>4, <1>5, <1>6, <1>7, <1>8, <1>9, <1>10, <1>11, <1>12, <1>13, <1>14, <1>15, <1>16, <1>17, <1>18, <1>19, <1>20 DEF Next, Sweep, Launch

-----------------------------------------------------------------------------
LEMMA InductiveInit == Init => Inductive
<1> SUFFICES ASSUME Init PROVE Inductive
  OBVIOUS
<1>1. SetsOK
  BY LedgerAssumption DEF LedgerAssumption, Init, SetsOK, PumpOK
<1>2. NumbersOK
  BY DEF Init, NumbersOK
<1>3. charging \in BOOLEAN
  BY DEF Init
<1> QED
  BY <1>1, <1>2, <1>3, InductiveParts

LEMMA InductiveStep == Inductive /\ [Next]_vars => Inductive'
<1> SUFFICES ASSUME Inductive, [Next]_vars PROVE Inductive'
  OBVIOUS
<1>1. SetsOK /\ NumbersOK /\ charging \in BOOLEAN
  BY InductiveParts
<1>2. SetsOK' /\ NumbersOK' /\ charging' \in BOOLEAN
  BY <1>1, SetsStep, NumbersStep, ChargingStep
<1> QED
  BY <1>2 DEF Inductive, TypeOK, SetsOK, NumbersOK

LEMMA Invariance == Spec => []Inductive
  BY InductiveInit, InductiveStep, PTL DEF Spec

\* The ledgers keep their shape: a worker that lives is registered and reserved,
\* one whose completion is queued is not registered, and what a pump has still
\* to start is reserved and not yet running (the ledgers of
\* shared/strategy/dispatch.ts and worker_info of game/worker/worker.ts).
THEOREM TypeCorrect == Spec => []TypeOK
<1>1. Inductive => TypeOK
  BY DEF Inductive
<1> QED
  BY <1>1, Invariance, PTL

\* Nothing but the sweep's last step leaves "scanned".
LEMMA OnlyResync ==
  ASSUME [Next]_vars, ~Resync
  PROVE  ~(pc = "scanned" /\ pc' = "beat")
<1>1. Launch => pc # "scanned"
  BY DEF Launch, Stop, Refuse, PostRefused, Exec, Ready, Gone, ReportFailed
<1>2. (\E w \in Workers : Exit(w) \/ Torn(w)) => pc' = pc
  BY DEF Exit, Torn
<1>3. (\E D \in SUBSET queue : WakePump(D)) \/ SettleShares => pc = "window"
  BY DEF WakePump, SettleShares
<1> QED
  BY <1>1, <1>2, <1>3
     DEF Next, vars, Sweep, Scan, SkipSweep, CriticalKill, Refresh, Beat, DiesBooting, OtherScripts

\* A sweep that finds every worker of the ledgers alive, and nothing changed since
\* it looked, sets the heap to what the host uses.
LEMMA RepairStep ==
  ASSUME SetsOK, NumbersOK, Resync
  PROVE  SweepRepairs
<1> SUFFICES ASSUME booked' \subseteq alive, scan = InUse
             PROVE  used' = InUse
  BY DEF SweepRepairs
<1> DEFINE kept == booked'
           counted == {w \in kept : Kind[w] # "charge"}
<1>1. /\ counted \subseteq Workers /\ alive \subseteq Workers
      /\ counted \cap info = counted /\ counted \subseteq alive
  BY DEF SetsOK
<1>2. Total(alive) = Total(counted) + Total(alive \ counted)
  <2>1. counted \cup (alive \ counted) = alive /\ counted \cap (alive \ counted) = {}
    BY <1>1
  <2> HIDE DEF counted
  <2> QED
    BY <1>1, <2>1, TotalUnion
<1>3. Total(counted) \in Nat /\ Total(alive \ counted) \in Nat /\ outside \in Nat
  BY <1>1, TotalNat, LedgerAssumption DEF NumbersOK, LedgerAssumption
<1>4. AtLeast0(scan - Total(counted)) = scan - Total(counted) /\ scan \in Nat
  BY <1>2, <1>3 DEF InUse, AtLeast0
<1>5. used' = Total(counted) + AtLeast0(scan - Total(counted))
  <2>1. used' = Reconciled(kept, used - Freed(Orphans))
    BY DEF Resync
  <2>2. Reconciled(kept, used - Freed(Orphans)) =
          Total(counted) + IF Total(counted) > Total(counted) /\ AtLeast0(used - Freed(Orphans) - Total(counted)) > AtLeast0(scan - Total(counted))
                           THEN AtLeast0(used - Freed(Orphans) - Total(counted))
                           ELSE AtLeast0(scan - Total(counted))
    BY <1>1, Zenon DEF Reconciled
  <2> HIDE DEF counted
  <2> QED
    BY <1>3, <2>1, <2>2
<1>6. used' = scan
  <2> HIDE DEF counted
  <2> QED
    BY <1>3, <1>4, <1>5
<1> QED
  BY <1>6

\* Whatever path releases a worker, and however often, the heap moves by what
\* leaves the ledgers and no more; only the sweep changes what it holds beside
\* them, and to the host's real use when nothing moved since it looked (release,
\* releaseWorker, releaseShareWorker, releaseChargeWorker, resyncHeap).
THEOREM HeapIsExact == Spec => HeapMovesExactly
<1> DEFINE Move == IF pc = "scanned" /\ pc' = "beat" THEN SweepRepairs ELSE ExactlyOnce
<1>1. Inductive /\ [Next]_vars => [Move]_vars
  <2> SUFFICES ASSUME Inductive, [Next]_vars, UNCHANGED vars => FALSE
               PROVE  Move
    OBVIOUS
  <2>1. CASE Resync
    BY <2>1, InductiveParts, RepairStep DEF Resync
  <2>2. CASE ~Resync
    <3>1. ExactlyOnce
      BY <2>2, InductiveParts, ExactStep
    <3>2. ~(pc = "scanned" /\ pc' = "beat")
      BY <2>2, OnlyResync
    <3> QED
      BY <3>1, <3>2
  <2> QED
    BY <2>1, <2>2
<1>2. Spec => [][Move]_vars
  BY <1>1, Invariance, PTL DEF Spec
<1> QED
  BY <1>2 DEF HeapMovesExactly

\* On a host without charge workers the heap never offers what a worker has
\* reserved, whatever the sweep observed and however stale (resyncHeap of
\* game/lib/dispatch-driver.ts).
THEOREM HeapCoversAll ==
  ASSUME \A w \in Workers : Kind[w] # "charge"
  PROVE  Spec => []HeapCovers
<1>1. Init => HeapCovers
  BY SumEmpty DEF Init, HeapCovers, Total
<1>2. Inductive /\ HeapCovers /\ [Next]_vars => HeapCovers'
  <2> SUFFICES ASSUME Inductive, HeapCovers, [Next]_vars PROVE HeapCovers'
    OBVIOUS
  <2>1. SetsOK /\ NumbersOK /\ booked \subseteq Workers /\ used \in Int
    BY InductiveParts DEF SetsOK, NumbersOK
  <2>2. SetsOK' /\ booked' \subseteq Workers
    BY <2>1, SetsStep DEF SetsOK
  <2>3. Total(booked) \in Nat /\ Total(booked') \in Nat
    BY <2>1, <2>2, TotalNat
  <2>4. CASE Resync
    <3> DEFINE kept == booked \ Orphans
    <3>1. kept \in SUBSET Workers /\ {w \in kept : Kind[w] # "charge"} = kept
      BY <2>1
    <3>0. Freed(Orphans) \in Nat
      BY <2>1, FreedExact
    <3>2. used - Freed(Orphans) \in Int
      BY <2>1, <3>0
    <3>3. scan \in Nat
      BY <2>1 DEF NumbersOK
    <3>4. used' = Reconciled(kept, used - Freed(Orphans)) /\ booked' = kept
      BY <2>4 DEF Resync
    <3> HIDE DEF kept
    <3> QED
      BY <3>1, <3>2, <3>3, <3>4, ReconciledBounds DEF HeapCovers
  <2>5. CASE ~Resync
    <3>1. ExactlyOnce /\ used' \in Int
      BY <2>1, <2>5, ExactStep
    <3> QED
      BY <2>1, <2>3, <3>1 DEF ExactlyOnce, HeapCovers
  <2> QED
    BY <2>4, <2>5
<1> QED
  BY <1>1, <1>2, Invariance, PTL DEF Spec
=============================================================================
