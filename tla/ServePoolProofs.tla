-------------------------- MODULE ServePoolProofs --------------------------
(***************************************************************************)
(* Proofs about ServePool, for any workers, sizes, calls and batches.      *)
(*                                                                         *)
(* A call a worker has is a call the pool tracks with that worker (Own),   *)
(* has not been reported and is not also waiting (Once); a process is in   *)
(* the registry as long as it lives and the registry knows nobody the pool *)
(* forgot (Procs); what is planned and not started is apart from what ran  *)
(* or failed, and a worker to be spawned is unknown to anybody else        *)
(* (PumpOK).  With these, a completion that is absorbed is the only call   *)
(* of its worker, and a worker that leaves takes no call with it.          *)
(***************************************************************************)
EXTENDS ServePool, SetSumsProofs

Has(w, o) == o \in mail[w] \/ cur[w] = o

Own == \A w \in Workers : \A o \in Ops : Has(w, o) => by[o] = w

Once == \A w \in Workers :
          /\ cur[w] \notin mail[w]
          /\ \A o \in Ops : Has(w, o) => o \notin landed \cup todo \cup failed

Procs == \A w \in Workers :
  /\ proc[w] = "running" <=> cur[w] \in Ops
  /\ proc[w] = "parked" => mail[w] = {}
  /\ proc[w] # "none" => w \in info
  /\ w \notin info => mail[w] = {}
  /\ w \in info => pool[w] # "out" /\ w \notin exits

PumpOK ==
  /\ \A o \in todo : o \notin landed \cup failed /\ by[o] \in Workers
  /\ \A o \in failed : by[o] \notin info
  /\ \A w \in spawning : /\ pool[w] = "busy" /\ w \notin info /\ w \notin exits
                         /\ \E o \in todo : by[o] = w
  /\ pc = "window" => todo = {}
  /\ pc \in {"window", "plan"} => failed = {}
  /\ pc = "boot" => /\ booting \in Workers /\ pool[booting] = "busy"
                    /\ \A o \in todo : by[o] # booting

\* OneCallAtATime, a call at a time.
OneCall == \A w \in Workers :
  /\ pool[w] = "idle" => \A o \in Ops : by[o] # w /\ ~Has(w, o)
  /\ pool[w] = "busy" => \E o \in Ops : by[o] = w /\ \A x \in Ops : by[x] = w => x = o

Inductive == TypeOK /\ IndexExact /\ OneCall /\ NoLostCall /\ Own /\ Once /\ Procs /\ PumpOK

-----------------------------------------------------------------------------
(* What the invariant says *)

LEMMA CurTyped ==
  ASSUME Inductive, NEW w \in Workers
  PROVE  /\ cur[w] = NoOp <=> cur[w] \notin Ops
         /\ proc[w] # "running" => cur[w] = NoOp
  BY ServeAssumption DEF Inductive, TypeOK, Procs, ServeAssumption

LEMMA OneCallSays == Inductive => OneCallAtATime
<1> SUFFICES ASSUME Inductive, NEW w \in Workers
             PROVE  LET mine == {o \in Ops : by[o] = w} IN
                    /\ pool[w] = "idle" => mine = {} /\ mail[w] = {} /\ cur[w] = NoOp
                    /\ pool[w] = "busy" => \E o \in Ops : mine = {o}
                                              /\ mail[w] \cup {cur[w]} \subseteq {o, NoOp}
  BY DEF OneCallAtATime
<1>1. ASSUME pool[w] = "idle"
      PROVE  {o \in Ops : by[o] = w} = {} /\ mail[w] = {} /\ cur[w] = NoOp
  <2>1. \A o \in Ops : by[o] # w /\ o \notin mail[w] /\ cur[w] # o
    BY <1>1 DEF Inductive, OneCall, Has
  <2>2. mail[w] \subseteq Ops
    BY DEF Inductive, TypeOK
  <2> QED
    BY <2>1, <2>2, CurTyped
<1>2. ASSUME pool[w] = "busy"
      PROVE  \E o \in Ops : {x \in Ops : by[x] = w} = {o}
                            /\ mail[w] \cup {cur[w]} \subseteq {o, NoOp}
  <2>1. PICK o \in Ops : by[o] = w /\ \A x \in Ops : by[x] = w => x = o
    BY <1>2 DEF Inductive, OneCall
  <2>2. mail[w] \subseteq Ops /\ \A x \in Ops : x \in mail[w] \/ cur[w] = x => x = o
    BY <2>1 DEF Inductive, TypeOK, Own, Has
  <2>3. {x \in Ops : by[x] = w} = {o}
    BY <2>1
  <2>4. mail[w] \cup {cur[w]} \subseteq {o, NoOp}
    BY <2>2, CurTyped
  <2> QED
    BY <2>3, <2>4
<1> QED
  BY <1>1, <1>2

LEMMA OneOutcomeSays == Inductive => OneOutcome
  BY DEF Inductive, OneOutcome, Own, Once, Has

\* A registered worker has at most the call it is tracked with.
LEMMA AtMostOne ==
  ASSUME Inductive, NEW w \in info, NEW o \in Ops, NEW x \in Ops, Has(w, o), by[x] = w
  PROVE  x = o
<1>1. w \in Workers /\ by[o] = w /\ pool[w] \in {"idle", "busy"}
  BY DEF Inductive, TypeOK, Own, Procs
<1>2. pool[w] = "busy"
  BY <1>1 DEF Inductive, OneCall
<1> QED
  BY <1>1, <1>2 DEF Inductive, OneCall

-----------------------------------------------------------------------------
(* What the helpers do *)

LEMMA NoteFacts ==
  ASSUME TypeOK, IndexExact, NEW E, NEW F, Note(E, F)
  PROVE  /\ pool' \in [Workers -> {"out", "idle", "busy"}]
         /\ listed' \in [Workers -> Nat]
         /\ IndexExact'
         /\ \A w \in Workers :
              pool'[w] = IF pool[w] = "out" \/ w \in E THEN "out"
                         ELSE IF w \in F THEN "idle" ELSE pool[w]
<1>1. \A w \in Workers :
        /\ pool[w] \in {"out", "idle", "busy"} /\ listed[w] = IF pool[w] = "idle" THEN 1 ELSE 0
        /\ pool'[w] = Freed(w, E, F) /\ listed'[w] = Relisted(w, E, F)
  BY DEF Note, TypeOK, IndexExact
<1>2. \A w \in Workers :
        pool'[w] = IF pool[w] = "out" \/ w \in E THEN "out"
                   ELSE IF w \in F THEN "idle" ELSE pool[w]
  BY <1>1 DEF Freed
<1>3. \A w \in Workers : listed'[w] = IF pool'[w] = "idle" THEN 1 ELSE 0
  BY <1>1, <1>2 DEF Relisted
<1>4. \A w \in Workers : pool'[w] \in {"out", "idle", "busy"} /\ listed'[w] \in Nat
  BY <1>1, <1>2, <1>3
<1> QED
  BY <1>2, <1>3, <1>4 DEF Note, IndexExact

LEMMA LoopFacts ==
  ASSUME TypeOK, NEW w \in Workers, Loop(w, mail[w])
  PROVE  /\ mail' \in [Workers -> SUBSET Ops] /\ cur' \in [Workers -> Ops \cup {NoOp}]
         /\ proc' \in [Workers -> {"none", "boot", "parked", "poked", "running"}]
         /\ \A v \in Workers : v # w => UNCHANGED <<mail[v], cur[v], proc[v]>>
         /\ \/ proc'[w] = "parked" /\ mail[w] = {} /\ mail'[w] = {} /\ cur'[w] = NoOp
            \/ /\ proc'[w] = "running" /\ cur'[w] \in mail[w]
               /\ mail'[w] = mail[w] \ {cur'[w]}
  BY DEF TypeOK, Loop

LEMMA AtExitFacts ==
  ASSUME TypeOK, NEW W \in SUBSET Workers, AtExit(W)
  PROVE  /\ mail' \in [Workers -> SUBSET Ops] /\ cur' \in [Workers -> Ops \cup {NoOp}]
         /\ proc' \in [Workers -> {"none", "boot", "parked", "poked", "running"}]
         /\ landed' \subseteq Ops /\ info' = info \ W /\ exits' = exits \cup W
         /\ \A v \in Workers \ W : UNCHANGED <<mail[v], cur[v], proc[v]>>
         /\ \A v \in W : mail'[v] = {} /\ cur'[v] = NoOp /\ proc'[v] = "none"
         /\ \A o \in Ops : o \in landed' <=> o \in landed \/ \E w \in W : cur[w] = o
  BY ServeAssumption DEF TypeOK, AtExit, ServeAssumption

LEMMA TakeIsIdle ==
  ASSUME IndexExact, NEW r, NEW R, NEW p \in PlanTake(r, R)
  PROVE  /\ p.take \subseteq Workers \ R
         /\ \A w \in p.take : pool[w] = "idle"
<1>1. p.take \subseteq Idle(r.kind, R)
  <2>1. CASE r.kind = "hack"
    BY <2>1 DEF PlanTake, Smallest
  <2>2. CASE r.kind # "hack"
    BY <2>2 DEF PlanTake, Composed, Smallest
  <2> QED
    BY <2>1, <2>2
<1>2. \A w \in Idle(r.kind, R) : w \in Workers \ R /\ pool[w] = "idle"
  BY DEF Idle, IndexExact
<1> QED
  BY <1>1, <1>2

\* Each worker of a launch is given one new call.
LEMMA EmitFacts ==
  ASSUME Inductive, NEW t, NEW slots, NEW new,
         \A x, y \in slots : x[2] = y[2] => x = y,
         Emit(slots, new, t)
  PROVE  \E C \in SUBSET NewOps(t) :
           /\ todo' = todo \cup C
           /\ \A o \in Ops \ C : by'[o] = by[o]
           /\ \A o \in C : \E x \in slots : by'[o] = x[2]
           /\ \A x \in slots : \E o \in C : /\ by'[o] = x[2]
                                            /\ \A y \in C : by'[y] = x[2] => y = o
<1>1. PICK call \in [slots -> NewOps(t)] :
        /\ \A x, y \in slots : x # y => call[x] # call[y]
        /\ by' = [o \in Ops |-> IF \E x \in slots : call[x] = o
                                  THEN (CHOOSE x \in slots : call[x] = o)[2] ELSE by[o]]
        /\ todo' = todo \cup {call[x] : x \in slots}
  BY DEF Emit
<1> DEFINE C == {call[x] : x \in slots}
<1>2. C \subseteq NewOps(t) /\ NewOps(t) \subseteq Ops
  BY <1>1 DEF NewOps
<1>3. ASSUME NEW x \in slots
      PROVE  call[x] \in C /\ by'[call[x]] = x[2]
  <2>1. (CHOOSE y \in slots : call[y] = call[x]) = x
    BY <1>1
  <2> QED
    BY <1>1, <1>2, <2>1
<1>4. \A o \in Ops \ C : by'[o] = by[o]
  BY <1>1
<1>5. \A o \in C : \E x \in slots : by'[o] = x[2]
  BY <1>3
<1>6. ASSUME NEW x \in slots
      PROVE  \E o \in C : by'[o] = x[2] /\ \A y \in C : by'[y] = x[2] => y = o
  <2>1. ASSUME NEW o \in C, by'[o] = x[2]
        PROVE  o = call[x]
    <3>1. PICK y \in slots : o = call[y]
      OBVIOUS
    <3> QED
      BY <1>3, <2>1, <3>1
  <2> QED
    BY <1>3, <2>1
<1> QED
  BY <1>1, <1>2, <1>4, <1>5, <1>6

-----------------------------------------------------------------------------
(* Each action keeps it *)

LEMMA InitInductive == Init => Inductive
<1> SUFFICES ASSUME Init PROVE Inductive
  OBVIOUS
<1> USE ServeAssumption DEF Init, ServeAssumption
<1>1. TypeOK /\ IndexExact
  BY DEF TypeOK, IndexExact
<1>2. OneCall /\ NoLostCall /\ Own /\ Once
  BY DEF OneCall, NoLostCall, Own, Once, Has, Tracked
<1>3. Procs /\ PumpOK
  BY DEF Procs, PumpOK
<1> QED
  BY <1>1, <1>2, <1>3 DEF Inductive

\* A launch: any set of idle and of new workers, a new call for each.
LEMMA EmitStep ==
  ASSUME Inductive, pc = "plan", NEW t, NEW slots, NEW new,
         \A x, y \in slots : x[2] = y[2] => x = y,
         \A x \in slots : x[2] \in Workers /\ (pool[x[2]] = "idle" \/ x[2] \in new),
         new \subseteq NewWorkers, \A w \in new : \E x \in slots : x[2] = w,
         Emit(slots, new, t)
  PROVE  Inductive'
<1> DEFINE W == {x[2] : x \in slots}
<1>0. /\ W \subseteq Workers /\ new \subseteq W \cap NewWorkers
      /\ \A w \in W : pool[w] = "idle" \/ w \in new
  OBVIOUS
<1>1. PICK C \in SUBSET NewOps(t) :
        /\ todo' = todo \cup C
        /\ \A o \in Ops \ C : by'[o] = by[o]
        /\ \A o \in C : by'[o] \in W
        /\ \A w \in W : \E o \in C : by'[o] = w /\ \A x \in C : by'[x] = w => x = o
  <2>1. PICK C \in SUBSET NewOps(t) :
           /\ todo' = todo \cup C
           /\ \A o \in Ops \ C : by'[o] = by[o]
           /\ \A o \in C : \E x \in slots : by'[o] = x[2]
           /\ \A x \in slots : \E o \in C : /\ by'[o] = x[2]
                                            /\ \A y \in C : by'[y] = x[2] => y = o
    BY EmitFacts
  <2>2. ASSUME NEW w \in W
        PROVE  \E o \in C : by'[o] = w /\ \A x \in C : by'[x] = w => x = o
    <3>1. PICK x \in slots : x[2] = w
      OBVIOUS
    <3> QED
      BY <2>1, <3>1
  <2>3. \A o \in C : by'[o] \in W
    BY <2>1
  <2> QED
    BY <2>1, <2>2, <2>3
<1>2. /\ pool' = [w \in Workers |-> IF w \in W THEN "busy" ELSE pool[w]]
      /\ listed' = [w \in Workers |-> IF w \in W /\ pool[w] = "idle" /\ listed[w] > 0
                                        THEN listed[w] - 1 ELSE listed[w]]
      /\ spawning' = spawning \cup new
      /\ UNCHANGED <<info, mail, proc, cur, landed, exits, pc, failed, booting, ready>>
  BY DEF Emit, worker, done, boot
<1> HIDE DEF W
<1>3. \A o \in C : /\ o \in Ops /\ by[o] = Nobody /\ o \notin landed
                   /\ \A w \in Workers : ~Has(w, o)
  BY DEF NewOps, Has
<1>4. \A w \in W : \A o \in Ops : by[o] # w
  BY <1>0 DEF Inductive, OneCall, NewWorkers
<1>5. \A w \in new : pool[w] = "out" /\ w \notin info \cup exits
  BY DEF NewWorkers
<1>6. Nobody \notin Workers /\ \A o \in C : o \notin todo
  BY <1>3, ServeAssumption DEF Inductive, PumpOK, ServeAssumption
<1>7. \A w \in Workers, o \in Ops : Has(w, o)' <=> Has(w, o)
  BY <1>2 DEF Has
<1>11. TypeOK'
  <2>1. by' \in [Ops -> Workers \cup {Nobody}]
    <3>1. by' = [o \in Ops |-> by'[o]]
      BY DEF Emit
    <3> QED
      BY <1>0, <1>1, <3>1 DEF Inductive, TypeOK
  <2> QED
    BY <1>0, <1>1, <1>2, <1>3, <2>1 DEF Inductive, TypeOK, IndexExact
<1>12. IndexExact'
  BY <1>0, <1>2, <1>5 DEF Inductive, IndexExact, TypeOK
<1>13. OneCall'
  <2> SUFFICES ASSUME NEW w \in Workers
               PROVE  /\ pool'[w] = "idle" => \A o \in Ops : by'[o] # w /\ ~Has(w, o)'
                      /\ pool'[w] = "busy" => \E o \in Ops : by'[o] = w
                                                /\ \A x \in Ops : by'[x] = w => x = o
    BY DEF OneCall
  <2>1. CASE w \in W
    <3>1. PICK o \in C : by'[o] = w /\ \A x \in C : by'[x] = w => x = o
      BY <1>0, <1>1, <2>1
    <3>2. \A x \in Ops : by'[x] = w => x = o
      BY <1>1, <1>4, <2>1, <3>1
    <3> QED
      BY <1>2, <1>3, <2>1, <3>1, <3>2
  <2>2. CASE w \notin W
    <3>1. pool'[w] = pool[w] /\ \A o \in Ops : by'[o] = w <=> by[o] = w
      BY <1>0, <1>1, <1>2, <1>3, <1>6, <2>2
    <3> QED
      BY <1>7, <3>1 DEF Inductive, OneCall
  <2> QED
    BY <2>1, <2>2
<1>14. NoLostCall'
  BY <1>0, <1>1, <1>2 DEF Inductive, NoLostCall, Tracked
<1>15. Own'
  BY <1>0, <1>1, <1>3, <1>7 DEF Inductive, Own
<1>16. Once'
  BY <1>0, <1>1, <1>2, <1>3, <1>7 DEF Inductive, Once
<1>17. Procs'
  BY <1>2 DEF Inductive, Procs
<1>18. PumpOK'
  <2>1. \A o \in todo' : o \notin landed' \cup failed' /\ by'[o] \in Workers
    BY <1>0, <1>1, <1>2, <1>3, <1>6 DEF Inductive, PumpOK, TypeOK
  <2>2. ASSUME NEW w \in spawning'
        PROVE  /\ pool'[w] = "busy" /\ w \notin info' /\ w \notin exits'
               /\ \E o \in todo' : by'[o] = w
    <3>1. CASE w \in spawning
      <4>1. PICK o \in todo : by[o] = w
        BY <3>1 DEF Inductive, PumpOK
      <4>2. o \in Ops \ C
        BY <1>6 DEF Inductive, TypeOK
      <4> QED
        BY <1>0, <1>1, <1>2, <3>1, <4>1, <4>2 DEF Inductive, PumpOK, TypeOK
    <3>2. CASE w \in new
      BY <1>0, <1>1, <1>2, <1>5, <3>2
    <3> QED
      BY <1>2, <3>1, <3>2
  <2> QED
    BY <1>2, <2>1, <2>2 DEF Inductive, PumpOK
<1> QED
  BY <1>11, <1>12, <1>13, <1>14, <1>15, <1>16, <1>17, <1>18 DEF Inductive

LEMMA Pairs ==
  \A n, S : /\ \A x \in {n} \X S : x = <<n, x[2]>> /\ x[2] \in S
            /\ \A w \in S : <<n, w>> \in {n} \X S /\ <<n, w>>[2] = w
  OBVIOUS

LEMMA LaunchJitStep ==
  ASSUME Inductive, NEW r, NEW t, LaunchJit(r, t)
  PROVE  Inductive'
<1>0. PICK p \in PlanTake(r, {}) :
        pc = "plan" /\ \E B \in Blocks(r.kind, p.miss, {}) : Emit({1} \X (p.take \cup B), B, t)
  BY DEF LaunchJit
<1>1. PICK B \in Blocks(r.kind, p.miss, {}) : Emit({1} \X (p.take \cup B), B, t)
  BY <1>0
<1>2. /\ p.take \subseteq Workers /\ \A w \in p.take : pool[w] = "idle"
      /\ B \subseteq NewWorkers /\ NewWorkers \subseteq Workers
  BY TakeIsIdle DEF Inductive, Blocks, NewWorkers
<1> DEFINE slots == {1} \X (p.take \cup B)
<1>3. /\ \A x, y \in slots : x[2] = y[2] => x = y
      /\ \A x \in slots : x[2] \in p.take \cup B
      /\ \A w \in B : \E x \in slots : x[2] = w
  <2>1. \A w \in B : <<1, w>> \in slots /\ <<1, w>>[2] = w
    OBVIOUS
  <2>2. \A x \in slots : x = <<1, x[2]>> /\ x[2] \in p.take \cup B
    BY Pairs
  <2> QED
    BY <2>1, <2>2
<1>4. Emit(slots, B, t)
  BY <1>1
<1> HIDE DEF slots
<1> QED
  BY <1>0, <1>2, <1>3, <1>4, EmitStep

LEMMA LaunchEagerStep ==
  ASSUME Inductive, NEW r, NEW q, NEW t, LaunchEager(r, q, t)
  PROVE  Inductive'
<1>a. PICK p \in PlanTake(r, {}) :
        pc = "plan" /\ \E s \in PlanTake(q, Reserved(p)) :
          \E B \in Blocks(r.kind, p.miss, {}) : \E C \in Blocks(q.kind, s.miss, B) :
            Emit(({1} \X (p.take \cup B)) \cup ({2} \X (s.take \cup C)), B \cup C, t)
  BY DEF LaunchEager
<1>b. PICK s \in PlanTake(q, Reserved(p)) :
        \E B \in Blocks(r.kind, p.miss, {}) : \E C \in Blocks(q.kind, s.miss, B) :
          Emit(({1} \X (p.take \cup B)) \cup ({2} \X (s.take \cup C)), B \cup C, t)
  BY <1>a
<1>c. PICK B \in Blocks(r.kind, p.miss, {}) : \E C \in Blocks(q.kind, s.miss, B) :
        Emit(({1} \X (p.take \cup B)) \cup ({2} \X (s.take \cup C)), B \cup C, t)
  BY <1>b
<1>1. PICK C \in Blocks(q.kind, s.miss, B) :
        Emit(({1} \X (p.take \cup B)) \cup ({2} \X (s.take \cup C)), B \cup C, t)
  BY <1>c
<1>2. /\ p.take \subseteq Workers /\ \A w \in p.take : pool[w] = "idle"
      /\ s.take \subseteq Workers \ p.take /\ \A w \in s.take : pool[w] = "idle"
  BY TakeIsIdle DEF Inductive, Reserved
<1>3. /\ B \subseteq NewWorkers /\ C \subseteq NewWorkers \ B
      /\ NewWorkers \subseteq Workers /\ \A w \in NewWorkers : pool[w] = "out"
  BY DEF Blocks, NewWorkers
<1> DEFINE slots == ({1} \X (p.take \cup B)) \cup ({2} \X (s.take \cup C))
<1>4. /\ \A x \in slots : x[2] \in (p.take \cup B) \cup (s.take \cup C)
      /\ \A w \in B \cup C : \E x \in slots : x[2] = w
  <2>1. \A w \in B : <<1, w>> \in slots /\ <<1, w>>[2] = w
    OBVIOUS
  <2>2. \A w \in C : <<2, w>> \in slots /\ <<2, w>>[2] = w
    OBVIOUS
  <2> QED
    BY <2>1, <2>2, Pairs
<1>5. (p.take \cup B) \cap (s.take \cup C) = {}
  BY <1>2, <1>3
<1>6. \A x, y \in slots : x[2] = y[2] => x = y
  BY <1>5, Pairs
<1>7. \A x \in slots : x[2] \in Workers /\ (pool[x[2]] = "idle" \/ x[2] \in B \cup C)
  BY <1>2, <1>3, <1>4
<1>8. Emit(slots, B \cup C, t) /\ B \cup C \subseteq NewWorkers
  BY <1>1, <1>3
<1> HIDE DEF slots
<1> QED
  BY <1>a, <1>4, <1>6, <1>7, <1>8, EmitStep

\* Completions of D and every exit are absorbed.
LEMMA DrainStep ==
  ASSUME Inductive, NEW D \in SUBSET landed, Drain(D)
  PROVE  Inductive'
<1>1. /\ pc = "window" /\ pc' = "plan"
      /\ by' = [o \in Ops |-> IF o \in D THEN Nobody ELSE by[o]]
      /\ landed' = landed \ D /\ exits' = {}
      /\ UNCHANGED <<info, mail, proc, cur, todo, spawning, failed, booting, ready>>
  BY DEF Drain, worker, pump, boot
<1> DEFINE F == {by[o] : o \in D}
<1>2. /\ pool' \in [Workers -> {"out", "idle", "busy"}] /\ listed' \in [Workers -> Nat]
      /\ IndexExact'
      /\ \A w \in Workers :
           pool'[w] = IF pool[w] = "out" \/ w \in exits THEN "out"
                      ELSE IF w \in F THEN "idle" ELSE pool[w]
  BY NoteFacts DEF Drain, Inductive
<1>3. D \subseteq Ops /\ Nobody \notin Workers
  BY ServeAssumption DEF Inductive, TypeOK, ServeAssumption
<1>4. \A w \in Workers, o \in Ops : Has(w, o)' <=> Has(w, o)
  BY <1>1 DEF Has
<1>5. ASSUME NEW w \in F, w \in Workers, pool[w] # "out"
      PROVE  \A o \in Ops : by'[o] # w /\ ~Has(w, o)
  <2>1. PICK o \in D : by[o] = w
    OBVIOUS
  <2>2. pool[w] = "busy"
    BY <1>3, <1>5, <2>1 DEF Inductive, OneCall, TypeOK
  <2>3. \A x \in Ops : by[x] = w => x = o
    BY <1>3, <1>5, <2>1, <2>2 DEF Inductive, OneCall
  <2>4. \A x \in Ops : by'[x] # w
    BY <1>1, <1>3, <1>5, <2>3
  <2>5. \A x \in Ops : ~Has(w, x)
    BY <1>5, <2>1, <2>3 DEF Inductive, Own, Once
  <2> QED
    BY <2>4, <2>5
<1>6. TypeOK'
  BY <1>1, <1>2 DEF Inductive, TypeOK
<1>7. OneCall'
  <2> SUFFICES ASSUME NEW w \in Workers
               PROVE  /\ pool'[w] = "idle" => \A o \in Ops : by'[o] # w /\ ~Has(w, o)'
                      /\ pool'[w] = "busy" => \E o \in Ops : by'[o] = w
                                                /\ \A x \in Ops : by'[x] = w => x = o
    BY DEF OneCall
  <2>1. CASE w \in F /\ pool[w] # "out"
    BY <1>2, <1>4, <1>5, <2>1
  <2>2. CASE w \notin F
    <3>1. \A o \in Ops : by'[o] = w <=> by[o] = w
      BY <1>1, <1>3, <2>2
    <3> QED
      BY <1>2, <1>4, <2>2, <3>1 DEF Inductive, OneCall
  <2>3. CASE pool[w] = "out"
    BY <1>2, <2>3
  <2> QED
    BY <2>1, <2>2, <2>3
<1>8. NoLostCall'
  BY <1>1, <1>3 DEF Inductive, NoLostCall, Tracked
<1>9. Own'
  BY <1>1, <1>3, <1>4 DEF Inductive, Own, Once
<1>10. Once'
  BY <1>1, <1>4 DEF Inductive, Once
<1>11. Procs'
  BY <1>1, <1>2 DEF Inductive, Procs, TypeOK
<1>12. PumpOK'
  <2>1. todo = {} /\ failed = {} /\ spawning = {}
    BY <1>1 DEF Inductive, PumpOK
  <2> QED
    BY <1>1, <2>1 DEF PumpOK
<1> QED
  BY <1>2, <1>6, <1>7, <1>8, <1>9, <1>10, <1>11, <1>12 DEF Inductive

LEMMA PlannedStep ==
  ASSUME Inductive, Planned
  PROVE  Inductive'
<1>1. pc = "plan" /\ pc' = "start"
      /\ UNCHANGED <<pool, listed, by, info, mail, proc, cur, landed, exits,
                     todo, spawning, failed, booting, ready>>
  BY DEF Planned, memory, worker, done, pump, boot
<1>2. TypeOK' /\ IndexExact' /\ OneCall' /\ NoLostCall'
  BY <1>1 DEF Inductive, TypeOK, IndexExact, OneCall, NoLostCall, Tracked, Has
<1>3. Own' /\ Once' /\ Procs' /\ PumpOK'
  BY <1>1 DEF Inductive, Own, Once, Procs, PumpOK, Has
<1> QED
  BY <1>2, <1>3 DEF Inductive

\* A call of a worker that is gone fails; another is in its mailbox, once.
LEMMA PostStep ==
  ASSUME Inductive, NEW o \in Ops, Post(o)
  PROVE  Inductive'
<1> DEFINE w == by[o]
<1>1. /\ pc = "start" /\ o \in todo /\ w \in Workers /\ w \notin spawning
      /\ todo' = todo \ {o} /\ o \notin landed \cup failed
      /\ \A v \in Workers : ~Has(v, o)
      /\ UNCHANGED <<pool, listed, by, info, cur, landed, exits, pc, spawning, booting, ready>>
  BY DEF Post, Inductive, PumpOK, Once, memory, done, boot
<1>2. CASE w \in info
  <2>1. /\ mail' = [mail EXCEPT ![w] = @ \cup {o}]
        /\ proc' = [proc EXCEPT ![w] = IF @ = "parked" THEN "poked" ELSE @]
        /\ failed' = failed
    BY <1>2 DEF Post
  <2>2. /\ mail' \in [Workers -> SUBSET Ops] /\ mail'[w] = mail[w] \cup {o}
        /\ proc' \in [Workers -> {"none", "boot", "parked", "poked", "running"}]
        /\ proc'[w] = IF proc[w] = "parked" THEN "poked" ELSE proc[w]
        /\ \A v \in Workers : v # w => mail'[v] = mail[v] /\ proc'[v] = proc[v]
    BY <1>1, <2>1 DEF Inductive, TypeOK
  <2>3. \A v \in Workers, x \in Ops : Has(v, x)' <=> Has(v, x) \/ (v = w /\ x = o)
    BY <1>1, <2>2 DEF Has
  <2> HIDE DEF w
  <2>4. TypeOK' /\ IndexExact'
    BY <1>1, <2>1, <2>2 DEF Inductive, TypeOK, IndexExact
  <2>5. OneCall'
    BY <1>1, <2>3 DEF Inductive, OneCall, w
  <2>6. NoLostCall'
    BY <1>1, <1>2, <2>1, <2>2 DEF Inductive, NoLostCall, Tracked, w
  <2>7. Own'
    BY <1>1, <2>3 DEF Inductive, Own, w
  <2>8. Once'
    <3>1. \A v \in Workers : cur'[v] \notin mail'[v]
      BY <1>1, <2>2 DEF Inductive, Once, Has
    <3> QED
      BY <1>1, <2>1, <2>3, <3>1 DEF Inductive, Once
  <2>9. Procs'
    BY <1>1, <1>2, <2>2 DEF Inductive, Procs
  <2>10. PumpOK'
    BY <1>1, <2>1 DEF Inductive, PumpOK, w
  <2> QED
    BY <2>4, <2>5, <2>6, <2>7, <2>8, <2>9, <2>10 DEF Inductive
<1>3. CASE w \notin info
  <2>1. failed' = failed \cup {o} /\ UNCHANGED <<mail, proc>>
    BY <1>3 DEF Post
  <2>2. TypeOK' /\ IndexExact' /\ OneCall' /\ NoLostCall'
    BY <1>1, <2>1 DEF Inductive, TypeOK, IndexExact, OneCall, NoLostCall, Tracked, Has
  <2>3. Own' /\ Once' /\ Procs'
    BY <1>1, <2>1 DEF Inductive, Own, Once, Procs, Has
  <2>4. PumpOK'
    BY <1>1, <1>3, <2>1 DEF Inductive, PumpOK
  <2> QED
    BY <2>2, <2>3, <2>4 DEF Inductive
<1> QED
  BY <1>2, <1>3

LEMMA RefuseStep ==
  ASSUME Inductive, NEW o \in Ops, Refuse(o)
  PROVE  Inductive'
<1>1. /\ pc = "start" /\ o \in todo /\ by[o] \in spawning
      /\ todo' = todo \ {o} /\ spawning' = spawning \ {by[o]} /\ failed' = failed \cup {o}
      /\ UNCHANGED <<pool, listed, by, info, mail, proc, cur, landed, exits, pc, booting, ready>>
  BY DEF Refuse, memory, worker, done, boot
<1>2. TypeOK' /\ IndexExact' /\ OneCall' /\ NoLostCall'
  BY <1>1 DEF Inductive, TypeOK, IndexExact, OneCall, NoLostCall, Tracked, Has
<1>3. Own' /\ Once' /\ Procs'
  BY <1>1 DEF Inductive, Own, Once, Procs, Has
<1>4. PumpOK'
  BY <1>1 DEF Inductive, PumpOK
<1> QED
  BY <1>2, <1>3, <1>4 DEF Inductive

\* The worker executed was unknown to anybody, and its call is its only one.
LEMMA ExecStep ==
  ASSUME Inductive, NEW o \in Ops, Exec(o)
  PROVE  Inductive'
<1> DEFINE w == by[o]
<1>1. /\ pc = "start" /\ pc' = "boot" /\ o \in todo /\ w \in spawning
      /\ todo' = todo \ {o} /\ spawning' = spawning \ {w} /\ info' = info \cup {w}
      /\ booting' = w /\ ready' = FALSE
      /\ UNCHANGED <<pool, listed, by, cur, landed, exits, failed>>
  BY DEF Exec, memory, done
<1>2. /\ w \in Workers /\ pool[w] = "busy" /\ w \notin info \cup exits
      /\ o \notin landed \cup failed
      /\ \A x \in Ops : by[x] = w => x = o
      /\ \A v \in Workers : ~Has(v, o)
  BY <1>1 DEF Inductive, PumpOK, TypeOK, OneCall, Once
<1>3. /\ mail' \in [Workers -> SUBSET Ops] /\ mail'[w] = {o} /\ proc'[w] = "boot"
      /\ proc' \in [Workers -> {"none", "boot", "parked", "poked", "running"}]
      /\ \A v \in Workers : v # w => mail'[v] = mail[v] /\ proc'[v] = proc[v]
  BY <1>2 DEF Exec, Inductive, TypeOK
<1>4. cur[w] \notin Ops
  BY <1>2 DEF Inductive, Procs
<1>5. \A v \in Workers, x \in Ops :
        Has(v, x)' <=> (v # w /\ Has(v, x)) \/ (v = w /\ x = o)
  BY <1>1, <1>3, <1>4 DEF Has
<1>6. by[o] = w
  OBVIOUS
<1> HIDE DEF w
<1>7. TypeOK' /\ IndexExact'
  BY <1>1, <1>2, <1>3 DEF Inductive, TypeOK, IndexExact
<1>8. OneCall'
  BY <1>1, <1>2, <1>5 DEF Inductive, OneCall
<1>9. NoLostCall'
  <2> SUFFICES ASSUME NEW x \in Ops, by[x] # Nobody
               PROVE  \/ x \in todo' \cup failed' \cup landed'
                      \/ by[x] \in info' /\ (cur'[by[x]] = x \/ x \in mail'[by[x]])
    BY <1>1 DEF NoLostCall, Tracked
  <2>1. CASE x = o
    BY <1>1, <1>3, <1>6, <2>1
  <2>2. CASE x # o
    <3>1. by[x] \in Workers /\ by[x] # w
      BY <1>2, <2>2 DEF Inductive, TypeOK
    <3>2. \/ x \in todo \cup failed \cup landed
          \/ by[x] \in info /\ (cur[by[x]] = x \/ x \in mail[by[x]])
      BY DEF Inductive, NoLostCall, Tracked
    <3> QED
      BY <1>1, <1>3, <2>2, <3>1, <3>2
  <2> QED
    BY <2>1, <2>2
<1>10. Own'
  BY <1>1, <1>5, <1>6 DEF Inductive, Own
<1>11. Once'
  BY <1>1, <1>2, <1>3, <1>4, <1>5 DEF Inductive, Once
<1>12. Procs'
  BY <1>1, <1>2, <1>3, <1>4 DEF Inductive, Procs
<1>13. PumpOK'
  BY <1>1, <1>2, <1>6 DEF Inductive, PumpOK, TypeOK
<1> QED
  BY <1>7, <1>8, <1>9, <1>10, <1>11, <1>12, <1>13 DEF Inductive

LEMMA ResumeStep ==
  ASSUME Inductive, Resume
  PROVE  Inductive'
<1>1. /\ pc = "boot" /\ pc' = "start" /\ booting' = Nobody /\ ready' = FALSE
      /\ UNCHANGED <<pool, listed, by, info, mail, proc, cur, landed, exits,
                     todo, spawning, failed>>
  BY DEF Resume, memory, worker, done, pump
<1>2. TypeOK' /\ IndexExact' /\ OneCall' /\ NoLostCall'
  <2>1. TypeOK' /\ IndexExact'
    BY <1>1 DEF Inductive, TypeOK, IndexExact
  <2>2. OneCall' /\ NoLostCall'
    BY <1>1 DEF Inductive, OneCall, NoLostCall, Tracked, Has
  <2> QED
    BY <2>1, <2>2
<1>3. Own' /\ Once' /\ Procs' /\ PumpOK'
  BY <1>1 DEF Inductive, Own, Once, Procs, PumpOK, Has
<1> QED
  BY <1>2, <1>3 DEF Inductive

\* What the worker that died booting was to do has failed.
LEMMA GoneStep ==
  ASSUME Inductive, Gone
  PROVE  Inductive'
<1> DEFINE w == booting
<1>1. /\ pc = "boot" /\ proc[w] = "none" /\ pc' = "start" /\ info' = info \ {w}
      /\ failed' = failed \cup {o \in Ops : by[o] = w}
      /\ booting' = Nobody /\ ready' = FALSE
      /\ UNCHANGED <<pool, listed, by, proc, cur, landed, exits, todo, spawning>>
  BY DEF Gone, memory, done
<1>2. /\ w \in Workers /\ pool[w] = "busy" /\ \A o \in todo : by[o] # w
      /\ cur[w] \notin Ops
  BY <1>1 DEF Inductive, PumpOK, Procs
<1>3. /\ mail' \in [Workers -> SUBSET Ops] /\ mail'[w] = {}
      /\ \A v \in Workers : v # w => mail'[v] = mail[v]
  BY <1>2 DEF Gone, Inductive, TypeOK
<1> HIDE DEF w
<1>4. \A v \in Workers, x \in Ops : Has(v, x)' <=> v # w /\ Has(v, x)
  BY <1>1, <1>2, <1>3 DEF Has
<1>5. TypeOK' /\ IndexExact'
  BY <1>1, <1>3 DEF Inductive, TypeOK, IndexExact
<1>6. OneCall'
  BY <1>1, <1>4 DEF Inductive, OneCall
<1>7. NoLostCall'
  <2> SUFFICES ASSUME NEW x \in Ops, by[x] # Nobody
               PROVE  \/ x \in todo' \cup failed' \cup landed'
                      \/ by[x] \in info' /\ (cur'[by[x]] = x \/ x \in mail'[by[x]])
    BY <1>1 DEF NoLostCall, Tracked
  <2>1. CASE by[x] = w
    BY <1>1, <2>1
  <2>2. CASE by[x] # w
    <3>1. by[x] \in Workers
      BY DEF Inductive, TypeOK
    <3>2. \/ x \in todo \cup failed \cup landed
          \/ by[x] \in info /\ (cur[by[x]] = x \/ x \in mail[by[x]])
      BY DEF Inductive, NoLostCall, Tracked
    <3> QED
      BY <1>1, <1>3, <2>2, <3>1, <3>2
  <2> QED
    BY <2>1, <2>2
<1>8. Own' /\ Once'
  <2>1. \A v \in Workers : cur'[v] \notin mail'[v]
    BY <1>1, <1>2, <1>3 DEF Inductive, Once
  <2> QED
    BY <1>1, <1>4, <2>1 DEF Inductive, Own, Once
<1>9. Procs'
  BY <1>1, <1>2, <1>3 DEF Inductive, Procs
<1>10. PumpOK'
  BY <1>1, <1>2 DEF Inductive, PumpOK, TypeOK
<1> QED
  BY <1>5, <1>6, <1>7, <1>8, <1>9, <1>10 DEF Inductive

\* The workers of the failed calls are not registered, and go with them.
LEMMA ReportFailedStep ==
  ASSUME Inductive, ReportFailed
  PROVE  Inductive'
<1> DEFINE E == {by[o] : o \in failed}
<1>1. /\ pc = "start" /\ todo = {} /\ pc' = "window"
      /\ by' = [o \in Ops |-> IF o \in failed THEN Nobody ELSE by[o]]
      /\ failed' = {}
      /\ UNCHANGED <<info, mail, proc, cur, landed, exits, todo, spawning, booting, ready>>
  BY DEF ReportFailed, worker, done, boot
<1>2. /\ pool' \in [Workers -> {"out", "idle", "busy"}] /\ listed' \in [Workers -> Nat]
      /\ IndexExact'
      /\ \A w \in Workers : pool'[w] = IF pool[w] = "out" \/ w \in E THEN "out" ELSE pool[w]
  BY NoteFacts DEF ReportFailed, Inductive
<1>3. /\ Nobody \notin Workers /\ spawning = {}
      /\ \A w \in E : w \notin info
      /\ failed \subseteq Ops
  BY <1>1, ServeAssumption DEF Inductive, PumpOK, TypeOK, ServeAssumption
<1>4. \A w \in Workers, o \in Ops : Has(w, o)' <=> Has(w, o)
  BY <1>1 DEF Has
<1>5. \A w \in Workers : w \notin E => pool'[w] = pool[w] /\ \A o \in Ops : by'[o] = w <=> by[o] = w
  BY <1>1, <1>2, <1>3
<1>6. \A w \in E : w \in Workers => pool'[w] = "out"
  BY <1>2
<1> HIDE DEF E
<1>7. TypeOK'
  BY <1>1, <1>2 DEF Inductive, TypeOK
<1>8. OneCall'
  BY <1>4, <1>5, <1>6 DEF Inductive, OneCall
<1>9. NoLostCall'
  BY <1>1, <1>3 DEF Inductive, NoLostCall, Tracked
<1>10. Own' /\ Once'
  BY <1>1, <1>3, <1>4 DEF Inductive, Own, Once
<1>11. Procs'
  BY <1>1, <1>3, <1>5 DEF Inductive, Procs
<1>12. PumpOK'
  BY <1>1, <1>3 DEF Inductive, PumpOK
<1> QED
  BY <1>2, <1>7, <1>8, <1>9, <1>10, <1>11, <1>12 DEF Inductive

\* The loop's turn, after the call in flight, if any, was reported.
LEMMA LoopStep ==
  ASSUME Inductive, NEW w \in Workers, proc[w] \in {"boot", "poked", "running"},
         Loop(w, mail[w]), landed' = landed \cup {o \in Ops : cur[w] = o},
         UNCHANGED <<pool, listed, by, info, exits, pc, todo, spawning, failed, booting>>,
         ready' \in BOOLEAN
  PROVE  Inductive'
<1>1. /\ mail' \in [Workers -> SUBSET Ops] /\ cur' \in [Workers -> Ops \cup {NoOp}]
      /\ proc' \in [Workers -> {"none", "boot", "parked", "poked", "running"}]
      /\ \A v \in Workers : v # w => UNCHANGED <<mail[v], cur[v], proc[v]>>
      /\ \/ proc'[w] = "parked" /\ mail[w] = {} /\ mail'[w] = {} /\ cur'[w] = NoOp
         \/ /\ proc'[w] = "running" /\ cur'[w] \in mail[w]
            /\ mail'[w] = mail[w] \ {cur'[w]}
  BY LoopFacts DEF Inductive
<1>2. w \in info /\ mail[w] \subseteq Ops /\ NoOp \notin Ops
  BY ServeAssumption DEF Inductive, Procs, TypeOK, ServeAssumption
<1>3. \A x \in Ops : Has(w, x)' <=> x \in mail[w]
  BY <1>1, <1>2 DEF Has
<1>4. \A v \in Workers, x \in Ops : v # w => (Has(v, x)' <=> Has(v, x))
  BY <1>1 DEF Has
<1>5. \A v \in Workers, x \in Ops : Has(v, x)' => Has(v, x)
  BY <1>3, <1>4 DEF Has
<1>6. \A x \in Ops : cur[w] = x => Has(w, x) /\ x \notin mail[w] /\ by[x] = w
  BY DEF Has, Inductive, Once, Own
<1>7. TypeOK' /\ IndexExact'
  BY <1>1 DEF Inductive, TypeOK, IndexExact
<1>8. OneCall' /\ Own'
  BY <1>5 DEF Inductive, OneCall, Own
<1>9. NoLostCall'
  <2> SUFFICES ASSUME NEW x \in Ops, by[x] # Nobody
               PROVE  \/ x \in todo' \cup failed' \cup landed'
                      \/ by[x] \in info' /\ Has(by[x], x)'
    BY DEF NoLostCall, Tracked, Has
  <2>1. \/ x \in todo \cup failed \cup landed
        \/ by[x] \in info /\ Has(by[x], x)
    BY DEF Inductive, NoLostCall, Tracked, Has
  <2>2. by[x] \in Workers
    BY DEF Inductive, TypeOK
  <2>3. Has(w, x) => cur[w] = x \/ x \in mail[w]
    BY DEF Has
  <2> QED
    BY <1>3, <1>4, <2>1, <2>2, <2>3
<1>10. Once'
  <2>1. \A v \in Workers : cur'[v] \notin mail'[v]
    BY <1>1, <1>2 DEF Inductive, Once
  <2>2. ASSUME NEW v \in Workers, NEW x \in Ops, Has(v, x)'
        PROVE  x \notin landed' \cup todo' \cup failed'
    <3>1. x \notin landed \cup todo \cup failed /\ by[x] = v
      BY <1>5, <2>2 DEF Inductive, Once, Own
    <3>2. cur[w] # x
      BY <1>3, <1>6, <2>2, <3>1
    <3> QED
      BY <3>1, <3>2
  <2> QED
    BY <2>1, <2>2 DEF Once
<1>11. Procs'
  <2>1. ASSUME NEW v \in Workers
        PROVE  /\ proc'[v] = "running" <=> cur'[v] \in Ops
               /\ proc'[v] = "parked" => mail'[v] = {}
               /\ proc'[v] # "none" => v \in info
               /\ v \notin info => mail'[v] = {}
    <3>1. CASE v = w
      BY <1>1, <1>2, <3>1
    <3>2. CASE v # w
      BY <1>1, <3>2 DEF Inductive, Procs
    <3> QED
      BY <3>1, <3>2
  <2> QED
    BY <2>1 DEF Inductive, Procs
<1>12. PumpOK'
  <2>1. \A o \in todo : o \notin landed'
    BY <1>6 DEF Inductive, PumpOK, Once
  <2> QED
    BY <2>1 DEF Inductive, PumpOK
<1> QED
  BY <1>7, <1>8, <1>9, <1>10, <1>11, <1>12 DEF Inductive

LEMMA WorkerStep ==
  ASSUME Inductive, NEW w \in Workers, Boot(w) \/ Take(w) \/ Land(w)
  PROVE  Inductive'
<1>1. CASE Boot(w)
  <2>1. proc[w] = "boot" /\ {o \in Ops : cur[w] = o} = {}
    BY <1>1 DEF Boot, Inductive, Procs
  <2> QED
    BY <1>1, <2>1, LoopStep DEF Boot, memory, done, pump
<1>2. CASE Take(w)
  <2>1. proc[w] = "poked" /\ {o \in Ops : cur[w] = o} = {}
    BY <1>2 DEF Take, Inductive, Procs
  <2>2. ready' \in BOOLEAN
    BY <1>2 DEF Take, boot, Inductive, TypeOK
  <2> QED
    BY <1>2, <2>1, <2>2, LoopStep DEF Take, memory, done, pump, boot
<1>3. CASE Land(w)
  <2>1. proc[w] = "running" /\ {o \in Ops : cur[w] = o} = {cur[w]}
    BY <1>3 DEF Land, Inductive, Procs
  <2>2. ready' \in BOOLEAN
    BY <1>3 DEF Land, boot, Inductive, TypeOK
  <2> QED
    BY <1>3, <2>1, <2>2, LoopStep DEF Land, memory, pump, boot
<1> QED
  BY <1>1, <1>2, <1>3

\* A registered worker leaves: the only call it can have is in flight.
LEMMA LeaveStep ==
  ASSUME Inductive, NEW w \in Workers, IdleOut(w) \/ Killed(w)
  PROVE  Inductive'
<1>1. /\ pc \in {"window", "boot"} /\ proc[w] \in {"parked", "running"} /\ AtExit({w})
      /\ UNCHANGED <<pool, listed, by, pc, todo, spawning, failed, booting, ready>>
  BY DEF IdleOut, Killed, Task, memory, pump, boot
<1>2. /\ mail' \in [Workers -> SUBSET Ops] /\ cur' \in [Workers -> Ops \cup {NoOp}]
      /\ proc' \in [Workers -> {"none", "boot", "parked", "poked", "running"}]
      /\ landed' \subseteq Ops /\ info' = info \ {w} /\ exits' = exits \cup {w}
      /\ \A v \in Workers \ {w} : UNCHANGED <<mail[v], cur[v], proc[v]>>
      /\ mail'[w] = {} /\ cur'[w] = NoOp /\ proc'[w] = "none"
      /\ \A o \in Ops : o \in landed' <=> o \in landed \/ cur[w] = o
  BY <1>1, AtExitFacts DEF Inductive
<1>3. w \in info /\ NoOp \notin Ops /\ w \notin spawning
  BY <1>1, ServeAssumption DEF Inductive, Procs, PumpOK, ServeAssumption
<1>4. \A v \in Workers, x \in Ops : Has(v, x)' <=> v # w /\ Has(v, x)
  BY <1>2, <1>3 DEF Has
<1>5. \A x \in Ops : cur[w] = x => by[x] = w /\ Has(w, x)
  BY DEF Inductive, Own, Has
<1>6. \A x \in Ops : Has(w, x) => cur[w] = x
  <2>1. CASE proc[w] = "parked"
    BY <2>1 DEF Has, Inductive, Procs
  <2>2. CASE proc[w] = "running"
    <3>1. cur[w] \in Ops /\ Has(w, cur[w])
      BY <2>2 DEF Has, Inductive, Procs
    <3> QED
      BY <1>3, <1>5, <3>1, AtMostOne DEF Inductive, Own
  <2> QED
    BY <1>1, <2>1, <2>2
<1>7. TypeOK' /\ IndexExact'
  BY <1>1, <1>2 DEF Inductive, TypeOK, IndexExact
<1>8. OneCall' /\ Own'
  BY <1>1, <1>4 DEF Inductive, OneCall, Own
<1>9. NoLostCall'
  <2> SUFFICES ASSUME NEW x \in Ops, by[x] # Nobody
               PROVE  \/ x \in todo' \cup failed' \cup landed'
                      \/ by[x] \in info' /\ Has(by[x], x)'
    BY <1>1 DEF NoLostCall, Tracked, Has
  <2>1. \/ x \in todo \cup failed \cup landed
        \/ by[x] \in info /\ Has(by[x], x)
    BY DEF Inductive, NoLostCall, Tracked, Has
  <2>2. by[x] \in Workers
    BY DEF Inductive, TypeOK
  <2> QED
    BY <1>1, <1>2, <1>4, <1>6, <2>1, <2>2
<1>10. Once'
  <2>1. \A v \in Workers : cur'[v] \notin mail'[v]
    BY <1>2 DEF Inductive, Once
  <2> QED
    BY <1>1, <1>2, <1>4, <1>5, <2>1 DEF Inductive, Once, Own
<1>11. Procs'
  <2>1. ASSUME NEW v \in Workers
        PROVE  /\ proc'[v] = "running" <=> cur'[v] \in Ops
               /\ proc'[v] = "parked" => mail'[v] = {}
               /\ proc'[v] # "none" => v \in info'
               /\ v \notin info' => mail'[v] = {}
               /\ v \in info' => pool'[v] # "out" /\ v \notin exits'
    <3>1. CASE v = w
      BY <1>2, <1>3, <3>1
    <3>2. CASE v # w
      BY <1>1, <1>2, <3>2 DEF Inductive, Procs
    <3> QED
      BY <3>1, <3>2
  <2> QED
    BY <2>1 DEF Procs
<1>12. PumpOK'
  <2>1. \A o \in todo : o \notin landed'
    BY <1>2, <1>5 DEF Inductive, PumpOK, Once, TypeOK
  <2> QED
    BY <1>1, <1>2, <1>3, <2>1 DEF Inductive, PumpOK
<1> QED
  BY <1>7, <1>8, <1>9, <1>10, <1>11, <1>12 DEF Inductive

LEMMA DiesBootingStep ==
  ASSUME Inductive, NEW w \in Workers, DiesBooting(w)
  PROVE  Inductive'
<1>1. /\ proc[w] = "boot" /\ proc' = [proc EXCEPT ![w] = "none"]
      /\ UNCHANGED <<pool, listed, by, info, mail, cur, landed, exits, pc,
                     todo, spawning, failed, booting, ready>>
  BY DEF DiesBooting, memory, done, pump, boot
<1>2. TypeOK' /\ IndexExact'
  BY <1>1 DEF Inductive, TypeOK, IndexExact
<1>3. OneCall' /\ NoLostCall' /\ Own' /\ Once'
  BY <1>1 DEF Inductive, OneCall, NoLostCall, Own, Once, Tracked, Has
<1>4. Procs'
  BY <1>1 DEF Inductive, Procs, TypeOK
<1>5. PumpOK'
  BY <1>1 DEF Inductive, PumpOK
<1> QED
  BY <1>2, <1>3, <1>4, <1>5 DEF Inductive

\* Nothing is planned while a host is cleared: what its workers had goes with them.
LEMMA CriticalKillStep ==
  ASSUME Inductive, NEW h, CriticalKill(h)
  PROVE  Inductive'
<1> DEFINE V == {w \in Workers \cap info : Host[w] = h /\ pool[w] # "out"}
<1>1. /\ pc = "window" /\ AtExit(V) /\ Note(V, {})
      /\ by' = [o \in Ops |-> IF by[o] \in V THEN Nobody ELSE by[o]]
      /\ UNCHANGED <<pc, todo, spawning, failed, booting, ready>>
  BY DEF CriticalKill, pump, boot
<1>2. V \in SUBSET Workers /\ V \subseteq info
  OBVIOUS
<1> HIDE DEF V
<1>3. /\ mail' \in [Workers -> SUBSET Ops] /\ cur' \in [Workers -> Ops \cup {NoOp}]
      /\ proc' \in [Workers -> {"none", "boot", "parked", "poked", "running"}]
      /\ landed' \subseteq Ops /\ info' = info \ V /\ exits' = exits \cup V
      /\ \A v \in Workers \ V : UNCHANGED <<mail[v], cur[v], proc[v]>>
      /\ \A v \in V : mail'[v] = {} /\ cur'[v] = NoOp /\ proc'[v] = "none"
      /\ \A o \in Ops : o \in landed' <=> o \in landed \/ \E w \in V : cur[w] = o
  BY <1>1, <1>2, AtExitFacts DEF Inductive
<1>4. /\ pool' \in [Workers -> {"out", "idle", "busy"}] /\ listed' \in [Workers -> Nat]
      /\ IndexExact'
      /\ \A w \in Workers : pool'[w] = IF pool[w] = "out" \/ w \in V THEN "out" ELSE pool[w]
  BY <1>1, NoteFacts DEF Inductive
<1>5. /\ todo = {} /\ failed = {} /\ spawning = {}
      /\ Nobody \notin Workers /\ NoOp \notin Ops
  BY <1>1, ServeAssumption DEF Inductive, PumpOK, ServeAssumption
<1>6. \A v \in Workers, x \in Ops : Has(v, x)' <=> v \notin V /\ Has(v, x)
  BY <1>2, <1>3, <1>5 DEF Has
<1>7. \A w \in Workers, o \in Ops : by'[o] = w <=> w \notin V /\ by[o] = w
  BY <1>1, <1>5
<1>8. TypeOK'
  BY <1>1, <1>2, <1>3, <1>4 DEF Inductive, TypeOK
<1>9. OneCall'
  BY <1>4, <1>6, <1>7 DEF Inductive, OneCall
<1>10. NoLostCall'
  <2> SUFFICES ASSUME NEW x \in Ops, by'[x] # Nobody
               PROVE  \/ x \in todo' \cup failed' \cup landed'
                      \/ by'[x] \in info' /\ Has(by[x], x)' /\ by'[x] = by[x]
    BY DEF NoLostCall, Tracked, Has
  <2>1. by[x] # Nobody /\ by'[x] = by[x] /\ by[x] \notin V /\ by[x] \in Workers
    BY <1>1 DEF Inductive, TypeOK
  <2>2. x \in landed \/ (by[x] \in info /\ Has(by[x], x))
    <3>1. \/ x \in todo \cup failed \cup landed
          \/ by[x] \in info /\ (cur[by[x]] = x \/ x \in mail[by[x]])
      BY <2>1 DEF Inductive, NoLostCall, Tracked
    <3> QED
      BY <1>5, <3>1 DEF Has
  <2> QED
    BY <1>3, <1>6, <2>1, <2>2
<1>11. Own'
  BY <1>6, <1>7 DEF Inductive, Own
<1>12. Once'
  <2>1. \A v \in Workers : cur'[v] \notin mail'[v]
    BY <1>2, <1>3 DEF Inductive, Once
  <2>2. \A w \in V, x \in Ops : cur[w] = x => by[x] = w
    BY <1>2 DEF Inductive, Own, Has
  <2> QED
    BY <1>1, <1>2, <1>3, <1>5, <1>6, <2>1, <2>2 DEF Inductive, Once, Own
<1>13. Procs'
  <2>1. ASSUME NEW v \in Workers
        PROVE  /\ proc'[v] = "running" <=> cur'[v] \in Ops
               /\ proc'[v] = "parked" => mail'[v] = {}
               /\ proc'[v] # "none" => v \in info'
               /\ v \notin info' => mail'[v] = {}
               /\ v \in info' => pool'[v] # "out" /\ v \notin exits'
    <3>1. CASE v \in V
      BY <1>3, <1>5, <3>1
    <3>2. CASE v \notin V
      BY <1>3, <1>4, <3>2 DEF Inductive, Procs
    <3> QED
      BY <3>1, <3>2
  <2> QED
    BY <2>1 DEF Procs
<1>14. PumpOK'
  BY <1>1, <1>5 DEF PumpOK
<1> QED
  BY <1>4, <1>8, <1>9, <1>10, <1>11, <1>12, <1>13, <1>14 DEF Inductive

LEMMA NextInductive == Inductive /\ [Next]_vars => Inductive'
<1> SUFFICES ASSUME Inductive, [Next]_vars
             PROVE  Inductive'
  OBVIOUS
<1>1. CASE Heartbeat
  BY <1>1, DrainStep DEF Heartbeat
<1>2. ASSUME NEW t \in Targets, WakePump(t)
      PROVE  Inductive'
  BY <1>2, DrainStep DEF WakePump
<1>3. CASE Planned
  BY <1>3, PlannedStep
<1>4. CASE Launch
  BY <1>4, PostStep, RefuseStep, ExecStep, ResumeStep, GoneStep, ReportFailedStep DEF Launch
<1>5. ASSUME NEW t \in Targets, NEW r \in Requests,
             LaunchJit(r, t) \/ \E q \in Requests : LaunchEager(r, q, t)
      PROVE  Inductive'
  BY <1>5, LaunchJitStep, LaunchEagerStep
<1>6. ASSUME NEW w \in Workers,
             Boot(w) \/ Take(w) \/ Land(w) \/ IdleOut(w) \/ Killed(w) \/ DiesBooting(w)
      PROVE  Inductive'
  BY <1>6, WorkerStep, LeaveStep, DiesBootingStep
<1>7. ASSUME NEW h \in {Host[w] : w \in Workers}, CriticalKill(h)
      PROVE  Inductive'
  BY <1>7, CriticalKillStep
<1>8. CASE UNCHANGED vars
  <2>1. UNCHANGED <<pool, listed, by, info, mail, proc, cur, landed, exits, pc,
                    todo, spawning, failed, booting, ready>>
    BY <1>8 DEF vars, memory, worker, done, pump, boot
  <2>2. TypeOK' /\ IndexExact'
    BY <2>1 DEF Inductive, TypeOK, IndexExact
  <2>3. OneCall' /\ NoLostCall' /\ Own' /\ Once'
    BY <2>1 DEF Inductive, OneCall, NoLostCall, Own, Once, Tracked, Has
  <2>4. Procs' /\ PumpOK'
    BY <2>1 DEF Inductive, Procs, PumpOK
  <2> QED
    BY <2>2, <2>3, <2>4 DEF Inductive
<1> QED
  BY <1>1, <1>2, <1>3, <1>4, <1>5, <1>6, <1>7, <1>8 DEF Next

-----------------------------------------------------------------------------
(* What a request takes of the idle workers *)

\* Of any workers one is the smallest, and of these the oldest.
LEMMA SmallestExists ==
  ASSUME NEW F \in SUBSET Workers, F # {}
  PROVE  Smallest(F) # {}
<1>1. \A w \in F : w \in Nat /\ Threads[w] \in Nat
  BY ServeAssumption DEF ServeAssumption
<1> DEFINE sizes == {Threads[w] : w \in F}
<1>2. PICK n \in sizes : \A k \in sizes : n <= k
  <2>1. sizes \subseteq Nat /\ sizes # {}  BY <1>1
  <2> HIDE DEF sizes
  <2> QED  BY <2>1, LeastNat
<1> DEFINE G == {w \in F : Threads[w] = n}
<1>3. PICK w \in G : \A v \in G : w <= v
  <2>1. G \subseteq Nat /\ G # {}  BY <1>1, <1>2
  <2> HIDE DEF G
  <2> QED  BY <2>1, LeastNat
<1>4. ASSUME NEW v \in F
      PROVE  Threads[w] < Threads[v] \/ (Threads[w] = Threads[v] /\ w <= v)
  <2>1. Threads[w] = n /\ n <= Threads[v]  BY <1>2, <1>3
  <2> QED  BY <1>1, <1>3, <2>1
<1> QED  BY <1>3, <1>4 DEF Smallest

\* What the walk over the idle workers leaves is too large for what is missing.
LEMMA ComposedLeavesLarger ==
  ASSUME NEW n \in Nat, NEW F \in SUBSET Workers, NEW T \in Composed(n, F),
         NEW w \in F \ T
  PROVE  Threads[w] > n - Total(T)
<1> DEFINE A == {v \in T : Ahead(v, w)}
<1>1. T \subseteq Workers /\ A \subseteq T /\ w \notin T  BY DEF Composed
<1>2. ~(Threads[w] <= n - Total(A))  BY DEF Composed
<1> HIDE DEF A
<1>3. IsFiniteSet(T)  BY <1>1, ServeAssumption, FS_Subset DEF ServeAssumption
<1>4. \A v \in Workers : Threads[v] \in Nat
  BY ServeAssumption DEF ServeAssumption
<1>5. Total(A) <= Total(T)  BY <1>1, <1>3, <1>4, SumSubset DEF Total
<1>6. Total(A) \in Nat /\ Total(T) \in Nat
  <2>1. IsFiniteSet(A)  BY <1>1, <1>3, FS_Subset
  <2> QED  BY <1>1, <1>3, <1>4, <2>1, SumNat DEF Total
<1> QED  BY <1>2, <1>4, <1>5, <1>6

\* What a request misses no idle worker of its kind could have served.
LEMMA PlanUsesHeldRam ==
  ASSUME NEW r \in Requests, NEW R, NEW p \in PlanTake(r, R)
  PROVE  /\ p.take \subseteq Idle(r.kind, R)
         /\ p.miss > 0 => \A w \in Idle(r.kind, R) \ p.take :
              CASE r.kind = "hack" -> Threads[w] < r.threads
                [] r.kind = "grow" -> FALSE
                [] OTHER -> Threads[w] > p.miss
<1> DEFINE F == Idle(r.kind, R)
<1>1. F \subseteq Workers /\ r.threads \in Nat \ {0} /\ r.kind \in Kinds
  BY ServeAssumption DEF Idle, ServeAssumption
<1>2. \A w \in Workers : Threads[w] \in Nat
  BY ServeAssumption DEF ServeAssumption
<1>3. CASE r.kind = "hack"
  <2> DEFINE fit == {w \in F : Threads[w] >= r.threads}
             best == Smallest(fit)
  <2>1. p.take = best /\ p.miss = IF best = {} THEN r.threads ELSE 0
    BY <1>3 DEF PlanTake
  <2>2. best \subseteq F  BY DEF Smallest
  <2>3. best = {} => fit = {}  BY <1>1, SmallestExists
  <2>4. p.miss > 0 => fit = {}  BY <2>1, <2>3
  <2> HIDE DEF best
  <2>5. p.miss > 0 => \A w \in F : Threads[w] < r.threads
    BY <1>1, <1>2, <2>4
  <2> QED  BY <1>3, <2>1, <2>2, <2>5
<1>4. CASE r.kind # "hack"
  <2> DEFINE left(T) == r.threads - Total(T)
             over(T) == {w \in F \ T : Threads[w] > left(T)}
             part(T) == IF r.kind = "grow" /\ left(T) >= 1 THEN Smallest(over(T)) ELSE {}
  <2>1. PICK T \in Composed(r.threads, F) :
          p = [take |-> T \cup part(T), miss |-> IF part(T) = {} THEN left(T) ELSE 0]
    BY <1>4 DEF PlanTake
  <2>2. T \subseteq F /\ part(T) \subseteq F  BY DEF Composed, Smallest
  <2>3. \A w \in F \ T : Threads[w] > left(T)  BY <1>1, ComposedLeavesLarger
  <2>4. Total(T) \in Nat
    <3>1. IsFiniteSet(T) /\ T \subseteq Workers
      BY <1>1, <2>2, ServeAssumption, FS_Subset DEF ServeAssumption
    <3> QED  BY <1>2, <3>1, SumNat DEF Total
  <2>5. left(T) \in Int  BY <1>1, <2>4
  <2>6. p.miss > 0 => part(T) = {} /\ p.miss = left(T) /\ left(T) >= 1
    <3> HIDE DEF left, part
    <3> QED  BY <2>1, <2>5
  <2>7. ASSUME r.kind = "grow", part(T) = {}, left(T) >= 1
        PROVE  F \ T = {}
    <3>1. over(T) \in SUBSET Workers /\ over(T) = F \ T  BY <1>1, <2>3
    <3>2. Smallest(over(T)) = {}  BY <2>7
    <3> HIDE DEF over
    <3> QED  BY <3>1, <3>2, SmallestExists
  <2>8. p.take = T \cup part(T)  BY <2>1
  <2> HIDE DEF left, part, over, F
  <2> QED  BY <1>4, <2>2, <2>3, <2>6, <2>7, <2>8 DEF F
<1> QED  BY <1>3, <1>4

-----------------------------------------------------------------------------
(* Theorems *)

THEOREM Invariance == Spec => []Inductive
<1>1. Init => Inductive
  BY InitInductive
<1>2. Inductive /\ [Next]_vars => Inductive'
  BY NextInductive
<1> QED
  BY <1>1, <1>2, PTL DEF Spec

\* Records, mailboxes and queue keep their types; no worker is listed fewer
\* than no times (insertSizeDesc, removeIdle).
THEOREM TypeCorrect == Spec => []TypeOK
<1>1. Inductive => TypeOK
  BY DEF Inductive
<1> QED
  BY <1>1, Invariance, PTL

\* The idle index lists each idle worker once and no other (noteExit, noteJobDone).
THEOREM IndexIsExact == Spec => []IndexExact
<1>1. Inductive => IndexExact
  BY DEF Inductive
<1> QED
  BY <1>1, Invariance, PTL

\* An idle worker owes nothing, a busy one its one call (planTake, launchEager).
THEOREM NeverTwoCalls == Spec => []OneCallAtATime
<1>1. Inductive => OneCallAtATime
  BY OneCallSays
<1> QED
  BY <1>1, Invariance, PTL

\* A tracked call waits, is with its worker, or is reported (startOp, main).
LEMMA CallsAreKept == Spec => []NoLostCall
<1>1. Inductive => NoLostCall
  BY DEF Inductive
<1> QED
  BY <1>1, Invariance, PTL

\* A call is performed, reported or failed, and one of them only (main, its atExit).
LEMMA CallsEndOnce == Spec => []OneOutcome
<1>1. Inductive => OneOutcome
  BY OneOutcomeSays
<1> QED
  BY <1>1, Invariance, PTL

\* Each tracked call waits, is with its worker, or is reported, and one of them
\* only (startOp, main, its atExit).
THEOREM EachCallOnce == Spec => []CallsAccounted
BY CallsAreKept, CallsEndOnce, PTL DEF CallsAccounted

\* RAM that idle workers hold is used before more is allocated: the threads a
\* request misses no idle worker of its kind could have served (planTake).
THEOREM HeldRamIsUsedFirst == Spec => []HeldRamFirst
<1>1. HeldRamFirst  BY PlanUsesHeldRam DEF HeldRamFirst
<1> QED  BY <1>1, PTL
=============================================================================
