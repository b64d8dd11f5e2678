------------------------------ MODULE GoWorker ------------------------------
(***************************************************************************)
(* The neural Go worker, the client that mirrors it and the driver's turn. *)
(*                                                                         *)
(* A turn of the driver (game/lib/features/remaining.ts) installs the board*)
(* it sees, has it evaluated and dispatches the move; while the opponent   *)
(* replies, the worker evaluates likely successors and pushes them.  The   *)
(* client (game/lib/go-neural-worker.ts) remembers what the worker holds,  *)
(* and spares the transfer; the worker (go-neural-worker-entry.ts) keeps a *)
(* few positions, one evaluation queue and one committed turn.  They talk  *)
(* over two channels, each in order.  A prestige resets both at any moment.*)
(*                                                                         *)
(* A position stands for its identity; the tick it is evaluated for, seeded*)
(* moves and the playbook's answers are left out.  The worker is up; what  *)
(* it computes is its own.  A turn id nothing mentions stands for the next *)
(* new one.                                                                *)
(***************************************************************************)
EXTENDS Integers, Sequences, FiniteSets, SequencesExt

CONSTANTS
  Positions,   \* identities of boards
  Turns,       \* ids of committed turns
  Succ,        \* Succ[p]: the continuations of the move decided in p, by probability
  Over,        \* positions of a finished game
  Foresee,     \* how many successors are prepared
  MaxPositions,         \* MAX_POSITIONS
  Resets,      \* how many prestiges
  Crashes,     \* how many crashes of the worker
  NoTurn, NoPos

ASSUME GoAssumption ==
  /\ Succ \in [Positions -> Seq(Positions)]
  /\ NoTurn \notin Turns /\ NoPos \notin Positions
  /\ Foresee \in Nat \ {0} /\ MaxPositions \in Nat \ {0} /\ Resets \in Nat /\ Crashes \in Nat

VARIABLES
  pc,         \* the turn: idle, install, planned, evaluate, ready or turn
  view,       \* the board the driver sees
  parent,     \* expectedPredictionParent of the turn
  last,       \* goPredictionParent
  mine,       \* the turn committed while the opponent replies
  stale,      \* goGeneration moved on
  gone,       \* the turn's client was disposed of
  known,      \* the client's knownPositions
  pushed,     \* its pushedPositions: <<turn, position>>
  pred,       \* its predictions: <<turn, position>>
  asked,      \* resets it awaits
  failed,     \* it failed
  req, rsp,   \* messages to and from the worker
  held,       \* the worker's positions, least recently touched first
  evald,      \* positions with a settled evaluation
  queue,      \* evaluationQueue
  late,       \* requests that wait for the reset
  resetting,
  active,     \* activeCommits: <<turn, position>>, or none
  job,        \* predictNextTurns of the last commit
  resetsLeft, crashesLeft

driver == <<pc, view, parent, last, mine, stale, gone>>
client == <<known, pushed, pred, asked, failed>>
store == <<held, evald, queue>>
commits == <<active, job>>
worker == <<store, commits, late, resetting>>
faults == <<resetsLeft, crashesLeft>>
vars == <<driver, client, req, rsp, worker, faults>>

Msg(type, pos, turn) == [type |-> type, pos |-> pos, turn |-> turn]
NoJob == [turn |-> NoTurn, stage |-> "none", pos |-> NoPos, tasks |-> {}, fresh |-> FALSE]
NoCommit == <<NoTurn, NoPos>>
ResetItem == [pos |-> NoPos, tick |-> FALSE, jobs |-> {}, live |-> FALSE]

WorkerInit ==
  /\ held = <<>> /\ evald = {} /\ queue = <<>> /\ late = <<>> /\ resetting = FALSE
  /\ active = NoCommit /\ job = NoJob

Init ==
  /\ pc = "idle" /\ view \in Positions /\ parent = NoTurn /\ last = NoTurn
  /\ mine = NoTurn /\ stale = FALSE /\ gone = FALSE
  /\ known = {} /\ pushed = {} /\ pred = {} /\ asked = 0 /\ failed = FALSE
  /\ req = <<>> /\ rsp = <<>> /\ WorkerInit
  /\ resetsLeft = Resets /\ crashesLeft = Crashes

-----------------------------------------------------------------------------
(* The client's mirror *)

\* Of turn t, pruneParent keeps what belongs to successor p, finishParent nothing.
Pruned(S, t, p) == {x \in S : x[1] # t \/ x[2] = p}
Finished(S, t) == {x \in S : x[1] # t}

AcceptParent(t, p) == pushed' = Finished(pushed, t) /\ pred' = Pruned(pred, t, p)
FinishParent(t) == pushed' = Finished(pushed, t) /\ pred' = Finished(pred, t)
Forget == known' = {} /\ pushed' = {} /\ pred' = {}

\* The turn is in stage next; one that ends leaves nothing.
Stage(next) ==
  /\ pc' = next
  /\ IF next = "idle" THEN parent' = NoTurn /\ stale' = FALSE /\ gone' = FALSE
                      ELSE UNCHANGED <<parent, stale, gone>>

\* The client can still post.
Up == ~failed /\ ~gone

\* dispose, and the client and worker the next turn creates: what the turn
\* awaits is rejected, what it holds belongs to the old client.
Replace(stopped) ==
  /\ Forget /\ asked' = 0 /\ failed' = FALSE
  /\ req' = <<>> /\ rsp' = <<>>
  /\ held' = <<>> /\ evald' = {} /\ queue' = <<>> /\ late' = <<>> /\ resetting' = FALSE
  /\ active' = NoCommit /\ job' = NoJob
  /\ IF stopped \/ pc \in {"idle", "install", "evaluate"}
       THEN Stage("idle")
       ELSE gone' = TRUE /\ UNCHANGED <<pc, parent, stale>>

-----------------------------------------------------------------------------
(* The driver's turn *)

\* A position the mirror has, or the worker pushed for the expected turn, is
\* not transferred again.
Install ==
  /\ pc = "idle"
  /\ parent' = last /\ stale' = FALSE /\ gone' = FALSE
  /\ IF view \in known \/ <<last, view>> \in pushed
       THEN /\ pc' = "planned" /\ known' = known \cup {view}
            /\ AcceptParent(last, view) /\ UNCHANGED req
       ELSE /\ ~failed /\ pc' = "install"
            /\ req' = Append(req, Msg("install", view, last))
            /\ UNCHANGED <<known, pushed, pred>>
  /\ UNCHANGED <<view, last, mine, asked, failed, rsp, worker, faults>>

\* The playbook has the turn wait, the generation is another, or the move was
\* not issued.
Hold ==
  /\ pc \in {"planned", "ready"} /\ Stage("idle")
  /\ UNCHANGED <<view, last, mine, client, req, rsp, worker, faults>>

\* An evaluation pushed for this tick is consumed; if there is none, or the
\* move is seeded, the worker is asked, and a client that failed rejects.
Evaluate ==
  /\ pc = "planned" /\ ~stale
  /\ \/ /\ <<parent, view>> \in pred /\ pred' = pred \ {<<parent, view>>}
        /\ Stage("ready") /\ UNCHANGED req
     \/ /\ Stage(IF Up THEN "evaluate" ELSE "idle")
        /\ req' = IF Up THEN Append(req, Msg("evaluate", view, NoTurn)) ELSE req
        /\ UNCHANGED pred
  /\ UNCHANGED <<view, last, mine, known, pushed, asked, failed, rsp, worker, faults>>

\* Neither ends nor starts a commit: no continuation is known, or the move is
\* the playbook's.
DispatchPlain ==
  /\ pc = "ready" /\ view \notin Over /\ pc' = "turn" /\ mine' = NoTurn
  /\ UNCHANGED <<view, parent, last, stale, gone, client, req, rsp, worker, faults>>

\* New ids.
Used == UNION {{m.turn : m \in ToSet(req \o rsp \o late)}, {x[1] : x \in pushed \cup pred},
               {parent, last, active[1], job.turn},
               UNION {e.jobs : e \in ToSet(queue)}}

DispatchCommit(t) ==
  /\ pc = "ready" /\ view \notin Over /\ pc' = "turn" /\ t \notin Used /\ mine' = t
  /\ FinishParent(parent)
  /\ req' = IF Up THEN Append(req, Msg("commit", view, t)) ELSE req
  /\ UNCHANGED <<view, parent, last, stale, gone, known, asked, failed, rsp, worker, faults>>

\* The opponent replied, the board is p: told to the worker when the turn was
\* committed.  The next turn expects it unless the game is over or the game's
\* board is not the one computed, and is read anew.
Answered(p) ==
  /\ pc = "turn" /\ Stage("idle") /\ mine' = NoTurn
  /\ req' = IF Up /\ mine # NoTurn THEN Append(req, Msg("confirm", p, mine)) ELSE req
  /\ \/ p \notin Over /\ last' = mine /\ view' = p
     \/ last' = NoTurn /\ view' \in Positions
  /\ UNCHANGED <<client, rsp, worker, faults>>

\* The call failed after it was issued, so the board is read anew; or a new
\* game was started.
Rehydrate ==
  /\ pc = "turn" \/ (pc = "ready" /\ view \in Over)
  /\ Stage("idle") /\ mine' = NoTurn /\ last' = NoTurn /\ view' \in Positions
  /\ UNCHANGED <<client, req, rsp, worker, faults>>

\* A prestige: planning is left to end by itself, a dispatched turn is let go
\* of.  The mirror is dropped before the worker is asked; a client that failed
\* is replaced.
Reset ==
  /\ resetsLeft > 0 /\ resetsLeft' = resetsLeft - 1
  /\ last' = NoTurn /\ mine' = NoTurn /\ view' \in Positions
  /\ IF failed
       THEN Replace(TRUE)
       ELSE /\ Forget /\ asked' = asked + 1
            /\ req' = Append(req, Msg("reset", NoPos, NoTurn))
            /\ IF pc \in {"ready", "turn"}
                 THEN Stage("idle")
                 ELSE stale' = (pc # "idle") /\ UNCHANGED <<pc, parent, gone>>
            /\ UNCHANGED <<failed, rsp, worker>>
  /\ UNCHANGED crashesLeft

-----------------------------------------------------------------------------
(* What the client receives *)

\* A reply the turn awaits; one of an older generation ends there.
Replied(type, next) ==
  /\ Head(rsp).type = type
  /\ Stage(IF stale THEN "idle" ELSE next)
  /\ UNCHANGED <<view, last, mine, asked, failed, req, worker>>

\* The position is that of the request.
Installed ==
  /\ Replied("installed", "planned")
  /\ known' = known \cup {Head(rsp).pos}
  /\ FinishParent(parent)

Evaluated == Replied("evaluated", "ready") /\ UNCHANGED <<known, pushed, pred>>

TurnError ==
  /\ Head(rsp).type = "error" /\ Stage("idle")
  /\ UNCHANGED <<view, last, mine, client, req, worker>>

\* Mutant: the client keeps the evicted position among the known ones.
EvictedPushedOnly ==
  LET p == Head(rsp).pos IN
  /\ Head(rsp).type = "evicted"
  /\ pushed' = {x \in pushed : x[2] # p} /\ pred' = {x \in pred : x[2] # p}
  /\ UNCHANGED <<driver, known, asked, failed, req, worker>>

Evicted ==
  LET p == Head(rsp).pos IN
  /\ Head(rsp).type = "evicted"
  /\ known' = known \ {p}
  /\ pushed' = {x \in pushed : x[2] # p} /\ pred' = {x \in pred : x[2] # p}
  /\ UNCHANGED <<driver, asked, failed, req, worker>>

Predicted ==
  LET x == <<Head(rsp).turn, Head(rsp).pos>> IN
  /\ Head(rsp).type = "predicted"
  /\ pushed' = pushed \cup {x} /\ pred' = pred \cup {x}
  /\ UNCHANGED <<driver, known, asked, failed, req, worker>>

\* The confirmed successor is kept until its first install.
Confirmed ==
  LET t == Head(rsp).turn  p == Head(rsp).pos IN
  /\ Head(rsp).type = "confirmed"
  /\ IF p \in Over THEN FinishParent(t)
     ELSE /\ pushed' = Pruned(pushed, t, p) \cup (IF p \in known THEN {} ELSE {<<t, p>>})
          /\ pred' = Pruned(pred, t, p)
  /\ UNCHANGED <<driver, known, asked, failed, req, worker>>

Desynced ==
  /\ Head(rsp).type = "desynced" /\ Forget
  /\ UNCHANGED <<driver, asked, failed, req, worker>>

ResetDone ==
  /\ Head(rsp).type = "reset" /\ asked' = asked - 1
  /\ UNCHANGED <<driver, known, pushed, pred, failed, req, worker>>

Receive ==
  /\ rsp # <<>> /\ UNCHANGED faults
  /\ \/ /\ rsp' = Tail(rsp)
        /\ \/ Installed \/ Evaluated \/ TurnError \/ Evicted \/ Predicted \/ Confirmed
           \/ Desynced \/ ResetDone
     \/ /\ Head(rsp).type = "refused" /\ Replace(FALSE)
        /\ UNCHANGED <<view, last, mine>>

\* The client learns that its worker crashed: what it awaits is rejected, and a
\* rejected reset replaces it.
Crash ==
  /\ ~failed /\ crashesLeft > 0 /\ crashesLeft' = crashesLeft - 1
  /\ IF asked > 0 THEN Replace(FALSE)
     ELSE /\ failed' = TRUE
          /\ req' = <<>> /\ rsp' = <<>>
          /\ held' = <<>> /\ evald' = {} /\ queue' = <<>> /\ late' = <<>>
          /\ resetting' = FALSE /\ active' = NoCommit /\ job' = NoJob
          /\ IF pc \in {"install", "evaluate"}
               THEN Stage("idle") ELSE UNCHANGED <<pc, parent, stale, gone>>
          /\ UNCHANGED <<known, pushed, pred, asked>>
  /\ UNCHANGED <<view, last, mine, resetsLeft>>

-----------------------------------------------------------------------------
(* The worker's positions *)

\* Mutant: nothing is evicted.
PutUntrimmed(s, p) == [s EXCEPT !.held = Append(RemoveFirst(@, p), p)]

\* A position is touched, or added at the cost of the least recently touched.
Put(s, p) ==
  LET h == Append(RemoveFirst(s.held, p), p)
  IN  IF Len(h) <= MaxPositions THEN [s EXCEPT !.held = h]
      ELSE [held |-> Tail(h), out |-> Append(s.out, Msg("evicted", Head(h), NoTurn))]

\* Positions ps are put one after the other, but those in skip.
Puts(ps, skip) ==
  LET after[n \in 0 .. Len(ps)] ==
        IF n = 0 THEN [held |-> held, out |-> <<>>]
        ELSE IF ps[n] \in skip THEN after[n - 1] ELSE Put(after[n - 1], ps[n])
  IN  after[Len(ps)]

\* They are put, the evictions are told; then messages m go out.
PutAll(ps, skip, m) ==
  LET s == Puts(ps, skip)
      lost == {x.pos : x \in ToSet(s.out)}
  IN  /\ held' = s.held /\ rsp' = rsp \o s.out \o m
      /\ evald' = evald \ lost
      /\ queue' = [i \in DOMAIN queue |->
                     IF queue[i].pos \in lost THEN [queue[i] EXCEPT !.live = FALSE] ELSE queue[i]]

Running(p) == {i \in DOMAIN queue : queue[i].pos = p /\ queue[i].live}

\* evaluate: settled, joined or queued; p is held, and touched.
Want(p, forTick, jobs) ==
  /\ held' = Put([held |-> held, out |-> <<>>], p).held
  /\ queue' = IF p \in evald THEN queue
              ELSE IF Running(p) # {}
                THEN [i \in DOMAIN queue |->
                        IF i \in Running(p)
                          THEN [queue[i] EXCEPT !.tick = @ \/ forTick, !.jobs = @ \cup jobs]
                          ELSE queue[i]]
                ELSE Append(queue, [pos |-> p, tick |-> forTick, jobs |-> jobs, live |-> TRUE])
  /\ UNCHANGED evald

\* Every later answer to an older commit is void.
Bump == job' = [job EXCEPT !.fresh = FALSE]

Take(t) == active' = IF active[1] = t THEN NoCommit ELSE active

-----------------------------------------------------------------------------
(* The worker's requests *)

DoInstall(m) ==
  /\ m.type = "install"
  /\ IF m.turn # NoTurn THEN Bump /\ Take(m.turn) ELSE UNCHANGED commits
  /\ PutAll(<<m.pos>>, {}, <<Msg("installed", m.pos, NoTurn)>>)
  /\ UNCHANGED resetting

DoEvaluate(m) ==
  /\ m.type = "evaluate"
  /\ IF m.pos \notin ToSet(held)
       THEN rsp' = Append(rsp, Msg("error", m.pos, NoTurn)) /\ UNCHANGED store
       ELSE /\ Want(m.pos, TRUE, {})
            /\ rsp' = IF m.pos \in evald THEN Append(rsp, Msg("evaluated", m.pos, NoTurn)) ELSE rsp
  /\ UNCHANGED <<commits, resetting>>

\* predictNextTurns up to its first await.
DoCommit(m) ==
  LET going == Running(m.pos) IN
  /\ m.type = "commit" /\ active' = NoCommit
  /\ IF m.pos \in ToSet(held) /\ (m.pos \in evald \/ going # {})
       THEN /\ job' = [turn |-> m.turn, stage |-> IF m.pos \in evald THEN "begin" ELSE "source",
                       pos |-> m.pos, tasks |-> {}, fresh |-> TRUE]
            /\ queue' = [i \in DOMAIN queue |->
                           IF i \in going /\ m.pos \notin evald
                             THEN [queue[i] EXCEPT !.jobs = @ \cup {m.turn}] ELSE queue[i]]
            /\ UNCHANGED rsp
       ELSE /\ job' = NoJob /\ rsp' = Append(rsp, Msg("desynced", NoPos, m.turn))
            /\ UNCHANGED queue
  /\ UNCHANGED <<held, evald, resetting>>

\* The successor is one the worker derived itself, or the client has to start
\* over.
DoConfirm(m) ==
  /\ m.type = "confirm" /\ Bump /\ Take(m.turn)
  /\ IF active[1] = m.turn /\ m.pos \in ToSet(Succ[active[2]])
       THEN PutAll(<<m.pos>>, {}, <<Msg("confirmed", m.pos, m.turn)>>)
       ELSE rsp' = Append(rsp, Msg("desynced", NoPos, m.turn)) /\ UNCHANGED store
  /\ UNCHANGED resetting

DoReset(m) ==
  /\ m.type = "reset"
  /\ IF resetting
       THEN rsp' = Append(rsp, Msg("refused", NoPos, NoTurn)) /\ UNCHANGED <<queue, resetting, job>>
       ELSE /\ resetting' = TRUE /\ Bump /\ queue' = Append(queue, ResetItem)
            /\ UNCHANGED rsp
  /\ UNCHANGED <<held, evald, active>>

Do(m) == DoInstall(m) \/ DoEvaluate(m) \/ DoCommit(m) \/ DoConfirm(m) \/ DoReset(m)

\* Requests that waited for a reset go first.
Handle ==
  /\ UNCHANGED <<driver, client, faults>>
  /\ \/ late # <<>> /\ ~resetting /\ Do(Head(late)) /\ late' = Tail(late) /\ UNCHANGED req
     \/ /\ req # <<>> /\ req' = Tail(req) /\ (late = <<>> \/ resetting)
        /\ IF resetting /\ Head(req).type # "reset"
             THEN late' = Append(late, Head(req)) /\ UNCHANGED <<rsp, store, commits, resetting>>
             ELSE Do(Head(req)) /\ UNCHANGED late

-----------------------------------------------------------------------------
(* The worker's queue and its predictions *)

\* Mutant: the result of an evaluation is pushed whatever came meanwhile.
PushAnyway(e) ==
  IF job.turn \in e.jobs /\ job.stage = "engine"
    THEN <<Msg("predicted", e.pos, job.turn)>> ELSE <<>>

Push(e) ==
  IF job.turn \in e.jobs /\ job.stage = "engine" /\ job.fresh
    THEN <<Msg("predicted", e.pos, job.turn)>> ELSE <<>>

NextTask(p) ==
  IF job.fresh THEN [job EXCEPT !.stage = "tasks", !.tasks = @ \ {p}] ELSE NoJob

EngineDone ==
  LET e == Head(queue)
      reply == IF e.tick THEN <<Msg("evaluated", e.pos, NoTurn)>> ELSE <<>>
  IN
  /\ queue # <<>> /\ e.pos # NoPos /\ queue' = Tail(queue)
  /\ evald' = IF e.live THEN evald \cup {e.pos} ELSE evald
  /\ rsp' \in {rsp \o reply \o Push(e), rsp \o Push(e) \o reply}
  /\ job' = IF job.turn \notin e.jobs THEN job
            ELSE IF job.stage = "source" THEN [job EXCEPT !.stage = "begin"]
            ELSE NextTask(e.pos)
  /\ UNCHANGED <<driver, client, req, held, active, late, resetting, faults>>

\* A failed evaluation is not kept.  Commits that waited for it are given up;
\* one message stands for theirs.
EngineFails ==
  LET e == Head(queue) IN
  /\ queue # <<>> /\ e.pos # NoPos /\ queue' = Tail(queue)
  /\ rsp' = rsp \o (IF e.tick THEN <<Msg("error", e.pos, NoTurn)>> ELSE <<>>)
                \o (IF e.jobs # {} THEN <<Msg("desynced", NoPos, NoTurn)>> ELSE <<>>)
  /\ active' = IF active[1] \in e.jobs THEN NoCommit ELSE active
  /\ job' = IF job.turn \in e.jobs THEN NoJob ELSE job
  /\ UNCHANGED <<driver, client, req, held, evald, late, resetting, faults>>

\* Mutant: the flag of the reset is not taken back.
EngineResetKeeps ==
  /\ queue # <<>> /\ Head(queue).pos = NoPos /\ queue' = Tail(queue)
  /\ held' = <<>> /\ evald' = {} /\ active' = NoCommit
  /\ \E type \in {"reset", "refused"} : rsp' = Append(rsp, Msg(type, NoPos, NoTurn))
  /\ UNCHANGED <<driver, client, req, job, late, resetting, faults>>

\* The old engine is disposed of, with or without success.
EngineReset ==
  /\ queue # <<>> /\ Head(queue).pos = NoPos /\ queue' = Tail(queue)
  /\ held' = <<>> /\ evald' = {} /\ active' = NoCommit /\ resetting' = FALSE
  /\ \E type \in {"reset", "refused"} : rsp' = Append(rsp, Msg(type, NoPos, NoTurn))
  /\ UNCHANGED <<driver, client, req, job, late, faults>>

\* The most probable continuations that go on, Foresee of them.
Selected(p) ==
  {Succ[p][i] : i \in {j \in DOMAIN Succ[p] :
                        /\ Succ[p][j] \notin Over
                        /\ Cardinality({Succ[p][k] : k \in 1 .. j} \ Over) <= Foresee}}

\* The committed evaluation is there: the selected successors are installed.
JobBegins ==
  /\ job.stage = "begin"
  /\ IF job.fresh
       THEN /\ active' = <<job.turn, job.pos>>
            /\ PutAll(Succ[job.pos], Positions \ Selected(job.pos), <<>>)
            /\ job' = [job EXCEPT !.stage = "tasks", !.tasks = Selected(job.pos)]
       ELSE job' = NoJob /\ UNCHANGED <<rsp, store, active>>
  /\ UNCHANGED <<driver, client, req, late, resetting, faults>>

\* A slot came up: the successor's evaluation is asked for.
JobTask(p) ==
  /\ job.stage = "tasks" /\ p \in job.tasks /\ job.fresh
  /\ IF p \notin ToSet(held)
       THEN /\ job' = NoJob /\ Take(job.turn) /\ UNCHANGED store
            /\ rsp' = Append(rsp, Msg("desynced", NoPos, job.turn))
       ELSE /\ Want(p, FALSE, {job.turn}) /\ UNCHANGED active
            /\ IF p \in evald
                 THEN job' = NextTask(p) /\ rsp' = Append(rsp, Msg("predicted", p, job.turn))
                 ELSE job' = [job EXCEPT !.stage = "engine"] /\ UNCHANGED rsp
  /\ UNCHANGED <<driver, client, req, late, resetting, faults>>

\* Done, stale, or past the deadline.
JobEnds ==
  /\ job.stage = "tasks" /\ job' = NoJob
  /\ UNCHANGED <<driver, client, req, rsp, store, active, late, resetting, faults>>

\* Nobody confirmed the commit.
Expire ==
  /\ active # NoCommit /\ active' = NoCommit
  /\ job' = IF job.turn = active[1] THEN [job EXCEPT !.fresh = FALSE] ELSE job
  /\ UNCHANGED <<driver, client, req, rsp, store, late, resetting, faults>>

-----------------------------------------------------------------------------
Engine == EngineDone \/ EngineFails \/ EngineReset

Next ==
  \/ Install \/ Hold \/ Evaluate \/ DispatchPlain \/ Rehydrate \/ Reset \/ Crash
  \/ \E t \in Turns : DispatchCommit(t)
  \/ \E p \in Positions : Answered(p) \/ JobTask(p)
  \/ Receive \/ Handle \/ Engine
  \/ JobBegins \/ JobEnds \/ Expire

Spec == Init /\ [][Next]_vars

\* Messages arrive, requests are handled, evaluations end.
FairSpec == Spec /\ WF_vars(Receive) /\ WF_vars(Handle) /\ WF_vars(Engine)

-----------------------------------------------------------------------------
(* Properties *)
Types == {"install", "evaluate", "commit", "confirm", "reset", "installed", "evaluated",
          "evicted", "predicted", "confirmed", "desynced", "error", "refused"}

Message == [type : Types, pos : Positions \cup {NoPos}, turn : Turns \cup {NoTurn}]
OfType(types) == {m \in Message : m.type \in types}

Item == [pos : Positions \cup {NoPos}, tick : BOOLEAN, jobs : SUBSET Turns, live : BOOLEAN]

TypeOK ==
  /\ pc \in {"idle", "install", "planned", "evaluate", "ready", "turn"}
  /\ view \in Positions /\ {parent, last, mine} \subseteq Turns \cup {NoTurn}
  /\ stale \in BOOLEAN /\ gone \in BOOLEAN
  /\ known \subseteq Positions /\ pushed \cup pred \subseteq Turns \X Positions
  /\ asked \in Nat /\ failed \in BOOLEAN
  /\ {req, rsp, late} \subseteq Seq(Message)
  /\ Len(held) <= MaxPositions /\ held \in Seq(Positions) /\ evald \subseteq ToSet(held)
  /\ resetting \in BOOLEAN
  /\ resetsLeft \in 0 .. Resets /\ crashesLeft \in 0 .. Crashes

\* What the client would take for installed: the positions it knows, and those
\* pushed.
Believed == known \cup {x[2] : x \in {y \in pushed : y[1] \in {last, mine}}}
OnItsWay(type) == {m.pos : m \in {m \in ToSet(rsp) : m.type = type}}

MirrorTrue ==
  failed \/ Believed \subseteq ToSet(held) \cup OnItsWay("evicted")

\* Until a prestige, the worker holds every position the client would not send
\* it again, or has told that it does not, in the order of its messages: no
\* turn can be stuck on a position that is believed to be there.
MirrorSound == resetsLeft = Resets => MirrorTrue

Count(s, S) == Cardinality({i \in DOMAIN s : s[i] \in S})

\* What the turn and the resets await is owed exactly once, be it a request, one
\* held back for a reset, an evaluation shared with a prediction, or an answer:
\* none is lost in the queue or in a failure, none is answered twice.
EveryRequestOwed ==
  /\ Count(req \o late, OfType({"install", "evaluate"}))
       + Count(rsp, OfType({"installed", "evaluated", "error"}))
       + Count(queue, {e \in Item : e.tick})
     = IF pc \in {"install", "evaluate"} THEN 1 ELSE 0
  /\ Count(req, OfType({"reset"})) + Count(rsp, OfType({"reset", "refused"}))
       + Count(queue, {e \in Item : e.pos = NoPos}) = asked

\* No prediction of a turn follows the verdict on it: what the client pruned or
\* forgot does not come back.
VerdictIsLast ==
  \A i, j \in DOMAIN rsp :
    i < j /\ rsp[i].type \in {"confirmed", "desynced"} /\ rsp[j].type = "predicted"
      => rsp[i].turn # rsp[j].turn

\* What the two sides send each other is complete and in order.
ChannelSound == EveryRequestOwed /\ VerdictIsLast

\* A turn's planning is never stuck on its worker, whatever is reset, fails or
\* crashes meanwhile.
PlanningSettles == pc \in {"install", "evaluate"} ~> pc \notin {"install", "evaluate"}
=============================================================================
