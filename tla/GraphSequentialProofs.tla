---- MODULE GraphSequentialProofs ----
(***************************************************************************)
(* What holds of a run that one worker at a time executes, for every graph,*)
(* store and sequence of starts, crashes and resumes: checkpoint, ledger   *)
(* and blackboard agree although each is committed on its own.             *)
(***************************************************************************)
EXTENDS GraphRunnerProofs

----------------------------------------------------------------------------
(* The inductive invariant, of an execution e, the checkpoint rows and the  *)
(* rows of the ledger.                                                      *)

\* What was read back from the database reads back as itself.
ReadsBack(rows, ledger) ==
    /\ \A n \in Nodes : Json[rows[n].output] = rows[n].output
    /\ \A k \in Keys : Json[ledger[k].result] = ledger[k].result

Recorded(v) == [status |-> "recorded", result |-> v]

Backed(n, rows, ledger) ==
    rows[n].status = "done" => \E k \in KeysOf[n] : ledger[k] = Recorded(rows[n].output)

\* What the row of the execution's key says, from where the execution stands.
OwnsKey(e, ledger) ==
    /\ e.pc # "insert"
    /\ e.pc \notin {"release", "finish", "settle"} => e.verdict = "done"
    /\ e.pc \in {"release", "settle"} => e.verdict # "done"
    /\ e.pc = "lookup" => ledger[e.key].status # "free"
    /\ e.pc = "replay" => ledger[e.key] = Recorded(e.output)
    /\ e.key # NoKey =>
         /\ e.pc \in {"begin", "acting", "landed", "record", "release"} =>
              ledger[e.key].status = "claimed"
         /\ e.pc \in {"finish", "settle"} /\ e.verdict = "paused" =>
              ledger[e.key].status = "free"
         /\ e.pc = "finish" /\ e.verdict = "done" =>
              ledger[e.key] = Recorded(Json[e.output])

\* Where the node at the cursor is under way.
Unfinished == InNode \ {"checkpoint", "settle"}

\* Nodes whose checkpoint is still to be replayed.
Ahead(e) == {n \in Nodes : n > e.cursor \/ (n = e.cursor /\ e.pc = "visit")}

\* The execution knows of every finished node, and has not finished the one it is in.
Mirrors(e, rows) ==
    /\ \A n \in Nodes : rows[n].status = "done" => e.status[n] = "done"
    /\ e.pc \in Unfinished => e.status[e.cursor] # "done"
    /\ \A n \in Ahead(e) : e.status[n] = "done" => e.cached[n] = rows[n].output
    /\ Rebuilt(e, rows)

SeqInv ==
    /\ ReadsBack(node_runs, effects)
    /\ \A n \in AlwaysKeyed : Backed(n, node_runs, effects)
    /\ \A w \in Workers :
         /\ OwnsKey(exec[w], effects)
         /\ exec[w].pc \notin {"idle", "load"} => Mirrors(exec[w], node_runs)

\* All that is known of the one worker, its execution e and the store.
LEMMA SeqFacts ==
    ASSUME TypeInv, PrefixInv, LedgerInv, SeqInv, NEW w \in Workers
    PROVE  /\ exec[w] \in Execution /\ StepOK(exec[w]) /\ KeyOK(exec[w]) /\ PrefixOK(exec[w])
           /\ StoreTypeOK
           /\ ReadsBack(node_runs, effects)
           /\ \A n \in AlwaysKeyed : Backed(n, node_runs, effects)
           /\ OwnsKey(exec[w], effects)
           /\ exec[w].pc \notin {"idle", "load"} => Mirrors(exec[w], node_runs)
BY DEF TypeInv, TypeOK, PrefixInv, LedgerInv, SeqInv

\* With one worker, a step is done by whoever there is.
LEMMA SeqBecome ==
    ASSUME OneWorker, TypeInv, NEW w \in Workers, NEW f, Become(w, f),
           ReadsBack(node_runs', effects'),
           \A n \in AlwaysKeyed : Backed(n, node_runs', effects'),
           OwnsKey(f, effects'),
           f.pc \notin {"idle", "load"} => Mirrors(f, node_runs')
    PROVE  SeqInv'
<1>1. \A u \in Workers : exec'[u] = f
  BY DEF OneWorker, Become, TypeInv, TypeOK
<1>2. QED
  BY <1>1 DEF SeqInv

\* A step that leaves the store alone.
LEMMA SeqPrivate ==
    ASSUME OneWorker, TypeInv, SeqInv, NEW w \in Workers, NEW f, Become(w, f),
           UNCHANGED <<node_runs, effects>>,
           OwnsKey(f, effects),
           f.pc \notin {"idle", "load"} => Mirrors(f, node_runs)
    PROVE  SeqInv'
BY SeqBecome DEF SeqInv

----------------------------------------------------------------------------
(* Lemmas about the store.                                                  *)

LEMMA JsonTwice == \A v \in Maybe : Json[v] \in Maybe /\ Json[Json[v]] = Json[v]
BY StoreAssumption DEF Maybe

\* What an UPDATE of one checkpoint row does to the rows.
LEMMA FinishedRow ==
    ASSUME StoreTypeOK, NEW n \in Nodes, NEW status, NEW v, finish_node(n, status, v)
    PROVE  /\ \A m \in Nodes : m # n => node_runs'[m] = node_runs[m]
           /\ \/ node_runs'[n] = [status |-> status, output |-> Json[v]]
              \/ node_runs'[n] = node_runs[n] /\ node_runs[n].status = "none"
BY DEF StoreTypeOK, finish_node

\* A row that an UPDATE finishes otherwise than done is not done.
LEMMA FinishedOtherwise ==
    ASSUME StoreTypeOK, NEW n \in Nodes, NEW status, NEW v, finish_node(n, status, v),
           status # "done"
    PROVE  /\ \A m \in Nodes : m # n => node_runs'[m] = node_runs[m]
           /\ node_runs'[n].status # "done"
<1>1. /\ \A m \in Nodes : m # n => node_runs'[m] = node_runs[m]
      /\ \/ node_runs'[n] = [status |-> status, output |-> Json[v]]
         \/ node_runs'[n] = node_runs[n] /\ node_runs[n].status = "none"
  BY FinishedRow
<1>2. CASE node_runs'[n] = [status |-> status, output |-> Json[v]]
  BY <1>1, <1>2
<1>3. CASE node_runs'[n] = node_runs[n] /\ node_runs[n].status = "none"
  BY <1>1, <1>3
<1>4. QED
  BY <1>1, <1>2, <1>3

\* An UPDATE of a row that is not done keeps the ledger and the checkpoints in
\* agreement, if it does not call done what the ledger has not recorded.
LEMMA FinishKeepsBacking ==
    ASSUME StoreTypeOK, NEW n \in Nodes, NEW status, NEW v \in Maybe, finish_node(n, status, v),
           UNCHANGED effects,
           ReadsBack(node_runs, effects),
           \A m \in AlwaysKeyed : Backed(m, node_runs, effects),
           status = "done" /\ n \in AlwaysKeyed =>
             \E k \in KeysOf[n] : effects[k] = Recorded(Json[v])
    PROVE  /\ ReadsBack(node_runs', effects')
           /\ \A m \in AlwaysKeyed : Backed(m, node_runs', effects')
<1>1. /\ \A m \in Nodes : m # n => node_runs'[m] = node_runs[m]
      /\ \/ node_runs'[n] = [status |-> status, output |-> Json[v]]
         \/ node_runs'[n] = node_runs[n] /\ node_runs[n].status = "none"
  BY FinishedRow
<1>2. ReadsBack(node_runs', effects')
  BY <1>1, JsonTwice DEF ReadsBack
<1>3. ASSUME NEW m \in AlwaysKeyed PROVE Backed(m, node_runs', effects')
  <2>1. m \in Nodes
    BY DEF AlwaysKeyed
  <2>2. CASE m = n /\ node_runs'[n] = [status |-> status, output |-> Json[v]]
    BY <2>2 DEF Backed
  <2>3. CASE node_runs'[m] = node_runs[m]
    BY <2>3 DEF Backed
  <2>4. QED
    BY <1>1, <2>1, <2>2, <2>3
<1>4. QED
  BY <1>2, <1>3

\* A change of a row of the ledger that was not recorded, to one that reads back.
LEMMA LedgerKeepsBacking ==
    ASSUME StoreTypeOK, NEW k \in Keys, NEW row,
           effects' = [effects EXCEPT ![k] = row], UNCHANGED node_runs,
           effects[k].status # "recorded", Json[row.result] = row.result,
           ReadsBack(node_runs, effects),
           \A m \in AlwaysKeyed : Backed(m, node_runs, effects)
    PROVE  /\ ReadsBack(node_runs', effects')
           /\ \A m \in AlwaysKeyed : Backed(m, node_runs', effects')
<1>1. effects'[k] = row /\ \A j \in Keys : j # k => effects'[j] = effects[j]
  BY DEF StoreTypeOK
<1>2. ReadsBack(node_runs', effects')
  BY <1>1 DEF ReadsBack
<1>3. ASSUME NEW m \in AlwaysKeyed, node_runs[m].status = "done"
      PROVE  \E j \in KeysOf[m] : effects'[j] = Recorded(node_runs[m].output)
  <2>1. PICK j \in KeysOf[m] : effects[j] = Recorded(node_runs[m].output)
    BY <1>3 DEF Backed
  <2>2. j # k /\ j \in Keys
    BY <2>1, KeysOfType DEF Recorded, AlwaysKeyed
  <2>3. QED
    BY <1>1, <2>1, <2>2
<1>4. QED
  BY <1>2, <1>3 DEF Backed

----------------------------------------------------------------------------
(* Lemmas about an execution.                                               *)

\* Within a node nothing is published.
LEMMA MirrorsKept ==
    ASSUME NEW e, NEW f, NEW rows, Mirrors(e, rows),
           e.pc # "checkpoint",
           f.pc \in InNode \ {"checkpoint"},
           f.status = e.status, f.cursor = e.cursor, f.cached = e.cached, f.board = e.board,
           e.cursor \in Nodes,
           f.pc \in Unfinished => e.status[e.cursor] # "done"
    PROVE  Mirrors(f, rows)
<1>1. f.pc # "visit" /\ f.pc # "checkpoint"
  BY DEF InNode
<1>2. Ahead(f) \subseteq Ahead(e)
  BY <1>1 DEF Ahead
<1>3. Behind(f) = Behind(e)
  BY <1>1 DEF Behind
<1>4. Rebuilt(f, rows)
  BY <1>3 DEF Rebuilt, Mirrors
<1>5. QED
  BY <1>2, <1>4 DEF Mirrors

\* Publishing the node at the cursor keeps what the nodes before it published,
\* except for the slots they share.
LEMMA PublishRebuilds ==
    ASSUME NEW e \in Execution, e.cursor \in Nodes, NEW v \in Maybe, NEW rows, NEW later,
           e.pc # "checkpoint", Rebuilt(e, rows),
           \A m \in Nodes : later[m].output \in Maybe,
           \A m \in 1..(e.cursor - 1) : later[m] = rows[m],
           later[e.cursor].status # "none" => later[e.cursor].output = Json[v],
           NEW f, Behind(f) = e.cursor,
           \A m \in 1..(e.cursor - 1) : f.status[m] = e.status[m],
           f.board = Publish(e.board, e.cursor, v)
    PROVE  Rebuilt(f, later)
<1>1. SUFFICES ASSUME NEW m \in 1..e.cursor, f.status[m] = "done", later[m].status # "none",
                      NEW x \in Published(m, later[m].output) \ Overwritten(m, e.cursor)
               PROVE  Json[f.board[x]] = later[m].output
  BY DEF Rebuilt
<1>2. e.cursor \in Nat /\ e.cursor >= 1 /\ Behind(e) = e.cursor - 1
  BY StoreAssumption DEF Nodes, Behind
<1>3. CASE m = e.cursor
  <2>1. later[m].output = Json[v] /\ Published(m, Json[v]) = Published(m, v)
    BY <1>1, <1>3, RunnerAssumption
  <2>2. x \in Published(m, v) /\ x \in Slots
    BY <1>3, <2>1, RunnerAssumption
  <2>3. f.board[x] = v
    BY <1>3, <2>2 DEF Publish
  <2>4. QED
    BY <2>1, <2>3
<1>4. CASE m # e.cursor
  <2>1. m \in 1..(e.cursor - 1) /\ m \in Nodes
    BY <1>2, <1>4, StoreAssumption DEF Nodes
  <2>2. e.cursor \in (m + 1)..e.cursor /\ (m + 1)..(e.cursor - 1) \subseteq (m + 1)..e.cursor
    BY <1>2, <2>1
  <2>3. x \notin Published(e.cursor, v)
    BY <1>1, <2>2 DEF Overwritten
  <2>4. x \notin Overwritten(m, Behind(e))
    BY <1>1, <1>2, <2>2 DEF Overwritten
  <2>5. e.status[m] = "done" /\ rows[m].status # "none"
        /\ later[m] = rows[m] /\ x \in Published(m, rows[m].output)
    BY <1>1, <2>1
  <2>6. Json[e.board[x]] = rows[m].output
    BY <1>2, <2>1, <2>4, <2>5 DEF Rebuilt
  <2>7. x \in Slots
    BY <1>1, <2>1, RunnerAssumption
  <2>8. QED
    BY <2>3, <2>5, <2>6, <2>7 DEF Publish
<1>5. QED
  BY <1>3, <1>4

\* Moving on from a node that was not finished leaves the blackboard as it is.
LEMMA SkipRebuilds ==
    ASSUME NEW e \in Execution, e.cursor \in Nodes, NEW rows, NEW later,
           e.pc # "checkpoint", Rebuilt(e, rows),
           \A m \in 1..(e.cursor - 1) : later[m] = rows[m],
           NEW f, Behind(f) = e.cursor, f.board = e.board,
           \A m \in 1..(e.cursor - 1) : f.status[m] = e.status[m],
           f.status[e.cursor] # "done"
    PROVE  Rebuilt(f, later)
<1>1. SUFFICES ASSUME NEW m \in 1..e.cursor, f.status[m] = "done", later[m].status # "none",
                      NEW x \in Published(m, later[m].output) \ Overwritten(m, e.cursor)
               PROVE  Json[f.board[x]] = later[m].output
  BY DEF Rebuilt
<1>2. e.cursor \in Nat /\ e.cursor >= 1 /\ Behind(e) = e.cursor - 1
  BY StoreAssumption DEF Nodes, Behind
<1>3. m \in 1..(e.cursor - 1) /\ m \in Nodes
  BY <1>1, <1>2, StoreAssumption DEF Nodes
<1>4. (m + 1)..(e.cursor - 1) \subseteq (m + 1)..e.cursor
  BY <1>2, <1>3
<1>5. x \notin Overwritten(m, Behind(e))
  BY <1>1, <1>2, <1>4 DEF Overwritten
<1>6. QED
  BY <1>1, <1>2, <1>3, <1>5 DEF Rebuilt

\* An execution that moves on mirrors the rows, if it does so for the node it leaves.
LEMMA AdvanceMirrors ==
    ASSUME NEW g \in Execution, g.cursor \in Nodes, NEW rows,
           \A n \in Nodes : rows[n].status = "done" => g.status[n] = "done",
           \A n \in Nodes : n > g.cursor /\ g.status[n] = "done" => g.cached[n] = rows[n].output,
           Rebuilt(Advance(g), rows)
    PROVE  /\ Mirrors(Advance(g), rows)
           /\ \A ledger : OwnsKey(Advance(g), ledger)
<1>1. /\ Advance(g).pc = "visit" /\ Advance(g).cursor = g.cursor + 1
      /\ Advance(g).status = g.status /\ Advance(g).cached = g.cached
      /\ Advance(g).key = NoKey /\ Advance(g).verdict = "done"
  BY DEF Advance, Execution
<1>2. ASSUME NEW n \in Ahead(Advance(g)) PROVE n \in Nodes /\ n > g.cursor
  BY <1>1, StoreAssumption DEF Ahead, Nodes
<1>3. Mirrors(Advance(g), rows)
  BY <1>1, <1>2 DEF Mirrors, Unfinished, InNode
<1>4. QED
  BY <1>1, <1>3 DEF OwnsKey

\* What Advance and Done make of an execution.
LEMMA AdvanceOfDone ==
    ASSUME NEW e \in Execution, e.cursor \in Nodes, NEW v \in Maybe
    PROVE  /\ Done(e, v) \in Execution
           /\ Done(e, v).cursor = e.cursor /\ Done(e, v).cached = e.cached
           /\ Done(e, v).pc = e.pc /\ Done(e, v).key = e.key
           /\ Done(e, v).output = e.output /\ Done(e, v).verdict = e.verdict
           /\ Done(e, v).status[e.cursor] = "done"
           /\ \A n \in Nodes : n # e.cursor => Done(e, v).status[n] = e.status[n]
           /\ Done(e, v).board = Publish(e.board, e.cursor, v)
<1>1. Done(e, v) \in Execution
  BY DoneType
<1>2. QED
  BY <1>1 DEF Done, Execution

LEMMA AdvanceKeeps ==
    ASSUME NEW g \in Execution, g.cursor \in Nodes
    PROVE  /\ Behind(Advance(g)) = g.cursor
           /\ Advance(g).status = g.status /\ Advance(g).board = g.board
<1>1. Advance(g).pc = "visit" /\ Advance(g).cursor = g.cursor + 1
  BY DEF Advance, Execution
<1>2. g.cursor \in Nat
  BY StoreAssumption DEF Nodes
<1>3. QED
  BY <1>1, <1>2 DEF Behind, Advance, Execution

----------------------------------------------------------------------------
(* The steps, for the one worker.                                           *)

\* Coming and going: memory is made anew, or given up.
LEMMA SeqEntry ==
    ASSUME OneWorker, TypeInv, PrefixInv, LedgerInv, SeqInv, NEW w \in Workers,
           \/ start(w) \/ (\E decided \in SUBSET Gates, v \in Value : resume(w, decided, v))
           \/ crash(w) \/ complete(w) \/ stop(w)
    PROVE  SeqInv'
<1>1. PICK f : Become(w, f) /\ f.pc \in {"idle", "load"} /\ f.key = NoKey /\ f.verdict = "done"
  <2>1. CASE crash(w) \/ complete(w) \/ stop(w)
    BY <2>1 DEF crash, complete, stop, Idle
  <2>2. ASSUME NEW board, Launch(w, board)
        PROVE  \E f : Become(w, f) /\ f.pc \in {"idle", "load"} /\ f.key = NoKey /\ f.verdict = "done"
    <3> DEFINE f == [Idle EXCEPT !.pc = "load", !.board = board]
    <3>1. f.pc = "load" /\ f.key = NoKey /\ f.verdict = "done"
      BY DEF Idle
    <3>2. Become(w, f)
      BY <2>2 DEF Launch
    <3> HIDE DEF f
    <3>3. QED
      BY <3>1, <3>2
  <2>3. QED
    BY <2>1, <2>2 DEF start, resume
<1>2. UNCHANGED <<node_runs, effects>>
  BY DEF start, resume, crash, complete, stop, storeVars
<1>3. OwnsKey(f, effects)
  BY <1>1 DEF OwnsKey
<1>4. QED
  BY <1>1, <1>2, <1>3, SeqPrivate

\* The one read of the checkpoints makes memory a mirror of them.
LEMMA SeqRead ==
    ASSUME OneWorker, TypeInv, PrefixInv, LedgerInv, SeqInv, NEW w \in Workers,
           read_checkpoints(w)
    PROVE  SeqInv'
<1> DEFINE e == exec[w]
           f == [e EXCEPT
            !.pc = "visit",
            !.status = [n \in Nodes |-> IF node_runs[n].status = "none"
                                        THEN "pending" ELSE node_runs[n].status],
            !.cached = [n \in Nodes |-> node_runs[n].output]]
<1>1. /\ e \in Execution /\ KeyOK(e) /\ PrefixOK(e) /\ OwnsKey(e, effects)
      /\ e.pc = "load" /\ Become(w, f) /\ UNCHANGED <<node_runs, effects>>
  BY SeqFacts DEF read_checkpoints, At, storeVars
<1>2. e.cursor = 1 /\ e.key = NoKey /\ e.verdict = "done"
  BY <1>1 DEF PrefixOK, KeyOK, OwnsKey, InNode
<1>3. /\ f.pc = "visit" /\ f.cursor = 1 /\ f.key = NoKey /\ f.verdict = "done"
      /\ \A n \in Nodes : f.status[n] = IF node_runs[n].status = "none"
                                        THEN "pending" ELSE node_runs[n].status
      /\ \A n \in Nodes : f.cached[n] = node_runs[n].output
  BY <1>1, <1>2 DEF Execution
<1> HIDE DEF e, f
<1>4. Rebuilt(f, node_runs)
  BY <1>3 DEF Rebuilt, Behind
<1>5. Mirrors(f, node_runs)
  BY <1>3, <1>4 DEF Mirrors, Ahead, Unfinished, InNode
<1>6. OwnsKey(f, effects)
  BY <1>3 DEF OwnsKey
<1>7. QED
  BY <1>1, <1>5, <1>6, SeqPrivate

\* A checkpoint that is replayed puts back what its node published.
LEMMA SeqReplay ==
    ASSUME OneWorker, TypeInv, PrefixInv, LedgerInv, SeqInv, NEW w \in Workers,
           replay_checkpoint(w)
    PROVE  SeqInv'
<1> DEFINE e == exec[w]
           v == e.cached[e.cursor]
           g == Done(e, v)
<1>1. /\ e \in Execution /\ StoreTypeOK /\ ReadsBack(node_runs, effects)
      /\ e.pc = "visit" /\ e.cursor \in Nodes /\ e.status[e.cursor] = "done"
      /\ Mirrors(e, node_runs)
      /\ Become(w, Advance(g)) /\ UNCHANGED <<node_runs, effects>>
  BY SeqFacts DEF replay_checkpoint, Visiting, At, storeVars
<1> HIDE DEF e
<1>2. v \in Maybe /\ v = node_runs[e.cursor].output /\ Json[v] = node_runs[e.cursor].output
  BY <1>1 DEF Execution, Mirrors, Ahead, ReadsBack
<1> HIDE DEF v
<1>3. /\ g \in Execution /\ g.cursor = e.cursor /\ g.cached = e.cached
      /\ g.status[e.cursor] = "done"
      /\ \A n \in Nodes : n # e.cursor => g.status[n] = e.status[n]
      /\ g.board = Publish(e.board, e.cursor, v)
  BY <1>1, <1>2, AdvanceOfDone
<1> HIDE DEF g
<1>4. Behind(Advance(g)) = e.cursor /\ Advance(g).status = g.status /\ Advance(g).board = g.board
  BY <1>1, <1>3, AdvanceKeeps
<1>5. \A m \in 1..(e.cursor - 1) : m \in Nodes /\ m # e.cursor
  BY <1>1, StoreAssumption DEF Nodes
<1>6. Rebuilt(Advance(g), node_runs)
  <2>1. \A m \in Nodes : node_runs[m].output \in Maybe
    BY <1>1 DEF StoreTypeOK
  <2>2. Rebuilt(e, node_runs)
    BY <1>1 DEF Mirrors
  <2>3. \A m \in 1..(e.cursor - 1) : Advance(g).status[m] = e.status[m]
    BY <1>3, <1>4, <1>5
  <2>4. Advance(g).board = Publish(e.board, e.cursor, v)
    BY <1>3, <1>4
  <2>5. QED
    BY <1>1, <1>2, <1>4, <2>1, <2>2, <2>3, <2>4, PublishRebuilds
<1>7. /\ \A n \in Nodes : node_runs[n].status = "done" => g.status[n] = "done"
      /\ \A n \in Nodes : n > g.cursor /\ g.status[n] = "done" => g.cached[n] = node_runs[n].output
  BY <1>1, <1>3, StoreAssumption DEF Mirrors, Ahead, Nodes
<1>8. Mirrors(Advance(g), node_runs) /\ OwnsKey(Advance(g), effects)
  BY <1>1, <1>3, <1>6, <1>7, AdvanceMirrors
<1>9. QED
  BY <1>1, <1>8, SeqPrivate

\* A step within a node: nothing is published, no checkpoint written.
LEMMA SeqWithin ==
    ASSUME OneWorker, TypeInv, PrefixInv, LedgerInv, SeqInv, NEW w \in Workers,
           NEW e, e = exec[w], NEW f, Become(w, f), UNCHANGED node_runs,
           e.pc \in (InNode \cup {"visit"}) \ {"checkpoint"},
           e.cursor \in Nodes,
           f.pc \in InNode \ {"checkpoint"},
           f.pc = "settle" \/ e.status[e.cursor] # "done",
           f.status = e.status, f.cursor = e.cursor, f.cached = e.cached, f.board = e.board,
           OwnsKey(f, effects'),
           \/ UNCHANGED effects
           \/ /\ ReadsBack(node_runs', effects')
              /\ \A n \in AlwaysKeyed : Backed(n, node_runs', effects')
    PROVE  SeqInv'
<1>1. /\ ReadsBack(node_runs', effects')
      /\ \A n \in AlwaysKeyed : Backed(n, node_runs', effects')
      /\ Mirrors(e, node_runs)
  BY SeqFacts DEF InNode
<1>2. f.pc \in Unfinished => e.status[e.cursor] # "done"
  BY DEF Unfinished
<1>3. Mirrors(f, node_runs')
  BY <1>1, <1>2, MirrorsKept
<1>4. QED
  BY <1>1, <1>3, SeqBecome

\* A node is entered: without a key, with a claim of its own, or having lost it.
LEMMA SeqEnter ==
    ASSUME OneWorker, TypeInv, PrefixInv, LedgerInv, SeqInv, NEW w \in Workers,
           enter_unkeyed(w) \/ claim(w) \/ lose_claim(w)
    PROVE  SeqInv'
<1> DEFINE e == exec[w]
<1>0. PICK k : k = KeyOf(e.cursor, e.board)
  OBVIOUS
<1>1. /\ e \in Execution /\ StoreTypeOK /\ KeyOK(e) /\ OwnsKey(e, effects)
      /\ e.pc = "visit" /\ e.cursor \in Nodes /\ e.status[e.cursor] # "done"
      /\ UNCHANGED node_runs
  BY SeqFacts DEF enter_unkeyed, claim, lose_claim, Runnable, Visiting, At, storeVars
<1>2. e.key = NoKey /\ e.verdict = "done"
  BY <1>1 DEF KeyOK, OwnsKey, InNode
<1> HIDE DEF e
<1>3. CASE enter_unkeyed(w)
  <2> DEFINE f == [e EXCEPT !.pc = "begin", !.attempt = 1]
  <2>1. Become(w, f) /\ UNCHANGED effects
    BY <1>3 DEF enter_unkeyed, storeVars, e
  <2>2. /\ f.pc = "begin" /\ f.key = NoKey /\ f.verdict = "done"
        /\ f.status = e.status /\ f.cursor = e.cursor /\ f.cached = e.cached /\ f.board = e.board
    BY <1>1, <1>2 DEF Execution
  <2> HIDE DEF f
  <2>3. OwnsKey(f, effects')
    BY <2>2 DEF OwnsKey
  <2>4. QED
    BY <1>1, <2>1, <2>2, <2>3, SeqWithin DEF e, InNode, Steps
<1>4. CASE claim(w)
  <2> DEFINE f == [e EXCEPT !.pc = "begin", !.key = k, !.attempt = 1]
  <2>1. Become(w, f) /\ claim_effect(k) /\ k # NoKey
    BY <1>0, <1>4 DEF claim, e
  <2>2. k \in Keys
    BY <1>0, <1>1, <2>1, RunnerAssumption DEF Execution, e
  <2>3. /\ f.pc = "begin" /\ f.key = k /\ f.verdict = "done"
        /\ f.status = e.status /\ f.cursor = e.cursor /\ f.cached = e.cached /\ f.board = e.board
    BY <1>1, <1>2, <2>2 DEF Execution
  <2> HIDE DEF f
  <2>4. /\ effects' = [effects EXCEPT ![k] = Claimed] /\ effects[k].status = "free"
        /\ Claimed.status = "claimed" /\ Json[Claimed.result] = Claimed.result
    BY <2>1, StoreAssumption DEF claim_effect, Claimed
  <2>5. effects'[k].status = "claimed"
    BY <1>1, <2>2, <2>4 DEF StoreTypeOK
  <2>6. OwnsKey(f, effects')
    BY <2>3, <2>5 DEF OwnsKey
  <2>7. /\ ReadsBack(node_runs', effects')
        /\ \A n \in AlwaysKeyed : Backed(n, node_runs', effects')
    BY <1>1, <2>2, <2>4, SeqFacts, LedgerKeepsBacking
  <2>8. QED
    BY <1>1, <2>1, <2>3, <2>6, <2>7, SeqWithin DEF e, InNode, Steps
<1>5. CASE lose_claim(w)
  <2> DEFINE f == [e EXCEPT !.pc = "lookup", !.key = k]
  <2>1. Become(w, f) /\ effects[k].status # "free" /\ UNCHANGED effects /\ k # NoKey
    BY <1>0, <1>5 DEF lose_claim, claim_refused, e
  <2>2. k \in Keys
    BY <1>0, <1>1, <2>1, RunnerAssumption DEF Execution, e
  <2>3. /\ f.pc = "lookup" /\ f.key = k /\ f.verdict = "done"
        /\ f.status = e.status /\ f.cursor = e.cursor /\ f.cached = e.cached /\ f.board = e.board
    BY <1>1, <1>2, <2>2 DEF Execution
  <2> HIDE DEF f
  <2>4. OwnsKey(f, effects')
    BY <2>1, <2>3 DEF OwnsKey
  <2>5. QED
    BY <1>1, <2>1, <2>3, <2>4, SeqWithin DEF e, InNode, Steps
<1>6. QED
  BY <1>3, <1>4, <1>5

\* The row that refused the claim is recorded, or another execution's that died.
LEMMA SeqLookup ==
    ASSUME OneWorker, TypeInv, PrefixInv, LedgerInv, SeqInv, NEW w \in Workers, lookup(w)
    PROVE  SeqInv'
<1> DEFINE e == exec[w]
           row == effects[e.key]
<1>1. /\ e \in Execution /\ StepOK(e) /\ StoreTypeOK /\ OwnsKey(e, effects)
      /\ e.pc = "lookup" /\ Mirrors(e, node_runs)
      /\ UNCHANGED <<node_runs, effects>>
  BY SeqFacts DEF lookup, At, storeVars
<1>2. /\ e.cursor \in Nodes /\ e.key \in Keys /\ e.verdict = "done"
      /\ e.status[e.cursor] # "done" /\ row.status # "free"
  BY <1>1 DEF StepOK, OwnsKey, Mirrors, Unfinished, InNode, Steps
<1>3. /\ row.status \in EffectStatus
      /\ row = [status |-> row.status, result |-> row.result]
      /\ row.result \in Maybe
  BY <1>1, <1>2 DEF StoreTypeOK
<1>4. Become(w, IF row.status = "recorded" THEN [e EXCEPT !.pc = "replay", !.output = row.result]
                ELSE [e EXCEPT !.pc = "finish", !.verdict = "failed"])
  BY <1>2, <1>3 DEF lookup, EffectStatus
<1> HIDE DEF e, row
<1>5. CASE row.status = "recorded"
  <2> DEFINE f == [e EXCEPT !.pc = "replay", !.output = row.result]
  <2>1. /\ f.pc = "replay" /\ f.key = e.key /\ f.verdict = "done" /\ f.output = row.result
        /\ f.status = e.status /\ f.cursor = e.cursor /\ f.cached = e.cached /\ f.board = e.board
    BY <1>1, <1>2 DEF Execution
  <2>2. Become(w, f)
    BY <1>4, <1>5
  <2> HIDE DEF f
  <2>3. effects[f.key] = Recorded(f.output)
    BY <1>3, <1>5, <2>1 DEF Recorded, row
  <2>4. OwnsKey(f, effects')
    BY <1>1, <2>1, <2>3 DEF OwnsKey
  <2>5. QED
    BY <1>1, <1>2, <2>1, <2>2, <2>4, SeqWithin DEF e, InNode, Steps
<1>6. CASE row.status # "recorded"
  <2> DEFINE f == [e EXCEPT !.pc = "finish", !.verdict = "failed"]
  <2>1. /\ f.pc = "finish" /\ f.verdict = "failed"
        /\ f.status = e.status /\ f.cursor = e.cursor /\ f.cached = e.cached /\ f.board = e.board
    BY <1>1, <1>2 DEF Execution
  <2>2. Become(w, f)
    BY <1>4, <1>6
  <2> HIDE DEF f
  <2>3. OwnsKey(f, effects')
    BY <2>1 DEF OwnsKey
  <2>4. QED
    BY <1>1, <1>2, <2>1, <2>2, <2>3, SeqWithin DEF e, InNode, Steps
<1>7. QED
  BY <1>5, <1>6

\* The row becomes "running"; what it held, and who is done, is as it was.
LEMMA SeqStart ==
    ASSUME OneWorker, TypeInv, PrefixInv, LedgerInv, SeqInv, NEW w \in Workers, start_attempt(w)
    PROVE  SeqInv'
<1> DEFINE e == exec[w]
           f == [e EXCEPT !.pc = "acting"]
<1>1. /\ e \in Execution /\ StepOK(e) /\ StoreTypeOK /\ OwnsKey(e, effects)
      /\ ReadsBack(node_runs, effects)
      /\ \A n \in AlwaysKeyed : Backed(n, node_runs, effects)
      /\ e.pc = "begin" /\ Mirrors(e, node_runs)
      /\ Become(w, f) /\ start_node(e.cursor) /\ UNCHANGED effects
  BY SeqFacts DEF start_attempt, At
<1> HIDE DEF e
<1>2. e.cursor \in Nodes /\ e.status[e.cursor] # "done"
  BY <1>1 DEF StepOK, Mirrors, Unfinished, InNode, Steps
<1>3. /\ f.pc = "acting" /\ f.key = e.key /\ f.verdict = e.verdict /\ f.output = e.output
      /\ f.status = e.status /\ f.cursor = e.cursor /\ f.cached = e.cached /\ f.board = e.board
  BY <1>1 DEF Execution
<1> HIDE DEF f
<1>4. /\ \A n \in Nodes : n # e.cursor => node_runs'[n] = node_runs[n]
      /\ node_runs'[e.cursor].status = "running"
      /\ node_runs'[e.cursor].output = node_runs[e.cursor].output
  BY <1>1, <1>2 DEF StoreTypeOK, start_node
<1>5. ReadsBack(node_runs', effects')
  BY <1>1, <1>4 DEF ReadsBack
<1>6. \A n \in AlwaysKeyed : Backed(n, node_runs', effects')
  BY <1>1, <1>2, <1>4 DEF Backed, AlwaysKeyed
<1>7. Mirrors(f, node_runs)
  BY <1>1, <1>2, <1>3, MirrorsKept DEF InNode, Steps
<1>8. Behind(f) = e.cursor - 1 /\ \A m \in 1..(e.cursor - 1) : m \in Nodes /\ m # e.cursor
  BY <1>2, <1>3, StoreAssumption DEF Behind, Nodes
<1>9. Rebuilt(f, node_runs')
  BY <1>4, <1>7, <1>8 DEF Mirrors, Rebuilt
<1>10. Mirrors(f, node_runs')
  BY <1>2, <1>3, <1>4, <1>7, <1>9 DEF Mirrors, Ahead
<1>11. OwnsKey(f, effects')
  BY <1>1, <1>3 DEF OwnsKey
<1>12. QED
  BY <1>1, <1>5, <1>6, <1>10, <1>11, SeqBecome

\* The node's own code: it acts, returns, raises or asks.
LEMMA SeqAct ==
    ASSUME OneWorker, TypeInv, PrefixInv, LedgerInv, SeqInv, NEW w \in Workers,
           land(w) \/ (\E v \in Value : succeed(w, v)) \/ raise(w) \/ ask_approval(w)
    PROVE  SeqInv'
<1> DEFINE e == exec[w]
<1> USE DEF At
<1>1. /\ e \in Execution /\ StepOK(e) /\ StoreTypeOK /\ OwnsKey(e, effects) /\ KeyOK(e)
      /\ e.pc \in {"acting", "landed"} /\ Mirrors(e, node_runs)
      /\ UNCHANGED <<node_runs, effects>>
  BY SeqFacts DEF land, succeed, raise, ask_approval, storeVars
<1> HIDE DEF e
<1>2. /\ e.cursor \in Nodes /\ e.status[e.cursor] # "done" /\ e.verdict = "done"
      /\ e.key # NoKey => effects[e.key].status = "claimed"
      /\ e.pc = "landed" => e.key # NoKey
  BY <1>1, RunnerAssumption DEF StepOK, Mirrors, Unfinished, InNode, Steps, OwnsKey
<1>3. ASSUME NEW f, Become(w, f), OwnsKey(f, effects), f.pc \in Unfinished,
             f.status = e.status, f.cursor = e.cursor, f.cached = e.cached, f.board = e.board
      PROVE  SeqInv'
  BY <1>1, <1>2, <1>3, SeqWithin DEF e, InNode, Steps, Unfinished
<1>4. CASE land(w)
  <2> DEFINE f == [e EXCEPT !.pc = "landed"]
  <2>1. Become(w, f)
    BY <1>4 DEF land, e
  <2>2. /\ f.pc = "landed" /\ f.key = e.key /\ f.verdict = "done"
        /\ f.status = e.status /\ f.cursor = e.cursor /\ f.cached = e.cached /\ f.board = e.board
    BY <1>1, <1>2 DEF Execution
  <2> HIDE DEF f
  <2>3. OwnsKey(f, effects)
    BY <1>2, <2>2 DEF OwnsKey
  <2>4. QED
    BY <1>3, <2>1, <2>2, <2>3 DEF Unfinished, InNode, Steps
<1>5. ASSUME NEW v \in Value, succeed(w, v) PROVE SeqInv'
  <2> DEFINE f == [e EXCEPT !.pc = IF e.key = NoKey THEN "finish" ELSE "record", !.output = v]
  <2>1. Become(w, f)
    BY <1>5 DEF succeed, e
  <2>2. /\ f.pc = (IF e.key = NoKey THEN "finish" ELSE "record")
        /\ f.key = e.key /\ f.verdict = "done"
        /\ f.status = e.status /\ f.cursor = e.cursor /\ f.cached = e.cached /\ f.board = e.board
    BY <1>1, <1>2 DEF Execution
  <2> HIDE DEF f
  <2>3. OwnsKey(f, effects)
    BY <1>2, <2>2 DEF OwnsKey
  <2>4. QED
    BY <1>3, <2>1, <2>2, <2>3 DEF Unfinished, InNode, Steps
<1>6. CASE raise(w)
  <2>1. PICK f : /\ f \in {[e EXCEPT !.pc = "begin", !.attempt = @ + 1],
                           [e EXCEPT !.pc = "release", !.verdict = "failed"]}
                 /\ Become(w, f)
    BY <1>6 DEF raise, e
  <2>2. /\ \/ f.pc = "begin" /\ f.verdict = "done"
           \/ f.pc = "release" /\ f.verdict = "failed"
        /\ f.key = e.key
        /\ f.status = e.status /\ f.cursor = e.cursor /\ f.cached = e.cached /\ f.board = e.board
    BY <1>1, <1>2, <2>1 DEF Execution
  <2>3. OwnsKey(f, effects)
    BY <1>2, <2>2 DEF OwnsKey
  <2>4. QED
    BY <1>3, <2>1, <2>2, <2>3 DEF Unfinished, InNode, Steps
<1>7. CASE ask_approval(w)
  <2> DEFINE f == [e EXCEPT !.pc = "release", !.verdict = "paused"]
  <2>1. Become(w, f)
    BY <1>7 DEF ask_approval, e
  <2>2. /\ f.pc = "release" /\ f.key = e.key /\ f.verdict = "paused"
        /\ f.status = e.status /\ f.cursor = e.cursor /\ f.cached = e.cached /\ f.board = e.board
    BY <1>1, <1>2 DEF Execution
  <2> HIDE DEF f
  <2>3. OwnsKey(f, effects)
    BY <1>2, <2>2 DEF OwnsKey
  <2>4. QED
    BY <1>3, <2>1, <2>2, <2>3 DEF Unfinished, InNode, Steps
<1>8. QED
  BY <1>4, <1>5, <1>6, <1>7

\* The claim is exchanged for the record, or given up; no one else can have taken it.
LEMMA SeqSettleKey ==
    ASSUME OneWorker, TypeInv, PrefixInv, LedgerInv, SeqInv, NEW w \in Workers,
           record(w) \/ record_nothing(w) \/ insert(w) \/ release(w)
    PROVE  SeqInv'
<1> DEFINE e == exec[w]
           k == e.key
           f == [e EXCEPT !.pc = "finish"]
<1> USE DEF At
<1>1. /\ e \in Execution /\ StepOK(e) /\ StoreTypeOK /\ OwnsKey(e, effects) /\ KeyOK(e)
      /\ ReadsBack(node_runs, effects)
      /\ \A n \in AlwaysKeyed : Backed(n, node_runs, effects)
      /\ e.pc \in {"record", "release"} /\ Mirrors(e, node_runs)
      /\ UNCHANGED node_runs
  BY SeqFacts DEF record, record_nothing, insert, release, storeVars, OwnsKey
<1> HIDE DEF e
<1>2. /\ e.cursor \in Nodes /\ e.status[e.cursor] # "done"
      /\ k # NoKey => effects[k].status = "claimed" /\ k \in Keys
      /\ e.pc = "record" => k # NoKey /\ e.verdict = "done" /\ e.output \in Maybe
      /\ e.pc = "release" => e.verdict # "done"
  BY <1>1, RunnerAssumption
     DEF StepOK, Mirrors, Unfinished, InNode, Steps, OwnsKey, Execution
<1>3. /\ f.pc = "finish" /\ f.key = k /\ f.verdict = e.verdict /\ f.output = e.output
      /\ f.status = e.status /\ f.cursor = e.cursor /\ f.cached = e.cached /\ f.board = e.board
  BY <1>1 DEF Execution
<1> HIDE DEF f, k
<1>4. ASSUME Become(w, f), NEW row, k # NoKey, effects' = [effects EXCEPT ![k] = row],
             Json[row.result] = row.result, OwnsKey(f, [effects EXCEPT ![k] = row])
      PROVE  SeqInv'
  <2>1. /\ ReadsBack(node_runs', effects')
        /\ \A n \in AlwaysKeyed : Backed(n, node_runs', effects')
    BY <1>1, <1>2, <1>4, LedgerKeepsBacking
  <2>2. QED
    BY <1>1, <1>2, <1>3, <1>4, <2>1, SeqWithin DEF e, InNode, Steps
<1>5. CASE record(w)
  <2> DEFINE row == Recorded(Json[e.output])
  <2>1. /\ Become(w, f) /\ e.pc = "record" /\ effects' = [effects EXCEPT ![k] = row]
    BY <1>5 DEF record, record_effect, e, f, k, Recorded
  <2>2. Json[row.result] = row.result
    BY <1>2, <2>1, JsonTwice DEF Recorded
  <2> HIDE DEF row
  <2>3. [effects EXCEPT ![k] = row][k] = row
    BY <1>1, <1>2, <2>1 DEF StoreTypeOK
  <2>4. OwnsKey(f, [effects EXCEPT ![k] = row])
    BY <1>2, <1>3, <2>1, <2>3 DEF OwnsKey, row
  <2>5. QED
    BY <1>2, <1>4, <2>1, <2>2, <2>4
<1>6. CASE record_nothing(w)
  BY <1>2, <1>6 DEF record_nothing, e, k
<1>7. CASE insert(w)
  BY <1>1, <1>7 DEF insert, e
<1>8. CASE release(w)
  <2>1. Become(w, f) /\ e.pc = "release"
    BY <1>8 DEF release, e, f
  <2>2. CASE k = NoKey
    <3>1. UNCHANGED effects
      BY <1>8, <2>2 DEF release, e, k
    <3>2. OwnsKey(f, effects')
      BY <1>3, <2>2 DEF OwnsKey, k
    <3>3. QED
      BY <1>1, <1>2, <1>3, <2>1, <3>1, <3>2, SeqWithin DEF e, InNode, Steps
  <2>3. CASE k # NoKey
    <3> DEFINE row == [status |-> "free", result |-> Absent]
    <3>1. effects' = [effects EXCEPT ![k] = row]
      BY <1>2, <1>8, <2>3 DEF release, release_effect, e, k
    <3>2. Json[row.result] = row.result /\ row.status = "free"
      BY StoreAssumption
    <3> HIDE DEF row
    <3>3. [effects EXCEPT ![k] = row][k] = row
      BY <1>1, <1>2, <2>3 DEF StoreTypeOK
    <3>4. OwnsKey(f, [effects EXCEPT ![k] = row])
      BY <1>2, <1>3, <2>1, <3>2, <3>3 DEF OwnsKey
    <3>5. QED
      BY <1>4, <2>1, <2>3, <3>1, <3>2, <3>4
  <2>4. QED
    BY <2>2, <2>3
<1>9. QED
  BY <1>5, <1>6, <1>7, <1>8

\* A node that is blocked or skipped publishes nothing, and its row is not done.
LEMMA SeqPassOver ==
    ASSUME OneWorker, TypeInv, PrefixInv, LedgerInv, SeqInv, NEW w \in Workers, pass_over(w)
    PROVE  SeqInv'
<1> DEFINE e == exec[w]
           verdict == IF BlockedBy(e) # {} THEN "blocked" ELSE "skipped"
           g == [e EXCEPT !.status[e.cursor] = verdict]
<1>1. /\ e \in Execution /\ StoreTypeOK /\ ReadsBack(node_runs, effects)
      /\ \A n \in AlwaysKeyed : Backed(n, node_runs, effects)
      /\ e.pc = "visit" /\ e.cursor \in Nodes /\ e.status[e.cursor] # "done"
      /\ Mirrors(e, node_runs)
      /\ finish_node(e.cursor, verdict, Absent)
      /\ Become(w, Advance(g)) /\ UNCHANGED effects
      /\ verdict \in {"blocked", "skipped"}
  BY SeqFacts DEF pass_over, Visiting, At
<1> HIDE DEF e, verdict
<1>2. verdict # "done" /\ verdict \in NodeStatus
  BY <1>1 DEF NodeStatus
<1>3. /\ g \in Execution /\ g.cursor = e.cursor /\ g.cached = e.cached /\ g.board = e.board
      /\ g.status[e.cursor] = verdict
      /\ \A n \in Nodes : n # e.cursor => g.status[n] = e.status[n]
  BY <1>1, <1>2 DEF Execution
<1> HIDE DEF g
<1>4. Behind(Advance(g)) = e.cursor /\ Advance(g).status = g.status /\ Advance(g).board = g.board
  BY <1>1, <1>3, AdvanceKeeps
<1>5. \A m \in 1..(e.cursor - 1) : m \in Nodes /\ m # e.cursor
  BY <1>1, StoreAssumption DEF Nodes
<1>6. /\ ReadsBack(node_runs', effects')
      /\ \A n \in AlwaysKeyed : Backed(n, node_runs', effects')
  BY <1>1, <1>2, FinishKeepsBacking DEF Maybe
<1>7. /\ \A m \in Nodes : m # e.cursor => node_runs'[m] = node_runs[m]
      /\ node_runs'[e.cursor].status # "done"
  BY <1>1, <1>2, FinishedOtherwise
<1>8. Rebuilt(Advance(g), node_runs')
  <2>1. Rebuilt(e, node_runs)
    BY <1>1 DEF Mirrors
  <2>2. /\ \A m \in 1..(e.cursor - 1) : node_runs'[m] = node_runs[m]
        /\ \A m \in 1..(e.cursor - 1) : Advance(g).status[m] = e.status[m]
    BY <1>3, <1>4, <1>5, <1>7
  <2>3. Advance(g).board = e.board /\ Advance(g).status[e.cursor] # "done"
    BY <1>2, <1>3, <1>4
  <2>4. QED
    BY <1>1, <1>4, <2>1, <2>2, <2>3, SkipRebuilds
<1>9. /\ \A n \in Nodes : node_runs'[n].status = "done" => g.status[n] = "done"
      /\ \A n \in Nodes : n > g.cursor /\ g.status[n] = "done" => g.cached[n] = node_runs'[n].output
  BY <1>1, <1>3, <1>7, StoreAssumption DEF Mirrors, Ahead, Nodes
<1>10. Mirrors(Advance(g), node_runs') /\ OwnsKey(Advance(g), effects')
  BY <1>1, <1>3, <1>8, <1>9, AdvanceMirrors
<1>11. QED
  BY <1>1, <1>6, <1>10, SeqBecome

\* What becomes of a node that is done, in its row and in memory.
LEMMA SeqDone ==
    ASSUME TypeInv, PrefixInv, LedgerInv, SeqInv, NEW w \in Workers,
           NEW e, e = exec[w], e.pc \in Unfinished, e.output \in Maybe, UNCHANGED effects,
           finish_node(e.cursor, "done", e.output),
           e.cursor \in AlwaysKeyed => effects[e.key] = Recorded(Json[e.output]),
           NEW g, g = Done(e, e.output)
    PROVE  /\ e \in Execution /\ g \in Execution /\ g.cursor = e.cursor /\ e.cursor \in Nodes
           /\ g.status[e.cursor] = "done"
           /\ ReadsBack(node_runs', effects')
           /\ \A n \in AlwaysKeyed : Backed(n, node_runs', effects')
           /\ \A n \in Nodes : node_runs'[n].status = "done" => g.status[n] = "done"
           /\ \A n \in Nodes : n > e.cursor /\ g.status[n] = "done" =>
                g.cached[n] = node_runs'[n].output
           /\ \A f : /\ Behind(f) = e.cursor
                     /\ f.status = g.status
                     /\ f.board = g.board
                     => Rebuilt(f, node_runs')
<1>1. /\ e \in Execution /\ StepOK(e) /\ KeyOK(e) /\ StoreTypeOK
      /\ ReadsBack(node_runs, effects)
      /\ \A n \in AlwaysKeyed : Backed(n, node_runs, effects)
      /\ Mirrors(e, node_runs)
  BY SeqFacts DEF Unfinished, InNode
<1>2. e.cursor \in Nodes
  BY <1>1 DEF StepOK, Unfinished
<1>3. e.cursor \in AlwaysKeyed => e.key \in KeysOf[e.cursor]
  BY <1>1 DEF KeyOK, Unfinished
<1>4. /\ g \in Execution /\ g.cursor = e.cursor /\ g.cached = e.cached
      /\ g.status[e.cursor] = "done"
      /\ \A n \in Nodes : n # e.cursor => g.status[n] = e.status[n]
      /\ g.board = Publish(e.board, e.cursor, e.output)
  BY <1>1, <1>2, AdvanceOfDone
<1>5. /\ ReadsBack(node_runs', effects')
      /\ \A n \in AlwaysKeyed : Backed(n, node_runs', effects')
  BY <1>1, <1>2, <1>3, FinishKeepsBacking
<1>6. /\ \A m \in Nodes : m # e.cursor => node_runs'[m] = node_runs[m]
      /\ \/ node_runs'[e.cursor] = [status |-> "done", output |-> Json[e.output]]
         \/ node_runs'[e.cursor] = node_runs[e.cursor] /\ node_runs[e.cursor].status = "none"
  BY <1>1, <1>2, FinishedRow
<1>7. /\ \A n \in Nodes : node_runs'[n].status = "done" => g.status[n] = "done"
      /\ \A n \in Nodes : n > e.cursor /\ g.status[n] = "done" => g.cached[n] = node_runs'[n].output
  BY <1>1, <1>2, <1>4, <1>6, StoreAssumption DEF Mirrors, Ahead, Nodes
<1>8. \A m \in 1..(e.cursor - 1) : m \in Nodes /\ m # e.cursor
  BY <1>2, StoreAssumption DEF Nodes
<1>9. ASSUME NEW f, Behind(f) = e.cursor, f.status = g.status, f.board = g.board
      PROVE  Rebuilt(f, node_runs')
  <2>1. Rebuilt(e, node_runs) /\ e.pc # "checkpoint"
    BY <1>1 DEF Mirrors, Unfinished
  <2>2. /\ \A m \in 1..(e.cursor - 1) : node_runs'[m] = node_runs[m]
        /\ \A m \in 1..(e.cursor - 1) : f.status[m] = e.status[m]
    BY <1>4, <1>6, <1>8, <1>9
  <2>3. \A m \in Nodes : node_runs'[m].output \in Maybe
    BY <1>1, <1>2, <1>6, JsonTwice DEF StoreTypeOK
  <2>4. node_runs'[e.cursor].status # "none" => node_runs'[e.cursor].output = Json[e.output]
    BY <1>6
  <2>5. f.board = Publish(e.board, e.cursor, e.output)
    BY <1>4, <1>9
  <2>6. QED
    BY <1>1, <1>2, <1>9, <2>1, <2>2, <2>3, <2>4, <2>5, PublishRebuilds
<1>10. QED
  BY <1>1, <1>2, <1>4, <1>5, <1>7, <1>9

\* A result of the ledger stands in for the act.
LEMMA SeqReplayEffect ==
    ASSUME OneWorker, TypeInv, PrefixInv, LedgerInv, SeqInv, NEW w \in Workers,
           replay_effect(w)
    PROVE  SeqInv'
<1> DEFINE e == exec[w]
           g == Done(e, e.output)
<1>1. /\ e \in Execution /\ KeyOK(e) /\ OwnsKey(e, effects) /\ StepOK(e)
      /\ ReadsBack(node_runs, effects)
      /\ e.pc = "replay" /\ e.output \in Maybe
      /\ finish_node(e.cursor, "done", e.output) /\ UNCHANGED effects
      /\ Become(w, Advance(g))
  BY SeqFacts DEF replay_effect, At, Execution
<1>2. e.pc \in Unfinished
  BY <1>1 DEF Unfinished, InNode, Steps
<1>3. e.cursor \in AlwaysKeyed => effects[e.key] = Recorded(Json[e.output])
  <2>1. SUFFICES ASSUME e.cursor \in AlwaysKeyed PROVE effects[e.key] = Recorded(Json[e.output])
    OBVIOUS
  <2>2. e.key \in Keys
    BY <1>1, <1>2, <2>1, KeysOfType DEF KeyOK, Unfinished, AlwaysKeyed
  <2>3. effects[e.key] = Recorded(e.output)
    BY <1>1 DEF OwnsKey
  <2>4. Json[e.output] = e.output
    BY <1>1, <2>2, <2>3 DEF ReadsBack, Recorded
  <2>5. QED
    BY <2>3, <2>4
<1>4. /\ g \in Execution /\ g.cursor = e.cursor /\ e.cursor \in Nodes
      /\ ReadsBack(node_runs', effects')
      /\ \A n \in AlwaysKeyed : Backed(n, node_runs', effects')
      /\ \A n \in Nodes : node_runs'[n].status = "done" => g.status[n] = "done"
      /\ \A n \in Nodes : n > e.cursor /\ g.status[n] = "done" => g.cached[n] = node_runs'[n].output
      /\ \A f : /\ Behind(f) = e.cursor /\ f.status = g.status /\ f.board = g.board
                => Rebuilt(f, node_runs')
  BY <1>1, <1>2, <1>3, SeqDone
<1> HIDE DEF e, g
<1>5. Rebuilt(Advance(g), node_runs')
  BY <1>4, AdvanceKeeps
<1>6. Mirrors(Advance(g), node_runs') /\ OwnsKey(Advance(g), effects')
  BY <1>4, <1>5, AdvanceMirrors
<1>7. QED
  BY <1>1, <1>4, <1>6, SeqBecome

\* finish_node with the verdict of the node that was acting.
LEMMA SeqFinish ==
    ASSUME OneWorker, TypeInv, PrefixInv, LedgerInv, SeqInv, NEW w \in Workers, finish(w)
    PROVE  SeqInv'
<1> DEFINE e == exec[w]
<1>1. /\ e \in Execution /\ KeyOK(e) /\ OwnsKey(e, effects) /\ StepOK(e) /\ StoreTypeOK
      /\ ReadsBack(node_runs, effects)
      /\ \A n \in AlwaysKeyed : Backed(n, node_runs, effects)
      /\ Mirrors(e, node_runs)
      /\ e.pc = "finish" /\ e.output \in Maybe /\ e.verdict \in {"done", "paused", "failed"}
      /\ finish_node(e.cursor, e.verdict, e.output) /\ UNCHANGED effects
  BY SeqFacts DEF finish, At, Execution
<1>2. e.pc \in Unfinished /\ e.cursor \in Nodes /\ e.status[e.cursor] # "done"
  BY <1>1 DEF Unfinished, InNode, Steps, StepOK, Mirrors
<1>3. CASE e.verdict = "done"
  <2> DEFINE g == Done(e, e.output)
             f == [g EXCEPT !.pc = "checkpoint"]
  <2>1. e.cursor \in AlwaysKeyed => effects[e.key] = Recorded(Json[e.output])
    BY <1>1, <1>2, <1>3 DEF OwnsKey, KeyOK, Unfinished
  <2>2. /\ g \in Execution /\ g.cursor = e.cursor
        /\ g.status[e.cursor] = "done"
        /\ ReadsBack(node_runs', effects')
        /\ \A n \in AlwaysKeyed : Backed(n, node_runs', effects')
        /\ \A n \in Nodes : node_runs'[n].status = "done" => g.status[n] = "done"
        /\ \A n \in Nodes : n > e.cursor /\ g.status[n] = "done" =>
             g.cached[n] = node_runs'[n].output
        /\ \A h : /\ Behind(h) = e.cursor /\ h.status = g.status /\ h.board = g.board
                  => Rebuilt(h, node_runs')
    BY <1>1, <1>2, <1>3, <2>1, SeqDone
  <2>3. g.verdict = "done"
    BY <1>1, <1>2, <1>3, AdvanceOfDone
  <2>4. Become(w, f)
    BY <1>3 DEF finish
  <2> HIDE DEF e, g
  <2>5. /\ f.pc = "checkpoint" /\ f.cursor = e.cursor /\ f.status = g.status
        /\ f.cached = g.cached /\ f.board = g.board /\ f.verdict = "done"
    BY <2>2, <2>3 DEF Execution
  <2> HIDE DEF f
  <2>6. Behind(f) = e.cursor
    BY <2>5 DEF Behind
  <2>7. Rebuilt(f, node_runs')
    BY <2>2, <2>5, <2>6
  <2>8. Mirrors(f, node_runs')
    BY <2>2, <2>5, <2>7 DEF Mirrors, Ahead, Unfinished
  <2>9. OwnsKey(f, effects')
    BY <2>5 DEF OwnsKey
  <2>10. QED
    BY <2>2, <2>4, <2>8, <2>9, SeqBecome
<1>4. CASE e.verdict # "done"
  <2> DEFINE f == [e EXCEPT !.pc = "settle", !.status[e.cursor] = e.verdict,
                            !.unwind = IF e.verdict = "failed" THEN N ELSE 0]
  <2>1. Become(w, f)
    BY <1>4 DEF finish
  <2>2. /\ ReadsBack(node_runs', effects')
        /\ \A n \in AlwaysKeyed : Backed(n, node_runs', effects')
    BY <1>1, <1>2, <1>4, FinishKeepsBacking
  <2>3. /\ \A m \in Nodes : m # e.cursor => node_runs'[m] = node_runs[m]
        /\ node_runs'[e.cursor].status # "done"
    BY <1>1, <1>2, <1>4, FinishedOtherwise
  <2> HIDE DEF e
  <2>4. /\ f.pc = "settle" /\ f.cursor = e.cursor /\ f.key = e.key /\ f.verdict = e.verdict
        /\ f.cached = e.cached /\ f.board = e.board
        /\ f.status[e.cursor] = e.verdict
        /\ \A n \in Nodes : n # e.cursor => f.status[n] = e.status[n]
    BY <1>1, <1>2 DEF Execution
  <2> HIDE DEF f
  <2>5. Behind(f) = Behind(e) /\ Behind(e) = e.cursor - 1
    BY <1>1, <2>4 DEF Behind
  <2>6. \A m \in 1..(e.cursor - 1) : m \in Nodes /\ m # e.cursor
    BY <1>2, StoreAssumption DEF Nodes
  <2>7. Rebuilt(f, node_runs')
    BY <1>1, <2>3, <2>4, <2>5, <2>6 DEF Mirrors, Rebuilt
  <2>8. \A n \in Ahead(f) : n \in Ahead(e) /\ n # e.cursor /\ n \in Nodes
    BY <1>2, <2>4, StoreAssumption DEF Ahead, Nodes
  <2>9. Mirrors(f, node_runs')
    BY <1>1, <1>4, <2>3, <2>4, <2>7, <2>8 DEF Mirrors, Unfinished
  <2>10. OwnsKey(f, effects')
    BY <1>1, <1>4, <2>4 DEF OwnsKey
  <2>11. QED
    BY <2>1, <2>2, <2>9, <2>10, SeqBecome
<1>5. QED
  BY <1>3, <1>4

\* The run row is saved, and the execution moves on.
LEMMA SeqCheckpoint ==
    ASSUME OneWorker, TypeInv, PrefixInv, LedgerInv, SeqInv, NEW w \in Workers, checkpoint(w)
    PROVE  SeqInv'
<1> DEFINE e == exec[w]
<1>1. /\ e \in Execution /\ StepOK(e) /\ e.pc = "checkpoint" /\ Mirrors(e, node_runs)
      /\ Become(w, Advance(e)) /\ UNCHANGED <<node_runs, effects>>
  BY SeqFacts DEF checkpoint, At
<1> HIDE DEF e
<1>2. e.cursor \in Nodes
  BY <1>1 DEF StepOK, InNode, Steps
<1>3. /\ Behind(Advance(e)) = Behind(e) /\ Advance(e).status = e.status
      /\ Advance(e).board = e.board
  BY <1>1, <1>2, AdvanceKeeps DEF Behind
<1>4. Rebuilt(Advance(e), node_runs)
  BY <1>1, <1>3 DEF Mirrors, Rebuilt
<1>5. /\ \A n \in Nodes : node_runs[n].status = "done" => e.status[n] = "done"
      /\ \A n \in Nodes : n > e.cursor /\ e.status[n] = "done" => e.cached[n] = node_runs[n].output
  BY <1>1 DEF Mirrors, Ahead
<1>6. Mirrors(Advance(e), node_runs) /\ OwnsKey(Advance(e), effects)
  BY <1>1, <1>2, <1>4, <1>5, AdvanceMirrors
<1>7. QED
  BY <1>1, <1>6, SeqPrivate

\* What depends on a failed node is blocked: none of it had a result to lose.
LEMMA SeqSettle ==
    ASSUME OneWorker, TypeInv, PrefixInv, LedgerInv, SeqInv, NEW w \in Workers,
           compensate(w) \/ block_dependents(w)
    PROVE  SeqInv'
<1> DEFINE e == exec[w]
<1>1. /\ e \in Execution /\ StepOK(e) /\ PrefixOK(e) /\ StoreTypeOK /\ OwnsKey(e, effects)
      /\ ReadsBack(node_runs, effects)
      /\ \A n \in AlwaysKeyed : Backed(n, node_runs, effects)
      /\ Mirrors(e, node_runs) /\ e.pc = "settle" /\ UNCHANGED effects
  BY SeqFacts DEF compensate, block_dependents, At, storeVars
<1>2. e.cursor \in Nodes /\ e.verdict # "done"
  BY <1>1 DEF StepOK, InNode, Steps
<1>3. CASE compensate(w)
  <2>1. PICK n \in ToUndo(e) : Become(w, [e EXCEPT !.unwind = n - 1])
    BY <1>3 DEF compensate
  <2> DEFINE f == [e EXCEPT !.unwind = n - 1]
  <2>2. UNCHANGED node_runs
    BY <1>3 DEF compensate, storeVars
  <2> HIDE DEF e
  <2>3. /\ f.pc = "settle" /\ f.key = e.key /\ f.verdict = e.verdict
        /\ f.status = e.status /\ f.cursor = e.cursor /\ f.cached = e.cached /\ f.board = e.board
    BY <1>1 DEF Execution
  <2>4. Become(w, f)
    BY <2>1
  <2> HIDE DEF f
  <2>5. OwnsKey(f, effects')
    BY <1>1, <2>3 DEF OwnsKey
  <2>6. QED
    BY <1>1, <1>2, <2>2, <2>3, <2>4, <2>5, SeqWithin DEF e, InNode, Steps
<1>4. CASE block_dependents(w)
  <2>1. PICK n \in ToBlock(e) : /\ finish_node(n, "blocked", Absent)
                                /\ Become(w, [e EXCEPT !.status[n] = "blocked"])
    BY <1>4 DEF block_dependents
  <2> DEFINE f == [e EXCEPT !.status[n] = "blocked"]
  <2>2. n \in Nodes /\ n # e.cursor /\ e.status[n] = "pending"
    BY DEF ToBlock, Downstream
  <2>3. Become(w, f)
    BY <2>1
  <2>4. Absent \in Maybe
    BY DEF Maybe
  <2>5. /\ ReadsBack(node_runs', effects')
        /\ \A m \in AlwaysKeyed : Backed(m, node_runs', effects')
    BY <1>1, <2>1, <2>2, <2>4, FinishKeepsBacking
  <2>6. /\ \A m \in Nodes : m # n => node_runs'[m] = node_runs[m]
        /\ node_runs'[n].status # "done"
    BY <1>1, <2>1, <2>2, FinishedOtherwise
  <2> HIDE DEF e
  <2>7. /\ f.pc = "settle" /\ f.cursor = e.cursor /\ f.key = e.key /\ f.verdict = e.verdict
        /\ f.cached = e.cached /\ f.board = e.board
        /\ f.status[n] = "blocked"
        /\ \A m \in Nodes : m # n => f.status[m] = e.status[m]
    BY <1>1, <2>2 DEF Execution
  <2> HIDE DEF f
  <2>8. Behind(f) = Behind(e) /\ Behind(e) = e.cursor - 1 /\ Ahead(f) = Ahead(e)
    BY <1>1, <2>7 DEF Behind, Ahead
  <2>9. \A m \in 1..(e.cursor - 1) : m \in Nodes
    BY <1>2, StoreAssumption DEF Nodes
  <2>10. \A m \in 1..(e.cursor - 1) : m # n
    BY <1>1, <2>2 DEF PrefixOK, Settled
  <2>11. Rebuilt(f, node_runs')
    BY <1>1, <2>6, <2>7, <2>8, <2>9, <2>10 DEF Mirrors, Rebuilt
  <2>12. \A m \in Ahead(f) : f.status[m] = "done" => f.cached[m] = node_runs'[m].output
    BY <1>1, <2>6, <2>7, <2>8 DEF Mirrors, Ahead
  <2>13. Mirrors(f, node_runs')
    BY <1>1, <2>6, <2>7, <2>11, <2>12 DEF Mirrors, Unfinished
  <2>14. OwnsKey(f, effects')
    BY <1>1, <2>7 DEF OwnsKey
  <2>15. QED
    BY <2>3, <2>5, <2>13, <2>14, SeqBecome
<1>5. QED
  BY <1>3, <1>4

LEMMA SeqInitially == Init => SeqInv
BY StoreAssumption DEF Init, StoreInit, SeqInv, ReadsBack, Backed, OwnsKey, Idle, AlwaysKeyed

LEMMA SeqStep ==
    OneWorker /\ TypeInv /\ PrefixInv /\ LedgerInv /\ SeqInv /\ [Next]_vars => SeqInv'
<1> SUFFICES ASSUME OneWorker, TypeInv, PrefixInv, LedgerInv, SeqInv, [Next]_vars PROVE SeqInv'
  OBVIOUS
<1>1. CASE UNCHANGED vars
  BY <1>1 DEF vars, SeqInv
<1>2. CASE Next
  <2>1. PICK w \in Workers :
            \/ start(w)
            \/ \E decided \in SUBSET Gates, v \in Value : resume(w, decided, v)
            \/ Execute(w)
            \/ crash(w)
    BY <1>2 DEF Next
  <2>2. QED
    BY <2>1, SeqEntry, SeqRead, SeqReplay, SeqPassOver, SeqEnter, SeqLookup, SeqReplayEffect,
       SeqStart, SeqAct, SeqSettleKey, SeqFinish, SeqCheckpoint, SeqSettle DEF Execute
<1>3. QED
  BY <1>1, <1>2

LEMMA AlwaysPrefix == Spec => []PrefixInv
<1>1. Init => PrefixInv
  BY PrefixIdle DEF Init, PrefixInv
<1>2. QED
  BY <1>1, AlwaysTyped, PrefixStep, PTL DEF Spec

LEMMA AlwaysSequential == ASSUME OneWorker PROVE Spec => []SeqInv
<1>1. TypeInv /\ PrefixInv /\ LedgerInv /\ SeqInv /\ [Next]_vars => SeqInv'
  BY SeqStep
<1>2. QED
  BY <1>1, SeqInitially, AlwaysTyped, AlwaysPrefix, AlwaysLedger, PTL DEF Spec

----------------------------------------------------------------------------
(* What follows.                                                            *)

\* A finished node with a key stands on a recorded effect, and its checkpoint
\* holds that effect's result, wherever the one process died between the two
\* commits of _run_node 253-259.
THEOREM DoneAlwaysBacked == ASSUME OneWorker PROVE Spec => []DoneIsBacked
<1>1. SeqInv => DoneIsBacked
  BY DEF SeqInv, Backed, Recorded, DoneIsBacked
<1>2. QED
  BY <1>1, AlwaysSequential, PTL

\* A run that stops to ask has given its claim back, so that the resumed run does
\* not refuse its own work (_run_node 217-229).
THEOREM PausedNeverHoldsClaim == ASSUME OneWorker PROVE Spec => []PausedHoldsNoClaim
<1>1. SeqInv => PausedHoldsNoClaim
  BY DEF SeqInv, OwnsKey, PausedHoldsNoClaim, At
<1>2. QED
  BY <1>1, AlwaysSequential, PTL

\* Whatever was saved of the blackboard before the process died, the checkpoints
\* put back what the finished nodes had published (_reinstate).
THEOREM ReplayAlwaysRebuilds == ASSUME OneWorker PROVE Spec => []ReplayRebuilds
<1>1. SeqInv => ReplayRebuilds
  BY DEF SeqInv, Mirrors, ReplayRebuilds, Executing, At
<1>2. QED
  BY <1>1, AlwaysSequential, PTL

\* Whatever row a step writes, it is that of a node that was not done.
LEMMA DoneKept ==
    ASSUME TypeInv, PrefixInv, LedgerInv, SeqInv, NEW w \in Workers, Execute(w),
           NEW n \in Nodes, node_runs[n].status = "done"
    PROVE  node_runs'[n] = node_runs[n]
<1> DEFINE e == exec[w]
<1>1. StoreTypeOK /\ StepOK(e) /\ (e.pc \notin {"idle", "load"} => Mirrors(e, node_runs))
  BY SeqFacts
<1>2. ASSUME NEW m \in Nodes, NEW status, NEW v, finish_node(m, status, v), m # n
      PROVE  node_runs'[n] = node_runs[n]
  BY <1>1, <1>2, FinishedRow
<1>3. ASSUME NEW status, NEW v, finish_node(e.cursor, status, v), e.pc \in Unfinished
      PROVE  node_runs'[n] = node_runs[n]
  <2>1. e.cursor \in Nodes /\ e.cursor # n
    BY <1>1, <1>3 DEF Mirrors, StepOK, Unfinished, InNode
  <2>2. QED
    BY <1>2, <1>3, <2>1
<1> USE DEF At
<1>4. CASE start_attempt(w)
  <2>1. e.pc = "begin" /\ start_node(e.cursor)
    BY <1>4 DEF start_attempt
  <2>2. e.cursor \in Nodes /\ e.cursor # n
    BY <1>1, <2>1 DEF Mirrors, StepOK, Unfinished, InNode, Steps
  <2>3. QED
    BY <1>1, <2>1, <2>2 DEF start_node, StoreTypeOK
<1>5. CASE pass_over(w)
  <2>1. PICK status : finish_node(e.cursor, status, Absent)
    BY <1>5 DEF pass_over
  <2>2. e.pc = "visit" /\ e.cursor \in Nodes /\ e.status[e.cursor] # "done"
    BY <1>5 DEF pass_over, Visiting
  <2>3. e.cursor # n
    BY <1>1, <2>2 DEF Mirrors
  <2>4. QED
    BY <1>2, <2>1, <2>2, <2>3
<1>6. CASE replay_effect(w)
  BY <1>3, <1>6 DEF replay_effect, Unfinished, InNode, Steps
<1>7. CASE finish(w)
  BY <1>3, <1>7 DEF finish, Unfinished, InNode, Steps
<1>8. CASE block_dependents(w)
  <2>1. PICK m \in ToBlock(e) : finish_node(m, "blocked", Absent)
    BY <1>8 DEF block_dependents
  <2>2. m \in Nodes /\ e.status[m] = "pending" /\ e.pc = "settle"
    BY <1>8 DEF ToBlock, Downstream, block_dependents
  <2>3. m # n
    BY <1>1, <2>2 DEF Mirrors
  <2>4. QED
    BY <1>2, <2>1, <2>2, <2>3
<1>9. QED
  BY <1>4, <1>5, <1>6, <1>7, <1>8
     DEF Execute, read_checkpoints, replay_checkpoint, complete, enter_unkeyed, claim, lose_claim,
         lookup, land, succeed, raise, ask_approval, record, record_nothing, insert, release,
         checkpoint, compensate, stop, storeVars

\* Rule 1: the checkpoint of a finished node is never touched again, whatever is
\* started, killed and resumed after it.
THEOREM DoneAlwaysStaysDone == ASSUME OneWorker PROVE Spec => DoneStaysDone
<1> DEFINE Kept == \A n \in Nodes :
                      node_runs[n].status = "done" => node_runs'[n] = node_runs[n]
<1>1. TypeInv /\ PrefixInv /\ LedgerInv /\ SeqInv /\ [Next]_vars => [Kept]_node_runs
  <2> SUFFICES ASSUME TypeInv, PrefixInv, LedgerInv, SeqInv, Next, NEW n \in Nodes,
                      node_runs[n].status = "done", node_runs' # node_runs
               PROVE  node_runs'[n] = node_runs[n]
    BY DEF vars
  <2>1. PICK w \in Workers :
            \/ start(w)
            \/ \E decided \in SUBSET Gates, v \in Value : resume(w, decided, v)
            \/ Execute(w)
            \/ crash(w)
    BY DEF Next
  <2>2. QED
    BY <2>1, DoneKept DEF start, resume, crash, storeVars
<1>2. QED
  BY <1>1, AlwaysSequential, AlwaysTyped, AlwaysPrefix, AlwaysLedger, PTL
     DEF Spec, DoneStaysDone
====
