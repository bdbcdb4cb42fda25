---- MODULE GraphRunnerProofs ----
(***************************************************************************)
(* What GraphRunner's steps preserve, for every graph, store and number of *)
(* workers, and that they implement EffectPromise.                         *)
(***************************************************************************)
EXTENDS GraphRunner, TLAPS

----------------------------------------------------------------------------
(* Types.  TypeOK alone is not inductive: a step that reads effects[e.key]  *)
(* needs a key, one that reads status[e.cursor] a node, and stop() saves    *)
(* the verdict as the status of the run.                                    *)

InNode == Steps \ {"idle", "load", "visit"}

StepOK(e) ==
    /\ e.pc \in InNode => e.cursor \in Nodes
    /\ e.pc \in {"lookup", "landed", "record", "insert"} => e.key \in Keys
    /\ e.pc = "settle" => e.verdict \in {"paused", "failed"}

TypeInv == TypeOK /\ \A w \in Workers : StepOK(exec[w])

LEMMA BoardType ==
    ASSUME NEW v \in Maybe, NEW n, NEW b \in Boards
    PROVE  Publish(b, n, v) \in Boards
BY DEF Publish, Boards

LEMMA AdvanceType ==
    ASSUME NEW e \in Execution, e.cursor \in Nodes
    PROVE  /\ Advance(e) \in Execution
           /\ StepOK(Advance(e))
<1>1. e.cursor + 1 \in 1..(N + 1)
  BY StoreAssumption DEF Nodes
<1>2. "visit" \in Steps /\ Absent \in Maybe /\ 0 \in Nat
  BY DEF Steps, Maybe
<1>3. Advance(e) \in Execution
  BY <1>1, <1>2 DEF Advance, Execution
<1>4. Advance(e).pc = "visit"
  BY DEF Advance, Execution
<1>5. QED
  BY <1>3, <1>4 DEF StepOK, InNode

LEMMA DoneType ==
    ASSUME NEW e \in Execution, NEW v \in Maybe, e.cursor \in Nodes
    PROVE  /\ Done(e, v) \in Execution
           /\ Done(e, v).cursor = e.cursor
           /\ Done(e, v).pc = e.pc
<1>1. Publish(e.board, e.cursor, v) \in Boards
  BY BoardType DEF Execution
<1>2. QED
  BY <1>1 DEF Done, Execution, NodeStatus

LEMMA IdleType == Idle \in Execution /\ StepOK(Idle)
BY StoreAssumption DEF Idle, Execution, StepOK, InNode, Steps, Empty, Boards, Maybe, Nodes, NodeStatus

LEMMA BecomeType ==
    ASSUME TypeInv, NEW w \in Workers, NEW e \in Execution, StepOK(e), Become(w, e)
    PROVE  /\ exec' \in [Workers -> Execution]
           /\ \A u \in Workers : StepOK(exec'[u])
BY DEF TypeInv, TypeOK, Become

----------------------------------------------------------------------------
(* The statements of the store keep its types. *)

LEMMA JsonType == ASSUME NEW v \in Maybe PROVE Json[v] \in Maybe
BY StoreAssumption

LEMMA SaveRunType ==
    ASSUME NEW status \in RunStatus, NEW board \in Boards, save_run(status, board)
    PROVE  runs' \in [status : RunStatus \cup {"none"}, board : Boards]
BY JsonType DEF save_run, Boards

LEMMA StartNodeType ==
    ASSUME StoreTypeOK, NEW n \in Nodes, start_node(n)
    PROVE  node_runs' \in [Nodes -> [status : NodeStatus \cup {"none"}, output : Maybe]]
BY DEF StoreTypeOK, start_node, NodeStatus

LEMMA FinishNodeType ==
    ASSUME StoreTypeOK, NEW n \in Nodes, NEW status \in NodeStatus, NEW output \in Maybe,
           finish_node(n, status, output)
    PROVE  node_runs' \in [Nodes -> [status : NodeStatus \cup {"none"}, output : Maybe]]
<1>1. [status |-> status, output |-> Json[output]]
        \in [status : NodeStatus \cup {"none"}, output : Maybe]
  BY JsonType
<1>2. QED
  BY <1>1 DEF StoreTypeOK, finish_node

LEMMA EffectType ==
    ASSUME StoreTypeOK, NEW k, NEW row \in [status : EffectStatus, result : Maybe]
    PROVE  [effects EXCEPT ![k] = row] \in [Keys -> [status : EffectStatus, result : Maybe]]
BY DEF StoreTypeOK

LEMMA EffectRows ==
    /\ Claimed \in [status : EffectStatus, result : Maybe]
    /\ [status |-> "free", result |-> Absent] \in [status : EffectStatus, result : Maybe]
    /\ \A v \in Maybe :
         [status |-> "recorded", result |-> Json[v]] \in [status : EffectStatus, result : Maybe]
BY JsonType DEF Claimed, EffectStatus, Maybe

LEMMA EffectsType ==
    ASSUME StoreTypeOK, NEW k, NEW v \in Maybe,
           \/ claim_effect(k)
           \/ record_effect(k, v)
           \/ record_insert(k, v)
           \/ release_effect(k)
           \/ UNCHANGED effects
    PROVE  effects' \in [Keys -> [status : EffectStatus, result : Maybe]]
BY EffectType, EffectRows
   DEF StoreTypeOK, claim_effect, record_effect, record_insert, release_effect

----------------------------------------------------------------------------
(* Every step of a worker keeps the types: what it becomes is an execution, *)
(* and what it leaves alone has its type already.                           *)

LEMMA InitType == Init => TypeInv
<1>1. Idle \in Execution /\ StepOK(Idle)
  BY IdleType
<1>2. Empty \in Boards
  BY DEF Empty, Boards, Maybe
<1>3. QED
  BY <1>1, <1>2, StoreAssumption, RunnerAssumption
     DEF Init, StoreInit, TypeInv, TypeOK, StoreTypeOK, EffectStatus, Maybe

LEMMA EntryType ==
    ASSUME TypeInv, NEW w \in Workers,
           \/ start(w)
           \/ \E decided \in SUBSET Gates, v \in Value : resume(w, decided, v)
    PROVE  TypeInv'
<1> USE DEF worldVars
<1>1. ASSUME NEW board \in Boards, Launch(w, board)
      PROVE  /\ exec' \in [Workers -> Execution]
             /\ \A u \in Workers : StepOK(exec'[u])
             /\ launches' \in 0..MaxLaunches
  <2> DEFINE e == [Idle EXCEPT !.pc = "load", !.board = board]
  <2>1. e \in Execution
    BY IdleType DEF Execution, Steps
  <2>2. StepOK(e)
    BY IdleType DEF StepOK, InNode, Execution
  <2>3. Become(w, e)
    BY <1>1 DEF Launch
  <2>4. launches' \in 0..MaxLaunches
    BY <1>1, RunnerAssumption DEF Launch, TypeInv, TypeOK
  <2>5. QED
    BY <2>1, <2>2, <2>3, <2>4, BecomeType
<1>2. CASE start(w)
  <2>1. Seed \in Boards /\ "running" \in RunStatus
    BY RunnerAssumption DEF RunStatus
  <2>2. runs' \in [status : RunStatus \cup {"none"}, board : Boards]
    BY <1>2, <2>1, SaveRunType DEF start
  <2>3. QED
    BY <1>1, <1>2, <2>1, <2>2 DEF start, TypeInv, TypeOK, StoreTypeOK
<1>3. ASSUME NEW decided \in SUBSET Gates, NEW v \in Value, resume(w, decided, v)
      PROVE  TypeInv'
  <2> DEFINE board == [s \in Slots |-> IF \E g \in decided : Decision[g] = s
                                       THEN v ELSE runs.board[s]]
  <2>1. board \in Boards
    BY DEF Boards, Maybe, TypeInv, TypeOK, StoreTypeOK
  <2>2. Launch(w, board)
    BY <1>3 DEF resume
  <2> HIDE DEF board
  <2>3. QED
    BY <1>1, <1>3, <2>1, <2>2 DEF resume, TypeInv, TypeOK, StoreTypeOK, storeVars
<1>4. QED
  BY <1>2, <1>3

\* The steps that only read, or that only touch the outside world.
LEMMA MemoryType ==
    ASSUME TypeInv, NEW w \in Workers, NEW e \in Execution, StepOK(e), Become(w, e),
           UNCHANGED <<storeVars, launches>>,
           landed' \in [Keys -> Nat], undone' \in [Nodes -> Nat]
    PROVE  TypeInv'
<1>1. exec' \in [Workers -> Execution] /\ \A u \in Workers : StepOK(exec'[u])
  BY BecomeType
<1>2. QED
  BY <1>1 DEF TypeInv, TypeOK, StoreTypeOK, storeVars

\* The steps that send one statement to the store.
LEMMA StatementType ==
    ASSUME TypeInv, NEW w \in Workers, NEW e \in Execution, StepOK(e), Become(w, e),
           StoreTypeOK', UNCHANGED <<worldVars, launches>>
    PROVE  TypeInv'
<1>1. exec' \in [Workers -> Execution] /\ \A u \in Workers : StepOK(exec'[u])
  BY BecomeType
<1>2. QED
  BY <1>1 DEF TypeInv, TypeOK, worldVars

LEMMA ReadingType ==
    ASSUME TypeInv, NEW w \in Workers,
           \/ read_checkpoints(w) \/ replay_checkpoint(w)
           \/ enter_unkeyed(w) \/ lookup(w)
           \/ land(w) \/ (\E v \in Value : succeed(w, v)) \/ raise(w) \/ ask_approval(w)
           \/ record_nothing(w) \/ compensate(w)
    PROVE  TypeInv'
<1> DEFINE e == exec[w]
<1> USE DEF worldVars, At
<1>1. e \in Execution /\ StepOK(e)
  BY DEF TypeInv, TypeOK
<1>2. landed \in [Keys -> Nat] /\ undone \in [Nodes -> Nat]
  BY DEF TypeInv, TypeOK
<1>3. StoreTypeOK
  BY DEF TypeInv, TypeOK
<1> SUFFICES ASSUME NEW f \in Execution, StepOK(f), Become(w, f),
                    UNCHANGED <<storeVars, launches>>,
                    landed' \in [Keys -> Nat], undone' \in [Nodes -> Nat]
             PROVE  TypeInv'
  <2> HIDE DEF e
  <2>1. ASSUME read_checkpoints(w)
        PROVE  \E f \in Execution : StepOK(f) /\ Become(w, f)
    <3> DEFINE f == [exec[w] EXCEPT
            !.pc = "visit",
            !.status = [n \in Nodes |-> IF node_runs[n].status = "none"
                                        THEN "pending" ELSE node_runs[n].status],
            !.cached = [n \in Nodes |-> node_runs[n].output]]
    <3>1. f \in Execution
      BY <1>1, <1>3 DEF e, Execution, Steps, StoreTypeOK, NodeStatus
    <3>2. StepOK(f)
      BY <1>1 DEF e, StepOK, InNode, Execution
    <3>3. QED
      BY <2>1, <3>1, <3>2 DEF read_checkpoints
  <2>2. ASSUME replay_checkpoint(w)
        PROVE  \E f \in Execution : StepOK(f) /\ Become(w, f)
    <3>1. e.cursor \in Nodes /\ e.cached[e.cursor] \in Maybe
      BY <1>1, <2>2 DEF replay_checkpoint, Visiting, Execution, e
    <3>2. Done(e, e.cached[e.cursor]) \in Execution
      BY <1>1, <3>1, DoneType
    <3>3. Done(e, e.cached[e.cursor]).cursor \in Nodes
      BY <1>1, <3>1, DoneType
    <3>4. QED
      BY <2>2, <3>2, <3>3, AdvanceType DEF replay_checkpoint, e
  <2>3. ASSUME enter_unkeyed(w)
        PROVE  \E f \in Execution : StepOK(f) /\ Become(w, f)
    <3> DEFINE f == [e EXCEPT !.pc = "begin", !.attempt = 1]
    <3>1. f \in Execution /\ StepOK(f)
      BY <1>1, <2>3 DEF enter_unkeyed, Runnable, Visiting, Execution, Steps, StepOK, InNode, e
    <3>2. QED
      BY <2>3, <3>1 DEF enter_unkeyed, e
  <2>4. ASSUME lookup(w)
        PROVE  \E f \in Execution : StepOK(f) /\ Become(w, f)
    <3>1. e.key \in Keys /\ e.cursor \in Nodes
      BY <1>1, <2>4 DEF lookup, StepOK, InNode, Steps, e
    <3>2. effects[e.key] \in [status : EffectStatus, result : Maybe]
      BY <1>3, <3>1 DEF StoreTypeOK
    <3>3. CASE effects[e.key].status = "recorded"
      <4> DEFINE f == [e EXCEPT !.pc = "replay", !.output = effects[e.key].result]
      <4>1. f \in Execution /\ StepOK(f)
        BY <1>1, <3>1, <3>2 DEF Execution, Steps, StepOK, InNode
      <4>2. QED
        BY <2>4, <3>3, <4>1 DEF lookup, e
    <3>4. CASE effects[e.key].status = "claimed"
      <4> DEFINE f == [e EXCEPT !.pc = "finish", !.verdict = "failed"]
      <4>1. f \in Execution /\ StepOK(f)
        BY <1>1, <3>1 DEF Execution, Steps, StepOK, InNode
      <4>2. QED
        BY <2>4, <3>4, <4>1 DEF lookup, e
    <3>5. CASE effects[e.key].status = "free"
      <4> DEFINE f == [e EXCEPT !.pc = "begin", !.attempt = 1]
      <4>1. f \in Execution /\ StepOK(f)
        BY <1>1, <3>1 DEF Execution, Steps, StepOK, InNode
      <4>2. QED
        BY <2>4, <3>5, <4>1 DEF lookup, e
    <3>6. QED
      BY <3>2, <3>3, <3>4, <3>5 DEF EffectStatus
  <2>5. ASSUME land(w)
        PROVE  /\ \E f \in Execution : StepOK(f) /\ Become(w, f)
               /\ landed' \in [Keys -> Nat]
    <3> DEFINE f == [e EXCEPT !.pc = "landed"]
    <3>1. e.key \in Keys /\ e.pc = "acting"
      BY <1>1, <2>5 DEF land, Execution, e
    <3>2. f \in Execution /\ StepOK(f)
      BY <1>1, <3>1 DEF Execution, Steps, StepOK, InNode
    <3>3. landed' \in [Keys -> Nat]
      BY <1>2, <2>5, <3>1 DEF land, e
    <3>4. QED
      BY <2>5, <3>2, <3>3 DEF land, e
  <2>6. ASSUME NEW v \in Value, succeed(w, v)
        PROVE  \E f \in Execution : StepOK(f) /\ Become(w, f)
    <3> DEFINE f == [e EXCEPT !.pc = IF e.key = NoKey THEN "finish" ELSE "record",
                              !.output = v]
    <3>1. v \in Maybe /\ e.pc \in {"acting", "landed"}
      BY <2>6 DEF succeed, Maybe, e
    <3>2. f \in Execution /\ StepOK(f)
      BY <1>1, <3>1 DEF Execution, Steps, StepOK, InNode
    <3>3. QED
      BY <2>6, <3>2 DEF succeed, e
  <2>7. ASSUME raise(w)
        PROVE  \E f \in Execution : StepOK(f) /\ Become(w, f)
    <3>1. e.pc \in {"acting", "landed"}
      BY <2>7 DEF raise, e
    <3>2. [e EXCEPT !.pc = "begin", !.attempt = @ + 1] \in Execution
      <4>1. e.attempt + 1 \in Nat /\ "begin" \in Steps
        BY <1>1 DEF Execution, Steps
      <4>2. [e EXCEPT !.pc = "begin", !.attempt = e.attempt + 1] \in Execution
        BY <1>1, <4>1 DEF Execution
      <4>3. QED
        BY <4>2
    <3>3. StepOK([e EXCEPT !.pc = "begin", !.attempt = @ + 1])
      BY <1>1, <3>1 DEF Execution, Steps, StepOK, InNode
    <3>4. [e EXCEPT !.pc = "release", !.verdict = "failed"] \in Execution
      BY <1>1 DEF Execution, Steps
    <3>5. StepOK([e EXCEPT !.pc = "release", !.verdict = "failed"])
      BY <1>1, <3>1 DEF Execution, Steps, StepOK, InNode
    <3>6. QED
      BY <2>7, <3>2, <3>3, <3>4, <3>5 DEF raise, e
  <2>8. ASSUME ask_approval(w)
        PROVE  \E f \in Execution : StepOK(f) /\ Become(w, f)
    <3> DEFINE f == [e EXCEPT !.pc = "release", !.verdict = "paused"]
    <3>1. f \in Execution /\ StepOK(f)
      BY <1>1, <2>8 DEF ask_approval, Execution, Steps, StepOK, InNode, e
    <3>2. QED
      BY <2>8, <3>1 DEF ask_approval, e
  <2>9. ASSUME record_nothing(w)
        PROVE  \E f \in Execution : StepOK(f) /\ Become(w, f)
    <3> DEFINE f == [e EXCEPT !.pc = "insert"]
    <3>1. f \in Execution /\ StepOK(f)
      BY <1>1, <2>9 DEF record_nothing, Execution, Steps, StepOK, InNode, e
    <3>2. QED
      BY <2>9, <3>1 DEF record_nothing, e
  <2>10. ASSUME compensate(w)
         PROVE  /\ \E f \in Execution : StepOK(f) /\ Become(w, f)
                /\ undone' \in [Nodes -> Nat]
    <3>1. PICK n \in ToUndo(e) : /\ undone' \in {undone, [undone EXCEPT ![n] = @ + 1]}
                                 /\ Become(w, [e EXCEPT !.unwind = n - 1])
      BY <2>10 DEF compensate, e
    <3>2. n \in Nodes /\ n <= e.unwind /\ n - 1 \in 0..N
      BY RunnerAssumption, StoreAssumption DEF ToUndo, Nodes
    <3>3. [e EXCEPT !.unwind = n - 1] \in Execution
      BY <1>1, <3>2 DEF Execution
    <3>4. StepOK([e EXCEPT !.unwind = n - 1])
      BY <1>1 DEF StepOK, Execution
    <3>5. undone' \in [Nodes -> Nat]
      BY <1>2, <3>1, <3>2
    <3>6. QED
      BY <3>1, <3>3, <3>4, <3>5
  <2>11. UNCHANGED <<storeVars, launches>>
    BY DEF read_checkpoints, replay_checkpoint, enter_unkeyed, lookup, land, succeed, raise,
           ask_approval, record_nothing, compensate
  <2>12. (UNCHANGED landed \/ land(w)) /\ (UNCHANGED undone \/ compensate(w))
    BY DEF read_checkpoints, replay_checkpoint, enter_unkeyed, lookup, land, succeed, raise,
           ask_approval, record_nothing, compensate
  <2>13. landed' \in [Keys -> Nat] /\ undone' \in [Nodes -> Nat]
    BY <1>2, <2>5, <2>10, <2>12
  <2>14. \E f \in Execution : StepOK(f) /\ Become(w, f)
    BY <2>1, <2>2, <2>3, <2>4, <2>5, <2>6, <2>7, <2>8, <2>9, <2>10
  <2>15. QED
    BY <2>11, <2>13, <2>14
<1>4. QED
  BY MemoryType

LEMMA WritingType ==
    ASSUME TypeInv, NEW w \in Workers,
           \/ pass_over(w) \/ complete(w) \/ claim(w) \/ lose_claim(w)
           \/ replay_effect(w) \/ start_attempt(w)
           \/ record(w) \/ insert(w) \/ release(w) \/ finish(w) \/ checkpoint(w)
           \/ block_dependents(w) \/ stop(w) \/ crash(w)
    PROVE  TypeInv'
<1> DEFINE e == exec[w]
<1> USE DEF worldVars, At
<1>1. e \in Execution /\ StepOK(e)
  BY DEF TypeInv, TypeOK
<1>2. StoreTypeOK
  BY DEF TypeInv, TypeOK
<1>3. e.board \in Boards /\ e.output \in Maybe /\ e.verdict \in NodeStatus
  BY <1>1 DEF Execution, NodeStatus
<1>4. Absent \in Maybe
  BY DEF Maybe
<1>5. Idle \in Execution /\ StepOK(Idle)
  BY IdleType
<1> HIDE DEF e
<1>6. ASSUME UNCHANGED <<launches, worldVars>>, StoreTypeOK',
             \E f \in Execution : StepOK(f) /\ Become(w, f)
      PROVE  TypeInv'
  BY <1>6, StatementType
<1>7. CASE pass_over(w)
  <2> DEFINE verdict == IF BlockedBy(e) # {} THEN "blocked" ELSE "skipped"
  <2> DEFINE f == [e EXCEPT !.status[e.cursor] = verdict]
  <2>1. e.cursor \in Nodes /\ verdict \in NodeStatus
    BY <1>7 DEF pass_over, Visiting, NodeStatus, e
  <2>2. f \in Execution /\ f.cursor \in Nodes
    BY <1>1, <2>1 DEF Execution
  <2>3. Advance(f) \in Execution /\ StepOK(Advance(f))
    BY <2>2, AdvanceType
  <2>4. finish_node(e.cursor, verdict, Absent) /\ Become(w, Advance(f))
    BY <1>7 DEF pass_over, e
  <2>5. StoreTypeOK'
    BY <1>2, <1>4, <1>7, <2>1, <2>4, FinishNodeType DEF pass_over, StoreTypeOK
  <2>6. QED
    BY <1>6, <1>7, <2>3, <2>4, <2>5 DEF pass_over
<1>8. CASE complete(w)
  <2>1. PICK s \in RunStatus : save_run(s, e.board)
    BY <1>8 DEF complete, RunStatus, e
  <2>2. StoreTypeOK'
    BY <1>2, <1>3, <1>8, <2>1, SaveRunType DEF complete, StoreTypeOK
  <2>3. QED
    BY <1>5, <1>6, <1>8, <2>2 DEF complete
<1>9. CASE claim(w)
  <2> DEFINE k == KeyOf(e.cursor, e.board)
  <2> DEFINE f == [e EXCEPT !.pc = "begin", !.key = k, !.attempt = 1]
  <2>1. e.cursor \in Nodes /\ k \in Keys
    BY <1>3, <1>9, RunnerAssumption DEF claim, Runnable, Visiting, e
  <2>2. f \in Execution /\ StepOK(f)
    BY <1>1, <2>1 DEF Execution, Steps, StepOK, InNode
  <2>3. StoreTypeOK'
    BY <1>2, <1>4, <1>9, EffectsType DEF claim, StoreTypeOK, e
  <2>4. QED
    BY <1>6, <1>9, <2>2, <2>3 DEF claim, e
<1>10. CASE lose_claim(w)
  <2> DEFINE k == KeyOf(e.cursor, e.board)
  <2> DEFINE f == [e EXCEPT !.pc = "lookup", !.key = k]
  <2>1. e.cursor \in Nodes /\ k \in Keys
    BY <1>3, <1>10, RunnerAssumption DEF lose_claim, Runnable, Visiting, e
  <2>2. f \in Execution /\ StepOK(f)
    BY <1>1, <2>1 DEF Execution, Steps, StepOK, InNode
  <2>3. StoreTypeOK'
    BY <1>2, <1>10 DEF lose_claim, claim_refused, StoreTypeOK
  <2>4. QED
    BY <1>6, <1>10, <2>2, <2>3 DEF lose_claim, e
<1>11. CASE replay_effect(w)
  <2>1. e.cursor \in Nodes
    BY <1>1, <1>11 DEF replay_effect, StepOK, InNode, Steps, e
  <2>2. Done(e, e.output) \in Execution /\ Done(e, e.output).cursor \in Nodes
    BY <1>1, <1>3, <2>1, DoneType
  <2>3. Advance(Done(e, e.output)) \in Execution /\ StepOK(Advance(Done(e, e.output)))
    BY <2>2, AdvanceType
  <2>4. StoreTypeOK'
    BY <1>2, <1>3, <1>11, <2>1, FinishNodeType DEF replay_effect, StoreTypeOK, NodeStatus, e
  <2>5. QED
    BY <1>6, <1>11, <2>3, <2>4 DEF replay_effect, e
<1>12. CASE start_attempt(w)
  <2> DEFINE f == [e EXCEPT !.pc = "acting"]
  <2>1. e.cursor \in Nodes
    BY <1>1, <1>12 DEF start_attempt, StepOK, InNode, Steps, e
  <2>2. f \in Execution /\ StepOK(f)
    BY <1>1, <2>1 DEF Execution, Steps, StepOK
  <2>3. StoreTypeOK'
    BY <1>2, <1>12, <2>1, StartNodeType DEF start_attempt, StoreTypeOK, e
  <2>4. QED
    BY <1>6, <1>12, <2>2, <2>3 DEF start_attempt, e
<1>13. CASE record(w) \/ insert(w)
  <2> DEFINE f == [e EXCEPT !.pc = "finish"]
  <2>1. f \in Execution /\ StepOK(f) /\ Become(w, f)
    BY <1>1, <1>13 DEF record, insert, Execution, Steps, StepOK, InNode, e
  <2>2. StoreTypeOK'
    BY <1>2, <1>3, <1>13, EffectsType DEF record, insert, StoreTypeOK, e
  <2>3. QED
    BY <1>6, <1>13, <2>1, <2>2 DEF record, insert
<1>14. CASE release(w)
  <2> DEFINE f == [e EXCEPT !.pc = "finish"]
  <2>1. f \in Execution /\ StepOK(f) /\ Become(w, f)
    BY <1>1, <1>14 DEF release, Execution, Steps, StepOK, InNode, e
  <2>2. StoreTypeOK'
    BY <1>2, <1>4, <1>14, EffectsType DEF release, StoreTypeOK, e
  <2>3. QED
    BY <1>6, <1>14, <2>1, <2>2 DEF release
<1>15. CASE finish(w)
  <2>1. e.cursor \in Nodes /\ e.pc = "finish"
    BY <1>1, <1>15 DEF finish, StepOK, InNode, Steps, e
  <2>2. StoreTypeOK'
    BY <1>2, <1>3, <1>15, <2>1, FinishNodeType DEF finish, StoreTypeOK, e
  <2>3. CASE e.verdict = "done"
    <3> DEFINE f == [Done(e, e.output) EXCEPT !.pc = "checkpoint"]
    <3>1. Done(e, e.output) \in Execution /\ Done(e, e.output).cursor \in Nodes
      BY <1>1, <1>3, <2>1, DoneType
    <3>2. f \in Execution /\ StepOK(f)
      BY <3>1 DEF Execution, Steps, StepOK
    <3>3. QED
      BY <1>6, <1>15, <2>2, <2>3, <3>2 DEF finish, e
  <2>4. CASE e.verdict # "done"
    <3> DEFINE f == [e EXCEPT !.pc = "settle", !.status[e.cursor] = e.verdict,
                              !.unwind = IF e.verdict = "failed" THEN N ELSE 0]
    <3>1. N \in 0..N /\ 0 \in 0..N
      BY StoreAssumption
    <3>2. f \in Execution
      BY <1>1, <1>3, <2>1, <3>1 DEF Execution, Steps
    <3>3. StepOK(f)
      BY <1>1, <2>1, <2>4 DEF Execution, StepOK
    <3>4. QED
      BY <1>6, <1>15, <2>2, <2>4, <3>2, <3>3 DEF finish, e
  <2>5. QED
    BY <2>3, <2>4
<1>16. CASE checkpoint(w)
  <2>1. e.cursor \in Nodes
    BY <1>1, <1>16 DEF checkpoint, StepOK, InNode, Steps, e
  <2>2. StoreTypeOK'
    BY <1>2, <1>3, <1>16, SaveRunType DEF checkpoint, StoreTypeOK, RunStatus, e
  <2>3. QED
    BY <1>1, <1>6, <1>16, <2>1, <2>2, AdvanceType DEF checkpoint, e
<1>17. CASE block_dependents(w)
  <2>1. PICK n \in ToBlock(e) : /\ finish_node(n, "blocked", Absent)
                                /\ Become(w, [e EXCEPT !.status[n] = "blocked"])
    BY <1>17 DEF block_dependents, e
  <2>2. n \in Nodes
    BY DEF ToBlock, Downstream
  <2>3. [e EXCEPT !.status[n] = "blocked"] \in Execution
    BY <1>1, <2>2 DEF Execution, NodeStatus
  <2>4. StepOK([e EXCEPT !.status[n] = "blocked"])
    BY <1>1 DEF StepOK, Execution
  <2>5. StoreTypeOK'
    BY <1>2, <1>4, <1>17, <2>1, <2>2, FinishNodeType
       DEF block_dependents, StoreTypeOK, NodeStatus
  <2>6. QED
    BY <1>6, <1>17, <2>1, <2>3, <2>4, <2>5 DEF block_dependents
<1>18. CASE stop(w)
  <2>1. e.verdict \in RunStatus
    BY <1>1, <1>18 DEF stop, StepOK, RunStatus, e
  <2>2. StoreTypeOK'
    BY <1>2, <1>3, <1>18, <2>1, SaveRunType DEF stop, StoreTypeOK, e
  <2>3. QED
    BY <1>5, <1>6, <1>18, <2>2 DEF stop
<1>19. CASE crash(w)
  <2>1. StoreTypeOK'
    BY <1>2, <1>19 DEF crash, StoreTypeOK, storeVars
  <2>2. QED
    BY <1>5, <1>6, <1>19, <2>1 DEF crash
<1>20. QED
  BY <1>7, <1>8, <1>9, <1>10, <1>11, <1>12, <1>13, <1>14, <1>15, <1>16, <1>17, <1>18, <1>19

LEMMA TypeStep == TypeInv /\ [Next]_vars => TypeInv'
<1> SUFFICES ASSUME TypeInv, [Next]_vars PROVE TypeInv'
  OBVIOUS
<1>1. CASE Next
  <2>1. PICK w \in Workers :
           \/ start(w)
           \/ \E decided \in SUBSET Gates, v \in Value : resume(w, decided, v)
           \/ Execute(w)
           \/ crash(w)
    BY <1>1 DEF Next
  <2>2. QED
    BY <2>1, EntryType, ReadingType, WritingType DEF Execute
<1>2. CASE UNCHANGED vars
  BY <1>2 DEF vars, TypeInv, TypeOK, StoreTypeOK
<1>3. QED
  BY <1>1, <1>2

\* The store, the workers and the outside world always have their types.
THEOREM TypeCorrect == Spec => []TypeOK
<1>1. Init => TypeInv
  BY InitType
<1>2. TypeInv /\ [Next]_vars => TypeInv'
  BY TypeStep
<1>3. TypeInv => TypeOK
  BY DEF TypeInv
<1>4. QED
  BY <1>1, <1>2, <1>3, PTL DEF Spec

LEMMA AlwaysTyped == Spec => []TypeInv
BY InitType, TypeStep, PTL DEF Spec

----------------------------------------------------------------------------
(* The prefix of an execution is settled.  A failure returns from _execute, *)
(* so the cursor only ever moves past a node that is done or skipped; what  *)
(* _block_dependents marks was pending, and so not behind the cursor.       *)

Settled(e) == \A n \in 1..(e.cursor - 1) : e.status[n] \in {"done", "skipped"}

PrefixOK(e) ==
    /\ e.pc \in {"idle", "load"} => e.cursor = 1
    /\ e.pc \notin {"idle", "load"} => Settled(e)
    /\ e.pc = "checkpoint" => e.status[e.cursor] = "done"

PrefixInv == \A w \in Workers : PrefixOK(exec[w])

LEMMA PrefixBecome ==
    ASSUME TypeInv, PrefixInv, NEW w \in Workers, NEW e, PrefixOK(e), Become(w, e)
    PROVE  PrefixInv'
BY DEF TypeInv, TypeOK, PrefixInv, Become

LEMMA PrefixAdvance ==
    ASSUME NEW e \in Execution, e.cursor \in Nodes, Settled(e),
           e.status[e.cursor] \in {"done", "skipped"}
    PROVE  PrefixOK(Advance(e))
<1>1. /\ Advance(e).cursor = e.cursor + 1
      /\ Advance(e).status = e.status
      /\ Advance(e).pc = "visit"
  BY DEF Advance, Execution
<1>2. \A n \in 1..((e.cursor + 1) - 1) : n \in 1..(e.cursor - 1) \/ n = e.cursor
  BY StoreAssumption DEF Nodes
<1>3. QED
  BY <1>1, <1>2 DEF PrefixOK, Settled

LEMMA SettledDone ==
    ASSUME NEW e \in Execution, NEW v, e.cursor \in Nodes, Settled(e)
    PROVE  /\ Settled(Done(e, v))
           /\ Done(e, v).status[e.cursor] = "done"
           /\ Done(e, v).cursor = e.cursor
BY StoreAssumption DEF Done, Settled, Execution, Nodes

LEMMA PrefixIdle == PrefixOK(Idle)
BY DEF PrefixOK, Idle

LEMMA PrefixFirst == ASSUME NEW e, e.cursor = 1, e.pc # "checkpoint" PROVE PrefixOK(e)
BY DEF PrefixOK, Settled

LEMMA PrefixExecute ==
    ASSUME TypeInv, PrefixInv, NEW w \in Workers, Execute(w)
    PROVE  PrefixInv'
<1> DEFINE e == exec[w]
<1> USE DEF At
<1>1. e \in Execution /\ StepOK(e) /\ PrefixOK(e)
  BY DEF TypeInv, TypeOK, PrefixInv
<1> HIDE DEF e
<1>2. ASSUME NEW f, f.pc \notin {"idle", "load", "checkpoint"}, f.status = e.status, f.cursor = e.cursor,
             e.pc \notin {"idle", "load"}, Become(w, f)
      PROVE  PrefixInv'
  <2>1. PrefixOK(f)
    BY <1>1, <1>2 DEF PrefixOK, Settled
  <2>2. QED
    BY <1>2, <2>1, PrefixBecome
<1>3. ASSUME NEW v, e.cursor \in Nodes, Done(e, v) \in Execution, e.pc \notin {"idle", "load"},
             Become(w, Advance(Done(e, v)))
      PROVE  PrefixInv'
  <2>1. Settled(Done(e, v)) /\ Done(e, v).cursor \in Nodes
            /\ Done(e, v).status[Done(e, v).cursor] = "done"
    BY <1>1, <1>3, SettledDone DEF PrefixOK
  <2>2. PrefixOK(Advance(Done(e, v)))
    BY <1>3, <2>1, PrefixAdvance
  <2>3. QED
    BY <1>3, <2>2, PrefixBecome
<1>4. CASE read_checkpoints(w)
  <2> DEFINE f == [exec[w] EXCEPT
            !.pc = "visit",
            !.status = [n \in Nodes |-> IF node_runs[n].status = "none"
                                        THEN "pending" ELSE node_runs[n].status],
            !.cached = [n \in Nodes |-> node_runs[n].output]]
  <2>1. f.pc = "visit" /\ f.cursor = 1
    BY <1>1, <1>4 DEF e, Execution, PrefixOK, read_checkpoints
  <2>2. PrefixOK(f)
    BY <2>1, PrefixFirst
  <2>3. QED
    BY <1>4, <2>2, PrefixBecome DEF read_checkpoints
<1>5. CASE replay_checkpoint(w)
  <2> DEFINE v == e.cached[e.cursor]
  <2>1. e.cursor \in Nodes /\ v \in Maybe /\ e.pc = "visit"
    BY <1>1, <1>5 DEF replay_checkpoint, Visiting, Execution, e
  <2>2. Done(e, v) \in Execution
    BY <1>1, <2>1, DoneType
  <2>3. Become(w, Advance(Done(e, v)))
    BY <1>5 DEF replay_checkpoint, e
  <2> HIDE DEF v
  <2>4. QED
    BY <1>3, <2>1, <2>2, <2>3
<1>6. CASE pass_over(w)
  \* No dependency behind the cursor is failed or blocked: the node is skipped.
  <2>1. e.cursor \in Nodes /\ e.pc = "visit" /\ Settled(e)
    BY <1>1, <1>6 DEF pass_over, Visiting, PrefixOK, e
  <2>2. BlockedBy(e) = {}
    <3>1. SUFFICES ASSUME NEW d \in Deps[e.cursor] PROVE e.status[d] \notin {"failed", "blocked"}
      BY DEF BlockedBy
    <3>2. d \in 1..(e.cursor - 1)
      BY <2>1, RunnerAssumption, StoreAssumption DEF Nodes
    <3>3. QED
      BY <2>1, <3>2 DEF Settled
  <2> DEFINE f == [e EXCEPT !.status[e.cursor] = "skipped"]
  <2>3. f \in Execution /\ f.cursor = e.cursor /\ f.status[e.cursor] = "skipped"
    BY <1>1, <2>1 DEF Execution, NodeStatus
  <2>4. Settled(f)
    BY <1>1, <2>1, StoreAssumption DEF Settled, Execution, Nodes
  <2>5. Become(w, Advance(f))
    BY <1>6, <2>2 DEF pass_over, e
  <2>6. PrefixOK(Advance(f))
    BY <2>1, <2>3, <2>4, PrefixAdvance
  <2>7. QED
    BY <2>5, <2>6, PrefixBecome
<1>7. CASE complete(w) \/ stop(w)
  BY <1>7, PrefixIdle, PrefixBecome DEF complete, stop
<1>8. CASE enter_unkeyed(w) \/ claim(w) \/ lose_claim(w)
  <2> DEFINE k == KeyOf(e.cursor, e.board)
  <2>1. e.pc = "visit"
    BY <1>8 DEF enter_unkeyed, claim, lose_claim, Runnable, Visiting, e
  <2>2. PICK f : /\ f \in {[e EXCEPT !.pc = "begin", !.attempt = 1],
                           [e EXCEPT !.pc = "begin", !.key = k, !.attempt = 1],
                           [e EXCEPT !.pc = "lookup", !.key = k]}
                 /\ Become(w, f)
    BY <1>8 DEF enter_unkeyed, claim, lose_claim, e
  <2>3. f.pc \notin {"idle", "load", "checkpoint"} /\ f.status = e.status /\ f.cursor = e.cursor
    BY <1>1, <2>2 DEF Execution
  <2>4. QED
    BY <1>2, <2>1, <2>2, <2>3
<1>9. CASE lookup(w)
  <2>1. e.pc = "lookup" /\ effects[e.key].status \in EffectStatus
    BY <1>1, <1>9 DEF lookup, StepOK, TypeInv, TypeOK, StoreTypeOK, e
  <2>2. PICK f : /\ f \in {[e EXCEPT !.pc = "replay", !.output = effects[e.key].result],
                           [e EXCEPT !.pc = "finish", !.verdict = "failed"],
                           [e EXCEPT !.pc = "begin", !.attempt = 1]}
                 /\ Become(w, f)
    BY <1>9, <2>1 DEF lookup, EffectStatus, e
  <2>3. f.pc \notin {"idle", "load", "checkpoint"} /\ f.status = e.status /\ f.cursor = e.cursor
    BY <1>1, <2>2 DEF Execution
  <2>4. QED
    BY <1>2, <2>1, <2>2, <2>3
<1>10. CASE replay_effect(w)
  <2>1. e.cursor \in Nodes /\ e.output \in Maybe /\ e.pc = "replay"
    BY <1>1, <1>10 DEF replay_effect, StepOK, InNode, Steps, Execution, e
  <2>2. Done(e, e.output) \in Execution
    BY <1>1, <2>1, DoneType
  <2>3. Become(w, Advance(Done(e, e.output)))
    BY <1>10 DEF replay_effect, e
  <2>4. QED
    BY <1>3, <2>1, <2>2, <2>3
<1>11. CASE \/ start_attempt(w) \/ land(w) \/ (\E v \in Value : succeed(w, v))
            \/ ask_approval(w) \/ record(w) \/ record_nothing(w) \/ insert(w) \/ release(w)
  <2>1. e.pc \in InNode
    BY <1>11 DEF start_attempt, land, succeed, ask_approval, record, record_nothing,
                 insert, release, InNode, Steps, e
  <2>2. PICK pc \in {"acting", "landed", "record", "insert", "finish", "release"} :
           \/ Become(w, [e EXCEPT !.pc = pc])
           \/ \E v : Become(w, [e EXCEPT !.pc = pc, !.output = v])
           \/ Become(w, [e EXCEPT !.pc = pc, !.verdict = "paused"])
    BY <1>11 DEF start_attempt, land, succeed, ask_approval, record, record_nothing,
                 insert, release, e
  <2>3. PICK f : /\ \/ f = [e EXCEPT !.pc = pc]
                    \/ \E v : f = [e EXCEPT !.pc = pc, !.output = v]
                    \/ f = [e EXCEPT !.pc = pc, !.verdict = "paused"]
                 /\ Become(w, f)
    BY <2>2
  <2>4. /\ f.pc \notin {"idle", "load", "checkpoint"}
        /\ f.status = e.status /\ f.cursor = e.cursor
    BY <1>1, <2>2, <2>3 DEF Execution
  <2>5. QED
    BY <1>2, <2>1, <2>3, <2>4 DEF InNode
<1>12. CASE raise(w)
  <2>1. PICK f : /\ f \in {[e EXCEPT !.pc = "begin", !.attempt = @ + 1],
                           [e EXCEPT !.pc = "release", !.verdict = "failed"]}
                 /\ Become(w, f)
    BY <1>12 DEF raise, e
  <2>2. f.pc \notin {"idle", "load", "checkpoint"} /\ f.status = e.status /\ f.cursor = e.cursor
    BY <1>1, <2>1 DEF Execution
  <2>3. e.pc \notin {"idle", "load"}
    BY <1>12 DEF raise, e
  <2>4. QED
    BY <1>2, <2>1, <2>2, <2>3
<1>13. CASE finish(w)
  <2>1. e.cursor \in Nodes /\ e.pc = "finish" /\ Settled(e)
    BY <1>1, <1>13 DEF finish, StepOK, PrefixOK, InNode, Steps, e
  <2>2. CASE e.verdict = "done"
    <3> DEFINE f == [Done(e, e.output) EXCEPT !.pc = "checkpoint"]
    <3>1. /\ Settled(Done(e, e.output))
          /\ Done(e, e.output).status[e.cursor] = "done"
          /\ Done(e, e.output).cursor = e.cursor
      BY <1>1, <2>1, SettledDone
    <3>2. Done(e, e.output) \in Execution
      BY <1>1, <2>1, DoneType DEF Execution
    <3>3. /\ f.pc = "checkpoint" /\ f.cursor = e.cursor
          /\ f.status = Done(e, e.output).status
      BY <3>1, <3>2 DEF Execution
    <3>4. PrefixOK(f)
      BY <3>1, <3>3 DEF PrefixOK, Settled
    <3>5. QED
      BY <1>13, <2>2, <3>4, PrefixBecome DEF finish, e
  <2>3. CASE e.verdict # "done"
    <3> DEFINE f == [e EXCEPT !.pc = "settle", !.status[e.cursor] = e.verdict,
                              !.unwind = IF e.verdict = "failed" THEN N ELSE 0]
    <3>1. f.pc = "settle" /\ f.cursor = e.cursor
      BY <1>1 DEF Execution
    <3>2. \A n \in 1..(e.cursor - 1) : f.status[n] = e.status[n]
      BY <1>1, <2>1, StoreAssumption DEF Execution, Nodes
    <3>3. PrefixOK(f)
      BY <2>1, <3>1, <3>2 DEF PrefixOK, Settled
    <3>4. QED
      BY <1>13, <2>3, <3>3, PrefixBecome DEF finish, e
  <2>4. QED
    BY <2>2, <2>3
<1>14. CASE checkpoint(w)
  <2>1. /\ e.cursor \in Nodes /\ Settled(e) /\ e.status[e.cursor] = "done"
        /\ Become(w, Advance(e))
    BY <1>1, <1>14 DEF checkpoint, StepOK, PrefixOK, InNode, Steps, e
  <2>2. QED
    BY <1>1, <2>1, PrefixAdvance, PrefixBecome
<1>15. CASE compensate(w)
  <2>1. PICK n : Become(w, [e EXCEPT !.unwind = n - 1])
    BY <1>15 DEF compensate, e
  <2>2. e.pc = "settle"
    BY <1>15 DEF compensate, e
  <2> DEFINE f == [e EXCEPT !.unwind = n - 1]
  <2>3. f.pc = "settle" /\ f.status = e.status /\ f.cursor = e.cursor
    BY <1>1, <2>2 DEF Execution
  <2>4. QED
    BY <1>2, <2>1, <2>2, <2>3
<1>16. CASE block_dependents(w)
  <2>1. PICK n \in ToBlock(e) : Become(w, [e EXCEPT !.status[n] = "blocked"])
    BY <1>16 DEF block_dependents, e
  <2>2. e.pc = "settle" /\ Settled(e) /\ e.status[n] = "pending"
    BY <1>1, <1>16 DEF block_dependents, PrefixOK, ToBlock, e
  <2> DEFINE f == [e EXCEPT !.status[n] = "blocked"]
  <2>3. n \notin 1..(e.cursor - 1)
    BY <2>2 DEF Settled
  <2>4. f.pc = "settle" /\ f.cursor = e.cursor
    BY <1>1, <2>2 DEF Execution
  <2>5. \A m \in 1..(e.cursor - 1) : f.status[m] = e.status[m]
    BY <1>1, <2>3, StoreAssumption DEF Execution, Nodes
  <2>6. PrefixOK(f)
    BY <2>2, <2>4, <2>5 DEF PrefixOK, Settled
  <2>7. QED
    BY <2>1, <2>6, PrefixBecome
<1>17. QED
  BY <1>4, <1>5, <1>6, <1>7, <1>8, <1>9, <1>10, <1>11, <1>12, <1>13, <1>14, <1>15, <1>16
     DEF Execute

LEMMA PrefixStep == TypeInv /\ PrefixInv /\ [Next]_vars => PrefixInv'
<1> SUFFICES ASSUME TypeInv, PrefixInv, [Next]_vars PROVE PrefixInv'
  OBVIOUS
<1>1. ASSUME NEW w \in Workers, NEW board, Launch(w, board) PROVE PrefixInv'
  <2> DEFINE f == [Idle EXCEPT !.pc = "load", !.board = board]
  <2>1. f.pc = "load" /\ f.cursor = 1
    BY DEF Idle
  <2>2. PrefixOK(f)
    BY <2>1, PrefixFirst
  <2>3. QED
    BY <1>1, <2>2, PrefixBecome DEF Launch
<1>2. ASSUME NEW w \in Workers, crash(w) PROVE PrefixInv'
  BY <1>2, PrefixIdle, PrefixBecome DEF crash
<1>3. CASE UNCHANGED vars
  BY <1>3 DEF vars, PrefixInv
<1>4. QED
  BY <1>1, <1>2, <1>3, PrefixExecute DEF Next, start, resume

\* A node is only ever entered behind a prefix of done and skipped nodes, so no
\* dependency of it is failed or blocked: with several workers, crashes and
\* resumes, for every graph.
THEOREM PrefixAlwaysSettled == Spec => []PrefixSettled
<1>1. Init => PrefixInv
  BY PrefixIdle DEF Init, PrefixInv
<1>2. PrefixInv => PrefixSettled
  BY DEF PrefixInv, PrefixOK, PrefixSettled, Executing, Settled, At
<1>3. QED
  BY <1>1, <1>2, AlwaysTyped, PrefixStep, PTL DEF Spec

----------------------------------------------------------------------------
(* What the ledger and the checkpoints say has happened, has happened.  The *)
(* outside world only ever moves on, so what was established about it when  *)
(* a worker read or wrote a row stays true under everybody else's steps.    *)

Happened(n, world) == \E k \in KeysOf[n] : world[k] > 0

KeyOK(e) ==
    IF e.pc \in InNode
    THEN /\ e.key \in KeysOf[e.cursor] \cup {NoKey}
         /\ e.cursor \in AlwaysKeyed => e.key # NoKey
    ELSE e.key = NoKey

Stands(e, world) ==
    \A n \in AlwaysKeyed : e.status[n] = "done" => Happened(n, world)

HappenedOK(e, world) ==
    /\ \/ e.pc \in {"landed", "record", "insert", "replay"}
       \/ e.pc = "finish" /\ e.verdict = "done"
       => (e.key # NoKey => world[e.key] > 0)
    /\ e.pc = "release" => e.verdict # "done"
    /\ e.pc \notin {"idle", "load"} => Stands(e, world)

DoneHappened ==
    \A n \in AlwaysKeyed : node_runs[n].status = "done" => Happened(n, landed)

LedgerInv ==
    /\ RecordedLanded
    /\ UndoneLanded
    /\ DoneHappened
    /\ \A w \in Workers : KeyOK(exec[w]) /\ HappenedOK(exec[w], landed)

LEMMA KeysOfType == \A n \in Nodes : KeysOf[n] \subseteq Keys
BY RunnerAssumption DEF KeysOf

LEMMA KeyOfNode ==
    ASSUME NEW n \in Nodes, NEW b \in Boards
    PROVE  /\ KeyOf(n, b) \in KeysOf[n] \cup {NoKey}
           /\ n \in AlwaysKeyed => KeyOf(n, b) # NoKey
BY DEF KeysOf, AlwaysKeyed

LEMMA WorldMovesOn ==
    ASSUME NEW world \in [Keys -> Nat], NEW later \in [Keys -> Nat],
           \A k \in Keys : later[k] >= world[k]
    PROVE  /\ \A n \in Nodes : Happened(n, world) => Happened(n, later)
           /\ \A k \in Keys : world[k] > 0 => later[k] > 0
BY KeysOfType DEF Happened

LEMMA LedgerBecome ==
    ASSUME TypeInv, LedgerInv, NEW w \in Workers, NEW f, Become(w, f),
           KeyOK(f), HappenedOK(f, landed'),
           landed' \in [Keys -> Nat],
           \A k \in Keys : landed'[k] >= landed[k],
           \A k \in Keys : effects'[k].status = "recorded" =>
                             effects[k].status = "recorded" \/ landed'[k] > 0,
           \A n \in AlwaysKeyed : undone'[n] > 0 => undone[n] > 0 \/ Happened(n, landed'),
           \A n \in AlwaysKeyed : node_runs'[n].status = "done" =>
                             node_runs[n].status = "done" \/ Happened(n, landed')
    PROVE  LedgerInv'
<1>1. landed \in [Keys -> Nat] /\ AlwaysKeyed \subseteq Nodes
  BY DEF TypeInv, TypeOK, AlwaysKeyed
<1>2. /\ \A n \in Nodes : Happened(n, landed) => Happened(n, landed')
      /\ \A k \in Keys : landed[k] > 0 => landed'[k] > 0
  BY <1>1, WorldMovesOn
<1>3. RecordedLanded'
  BY <1>2 DEF RecordedLanded, LedgerInv
<1>4. UndoneLanded'
  <2>1. \A n \in AlwaysKeyed : undone[n] > 0 => Happened(n, landed)
    BY DEF LedgerInv, UndoneLanded, Happened
  <2>2. \A n \in AlwaysKeyed : undone'[n] > 0 => Happened(n, landed')
    BY <1>1, <1>2, <2>1
  <2>3. QED
    BY <2>2 DEF UndoneLanded, Happened
<1>5. DoneHappened'
  BY <1>1, <1>2 DEF DoneHappened, LedgerInv
<1>6. ASSUME NEW u \in Workers PROVE KeyOK(exec'[u]) /\ HappenedOK(exec'[u], landed')
  <2>1. CASE u = w
    <3>1. exec'[u] = f
      BY <2>1 DEF Become, TypeInv, TypeOK
    <3>2. QED
      BY <3>1
  <2>2. CASE u # w
    <3>1. exec'[u] = exec[u]
      BY <2>2 DEF Become, TypeInv, TypeOK
    <3>2. exec[u] \in Execution /\ KeyOK(exec[u]) /\ HappenedOK(exec[u], landed)
      BY DEF TypeInv, TypeOK, LedgerInv
    <3>3. exec[u].key \in Keys \cup {NoKey}
      BY <3>2 DEF Execution
    <3>4. HappenedOK(exec[u], landed')
      BY <1>1, <1>2, <3>2, <3>3 DEF HappenedOK, Stands
    <3>5. QED
      BY <3>1, <3>2, <3>4
  <2>3. QED
    BY <2>1, <2>2
<1>7. QED
  BY <1>3, <1>4, <1>5, <1>6 DEF LedgerInv

\* What one statement on the ledger can newly record.
LEMMA NewlyRecorded ==
    ASSUME StoreTypeOK, NEW k, NEW v,
           \/ claim_effect(k)
           \/ record_effect(k, v)
           \/ record_insert(k, v)
           \/ release_effect(k)
           \/ UNCHANGED effects
    PROVE  \A j \in Keys : effects'[j].status = "recorded" =>
                \/ effects[j].status = "recorded"
                \/ j = k /\ (record_effect(k, v) \/ record_insert(k, v))
BY DEF StoreTypeOK, claim_effect, record_effect, record_insert, release_effect, Claimed

\* What one statement on the checkpoints can newly call done.
LEMMA NewlyDone ==
    ASSUME StoreTypeOK, NEW n, NEW status, NEW v,
           \/ finish_node(n, status, v)
           \/ UNCHANGED node_runs
    PROVE  \A m \in Nodes : node_runs'[m].status = "done" =>
                \/ node_runs[m].status = "done"
                \/ m = n /\ status = "done"
BY DEF StoreTypeOK, finish_node

LEMMA LedgerAdvance ==
    ASSUME NEW e \in Execution, e.cursor \in Nodes, NEW world, Stands(e, world)
    PROVE  KeyOK(Advance(e)) /\ HappenedOK(Advance(e), world)
<1>1. Advance(e).pc = "visit" /\ Advance(e).status = e.status /\ Advance(e).key = NoKey
  BY DEF Advance, Execution
<1>2. QED
  BY <1>1 DEF KeyOK, HappenedOK, Stands, InNode

LEMMA LedgerDone ==
    ASSUME NEW e \in Execution, e.cursor \in Nodes, NEW v \in Maybe, NEW world,
           Stands(e, world),
           e.cursor \in AlwaysKeyed => Happened(e.cursor, world)
    PROVE  Stands(Done(e, v), world)
<1>1. Done(e, v).status = [e.status EXCEPT ![e.cursor] = "done"]
  BY DEF Done, Execution
<1>2. e.status \in [Nodes -> NodeStatus] /\ AlwaysKeyed \subseteq Nodes
  BY DEF Execution, AlwaysKeyed
<1>3. QED
  BY <1>1, <1>2 DEF Stands

\* A key whose effect happened is one of its node's.
LEMMA KeyHappened ==
    ASSUME NEW e \in Execution, KeyOK(e), e.pc \in InNode, NEW world,
           e.key # NoKey => world[e.key] > 0
    PROVE  e.cursor \in AlwaysKeyed => Happened(e.cursor, world)
BY DEF KeyOK, Happened

LEMMA LedgerReading ==
    ASSUME TypeInv, LedgerInv, NEW w \in Workers,
           \/ read_checkpoints(w) \/ replay_checkpoint(w)
           \/ enter_unkeyed(w) \/ lookup(w)
           \/ (\E v \in Value : succeed(w, v)) \/ raise(w) \/ ask_approval(w)
           \/ record_nothing(w)
    PROVE  LedgerInv'
<1> DEFINE e == exec[w]
<1> USE DEF At
<1>1. /\ e \in Execution /\ StepOK(e) /\ KeyOK(e) /\ HappenedOK(e, landed)
      /\ landed \in [Keys -> Nat] /\ StoreTypeOK
  BY DEF TypeInv, TypeOK, LedgerInv
<1>2. UNCHANGED <<effects, node_runs, landed, undone>>
  BY DEF read_checkpoints, replay_checkpoint, enter_unkeyed, lookup, succeed, raise,
         ask_approval, record_nothing, storeVars, worldVars
<1>3. ASSUME NEW f, Become(w, f), KeyOK(f), HappenedOK(f, landed) PROVE LedgerInv'
  <2>1. landed' \in [Keys -> Nat] /\ \A k \in Keys : landed'[k] >= landed[k]
    BY <1>1, <1>2
  <2>2. QED
    BY <1>2, <1>3, <2>1, LedgerBecome
<1> HIDE DEF e
<1>4. CASE read_checkpoints(w)
  <2> DEFINE f == [exec[w] EXCEPT
            !.pc = "visit",
            !.status = [n \in Nodes |-> IF node_runs[n].status = "none"
                                        THEN "pending" ELSE node_runs[n].status],
            !.cached = [n \in Nodes |-> node_runs[n].output]]
  <2>1. /\ f.pc = "visit" /\ f.key = NoKey
        /\ f.status = [n \in Nodes |-> IF node_runs[n].status = "none"
                                       THEN "pending" ELSE node_runs[n].status]
    BY <1>1, <1>4 DEF Execution, KeyOK, InNode, read_checkpoints, e
  <2>2. Stands(f, landed)
    BY <2>1 DEF Stands, LedgerInv, DoneHappened, AlwaysKeyed
  <2>3. KeyOK(f) /\ HappenedOK(f, landed)
    BY <2>1, <2>2 DEF KeyOK, HappenedOK, InNode
  <2>4. QED
    BY <1>3, <1>4, <2>3 DEF read_checkpoints
<1>5. CASE replay_checkpoint(w)
  <2>1. /\ e.cursor \in Nodes /\ e.cached[e.cursor] \in Maybe
        /\ Stands(e, landed) /\ e.status[e.cursor] = "done"
    BY <1>1, <1>5 DEF replay_checkpoint, Visiting, Execution, HappenedOK, e
  <2>2. e.cursor \in AlwaysKeyed => Happened(e.cursor, landed)
    BY <2>1 DEF Stands
  <2> DEFINE d == Done(e, e.cached[e.cursor])
  <2>3. d \in Execution /\ d.cursor \in Nodes /\ Stands(d, landed)
    BY <1>1, <2>1, <2>2, DoneType, LedgerDone
  <2>4. Become(w, Advance(d))
    BY <1>5 DEF replay_checkpoint, e
  <2> HIDE DEF d
  <2>5. QED
    BY <1>3, <2>3, <2>4, LedgerAdvance
<1>6. CASE enter_unkeyed(w)
  <2> DEFINE f == [e EXCEPT !.pc = "begin", !.attempt = 1]
  <2>1. /\ e.cursor \in Nodes /\ e.board \in Boards /\ e.pc = "visit"
        /\ KeyOf(e.cursor, e.board) = NoKey /\ Become(w, f)
    BY <1>1, <1>6 DEF enter_unkeyed, Runnable, Visiting, Execution, e
  <2>2. e.cursor \notin AlwaysKeyed
    BY <2>1, KeyOfNode
  <2>3. /\ f.pc = "begin" /\ f.key = NoKey /\ f.cursor = e.cursor /\ f.status = e.status
    BY <1>1, <2>1 DEF Execution, KeyOK, InNode
  <2>4. KeyOK(f) /\ HappenedOK(f, landed)
    BY <1>1, <2>1, <2>2, <2>3 DEF KeyOK, HappenedOK, InNode, Stands
  <2>5. QED
    BY <1>3, <2>1, <2>4
<1>7. CASE lookup(w)
  <2>1. /\ e.pc = "lookup" /\ e.key \in Keys /\ e.cursor \in Nodes
    BY <1>1, <1>7 DEF lookup, StepOK, InNode, Steps, e
  <2>2. effects[e.key].status \in EffectStatus
    BY <1>1, <2>1 DEF StoreTypeOK
  <2>3. effects[e.key].status = "recorded" => landed[e.key] > 0
    BY <2>1 DEF LedgerInv, RecordedLanded
  <2>4. PICK f \in {[e EXCEPT !.pc = "replay", !.output = effects[e.key].result],
                    [e EXCEPT !.pc = "finish", !.verdict = "failed"],
                    [e EXCEPT !.pc = "begin", !.attempt = 1]} :
             Become(w, f) /\ (f.pc = "replay" => effects[e.key].status = "recorded")
    BY <1>1, <1>7, <2>2 DEF lookup, EffectStatus, Execution, e
  <2>5. /\ f.pc \in {"replay", "finish", "begin"} /\ (f.pc = "finish" => f.verdict = "failed")
        /\ f.key = e.key /\ f.cursor = e.cursor /\ f.status = e.status
    BY <1>1, <2>4 DEF Execution
  <2>6. KeyOK(f)
    BY <1>1, <2>1, <2>5 DEF KeyOK, InNode, Steps
  <2>7. HappenedOK(f, landed)
    BY <1>1, <2>1, <2>3, <2>4, <2>5 DEF HappenedOK, Stands
  <2>8. QED
    BY <1>3, <2>4, <2>6, <2>7
<1>8. CASE \E v \in Value : succeed(w, v)
  <2>1. PICK v \in Value : succeed(w, v)
    BY <1>8
  <2> DEFINE f == [e EXCEPT !.pc = IF e.key = NoKey THEN "finish" ELSE "record",
                            !.output = v]
  <2>2. /\ e.pc = IF e.key = NoKey THEN "acting" ELSE "landed"
        /\ Become(w, f)
    BY <2>1 DEF succeed, e
  <2>3. /\ f.pc = IF e.key = NoKey THEN "finish" ELSE "record"
        /\ f.key = e.key /\ f.cursor = e.cursor /\ f.status = e.status
    BY <1>1 DEF Execution
  <2>4. KeyOK(f)
    BY <1>1, <2>2, <2>3 DEF KeyOK, InNode, Steps
  <2>5. HappenedOK(f, landed)
    BY <1>1, <2>2, <2>3 DEF HappenedOK, Stands
  <2>6. QED
    BY <1>3, <2>2, <2>4, <2>5
<1>9. CASE raise(w) \/ ask_approval(w)
  <2>1. PICK f \in {[e EXCEPT !.pc = "begin", !.attempt = @ + 1],
                    [e EXCEPT !.pc = "release", !.verdict = "failed"],
                    [e EXCEPT !.pc = "release", !.verdict = "paused"]} : Become(w, f)
    BY <1>9 DEF raise, ask_approval, e
  <2>2. /\ f.pc \in {"begin", "release"} /\ (f.pc = "release" => f.verdict # "done")
        /\ f.key = e.key /\ f.cursor = e.cursor /\ f.status = e.status
    BY <1>1, <2>1 DEF Execution
  <2>3. e.pc \in {"acting", "landed"}
    BY <1>9 DEF raise, ask_approval, e
  <2>4. KeyOK(f) /\ HappenedOK(f, landed)
    BY <1>1, <2>2, <2>3 DEF KeyOK, HappenedOK, InNode, Steps, Stands
  <2>5. QED
    BY <1>3, <2>1, <2>4
<1>10. CASE record_nothing(w)
  <2> DEFINE f == [e EXCEPT !.pc = "insert"]
  <2>1. e.pc = "record" /\ Become(w, f)
    BY <1>10 DEF record_nothing, e
  <2>2. f.pc = "insert" /\ f.key = e.key /\ f.cursor = e.cursor /\ f.status = e.status
    BY <1>1 DEF Execution
  <2>3. KeyOK(f) /\ HappenedOK(f, landed)
    BY <1>1, <2>1, <2>2 DEF KeyOK, HappenedOK, InNode, Steps, Stands
  <2>4. QED
    BY <1>3, <2>1, <2>3
<1>11. QED
  BY <1>4, <1>5, <1>6, <1>7, <1>8, <1>9, <1>10

LEMMA LedgerStatement ==
    ASSUME TypeInv, LedgerInv, NEW w \in Workers, NEW f, Become(w, f),
           KeyOK(f), HappenedOK(f, landed), UNCHANGED worldVars,
           \A k \in Keys : effects'[k].status = "recorded" =>
                             effects[k].status = "recorded" \/ landed[k] > 0,
           \A n \in Nodes : node_runs'[n].status = "done" =>
                             \/ node_runs[n].status = "done"
                             \/ n \in AlwaysKeyed => Happened(n, landed)
    PROVE  LedgerInv'
<1>1. UNCHANGED <<landed, undone>>
  BY DEF worldVars
<1>2. landed \in [Keys -> Nat] /\ AlwaysKeyed \subseteq Nodes
  BY DEF TypeInv, TypeOK, AlwaysKeyed
<1>3. landed' \in [Keys -> Nat] /\ \A k \in Keys : landed'[k] >= landed[k]
  BY <1>1, <1>2
<1>4. QED
  BY <1>1, <1>2, <1>3, LedgerBecome

\* Statements on the ledger.
LEMMA LedgerClaiming ==
    ASSUME TypeInv, LedgerInv, NEW w \in Workers,
           claim(w) \/ lose_claim(w) \/ record(w) \/ insert(w) \/ release(w)
    PROVE  LedgerInv'
<1> DEFINE e == exec[w]
<1> USE DEF At
<1>1. /\ e \in Execution /\ StepOK(e) /\ KeyOK(e) /\ HappenedOK(e, landed) /\ StoreTypeOK
  BY DEF TypeInv, TypeOK, LedgerInv
<1>2. UNCHANGED <<node_runs, worldVars>>
  BY DEF claim, lose_claim, record, insert, release
<1>3. ASSUME NEW f, Become(w, f), KeyOK(f), HappenedOK(f, landed), NEW k, NEW v,
             \/ claim_effect(k)
             \/ record_effect(k, v)
             \/ record_insert(k, v)
             \/ release_effect(k)
             \/ UNCHANGED effects,
             record_effect(k, v) \/ record_insert(k, v) => (k \in Keys => landed[k] > 0)
      PROVE  LedgerInv'
  <2>1. \A j \in Keys : effects'[j].status = "recorded" =>
                             effects[j].status = "recorded" \/ landed[j] > 0
    BY <1>1, <1>3, NewlyRecorded
  <2>2. QED
    BY <1>2, <1>3, <2>1, LedgerStatement
<1> HIDE DEF e
<1>4. CASE claim(w) \/ lose_claim(w)
  <2> DEFINE k == KeyOf(e.cursor, e.board)
  <2>1. e.cursor \in Nodes /\ e.board \in Boards /\ e.pc = "visit" /\ k # NoKey
    BY <1>1, <1>4 DEF claim, lose_claim, Runnable, Visiting, Execution, e
  <2>2. /\ k \in KeysOf[e.cursor] /\ k \in Keys
    BY <2>1, KeyOfNode, KeysOfType
  <2>3. PICK f \in {[e EXCEPT !.pc = "begin", !.key = k, !.attempt = 1],
                    [e EXCEPT !.pc = "lookup", !.key = k]} : Become(w, f)
    BY <1>4 DEF claim, lose_claim, e
  <2>4. /\ f.pc \in {"begin", "lookup"}
        /\ f.key = k /\ f.cursor = e.cursor /\ f.status = e.status
    BY <1>1, <2>2, <2>3 DEF Execution
  <2>5. KeyOK(f)
    BY <2>1, <2>2, <2>4 DEF KeyOK, InNode, Steps
  <2>6. HappenedOK(f, landed)
    BY <1>1, <2>1, <2>4 DEF HappenedOK, Stands
  <2>7. \A j \in Keys : effects'[j].status = "recorded" => effects[j].status = "recorded"
    <3> HIDE DEF k
    <3>1. claim_effect(k) \/ UNCHANGED effects
      BY <1>4 DEF claim, lose_claim, claim_refused, k, e
    <3>2. QED
      BY <1>1, <3>1 DEF claim_effect, Claimed, StoreTypeOK
  <2>8. QED
    BY <1>2, <2>3, <2>5, <2>6, <2>7, LedgerStatement
<1>5. CASE record(w) \/ insert(w)
  <2> DEFINE f == [e EXCEPT !.pc = "finish"]
  <2>1. /\ e.pc \in {"record", "insert"} /\ e.key \in Keys /\ Become(w, f)
    BY <1>1, <1>5 DEF record, insert, StepOK, e
  <2>2. f.pc = "finish" /\ f.key = e.key /\ f.cursor = e.cursor /\ f.status = e.status
    BY <1>1 DEF Execution
  <2>3. landed[e.key] > 0
    BY <1>1, <2>1, RunnerAssumption DEF HappenedOK
  <2>4. KeyOK(f) /\ HappenedOK(f, landed)
    BY <1>1, <2>1, <2>2, <2>3 DEF KeyOK, HappenedOK, InNode, Steps, Stands
  <2>5. record_effect(e.key, e.output) \/ record_insert(e.key, e.output)
    BY <1>5 DEF record, insert, e
  <2> HIDE DEF f
  <2>6. QED
    BY <1>3, <2>1, <2>3, <2>4, <2>5
<1>6. CASE release(w)
  <2> DEFINE f == [e EXCEPT !.pc = "finish"]
  <2>1. e.pc = "release" /\ Become(w, f)
    BY <1>6 DEF release, e
  <2>2. /\ f.pc = "finish" /\ f.key = e.key /\ f.cursor = e.cursor
        /\ f.status = e.status /\ f.verdict = e.verdict
    BY <1>1 DEF Execution
  <2>3. KeyOK(f) /\ HappenedOK(f, landed)
    BY <1>1, <2>1, <2>2 DEF KeyOK, HappenedOK, InNode, Steps, Stands
  <2>4. release_effect(e.key) \/ UNCHANGED effects
    BY <1>6 DEF release, e
  <2>5. \A j \in Keys : effects'[j].status = "recorded" => effects[j].status = "recorded"
    BY <1>1, <2>4 DEF release_effect, StoreTypeOK
  <2> HIDE DEF f
  <2>6. QED
    BY <1>2, <2>1, <2>3, <2>5, LedgerStatement
<1>7. QED
  BY <1>4, <1>5, <1>6

\* Statements on the checkpoints and on the run.
LEMMA LedgerCheckpointing ==
    ASSUME TypeInv, LedgerInv, NEW w \in Workers,
           \/ pass_over(w) \/ complete(w) \/ replay_effect(w) \/ start_attempt(w)
           \/ finish(w) \/ checkpoint(w) \/ block_dependents(w) \/ stop(w) \/ crash(w)
    PROVE  LedgerInv'
<1> DEFINE e == exec[w]
<1> USE DEF At
<1>1. /\ e \in Execution /\ StepOK(e) /\ KeyOK(e) /\ HappenedOK(e, landed) /\ StoreTypeOK
  BY DEF TypeInv, TypeOK, LedgerInv
<1>2. UNCHANGED <<effects, worldVars>>
  BY DEF pass_over, complete, replay_effect, start_attempt, finish, checkpoint,
         block_dependents, stop, crash, storeVars
<1>3. ASSUME NEW f, Become(w, f), KeyOK(f), HappenedOK(f, landed), NEW n, NEW status, NEW v,
             \/ finish_node(n, status, v)
             \/ UNCHANGED node_runs,
             status = "done" => (n \in AlwaysKeyed => Happened(n, landed))
      PROVE  LedgerInv'
  <2>1. \A m \in Nodes : node_runs'[m].status = "done" =>
            \/ node_runs[m].status = "done"
            \/ m \in AlwaysKeyed => Happened(m, landed)
    BY <1>1, <1>3, NewlyDone
  <2>2. QED
    BY <1>2, <1>3, <2>1, LedgerStatement
<1> HIDE DEF e
<1>4. KeyOK(Idle) /\ HappenedOK(Idle, landed)
  BY DEF KeyOK, HappenedOK, InNode, Idle
<1>5. CASE complete(w) \/ stop(w) \/ crash(w)
  <2>1. Become(w, Idle) /\ UNCHANGED node_runs
    BY <1>5 DEF complete, stop, crash, storeVars
  <2>2. QED
    BY <1>3, <1>4, <2>1
<1>6. CASE pass_over(w)
  <2> DEFINE verdict == IF BlockedBy(e) # {} THEN "blocked" ELSE "skipped"
             d == [e EXCEPT !.status[e.cursor] = verdict]
  <2>1. e.cursor \in Nodes /\ e.pc = "visit" /\ Stands(e, landed)
    BY <1>1, <1>6 DEF pass_over, Visiting, HappenedOK, e
  <2>2. verdict \in NodeStatus /\ verdict # "done"
    BY DEF NodeStatus
  <2>3. finish_node(e.cursor, verdict, Absent) /\ Become(w, Advance(d))
    BY <1>6 DEF pass_over, e
  <2> HIDE DEF verdict
  <2>4. /\ d \in Execution /\ d.cursor \in Nodes
        /\ d.status = [e.status EXCEPT ![e.cursor] = verdict]
    BY <1>1, <2>1, <2>2 DEF Execution
  <2>5. Stands(d, landed)
    BY <1>1, <2>1, <2>2, <2>4 DEF Stands, Execution, AlwaysKeyed
  <2> HIDE DEF d
  <2>6. QED
    BY <1>3, <2>2, <2>3, <2>4, <2>5, LedgerAdvance
<1>7. CASE replay_effect(w)
  <2> DEFINE d == Done(e, e.output)
  <2>1. /\ e.pc = "replay" /\ e.cursor \in Nodes /\ e.output \in Maybe
        /\ Stands(e, landed) /\ (e.key # NoKey => landed[e.key] > 0)
    BY <1>1, <1>7 DEF replay_effect, StepOK, InNode, Steps, Execution, HappenedOK, e
  <2>2. e.cursor \in AlwaysKeyed => Happened(e.cursor, landed)
    BY <1>1, <2>1, KeyHappened DEF InNode, Steps
  <2>3. d \in Execution /\ d.cursor \in Nodes /\ Stands(d, landed)
    BY <1>1, <2>1, <2>2, DoneType, LedgerDone
  <2>4. finish_node(e.cursor, "done", e.output) /\ Become(w, Advance(d))
    BY <1>7 DEF replay_effect, e
  <2> HIDE DEF d
  <2>5. QED
    BY <1>3, <2>2, <2>3, <2>4, LedgerAdvance
<1>8. CASE start_attempt(w)
  <2> DEFINE f == [e EXCEPT !.pc = "acting"]
  <2>1. e.pc = "begin" /\ Become(w, f) /\ start_node(e.cursor)
    BY <1>8 DEF start_attempt, e
  <2>2. f.pc = "acting" /\ f.key = e.key /\ f.cursor = e.cursor /\ f.status = e.status
    BY <1>1 DEF Execution
  <2>3. KeyOK(f) /\ HappenedOK(f, landed)
    BY <1>1, <2>1, <2>2 DEF KeyOK, HappenedOK, InNode, Steps, Stands
  <2> HIDE DEF f
  <2>4. \A m \in Nodes : node_runs'[m].status = "done" => node_runs[m].status = "done"
    BY <1>1, <2>1 DEF start_node, StoreTypeOK
  <2>5. QED
    BY <1>2, <2>1, <2>3, <2>4, LedgerStatement
<1>9. CASE finish(w)
  <2>1. /\ e.pc = "finish" /\ e.cursor \in Nodes /\ e.output \in Maybe
        /\ Stands(e, landed) /\ finish_node(e.cursor, e.verdict, e.output)
    BY <1>1, <1>9 DEF finish, StepOK, InNode, Steps, Execution, HappenedOK, e
  <2>2. CASE e.verdict = "done"
    <3>1. e.cursor \in AlwaysKeyed => Happened(e.cursor, landed)
      BY <1>1, <2>1, <2>2, KeyHappened DEF InNode, Steps, HappenedOK
    <3> DEFINE d == Done(e, e.output)
               f == [d EXCEPT !.pc = "checkpoint"]
    <3>2. d \in Execution /\ Stands(d, landed)
      BY <1>1, <2>1, <3>1, DoneType, LedgerDone
    <3>3. d.key = e.key /\ d.cursor = e.cursor
      BY <1>1 DEF Done, Execution
    <3>4. Become(w, f)
      BY <1>9, <2>2 DEF finish, e
    <3> HIDE DEF d
    <3>5. f.pc = "checkpoint" /\ f.key = e.key /\ f.cursor = e.cursor /\ f.status = d.status
      BY <3>2, <3>3 DEF Execution
    <3>6. KeyOK(f) /\ HappenedOK(f, landed)
      BY <1>1, <2>1, <3>2, <3>5 DEF KeyOK, HappenedOK, InNode, Steps, Stands
    <3> HIDE DEF f
    <3>7. QED
      BY <1>3, <2>1, <3>1, <3>4, <3>6
  <2>3. CASE e.verdict # "done"
    <3> DEFINE f == [e EXCEPT !.pc = "settle", !.status[e.cursor] = e.verdict,
                              !.unwind = IF e.verdict = "failed" THEN N ELSE 0]
    <3>1. Become(w, f)
      BY <1>9, <2>3 DEF finish, e
    <3>2. /\ f.pc = "settle" /\ f.key = e.key /\ f.cursor = e.cursor
          /\ f.status = [e.status EXCEPT ![e.cursor] = e.verdict]
      BY <1>1 DEF Execution
    <3>3. Stands(f, landed)
      BY <1>1, <2>1, <2>3, <3>2 DEF Stands, Execution, AlwaysKeyed
    <3>4. KeyOK(f) /\ HappenedOK(f, landed)
      BY <1>1, <2>1, <3>2, <3>3 DEF KeyOK, HappenedOK, InNode, Steps
    <3> HIDE DEF f
    <3>5. QED
      BY <1>3, <2>1, <2>3, <3>1, <3>4
  <2>4. QED
    BY <2>2, <2>3
<1>10. CASE checkpoint(w)
  <2>1. /\ e.pc = "checkpoint" /\ e.cursor \in Nodes /\ Stands(e, landed)
        /\ Become(w, Advance(e)) /\ UNCHANGED node_runs
    BY <1>1, <1>10 DEF checkpoint, StepOK, InNode, Steps, HappenedOK, e
  <2>2. QED
    BY <1>1, <1>3, <2>1, LedgerAdvance
<1>11. CASE block_dependents(w)
  <2>1. PICK n \in ToBlock(e) : /\ finish_node(n, "blocked", Absent)
                                /\ Become(w, [e EXCEPT !.status[n] = "blocked"])
    BY <1>11 DEF block_dependents, e
  <2> DEFINE f == [e EXCEPT !.status[n] = "blocked"]
  <2>2. e.pc = "settle" /\ Stands(e, landed)
    BY <1>1, <1>11 DEF block_dependents, HappenedOK, e
  <2>3. /\ f.pc = e.pc /\ f.key = e.key /\ f.cursor = e.cursor
        /\ f.status = [e.status EXCEPT ![n] = "blocked"]
    BY <1>1 DEF Execution
  <2>4. Stands(f, landed)
    BY <1>1, <2>2, <2>3 DEF Stands, Execution, AlwaysKeyed
  <2>5. KeyOK(f) /\ HappenedOK(f, landed)
    BY <1>1, <2>2, <2>3, <2>4 DEF KeyOK, HappenedOK, InNode, Steps
  <2> HIDE DEF f
  <2>6. QED
    BY <1>3, <2>1, <2>5 DEF f
<1>12. QED
  BY <1>5, <1>6, <1>7, <1>8, <1>9, <1>10, <1>11

\* The steps of the outside world.
LEMMA LedgerWorld ==
    ASSUME TypeInv, LedgerInv, NEW w \in Workers, land(w) \/ compensate(w)
    PROVE  LedgerInv'
<1> DEFINE e == exec[w]
<1> USE DEF At
<1>1. /\ e \in Execution /\ StepOK(e) /\ KeyOK(e) /\ HappenedOK(e, landed)
      /\ landed \in [Keys -> Nat] /\ undone \in [Nodes -> Nat]
  BY DEF TypeInv, TypeOK, LedgerInv
<1>2. UNCHANGED <<effects, node_runs>>
  BY DEF land, compensate, storeVars
<1>3. CASE land(w)
  <2> DEFINE f == [exec[w] EXCEPT !.pc = "landed"]
  <2>1. /\ e.pc = "acting" /\ e.key \in Keys /\ Become(w, f) /\ UNCHANGED undone
        /\ landed' = [landed EXCEPT ![e.key] = @ + 1]
    BY <1>1, <1>3 DEF land, Execution
  <2> HIDE DEF e
  <2>2. /\ landed' \in [Keys -> Nat] /\ landed'[e.key] > 0
        /\ \A k \in Keys : landed'[k] >= landed[k]
    BY <1>1, <2>1
  <2>3. /\ f.pc = "landed" /\ f.key = e.key /\ f.cursor = e.cursor
        /\ f.status = e.status
    BY <1>1 DEF Execution, e
  <2>4. KeyOK(f)
    BY <1>1, <2>1, <2>3 DEF KeyOK, InNode, Steps
  <2>5. Stands(f, landed')
    <3>1. \A n \in Nodes : Happened(n, landed) => Happened(n, landed')
      BY <1>1, <2>2, WorldMovesOn
    <3>2. QED
      BY <1>1, <2>1, <2>3, <3>1 DEF HappenedOK, Stands, AlwaysKeyed
  <2>6. HappenedOK(f, landed')
    BY <2>2, <2>3, <2>5 DEF HappenedOK
  <2> HIDE DEF f
  <2>7. QED
    BY <1>2, <2>1, <2>2, <2>4, <2>6, LedgerBecome
<1>4. CASE compensate(w)
  <2>1. PICK n \in ToUndo(e) : /\ undone' \in {undone, [undone EXCEPT ![n] = @ + 1]}
                               /\ Become(w, [e EXCEPT !.unwind = n - 1])
    BY <1>4 DEF compensate
  <2> DEFINE f == [exec[w] EXCEPT !.unwind = n - 1]
  <2> HIDE DEF e
  <2>2. e.pc = "settle" /\ UNCHANGED landed /\ Stands(e, landed)
    BY <1>1, <1>4 DEF compensate, HappenedOK, e
  <2>3. n \in Compensable /\ e.status[n] = "done"
    BY DEF ToUndo
  <2>4. n \in AlwaysKeyed
    BY <2>3, RunnerAssumption, SideEffectAssumption DEF AlwaysKeyed
  <2>5. Happened(n, landed)
    BY <2>2, <2>3, <2>4 DEF Stands
  <2>6. \A m \in AlwaysKeyed : undone'[m] > 0 => undone[m] > 0 \/ Happened(m, landed)
    BY <1>1, <2>1, <2>5 DEF AlwaysKeyed
  <2>7. /\ f.pc = "settle" /\ f.key = e.key /\ f.cursor = e.cursor
        /\ f.status = e.status
    BY <1>1, <2>2 DEF Execution, e
  <2>8. KeyOK(f) /\ HappenedOK(f, landed)
    BY <1>1, <2>2, <2>7 DEF KeyOK, HappenedOK, InNode, Steps, Stands
  <2>9. landed' \in [Keys -> Nat] /\ \A k \in Keys : landed'[k] >= landed[k]
    BY <1>1, <2>2
  <2>10. Become(w, f)
    BY <2>1 DEF e
  <2> HIDE DEF f
  <2>11. QED
    BY <1>2, <2>2, <2>6, <2>8, <2>9, <2>10, LedgerBecome
<1>5. QED
  BY <1>3, <1>4

LEMMA LedgerEntry ==
    ASSUME TypeInv, LedgerInv, NEW w \in Workers,
           \/ start(w)
           \/ \E decided \in SUBSET Gates, v \in Value : resume(w, decided, v)
    PROVE  LedgerInv'
<1>1. ASSUME NEW board, Launch(w, board), UNCHANGED <<node_runs, effects, worldVars>>
      PROVE  LedgerInv'
  <2> DEFINE f == [Idle EXCEPT !.pc = "load", !.board = board]
  <2>1. f.pc = "load" /\ f.key = NoKey
    BY DEF Idle
  <2>2. KeyOK(f) /\ HappenedOK(f, landed)
    BY <2>1 DEF KeyOK, HappenedOK, InNode
  <2>3. Become(w, f)
    BY <1>1 DEF Launch
  <2> HIDE DEF f
  <2>4. QED
    BY <1>1, <2>2, <2>3, LedgerStatement
<1>2. QED
  BY <1>1 DEF start, resume, storeVars

LEMMA LedgerInit == Init => LedgerInv
<1> SUFFICES ASSUME Init PROVE LedgerInv
  OBVIOUS
<1>1. \A w \in Workers : KeyOK(exec[w]) /\ HappenedOK(exec[w], landed)
  BY DEF Init, Idle, KeyOK, HappenedOK, InNode
<1>2. RecordedLanded /\ UndoneLanded /\ DoneHappened
  BY DEF Init, StoreInit, RecordedLanded, UndoneLanded, DoneHappened, AlwaysKeyed
<1>3. QED
  BY <1>1, <1>2 DEF LedgerInv

LEMMA LedgerStep == TypeInv /\ LedgerInv /\ [Next]_vars => LedgerInv'
<1> SUFFICES ASSUME TypeInv, LedgerInv, [Next]_vars PROVE LedgerInv'
  OBVIOUS
<1>1. CASE UNCHANGED vars
  <2>1. UNCHANGED <<node_runs, effects, exec, landed, undone>>
    BY <1>1 DEF vars
  <2>2. RecordedLanded' /\ UndoneLanded' /\ DoneHappened'
    BY <2>1 DEF LedgerInv, RecordedLanded, UndoneLanded, DoneHappened
  <2>3. \A w \in Workers : KeyOK(exec'[w]) /\ HappenedOK(exec'[w], landed')
    BY <2>1 DEF LedgerInv
  <2>4. QED
    BY <2>2, <2>3 DEF LedgerInv
<1>2. ASSUME NEW w \in Workers, Execute(w) PROVE LedgerInv'
  BY <1>2, LedgerReading, LedgerClaiming, LedgerCheckpointing, LedgerWorld DEF Execute
<1>3. QED
  BY <1>1, <1>2, LedgerEntry, LedgerCheckpointing DEF Next

LEMMA AlwaysLedger == Spec => []LedgerInv
BY AlwaysTyped, LedgerInit, LedgerStep, PTL DEF Spec

\* Whatever is on the ledger as recorded has happened: no replay stands in for
\* an effect that did not, for any number of workers, crashes and releases.
THEOREM RecordedAlwaysLanded == Spec => []RecordedLanded
BY AlwaysLedger, PTL DEF LedgerInv

\* Compensation never undoes the effect of a node that had none.
THEOREM UndoneAlwaysLanded == Spec => []UndoneLanded
BY AlwaysLedger, PTL DEF LedgerInv

----------------------------------------------------------------------------
(* A recorded row is final: every statement that could touch it asks for a  *)
(* free or a claimed one.                                                   *)

LEMMA RecordedStays ==
    ASSUME TypeInv, [Next]_vars, NEW k \in Keys, effects[k].status = "recorded"
    PROVE  effects'[k] = effects[k]
<1>1. effects \in [Keys -> [status : EffectStatus, result : Maybe]]
  BY DEF TypeInv, TypeOK, StoreTypeOK
<1>2. ASSUME NEW j, NEW v,
             \/ claim_effect(j)
             \/ record_effect(j, v)
             \/ record_insert(j, v)
             \/ release_effect(j)
             \/ UNCHANGED effects
      PROVE  effects'[k] = effects[k]
  BY <1>1, <1>2 DEF claim_effect, record_effect, record_insert, release_effect
<1>3. ASSUME NEW w \in Workers, Execute(w) PROVE effects'[k] = effects[k]
  <2>1. CASE claim(w)
    BY <1>2, <2>1 DEF claim
  <2>2. CASE record(w)
    BY <1>2, <2>2 DEF record
  <2>3. CASE insert(w)
    BY <1>2, <2>3 DEF insert
  <2>4. CASE release(w)
    BY <1>2, <2>4 DEF release
  <2>5. CASE UNCHANGED effects
    BY <2>5
  <2>6. QED
    BY <1>3, <2>1, <2>2, <2>3, <2>4, <2>5
       DEF Execute, read_checkpoints, replay_checkpoint, pass_over, complete,
           enter_unkeyed, lose_claim, claim_refused, lookup, replay_effect, start_attempt,
           land, succeed, raise, ask_approval, record_nothing, finish, checkpoint,
           compensate, block_dependents, stop, storeVars
<1>4. ASSUME NEW w \in Workers,
             \/ start(w)
             \/ \E decided \in SUBSET Gates, v \in Value : resume(w, decided, v)
             \/ crash(w)
      PROVE  UNCHANGED effects
  BY <1>4 DEF start, resume, crash, storeVars
<1>5. QED
  BY <1>3, <1>4 DEF Next, vars

\* A recorded effect and its result are never changed or lost.
THEOREM RecordedStaysForever == Spec => RecordedForever
<1>1. TypeInv /\ [Next]_vars =>
        [\A k \in Keys : effects[k].status = "recorded" => effects'[k] = effects[k]]_effects
  BY RecordedStays
<1>2. QED
  BY <1>1, AlwaysTyped, PTL DEF Spec, RecordedForever

----------------------------------------------------------------------------
(* When the runner keeps its promise: for every graph, if the exceptions    *)
(* of keyed nodes are honest negatives and a claim that is given up cannot  *)
(* be missed between another worker's INSERT and SELECT.                    *)

\* A keyed node that raises has not acted.  _run_node takes this for granted
\* when it releases the claim of whatever raised (runner.py 230-243).
Honest == \A n \in Nodes : KeysOf[n] # {} => "timeout" \notin Outcomes[n]

OneWorker == \A u, w \in Workers : u = w

\* No keyed node gives its claim up: it neither raises nor asks.
NeverReleases ==
    \A n \in Nodes : KeysOf[n] # {} => n \notin Gates /\ Outcomes[n] \subseteq {"ok"}

Exclusive == OneWorker \/ NeverReleases

----------------------------------------------------------------------------
(* Between its claim and its record, or its release, a worker owns its key: *)
(* the row is claimed, no other worker is between the two with the same     *)
(* key, and whether the effect happened is known from where it stands.      *)

Holds(e) ==
    e.pc \in {"begin", "acting", "landed", "record", "release"} /\ e.key # NoKey

HoldOK(e, rows, world) ==
    /\ Holds(e) =>
         /\ rows[e.key].status = "claimed"
         /\ world[e.key] = IF e.pc \in {"landed", "record"} THEN 1 ELSE 0
    /\ e.pc = "release" /\ e.key # NoKey => OneWorker
    /\ e.pc = "lookup" => rows[e.key].status # "free"
    /\ e.pc # "insert"

RowsOK(rows, world) ==
    \A k \in Keys :
        /\ world[k] \in {0, 1}
        /\ rows[k].status = "free" => world[k] = 0
        /\ rows[k].status = "recorded" => world[k] = 1

HoldInv ==
    /\ RowsOK(effects, landed)
    /\ \A w \in Workers : HoldOK(exec[w], effects, landed)
    /\ \A u, w \in Workers :
         u # w /\ Holds(exec[u]) /\ Holds(exec[w]) => exec[u].key # exec[w].key

LEMMA HoldBecome ==
    ASSUME TypeInv, HoldInv, NEW w \in Workers, NEW f, Become(w, f),
           RowsOK(effects', landed'), HoldOK(f, effects', landed'),
           \A u \in Workers : u # w =>
                /\ HoldOK(exec[u], effects', landed')
                /\ Holds(f) /\ Holds(exec[u]) => f.key # exec[u].key
    PROVE  HoldInv'
<1>1. \A u \in Workers : exec'[u] = IF u = w THEN f ELSE exec[u]
  BY DEF Become, TypeInv, TypeOK
<1>2. ASSUME NEW u \in Workers PROVE HoldOK(exec'[u], effects', landed')
  BY <1>1
<1>3. ASSUME NEW u \in Workers, NEW v \in Workers,
             u # v, Holds(exec'[u]), Holds(exec'[v])
      PROVE  exec'[u].key # exec'[v].key
  BY <1>1, <1>3 DEF HoldInv
<1>4. QED
  BY <1>2, <1>3 DEF HoldInv

\* A step that touches neither the ledger nor the outside world.
LEMMA HoldPrivate ==
    ASSUME TypeInv, HoldInv, NEW w \in Workers, NEW f, Become(w, f),
           UNCHANGED <<effects, landed>>,
           HoldOK(f, effects, landed),
           Holds(f) => Holds(exec[w]) /\ f.key = exec[w].key
    PROVE  HoldInv'
<1>1. \A u \in Workers : u # w =>
        /\ HoldOK(exec[u], effects, landed)
        /\ Holds(f) /\ Holds(exec[u]) => f.key # exec[u].key
  BY DEF HoldInv
<1>2. QED
  BY <1>1, HoldBecome DEF HoldInv

\* A step that leaves the claim of its own node, or never had one.
LEMMA HoldNothing ==
    ASSUME TypeInv, HoldInv, NEW w \in Workers, NEW f, Become(w, f),
           UNCHANGED <<effects, landed>>,
           f.pc \in {"idle", "load", "visit", "finish", "checkpoint", "replay", "settle"}
    PROVE  HoldInv'
<1>1. HoldOK(f, effects, landed) /\ ~Holds(f)
  BY DEF HoldOK, Holds
<1>2. QED
  BY <1>1, HoldPrivate

\* A step on key k, that no other worker holds.
LEMMA HoldKey ==
    ASSUME TypeInv, HoldInv, NEW w \in Workers, NEW f, Become(w, f),
           NEW k \in Keys,
           \A j \in Keys : j # k => effects'[j] = effects[j] /\ landed'[j] = landed[j],
           \A u \in Workers : u # w /\ Holds(exec[u]) => exec[u].key # k,
           OneWorker \/ effects'[k].status # "free",
           RowsOK(effects', landed'), HoldOK(f, effects', landed'),
           Holds(f) => f.key = k
    PROVE  HoldInv'
<1>1. ASSUME NEW u \in Workers, u # w
      PROVE  /\ HoldOK(exec[u], effects', landed')
             /\ Holds(f) /\ Holds(exec[u]) => f.key # exec[u].key
  <2>1. HoldOK(exec[u], effects, landed) /\ exec[u] \in Execution /\ StepOK(exec[u])
    BY DEF HoldInv, TypeInv, TypeOK
  <2>2. effects'[k].status # "free"
    BY <1>1 DEF OneWorker
  <2>3. Holds(exec[u]) => exec[u].key \in Keys /\ exec[u].key # k
    BY <1>1, <2>1 DEF Holds, Execution
  <2>4. exec[u].pc = "lookup" => exec[u].key \in Keys
    BY <2>1 DEF StepOK
  <2>5. HoldOK(exec[u], effects', landed')
    BY <2>1, <2>2, <2>3, <2>4 DEF HoldOK
  <2>6. QED
    BY <2>3, <2>5
<1>2. QED
  BY <1>1, HoldBecome

\* The steps of a worker that is not about to act.
LEMMA HoldElsewhere ==
    ASSUME TypeInv, HoldInv, NEW w \in Workers,
           \/ start(w) \/ (\E decided \in SUBSET Gates, v \in Value : resume(w, decided, v))
           \/ read_checkpoints(w) \/ replay_checkpoint(w) \/ pass_over(w) \/ complete(w)
           \/ replay_effect(w) \/ finish(w) \/ checkpoint(w)
           \/ compensate(w) \/ block_dependents(w) \/ stop(w) \/ crash(w)
    PROVE  HoldInv'
<1> DEFINE Resting == {"idle", "load", "visit", "finish", "checkpoint", "replay", "settle"}
           e == exec[w]
<1> USE DEF At
<1>1. e \in Execution
  BY DEF TypeInv, TypeOK
<1>2. UNCHANGED <<effects, landed>>
  BY DEF start, resume, read_checkpoints, replay_checkpoint, pass_over, complete,
         replay_effect, finish, checkpoint, compensate, block_dependents, stop, crash,
         storeVars, worldVars
<1>3. ASSUME NEW g \in Execution, Become(w, Advance(g)) PROVE HoldInv'
  <2>1. Advance(g).pc = "visit"
    BY DEF Advance, Execution
  <2>2. QED
    BY <1>2, <1>3, <2>1, HoldNothing
<1>4. CASE complete(w) \/ stop(w) \/ crash(w)
  <2>1. Become(w, Idle) /\ Idle.pc = "idle"
    BY <1>4 DEF complete, stop, crash, Idle
  <2>2. QED
    BY <1>2, <2>1, HoldNothing
<1>5. CASE start(w) \/ (\E decided \in SUBSET Gates, v \in Value : resume(w, decided, v))
  <2>1. PICK board : Become(w, [Idle EXCEPT !.pc = "load", !.board = board])
    BY <1>5 DEF start, resume, Launch
  <2>2. [Idle EXCEPT !.pc = "load", !.board = board].pc = "load"
    BY DEF Idle
  <2>3. QED
    BY <1>2, <2>1, <2>2, HoldNothing
<1>6. CASE read_checkpoints(w)
  <2> DEFINE f == [exec[w] EXCEPT
            !.pc = "visit",
            !.status = [n \in Nodes |-> IF node_runs[n].status = "none"
                                        THEN "pending" ELSE node_runs[n].status],
            !.cached = [n \in Nodes |-> node_runs[n].output]]
  <2>1. f.pc = "visit" /\ Become(w, f)
    BY <1>1, <1>6 DEF read_checkpoints, Execution
  <2> HIDE DEF f
  <2>2. QED
    BY <1>2, <2>1, HoldNothing
<1> HIDE DEF e
<1>7. CASE replay_checkpoint(w)
  <2>1. e.cursor \in Nodes /\ e.cached[e.cursor] \in Maybe
    BY <1>1, <1>7 DEF replay_checkpoint, Visiting, Execution, e
  <2>2. Done(e, e.cached[e.cursor]) \in Execution
    BY <1>1, <2>1, DoneType
  <2>3. QED
    BY <1>3, <1>7, <2>2 DEF replay_checkpoint, e
<1>8. CASE pass_over(w)
  <2> DEFINE verdict == IF BlockedBy(e) # {} THEN "blocked" ELSE "skipped"
  <2>1. e.cursor \in Nodes /\ verdict \in NodeStatus
    BY <1>8 DEF pass_over, Visiting, NodeStatus, e
  <2>2. Become(w, Advance([e EXCEPT !.status[e.cursor] = verdict]))
    BY <1>8 DEF pass_over, e
  <2> HIDE DEF verdict
  <2>3. [e EXCEPT !.status[e.cursor] = verdict] \in Execution
    BY <1>1, <2>1 DEF Execution
  <2>4. QED
    BY <1>3, <2>2, <2>3
<1>9. CASE replay_effect(w)
  <2>1. e.cursor \in Nodes /\ e.output \in Maybe
    BY <1>1, <1>9 DEF replay_effect, Execution, TypeInv, StepOK, InNode, Steps, e
  <2>2. Done(e, e.output) \in Execution
    BY <1>1, <2>1, DoneType
  <2>3. QED
    BY <1>3, <1>9, <2>2 DEF replay_effect, e
<1>10. CASE finish(w)
  <2>1. e.cursor \in Nodes /\ e.output \in Maybe
    BY <1>1, <1>10 DEF finish, Execution, TypeInv, StepOK, InNode, Steps, e
  <2>2. Done(e, e.output) \in Execution
    BY <1>1, <2>1, DoneType
  <2>3. PICK f \in {[Done(e, e.output) EXCEPT !.pc = "checkpoint"],
                    [e EXCEPT !.pc = "settle", !.status[e.cursor] = e.verdict,
                              !.unwind = IF e.verdict = "failed" THEN N ELSE 0]} : Become(w, f)
    BY <1>10 DEF finish, e
  <2>4. f.pc \in {"checkpoint", "settle"}
    BY <1>1, <2>2, <2>3 DEF Execution
  <2>5. QED
    BY <1>2, <2>3, <2>4, HoldNothing
<1>11. CASE checkpoint(w)
  BY <1>1, <1>3, <1>11 DEF checkpoint, e
<1>12. CASE compensate(w)
  <2>1. PICK n : Become(w, [e EXCEPT !.unwind = n - 1])
    BY <1>12 DEF compensate, e
  <2>2. [e EXCEPT !.unwind = n - 1].pc = "settle"
    BY <1>1, <1>12 DEF compensate, Execution, e
  <2>3. QED
    BY <1>2, <2>1, <2>2, HoldNothing
<1>13. CASE block_dependents(w)
  <2>1. PICK n : Become(w, [e EXCEPT !.status[n] = "blocked"])
    BY <1>13 DEF block_dependents, e
  <2>2. [e EXCEPT !.status[n] = "blocked"].pc = "settle"
    BY <1>1, <1>13 DEF block_dependents, Execution, e
  <2>3. QED
    BY <1>2, <2>1, <2>2, HoldNothing
<1>14. QED
  BY <1>4, <1>5, <1>6, <1>7, <1>8, <1>9, <1>10, <1>11, <1>12, <1>13

\* Entering a node, looking its row up, attempting it.
LEMMA HoldAttempt ==
    ASSUME TypeInv, LedgerInv, HoldInv, NEW w \in Workers, Honest, Exclusive,
           \/ enter_unkeyed(w) \/ lose_claim(w) \/ lookup(w) \/ start_attempt(w)
           \/ (\E v \in Value : succeed(w, v)) \/ raise(w) \/ ask_approval(w)
           \/ record_nothing(w)
    PROVE  HoldInv'
<1> DEFINE e == exec[w]
<1> USE DEF At
<1>1. /\ e \in Execution /\ StepOK(e) /\ KeyOK(e) /\ HoldOK(e, effects, landed)
      /\ effects \in [Keys -> [status : EffectStatus, result : Maybe]]
  BY DEF TypeInv, TypeOK, StoreTypeOK, LedgerInv, HoldInv
<1>2. UNCHANGED <<effects, landed>>
  BY DEF enter_unkeyed, lose_claim, claim_refused, lookup, start_attempt, succeed, raise,
         ask_approval, record_nothing, storeVars, worldVars
<1>3. ASSUME NEW f, Become(w, f), HoldOK(f, effects, landed),
             Holds(f) => Holds(e) /\ f.key = e.key
      PROVE  HoldInv'
  BY <1>2, <1>3, HoldPrivate
<1> HIDE DEF e
<1>4. CASE enter_unkeyed(w)
  <2> DEFINE f == [e EXCEPT !.pc = "begin", !.attempt = 1]
  <2>1. e.pc = "visit" /\ Become(w, f)
    BY <1>4 DEF enter_unkeyed, Runnable, Visiting, e
  <2>2. f.pc = "begin" /\ f.key = NoKey
    BY <1>1, <2>1 DEF Execution, KeyOK, InNode
  <2> HIDE DEF f
  <2>3. QED
    BY <1>3, <2>1, <2>2 DEF HoldOK, Holds
<1>5. CASE lose_claim(w)
  <2> DEFINE k == KeyOf(e.cursor, e.board)
             f == [e EXCEPT !.pc = "lookup", !.key = k]
  <2>1. e.cursor \in Nodes /\ e.board \in Boards /\ k # NoKey /\ Become(w, f)
    BY <1>1, <1>5 DEF lose_claim, Runnable, Visiting, Execution, e
  <2>2. k \in Keys /\ effects[k].status # "free"
    BY <1>5, <2>1, RunnerAssumption DEF lose_claim, claim_refused, e
  <2>3. f.pc = "lookup" /\ f.key = k
    BY <1>1, <2>2 DEF Execution
  <2> HIDE DEF f
  <2>4. QED
    BY <1>3, <2>1, <2>2, <2>3 DEF HoldOK, Holds
<1>6. CASE lookup(w)
  <2>1. e.pc = "lookup" /\ e.key \in Keys
    BY <1>1, <1>6 DEF lookup, StepOK, e
  <2>2. effects[e.key].status \in {"claimed", "recorded"}
    BY <1>1, <2>1 DEF HoldOK, EffectStatus
  <2>3. PICK f \in {[e EXCEPT !.pc = "replay", !.output = effects[e.key].result],
                    [e EXCEPT !.pc = "finish", !.verdict = "failed"]} : Become(w, f)
    BY <1>6, <2>2 DEF lookup, e
  <2>4. f.pc \in {"replay", "finish"}
    BY <1>1, <2>3 DEF Execution
  <2>5. QED
    BY <1>2, <2>3, <2>4, HoldNothing
<1>7. CASE start_attempt(w)
  <2> DEFINE f == [e EXCEPT !.pc = "acting"]
  <2>1. e.pc = "begin" /\ Become(w, f)
    BY <1>7 DEF start_attempt, e
  <2>2. f.pc = "acting" /\ f.key = e.key
    BY <1>1 DEF Execution
  <2> HIDE DEF f
  <2>3. QED
    BY <1>1, <1>3, <2>1, <2>2 DEF HoldOK, Holds
<1>8. CASE \E v \in Value : succeed(w, v)
  <2>1. PICK v \in Value : succeed(w, v)
    BY <1>8
  <2> DEFINE f == [e EXCEPT !.pc = IF e.key = NoKey THEN "finish" ELSE "record",
                            !.output = v]
  <2>2. (e.pc = IF e.key = NoKey THEN "acting" ELSE "landed") /\ Become(w, f)
    BY <2>1 DEF succeed, e
  <2>3. (f.pc = IF e.key = NoKey THEN "finish" ELSE "record") /\ f.key = e.key
    BY <1>1 DEF Execution
  <2> HIDE DEF f
  <2>4. QED
    BY <1>1, <1>3, <2>2, <2>3 DEF HoldOK, Holds
<1>9. CASE raise(w) \/ ask_approval(w)
  <2>1. /\ e.pc \in {"acting", "landed"} /\ e.cursor \in Nodes
        /\ e.key = NoKey \/ e.key \in KeysOf[e.cursor]
    BY <1>1, <1>9 DEF raise, ask_approval, StepOK, KeyOK, InNode, Steps, e
  <2>2. e.key # NoKey => e.pc = "acting"
    <3>1. e.pc = "landed" => "timeout" \in Outcomes[e.cursor]
      BY <1>9 DEF raise, ask_approval, e
    <3>2. QED
      BY <2>1, <3>1 DEF Honest
  <2>3. e.key # NoKey => OneWorker
    <3> SUFFICES ASSUME e.key # NoKey, NeverReleases PROVE FALSE
      BY DEF Exclusive
    <3>1. e.cursor \notin Gates /\ Outcomes[e.cursor] \subseteq {"ok"}
      BY <2>1 DEF NeverReleases
    <3>2. e.pc = "acting"
      BY <2>2
    <3>3. CASE raise(w)
      BY <3>1, <3>2, <3>3 DEF raise, e
    <3>4. CASE ask_approval(w)
      BY <3>1, <3>4 DEF ask_approval, AsksApproval, e
    <3>5. QED
      BY <1>9, <3>3, <3>4
  <2>4. PICK f \in {[e EXCEPT !.pc = "begin", !.attempt = @ + 1],
                    [e EXCEPT !.pc = "release", !.verdict = "failed"],
                    [e EXCEPT !.pc = "release", !.verdict = "paused"]} : Become(w, f)
    BY <1>9 DEF raise, ask_approval, e
  <2>5. f.pc \in {"begin", "release"} /\ f.key = e.key
    BY <1>1, <2>4 DEF Execution
  <2>6. HoldOK(f, effects, landed)
    BY <1>1, <2>1, <2>2, <2>3, <2>5 DEF HoldOK, Holds
  <2>7. Holds(f) => Holds(e) /\ f.key = e.key
    BY <2>1, <2>5 DEF Holds
  <2>8. QED
    BY <1>3, <2>4, <2>6, <2>7
<1>10. CASE record_nothing(w)
  <2>1. e.pc = "record" /\ e.key \in Keys /\ effects[e.key].status # "claimed"
    BY <1>1, <1>10 DEF record_nothing, StepOK, e
  <2>2. FALSE
    BY <1>1, <2>1, RunnerAssumption DEF HoldOK, Holds
  <2>3. QED
    BY <2>2
<1>11. QED
  BY <1>4, <1>5, <1>6, <1>7, <1>8, <1>9, <1>10

----------------------------------------------------------------------------
(* The four steps on a key are the four steps of the promise.               *)

Rows == [k \in Keys |-> effects[k].status]

LEMMA RowsOn ==
    ASSUME TypeInv, NEW k \in Keys, NEW row, effects' = [effects EXCEPT ![k] = row]
    PROVE  /\ Rows' = [Rows EXCEPT ![k] = row.status]
           /\ effects'[k] = row
           /\ \A j \in Keys : j # k => effects'[j] = effects[j]
BY DEF Rows, TypeInv, TypeOK, StoreTypeOK

LEMMA HoldClaim ==
    ASSUME TypeInv, LedgerInv, HoldInv, NEW w \in Workers, claim(w)
    PROVE  HoldInv' /\ Promise!Next
<1> DEFINE e == exec[w]
<1>0. PICK k : k = KeyOf(e.cursor, e.board)
  OBVIOUS
<1> DEFINE f == [e EXCEPT !.pc = "begin", !.key = k, !.attempt = 1]
<1>1. /\ e \in Execution /\ HoldOK(e, effects, landed)
      /\ RowsOK(effects, landed)
  BY DEF TypeInv, TypeOK, HoldInv
<1>2. /\ e.cursor \in Nodes /\ e.board \in Boards /\ k # NoKey
      /\ Become(w, f) /\ claim_effect(k) /\ UNCHANGED landed
  BY <1>0, <1>1 DEF claim, Runnable, Visiting, Execution, worldVars
<1>3. k \in Keys
  BY <1>0, <1>2, RunnerAssumption
<1>4. f.pc = "begin" /\ f.key = k
  BY <1>1, <1>3 DEF Execution
<1> HIDE DEF e, f
<1>5. /\ effects[k].status = "free" /\ landed[k] = 0
      /\ effects' = [effects EXCEPT ![k] = Claimed] /\ Claimed.status = "claimed"
  BY <1>1, <1>2, <1>3 DEF claim_effect, RowsOK, Claimed
<1>6. /\ Rows' = [Rows EXCEPT ![k] = "claimed"] /\ effects'[k].status = "claimed"
      /\ \A j \in Keys : j # k => effects'[j] = effects[j]
  BY <1>3, <1>5, RowsOn
<1>7. RowsOK(effects', landed')
  BY <1>1, <1>2, <1>5, <1>6 DEF RowsOK
<1>8. HoldOK(f, effects', landed')
  BY <1>2, <1>4, <1>5, <1>6 DEF HoldOK, Holds
<1>9. \A u \in Workers : u # w /\ Holds(exec[u]) => exec[u].key # k
  BY <1>5 DEF HoldInv, HoldOK
<1>10. \A j \in Keys : j # k => effects'[j] = effects[j] /\ landed'[j] = landed[j]
  BY <1>2, <1>6
<1>11. HoldInv'
  BY <1>2, <1>3, <1>4, <1>6, <1>7, <1>8, <1>9, <1>10, HoldKey
<1>12. Promise!Attempt(k)
  <2>1. Rows[k] = "free"
    BY <1>3, <1>5 DEF Rows
  <2>2. QED
    BY <1>2, <1>6, <2>1 DEF Promise!Attempt, Rows
<1>13. QED
  BY <1>3, <1>11, <1>12 DEF Promise!Next

LEMMA HoldLand ==
    ASSUME TypeInv, LedgerInv, HoldInv, NEW w \in Workers, land(w)
    PROVE  HoldInv' /\ Promise!Next
<1> DEFINE e == exec[w]
<1>0. PICK k : k = e.key
  OBVIOUS
<1> DEFINE f == [e EXCEPT !.pc = "landed"]
<1> USE DEF At
<1>1. /\ e \in Execution /\ HoldOK(e, effects, landed)
      /\ RowsOK(effects, landed) /\ landed \in [Keys -> Nat]
  BY DEF TypeInv, TypeOK, HoldInv
<1>2. /\ e.pc = "acting" /\ k # NoKey /\ k \in Keys /\ Become(w, f)
      /\ UNCHANGED effects /\ landed' = [landed EXCEPT ![k] = @ + 1]
  BY <1>0, <1>1 DEF land, Execution, storeVars
<1>3. f.pc = "landed" /\ f.key = k
  BY <1>0, <1>1 DEF Execution
<1>4. Holds(e) /\ effects[k].status = "claimed" /\ landed[k] = 0
  BY <1>0, <1>1, <1>2 DEF Holds, HoldOK
<1>5. \A u \in Workers : u # w /\ Holds(exec[u]) => exec[u].key # k
  BY <1>0, <1>4 DEF HoldInv
<1> HIDE DEF e, f
<1>6. /\ landed' = [landed EXCEPT ![k] = 1] /\ landed'[k] = 1
      /\ \A j \in Keys : j # k => effects'[j] = effects[j] /\ landed'[j] = landed[j]
  BY <1>1, <1>2, <1>4
<1>7. RowsOK(effects', landed')
  BY <1>1, <1>2, <1>4, <1>6 DEF RowsOK
<1>8. HoldOK(f, effects', landed')
  BY <1>2, <1>3, <1>4, <1>6 DEF HoldOK, Holds
<1>9. effects'[k].status # "free"
  BY <1>2, <1>4
<1>10. HoldInv'
  <2>1. \A j \in Keys : j # k => effects'[j] = effects[j] /\ landed'[j] = landed[j]
    BY <1>6
  <2>2. k \in Keys /\ Become(w, f) /\ (Holds(f) => f.key = k)
    BY <1>2, <1>3
  <2>3. QED
    BY <1>5, <1>7, <1>8, <1>9, <2>1, <2>2, HoldKey
<1>11. Promise!Land(k)
  <2>1. Rows[k] = "claimed" /\ UNCHANGED Rows
    BY <1>2, <1>4 DEF Rows
  <2>2. QED
    BY <1>4, <1>6, <2>1 DEF Promise!Land, Rows
<1>12. QED
  BY <1>2, <1>10, <1>11 DEF Promise!Next

LEMMA HoldRecord ==
    ASSUME TypeInv, LedgerInv, HoldInv, NEW w \in Workers, record(w)
    PROVE  HoldInv' /\ Promise!Next
<1> DEFINE e == exec[w]
<1>0. PICK k, row : k = e.key /\ row = [status |-> "recorded", result |-> Json[e.output]]
  OBVIOUS
<1> DEFINE f == [e EXCEPT !.pc = "finish"]
<1> USE DEF At
<1>1. /\ e \in Execution /\ StepOK(e) /\ HoldOK(e, effects, landed)
      /\ RowsOK(effects, landed)
  BY DEF TypeInv, TypeOK, HoldInv
<1>2. /\ e.pc = "record" /\ k \in Keys /\ k # NoKey /\ Become(w, f) /\ UNCHANGED landed
      /\ effects' = [effects EXCEPT ![k] = row]
  BY <1>0, <1>1, RunnerAssumption DEF record, record_effect, StepOK, worldVars
<1>3. f.pc = "finish"
  BY <1>1 DEF Execution
<1>4. Holds(e) /\ effects[k].status = "claimed" /\ landed[k] = 1
  BY <1>0, <1>1, <1>2 DEF Holds, HoldOK
<1>5. \A u \in Workers : u # w /\ Holds(exec[u]) => exec[u].key # k
  BY <1>0, <1>4 DEF HoldInv
<1>6. row.status = "recorded"
  BY <1>0
<1> HIDE DEF e, f
<1>7. /\ Rows' = [Rows EXCEPT ![k] = "recorded"] /\ effects'[k].status = "recorded"
      /\ \A j \in Keys : j # k => effects'[j] = effects[j] /\ landed'[j] = landed[j]
  <2>1. /\ Rows' = [Rows EXCEPT ![k] = row.status] /\ effects'[k] = row
        /\ \A j \in Keys : j # k => effects'[j] = effects[j]
    BY <1>2, <1>6, RowsOn
  <2>2. QED
    BY <1>2, <1>6, <2>1
<1>8. RowsOK(effects', landed')
  BY <1>1, <1>2, <1>4, <1>7 DEF RowsOK
<1>9. HoldOK(f, effects', landed') /\ ~Holds(f)
  BY <1>3 DEF HoldOK, Holds
<1>10. HoldInv'
  BY <1>2, <1>5, <1>7, <1>8, <1>9, HoldKey
<1>11. Promise!Complete(k)
  <2>1. Rows[k] = "claimed"
    BY <1>2, <1>4 DEF Rows
  <2>2. QED
    BY <1>2, <1>4, <1>7, <2>1 DEF Promise!Complete, Rows
<1>12. QED
  BY <1>2, <1>10, <1>11 DEF Promise!Next

LEMMA HoldRelease ==
    ASSUME TypeInv, LedgerInv, HoldInv, NEW w \in Workers, release(w), exec[w].key # NoKey
    PROVE  HoldInv' /\ Promise!Next
<1> DEFINE e == exec[w]
<1>0. PICK k, row : k = e.key /\ row = [status |-> "free", result |-> Absent]
  OBVIOUS
<1> DEFINE f == [e EXCEPT !.pc = "finish"]
<1> USE DEF At
<1>1. /\ e \in Execution /\ HoldOK(e, effects, landed)
      /\ RowsOK(effects, landed)
  BY DEF TypeInv, TypeOK, HoldInv
<1>2. /\ e.pc = "release" /\ k \in Keys /\ k # NoKey /\ Become(w, f) /\ UNCHANGED landed
      /\ release_effect(k)
  BY <1>0, <1>1 DEF release, Execution, worldVars
<1>3. f.pc = "finish"
  BY <1>1 DEF Execution
<1>4. Holds(e) /\ effects[k].status = "claimed" /\ landed[k] = 0 /\ OneWorker
  BY <1>0, <1>1, <1>2 DEF Holds, HoldOK
<1>5. \A u \in Workers : u # w /\ Holds(exec[u]) => exec[u].key # k
  BY <1>4 DEF OneWorker
<1>6. row.status = "free" /\ effects' = [effects EXCEPT ![k] = row]
  BY <1>0, <1>2, <1>4 DEF release_effect
<1> HIDE DEF e, f
<1>7. /\ Rows' = [Rows EXCEPT ![k] = "free"] /\ effects'[k].status = "free"
      /\ \A j \in Keys : j # k => effects'[j] = effects[j] /\ landed'[j] = landed[j]
  <2>1. /\ Rows' = [Rows EXCEPT ![k] = row.status] /\ effects'[k] = row
        /\ \A j \in Keys : j # k => effects'[j] = effects[j]
    BY <1>2, <1>6, RowsOn
  <2>2. QED
    BY <1>2, <1>6, <2>1
<1>8. RowsOK(effects', landed')
  BY <1>1, <1>2, <1>4, <1>7 DEF RowsOK
<1>9. HoldOK(f, effects', landed') /\ ~Holds(f)
  BY <1>3 DEF HoldOK, Holds
<1>10. HoldInv'
  BY <1>2, <1>4, <1>5, <1>7, <1>8, <1>9, HoldKey
<1>11. Promise!GiveUp(k)
  <2>1. Rows[k] = "claimed"
    BY <1>2, <1>4 DEF Rows
  <2>2. QED
    BY <1>2, <1>4, <1>7, <2>1 DEF Promise!GiveUp, Rows
<1>12. QED
  BY <1>2, <1>10, <1>11 DEF Promise!Next

\* The other two: releasing without a key, and inserting, which never happens.
LEMMA HoldRest ==
    ASSUME TypeInv, HoldInv, NEW w \in Workers,
           insert(w) \/ (release(w) /\ exec[w].key = NoKey)
    PROVE  HoldInv' /\ UNCHANGED <<effects, landed>>
<1> USE DEF At
<1>1. exec[w] \in Execution /\ exec[w].pc # "insert"
  BY DEF TypeInv, TypeOK, HoldInv, HoldOK
<1>2. /\ Become(w, [exec[w] EXCEPT !.pc = "finish"])
      /\ UNCHANGED <<effects, landed>>
  BY <1>1 DEF insert, release, worldVars
<1>3. [exec[w] EXCEPT !.pc = "finish"].pc = "finish"
  BY <1>1 DEF Execution
<1>4. QED
  BY <1>2, <1>3, HoldNothing

----------------------------------------------------------------------------

LEMMA HoldInit == Init => HoldInv
<1> SUFFICES ASSUME Init PROVE HoldInv
  OBVIOUS
<1>1. \A w \in Workers : HoldOK(exec[w], effects, landed) /\ ~Holds(exec[w])
  BY DEF Init, Idle, HoldOK, Holds
<1>2. RowsOK(effects, landed)
  BY DEF Init, StoreInit, RowsOK
<1>3. QED
  BY <1>1, <1>2 DEF HoldInv

\* One step of the system is one of the promise, or leaves its state alone.
LEMMA HoldStep ==
    ASSUME Honest, Exclusive, TypeInv, LedgerInv, HoldInv, [Next]_vars
    PROVE  HoldInv' /\ (Promise!Next \/ UNCHANGED <<effects, landed>>)
<1>1. CASE UNCHANGED vars
  <2>1. UNCHANGED <<effects, landed, exec>>
    BY <1>1 DEF vars
  <2>2. HoldInv'
    BY <2>1 DEF HoldInv, RowsOK, HoldOK
  <2>3. QED
    BY <2>1, <2>2
<1>2. ASSUME NEW w \in Workers,
             \/ start(w) \/ (\E decided \in SUBSET Gates, v \in Value : resume(w, decided, v))
             \/ read_checkpoints(w) \/ replay_checkpoint(w) \/ pass_over(w) \/ complete(w)
             \/ replay_effect(w) \/ finish(w) \/ checkpoint(w)
             \/ compensate(w) \/ block_dependents(w) \/ stop(w) \/ crash(w)
      PROVE  HoldInv' /\ UNCHANGED <<effects, landed>>
  <2>1. HoldInv'
    BY <1>2, HoldElsewhere
  <2>2. UNCHANGED <<effects, landed>>
    BY <1>2 DEF start, resume, read_checkpoints, replay_checkpoint, pass_over, complete,
                replay_effect, finish, checkpoint, compensate, block_dependents, stop, crash,
                storeVars, worldVars
  <2>3. QED
    BY <2>1, <2>2
<1>3. ASSUME NEW w \in Workers,
             \/ enter_unkeyed(w) \/ lose_claim(w) \/ lookup(w) \/ start_attempt(w)
             \/ (\E v \in Value : succeed(w, v)) \/ raise(w) \/ ask_approval(w)
             \/ record_nothing(w)
      PROVE  HoldInv' /\ UNCHANGED <<effects, landed>>
  <2>1. HoldInv'
    BY <1>3, HoldAttempt
  <2>2. UNCHANGED <<effects, landed>>
    BY <1>3 DEF enter_unkeyed, lose_claim, claim_refused, lookup, start_attempt, succeed,
                raise, ask_approval, record_nothing, storeVars, worldVars
  <2>3. QED
    BY <2>1, <2>2
<1>4. ASSUME NEW w \in Workers,
             claim(w) \/ land(w) \/ record(w) \/ insert(w) \/ release(w)
      PROVE  HoldInv' /\ (Promise!Next \/ UNCHANGED <<effects, landed>>)
  BY <1>4, HoldClaim, HoldLand, HoldRecord, HoldRelease, HoldRest
<1>5. CASE Next
  <2>1. PICK w \in Workers :
            \/ start(w)
            \/ \E decided \in SUBSET Gates, v \in Value : resume(w, decided, v)
            \/ Execute(w)
            \/ crash(w)
    BY <1>5 DEF Next
  <2>2. QED
    BY <2>1, <1>2, <1>3, <1>4 DEF Execute
<1>6. QED
  BY <1>1, <1>5

LEMMA AlwaysHeld == ASSUME Honest, Exclusive PROVE Spec => []HoldInv
<1>1. TypeInv /\ LedgerInv /\ HoldInv /\ [Next]_vars => HoldInv'
  BY HoldStep
<1>2. QED
  BY <1>1, HoldInit, AlwaysTyped, AlwaysLedger, PTL DEF Spec

\* The effect of a key happens at most once, for every graph and every schedule
\* of starts, crashes and resumes, when keyed nodes raise only before they act
\* and a released claim cannot be missed by another worker's lookup.
THEOREM EffectsHappenOnce ==
    ASSUME Honest, Exclusive PROVE Spec => []AtMostOnce
<1>1. HoldInv => AtMostOnce
  BY DEF HoldInv, RowsOK, AtMostOnce
<1>2. QED
  BY <1>1, AlwaysHeld, PTL

\* Under the same two conditions an effect that happened is always known to the
\* ledger.
THEOREM EffectsAreKnown ==
    ASSUME Honest, Exclusive PROVE Spec => []LandedIsKnown
<1>1. HoldInv => LandedIsKnown
  BY DEF HoldInv, RowsOK, LandedIsKnown
<1>2. QED
  BY <1>1, AlwaysHeld, PTL

\* Under the same two conditions runner and ledger implement EffectPromise.
THEOREM RunnerKeepsPromise ==
    ASSUME Honest, Exclusive PROVE Spec => KeepsPromise
<1>1. Init => Promise!Init
  BY DEF Init, StoreInit, Promise!Init
<1>2. TypeInv /\ LedgerInv /\ HoldInv /\ [Next]_vars => [Promise!Next]_<<Rows, landed>>
  BY HoldStep DEF Rows
<1>3. QED
  BY <1>1, <1>2, AlwaysTyped, AlwaysLedger, AlwaysHeld, PTL
     DEF Spec, KeepsPromise, Promise!Spec, Rows
====
