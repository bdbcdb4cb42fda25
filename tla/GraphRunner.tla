---- MODULE GraphRunner ----
(***************************************************************************)
(* The graph runner (graph/runner.py): workers that start and resume ONE   *)
(* run against a shared store, and may die between any two statements.     *)
(*                                                                         *)
(* A worker's steps are the statements it sends to the store, the external *)
(* effect of a node, and the moments it reads; what it computes in memory  *)
(* between two of them is part of the neighbouring step.                   *)
(***************************************************************************)
EXTENDS GraphStore, FiniteSets

CONSTANTS
    Workers,        \* processes that may execute the run
    Deps,           \* depends_on
    Gates,          \* the HumanGate nodes
    Decision,       \* the slot "decision:<id>" of each gate
    Compensable,    \* nodes that declare `compensate`
    MaxAttempts,    \* retry.max_attempts
    Outcomes,       \* what a node's own code may do, besides dying
    Seed,           \* the blackboard start() is given
    KeyOf(_, _),    \* node.idempotency(state), NoKey when it declares none
    When(_, _),     \* node.when(state), TRUE when it declares none
    Published(_, _),\* the slots a node's output lands in: its own and `provides`
    NoKey,
    MaxLaunches     \* bound: how many times start and resume are called

\* "ok"        the action happened and returned
\* "declined"  it raised, and did not happen
\* "timeout"   it raised, although it had happened
\* "approval"  it raised HumanApprovalRequired before acting
Outcome == {"ok", "declined", "timeout", "approval"}

KeysOf == [n \in Nodes |-> {KeyOf(n, b) : b \in Boards} \ {NoKey}]

ASSUME RunnerAssumption ==
    /\ NoKey \notin Keys
    /\ Deps \in [Nodes -> SUBSET Nodes]
    /\ \A n \in Nodes : \A d \in Deps[n] : d < n    \* topological()
    /\ Gates \subseteq Nodes
    /\ Decision \in [Gates -> Slots]
    /\ Compensable \subseteq Nodes
    /\ MaxAttempts \in [Nodes -> Nat \ {0}]          \* RetryPolicy.__post_init__
    /\ Outcomes \in [Nodes -> SUBSET Outcome]
    /\ \A g \in Gates : Outcomes[g] \subseteq {"declined"}    \* its prompt may raise
    /\ Seed \in Boards
    /\ MaxLaunches \in Nat
    /\ \A n \in Nodes, b \in Boards : KeyOf(n, b) \in Keys \cup {NoKey}
    /\ \A n \in Nodes, b \in Boards : When(n, b) \in BOOLEAN
    /\ \A n \in Nodes, v \in Maybe :
         /\ Published(n, v) \subseteq Slots
         /\ Published(n, Json[v]) = Published(n, v)    \* a dict stays a dict

\* Graph._check_side_effects: compensate without idempotency is refused.
ASSUME SideEffectAssumption ==
    \A n \in Compensable, b \in Boards : KeyOf(n, b) # NoKey

VARIABLES
    exec,       \* what each worker holds in memory
    landed,     \* the outside world: how often the effect of a key happened
    undone,     \* the outside world: how often a node was compensated
    launches

worldVars == <<landed, undone>>
vars == <<runs, node_runs, effects, exec, landed, undone, launches>>

Steps == {"idle", "load", "visit", "lookup", "begin", "acting", "landed",
          "record", "insert", "finish", "checkpoint", "replay", "release", "settle"}

Execution == [
    pc      : Steps,
    cursor  : 1..(N + 1),                   \* the node being visited
    status  : [Nodes -> NodeStatus],        \* `status` of _execute
    cached  : [Nodes -> Maybe],             \* `checkpoints`, read once
    board   : Boards,                       \* `state`
    key     : Keys \cup {NoKey},
    attempt : Nat,
    output  : Maybe,
    verdict : {"done", "paused", "failed"}, \* what becomes of the node
    unwind  : 0..N ]                        \* compensation has nodes 1..unwind left

Idle == [pc |-> "idle", cursor |-> 1, status |-> [n \in Nodes |-> "pending"],
         cached |-> [n \in Nodes |-> Absent], board |-> Empty, key |-> NoKey,
         attempt |-> 0, output |-> Absent, verdict |-> "done", unwind |-> 0]

TypeOK ==
    /\ StoreTypeOK
    /\ exec \in [Workers -> Execution]
    /\ landed \in [Keys -> Nat]
    /\ undone \in [Nodes -> Nat]
    /\ launches \in 0..MaxLaunches

Init ==
    /\ StoreInit
    /\ exec = [w \in Workers |-> Idle]
    /\ landed = [k \in Keys |-> 0]
    /\ undone = [n \in Nodes |-> 0]
    /\ launches = 0

At(w, pc) == exec[w].pc = pc
Become(w, e) == exec' = [exec EXCEPT ![w] = e]

----------------------------------------------------------------------------
(* Entry points *)

Launch(w, board) ==
    /\ At(w, "idle")
    /\ launches < MaxLaunches
    /\ launches' = launches + 1
    /\ Become(w, [Idle EXCEPT !.pc = "load", !.board = board])

\* start(): also what a second start with the same run_id does.
start(w) ==
    /\ Launch(w, Seed)
    /\ save_run("running", Seed)
    /\ UNCHANGED <<node_runs, effects, worldVars>>

\* resume(): a run in any status, with decisions for some of the gates.
resume(w, decided, v) ==
    /\ runs.status # "none"
    /\ Launch(w, [s \in Slots |-> IF \E g \in decided : Decision[g] = s
                                  THEN v ELSE runs.board[s]])
    /\ UNCHANGED <<storeVars, worldVars>>

\* _execute's one read of the checkpoints.
read_checkpoints(w) ==
    /\ At(w, "load")
    /\ Become(w, [exec[w] EXCEPT
            !.pc = "visit",
            !.status = [n \in Nodes |-> IF node_runs[n].status = "none"
                                        THEN "pending" ELSE node_runs[n].status],
            !.cached = [n \in Nodes |-> node_runs[n].output]])
    /\ UNCHANGED <<storeVars, worldVars, launches>>

----------------------------------------------------------------------------
(* The loop of _execute *)

\* state.record_output, then _reinstate.
Publish(board, n, v) ==
    [s \in Slots |-> IF s \in Published(n, v) THEN v ELSE board[s]]

\* The execution e, with node e.cursor done and v its output.
Done(e, v) ==
    [e EXCEPT !.status[e.cursor] = "done", !.board = Publish(e.board, e.cursor, v)]

\* Every node starts from a clean slate of _run_node locals.
Advance(e) ==
    [e EXCEPT !.pc = "visit", !.cursor = e.cursor + 1, !.key = NoKey,
              !.attempt = 0, !.output = Absent, !.verdict = "done"]

Visiting(w) == At(w, "visit") /\ exec[w].cursor \in Nodes

BlockedBy(e) == {d \in Deps[e.cursor] : e.status[d] \in {"failed", "blocked"}}

\* Mutant: rule 1 forgotten, a finished node is entered again.
RunnableAgain(w) ==
    LET e == exec[w] IN
    /\ Visiting(w)
    /\ BlockedBy(e) = {}
    /\ When(e.cursor, e.board)

Runnable(w) ==
    LET e == exec[w] IN
    /\ Visiting(w)
    /\ e.status[e.cursor] # "done"
    /\ BlockedBy(e) = {}
    /\ When(e.cursor, e.board)

\* Mutant: the saved blackboard is trusted, _reinstate is not called.
replay_status_only(w) ==
    LET e == exec[w] IN
    /\ Visiting(w)
    /\ e.status[e.cursor] = "done"
    /\ Become(w, Advance(e))
    /\ UNCHANGED <<storeVars, worldVars, launches>>

\* Rule 1: a finished node is replayed from the checkpoint.
replay_checkpoint(w) ==
    LET e == exec[w] IN
    /\ Visiting(w)
    /\ e.status[e.cursor] = "done"
    /\ Become(w, Advance(Done(e, e.cached[e.cursor])))
    /\ UNCHANGED <<storeVars, worldVars, launches>>

\* Blocked by an upstream failure, or its guard is false.
pass_over(w) ==
    LET e == exec[w]
        verdict == IF BlockedBy(e) # {} THEN "blocked" ELSE "skipped"
    IN
    /\ Visiting(w)
    /\ e.status[e.cursor] # "done"
    /\ BlockedBy(e) # {} \/ ~When(e.cursor, e.board)
    /\ finish_node(e.cursor, verdict, Absent)
    /\ Become(w, Advance([e EXCEPT !.status[e.cursor] = verdict]))
    /\ UNCHANGED <<runs, effects, worldVars, launches>>

\* The graph is exhausted.
complete(w) ==
    LET e == exec[w] IN
    /\ At(w, "visit")
    /\ e.cursor = N + 1
    /\ save_run(IF \A n \in Nodes : e.status[n] \in {"done", "skipped"}
                THEN "completed" ELSE "failed", e.board)
    /\ Become(w, Idle)
    /\ UNCHANGED <<node_runs, effects, worldVars, launches>>

----------------------------------------------------------------------------
(* _run_node: claim the key, then act *)

\* No idempotency key: nothing to protect.
enter_unkeyed(w) ==
    LET e == exec[w] IN
    /\ Runnable(w)
    /\ KeyOf(e.cursor, e.board) = NoKey
    /\ Become(w, [e EXCEPT !.pc = "begin", !.attempt = 1])
    /\ UNCHANGED <<storeVars, worldVars, launches>>

\* Rule 2: the INSERT is admitted, the claim is ours.
claim(w) ==
    LET e == exec[w]
        k == KeyOf(e.cursor, e.board)
    IN
    /\ Runnable(w)
    /\ k # NoKey
    /\ claim_effect(k)
    /\ Become(w, [e EXCEPT !.pc = "begin", !.key = k, !.attempt = 1])
    /\ UNCHANGED <<runs, node_runs, worldVars, launches>>

\* The INSERT is refused; the row is read by the next statement.
lose_claim(w) ==
    LET e == exec[w]
        k == KeyOf(e.cursor, e.board)
    IN
    /\ Runnable(w)
    /\ k # NoKey
    /\ claim_refused(k)
    /\ Become(w, [e EXCEPT !.pc = "lookup", !.key = k])
    /\ UNCHANGED <<runs, node_runs, worldVars, launches>>

\* Mutant: only a recorded row stops the action.
lookup_recorded_only(w) ==
    LET e == exec[w]
        row == effects[e.key]
    IN
    /\ At(w, "lookup")
    /\ Become(w, IF row.status = "recorded"
                 THEN [e EXCEPT !.pc = "replay", !.output = row.result]
                 ELSE [e EXCEPT !.pc = "begin", !.attempt = 1])
    /\ UNCHANGED <<storeVars, worldVars, launches>>

\* get_effect after the refused INSERT.  A row released in the meantime reads
\* as None, which _run_node takes for "the claim is ours".
lookup(w) ==
    LET e == exec[w]
        row == effects[e.key]
    IN
    /\ At(w, "lookup")
    /\ Become(w, CASE row.status = "recorded" ->
                        [e EXCEPT !.pc = "replay", !.output = row.result]
                   [] row.status = "claimed" ->
                        [e EXCEPT !.pc = "finish", !.verdict = "failed"]
                   [] row.status = "free" ->
                        [e EXCEPT !.pc = "begin", !.attempt = 1])
    /\ UNCHANGED <<storeVars, worldVars, launches>>

\* Replayed from the ledger; the run row is not saved here.
replay_effect(w) ==
    LET e == exec[w] IN
    /\ At(w, "replay")
    /\ finish_node(e.cursor, "done", e.output)
    /\ Become(w, Advance(Done(e, e.output)))
    /\ UNCHANGED <<runs, effects, worldVars, launches>>

\* Rule 3: "started" is written before the work.
start_attempt(w) ==
    LET e == exec[w] IN
    /\ At(w, "begin")
    /\ start_node(e.cursor)
    /\ Become(w, [e EXCEPT !.pc = "acting"])
    /\ UNCHANGED <<runs, effects, worldVars, launches>>

----------------------------------------------------------------------------
(* node.execute: the node's own code *)

\* What HumanGate.execute raises, or a step that asks before it acts.
AsksApproval(e) ==
    IF e.cursor \in Gates THEN e.board[Decision[e.cursor]] = Absent
                          ELSE "approval" \in Outcomes[e.cursor]

\* A gate answers with the decision, a step with any value.
Returns(e) ==
    IF e.cursor \in Gates THEN {e.board[Decision[e.cursor]]} \ {Absent}
    ELSE IF "ok" \in Outcomes[e.cursor] THEN Value ELSE {}

\* Its own code gets as far as the effect: a gate only with its decision.
Acts(e) ==
    IF e.cursor \in Gates THEN ~AsksApproval(e)
                          ELSE Outcomes[e.cursor] \cap {"ok", "timeout"} # {}

\* The external effect of a keyed node happens.
land(w) ==
    LET e == exec[w] IN
    /\ At(w, "acting")
    /\ e.key # NoKey
    /\ Acts(e)
    /\ landed' = [landed EXCEPT ![e.key] = @ + 1]
    /\ Become(w, [e EXCEPT !.pc = "landed"])
    /\ UNCHANGED <<storeVars, undone, launches>>

\* Mutant: the result goes to the checkpoint, and not to the ledger.
succeed_unrecorded(w, v) ==
    LET e == exec[w] IN
    /\ At(w, IF e.key = NoKey THEN "acting" ELSE "landed")
    /\ v \in Returns(e)
    /\ Become(w, [e EXCEPT !.pc = "finish", !.output = v])
    /\ UNCHANGED <<storeVars, worldVars, launches>>

\* It returns.
succeed(w, v) ==
    LET e == exec[w] IN
    /\ At(w, IF e.key = NoKey THEN "acting" ELSE "landed")
    /\ v \in Returns(e)
    /\ Become(w, [e EXCEPT !.pc = IF e.key = NoKey THEN "finish" ELSE "record",
                           !.output = v])
    /\ UNCHANGED <<storeVars, worldVars, launches>>

\* Mutant: the attempts are not counted.
raise_forever(w) ==
    LET e == exec[w]
        n == e.cursor
    IN
    /\ \/ At(w, "acting") /\ "declined" \in Outcomes[n] /\ (n \in Gates => AsksApproval(e))
       \/ At(w, "landed") /\ "timeout" \in Outcomes[n]
    /\ Become(w, IF e.attempt < MaxAttempts[n]
                 THEN [e EXCEPT !.pc = "begin"]
                 ELSE [e EXCEPT !.pc = "release", !.verdict = "failed"])
    /\ UNCHANGED <<storeVars, worldVars, launches>>

\* It raises: try again, or give up.
raise(w) ==
    LET e == exec[w]
        n == e.cursor
    IN
    /\ \/ At(w, "acting") /\ "declined" \in Outcomes[n] /\ (n \in Gates => AsksApproval(e))
       \/ At(w, "landed") /\ "timeout" \in Outcomes[n]
    /\ Become(w, IF e.attempt < MaxAttempts[n]
                 THEN [e EXCEPT !.pc = "begin", !.attempt = @ + 1]
                 ELSE [e EXCEPT !.pc = "release", !.verdict = "failed"])
    /\ UNCHANGED <<storeVars, worldVars, launches>>

\* Mutant: a pause keeps its claim.
ask_holding_claim(w) ==
    LET e == exec[w] IN
    /\ At(w, "acting")
    /\ AsksApproval(e)
    /\ Become(w, [e EXCEPT !.pc = "finish", !.verdict = "paused"])
    /\ UNCHANGED <<storeVars, worldVars, launches>>

\* It raises HumanApprovalRequired, before the effect fires.
ask_approval(w) ==
    LET e == exec[w] IN
    /\ At(w, "acting")
    /\ AsksApproval(e)
    /\ Become(w, [e EXCEPT !.pc = "release", !.verdict = "paused"])
    /\ UNCHANGED <<storeVars, worldVars, launches>>

----------------------------------------------------------------------------
(* _run_node: what follows the action *)

record(w) ==
    LET e == exec[w] IN
    /\ At(w, "record")
    /\ record_effect(e.key, e.output)
    /\ Become(w, [e EXCEPT !.pc = "finish"])
    /\ UNCHANGED <<runs, node_runs, worldVars, launches>>

\* The UPDATE touched no row; record_effect goes on to its INSERT.
record_nothing(w) ==
    LET e == exec[w] IN
    /\ At(w, "record")
    /\ effects[e.key].status # "claimed"
    /\ Become(w, [e EXCEPT !.pc = "insert"])
    /\ UNCHANGED <<storeVars, worldVars, launches>>

insert(w) ==
    LET e == exec[w] IN
    /\ At(w, "insert")
    /\ record_insert(e.key, e.output)
    /\ Become(w, [e EXCEPT !.pc = "finish"])
    /\ UNCHANGED <<runs, node_runs, worldVars, launches>>

\* The claim is given up by a reported failure and by a pause.
release(w) ==
    LET e == exec[w] IN
    /\ At(w, "release")
    /\ IF e.key = NoKey THEN UNCHANGED effects ELSE release_effect(e.key)
    /\ Become(w, [e EXCEPT !.pc = "finish"])
    /\ UNCHANGED <<runs, node_runs, worldVars, launches>>

\* Mutant: the failure is noted and the loop goes on.
finish_and_carry_on(w) ==
    LET e == exec[w] IN
    /\ At(w, "finish")
    /\ finish_node(e.cursor, e.verdict, e.output)
    /\ Become(w, IF e.verdict = "done"
                 THEN [Done(e, e.output) EXCEPT !.pc = "checkpoint"]
                 ELSE Advance([e EXCEPT !.status[e.cursor] = e.verdict]))
    /\ UNCHANGED <<runs, effects, worldVars, launches>>

\* finish_node with the verdict.  A failure goes on to unwind the graph.
finish(w) ==
    LET e == exec[w] IN
    /\ At(w, "finish")
    /\ finish_node(e.cursor, e.verdict, e.output)
    /\ Become(w, IF e.verdict = "done"
                 THEN [Done(e, e.output) EXCEPT !.pc = "checkpoint"]
                 ELSE [e EXCEPT !.pc = "settle", !.status[e.cursor] = e.verdict,
                                !.unwind = IF e.verdict = "failed" THEN N ELSE 0])
    /\ UNCHANGED <<runs, effects, worldVars, launches>>

\* Mutant: the run gets the status of its node.
checkpoint_done(w) ==
    LET e == exec[w] IN
    /\ At(w, "checkpoint")
    /\ save_run(e.status[e.cursor], e.board)
    /\ Become(w, Advance(e))
    /\ UNCHANGED <<node_runs, effects, worldVars, launches>>

checkpoint(w) ==
    LET e == exec[w] IN
    /\ At(w, "checkpoint")
    /\ save_run("running", e.board)
    /\ Become(w, Advance(e))
    /\ UNCHANGED <<node_runs, effects, worldVars, launches>>

----------------------------------------------------------------------------
(* After a failure or a pause *)

\* Mutant: everything that was begun is undone.
ToUndoBegun(e) == {n \in Compensable : n <= e.unwind /\ e.status[n] # "pending"}

\* _compensate: done nodes with a `compensate`, newest first.
ToUndo(e) == {n \in Compensable : n <= e.unwind /\ e.status[n] = "done"}

\* Best effort: an undo that raises is logged and passed over.
compensate(w) ==
    LET e == exec[w] IN
    /\ At(w, "settle")
    /\ \E n \in ToUndo(e) :
        /\ \A m \in ToUndo(e) : m <= n
        /\ undone' \in {undone, [undone EXCEPT ![n] = @ + 1]}
        /\ Become(w, [e EXCEPT !.unwind = n - 1])
    /\ UNCHANGED <<storeVars, landed, launches>>

\* The failed node and everything that depends on it, however far.
Downstream(failed) ==
    LET hit[n \in Nodes] == n = failed \/ \E d \in Deps[n] : hit[d]
    IN  {n \in Nodes : hit[n]}

ToBlock(e) ==
    {n \in Downstream(e.cursor) \ {e.cursor} :
        e.verdict = "failed" /\ e.status[n] = "pending"}

\* _block_dependents, in topological order.
block_dependents(w) ==
    LET e == exec[w] IN
    /\ At(w, "settle")
    /\ ToUndo(e) = {}
    /\ \E n \in ToBlock(e) :
        /\ \A m \in ToBlock(e) : n <= m
        /\ finish_node(n, "blocked", Absent)
        /\ Become(w, [e EXCEPT !.status[n] = "blocked"])
    /\ UNCHANGED <<runs, effects, worldVars, launches>>

\* The run stops here, paused or failed.
stop(w) ==
    LET e == exec[w] IN
    /\ At(w, "settle")
    /\ ToUndo(e) = {}
    /\ ToBlock(e) = {}
    /\ save_run(e.verdict, e.board)
    /\ Become(w, Idle)
    /\ UNCHANGED <<node_runs, effects, worldVars, launches>>

----------------------------------------------------------------------------
\* Mutant: a dying process gives its claim up.
crash_releasing(w) ==
    LET k == exec[w].key IN
    /\ ~At(w, "idle")
    /\ IF k = NoKey THEN UNCHANGED effects ELSE release_effect(k)
    /\ Become(w, Idle)
    /\ UNCHANGED <<runs, node_runs, worldVars, launches>>

\* A killed process, or an exception nothing catches: memory is gone, the
\* store and the outside world are as they were.
crash(w) ==
    /\ ~At(w, "idle")
    /\ Become(w, Idle)
    /\ UNCHANGED <<storeVars, worldVars, launches>>

Execute(w) ==
    \/ read_checkpoints(w)
    \/ replay_checkpoint(w) \/ pass_over(w) \/ complete(w)
    \/ enter_unkeyed(w) \/ claim(w) \/ lose_claim(w) \/ lookup(w)
    \/ replay_effect(w) \/ start_attempt(w)
    \/ land(w) \/ (\E v \in Value : succeed(w, v)) \/ raise(w) \/ ask_approval(w)
    \/ record(w) \/ record_nothing(w) \/ insert(w)
    \/ release(w) \/ finish(w) \/ checkpoint(w)
    \/ compensate(w) \/ block_dependents(w) \/ stop(w)

Next ==
    \E w \in Workers :
        \/ start(w)
        \/ \E decided \in SUBSET Gates, v \in Value : resume(w, decided, v)
        \/ Execute(w)
        \/ crash(w)

Spec == Init /\ [][Next]_vars

\* A live process keeps executing; nobody is obliged to start or resume one,
\* and nothing obliges a process to die.
FairSpec == Spec /\ \A w \in Workers : WF_vars(Execute(w))

----------------------------------------------------------------------------
(* What the runner and its ledger promise *)

\* Nodes whose idempotency function always answers with a key.
AlwaysKeyed == {n \in Nodes : \A b \in Boards : KeyOf(n, b) # NoKey}

Executing(w) == ~At(w, "idle") /\ ~At(w, "load")

\* The effect of a key happens at most once, however often the run is started,
\* killed and resumed (_run_node 176-208; ADR 0003).
AtMostOnce == \A k \in Keys : landed[k] <= 1

\* An effect that happened is never forgotten: its row is claimed or recorded,
\* so that every later attempt meets it (claim_effect, release_effect).
LandedIsKnown == \A k \in Keys : landed[k] > 0 => effects[k].status # "free"

\* The ledger records only what happened: a replay never stands in for an
\* effect that did not (record_effect, and the replay in _run_node 180-188).
RecordedLanded == \A k \in Keys : effects[k].status = "recorded" => landed[k] > 0

\* The rows of the ledger and the outside world, as the promise sees them.
Promise == INSTANCE EffectPromise WITH row <- [k \in Keys |-> effects[k].status]

\* Runner and ledger keep the promise of EffectPromise: they claim before they
\* act, act once, give up only what did not happen, and forget nothing.
KeepsPromise == Promise!Spec

\* A recorded effect and its result are never changed or lost (the
\* status='claimed' conditions of record_effect and release_effect).
RecordedForever ==
    [][\A k \in Keys : effects[k].status = "recorded" => effects'[k] = effects[k]]_effects

\* Wherever an execution has got to, all it has left behind is done or skipped.
\* So a node acts only on finished dependencies, and the "blocked" branch and
\* the terminal "failed" of _execute (129-136, 160-162) are never taken.
PrefixSettled ==
    \A w \in Workers : Executing(w) =>
        \A n \in 1..(exec[w].cursor - 1) : exec[w].status[n] \in {"done", "skipped"}

\* Only a node whose effect happened is ever compensated (_compensate).
UndoneLanded ==
    \A n \in AlwaysKeyed : undone[n] > 0 => \E k \in KeysOf[n] : landed[k] > 0

\* The checkpoint and the ledger agree: a finished node with a key stands on a
\* recorded effect, and its checkpoint holds that effect's result (_run_node
\* 253-259, one worker).
DoneIsBacked ==
    \A n \in AlwaysKeyed : node_runs[n].status = "done" =>
        \E k \in KeysOf[n] :
            effects[k] = [status |-> "recorded", result |-> node_runs[n].output]

\* Rule 1: a finished node is never run again, and its checkpoint is never
\* touched, by whatever comes after (one worker).
DoneStaysDone ==
    [][\A n \in Nodes :
        node_runs[n].status = "done" => node_runs'[n] = node_runs[n]]_node_runs

\* Paused is not failed: a run that stops to ask leaves its key free, so that
\* the resumed run does not refuse its own work (_run_node 217-229, one worker).
PausedHoldsNoClaim ==
    \A w \in Workers :
        /\ At(w, "settle")
        /\ exec[w].verdict = "paused"
        /\ exec[w].key # NoKey
        => effects[exec[w].key].status = "free"

\* The last node that execution e has published.
Behind(e) == IF e.pc = "checkpoint" THEN e.cursor ELSE e.cursor - 1

\* Slots that some node after m, up to the last, may have published since.
Overwritten(m, last) == UNION {Published(l, v) : l \in (m + 1)..last, v \in Maybe}

\* A resumed run sees the state the original one did: for every finished node
\* behind the cursor, the slots it publishes hold a value that its checkpoint
\* encodes, even when it died before save_run (_reinstate, one worker).
Rebuilt(e, rows) ==
    \A m \in 1..Behind(e) :
        /\ e.status[m] = "done"
        /\ rows[m].status # "none"
        => \A x \in Published(m, rows[m].output) \ Overwritten(m, Behind(e)) :
             Json[e.board[x]] = rows[m].output

ReplayRebuilds == \A w \in Workers : Executing(w) => Rebuilt(exec[w], node_runs)

\* Every execution comes to an end: retries, compensation and blocking are
\* bounded, and no worker waits for another (FairSpec).
ExecutionsReturn == \A w \in Workers : ~At(w, "idle") ~> At(w, "idle")

\* An effect is undone at most as often as it happened (graph.py 102-114).
UndoneOncePerLanding ==
    \A n \in Nodes : \A k \in KeysOf[n] : undone[n] <= landed[k]
====
