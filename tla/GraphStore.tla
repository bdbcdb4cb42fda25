---- MODULE GraphStore ----
(***************************************************************************)
(* The durable store of one graph run (graph/store.py).  Every operator    *)
(* below is ONE autocommitted SQL statement: connections are opened with   *)
(* isolation_level=None, so nothing makes two statements atomic.           *)
(* Rows that do not exist are written down as a status of their own:       *)
(* "none" for runs and node_runs, "free" for effects.                      *)
(***************************************************************************)
EXTENDS Naturals

CONSTANTS
    N,          \* how many nodes the graph has
    Keys,       \* idempotency keys, within this run_id
    Slots,      \* names on the blackboard: data keys and recorded outputs
    Value,      \* what a node returns and the blackboard holds
    Absent,     \* Python's None / a key that is not in the dict
    Json        \* json.loads(json.dumps(v, default=str))

Nodes == 1..N   \* a node IS its position in graph.topological()

Maybe  == Value \cup {Absent}
Boards == [Slots -> Maybe]

\* A value read back from the database is a fixed point of the encoding, and
\* None stays None.  It need not be the value that was written.
ASSUME StoreAssumption ==
    /\ N \in Nat \ {0}
    /\ Absent \notin Value
    /\ Json \in [Maybe -> Maybe]
    /\ Json[Absent] = Absent
    /\ \A v \in Value : Json[v] \in Value /\ Json[Json[v]] = Json[v]

VARIABLES
    runs,       \* the row of this run
    node_runs,  \* one checkpoint row per node
    effects     \* the idempotency ledger

storeVars == <<runs, node_runs, effects>>

RunStatus    == {"running", "completed", "paused", "failed"}
NodeStatus   == {"pending", "running", "done", "failed", "skipped", "blocked", "paused"}
EffectStatus == {"free", "claimed", "recorded"}

StoreTypeOK ==
    /\ runs \in [status : RunStatus \cup {"none"}, board : Boards]
    /\ node_runs \in [Nodes -> [status : NodeStatus \cup {"none"}, output : Maybe]]
    /\ effects \in [Keys -> [status : EffectStatus, result : Maybe]]

Empty == [s \in Slots |-> Absent]

StoreInit ==
    /\ runs = [status |-> "none", board |-> Empty]
    /\ node_runs = [n \in Nodes |-> [status |-> "none", output |-> Absent]]
    /\ effects = [k \in Keys |-> [status |-> "free", result |-> Absent]]

----------------------------------------------------------------------------
(* runs *)

save_run(status, board) ==
    runs' = [status |-> status, board |-> [s \in Slots |-> Json[board[s]]]]

----------------------------------------------------------------------------
(* node_runs *)

\* INSERT ... ON CONFLICT DO UPDATE: the old output survives in the row.
start_node(n) == node_runs' = [node_runs EXCEPT ![n].status = "running"]

\* An UPDATE: a node that was never started has no row, and gets none.
finish_node(n, status, output) ==
    node_runs' = IF node_runs[n].status = "none"
                 THEN node_runs
                 ELSE [node_runs EXCEPT ![n] = [status |-> status, output |-> Json[output]]]

----------------------------------------------------------------------------
(* effects *)

\* Mutant: the column default of __init__'s ALTER TABLE.
ClaimedByDefault == [status |-> "recorded", result |-> Absent]

Claimed == [status |-> "claimed", result |-> Absent]

\* Mutant: INSERT OR REPLACE.
claim_or_replace(k) == effects' = [effects EXCEPT ![k] = Claimed]

\* claim_effect's INSERT: the primary key admits it, or refuses it.
claim_effect(k) ==
    /\ effects[k].status = "free"
    /\ effects' = [effects EXCEPT ![k] = Claimed]

claim_refused(k) ==
    /\ effects[k].status # "free"
    /\ UNCHANGED effects

\* record_effect's UPDATE ... AND status='claimed', whoever took the claim.
record_effect(k, result) ==
    /\ effects[k].status = "claimed"
    /\ effects' = [effects EXCEPT ![k] = [status |-> "recorded", result |-> Json[result]]]

\* record_effect's second statement, when the UPDATE found no claimed row.
record_insert(k, result) ==
    effects' = IF effects[k].status = "free"
               THEN [effects EXCEPT ![k] = [status |-> "recorded", result |-> Json[result]]]
               ELSE effects

\* DELETE ... AND status='claimed', whoever took the claim.
release_effect(k) ==
    effects' = IF effects[k].status = "claimed"
               THEN [effects EXCEPT ![k] = [status |-> "free", result |-> Absent]]
               ELSE effects
====
