---- MODULE Fanout ----
(***************************************************************************)
(* A MapNode (graph/nodes.py) over a few items: its children run one after *)
(* the other, or on the threads of a ThreadPoolExecutor, and each makes    *)
(* one model call through the harness they share. The governor and the     *)
(* run's ledger have no lock. A thread can lose the processor where Python *)
(* calls a function: around the model call, inside `self.usage + usage`    *)
(* and inside the construction of a TraceEvent, but not within `+=`.       *)
(***************************************************************************)
EXTENDS Naturals, Sequences, FiniteSets, SequencesExt

CONSTANTS
    Items,      \* 1..n, in input order
    Widths,     \* values of `parallel`
    Cap,        \* governor.max_usd
    Prices      \* what a call may cost; its tokens are as many

\* A map is over a list, of any length; a call costs something or nothing.
ASSUME FanoutAssumption ==
    /\ IsFiniteSet(Items) /\ Items = 1..Cardinality(Items)
    /\ Widths \subseteq Nat /\ Cap \in Nat /\ IsFiniteSet(Prices) /\ Prices \subseteq Nat
    /\ \E price \in Prices : price > 0

VARIABLES
    parallel,   \* the node's `parallel`, 0 while no MapNode executes
    child,      \* item -> [pc, cost, read]: its thread, and what it has read
    answers,    \* what `pool.map` has yielded
    mapped,     \* "idle", "running", "returned", "raised"
    spent,      \* governor.spent_usd
    usage,      \* governor.usage
    events      \* the ledger: the `seq` of each event, in the order appended

fanoutVars == <<parallel, child, answers, mapped, spent, usage, events>>

Resting == {"queued", "cancelled", "done", "raised"}
Active == {i \in Items : child[i].pc \notin Resting}

FanoutInit ==
    /\ parallel = 0 /\ mapped = "idle" /\ answers = <<>>
    /\ child = [i \in Items |-> [pc |-> "queued", cost |-> 0, read |-> 0]]
    /\ spent = 0 /\ usage = 0 /\ events = <<>>

map_node(width) ==
    /\ mapped = "idle" /\ mapped' = "running" /\ parallel' = width
    /\ UNCHANGED <<child, answers, spent, usage, events>>

----------------------------------------------------------------------------
(* A child's call: governor.check, complete, governor.record, ledger.record *)

Moves(i, from, to) == child[i].pc = from /\ child' = [child EXCEPT ![i].pc = to]

\* The pool takes items in order; without a pool the caller takes the next one
\* when the one before it has returned.
start_child(i) ==
    /\ mapped = "running" /\ Moves(i, "queued", "check")
    /\ \A j \in Items : j < i => child[j].pc # "queued"
    /\ IF parallel <= 1 THEN \A j \in Items : j < i => child[j].pc = "done"
                        ELSE Cardinality(Active) < parallel
    /\ UNCHANGED <<parallel, answers, mapped, spent, usage, events>>

check(i) ==
    /\ Moves(i, "check", IF spent >= Cap THEN "raised" ELSE "calling")
    /\ UNCHANGED <<parallel, answers, mapped, spent, usage, events>>

call_raises(i) ==
    /\ Moves(i, "calling", "raised")
    /\ UNCHANGED <<parallel, answers, mapped, spent, usage, events>>

\* Mutant: `spent_usd = cost`.
record_spend_of_last(i, cost) ==
    /\ child[i].pc = "calling"
    /\ child' = [child EXCEPT ![i] = [pc |-> "adding", cost |-> cost, read |-> usage]]
    /\ spent' = cost
    /\ UNCHANGED <<parallel, answers, mapped, usage, events>>

\* record: `spent_usd += cost`, then `usage` is read and added to.
record_spend(i, cost) ==
    /\ child[i].pc = "calling"
    /\ child' = [child EXCEPT ![i] = [pc |-> "adding", cost |-> cost, read |-> usage]]
    /\ spent' = spent + cost
    /\ UNCHANGED <<parallel, answers, mapped, usage, events>>

record_usage(i) ==
    /\ Moves(i, "adding", "tracing")
    /\ usage' = child[i].read + child[i].cost
    /\ UNCHANGED <<parallel, answers, mapped, spent, events>>

\* RunLedger.record: `len(self.events)`, then the append.
number_event(i) ==
    /\ child[i].pc = "tracing"
    /\ child' = [child EXCEPT ![i] = [pc |-> "appending", cost |-> child[i].cost,
                                      read |-> Len(events)]]
    /\ UNCHANGED <<parallel, answers, mapped, spent, usage, events>>

append_event(i) ==
    /\ Moves(i, "appending", "done")
    /\ events' = Append(events, child[i].read)
    /\ UNCHANGED <<parallel, answers, mapped, spent, usage>>

----------------------------------------------------------------------------
(* The consumer of `pool.map`.                                              *)

\* Mutant: as_completed instead of map.
consume_finished ==
    /\ mapped = "running"
    /\ \E i \in Items \ ToSet(answers) :
         \/ child[i].pc = "done" /\ answers' = Append(answers, i) /\ UNCHANGED mapped
         \/ child[i].pc = "raised" /\ mapped' = "leaving" /\ UNCHANGED answers
    /\ UNCHANGED <<parallel, child, spent, usage, events>>

\* The next answer in input order; or the exception of that item, on which the
\* items not yet started are cancelled.
consume ==
    LET i == Len(answers) + 1
    IN  /\ mapped = "running" /\ i \in Items
        /\ \/ /\ child[i].pc = "done"
              /\ answers' = Append(answers, i)
              /\ UNCHANGED <<child, mapped>>
           \/ /\ child[i].pc = "raised"
              /\ child' = [j \in Items |-> IF child[j].pc = "queued"
                                           THEN [child[j] EXCEPT !.pc = "cancelled"]
                                           ELSE child[j]]
              /\ mapped' = "leaving"
              /\ UNCHANGED answers
        /\ UNCHANGED <<parallel, spent, usage, events>>

\* Mutant: an exception leaves the queue waiting for items that were cancelled.
leave_pool_whole ==
    /\ Active = {} /\ Len(answers) = Cardinality(Items)
    /\ mapped = "running" /\ mapped' = "returned"
    /\ UNCHANGED <<parallel, child, answers, spent, usage, events>>

\* Leaving `with ThreadPoolExecutor` waits for the threads.
leave_pool ==
    /\ Active = {}
    /\ \/ mapped = "leaving" /\ mapped' = "raised"
       \/ mapped = "running" /\ Len(answers) = Cardinality(Items) /\ mapped' = "returned"
    /\ UNCHANGED <<parallel, child, answers, spent, usage, events>>

ChildStep(i) ==
    \/ start_child(i) \/ check(i) \/ call_raises(i)
    \/ \E cost \in Prices : record_spend(i, cost)
    \/ record_usage(i) \/ number_event(i) \/ append_event(i)

FanoutStep == (\E i \in Items : ChildStep(i)) \/ consume \/ leave_pool

FanoutNext == (\E w \in Widths : map_node(w)) \/ FanoutStep

----------------------------------------------------------------------------
Charged == {i \in Items : child[i].cost # 0}
Added   == {i \in Charged : child[i].pc # "adding"}
Billed(S) == FoldSet(LAMBDA i, sum : child[i].cost + sum, 0, S)

\* Whatever order the threads finish in, a MapNode that returns has the answer
\* of every item in input order, one that raises has none running behind it,
\* and it raises exactly if a child did (nodes.py: "One child result per item,
\* in input order"; ReduceNode and the checkpoint read nothing else).
MapIsFaithful ==
    /\ mapped = "returned" => answers = [i \in 1..Cardinality(Items) |-> i]
    /\ mapped \in {"returned", "raised"} =>
         /\ Active = {}
         /\ mapped = "raised" <=> \E i \in Items : child[i].pc = "raised"

\* Without a lock the money is exact, for `spent_usd += cost` is not divided; a
\* race can only lose tokens, never invent them, and may give two events one
\* number, but loses no event; alone, nothing is lost. No run is overdrawn by
\* more than one call per thread.
\* (governor.py: record; trace.py: "An append-only record of one agent run".)
AccountsExact ==
    /\ spent = Billed(Charged)
    /\ usage <= Billed(Added)
    /\ parallel <= 1 => usage = Billed(Added)
    /\ Len(events) = Cardinality({i \in Items : child[i].pc = "done"})
    /\ \A k \in DOMAIN events : events[k] < k /\ (parallel <= 1 => events[k] = k - 1)
    /\ spent < Cap + (IF parallel <= 1 THEN 1 ELSE parallel) * Max(Prices)

\* Every MapNode returns or raises, however its children end.
\* (Each child's call returns or raises; the pool waits for nothing else.)
MapEnds == (mapped = "running") ~> (mapped \in {"returned", "raised"})
====
