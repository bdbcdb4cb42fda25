---- MODULE GraphBuild ----
(***************************************************************************)
(* Authoring a graph (graph/graph.py): an application adds nodes, names    *)
(* what each depends on, requires and provides, and validates the graph    *)
(* before it is handed to the runner, which takes its order from           *)
(* `topological` (the order GraphStore and GraphRunner assume).            *)
(*                                                                         *)
(* A node's name is its rank among the names the author uses first, so     *)
(* that graphs which differ only by renaming are one.                      *)
(***************************************************************************)
EXTENDS Naturals, Sequences, FiniteSets, SequencesExt

CONSTANTS
    NodeNames,  \* 1..n: the rank of a name
    NodeShapes, \* [deps: Seq(NodeNames), requires, provides: SUBSET keys,
                \*  idempotency, compensate: BOOLEAN]
    Seeds       \* the keys present in the initial state

ASSUME BuildAssumption ==
    /\ NodeNames \subseteq Nat \ {0}
    /\ \A shape \in NodeShapes : shape.deps \in Seq(NodeNames)

VARIABLES
    nodes,      \* name -> node
    order,      \* names in insertion order
    verdict     \* what the last add or validate said

buildVars == <<nodes, order, verdict>>

DepsOf(n) == ToSet(nodes[n].deps)
UniqueDeps(n) == IsInjective(nodes[n].deps)

BuildInit == nodes = <<>> /\ order = <<>> /\ verdict = "open"

\* The author goes on to a new name, or repeats one.
add(n, node) ==
    /\ verdict = "open" /\ n <= Len(order) + 1
    /\ IF n \in DOMAIN nodes
       THEN verdict' = "duplicate" /\ UNCHANGED <<nodes, order>>
       ELSE /\ nodes' = Append(nodes, node)
            /\ order' = Append(order, n)
            /\ UNCHANGED verdict

----------------------------------------------------------------------------
(* The algorithms of the graph.                                             *)

\* Mutant: the worklist is not refilled with the keys of what it found.
ancestors_two_deep(n) == DepsOf(n) \cup UNION {DepsOf(m) : m \in DepsOf(n)}

\* _ancestors: a worklist that grows until nothing new is found.
ancestors(n) ==
    LET up[i \in Nat] ==
          IF i = 0 THEN DepsOf(n) ELSE up[i-1] \cup UNION {DepsOf(m) : m \in up[i-1]}
    IN  up[Cardinality(DOMAIN nodes)]

\* The nodes of S as they were added: by rank.
in_order(S) == CHOOSE s \in [1..Cardinality(S) -> S] : \A i, j \in DOMAIN s : i < j => s[i] < s[j]

\* Kahn's queue. A node waits for as many visits as `depends_on` is long, and
\* is visited once by each node it depends on.
queue == [indeg |-> [n \in DOMAIN nodes |-> Len(nodes[n].deps)],
          ready |-> in_order({n \in DOMAIN nodes : nodes[n].deps = <<>>}),
          out |-> <<>>]

visit(s) ==
    LET waiting == {o \in DOMAIN nodes : Head(s.ready) \in DepsOf(o)}
    IN  [indeg |-> [o \in DOMAIN nodes |-> IF o \in waiting THEN s.indeg[o] - 1 ELSE s.indeg[o]],
         ready |-> Tail(s.ready) \o in_order({o \in waiting : s.indeg[o] = 1}),
         out |-> Append(s.out, Head(s.ready))]

topological ==
    LET run[i \in Nat] == IF i = 0 THEN queue
                          ELSE IF run[i-1].ready = <<>> THEN run[i-1] ELSE visit(run[i-1])
    IN  run[Cardinality(DOMAIN nodes)].out

\* A node's layer is one more than the deepest it depends on.
depth ==
    LET topo == topological
        d[n \in Range(topo)] ==
          IF DepsOf(n) = {} THEN 0
          ELSE 1 + CHOOSE m \in {d[p] : p \in DepsOf(n)} :
                     \A p \in DepsOf(n) : d[p] <= m
    IN  d

----------------------------------------------------------------------------
(* validate: the first check that objects.                                  *)

dependencies_known == \A n \in DOMAIN nodes : DepsOf(n) \subseteq (DOMAIN nodes) \ {n}

\* The depth-first search meets a node of its own path.
cyclic == \E n \in DOMAIN nodes : n \in ancestors(n)

is_a_dag == Len(topological) = Len(order)

dataflow_met ==
    \A n \in DOMAIN nodes :
        nodes[n].requires \subseteq Seeds \cup UNION {nodes[m].provides : m \in ancestors(n)}

side_effects_coherent == \A n \in DOMAIN nodes : nodes[n].compensate => nodes[n].idempotency

validate ==
    /\ verdict = "open"
    /\ verdict' = IF ~dependencies_known THEN "dependencies"
                  ELSE IF cyclic THEN "cycle"
                  ELSE IF ~is_a_dag THEN "not a DAG"
                  ELSE IF ~dataflow_met THEN "dataflow"
                  ELSE IF ~side_effects_coherent THEN "side effects"
                  ELSE "valid"
    /\ UNCHANGED <<nodes, order>>

\* GraphRunner(graph, ...): from here on the graph is the runner's.
hand_over ==
    /\ verdict = "valid"
    /\ nodes' = <<>> /\ order' = <<>> /\ verdict' = "handed over"

BuildNext ==
    \/ \E n \in NodeNames, shape \in NodeShapes : add(n, shape)
    \/ validate
    \/ hand_over

----------------------------------------------------------------------------
(* What the verdict is about: the nodes above a node are the least set that  *)
(* has its dependencies and those of its members.                            *)

Above(n) ==
    LET Holds(S) == \A k \in S \cup {n} : DepsOf(k) \cap DOMAIN nodes \subseteq S
    IN  {m \in DOMAIN nodes : \A S \in SUBSET DOMAIN nodes : Holds(S) => m \in S}
Circular == \E n \in DOMAIN nodes : n \in Above(n)
Supplied(n) == Seeds \cup UNION {nodes[m].provides : m \in Above(n) \ {n}}

\* What `validate` lets through can run: its order visits every node once and
\* after all it depends on, every requirement is met by something earlier in
\* it, and no node of a layer has to wait for another of the same layer.
\* (graph.py: "every dependency is declared, so a missing input is a
\* build-time error"; layers: "Everything in one layer could run in parallel".)
ValidIsRunnable ==
    verdict = "valid" =>
        LET topo == topological
            Before(i) == {topo[j] : j \in 1..(i-1)}
        IN  /\ Range(topo) = DOMAIN nodes /\ Len(topo) = Cardinality(DOMAIN nodes)
            /\ \A i \in DOMAIN topo :
                 /\ DepsOf(topo[i]) \subseteq Before(i)
                 /\ nodes[topo[i]].requires
                      \subseteq Seeds \cup UNION {nodes[m].provides : m \in Before(i)}
            /\ \A m, n \in DOMAIN nodes : m # n /\ depth[m] = depth[n] => m \notin Above(n)

\* `validate` refuses only what is wrong, and says what is wrong: a graph is
\* called circular only if it is, and starved only if no node upstream provides
\* the key. The one exception is a dependency written twice, which is not a
\* cycle and is refused as one (`indeg` counts it twice, a visit once).
OnlyDefectsRefused ==
    /\ verdict = "dependencies" => \E n \in DOMAIN nodes : DepsOf(n) \ (DOMAIN nodes \ {n}) # {}
    /\ verdict = "cycle" => Circular
    /\ verdict = "not a DAG" => ~Circular /\ \E n \in DOMAIN nodes : ~UniqueDeps(n)
    /\ verdict = "dataflow" => \E n \in DOMAIN nodes : ~(nodes[n].requires \subseteq Supplied(n))
    /\ verdict = "side effects" =>
         \E n \in DOMAIN nodes : nodes[n].compensate /\ ~nodes[n].idempotency

\* The verdict of `validate` is right both ways.
VerdictIsRight == ValidIsRunnable /\ OnlyDefectsRefused
====
