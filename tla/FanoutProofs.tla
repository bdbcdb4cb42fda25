---- MODULE FanoutProofs ----
(***************************************************************************)
(* Theorems about a MapNode (Fanout) of any number of items and threads:   *)
(* it is faithful to its children, and the accounts they share without a   *)
(* lock are exact where the code makes them so, and bounded elsewhere.     *)
(***************************************************************************)
EXTENDS ApplicationProofs

----------------------------------------------------------------------------
(* A parallel map.                                                          *)

FanoutShape ==
    /\ child = [i \in Items |-> [pc |-> child[i].pc, cost |-> child[i].cost,
                                 read |-> child[i].read]]
    /\ answers \in Seq(Nat) /\ Len(answers) <= Cardinality(Items)

\* What was yielded is the done children so far, in order; a pool that is left for an
\* exception has one; a pool that has been left has no thread.
FanoutInv ==
    /\ FanoutShape
    /\ \A i \in 1..Len(answers) : answers[i] = i /\ child[i].pc = "done"
    /\ mapped = "returned" => Len(answers) = Cardinality(Items)
    /\ mapped \in {"leaving", "raised"} => \E i \in Items : child[i].pc = "raised"
    /\ mapped \in {"returned", "raised"} => Active = {}

\* The items can be counted.
LEMMA ItemCount == Cardinality(Items) \in Nat
  BY FanoutAssumption, FS_CardinalityType

\* A child that moves on was not at rest, so that no pool has been left; the others
\* stay, and what was done or raised is.
LEMMA ChildMoves ==
  ASSUME FanoutInv, NEW i \in Items, NEW p, NEW c, NEW r,
         child' = [child EXCEPT ![i] = [pc |-> p, cost |-> c, read |-> r]],
         child[i].pc \notin {"done", "raised"},
         child[i].pc \notin Resting \/ mapped = "running",
         UNCHANGED <<answers, mapped>>
  PROVE  FanoutInv'
<1>1. \A j \in Items : j # i => child'[j] = child[j]
  BY DEF FanoutInv, FanoutShape
<1>2. child'[i] = [pc |-> p, cost |-> c, read |-> r]
  BY DEF FanoutInv, FanoutShape
<1>3. FanoutShape'
  <2>1. child' = [j \in Items |-> IF j = i THEN [pc |-> p, cost |-> c, read |-> r] ELSE child[j]]
    BY DEF FanoutInv, FanoutShape
  <2>2. \A j \in Items : child[j] = [pc |-> child[j].pc, cost |-> child[j].cost,
                                     read |-> child[j].read]
    BY DEF FanoutInv, FanoutShape
  <2>3. \A j \in Items : child'[j] = [pc |-> child'[j].pc, cost |-> child'[j].cost,
                                      read |-> child'[j].read]
    BY <1>1, <1>2, <2>2
  <2>4. QED
    BY <2>1, <2>3 DEF FanoutInv, FanoutShape
<1>4. \A j \in 1..Len(answers) : j \in Items
  BY ItemCount, FanoutAssumption DEF FanoutInv, FanoutShape
<1>5. mapped \notin {"returned", "raised"}
  BY DEF FanoutInv, Active
<1>6. \A j \in Items : child[j].pc \in {"done", "raised"} => child'[j] = child[j]
  BY <1>1
<1>7. QED
  BY <1>3, <1>4, <1>5, <1>6 DEF FanoutInv

\* Each move of a child is of this form.
LEMMA MovesAre ==
  ASSUME FanoutInv, NEW i \in Items, NEW from, NEW to, Moves(i, from, to)
  PROVE  child' = [child EXCEPT ![i] = [pc |-> to, cost |-> child[i].cost, read |-> child[i].read]]
<1>1. child[i] = [pc |-> child[i].pc, cost |-> child[i].cost, read |-> child[i].read]
  BY DEF FanoutInv, FanoutShape
<1>2. [child[i] EXCEPT !.pc = to] = [pc |-> to, cost |-> child[i].cost, read |-> child[i].read]
  BY <1>1
<1>3. QED
  BY <1>2 DEF Moves

LEMMA ChildrenKeepFaith ==
  ASSUME FanoutInv, NEW i \in Items, ChildStep(i)
  PROVE  FanoutInv'
<1>1. CASE start_child(i)
  <2>1. child[i].pc = "queued" /\ mapped = "running" /\ Moves(i, "queued", "check")
    BY <1>1 DEF start_child, Moves
  <2>2. QED
    BY <1>1, <2>1, ChildMoves, MovesAre DEF start_child
<1>2. CASE check(i)
  <2>1. Moves(i, "check", IF spent >= Cap THEN "raised" ELSE "calling") /\ UNCHANGED <<answers, mapped>>
    BY <1>2 DEF check
  <2>2. child[i].pc = "check"
    BY <2>1 DEF Moves
  <2>3. QED
    BY <2>1, <2>2, ChildMoves, MovesAre DEF Resting
<1>3. CASE call_raises(i)
  <2>1. Moves(i, "calling", "raised") /\ UNCHANGED <<answers, mapped>>
    BY <1>3 DEF call_raises
  <2>2. child[i].pc = "calling"
    BY <2>1 DEF Moves
  <2>3. QED
    BY <2>1, <2>2, ChildMoves, MovesAre DEF Resting
<1>4. ASSUME NEW cost, record_spend(i, cost) PROVE FanoutInv'
  BY <1>4, ChildMoves DEF record_spend, Resting
<1>5. CASE record_usage(i)
  <2>1. Moves(i, "adding", "tracing") /\ UNCHANGED <<answers, mapped>>
    BY <1>5 DEF record_usage
  <2>2. child[i].pc = "adding"
    BY <2>1 DEF Moves
  <2>3. QED
    BY <2>1, <2>2, ChildMoves, MovesAre DEF Resting
<1>6. CASE number_event(i)
  BY <1>6, ChildMoves DEF number_event, Resting
<1>7. CASE append_event(i)
  <2>1. Moves(i, "appending", "done") /\ UNCHANGED <<answers, mapped>>
    BY <1>7 DEF append_event
  <2>2. child[i].pc = "appending"
    BY <2>1 DEF Moves
  <2>3. QED
    BY <2>1, <2>2, ChildMoves, MovesAre DEF Resting
<1>8. QED
  BY <1>1, <1>2, <1>3, <1>4, <1>5, <1>6, <1>7 DEF ChildStep

\* The consumer yields the next item's answer, or leaves the pool for its exception;
\* the items it cancels had not been done.
LEMMA ConsumerKeepsFaith ==
  ASSUME FanoutInv, consume
  PROVE  FanoutInv'
<1> DEFINE i == Len(answers) + 1
<1>1. mapped = "running" /\ i \in Items
  BY DEF consume
<1>2. CASE /\ child[i].pc = "done" /\ answers' = Append(answers, i)
           /\ UNCHANGED <<child, mapped>>
  <2>1. i \in Nat /\ i <= Cardinality(Items)
    BY <1>1, ItemCount, FanoutAssumption DEF FanoutInv, FanoutShape
  <2>2. answers' \in Seq(Nat) /\ Len(answers') = i
    BY <1>2, <2>1 DEF FanoutInv, FanoutShape
  <2>3. \A k \in 1..Len(answers') : answers'[k] = k /\ child[k].pc = "done"
    <3>1. answers'[i] = i
      BY <1>2, <2>1 DEF FanoutInv, FanoutShape
    <3>2. \A k \in 1..Len(answers) : answers'[k] = answers[k]
      BY <1>2, <2>1 DEF FanoutInv, FanoutShape
    <3>3. \A k \in 1..i : k = i \/ k \in 1..Len(answers)
      BY <2>1 DEF FanoutInv, FanoutShape
    <3> HIDE DEF i
    <3>4. QED
      BY <1>2, <2>2, <3>1, <3>2, <3>3 DEF FanoutInv
  <2>4. FanoutShape'
    BY <1>2, <2>1, <2>2 DEF FanoutInv, FanoutShape
  <2>5. QED
    BY <1>1, <1>2, <2>3, <2>4 DEF FanoutInv
<1>3. CASE /\ child[i].pc = "raised" /\ mapped' = "leaving" /\ UNCHANGED answers
           /\ child' = [j \in Items |-> IF child[j].pc = "queued"
                                        THEN [child[j] EXCEPT !.pc = "cancelled"]
                                        ELSE child[j]]
  <2>1. \A j \in Items : child[j] = [pc |-> child[j].pc, cost |-> child[j].cost,
                                     read |-> child[j].read]
    BY DEF FanoutInv, FanoutShape
  <2>2. \A j \in Items : child'[j] = [pc |-> child'[j].pc, cost |-> child'[j].cost,
                                      read |-> child'[j].read]
    BY <1>3, <2>1
  <2>3. \A j \in Items : child[j].pc \in {"done", "raised"} => child'[j] = child[j]
    BY <1>3
  <2>4. FanoutShape'
    BY <1>3, <2>2 DEF FanoutInv, FanoutShape
  <2>5. \A k \in 1..Len(answers) : k \in Items
    BY ItemCount, FanoutAssumption DEF FanoutInv, FanoutShape
  <2>6. QED
    BY <1>1, <1>3, <2>3, <2>4, <2>5 DEF FanoutInv
<1>4. QED
  BY <1>2, <1>3 DEF consume

LEMMA AlwaysFanout == Spec => []FanoutInv
<1>1. Init => FanoutInv
  <2> SUFFICES ASSUME FanoutInit PROVE FanoutInv
    BY DEF Init, SessionInit
  <2>1. answers \in Seq(Nat) /\ Len(answers) = 0 /\ mapped = "idle"
    BY DEF FanoutInit
  <2>2. FanoutShape
    BY <2>1, ItemCount DEF FanoutInit, FanoutShape
  <2>3. QED
    BY <2>1, <2>2 DEF FanoutInv
<1>2. FanoutInv /\ [Next]_vars => FanoutInv'
  <2> SUFFICES ASSUME FanoutInv, [FanoutNext]_fanoutVars PROVE FanoutInv'
    BY FanoutSteps
  <2>1. ASSUME NEW w, map_node(w) PROVE FanoutInv'
    BY <2>1 DEF map_node, FanoutInv, FanoutShape
  <2>2. CASE \E i \in Items : ChildStep(i)
    BY <2>2, ChildrenKeepFaith
  <2>3. CASE consume
    BY <2>3, ConsumerKeepsFaith
  <2>4. CASE leave_pool
    BY <2>4 DEF leave_pool, FanoutInv, FanoutShape, Active
  <2>5. CASE UNCHANGED fanoutVars
    BY <2>5 DEF fanoutVars, FanoutInv, FanoutShape, Active
  <2>6. QED
    BY <2>1, <2>2, <2>3, <2>4, <2>5 DEF FanoutNext, FanoutStep
<1> QED
  BY <1>1, <1>2, PTL DEF Spec

\* A MapNode returns the answers of all items in input order, or raises for one of
\* them, and in either case no thread is left: however many items, however wide.
THEOREM MapAlwaysFaithful == Spec => []MapIsFaithful
<1>1. FanoutInv => MapIsFaithful
  <2> SUFFICES ASSUME FanoutInv PROVE MapIsFaithful
    OBVIOUS
  <2>1. ASSUME mapped = "returned"
        PROVE  /\ answers = [i \in 1..Cardinality(Items) |-> i]
               /\ \A i \in Items : child[i].pc = "done"
    <3>1. Len(answers) = Cardinality(Items) /\ answers \in Seq(Nat)
      BY <2>1 DEF FanoutInv, FanoutShape
    <3>2. \A k \in 1..Cardinality(Items) : answers[k] = k /\ child[k].pc = "done"
      BY <3>1 DEF FanoutInv
    <3>3. answers = [k \in 1..Cardinality(Items) |-> answers[k]]
      BY <3>1
    <3>4. QED
      BY <3>2, <3>3, FanoutAssumption
  <2>2. QED
    BY <2>1 DEF FanoutInv, MapIsFaithful
<1>2. QED
  BY <1>1, AlwaysFanout, PTL
----------------------------------------------------------------------------
(* Sums over some of the children.                                          *)

\* Children that cost nothing may be left out.
LEMMA TotalSupport ==
  ASSUME NEW ch, NEW S, IsFiniteSet(S), NEW T \in SUBSET S,
         \A i \in S : ch[i].cost \in Nat, \A i \in S \ T : ch[i].cost = 0
  PROVE  Total(ch, S) = Total(ch, T)
<1> DEFINE Good == {s \in SUBSET S : Total(ch, s) = Total(ch, s \cap T)}
<1>1. ASSUME NEW s \in SUBSET S,
             \A u \in SUBSET S : Cardinality(u) < Cardinality(s) => u \in Good
      PROVE  s \in Good
  <2>1. IsFiniteSet(s) /\ Cardinality(s) \in Nat /\ IsFiniteSet(s \cap T)
    BY FS_Subset, FS_CardinalityType
  <2>2. CASE s \subseteq T
    <3>1. s \cap T = s
      BY <2>2
    <3> QED BY <3>1
  <2>3. CASE ~(s \subseteq T)
    <3>1. PICK y \in s : y \notin T
      BY <2>3
    <3>2. s \ {y} \in Good
      <4>1. s \ {y} \in SUBSET S /\ Cardinality(s \ {y}) < Cardinality(s)
        BY <2>1, OneLess
      <4> QED BY <1>1, <4>1
    <3>3. Total(ch, s) = ch[y].cost + Total(ch, s \ {y}) /\ Total(ch, s) \in Nat
      BY <2>1, TotalAdds
    <3>4. Total(ch, s \ {y}) \in Nat
      BY <2>1, OneLess, TotalAdds
    <3>5. (s \ {y}) \cap T = s \cap T /\ ch[y].cost = 0
      BY <3>1
    <3>6. Total(ch, s) = Total(ch, s \ {y})
      BY <3>3, <3>4, <3>5
    <3> QED BY <3>2, <3>5, <3>6
  <2> QED BY <2>2, <2>3
<1>2. SUBSET S \subseteq Good
  <2> HIDE DEF Good
  <2> QED BY <1>1, SmallestFirst
<1>3. S \cap T = T
  OBVIOUS
<1> QED
  BY <1>2, <1>3

----------------------------------------------------------------------------
(* The accounts.                                                            *)

Lanes == IF parallel <= 1 THEN 1 ELSE parallel
In_pc(pcs) == {i \in Items : child[i].pc \in pcs}

\* What a child has cost as far as the tokens are added.
Settled == [i \in Items |-> [cost |-> IF child[i].pc = "adding" THEN 0 ELSE child[i].cost]]

Working == {"check", "calling", "adding", "tracing", "appending"}

AccountTypes ==
    /\ \A i \in Items :
         /\ child[i].pc \in Resting \cup Working
         /\ child[i].cost \in Nat /\ child[i].read \in Nat
    /\ parallel \in Nat /\ spent \in Nat /\ usage \in Nat /\ events \in Seq(Nat)

\* Only a child whose call was answered has cost anything; without a pool, what is
\* before the child at work is done; no more work than there are threads; what has
\* been read is no more than what is there, and all of it if nobody else works.
ThreadsInv ==
    /\ mapped = "idle" => \A i \in Items : child[i].pc = "queued"
    /\ \A i \in In_pc({"queued", "cancelled", "check", "calling", "raised"}) : child[i].cost = 0
    /\ parallel <= 1 => \A i \in Active : \A j \in Items : j < i => child[j].pc = "done"
    /\ Cardinality(Active) <= Lanes

MoneyInv ==
    /\ spent = Total(child, Items)
    /\ spent + Cardinality(In_pc({"calling"})) * Max(Prices) < Cap + Lanes * Max(Prices)

TokensInv ==
    /\ usage <= Total(Settled, Items)
    /\ \A i \in In_pc({"adding"}) : child[i].read <= Total(Settled, Items)
    /\ parallel <= 1 => /\ usage = Total(Settled, Items)
                        /\ \A i \in In_pc({"adding"}) : child[i].read = usage

LedgerInv ==
    /\ Len(events) = Cardinality(In_pc({"done"}))
    /\ \A i \in In_pc({"appending"}) : /\ child[i].read <= Len(events)
                                       /\ parallel <= 1 => child[i].read = Len(events)
    /\ \A k \in 1..Len(events) : events[k] < k /\ (parallel <= 1 => events[k] = k - 1)

AccountsInv == AccountTypes /\ ThreadsInv /\ MoneyInv /\ TokensInv /\ LedgerInv

\* One child's move.
Becomes(i, p, c, r) ==
    /\ child' = [child EXCEPT ![i] = [pc |-> p, cost |-> c, read |-> r]]
    /\ parallel' = parallel

LEMMA Becoming ==
  ASSUME FanoutShape, NEW i \in Items, NEW p, NEW c, NEW r, Becomes(i, p, c, r)
  PROVE  /\ \A j \in Items : j # i => child'[j] = child[j]
         /\ child'[i].pc = p /\ child'[i].cost = c /\ child'[i].read = r
<1>1. /\ \A j \in Items : j # i => child'[j] = child[j]
      /\ child'[i] = [pc |-> p, cost |-> c, read |-> r]
  BY DEF FanoutShape, Becomes
<1> QED
  BY <1>1

\* What one child's move does to it, to the totals and to who is where.
LEMMA Updated ==
  ASSUME FanoutShape, AccountTypes, NEW i \in Items, NEW p, NEW c \in Nat, NEW r,
         Becomes(i, p, c, r)
  PROVE  /\ \A j \in Items : j # i => child'[j] = child[j]
         /\ child'[i].pc = p /\ child'[i].cost = c /\ child'[i].read = r
         /\ Total(child, Items) \in Nat /\ Total(child, Items)' \in Nat
         /\ Total(child, Items)' = Total(child, Items) - child[i].cost + c
         /\ Total(Settled, Items) \in Nat /\ Total(Settled, Items)' \in Nat
         /\ Total(Settled, Items)' = Total(Settled, Items)
                - (IF child[i].pc = "adding" THEN 0 ELSE child[i].cost)
                + (IF p = "adding" THEN 0 ELSE c)
         /\ \A P : In_pc(P)' = IF p \in P THEN In_pc(P) \cup {i} ELSE In_pc(P) \ {i}
<1>1. \A j \in Items : j # i => child'[j] = child[j]
  BY Becoming
<1>2. child'[i].pc = p /\ child'[i].cost = c /\ child'[i].read = r
  BY Becoming
<1>3. \A j \in Items : child[j].cost \in Nat /\ child'[j].cost \in Nat
  BY <1>1, <1>2 DEF AccountTypes
<1>4. /\ Total(child, Items) \in Nat /\ Total(child', Items) \in Nat
      /\ Total(child', Items) = Total(child, Items) - child[i].cost + child'[i].cost
  <2> DEFINE before == child
             after == child'
  <2>1. /\ \A j \in Items : before[j].cost \in Nat /\ after[j].cost \in Nat
        /\ \A j \in Items \ {i} : after[j].cost = before[j].cost
    BY <1>1, <1>3
  <2>2. IsFiniteSet(Items)
    BY FanoutAssumption
  <2> HIDE DEF before, after
  <2>3. /\ Total(before, Items) \in Nat /\ Total(after, Items) \in Nat
        /\ Total(after, Items) = Total(before, Items) - before[i].cost + after[i].cost
    BY <2>1, <2>2, TotalChanges
  <2> QED BY <2>3 DEF before, after
<1> DEFINE was == Settled
           is == Settled'
<1>5. /\ \A j \in Items : was[j].cost = IF child[j].pc = "adding" THEN 0 ELSE child[j].cost
      /\ \A j \in Items : is[j].cost = IF child'[j].pc = "adding" THEN 0 ELSE child'[j].cost
  BY DEF Settled
<1> HIDE DEF was, is
<1>6. \A j \in Items : was[j].cost \in Nat /\ is[j].cost \in Nat /\ (j # i => is[j].cost = was[j].cost)
  BY <1>1, <1>3, <1>5
<1>7. /\ Total(was, Items) \in Nat /\ Total(is, Items) \in Nat
      /\ Total(is, Items) = Total(was, Items) - was[i].cost + is[i].cost
  BY <1>6, FanoutAssumption, TotalChanges
<1>8. \A P : In_pc(P)' = IF p \in P THEN In_pc(P) \cup {i} ELSE In_pc(P) \ {i}
  BY <1>1, <1>2 DEF In_pc
<1> QED
  BY <1>1, <1>2, <1>4, <1>5, <1>7, <1>8 DEF was, is

\* The same for each of the three alone.
LEMMA TotalMoves ==
  ASSUME FanoutShape, AccountTypes, NEW i \in Items, NEW p, NEW c \in Nat, NEW r, Becomes(i, p, c, r)
  PROVE  /\ Total(child, Items) \in Nat /\ Total(child, Items)' \in Nat
         /\ Total(child, Items)' = Total(child, Items) - child[i].cost + c
  BY Updated

LEMMA SettledMoves ==
  ASSUME FanoutShape, AccountTypes, NEW i \in Items, NEW p, NEW c \in Nat, NEW r, Becomes(i, p, c, r)
  PROVE  /\ Total(Settled, Items) \in Nat /\ Total(Settled, Items)' \in Nat
         /\ Total(Settled, Items)' = Total(Settled, Items)
                - (IF child[i].pc = "adding" THEN 0 ELSE child[i].cost)
                + (IF p = "adding" THEN 0 ELSE c)
  BY Updated

LEMMA PlacesMove ==
  ASSUME FanoutShape, AccountTypes, NEW i \in Items, NEW p, NEW c \in Nat, NEW r, Becomes(i, p, c, r),
         NEW P
  PROVE  In_pc(P)' = IF p \in P THEN In_pc(P) \cup {i} ELSE In_pc(P) \ {i}
  BY Updated

\* How many are where.
LEMMA Counts ==
  /\ \A P : IsFiniteSet(In_pc(P)) /\ Cardinality(In_pc(P)) \in Nat
  /\ AccountTypes => Active = In_pc(Working)
<1>1. ASSUME NEW P PROVE IsFiniteSet(In_pc(P)) /\ Cardinality(In_pc(P)) \in Nat
  <2>1. In_pc(P) \in SUBSET Items /\ IsFiniteSet(Items)
    BY FanoutAssumption DEF In_pc
  <2> HIDE DEF In_pc
  <2> QED BY <2>1, FS_Subset, FS_CardinalityType
<1>2. AccountTypes => Active = In_pc(Working)
  BY DEF AccountTypes, Active, In_pc, Working, Resting
<1> QED
  BY <1>1, <1>2

LEMMA CountMoves ==
  ASSUME FanoutShape, AccountTypes, NEW i \in Items, NEW p, NEW c \in Nat, NEW r,
         Becomes(i, p, c, r), NEW P
  PROVE  /\ Cardinality(In_pc(P)) \in Nat /\ Cardinality(In_pc(P))' \in Nat
         /\ Cardinality(In_pc(P))' = Cardinality(In_pc(P)) - (IF child[i].pc \in P THEN 1 ELSE 0)
                                     + (IF p \in P THEN 1 ELSE 0)
<1> DEFINE A == In_pc(P)
           B == In_pc(P)'
<1>1. B = (IF p \in P THEN A \cup {i} ELSE A \ {i}) /\ (i \in A <=> child[i].pc \in P)
  <2>1. \A Q : In_pc(Q)' = IF p \in Q THEN In_pc(Q) \cup {i} ELSE In_pc(Q) \ {i}
    BY Updated
  <2>2. In_pc(P)' = IF p \in P THEN In_pc(P) \cup {i} ELSE In_pc(P) \ {i}
    BY <2>1
  <2>3. i \in In_pc(P) <=> child[i].pc \in P
    BY DEF In_pc
  <2> QED BY <2>2, <2>3
<1>2. IsFiniteSet(A) /\ Cardinality(A) \in Nat
  BY Counts
<1> HIDE DEF A, B
<1>3. Cardinality(B) = Cardinality(A) - (IF child[i].pc \in P THEN 1 ELSE 0)
                       + (IF p \in P THEN 1 ELSE 0)
  <2>1. Cardinality(A \cup {i}) = IF i \in A THEN Cardinality(A) ELSE Cardinality(A) + 1
    BY <1>2, FS_AddElement
  <2>2. Cardinality(A \ {i}) = IF i \in A THEN Cardinality(A) - 1 ELSE Cardinality(A)
    BY <1>2, FS_RemoveElement
  <2>3. CASE p \in P
    BY <1>1, <1>2, <2>1, <2>3
  <2>4. CASE p \notin P
    BY <1>1, <1>2, <2>2, <2>4
  <2> QED BY <2>3, <2>4
<1>4. Cardinality(B) \in Nat
  <2>1. A \cup {i} \in SUBSET (A \cup {i}) /\ A \ {i} \in SUBSET A /\ IsFiniteSet(A \cup {i})
    BY <1>2, FS_AddElement
  <2> QED BY <1>1, <1>2, <2>1, FS_Subset, FS_CardinalityType
<1> QED
  BY <1>2, <1>3, <1>4 DEF A, B

\* The dearest call.
LEMMA DearestPrice ==
  Max(Prices) \in Nat /\ Max(Prices) > 0 /\ \A cost \in Prices : cost \in Nat /\ cost <= Max(Prices)
<1> DEFINE Good == {s \in SUBSET Prices : s # {} => \E m \in s : \A n \in s : m >= n}
<1>1. IsFiniteSet(Prices) /\ Prices \subseteq Nat
  BY FanoutAssumption
<1>2. ASSUME NEW s \in SUBSET Prices,
             \A u \in SUBSET Prices : Cardinality(u) < Cardinality(s) => u \in Good
      PROVE  s \in Good
  <2> SUFFICES ASSUME s # {} PROVE \E m \in s : \A n \in s : m >= n
    OBVIOUS
  <2>1. PICK y \in s : y \in Nat
    BY <1>1
  <2>2. s \ {y} \in Good
    <3>1. IsFiniteSet(s)
      BY <1>1, FS_Subset
    <3>2. s \ {y} \in SUBSET Prices /\ Cardinality(s \ {y}) < Cardinality(s)
      BY <3>1, OneLess
    <3> QED BY <1>2, <3>2
  <2>3. CASE s \ {y} = {}
    BY <2>1, <2>3
  <2>4. CASE s \ {y} # {}
    <3>1. PICK m \in s \ {y} : \A n \in s \ {y} : m >= n
      BY <2>2, <2>4
    <3>2. m \in Nat /\ \A n \in s : n \in Nat
      BY <1>1
    <3>3. CASE m >= y
      BY <3>1, <3>2, <3>3
    <3>4. CASE ~(m >= y)
      <4>1. \A n \in s : y >= n
        BY <2>1, <3>1, <3>2, <3>4
      <4> QED BY <4>1
    <3> QED BY <3>3, <3>4
  <2> QED BY <2>3, <2>4
<1>3. SUBSET Prices \subseteq Good
  <2> HIDE DEF Good
  <2> QED BY <1>1, <1>2, SmallestFirst
<1>4. Prices # {} /\ \E price \in Prices : price > 0
  BY FanoutAssumption
<1>5. \E m \in Prices : \A n \in Prices : m >= n
  BY <1>3, <1>4
<1>6. Max(Prices) \in Prices /\ \A n \in Prices : Max(Prices) >= n
  BY <1>5 DEF Max
<1> DEFINE most == Max(Prices)
<1>7. most \in Nat /\ \A n \in Prices : n \in Nat /\ n <= most
  <2>1. most \in Prices /\ \A n \in Prices : most >= n
    BY <1>6
  <2> HIDE DEF most
  <2> QED BY <1>1, <2>1
<1>8. most > 0
  <2> HIDE DEF most
  <2> QED BY <1>4, <1>7
<1> QED
  BY <1>7, <1>8

----------------------------------------------------------------------------
(* One child's step.                                                        *)

LEMMA TypesKept ==
  ASSUME FanoutShape, AccountTypes, NEW i \in Items, NEW p \in Resting \cup Working, NEW c \in Nat,
         NEW r \in Nat, Becomes(i, p, c, r), spent' \in Nat, usage' \in Nat, events' \in Seq(Nat)
  PROVE  AccountTypes'
<1>1. /\ \A j \in Items : j # i => child'[j] = child[j]
      /\ child'[i].pc = p /\ child'[i].cost = c /\ child'[i].read = r
  BY Updated
<1> QED
  BY <1>1 DEF AccountTypes, Becomes

\* Nobody else works while one child does, without a pool.
LEMMA AloneAtWork ==
  ASSUME AccountTypes, ThreadsInv, parallel <= 1, NEW i \in Active, NEW j \in Active
  PROVE  i = j
<1>1. i \in Items /\ j \in Items /\ child[i].pc # "done" /\ child[j].pc # "done"
  BY DEF Active, Resting
<1>2. ~(j < i) /\ ~(i < j)
  BY <1>1 DEF ThreadsInv
<1>3. i \in Nat /\ j \in Nat
  BY <1>1, ItemCount, FanoutAssumption
<1> QED
  BY <1>2, <1>3

\* A child that works goes on.
LEMMA ThreadsKept ==
  ASSUME FanoutInv, AccountTypes, ThreadsInv, NEW i \in Items, NEW p \in Resting \cup Working,
         NEW c \in Nat, NEW r \in Nat, Becomes(i, p, c, r), AccountTypes',
         child[i].pc \in Working, p \in {"queued", "cancelled", "check", "calling", "raised"} => c = 0,
         mapped' = mapped
  PROVE  ThreadsInv'
<1>1. /\ \A j \in Items : j # i => child'[j] = child[j]
      /\ child'[i].pc = p /\ child'[i].cost = c /\ child'[i].read = r
  BY Becoming DEF FanoutInv
<1>2. i \in Active /\ child[i].pc # "done" /\ mapped # "idle"
  BY DEF Active, Working, Resting, ThreadsInv
<1>3. Active' \subseteq Active
  BY <1>1, <1>2 DEF Active
<1>4. \A j \in In_pc({"queued", "cancelled", "check", "calling", "raised"})' : child'[j].cost = 0
  BY <1>1 DEF In_pc, ThreadsInv
<1>5. ASSUME parallel' <= 1, NEW k \in Active', NEW j \in Items, j < k PROVE child'[j].pc = "done"
  <2>1. child[j].pc = "done"
    BY <1>3, <1>5 DEF ThreadsInv, Becomes
  <2> QED BY <1>1, <1>2, <2>1
<1>6. Cardinality(Active') <= Lanes'
  <2>1. Cardinality(Active') <= Cardinality(Active)
    BY <1>3, Counts, FS_Subset
  <2>2. Cardinality(Active) \in Nat /\ Cardinality(Active') \in Nat
    <3>1. IsFiniteSet(Active) /\ IsFiniteSet(Active')
      BY <1>3, Counts, FS_Subset
    <3> QED BY <3>1, FS_CardinalityType
  <2>3. Cardinality(Active) <= Lanes /\ Lanes \in Nat /\ Lanes' = Lanes
    BY DEF ThreadsInv, Lanes, AccountTypes, Becomes
  <2> QED BY <2>1, <2>2, <2>3
<1> QED
  BY <1>2, <1>4, <1>5, <1>6 DEF ThreadsInv

\* A child that begins was the next one, or had a lane.
LEMMA ThreadStarts ==
  ASSUME FanoutInv, AccountTypes, ThreadsInv, NEW i \in Items, start_child(i), AccountTypes'
  PROVE  ThreadsInv'
<1>1. /\ child[i].pc = "queued" /\ mapped = "running" /\ mapped' = mapped
      /\ Becomes(i, "check", child[i].cost, child[i].read)
  <2>1. Moves(i, "queued", "check")
    BY DEF start_child
  <2>2. child' = [child EXCEPT ![i] = [pc |-> "check", cost |-> child[i].cost, read |-> child[i].read]]
    BY <2>1, MovesAre
  <2> QED BY <2>1, <2>2 DEF start_child, Moves, Becomes
<1>2. child[i].cost \in Nat /\ FanoutShape
  BY DEF AccountTypes, FanoutInv
<1>3. /\ \A j \in Items : j # i => child'[j] = child[j]
      /\ child'[i].pc = "check" /\ child'[i].cost = child[i].cost
  BY <1>1, <1>2, Becoming
<1>4. Active' = Active \cup {i} /\ i \notin Active
  BY <1>1, <1>3 DEF Active, Resting
<1>5. child[i].cost = 0
  BY <1>1 DEF ThreadsInv, In_pc
<1>6. \A j \in In_pc({"queued", "cancelled", "check", "calling", "raised"})' : child'[j].cost = 0
  BY <1>3, <1>5 DEF In_pc, ThreadsInv
<1>7. parallel \in Nat /\ parallel' = parallel /\ \A j \in Items : j \in Nat
  BY <1>1, ItemCount, FanoutAssumption DEF AccountTypes, Becomes
<1>8. ASSUME parallel <= 1 PROVE Active = {} /\ \A j \in Items : j < i => child[j].pc = "done"
  <2>1. \A j \in Items : j < i => child[j].pc = "done"
    BY <1>8 DEF start_child
  <2>2. ASSUME NEW k \in Active PROVE FALSE
    <3>1. k \in Items /\ child[k].pc # "done" /\ k # i
      BY <1>4 DEF Active, Resting
    <3>2. ~(k < i)
      BY <2>1, <3>1
    <3>3. ~(i < k)
      BY <1>1, <1>8 DEF ThreadsInv
    <3> QED BY <1>7, <3>1, <3>2, <3>3
  <2> QED BY <2>1, <2>2
<1>9. ASSUME parallel' <= 1, NEW k \in Active', NEW j \in Items, j < k PROVE child'[j].pc = "done"
  <2>1. k = i
    BY <1>4, <1>7, <1>8, <1>9
  <2>2. child[j].pc = "done" /\ j # i
    BY <1>1, <1>7, <1>8, <1>9, <2>1
  <2> QED BY <1>3, <2>2
<1>10. Cardinality(Active') <= Lanes'
  <2>1. IsFiniteSet(Active) /\ Cardinality(Active) \in Nat
    BY Counts
  <2>2. Cardinality(Active') = Cardinality(Active) + 1
    BY <1>4, <2>1, FS_AddElement
  <2>3. CASE parallel <= 1
    <3>1. Cardinality(Active) = 0
      BY <1>8, <2>3, FS_EmptySet
    <3> QED BY <1>7, <2>2, <2>3, <3>1 DEF Lanes
  <2>4. CASE ~(parallel <= 1)
    <3>1. Cardinality(Active) < parallel
      BY <2>4 DEF start_child
    <3> QED BY <1>7, <2>1, <2>2, <2>4, <3>1 DEF Lanes
  <2> QED BY <2>3, <2>4
<1> QED
  BY <1>1, <1>6, <1>9, <1>10 DEF ThreadsInv

\* A step without a price leaves the money as it was.
LEMMA MoneyKept ==
  ASSUME FanoutInv, AccountTypes, MoneyInv, NEW i \in Items, NEW p, NEW r,
         Becomes(i, p, child[i].cost, r), spent' = spent,
         p # "calling" \/ child[i].pc = "calling"
  PROVE  MoneyInv'
<1>1. FanoutShape /\ child[i].cost \in Nat
  BY DEF FanoutInv, AccountTypes
<1>2. Total(child, Items)' = Total(child, Items)
  <2>1. /\ Total(child, Items) \in Nat
        /\ Total(child, Items)' = Total(child, Items) - child[i].cost + child[i].cost
    BY <1>1, TotalMoves
  <2> QED BY <1>1, <2>1
<1> DEFINE n == Cardinality(In_pc({"calling"}))
           m == Cardinality(In_pc({"calling"}))'
           most == Max(Prices)
<1>3. n \in Nat /\ m \in Nat /\ m <= n
  <2>1. /\ n \in Nat /\ m \in Nat
        /\ m = n - (IF child[i].pc \in {"calling"} THEN 1 ELSE 0) + (IF p \in {"calling"} THEN 1 ELSE 0)
    BY <1>1, CountMoves
  <2> HIDE DEF n, m
  <2> QED BY <2>1
<1>4. most \in Nat /\ spent \in Nat /\ Lanes \in Nat /\ Lanes' = Lanes /\ Cap \in Nat
  BY DearestPrice, FanoutAssumption DEF AccountTypes, Lanes, Becomes
<1>5. spent = Total(child, Items) /\ spent + n * most < Cap + Lanes * most
  BY DEF MoneyInv
<1>6. spent' = Total(child, Items)'
  BY <1>2, <1>5
<1>7. spent' + m * most < Cap + Lanes' * most
  <2> DEFINE room == Cap + Lanes * most
  <2>1. m * most <= n * most /\ m * most \in Nat /\ n * most \in Nat /\ room \in Nat
    <3> HIDE DEF n, m, most
    <3> QED BY <1>3, <1>4
  <2>2. spent + n * most < room
    BY <1>5
  <2> HIDE DEF n, m, most, room
  <2>3. spent' + m * most < room
    BY <1>4, <2>1, <2>2
  <2> QED BY <1>4, <2>3 DEF room
<1> QED
  BY <1>6, <1>7 DEF MoneyInv

\* A child may call if the cap is not reached; there is a lane for each that calls.
LEMMA CallIsAffordable ==
  ASSUME FanoutInv, AccountTypes, ThreadsInv, MoneyInv, NEW i \in Items, NEW r,
         Becomes(i, "calling", child[i].cost, r), spent' = spent, spent < Cap,
         child[i].pc = "check"
  PROVE  MoneyInv'
<1>1. FanoutShape /\ child[i].cost \in Nat
  BY DEF FanoutInv, AccountTypes
<1>2. Total(child, Items)' = Total(child, Items)
  <2>1. /\ Total(child, Items) \in Nat
        /\ Total(child, Items)' = Total(child, Items) - child[i].cost + child[i].cost
    BY <1>1, TotalMoves
  <2> QED BY <1>1, <2>1
<1> DEFINE n == Cardinality(In_pc({"calling"}))
           m == Cardinality(In_pc({"calling"}))'
           most == Max(Prices)
<1>3. /\ In_pc({"calling"})' = In_pc({"calling"}) \cup {i} /\ i \notin In_pc({"calling"})
      /\ In_pc({"calling"})' \subseteq Active
  <2>1. In_pc({"calling"})' = IF "calling" \in {"calling"} THEN In_pc({"calling"}) \cup {i}
                                                           ELSE In_pc({"calling"}) \ {i}
    BY <1>1, PlacesMove
  <2>2. In_pc({"calling"})' = In_pc({"calling"}) \cup {i}
    BY <2>1
  <2>3. i \in Active /\ i \notin In_pc({"calling"}) /\ In_pc({"calling"}) \subseteq Active
    BY DEF In_pc, Active, Resting
  <2> QED BY <2>2, <2>3
<1>4. m \in Nat /\ m <= Lanes
  <2>1. IsFiniteSet(Active) /\ Cardinality(Active) \in Nat
    BY Counts
  <2>2. m <= Cardinality(Active) /\ m \in Nat
    <3>1. IsFiniteSet(In_pc({"calling"})')
      BY <1>3, <2>1, FS_Subset
    <3> QED BY <1>3, <2>1, <3>1, FS_Subset, FS_CardinalityType
  <2>3. Cardinality(Active) <= Lanes /\ Lanes \in Nat
    BY DEF ThreadsInv, Lanes, AccountTypes
  <2> HIDE DEF m
  <2> QED BY <2>1, <2>2, <2>3
<1>5. most \in Nat /\ spent \in Nat /\ Lanes \in Nat /\ Lanes' = Lanes /\ Cap \in Nat
  BY DearestPrice, FanoutAssumption DEF AccountTypes, Lanes, Becomes
<1>6. spent' + m * most < Cap + Lanes' * most
  <2>1. m * most <= Lanes * most /\ m * most \in Nat /\ Lanes * most \in Nat
    <3> HIDE DEF m, most, Lanes
    <3> QED BY <1>4, <1>5
  <2> HIDE DEF m, most, Lanes
  <2> QED BY <1>5, <2>1
<1> QED
  BY <1>2, <1>6 DEF MoneyInv

\* A call costs no more than was set aside for it.
LEMMA SpendIsExact ==
  ASSUME FanoutInv, AccountTypes, ThreadsInv, MoneyInv, NEW i \in Items, NEW c \in Prices,
         record_spend(i, c)
  PROVE  MoneyInv'
<1>1. /\ FanoutShape /\ child[i].pc = "calling" /\ spent' = spent + c
      /\ Becomes(i, "adding", c, usage)
  BY DEF FanoutInv, record_spend, Becomes
<1> DEFINE n == Cardinality(In_pc({"calling"}))
           m == Cardinality(In_pc({"calling"}))'
           most == Max(Prices)
<1>2. /\ most \in Nat /\ spent \in Nat /\ Lanes \in Nat /\ Lanes' = Lanes /\ Cap \in Nat
      /\ c \in Nat /\ c <= most
  BY <1>1, DearestPrice, FanoutAssumption DEF AccountTypes, Lanes, Becomes
<1>3. child[i].cost = 0
  BY <1>1 DEF ThreadsInv, In_pc
<1>4. Total(child, Items)' = Total(child, Items) + c
  <2>1. /\ Total(child, Items) \in Nat
        /\ Total(child, Items)' = Total(child, Items) - child[i].cost + c
    <3>1. FanoutShape /\ c \in Nat /\ Becomes(i, "adding", c, usage)
      BY <1>1, <1>2
    <3> QED BY <3>1, TotalMoves
  <2> QED BY <1>2, <1>3, <2>1
<1>5. m = n - 1 /\ n \in Nat
  <2>1. FanoutShape /\ c \in Nat /\ Becomes(i, "adding", c, usage)
    BY <1>1, <1>2
  <2>2. /\ n \in Nat /\ m \in Nat
        /\ m = n - (IF child[i].pc \in {"calling"} THEN 1 ELSE 0) + (IF "adding" \in {"calling"} THEN 1 ELSE 0)
    <3>1. \A P : /\ Cardinality(In_pc(P)) \in Nat /\ Cardinality(In_pc(P))' \in Nat
                 /\ Cardinality(In_pc(P))' = Cardinality(In_pc(P))
                       - (IF child[i].pc \in P THEN 1 ELSE 0) + (IF "adding" \in P THEN 1 ELSE 0)
      BY <2>1, CountMoves
    <3> QED BY <3>1
  <2> HIDE DEF n, m
  <2> QED BY <1>1, <2>2
<1>6. spent = Total(child, Items) /\ spent + n * most < Cap + Lanes * most
  BY DEF MoneyInv
<1>7. spent' = Total(child, Items)'
  BY <1>1, <1>4, <1>6
<1>8. spent' + m * most < Cap + Lanes' * most
  <2> DEFINE room == Cap + Lanes * most
  <2>1. m * most = n * most - most /\ n * most \in Nat /\ room \in Nat
    <3> HIDE DEF n, m, most, Lanes
    <3> QED BY <1>2, <1>5
  <2>2. spent + n * most < room
    BY <1>6
  <2> HIDE DEF n, m, most, room, Lanes
  <2>3. spent' + m * most < room
    BY <1>1, <1>2, <2>1, <2>2
  <2> QED BY <1>2, <2>3 DEF room
<1> QED
  BY <1>7, <1>8 DEF MoneyInv

\* Only the two steps of `record` change what the tokens come to.
LEMMA TokensKept ==
  ASSUME FanoutInv, AccountTypes, TokensInv, NEW i \in Items, NEW p, NEW r,
         Becomes(i, p, child[i].cost, r), usage' = usage, child[i].pc # "adding", p # "adding"
  PROVE  TokensInv'
<1>1. FanoutShape /\ child[i].cost \in Nat
  BY DEF FanoutInv, AccountTypes
<1>2. Total(Settled, Items)' = Total(Settled, Items)
  <2>1. /\ Total(Settled, Items) \in Nat
        /\ Total(Settled, Items)' = Total(Settled, Items)
              - (IF child[i].pc = "adding" THEN 0 ELSE child[i].cost)
              + (IF p = "adding" THEN 0 ELSE child[i].cost)
    BY <1>1, SettledMoves
  <2> QED BY <1>1, <2>1
<1>3. \A j \in In_pc({"adding"})' : j \in In_pc({"adding"}) /\ child'[j] = child[j]
  <2>1. \A j \in Items : j # i => child'[j] = child[j]
    BY <1>1, Becoming
  <2>2. child'[i].pc = p
    BY <1>1, Becoming
  <2> QED BY <2>1, <2>2 DEF In_pc
<1>4. parallel' = parallel
  BY DEF Becomes
<1> HIDE DEF In_pc, Becomes
<1> QED
  BY <1>2, <1>3, <1>4 DEF TokensInv

\* `self.usage + usage` begins from what is there.
LEMMA SumBegins ==
  ASSUME FanoutInv, AccountTypes, ThreadsInv, TokensInv, NEW i \in Items, NEW c \in Prices,
         record_spend(i, c)
  PROVE  TokensInv'
<1>1. /\ FanoutShape /\ child[i].pc = "calling" /\ c \in Nat /\ usage' = usage
      /\ Becomes(i, "adding", c, usage)
  BY DearestPrice DEF FanoutInv, record_spend, Becomes
<1>2. child[i].cost = 0
  BY <1>1 DEF ThreadsInv, In_pc
<1>3. Total(Settled, Items)' = Total(Settled, Items)
  <2>1. FanoutShape /\ c \in Nat /\ Becomes(i, "adding", c, usage)
    BY <1>1
  <2>2. /\ Total(Settled, Items) \in Nat
        /\ Total(Settled, Items)' = Total(Settled, Items)
              - (IF child[i].pc = "adding" THEN 0 ELSE child[i].cost)
              + (IF "adding" = "adding" THEN 0 ELSE c)
    BY <2>1, SettledMoves
  <2> QED BY <1>1, <1>2, <2>2
<1>4. /\ \A j \in Items : j # i => child'[j] = child[j]
      /\ child'[i].read = usage
  <2>1. FanoutShape /\ Becomes(i, "adding", c, usage)
    BY <1>1
  <2> QED BY <2>1, Becoming
<1>5. \A j \in In_pc({"adding"})' : \/ j = i /\ child'[j].read = usage
                                    \/ j \in In_pc({"adding"}) /\ child'[j].read = child[j].read
  BY <1>4 DEF In_pc
<1>6. parallel' = parallel
  BY <1>1 DEF Becomes
<1> HIDE DEF In_pc
<1> QED
  BY <1>1, <1>3, <1>5, <1>6 DEF TokensInv

\* What it began from may be out of date, but never too much.
LEMMA SumEnds ==
  ASSUME FanoutInv, AccountTypes, ThreadsInv, TokensInv, NEW i \in Items, record_usage(i)
  PROVE  TokensInv'
<1> DEFINE c == child[i].cost
           r == child[i].read
           sum == Total(Settled, Items)
<1>1. child[i].pc = "adding" /\ usage' = r + c /\ c \in Nat /\ r \in Nat
  BY DEF record_usage, Moves, AccountTypes
<1>2. FanoutShape /\ Becomes(i, "tracing", c, r)
  <2>1. Moves(i, "adding", "tracing") /\ parallel' = parallel
    BY DEF record_usage
  <2>2. child' = [child EXCEPT ![i] = [pc |-> "tracing", cost |-> child[i].cost, read |-> child[i].read]]
    BY <2>1, MovesAre
  <2> QED BY <2>1, <2>2 DEF Becomes, FanoutInv
<1>3. sum' = sum + c /\ sum \in Nat
  <2>1. /\ Total(Settled, Items) \in Nat
        /\ Total(Settled, Items)' = Total(Settled, Items)
              - (IF child[i].pc = "adding" THEN 0 ELSE c)
              + (IF "tracing" = "adding" THEN 0 ELSE c)
    <3>1. c \in Nat
      BY <1>1
    <3> HIDE DEF c, r
    <3> QED BY <1>2, <3>1, SettledMoves DEF c
  <2> QED BY <1>1, <2>1
<1>4. /\ \A j \in Items : j # i => child'[j] = child[j]
      /\ child'[i].pc = "tracing"
  BY <1>2, Becoming
<1>5. \A j \in In_pc({"adding"})' : j # i /\ j \in In_pc({"adding"}) /\ child'[j] = child[j]
  BY <1>4 DEF In_pc
<1>6. i \in In_pc({"adding"}) /\ In_pc({"adding"}) \subseteq Active
  BY <1>1 DEF In_pc, Active, Resting
<1>7. /\ \A j \in In_pc({"adding"}) : child[j].read \in Nat /\ child[j].read <= sum
      /\ parallel <= 1 => sum = r
  BY <1>6 DEF TokensInv, AccountTypes, In_pc
<1>8. parallel <= 1 => In_pc({"adding"})' = {}
  BY <1>5, <1>6, AloneAtWork
<1>9. usage' <= sum' /\ (parallel <= 1 => usage' = sum')
  <2>1. r <= sum
    BY <1>6, <1>7
  <2> HIDE DEF sum, r, c
  <2> QED BY <1>1, <1>3, <1>7, <2>1
<1>10. \A j \in In_pc({"adding"})' : child'[j].read <= sum'
  <2> HIDE DEF sum, c
  <2> QED BY <1>1, <1>3, <1>5, <1>7
<1>11. parallel' = parallel
  BY <1>2 DEF Becomes
<1> QED
  BY <1>8, <1>9, <1>10, <1>11 DEF TokensInv

\* Only the two steps of the ledger's `record` change it.
LEMMA LedgerKept ==
  ASSUME FanoutInv, AccountTypes, LedgerInv, NEW i \in Items, NEW p, NEW c \in Nat, NEW r,
         Becomes(i, p, c, r), events' = events,
         child[i].pc \notin {"appending", "done"}, p \notin {"appending", "done"}
  PROVE  LedgerInv'
<1>1. FanoutShape
  BY DEF FanoutInv
<1>2. /\ \A j \in Items : j # i => child'[j] = child[j]
      /\ child'[i].pc = p
  BY <1>1, Becoming
<1>3. /\ In_pc({"done"})' = In_pc({"done"})
      /\ \A j \in In_pc({"appending"})' : j \in In_pc({"appending"}) /\ child'[j] = child[j]
  BY <1>2 DEF In_pc
<1>4. parallel' = parallel
  BY DEF Becomes
<1> HIDE DEF In_pc, Becomes
<1> QED
  BY <1>3, <1>4 DEF LedgerInv

\* An event is numbered by those that are there;
LEMMA EventIsNumbered ==
  ASSUME FanoutInv, AccountTypes, LedgerInv, NEW i \in Items, number_event(i)
  PROVE  LedgerInv'
<1>1. /\ FanoutShape /\ child[i].pc = "tracing" /\ events' = events
      /\ Becomes(i, "appending", child[i].cost, Len(events))
  BY DEF FanoutInv, number_event, Becomes
<1>2. /\ \A j \in Items : j # i => child'[j] = child[j]
      /\ child'[i].pc = "appending" /\ child'[i].read = Len(events)
  BY <1>1, Becoming
<1>3. /\ In_pc({"done"})' = In_pc({"done"})
      /\ \A j \in In_pc({"appending"})' :
            \/ child'[j].read = Len(events)
            \/ j \in In_pc({"appending"}) /\ child'[j] = child[j]
  BY <1>1, <1>2 DEF In_pc
<1>4. parallel' = parallel /\ Len(events) \in Nat
  BY <1>1 DEF Becomes, AccountTypes
<1> HIDE DEF In_pc
<1> QED
  BY <1>1, <1>3, <1>4 DEF LedgerInv

\* others may have come in between, but none goes.
LEMMA EventIsAppended ==
  ASSUME FanoutInv, AccountTypes, ThreadsInv, LedgerInv, NEW i \in Items, append_event(i)
  PROVE  LedgerInv'
<1> DEFINE n == Len(events)
           seq == child[i].read
<1>1. child[i].pc = "appending" /\ events' = Append(events, seq) /\ seq \in Nat /\ n \in Nat
  BY DEF append_event, Moves, AccountTypes
<1>2. FanoutShape /\ child[i].cost \in Nat /\ Becomes(i, "done", child[i].cost, seq)
  <2>1. Moves(i, "appending", "done") /\ parallel' = parallel
    BY DEF append_event
  <2>2. child' = [child EXCEPT ![i] = [pc |-> "done", cost |-> child[i].cost, read |-> child[i].read]]
    BY <2>1, MovesAre
  <2> QED BY <2>1, <2>2 DEF Becomes, FanoutInv, AccountTypes
<1>3. /\ \A j \in Items : j # i => child'[j] = child[j]
      /\ child'[i].pc = "done"
  BY <1>2, Becoming
<1>4. /\ In_pc({"done"})' = In_pc({"done"}) \cup {i} /\ i \notin In_pc({"done"})
      /\ \A j \in In_pc({"appending"})' : j # i /\ j \in In_pc({"appending"}) /\ child'[j] = child[j]
      /\ i \in In_pc({"appending"}) /\ In_pc({"appending"}) \subseteq Active
  BY <1>1, <1>3 DEF In_pc, Active, Resting
<1>5. /\ events \in Seq(Nat) /\ Len(events') = n + 1 /\ events'[n + 1] = seq
      /\ \A k \in 1..n : events'[k] = events[k]
  BY <1>1 DEF AccountTypes
<1>6. Len(events') = Cardinality(In_pc({"done"})')
  <2>1. IsFiniteSet(In_pc({"done"})) /\ n = Cardinality(In_pc({"done"}))
    BY Counts DEF LedgerInv
  <2>2. Cardinality(In_pc({"done"}) \cup {i}) = Cardinality(In_pc({"done"})) + 1
    BY <1>4, <2>1, FS_AddElement
  <2> HIDE DEF n
  <2> QED BY <1>4, <1>5, <2>1, <2>2
<1>7. seq <= n /\ (parallel <= 1 => seq = n)
  BY <1>4 DEF LedgerInv
<1>8. \A k \in 1..(n + 1) : events'[k] < k /\ (parallel <= 1 => events'[k] = k - 1)
  <2>1. \A k \in 1..n : events[k] < k /\ (parallel <= 1 => events[k] = k - 1)
    BY DEF LedgerInv
  <2> HIDE DEF n, seq
  <2>2. \A k \in 1..(n + 1) : k \in 1..n \/ k = n + 1
    BY <1>1
  <2> QED BY <1>1, <1>5, <1>7, <2>1, <2>2
<1>9. \A j \in In_pc({"appending"})' : child'[j].read <= Len(events')
  <2>1. \A j \in In_pc({"appending"}) : child[j].read \in Nat /\ child[j].read <= n
    BY <1>4 DEF LedgerInv, AccountTypes, In_pc
  <2> HIDE DEF n, seq
  <2> QED BY <1>1, <1>4, <1>5, <2>1
<1>10. parallel <= 1 => In_pc({"appending"})' = {}
  BY <1>4, AloneAtWork
<1>11. parallel' = parallel
  BY <1>2 DEF Becomes
<1> HIDE DEF In_pc, n
<1> QED
  BY <1>5, <1>6, <1>8, <1>9, <1>10, <1>11 DEF LedgerInv

\* A move with its cost and its place of reading, as a child's step makes it.
LEMMA Moving ==
  ASSUME FanoutInv, AccountTypes, NEW i \in Items, NEW from, NEW to \in Resting \cup Working,
         Moves(i, from, to), parallel' = parallel,
         spent' \in Nat, usage' \in Nat, events' \in Seq(Nat)
  PROVE  /\ child[i].pc = from
         /\ child[i].cost \in Nat /\ child[i].read \in Nat
         /\ Becomes(i, to, child[i].cost, child[i].read)
         /\ AccountTypes'
<1>1. child' = [child EXCEPT ![i] = [pc |-> to, cost |-> child[i].cost, read |-> child[i].read]]
  BY MovesAre
<1>2. child[i].cost \in Nat /\ child[i].read \in Nat /\ FanoutShape
  BY DEF AccountTypes, FanoutInv
<1>3. Becomes(i, to, child[i].cost, child[i].read)
  BY <1>1 DEF Becomes
<1>4. AccountTypes'
  BY <1>2, <1>3, TypesKept
<1> QED
  BY <1>2, <1>3, <1>4 DEF Moves

LEMMA ChildrenKeepAccounts ==
  ASSUME FanoutInv, AccountsInv, NEW i \in Items, ChildStep(i)
  PROVE  AccountsInv'
<1>1. AccountTypes /\ ThreadsInv /\ MoneyInv /\ TokensInv /\ LedgerInv
  BY DEF AccountsInv
<1>2. spent \in Nat /\ usage \in Nat /\ events \in Seq(Nat) /\ child[i].cost \in Nat /\ child[i].read \in Nat
  BY <1>1 DEF AccountTypes
<1>3. CASE start_child(i)
  <2>1. Moves(i, "queued", "check") /\ UNCHANGED <<parallel, mapped, spent, usage, events>>
    BY <1>3 DEF start_child
  <2>2. "check" \in Resting \cup Working
    BY DEF Working
  <2>3. /\ child[i].pc = "queued" /\ AccountTypes'
        /\ Becomes(i, "check", child[i].cost, child[i].read)
    BY <1>1, <1>2, <2>1, <2>2, Moving
  <2>4. ThreadsInv'
    BY <1>1, <1>3, <2>3, ThreadStarts
  <2>5. MoneyInv' /\ TokensInv' /\ LedgerInv'
    <3>1. MoneyInv'
      BY <1>1, <2>1, <2>3, MoneyKept
    <3>2. TokensInv'
      BY <1>1, <2>1, <2>3, TokensKept
    <3>3. LedgerInv'
      BY <1>1, <1>2, <2>1, <2>3, LedgerKept
    <3> QED BY <3>1, <3>2, <3>3
  <2> QED BY <2>3, <2>4, <2>5 DEF AccountsInv
<1>4. CASE check(i)
  <2> DEFINE to == IF spent >= Cap THEN "raised" ELSE "calling"
  <2>1. Moves(i, "check", to) /\ UNCHANGED <<parallel, mapped, spent, usage, events>>
    BY <1>4 DEF check
  <2>2. to \in Resting \cup Working /\ to \in {"raised", "calling"}
    BY DEF Resting, Working
  <2>3. \/ to = "raised"
        \/ to = "calling" /\ spent < Cap
    BY <1>2, FanoutAssumption
  <2> HIDE DEF to
  <2>4. /\ child[i].pc = "check" /\ AccountTypes'
        /\ Becomes(i, to, child[i].cost, child[i].read)
    BY <1>1, <1>2, <2>1, <2>2, Moving
  <2>5. child[i].cost = 0 /\ child[i].pc \in Working
    BY <1>1, <2>4 DEF ThreadsInv, In_pc, Working
  <2>6. ThreadsInv'
    BY <1>1, <1>2, <2>1, <2>2, <2>4, <2>5, ThreadsKept
  <2>7. TokensInv' /\ LedgerInv'
    BY <1>1, <1>2, <2>1, <2>2, <2>4, TokensKept, LedgerKept
  <2>8. CASE to = "raised"
    <3>1. to # "calling"
      BY <2>8
    <3>2. MoneyInv'
      BY <1>1, <2>1, <2>4, <3>1, MoneyKept
    <3> QED BY <2>4, <2>6, <2>7, <3>2 DEF AccountsInv
  <2>9. CASE to = "calling" /\ spent < Cap
    <3>1. Becomes(i, "calling", child[i].cost, child[i].read)
      BY <2>4, <2>9
    <3>2. MoneyInv'
      BY <1>1, <2>1, <2>4, <2>9, <3>1, CallIsAffordable
    <3> QED BY <2>4, <2>6, <2>7, <3>2 DEF AccountsInv
  <2> QED BY <2>3, <2>8, <2>9
<1>5. CASE call_raises(i)
  <2>1. Moves(i, "calling", "raised") /\ UNCHANGED <<parallel, mapped, spent, usage, events>>
    BY <1>5 DEF call_raises
  <2>2. "raised" \in Resting \cup Working
    BY DEF Resting
  <2>3. /\ child[i].pc = "calling" /\ AccountTypes'
        /\ Becomes(i, "raised", child[i].cost, child[i].read)
    BY <1>1, <1>2, <2>1, <2>2, Moving
  <2>4. child[i].cost = 0 /\ child[i].pc \in Working
    BY <1>1, <2>3 DEF ThreadsInv, In_pc, Working
  <2>5. ThreadsInv'
    BY <1>1, <1>2, <2>1, <2>2, <2>3, <2>4, ThreadsKept
  <2>6. MoneyInv' /\ TokensInv' /\ LedgerInv'
    <3>1. MoneyInv'
      BY <1>1, <2>1, <2>3, MoneyKept
    <3>2. TokensInv'
      BY <1>1, <2>1, <2>3, TokensKept
    <3>3. LedgerInv'
      BY <1>1, <1>2, <2>1, <2>3, LedgerKept
    <3> QED BY <3>1, <3>2, <3>3
  <2> QED BY <2>3, <2>5, <2>6 DEF AccountsInv
<1>6. ASSUME NEW c \in Prices, record_spend(i, c) PROVE AccountsInv'
  <2>1. /\ child[i].pc = "calling" /\ Becomes(i, "adding", c, usage) /\ spent' = spent + c
        /\ UNCHANGED <<parallel, mapped, usage, events>>
    BY <1>6 DEF record_spend, Becomes
  <2>2. c \in Nat /\ "adding" \in Resting \cup Working /\ child[i].pc \in Working /\ FanoutShape
    BY <2>1, DearestPrice DEF Working, FanoutInv
  <2>3. spent' \in Nat /\ usage' \in Nat /\ events' \in Seq(Nat)
    BY <1>2, <2>1, <2>2
  <2>4. AccountTypes'
    BY <1>1, <1>2, <2>1, <2>2, <2>3, TypesKept
  <2>5. "adding" \notin {"queued", "cancelled", "check", "calling", "raised"}
    OBVIOUS
  <2>6. ThreadsInv'
    BY <1>1, <1>2, <2>1, <2>2, <2>4, <2>5, ThreadsKept
  <2>7. MoneyInv' /\ TokensInv'
    BY <1>1, <1>6, SpendIsExact, SumBegins
  <2>8. LedgerInv'
    BY <1>1, <2>1, <2>2, LedgerKept
  <2> QED BY <2>4, <2>6, <2>7, <2>8 DEF AccountsInv
<1>7. CASE record_usage(i)
  <2>1. /\ Moves(i, "adding", "tracing") /\ UNCHANGED <<parallel, mapped, spent, events>>
        /\ usage' \in Nat
    BY <1>2, <1>7 DEF record_usage
  <2>2. "tracing" \in Resting \cup Working
    BY DEF Working
  <2>3. /\ child[i].pc = "adding" /\ AccountTypes'
        /\ Becomes(i, "tracing", child[i].cost, child[i].read)
    BY <1>1, <1>2, <2>1, <2>2, Moving
  <2>4. child[i].pc \in Working
    BY <2>3 DEF Working
  <2>5. ThreadsInv'
    BY <1>1, <1>2, <2>1, <2>2, <2>3, <2>4, ThreadsKept
  <2>6. MoneyInv' /\ LedgerInv'
    <3>1. MoneyInv'
      BY <1>1, <2>1, <2>3, MoneyKept
    <3>2. LedgerInv'
      BY <1>1, <1>2, <2>1, <2>3, LedgerKept
    <3> QED BY <3>1, <3>2
  <2>7. TokensInv'
    BY <1>1, <1>7, SumEnds
  <2> QED BY <2>3, <2>5, <2>6, <2>7 DEF AccountsInv
<1>8. CASE number_event(i)
  <2>1. /\ child[i].pc = "tracing" /\ Becomes(i, "appending", child[i].cost, Len(events))
        /\ UNCHANGED <<parallel, mapped, spent, usage, events>>
    BY <1>8 DEF number_event, Becomes
  <2>2. /\ Len(events) \in Nat /\ "appending" \in Resting \cup Working /\ child[i].pc \in Working
        /\ FanoutShape
    BY <1>2, <2>1 DEF Working, FanoutInv
  <2>3. AccountTypes'
    BY <1>1, <1>2, <2>1, <2>2, TypesKept
  <2>4. "appending" \notin {"queued", "cancelled", "check", "calling", "raised"}
    OBVIOUS
  <2>5. ThreadsInv'
    BY <1>1, <1>2, <2>1, <2>2, <2>3, <2>4, ThreadsKept
  <2>6. MoneyInv' /\ TokensInv'
    BY <1>1, <2>1, MoneyKept, TokensKept
  <2>7. LedgerInv'
    BY <1>1, <1>8, EventIsNumbered
  <2> QED BY <2>3, <2>5, <2>6, <2>7 DEF AccountsInv
<1>9. CASE append_event(i)
  <2>1. /\ Moves(i, "appending", "done") /\ UNCHANGED <<parallel, mapped, spent, usage>>
        /\ events' \in Seq(Nat)
    BY <1>2, <1>9 DEF append_event
  <2>2. "done" \in Resting \cup Working
    BY DEF Resting
  <2>3. /\ child[i].pc = "appending" /\ AccountTypes'
        /\ Becomes(i, "done", child[i].cost, child[i].read)
    BY <1>1, <1>2, <2>1, <2>2, Moving
  <2>4. child[i].pc \in Working
    BY <2>3 DEF Working
  <2>5. ThreadsInv'
    BY <1>1, <1>2, <2>1, <2>2, <2>3, <2>4, ThreadsKept
  <2>6. MoneyInv' /\ TokensInv'
    <3>1. /\ spent' = spent /\ usage' = usage /\ "done" \notin {"calling", "adding"}
          /\ child[i].pc # "adding"
      BY <2>1, <2>3
    <3>2. MoneyInv'
      BY <1>1, <2>3, <3>1, MoneyKept
    <3>3. TokensInv'
      BY <1>1, <2>3, <3>1, TokensKept
    <3> QED BY <3>2, <3>3
  <2>7. LedgerInv'
    BY <1>1, <1>9, EventIsAppended
  <2> QED BY <2>3, <2>5, <2>6, <2>7 DEF AccountsInv
<1> QED
  BY <1>3, <1>4, <1>5, <1>6, <1>7, <1>8, <1>9 DEF ChildStep

----------------------------------------------------------------------------
(* The steps of the MapNode itself.                                         *)

\* What has cost nothing comes to nothing.
LEMMA NothingSpent ==
  ASSUME \A i \in Items : child[i].cost = 0
  PROVE  Total(child, Items) = 0 /\ Total(Settled, Items) = 0
<1> DEFINE was == Settled
<1>1. \A i \in Items : was[i].cost = 0
  BY DEF Settled
<1> HIDE DEF was
<1>2. IsFiniteSet(Items) /\ {} \in SUBSET Items
  BY FanoutAssumption
<1>3. Total(child, Items) = Total(child, {}) /\ Total(child, {}) = 0
  <2>1. \A i \in Items : child[i].cost \in Nat /\ child[i].cost = 0
    OBVIOUS
  <2> QED BY <1>2, <2>1, TotalSupport, TotalUnfolds
<1>4. Total(was, Items) = Total(was, {}) /\ Total(was, {}) = 0
  <2>1. \A i \in Items : was[i].cost \in Nat /\ was[i].cost = 0
    BY <1>1
  <2> QED BY <1>2, <2>1, TotalSupport, TotalUnfolds
<1> QED
  BY <1>3, <1>4 DEF was

\* Before the map, there is nothing on account, and whatever its width there is room.
LEMMA Quiet ==
  ASSUME \A i \in Items : child[i].pc = "queued" /\ child[i].cost = 0 /\ child[i].read = 0,
         parallel \in Nat, spent = 0, usage = 0, events = <<>>
  PROVE  AccountsInv
<1>1. Total(child, Items) = 0 /\ Total(Settled, Items) = 0
  BY NothingSpent
<1>2. /\ Active = {} /\ In_pc({"calling"}) = {} /\ In_pc({"adding"}) = {}
      /\ In_pc({"done"}) = {} /\ In_pc({"appending"}) = {}
  BY DEF Active, In_pc, Resting
<1>3. Cardinality({}) = 0
  BY FS_EmptySet
<1>4. AccountTypes
  BY DEF AccountTypes, Resting
<1>5. Lanes \in Nat /\ Lanes > 0
  BY DEF Lanes
<1>6. ThreadsInv
  BY <1>2, <1>3, <1>5 DEF ThreadsInv, In_pc
<1>7. MoneyInv
  <2> DEFINE most == Max(Prices)
  <2>1. most \in Nat /\ most > 0 /\ Cap \in Nat
    BY DearestPrice, FanoutAssumption
  <2> HIDE DEF most
  <2>2. Lanes * most \in Nat /\ Lanes * most > 0 /\ 0 * most = 0
    BY <1>5, <2>1
  <2>3. spent + 0 * most < Cap + Lanes * most
    BY <2>1, <2>2
  <2> QED BY <1>1, <1>2, <1>3, <2>3 DEF MoneyInv, most
<1>8. TokensInv
  BY <1>1, <1>2 DEF TokensInv
<1>9. LedgerInv
  <2>1. Len(events) = 0 /\ 1..0 = {}
    OBVIOUS
  <2> QED BY <1>2, <1>3, <2>1 DEF LedgerInv
<1> QED
  BY <1>4, <1>6, <1>7, <1>8, <1>9 DEF AccountsInv

\* A map begins with nothing on account, so that whatever its width there is room.
LEMMA MapBegins ==
  ASSUME AccountsInv, NEW w \in Widths, map_node(w)
  PROVE  AccountsInv'
<1>1. /\ mapped = "idle" /\ mapped' = "running" /\ UNCHANGED <<child, spent, usage, events>>
      /\ parallel' \in Nat
  BY FanoutAssumption DEF map_node
<1>2. AccountTypes /\ ThreadsInv /\ MoneyInv /\ TokensInv /\ LedgerInv
  BY DEF AccountsInv
<1>3. \A i \in Items : child[i].pc = "queued"
  BY <1>1, <1>2 DEF ThreadsInv
<1>4. \A i \in Items : child[i].cost = 0
  BY <1>2, <1>3 DEF ThreadsInv, In_pc
<1>5. Total(child, Items) = 0 /\ Total(Settled, Items) = 0
  BY <1>4, NothingSpent
<1>6. Total(child, Items)' = 0 /\ Total(Settled, Items)' = 0
  BY <1>1, <1>5 DEF Settled
<1>7. spent = 0 /\ usage = 0
  BY <1>2, <1>5 DEF MoneyInv, TokensInv, AccountTypes
<1>8. /\ Active = {} /\ In_pc({"calling"}) = {} /\ In_pc({"adding"}) = {}
      /\ In_pc({"done"}) = {} /\ In_pc({"appending"}) = {}
  BY <1>3 DEF Active, In_pc, Resting
<1>9. /\ Active' = {} /\ In_pc({"calling"})' = {} /\ In_pc({"adding"})' = {}
      /\ In_pc({"done"})' = {} /\ In_pc({"appending"})' = {}
  BY <1>1, <1>3 DEF Active, In_pc, Resting
<1>10. Cardinality({}) = 0
  BY FS_EmptySet
<1>11. AccountTypes'
  BY <1>1, <1>2 DEF AccountTypes
<1>12. Lanes' \in Nat /\ Lanes' > 0
  BY <1>1 DEF Lanes
<1>13. ThreadsInv'
  <2>1. \A i \in Items : child'[i].cost = 0
    BY <1>1, <1>4
  <2> QED BY <1>1, <1>9, <1>10, <1>12, <2>1 DEF ThreadsInv, In_pc
<1>14. MoneyInv'
  <2> DEFINE most == Max(Prices)
             lanes == Lanes'
  <2>1. most \in Nat /\ most > 0 /\ Cap \in Nat /\ lanes \in Nat /\ lanes > 0
    BY <1>12, DearestPrice, FanoutAssumption
  <2> HIDE DEF most, lanes
  <2>2. lanes * most \in Nat /\ lanes * most > 0 /\ 0 * most = 0
    BY <2>1
  <2>3. 0 + 0 * most < Cap + lanes * most
    BY <2>1, <2>2
  <2>4. spent' = 0 /\ spent' = Total(child, Items)' /\ Cardinality(In_pc({"calling"})') = 0
    BY <1>1, <1>6, <1>7, <1>9, <1>10
  <2> QED BY <2>3, <2>4 DEF MoneyInv, most, lanes
<1>15. TokensInv'
  BY <1>1, <1>6, <1>7, <1>9 DEF TokensInv
<1>16. LedgerInv'
  <2>1. Len(events) = 0
    BY <1>2, <1>8, <1>10 DEF LedgerInv
  <2>2. Len(events') = 0 /\ 1..0 = {}
    BY <1>1, <2>1
  <2>3. Cardinality(In_pc({"done"})') = 0
    BY <1>9, <1>10
  <2> QED BY <1>9, <2>2, <2>3 DEF LedgerInv
<1> QED
  BY <1>11, <1>13, <1>14, <1>15, <1>16 DEF AccountsInv

\* Where the children stay, their accounts do; what is cancelled had none.
LEMMA AccountsStay ==
  ASSUME AccountsInv, UNCHANGED <<parallel, spent, usage, events>>,
         mapped' = "idle" => mapped = "idle" /\ child' = child,
         \A i \in Items :
            \/ child'[i] = child[i]
            \/ /\ child[i].pc = "queued" /\ child'[i].pc = "cancelled"
               /\ child'[i].cost = child[i].cost /\ child'[i].read = child[i].read
  PROVE  AccountsInv'
<1>1. AccountTypes /\ ThreadsInv /\ MoneyInv /\ TokensInv /\ LedgerInv
  BY DEF AccountsInv
<1>2. \A i \in Items : /\ child'[i].cost = child[i].cost /\ child'[i].read = child[i].read
                       /\ child'[i].pc \in {child[i].pc, "cancelled"}
                       /\ child[i].cost \in Nat /\ child[i].read \in Nat
                       /\ child[i].pc \in Resting \cup Working
  BY <1>1 DEF AccountTypes
<1>3. \A i \in Items : child'[i].pc # child[i].pc => child[i].pc = "queued" /\ child'[i].pc = "cancelled"
  OBVIOUS
<1>4. /\ Active' = Active /\ In_pc({"calling"})' = In_pc({"calling"})
      /\ In_pc({"adding"})' = In_pc({"adding"}) /\ In_pc({"done"})' = In_pc({"done"})
      /\ In_pc({"appending"})' = In_pc({"appending"})
  BY <1>3 DEF Active, In_pc, Resting
<1>5. Total(child, Items)' = Total(child, Items)
  <2> DEFINE now == child'
  <2>1. IsFiniteSet(Items) /\ \A i \in Items : child[i].cost \in Nat /\ now[i].cost = child[i].cost
    BY <1>2, FanoutAssumption
  <2> HIDE DEF now
  <2>2. Total(now, Items) = Total(child, Items)
    BY <2>1, TotalAgrees
  <2> QED BY <2>2 DEF now
<1>6. Total(Settled, Items)' = Total(Settled, Items)
  <2> DEFINE was == Settled
             now == Settled'
  <2>1. /\ \A i \in Items : was[i].cost = IF child[i].pc = "adding" THEN 0 ELSE child[i].cost
        /\ \A i \in Items : now[i].cost = IF child'[i].pc = "adding" THEN 0 ELSE child'[i].cost
    BY DEF Settled
  <2> HIDE DEF was, now
  <2>2. \A i \in Items : was[i].cost \in Nat /\ now[i].cost = was[i].cost
    BY <1>2, <1>3, <2>1
  <2>3. Total(now, Items) = Total(was, Items)
    BY <2>2, FanoutAssumption, TotalAgrees
  <2> QED BY <2>3 DEF was, now
<1>7. AccountTypes'
  <2>1. "cancelled" \in Resting
    BY DEF Resting
  <2> QED BY <1>1, <1>2, <2>1 DEF AccountTypes
<1>8. ThreadsInv'
  <2>1. \A i \in In_pc({"queued", "cancelled", "check", "calling", "raised"})' :
           i \in In_pc({"queued", "cancelled", "check", "calling", "raised"})
    BY <1>3 DEF In_pc
  <2>2. \A i \in Items : child[i].pc = "done" => child'[i].pc = "done"
    BY <1>3
  <2>3. Lanes' = Lanes
    BY DEF Lanes
  <2>4. mapped' = "idle" => \A i \in Items : child'[i].pc = "queued"
    BY <1>1 DEF ThreadsInv
  <2>5. \A i \in In_pc({"queued", "cancelled", "check", "calling", "raised"})' : child'[i].cost = 0
    BY <1>1, <1>2, <2>1 DEF ThreadsInv, In_pc
  <2>6. parallel' <= 1 => \A i \in Active' : \A j \in Items : j < i => child'[j].pc = "done"
    BY <1>1, <1>4, <2>2 DEF ThreadsInv
  <2>7. Cardinality(Active') <= Lanes'
    BY <1>1, <1>4, <2>3 DEF ThreadsInv
  <2> QED BY <2>4, <2>5, <2>6, <2>7 DEF ThreadsInv
<1>9. MoneyInv'
  <2>1. Lanes' = Lanes
    BY DEF Lanes
  <2> QED BY <1>1, <1>4, <1>5, <2>1 DEF MoneyInv
<1>10. TokensInv'
  <2>1. \A i \in In_pc({"adding"}) : child'[i].read = child[i].read
    BY <1>2 DEF In_pc
  <2> QED BY <1>1, <1>4, <1>6, <2>1 DEF TokensInv
<1>11. LedgerInv'
  <2>1. \A i \in In_pc({"appending"}) : child'[i].read = child[i].read
    BY <1>2 DEF In_pc
  <2> QED BY <1>1, <1>4, <2>1 DEF LedgerInv
<1> QED
  BY <1>7, <1>8, <1>9, <1>10, <1>11 DEF AccountsInv

\* The items whose call was answered, and those whose tokens are added.
LEMMA BillsAre ==
  ASSUME AccountTypes
  PROVE  Billed(Charged) = Total(child, Items) /\ Billed(Added) = Total(Settled, Items)
<1> DEFINE was == Settled
<1>1. \A i \in Items : was[i].cost = IF child[i].pc = "adding" THEN 0 ELSE child[i].cost
  BY DEF Settled
<1> HIDE DEF was
<1>2. IsFiniteSet(Items) /\ Charged \in SUBSET Items /\ Added \in SUBSET Items
  BY FanoutAssumption DEF Charged, Added
<1>3. \A i \in Items : child[i].cost \in Nat /\ was[i].cost \in Nat
  BY <1>1 DEF AccountTypes
<1>4. Total(child, Items) = Total(child, Charged)
  <2>1. \A i \in Items \ Charged : child[i].cost = 0
    BY DEF Charged
  <2> QED BY <1>2, <1>3, <2>1, TotalSupport
<1>5. Total(was, Items) = Total(was, Added)
  <2>1. \A i \in Items \ Added : was[i].cost = 0
    BY <1>1 DEF Charged, Added
  <2> QED BY <1>2, <1>3, <2>1, TotalSupport
<1>6. Total(child, Added) = Total(was, Added)
  <2>1. IsFiniteSet(Added)
    BY <1>2, FS_Subset
  <2>2. \A i \in Added : was[i].cost \in Nat /\ child[i].cost = was[i].cost
    BY <1>1, <1>2, <1>3 DEF Added
  <2> QED BY <2>1, <2>2, TotalAgrees
<1>7. \A S : Billed(S) = Total(child, S)
  BY DEF Billed, Total
<1> QED
  BY <1>4, <1>5, <1>6, <1>7 DEF was

\* Threads that share the governor and the ledger without a lock never miscount the
\* money, never invent tokens or lose an event, and overdraw the run by less than one
\* call each: however many items, whatever a call costs.
THEOREM AccountsAlwaysExact == Spec => []AccountsExact
<1>1. Init => AccountsInv
  <2> SUFFICES ASSUME FanoutInit PROVE AccountsInv
    BY DEF Init, SessionInit
  <2>1. \A i \in Items : child[i].pc = "queued" /\ child[i].cost = 0 /\ child[i].read = 0
    BY DEF FanoutInit
  <2> QED BY <2>1, Quiet DEF FanoutInit
<1>2. FanoutInv /\ AccountsInv /\ [Next]_vars => AccountsInv'
  <2> SUFFICES ASSUME FanoutInv, AccountsInv, [FanoutNext]_fanoutVars PROVE AccountsInv'
    BY FanoutSteps
  <2>1. ASSUME NEW w \in Widths, map_node(w) PROVE AccountsInv'
    BY <2>1, MapBegins
  <2>2. ASSUME NEW i \in Items, ChildStep(i) PROVE AccountsInv'
    BY <2>2, ChildrenKeepAccounts
  <2>3. CASE consume
    <3>1. /\ mapped' # "idle" /\ UNCHANGED <<parallel, spent, usage, events>>
      BY <2>3 DEF consume
    <3>2. \A i \in Items :
            \/ child'[i] = child[i]
            \/ /\ child[i].pc = "queued" /\ child'[i].pc = "cancelled"
               /\ child'[i].cost = child[i].cost /\ child'[i].read = child[i].read
      <4>1. \A i \in Items : child[i] = [pc |-> child[i].pc, cost |-> child[i].cost, read |-> child[i].read]
        BY DEF FanoutInv, FanoutShape
      <4>2. \/ child' = child
            \/ child' = [j \in Items |-> IF child[j].pc = "queued"
                                         THEN [child[j] EXCEPT !.pc = "cancelled"]
                                         ELSE child[j]]
        BY <2>3 DEF consume
      <4> QED BY <4>1, <4>2
    <3> QED BY <3>1, <3>2, AccountsStay
  <2>4. CASE leave_pool
    <3>1. mapped' # "idle" /\ UNCHANGED <<parallel, child, spent, usage, events>>
      BY <2>4 DEF leave_pool
    <3> QED BY <3>1, AccountsStay
  <2>5. CASE UNCHANGED fanoutVars
    BY <2>5, AccountsStay DEF fanoutVars
  <2> QED
    BY <2>1, <2>2, <2>3, <2>4, <2>5 DEF FanoutNext, FanoutStep
<1>3. AccountsInv => AccountsExact
  <2> SUFFICES ASSUME AccountsInv PROVE AccountsExact
    OBVIOUS
  <2>1. AccountTypes /\ MoneyInv /\ TokensInv /\ LedgerInv
    BY DEF AccountsInv
  <2>2. /\ spent = Billed(Charged) /\ usage <= Billed(Added)
        /\ parallel <= 1 => usage = Billed(Added)
    BY <2>1, BillsAre DEF MoneyInv, TokensInv
  <2>3. Len(events) = Cardinality({i \in Items : child[i].pc = "done"})
    <3>1. In_pc({"done"}) = {i \in Items : child[i].pc = "done"}
      BY DEF In_pc
    <3> QED BY <2>1, <3>1 DEF LedgerInv
  <2>4. \A k \in DOMAIN events : events[k] < k /\ (parallel <= 1 => events[k] = k - 1)
    BY <2>1 DEF LedgerInv, AccountTypes
  <2>5. spent < Cap + Lanes * Max(Prices)
    <3> DEFINE n == Cardinality(In_pc({"calling"}))
               most == Max(Prices)
    <3>1. /\ n \in Nat /\ most \in Nat /\ spent \in Nat /\ Lanes \in Nat /\ Cap \in Nat
      BY <2>1, Counts, DearestPrice, FanoutAssumption DEF AccountTypes, Lanes
    <3>2. spent + n * most < Cap + Lanes * most
      BY <2>1 DEF MoneyInv
    <3> HIDE DEF n, most, Lanes
    <3>3. n * most \in Nat /\ Lanes * most \in Nat
      BY <3>1
    <3>4. spent < Cap + Lanes * most
      BY <3>1, <3>2, <3>3
    <3> QED BY <3>4 DEF most
  <2> QED
    BY <2>2, <2>3, <2>4, <2>5 DEF AccountsExact, Lanes
<1>4. Spec => []FanoutInv
  BY AlwaysFanout
<1> QED
  BY <1>1, <1>2, <1>3, <1>4, PTL DEF Spec
====
