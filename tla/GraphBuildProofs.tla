---- MODULE GraphBuildProofs ----
(***************************************************************************)
(* What validate says of a graph is right, for every graph: Kahn's queue   *)
(* visits every node after all it depends on, or there is a cycle or a     *)
(* dependency written twice; the worklist finds all that is upstream and   *)
(* nothing else; the layers hold nodes that do not wait for each other.    *)
(***************************************************************************)
EXTENDS ApplicationProofs, SequenceTheorems

----------------------------------------------------------------------------
(* Recursion over the naturals.                                            *)

\* A step that stays in S can be taken again and again.
LEMMA Iterates ==
  ASSUME NEW S, NEW first \in S, NEW step \in [S -> S]
  PROVE  \E f \in [Nat -> S] : f[0] = first /\ \A i \in Nat : f[i + 1] = step[f[i]]
<1> DEFINE Whole == Nat \X S
           Holds(R) == /\ <<0, first>> \in R
                       /\ \A i \in Nat, s \in S : <<i, s>> \in R => <<i + 1, step[s]>> \in R
           Reached == {x \in Whole : \A R \in SUBSET Whole : Holds(R) => x \in R}
           Good == {i \in Nat : \E s \in S : /\ <<i, s>> \in Reached
                                             /\ \A t \in S : <<i, t>> \in Reached => t = s}
<1>1. /\ Reached \in SUBSET Whole
      /\ \A R \in SUBSET Whole : Holds(R) => Reached \subseteq R
  OBVIOUS
<1>2. Holds(Reached)
  <2>1. <<0, first>> \in Reached
    OBVIOUS
  <2>2. ASSUME NEW i \in Nat, NEW s \in S, <<i, s>> \in Reached PROVE <<i + 1, step[s]>> \in Reached
    <3>1. <<i + 1, step[s]>> \in Whole
      OBVIOUS
    <3>2. ASSUME NEW R \in SUBSET Whole, Holds(R) PROVE <<i + 1, step[s]>> \in R
      <4>1. <<i, s>> \in R
        BY <2>2, <3>2
      <4> QED BY <3>2, <4>1
    <3> QED BY <3>1, <3>2
  <2> QED BY <2>1, <2>2
<1> HIDE DEF Reached
<1>3. 0 \in Good
  <2>1. ASSUME NEW t \in S, <<0, t>> \in Reached, t # first PROVE FALSE
    <3> DEFINE R == Whole \ {<<0, t>>}
    <3>1. <<0, first>> \in R
      BY <2>1
    <3>2. ASSUME NEW i \in Nat, NEW s \in S PROVE <<i + 1, step[s]>> \in R
      <4>1. i + 1 # 0 /\ i + 1 \in Nat /\ step[s] \in S
        OBVIOUS
      <4> QED BY <4>1
    <3>3. R \in SUBSET Whole /\ Holds(R) /\ <<0, t>> \notin R
      <4> HIDE DEF Whole
      <4>1. Holds(R)
        <5> HIDE DEF R
        <5> QED BY <3>1, <3>2
      <4> QED BY <4>1
    <3> HIDE DEF R, Holds, Whole
    <3> QED BY <1>1, <2>1, <3>3
  <2>2. <<0, first>> \in Reached
    BY <1>2
  <2> QED BY <2>1, <2>2
<1>4. ASSUME NEW i \in Nat, i \in Good PROVE i + 1 \in Good
  <2>1. PICK s \in S : <<i, s>> \in Reached /\ \A t \in S : <<i, t>> \in Reached => t = s
    BY <1>4
  <2>2. <<i + 1, step[s]>> \in Reached
    BY <1>2, <2>1
  <2>3. ASSUME NEW t \in S, <<i + 1, t>> \in Reached, t # step[s] PROVE FALSE
    <3> DEFINE R == Reached \ {<<i + 1, t>>}
    <3>1. <<0, first>> \in R
      <4>1. 0 # i + 1 /\ <<0, first>> \in Reached
        BY <1>2
      <4> QED BY <4>1
    <3>2. ASSUME NEW j \in Nat, NEW u \in S, <<j, u>> \in R PROVE <<j + 1, step[u]>> \in R
      <4>1. <<j, u>> \in Reached /\ <<j + 1, step[u]>> \in Reached
        BY <1>2, <3>2
      <4>2. <<j + 1, step[u]>> # <<i + 1, t>>
        <5>1. CASE j = i
          BY <2>1, <2>3, <4>1, <5>1
        <5>2. CASE j # i
          <6>1. j + 1 # i + 1
            BY <5>2
          <6> QED BY <6>1
        <5> QED BY <5>1, <5>2
      <4> QED BY <4>1, <4>2
    <3>3. R \in SUBSET Whole /\ Holds(R) /\ <<i + 1, t>> \notin R
      <4>1. Holds(R)
        <5> HIDE DEF R
        <5> QED BY <3>1, <3>2
      <4> QED BY <1>1, <4>1
    <3> HIDE DEF R, Holds, Whole
    <3> QED BY <1>1, <2>3, <3>3
  <2>4. step[s] \in S /\ i + 1 \in Nat
    OBVIOUS
  <2> QED BY <2>2, <2>3, <2>4
<1>5. Nat \subseteq Good
  <2> HIDE DEF Good
  <2> QED BY <1>3, <1>4, FromOneToTheNext
<1> DEFINE f == [i \in Nat |-> CHOOSE s \in S : <<i, s>> \in Reached]
<1>6. \A i \in Nat : f[i] \in S /\ <<i, f[i]>> \in Reached
                     /\ \A t \in S : <<i, t>> \in Reached => t = f[i]
  BY <1>5
<1>7. f \in [Nat -> S]
  BY <1>6
<1>8. f[0] = first
  <2> HIDE DEF f
  <2> QED BY <1>2, <1>6
<1>9. \A i \in Nat : f[i + 1] = step[f[i]]
  <2> SUFFICES ASSUME NEW i \in Nat PROVE f[i + 1] = step[f[i]]
    OBVIOUS
  <2> HIDE DEF f
  <2>1. f[i] \in S /\ <<i, f[i]>> \in Reached
    BY <1>6
  <2>2. <<i + 1, step[f[i]]>> \in Reached /\ i + 1 \in Nat /\ step[f[i]] \in S
    BY <1>2, <2>1
  <2> QED BY <1>6, <2>2
<1> HIDE DEF f
<1> QED
  BY <1>7, <1>8, <1>9

----------------------------------------------------------------------------
(* _ancestors finds what is upstream.                                       *)

Known(S) == UNION {DepsOf(m) : m \in S}

\* The worklist after i rounds.
LEMMA Rounds ==
  ASSUME dependencies_known, NEW n \in DOMAIN nodes
  PROVE  \E up \in [Nat -> SUBSET DOMAIN nodes] :
           /\ up[0] = DepsOf(n)
           /\ \A i \in Nat : up[i + 1] = up[i] \cup Known(up[i])
           /\ ancestors(n) = up[Cardinality(DOMAIN nodes)]
<1> DEFINE All == DOMAIN nodes
           Eq(g) == g = [i \in Nat |-> IF i = 0 THEN DepsOf(n)
                                       ELSE g[i-1] \cup UNION {DepsOf(m) : m \in g[i-1]}]
           step == [X \in SUBSET All |-> X \cup Known(X)]
           up == CHOOSE g : Eq(g)
<1>1. /\ \A m \in All : DepsOf(m) \in SUBSET All
      /\ DepsOf(n) \in SUBSET All
  BY DEF dependencies_known
<1>2. \A X \in SUBSET All : Known(X) \in SUBSET All
  BY <1>1 DEF Known
<1>3. step \in [SUBSET All -> SUBSET All] /\ \A X \in SUBSET All : step[X] = X \cup Known(X)
  BY <1>2
<1>4. PICK f \in [Nat -> SUBSET All] : f[0] = DepsOf(n) /\ \A i \in Nat : f[i + 1] = step[f[i]]
  <2> DEFINE S == SUBSET All
  <2>1. DepsOf(n) \in S /\ step \in [S -> S]
    BY <1>1, <1>3
  <2>2. \E f \in [Nat -> S] : f[0] = DepsOf(n) /\ \A i \in Nat : f[i + 1] = step[f[i]]
    <3> HIDE DEF step, S
    <3> QED BY <2>1, Iterates
  <2> QED BY <2>2
<1>5. Eq(f)
  <2>1. ASSUME NEW i \in Nat
        PROVE  f[i] = IF i = 0 THEN DepsOf(n) ELSE f[i-1] \cup UNION {DepsOf(m) : m \in f[i-1]}
    <3>1. CASE i = 0
      BY <1>4, <3>1
    <3>2. CASE i # 0
      <4>1. i - 1 \in Nat /\ (i - 1) + 1 = i
        BY <3>2
      <4>2. f[(i - 1) + 1] = step[f[i-1]] /\ f[i-1] \in SUBSET All
        BY <1>4, <4>1
      <4> HIDE DEF step
      <4> QED BY <1>3, <3>2, <4>1, <4>2 DEF Known
    <3> QED BY <3>1, <3>2
  <2>2. f = [i \in Nat |-> f[i]]
    BY <1>4
  <2> QED BY <2>1, <2>2
<1>6. ancestors(n) = up[Cardinality(All)]
  BY DEF ancestors
<1>7. Eq(up)
  <2> HIDE DEF Eq
  <2> QED BY <1>5
<1> HIDE DEF up
<1>8. up[0] = DepsOf(n) /\ \A i \in Nat : up[i + 1] = up[i] \cup Known(up[i])
  <2>1. \A i \in Nat : up[i] = IF i = 0 THEN DepsOf(n)
                               ELSE up[i-1] \cup UNION {DepsOf(m) : m \in up[i-1]}
    BY <1>7
  <2>2. ASSUME NEW i \in Nat PROVE up[i + 1] = up[i] \cup Known(up[i])
    <3>1. i + 1 \in Nat /\ i + 1 # 0 /\ (i + 1) - 1 = i
      OBVIOUS
    <3> QED BY <2>1, <3>1 DEF Known
  <2> QED BY <2>1, <2>2
<1>9. up \in [Nat -> SUBSET All]
  <2> DEFINE Good == {i \in Nat : up[i] \in SUBSET All}
  <2>1. 0 \in Good
    BY <1>1, <1>8
  <2>2. ASSUME NEW i \in Nat, i \in Good PROVE i + 1 \in Good
    BY <1>2, <1>8, <2>2
  <2>3. Nat \subseteq Good
    <3> HIDE DEF Good
    <3> QED BY <2>1, <2>2, FromOneToTheNext
  <2>4. up = [i \in Nat |-> up[i]]
    BY <1>7
  <2> QED BY <2>3, <2>4
<1> QED
  BY <1>6, <1>8, <1>9

\* The dependencies of n and of what is in S are in S.
UpClosed(S, n) == \A k \in S \cup {n} : DepsOf(k) \cap DOMAIN nodes \subseteq S

LEMMA AboveIsLeast ==
  ASSUME NEW n
  PROVE  /\ Above(n) \in SUBSET DOMAIN nodes
         /\ \A S \in SUBSET DOMAIN nodes : UpClosed(S, n) => Above(n) \subseteq S
  BY DEF Above, UpClosed

LEMMA AboveIsClosed == ASSUME NEW n PROVE UpClosed(Above(n), n)
<1>1. ASSUME NEW k \in Above(n) \cup {n}, NEW d \in DepsOf(k) \cap DOMAIN nodes PROVE d \in Above(n)
  <2>1. ASSUME NEW S \in SUBSET DOMAIN nodes, UpClosed(S, n) PROVE d \in S
    <3>1. k \in S \cup {n}
      BY <1>1, <2>1, AboveIsLeast
    <3> QED BY <1>1, <2>1, <3>1 DEF UpClosed
  <2> QED BY <1>1, <2>1 DEF Above, UpClosed
<1> QED
  BY <1>1 DEF UpClosed

\* What is above what is above.
LEMMA AboveAbove == ASSUME NEW n, NEW m \in Above(n) PROVE Above(m) \subseteq Above(n)
<1>1. UpClosed(Above(n), m) /\ Above(n) \in SUBSET DOMAIN nodes
  BY AboveIsClosed, AboveIsLeast DEF UpClosed
<1> QED
  BY <1>1, AboveIsLeast

\* Each round finds a node more until there are none.
LEMMA AncestorsAreAbove ==
  ASSUME nodes \in Seq(NodeShapes), dependencies_known, NEW n \in DOMAIN nodes
  PROVE  ancestors(n) = Above(n)
<1> DEFINE All == DOMAIN nodes
<1>0. IsFiniteSet(All) /\ Cardinality(All) \in Nat
  <2>1. All = 1..Len(nodes) /\ Len(nodes) \in Nat
    OBVIOUS
  <2> QED BY <2>1, FS_Interval, FS_CardinalityType
<1>1. PICK up \in [Nat -> SUBSET All] :
           /\ up[0] = DepsOf(n)
           /\ \A i \in Nat : up[i + 1] = up[i] \cup Known(up[i])
           /\ ancestors(n) = up[Cardinality(All)]
  BY Rounds
<1>2. \A m \in All : DepsOf(m) \subseteq All
  BY DEF dependencies_known
<1>3. ancestors(n) \subseteq Above(n)
  <2> DEFINE Good == {i \in Nat : up[i] \subseteq Above(n)}
  <2>1. 0 \in Good
    BY <1>1, <1>2, AboveIsClosed DEF UpClosed
  <2>2. ASSUME NEW i \in Nat, i \in Good PROVE i + 1 \in Good
    <3>1. Known(up[i]) \subseteq Above(n)
      BY <1>1, <1>2, <2>2, AboveIsClosed DEF UpClosed, Known
    <3> QED BY <1>1, <2>2, <3>1
  <2>3. Nat \subseteq Good
    <3> HIDE DEF Good
    <3> QED BY <2>1, <2>2, FromOneToTheNext
  <2> QED BY <1>0, <1>1, <2>3
<1>4. Above(n) \subseteq ancestors(n)
  <2> DEFINE Good == {i \in Nat : DepsOf(n) \subseteq up[i]
                                   /\ (Known(up[i]) \subseteq up[i] \/ i <= Cardinality(up[i]))}
  <2>1. 0 \in Good
    <3>1. up[0] \in SUBSET All
      BY <1>1
    <3>2. Cardinality(up[0]) \in Nat
      BY <1>0, <3>1, FS_Subset, FS_CardinalityType
    <3> QED BY <1>1, <3>2
  <2>2. ASSUME NEW i \in Nat, i \in Good PROVE i + 1 \in Good
    <3>0. i + 1 \in Nat /\ up[i] \in SUBSET All /\ up[i + 1] \in SUBSET All
          /\ up[i + 1] = up[i] \cup Known(up[i])
      BY <1>1
    <3>1. DepsOf(n) \subseteq up[i + 1]
      BY <2>2, <3>0
    <3>2. CASE Known(up[i]) \subseteq up[i]
      <4>1. up[i + 1] = up[i]
        BY <3>0, <3>2
      <4> QED BY <3>0, <3>1, <3>2, <4>1
    <3>3. CASE ~(Known(up[i]) \subseteq up[i])
      <4>1. i <= Cardinality(up[i])
        BY <2>2, <3>3
      <4>2. up[i] \in SUBSET up[i + 1] /\ up[i] # up[i + 1]
        BY <3>0, <3>3
      <4>3. IsFiniteSet(up[i + 1]) /\ IsFiniteSet(up[i])
        BY <1>0, <3>0, FS_Subset
      <4>4. Cardinality(up[i]) <= Cardinality(up[i + 1]) /\ Cardinality(up[i]) # Cardinality(up[i + 1])
        BY <4>2, <4>3, FS_Subset
      <4>5. Cardinality(up[i]) \in Nat /\ Cardinality(up[i + 1]) \in Nat
        BY <4>3, FS_CardinalityType
      <4>6. i + 1 <= Cardinality(up[i + 1])
        BY <4>1, <4>4, <4>5
      <4> QED BY <3>0, <3>1, <4>6
    <3> QED BY <3>2, <3>3
  <2>3. Nat \subseteq Good
    <3> HIDE DEF Good
    <3> QED BY <2>1, <2>2, FromOneToTheNext
  <2> DEFINE found == up[Cardinality(All)]
  <2>4. /\ found \in SUBSET All /\ DepsOf(n) \subseteq found
        /\ Known(found) \subseteq found \/ Cardinality(All) <= Cardinality(found)
    BY <1>0, <1>1, <2>3
  <2> HIDE DEF found
  <2>5. Known(found) \subseteq found
    <3>1. ASSUME Cardinality(All) <= Cardinality(found) PROVE found = All
      <4>1. Cardinality(found) <= Cardinality(All) /\ Cardinality(found) \in Nat
            /\ (Cardinality(All) = Cardinality(found) => All = found)
        BY <1>0, <2>4, FS_Subset, FS_CardinalityType
      <4> QED BY <1>0, <3>1, <4>1
    <3>2. Known(All) \subseteq All
      BY <1>2 DEF Known
    <3> QED BY <2>4, <3>1, <3>2
  <2>6. UpClosed(found, n)
    BY <2>4, <2>5 DEF UpClosed, Known
  <2> QED BY <1>1, <2>4, <2>6, AboveIsLeast DEF found
<1> QED
  BY <1>3, <1>4

----------------------------------------------------------------------------
(* Queues without repetition.                                               *)

\* s lists the members of R, each once.
Lists(s, R) == s \in Seq(R) /\ Range(s) = R /\ \A i, j \in DOMAIN s : s[i] = s[j] => i = j

LEMMA ListsAll ==
  ASSUME NEW R, NEW s, Lists(s, R)
  PROVE  IsFiniteSet(R) /\ Len(s) = Cardinality(R)
<1>1. DOMAIN s = 1..Len(s) /\ Len(s) \in Nat /\ s \in [1..Len(s) -> R]
  BY LenProperties DEF Lists
<1>2. s \in Bijection(1..Len(s), R)
  BY <1>1 DEF Lists, Bijection, Injection, Surjection, Range, IsInjective
<1>3. IsFiniteSet(1..Len(s)) /\ Cardinality(1..Len(s)) = Len(s)
  BY <1>1, FS_Interval
<1> QED
  BY <1>2, <1>3, FS_Bijection DEF ExistsBijection

LEMMA ListsNothing == Lists(<<>>, {})
  BY DEF Lists, Range

\* One after the other.
LEMMA ListsBoth ==
  ASSUME NEW R, NEW T, R \cap T = {}, NEW s, Lists(s, R), NEW t, Lists(t, T)
  PROVE  Lists(s \o t, R \cup T)
<1>1. s \in Seq(R \cup T) /\ t \in Seq(R \cup T)
  BY SeqMonotonic DEF Lists
<1> DEFINE k == Len(s)
           m == Len(t)
           st == s \o t
<1>2. /\ k \in Nat /\ m \in Nat /\ DOMAIN s = 1..k /\ DOMAIN t = 1..m
      /\ st \in Seq(R \cup T) /\ Len(st) = k + m /\ DOMAIN st = 1..(k + m)
      /\ \A i \in 1..(k + m) : st[i] = IF i <= k THEN s[i] ELSE t[i - k]
  BY <1>1, ConcatProperties, LenProperties
<1>3. /\ \A i \in 1..k : s[i] \in R
      /\ \A i \in 1..m : t[i] \in T
      /\ \A x \in R : \E i \in 1..k : s[i] = x
      /\ \A x \in T : \E i \in 1..m : t[i] = x
      /\ \A i, j \in 1..k : s[i] = s[j] => i = j
      /\ \A i, j \in 1..m : t[i] = t[j] => i = j
  BY <1>2 DEF Lists, Range
<1> HIDE DEF st, k, m
<1>4. \A i \in 1..(k + m) : (i <= k => i \in 1..k) /\ (~(i <= k) => i - k \in 1..m)
  BY <1>2
<1>5. \A i \in 1..m : i + k \in 1..(k + m) /\ ~(i + k <= k) /\ (i + k) - k = i
  BY <1>2
<1>6. \A x \in R \cup T : \E i \in DOMAIN st : st[i] = x
  <2>1. ASSUME NEW x \in R PROVE \E i \in DOMAIN st : st[i] = x
    <3>1. PICK i \in 1..k : s[i] = x
      BY <1>3
    <3>2. i \in 1..(k + m) /\ i <= k
      BY <1>2
    <3> QED BY <1>2, <3>1, <3>2
  <2>2. ASSUME NEW x \in T PROVE \E i \in DOMAIN st : st[i] = x
    <3>1. PICK i \in 1..m : t[i] = x
      BY <1>3
    <3>2. st[i + k] = t[i] /\ i + k \in DOMAIN st
      BY <1>2, <1>5
    <3> QED BY <3>1, <3>2
  <2> QED BY <2>1, <2>2
<1>7. \A i \in DOMAIN st : st[i] \in R \cup T
  BY <1>2, <1>3, <1>4
<1>8. ASSUME NEW i \in 1..(k + m), NEW j \in 1..(k + m), st[i] = st[j] PROVE i = j
  <2>1. CASE i <= k /\ j <= k
    BY <1>2, <1>3, <1>4, <1>8, <2>1
  <2>2. CASE ~(i <= k) /\ ~(j <= k)
    <3>1. t[i - k] = t[j - k] /\ i - k \in 1..m /\ j - k \in 1..m
      BY <1>2, <1>4, <1>8, <2>2
    <3>2. i - k = j - k
      BY <1>3, <3>1
    <3> QED BY <1>2, <3>2
  <2>3. ~(i <= k /\ ~(j <= k)) /\ ~(~(i <= k) /\ j <= k)
    BY <1>2, <1>3, <1>4, <1>8
  <2> QED BY <2>1, <2>2, <2>3
<1>9. Range(st) = R \cup T
  BY <1>6, <1>7 DEF Range
<1>10. \A i, j \in DOMAIN st : st[i] = st[j] => i = j
  BY <1>2, <1>8
<1>11. st \in Seq(R \cup T)
  BY <1>2
<1> QED
  BY <1>9, <1>10, <1>11 DEF Lists, st

\* The head off.
LEMMA ListsTheRest ==
  ASSUME NEW R, NEW s, Lists(s, R), s # <<>>
  PROVE  Head(s) \in R /\ Lists(Tail(s), R \ {Head(s)})
<1>1. s \in Seq(R)
  BY DEF Lists
<1> DEFINE k == Len(s)
           u == Tail(s)
<1>2. /\ k \in Nat \ {0} /\ DOMAIN s = 1..k /\ Head(s) = s[1] /\ Head(s) \in R
      /\ u \in Seq(R) /\ Len(u) = k - 1 /\ DOMAIN u = 1..(k - 1)
      /\ \A i \in 1..(k - 1) : u[i] = s[i + 1]
  BY <1>1, EmptySeq, HeadTailProperties, LenProperties
<1>3. /\ \A x \in R : \E i \in 1..k : s[i] = x
      /\ \A i, j \in 1..k : s[i] = s[j] => i = j
  BY <1>2 DEF Lists, Range
<1> HIDE DEF u, k
<1>4. \A i \in 1..(k - 1) : i + 1 \in 1..k /\ i + 1 # 1 /\ 1 \in 1..k
  BY <1>2
<1>5. \A i \in 1..k : i # 1 => i - 1 \in 1..(k - 1) /\ (i - 1) + 1 = i
  BY <1>2
<1>6. \A i \in DOMAIN u : u[i] \in R \ {Head(s)}
  BY <1>2, <1>3, <1>4
<1>7. \A x \in R \ {Head(s)} : \E i \in DOMAIN u : u[i] = x
  <2> SUFFICES ASSUME NEW x \in R \ {Head(s)} PROVE \E i \in DOMAIN u : u[i] = x
    OBVIOUS
  <2>1. PICK i \in 1..k : s[i] = x
    BY <1>3
  <2>2. i # 1
    BY <1>2, <2>1
  <2>3. u[i - 1] = s[i] /\ i - 1 \in DOMAIN u
    BY <1>2, <1>5, <2>2
  <2> QED BY <2>1, <2>3
<1>8. \A i, j \in DOMAIN u : u[i] = u[j] => i = j
  <2> SUFFICES ASSUME NEW i \in 1..(k - 1), NEW j \in 1..(k - 1), u[i] = u[j] PROVE i = j
    BY <1>2
  <2>1. i + 1 = j + 1
    BY <1>2, <1>3, <1>4
  <2> QED BY <1>2, <2>1
<1>9. u \in Seq(R \ {Head(s)})
  <2>1. u \in [1..(k - 1) -> R \ {Head(s)}] /\ k - 1 \in Nat
    <3>1. u = [i \in 1..(k - 1) |-> u[i]]
      BY <1>2
    <3> QED BY <1>2, <1>6, <3>1
  <2> QED BY <2>1
<1> QED
  BY <1>2, <1>6, <1>7, <1>8, <1>9 DEF Lists, Range, u

\* A finite set of numbers can be put in order.
LEMMA InOrder ==
  ASSUME NEW S \in SUBSET Nat, IsFiniteSet(S)
  PROVE  Lists(in_order(S), S)
<1> DEFINE Rises(s, T) == /\ s \in [1..Cardinality(T) -> T]
                          /\ \A i, j \in DOMAIN s : i < j => s[i] < s[j]
           Good == {T \in SUBSET S : \E s : Rises(s, T)}
<1>1. ASSUME NEW T \in SUBSET S,
             \A U \in SUBSET S : Cardinality(U) < Cardinality(T) => U \in Good
      PROVE  T \in Good
  <2>0. IsFiniteSet(T) /\ Cardinality(T) \in Nat /\ T \in SUBSET Nat
    BY FS_Subset, FS_CardinalityType
  <2>1. CASE T = {}
    <3>1. Cardinality(T) = 0 /\ <<>> \in [1..0 -> T] /\ DOMAIN <<>> = {}
      BY <2>1, FS_EmptySet
    <3>2. Rises(<<>>, T)
      BY <3>1
    <3> QED BY <3>2
  <2>2. CASE T # {}
    <3>1. PICK x \in T : \A y \in T : x <= y
      BY <2>0, <2>2, LeastMember
    <3> DEFINE U == T \ {x}
               c == Cardinality(U)
    <3>2. Cardinality(T) = c + 1 /\ c \in Nat /\ c < Cardinality(T) /\ U \in SUBSET S
      BY <2>0, OneLess
    <3>3. \A y \in U : x < y
      BY <2>0, <3>1
    <3>4. PICK s : Rises(s, U)
      <4>1. U \in Good
        <5> HIDE DEF Good, U
        <5> QED BY <1>1, <3>2
      <4> QED BY <4>1
    <3> HIDE DEF U, c
    <3> DEFINE t == [i \in 1..(c + 1) |-> IF i = 1 THEN x ELSE s[i - 1]]
    <3>5. \A i \in 1..(c + 1) : i # 1 => i - 1 \in 1..c /\ s[i - 1] \in U
      BY <3>2, <3>4 DEF c
    <3>6. t \in [1..(c + 1) -> T]
      BY <3>5 DEF U
    <3>7. ASSUME NEW i \in 1..(c + 1), NEW j \in 1..(c + 1), i < j PROVE t[i] < t[j]
      <4>0. j # 1 /\ t[j] = s[j - 1] /\ j - 1 \in 1..c /\ t[j] \in U
        BY <3>2, <3>5, <3>7
      <4>1. CASE i = 1
        BY <3>3, <4>0, <4>1
      <4>2. CASE i # 1
        <5>1. t[i] = s[i - 1] /\ i - 1 \in 1..c /\ i - 1 < j - 1
          BY <3>2, <3>5, <3>7, <4>2
        <5>2. DOMAIN s = 1..c
          BY <3>4 DEF c
        <5> QED BY <3>4, <4>0, <5>1, <5>2
      <4> QED BY <4>1, <4>2
    <3>8. Rises(t, T)
      <4>1. DOMAIN t = 1..(c + 1)
        OBVIOUS
      <4> HIDE DEF t
      <4> QED BY <3>2, <3>6, <3>7, <4>1
    <3> HIDE DEF t
    <3> QED BY <3>8
  <2> QED BY <2>1, <2>2
<1>2. SUBSET S \subseteq Good
  <2> HIDE DEF Good
  <2> QED BY <1>1, SmallestFirst
<1> DEFINE s == in_order(S)
<1>3. /\ s \in [1..Cardinality(S) -> S]
      /\ \A i, j \in DOMAIN s : i < j => s[i] < s[j]
  <2>1. \E t : Rises(t, S)
    BY <1>2
  <2>2. s = CHOOSE t \in [1..Cardinality(S) -> S] : \A i, j \in DOMAIN t : i < j => t[i] < t[j]
    BY DEF in_order
  <2> HIDE DEF s
  <2> QED BY <2>1, <2>2
<1> HIDE DEF s
<1>4. Cardinality(S) \in Nat
  BY FS_CardinalityType
<1>5. \A i, j \in DOMAIN s : s[i] = s[j] => i = j
  <2> SUFFICES ASSUME NEW i \in 1..Cardinality(S), NEW j \in 1..Cardinality(S), s[i] = s[j]
               PROVE  i = j
    BY <1>3
  <2>1. s[i] \in Nat /\ s[j] \in Nat
    BY <1>3
  <2>2. ~(i < j) /\ ~(j < i)
    BY <1>3, <2>1
  <2> QED BY <1>4, <2>2
<1>6. s \in Injection(1..Cardinality(S), S)
  BY <1>3, <1>5 DEF Injection, IsInjective
<1>7. Cardinality(1..Cardinality(S)) = Cardinality(S)
  BY <1>4, FS_Interval
<1>8. s \in Surjection(1..Cardinality(S), S)
  BY <1>6, <1>7, FS_Injection
<1>9. Range(s) = S
  BY <1>3, <1>8 DEF Surjection, Range
<1>10. s \in Seq(S)
  BY <1>3, <1>4
<1> QED
  BY <1>5, <1>9, <1>10 DEF Lists, s

----------------------------------------------------------------------------
(* Kahn's queue.                                                            *)

\* A dependency written twice is counted twice.
LEMMA DepsCount ==
  ASSUME nodes \in Seq(NodeShapes), NEW o \in DOMAIN nodes
  PROVE  /\ IsFiniteSet(DepsOf(o)) /\ Cardinality(DepsOf(o)) \in Nat
         /\ Len(nodes[o].deps) \in Nat /\ Cardinality(DepsOf(o)) <= Len(nodes[o].deps)
         /\ Cardinality(DepsOf(o)) = Len(nodes[o].deps) <=> UniqueDeps(o)
         /\ DepsOf(o) = {} <=> nodes[o].deps = <<>>
<1> DEFINE d == nodes[o].deps
<1>1. d \in Seq(NodeNames)
  <2>1. nodes[o] \in NodeShapes
    BY ElementOfSeq, LenProperties
  <2> QED BY <2>1, BuildAssumption
<1>2. /\ d \in [1..Len(d) -> NodeNames] /\ DOMAIN d = 1..Len(d) /\ Len(d) \in Nat
      /\ d # <<>> => Len(d) # 0
  BY <1>1, LenProperties, EmptySeq
<1>3. DepsOf(o) = {d[i] : i \in DOMAIN d} /\ (UniqueDeps(o) <=> IsInjective(d))
  BY DEF DepsOf, ToSet, UniqueDeps
<1> HIDE DEF d
<1>4. d \in Surjection(1..Len(d), DepsOf(o))
  BY <1>2, <1>3 DEF Surjection
<1>5. IsFiniteSet(1..Len(d)) /\ Cardinality(1..Len(d)) = Len(d)
  <2>1. \A k \in Nat : IsFiniteSet(1..k) /\ Cardinality(1..k) = k
    BY FS_Interval
  <2>2. Len(d) \in Nat
    BY <1>2
  <2> QED BY <2>1, <2>2
<1>6. /\ IsFiniteSet(DepsOf(o)) /\ Cardinality(DepsOf(o)) <= Len(d)
      /\ Cardinality(DepsOf(o)) = Len(d) <=> d \in Injection(1..Len(d), DepsOf(o))
  BY <1>4, <1>5, FS_Surjection
<1>7. d \in Injection(1..Len(d), DepsOf(o)) <=> IsInjective(d)
  BY <1>2, <1>4 DEF Injection, Surjection, IsInjective
<1>8. DepsOf(o) = {} <=> d = <<>>
  <2>1. CASE d = <<>>
    BY <1>3, <2>1
  <2>2. CASE d # <<>>
    <3>1. 1 \in DOMAIN d
      BY <1>2, <2>2
    <3> QED BY <1>3, <2>2, <3>1
  <2> QED BY <2>1, <2>2
<1> QED
  BY <1>2, <1>3, <1>6, <1>7, <1>8, FS_CardinalityType DEF d

QueueStates == [indeg : [DOMAIN nodes -> Int], ready : Seq(DOMAIN nodes), out : Seq(DOMAIN nodes)]

\* A node waits for what it depends on and has not been visited; what is queued waits
\* for nothing; what is out comes after what it depends on; and nothing that could
\* be queued is left behind, unless it names a dependency twice.
QueueInv(s) ==
    /\ s \in QueueStates
    /\ Lists(s.ready, Range(s.ready)) /\ Lists(s.out, Range(s.out))
    /\ Range(s.ready) \cap Range(s.out) = {}
    /\ \A o \in DOMAIN nodes :
         s.indeg[o] = Len(nodes[o].deps) - Cardinality(DepsOf(o) \cap Range(s.out))
    /\ \A o \in Range(s.ready) \cup Range(s.out) : DepsOf(o) \subseteq Range(s.out)
    /\ \A j \in DOMAIN s.out : DepsOf(s.out[j]) \subseteq {s.out[k] : k \in 1..(j-1)}
    /\ \A o \in DOMAIN nodes : UniqueDeps(o) /\ DepsOf(o) \subseteq Range(s.out)
                                 => o \in Range(s.ready) \cup Range(s.out)

LEMMA NodesAreCounted ==
  ASSUME nodes \in Seq(NodeShapes)
  PROVE  /\ DOMAIN nodes = 1..Len(nodes) /\ Len(nodes) \in Nat
         /\ IsFiniteSet(DOMAIN nodes) /\ Cardinality(DOMAIN nodes) = Len(nodes)
<1>1. DOMAIN nodes = 1..Len(nodes) /\ Len(nodes) \in Nat
  BY LenProperties
<1> QED
  BY <1>1, FS_Interval

\* Nodes put in order.
LEMMA NodesInOrder ==
  ASSUME nodes \in Seq(NodeShapes), NEW S \in SUBSET DOMAIN nodes
  PROVE  /\ Lists(in_order(S), S) /\ Range(in_order(S)) = S
         /\ in_order(S) \in Seq(DOMAIN nodes)
<1>1. S \in SUBSET Nat /\ IsFiniteSet(S)
  <2>1. DOMAIN nodes \subseteq Nat
    BY NodesAreCounted
  <2> QED BY <2>1, NodesAreCounted, FS_Subset
<1>2. Lists(in_order(S), S)
  BY <1>1, InOrder
<1>3. in_order(S) \in Seq(S) /\ Range(in_order(S)) = S
  BY <1>2 DEF Lists
<1> QED
  BY <1>2, <1>3, SeqMonotonic

LEMMA QueueStarts == ASSUME nodes \in Seq(NodeShapes) PROVE QueueInv(queue)
<1> DEFINE free == {n \in DOMAIN nodes : nodes[n].deps = <<>>}
<1>1. /\ queue.indeg = [n \in DOMAIN nodes |-> Len(nodes[n].deps)]
      /\ queue.ready = in_order(free) /\ queue.out = <<>>
      /\ queue = [indeg |-> queue.indeg, ready |-> queue.ready, out |-> queue.out]
  BY DEF queue
<1>2. Lists(queue.ready, free) /\ Range(queue.ready) = free /\ queue.ready \in Seq(DOMAIN nodes)
  BY <1>1, NodesInOrder
<1>3. Range(queue.out) = {} /\ Lists(queue.out, {}) /\ queue.out \in Seq(DOMAIN nodes)
  BY <1>1, ListsNothing, EmptySeq DEF Range
<1>4. queue.indeg \in [DOMAIN nodes -> Int]
  BY <1>1, DepsCount
<1>5. queue \in QueueStates
  BY <1>1, <1>2, <1>3, <1>4 DEF QueueStates
<1>6. \A o \in DOMAIN nodes :
         queue.indeg[o] = Len(nodes[o].deps) - Cardinality(DepsOf(o) \cap Range(queue.out))
  <2> SUFFICES ASSUME NEW o \in DOMAIN nodes
               PROVE  queue.indeg[o] = Len(nodes[o].deps) - Cardinality(DepsOf(o) \cap Range(queue.out))
    OBVIOUS
  <2>1. Cardinality(DepsOf(o) \cap Range(queue.out)) = 0
    BY <1>3, FS_EmptySet
  <2> QED BY <1>1, <2>1, DepsCount
<1>7. \A o \in free : DepsOf(o) = {}
  BY DepsCount
<1>8. \A o \in DOMAIN nodes : DepsOf(o) \subseteq {} => o \in free
  BY DepsCount
<1>9. DOMAIN queue.out = {}
  BY <1>1
<1> HIDE DEF free
<1> QED
  BY <1>2, <1>3, <1>5, <1>6, <1>7, <1>8, <1>9 DEF QueueInv

LEMMA QueueGoes ==
  ASSUME nodes \in Seq(NodeShapes), NEW s, QueueInv(s), s.ready # <<>>
  PROVE  QueueInv(visit(s)) /\ Len(visit(s).out) = Len(s.out) + 1
<1> DEFINE D == DOMAIN nodes
           n == Head(s.ready)
           waiting == {o \in D : n \in DepsOf(o)}
           N == {o \in waiting : s.indeg[o] = 1}
           t == visit(s)
           Out == Range(s.out)
           Ready == Range(s.ready)
<1>1. /\ t.indeg = [o \in D |-> IF o \in waiting THEN s.indeg[o] - 1 ELSE s.indeg[o]]
      /\ t.ready = Tail(s.ready) \o in_order(N) /\ t.out = Append(s.out, n)
      /\ t = [indeg |-> t.indeg, ready |-> t.ready, out |-> t.out]
  BY DEF visit
<1> HIDE DEF t
<1>2. /\ s.indeg \in [D -> Int] /\ s.ready \in Seq(D) /\ s.out \in Seq(D)
      /\ Lists(s.ready, Ready) /\ Lists(s.out, Out) /\ Ready \cap Out = {}
      /\ \A o \in D : s.indeg[o] = Len(nodes[o].deps) - Cardinality(DepsOf(o) \cap Out)
      /\ \A o \in Ready \cup Out : DepsOf(o) \subseteq Out
      /\ \A j \in DOMAIN s.out : DepsOf(s.out[j]) \subseteq {s.out[k] : k \in 1..(j-1)}
      /\ \A o \in D : UniqueDeps(o) /\ DepsOf(o) \subseteq Out => o \in Ready \cup Out
  BY DEF QueueInv, QueueStates
<1>3. Ready \subseteq D /\ Out \subseteq D
  <2>1. \A r \in Seq(D) : Range(r) \subseteq D
    BY LenProperties DEF Range
  <2> QED BY <1>2, <2>1
<1>4. n \in Ready /\ n \notin Out /\ n \in D /\ Lists(Tail(s.ready), Ready \ {n})
  BY <1>2, <1>3, ListsTheRest
<1> HIDE DEF n, Out, Ready
<1>5. N \in SUBSET D /\ Lists(in_order(N), N)
  BY NodesInOrder
<1>6. \A o \in waiting : o \notin Ready \cup Out
  BY <1>2, <1>4
<1>7. Lists(t.ready, (Ready \ {n}) \cup N)
  <2>1. (Ready \ {n}) \cap N = {}
    BY <1>6
  <2>2. t.ready = Tail(s.ready) \o in_order(N)
    BY <1>1
  <2> HIDE DEF N
  <2>3. Lists(Tail(s.ready) \o in_order(N), (Ready \ {n}) \cup N)
    BY <1>4, <1>5, <2>1, ListsBoth
  <2> QED BY <2>2, <2>3
<1>8. Lists(t.out, Out \cup {n})
  <2>1. Lists(<<n>>, {n})
    BY DEF Lists, Range
  <2>2. Append(s.out, n) = s.out \o <<n>>
    BY <1>2, <1>4
  <2>3. Lists(s.out, Out) /\ Out \cap {n} = {}
    BY <1>2, <1>4
  <2>4. Lists(s.out \o <<n>>, Out \cup {n})
    BY <2>1, <2>3, ListsBoth
  <2> QED BY <1>1, <2>2, <2>4
<1>9. /\ Range(t.ready) = (Ready \ {n}) \cup N /\ Range(t.out) = Out \cup {n}
      /\ t.ready \in Seq(D) /\ t.out \in Seq(D)
  <2>1. t.ready \in Seq((Ready \ {n}) \cup N) /\ t.out \in Seq(Out \cup {n})
    BY <1>7, <1>8 DEF Lists
  <2>2. (Ready \ {n}) \cup N \subseteq D /\ Out \cup {n} \subseteq D
    BY <1>3, <1>4, <1>5
  <2>3. Range(t.ready) = (Ready \ {n}) \cup N /\ Range(t.out) = Out \cup {n}
    BY <1>7, <1>8 DEF Lists
  <2> QED BY <2>1, <2>2, <2>3, SeqMonotonic
\* One visited dependency more is one to wait for less.
<1>10. \A o \in D : /\ IsFiniteSet(DepsOf(o) \cap Out) /\ Cardinality(DepsOf(o) \cap Out) \in Nat
                    /\ Cardinality(DepsOf(o) \cap (Out \cup {n}))
                         = Cardinality(DepsOf(o) \cap Out) + IF o \in waiting THEN 1 ELSE 0
  <2> SUFFICES ASSUME NEW o \in D
               PROVE  /\ IsFiniteSet(DepsOf(o) \cap Out) /\ Cardinality(DepsOf(o) \cap Out) \in Nat
                      /\ Cardinality(DepsOf(o) \cap (Out \cup {n}))
                           = Cardinality(DepsOf(o) \cap Out) + IF o \in waiting THEN 1 ELSE 0
    OBVIOUS
  <2>1. IsFiniteSet(DepsOf(o) \cap Out) /\ Cardinality(DepsOf(o) \cap Out) \in Nat
    BY DepsCount, FS_Intersection, FS_CardinalityType
  <2>2. CASE o \in waiting
    <3>1. DepsOf(o) \cap (Out \cup {n}) = (DepsOf(o) \cap Out) \cup {n}
      BY <2>2
    <3>2. n \notin DepsOf(o) \cap Out
      BY <1>4
    <3>3. Cardinality((DepsOf(o) \cap Out) \cup {n}) = Cardinality(DepsOf(o) \cap Out) + 1
      BY <2>1, <3>2, FS_AddElement
    <3> QED BY <2>1, <2>2, <3>1, <3>3
  <2>3. CASE o \notin waiting
    <3>1. DepsOf(o) \cap (Out \cup {n}) = DepsOf(o) \cap Out
      BY <2>3
    <3>2. Cardinality(DepsOf(o) \cap Out) + 0 = Cardinality(DepsOf(o) \cap Out)
      BY <2>1
    <3> QED BY <2>1, <2>3, <3>1, <3>2
  <2> QED BY <2>1, <2>2, <2>3
<1>11. t.indeg \in [D -> Int]
  <2> HIDE DEF waiting
  <2> QED BY <1>1, <1>2
<1>12. \A o \in D : t.indeg[o] = Len(nodes[o].deps) - Cardinality(DepsOf(o) \cap (Out \cup {n}))
  <2> SUFFICES ASSUME NEW o \in D
               PROVE  t.indeg[o] = Len(nodes[o].deps) - Cardinality(DepsOf(o) \cap (Out \cup {n}))
    OBVIOUS
  <2>1. t.indeg[o] = IF o \in waiting THEN s.indeg[o] - 1 ELSE s.indeg[o]
    BY <1>1
  <2>2. Len(nodes[o].deps) \in Nat
    BY DepsCount
  <2>3. s.indeg[o] = Len(nodes[o].deps) - Cardinality(DepsOf(o) \cap Out)
    BY <1>2
  <2>4. /\ Cardinality(DepsOf(o) \cap Out) \in Nat
        /\ Cardinality(DepsOf(o) \cap (Out \cup {n}))
              = Cardinality(DepsOf(o) \cap Out) + IF o \in waiting THEN 1 ELSE 0
    BY <1>10
  <2> HIDE DEF waiting
  <2> QED BY <2>1, <2>2, <2>3, <2>4
\* What is queued now has all its dependencies out.
<1>13. \A o \in N : DepsOf(o) \subseteq Out \cup {n}
  <2> SUFFICES ASSUME NEW o \in N PROVE DepsOf(o) \subseteq Out \cup {n}
    OBVIOUS
  <2> DEFINE visited == DepsOf(o) \cap (Out \cup {n})
  <2>1. o \in D /\ t.indeg[o] = 0
    BY <1>1
  <2>2. Len(nodes[o].deps) = Cardinality(visited)
    <3>1. Cardinality(visited) \in Nat
      <4>1. IsFiniteSet(DepsOf(o))
        BY <2>1, DepsCount
      <4> QED BY <4>1, FS_Subset, FS_CardinalityType
    <3>2. Len(nodes[o].deps) \in Nat
      BY <2>1, DepsCount
    <3>3. t.indeg[o] = Len(nodes[o].deps) - Cardinality(visited)
      BY <1>12, <2>1
    <3> HIDE DEF visited
    <3> QED BY <2>1, <3>1, <3>2, <3>3
  <2>3. /\ IsFiniteSet(DepsOf(o)) /\ Cardinality(DepsOf(o)) \in Nat
        /\ Cardinality(DepsOf(o)) <= Len(nodes[o].deps)
    BY <2>1, DepsCount
  <2>4. visited \in SUBSET DepsOf(o)
    OBVIOUS
  <2>5. Cardinality(visited) <= Cardinality(DepsOf(o)) /\ Cardinality(visited) \in Nat
    BY <2>3, <2>4, FS_Subset, FS_CardinalityType
  <2>6. Cardinality(DepsOf(o)) = Cardinality(visited)
    BY <2>2, <2>3, <2>5
  <2>7. visited = DepsOf(o)
    BY <2>3, <2>4, <2>6, FS_Subset
  <2> QED BY <2>7
<1>14. \A o \in Range(t.ready) \cup Range(t.out) : DepsOf(o) \subseteq Range(t.out)
  <2> HIDE DEF N
  <2> QED BY <1>2, <1>4, <1>9, <1>13
\* And nothing is left behind.
<1>15. ASSUME NEW o \in D, UniqueDeps(o), DepsOf(o) \subseteq Out \cup {n}
       PROVE  o \in Range(t.ready) \cup Range(t.out)
  <2>1. CASE o \notin waiting
    <3>1. DepsOf(o) \subseteq Out
      BY <1>15, <2>1
    <3> HIDE DEF N
    <3> QED BY <1>2, <1>9, <1>15, <3>1
  <2>2. CASE o \in waiting
    <3>1. DepsOf(o) \cap (Out \cup {n}) = DepsOf(o)
      BY <1>15
    <3>2. Cardinality(DepsOf(o)) = Len(nodes[o].deps) /\ Len(nodes[o].deps) \in Nat
      BY <1>15, DepsCount
    <3>3. Cardinality(DepsOf(o)) = Cardinality(DepsOf(o) \cap Out) + 1
          /\ Cardinality(DepsOf(o) \cap Out) \in Nat
      BY <1>10, <2>2, <3>1
    <3>4. s.indeg[o] = 1
      <4>1. s.indeg[o] = Len(nodes[o].deps) - Cardinality(DepsOf(o) \cap Out)
        BY <1>2
      <4>2. \A k \in Nat : (k + 1) - k = 1
        OBVIOUS
      <4> QED BY <3>2, <3>3, <4>1, <4>2
    <3>5. o \in N
      BY <2>2, <3>4
    <3> QED BY <1>9, <3>5
  <2> QED BY <2>1, <2>2
<1>16. \A j \in DOMAIN t.out : DepsOf(t.out[j]) \subseteq {t.out[k] : k \in 1..(j-1)}
  <2> DEFINE l == Len(s.out)
  <2>1. /\ l \in Nat /\ DOMAIN s.out = 1..l /\ DOMAIN t.out = 1..(l + 1)
        /\ t.out[l + 1] = n /\ \A k \in 1..l : t.out[k] = s.out[k]
    BY <1>1, <1>2, <1>4
  <2> HIDE DEF l
  <2>2. ASSUME NEW j \in 1..(l + 1) PROVE DepsOf(t.out[j]) \subseteq {t.out[k] : k \in 1..(j-1)}
    <3>1. CASE j = l + 1
      <4>1. DepsOf(n) \subseteq Out
        BY <1>2, <1>4
      <4>2. Out = {s.out[k] : k \in 1..l}
        BY <2>1 DEF Range, Out
      <4>3. (l + 1) - 1 = l
        BY <2>1
      <4> QED BY <2>1, <3>1, <4>1, <4>2, <4>3
    <3>2. CASE j # l + 1
      <4>1. j \in 1..l /\ \A k \in 1..(j-1) : k \in 1..l
        BY <2>1, <3>2
      <4>2. DepsOf(s.out[j]) \subseteq {s.out[k] : k \in 1..(j-1)} /\ t.out[j] = s.out[j]
        BY <1>2, <2>1, <4>1
      <4>3. {s.out[k] : k \in 1..(j-1)} = {t.out[k] : k \in 1..(j-1)}
        BY <2>1, <4>1
      <4> QED BY <4>2, <4>3
    <3> QED BY <3>1, <3>2
  <2> QED BY <2>1, <2>2
<1>17. t \in QueueStates
  BY <1>1, <1>9, <1>11 DEF QueueStates
<1>18. Range(t.ready) \cap Range(t.out) = {}
  BY <1>2, <1>4, <1>6, <1>9
<1>19. Len(t.out) = Len(s.out) + 1
  BY <1>1, <1>2, <1>4
<1>20. QueueInv(t)
  <2> HIDE DEF N, waiting
  <2> QED BY <1>7, <1>8, <1>9, <1>12, <1>14, <1>15, <1>16, <1>17, <1>18 DEF QueueInv
<1> QED
  BY <1>19, <1>20 DEF t

\* One round of the loop, while there is a node to visit.
Goes(s) == IF s.ready = <<>> THEN s ELSE visit(s)

LEMMA QueueRuns ==
  ASSUME NEW S, queue \in S, \A s \in S : Goes(s) \in S
  PROVE  \E f : /\ f \in [Nat -> S] /\ f[0] = queue
                /\ \A i \in Nat : f[i + 1] = Goes(f[i])
<1> DEFINE step == [s \in S |-> Goes(s)]
<1>1. step \in [S -> S] /\ \A s \in S : step[s] = Goes(s)
  OBVIOUS
<1>2. PICK f \in [Nat -> S] : f[0] = queue /\ \A i \in Nat : f[i + 1] = step[f[i]]
  <2> HIDE DEF step
  <2> QED BY <1>1, Iterates
<1> QED
  BY <1>1, <1>2


\* Enough visits empty the queue or visit every node.
LEMMA Visits ==
  ASSUME nodes \in Seq(NodeShapes)
  PROVE  \E s : /\ QueueInv(s) /\ topological = s.out
                /\ s.ready = <<>> \/ Len(s.out) = Cardinality(DOMAIN nodes)
<1> DEFINE S == {s \in QueueStates : QueueInv(s)}
           Eq(g) == g = [i \in Nat |-> IF i = 0 THEN queue
                                       ELSE IF g[i-1].ready = <<>> THEN g[i-1] ELSE visit(g[i-1])]
           run == CHOOSE g : Eq(g)
<1>1. queue \in S
  BY QueueStarts DEF QueueInv
<1>2. \A s \in S : Goes(s) \in S
  <2> SUFFICES ASSUME NEW s \in S PROVE Goes(s) \in S
    OBVIOUS
  <2>1. CASE s.ready = <<>>
    BY <2>1 DEF Goes
  <2>2. CASE s.ready # <<>>
    <3>1. QueueInv(visit(s))
      BY <2>2, QueueGoes
    <3>2. visit(s) \in QueueStates
      BY <3>1 DEF QueueInv
    <3> QED BY <2>2, <3>1, <3>2 DEF Goes
  <2> QED BY <2>1, <2>2
<1>3. PICK f : /\ f \in [Nat -> S] /\ f[0] = queue
               /\ \A i \in Nat : f[i + 1] = Goes(f[i])
  <2> HIDE DEF S
  <2> QED BY <1>1, <1>2, QueueRuns
<1>5. Eq(f)
  <2>1. ASSUME NEW i \in Nat
        PROVE  f[i] = IF i = 0 THEN queue
                      ELSE IF f[i-1].ready = <<>> THEN f[i-1] ELSE visit(f[i-1])
    <3>1. CASE i = 0
      BY <1>3, <3>1
    <3>2. CASE i # 0
      <4>1. i - 1 \in Nat /\ (i - 1) + 1 = i
        BY <3>2
      <4>2. f[(i - 1) + 1] = Goes(f[i-1])
        BY <1>3, <4>1
      <4>3. f[i] = Goes(f[i-1])
        BY <4>1, <4>2
      <4> QED BY <3>2, <4>3 DEF Goes
    <3> QED BY <3>1, <3>2
  <2>2. f = [i \in Nat |-> f[i]]
    <3> HIDE DEF S
    <3> QED BY <1>3
  <2> QED BY <2>1, <2>2
<1>6. topological = run[Cardinality(DOMAIN nodes)].out
  BY DEF topological
<1>7. Eq(run)
  <2> HIDE DEF Eq
  <2> QED BY <1>5
<1> HIDE DEF run
<1>8. run[0] = queue /\ \A i \in Nat : run[i + 1] = Goes(run[i])
  <2>1. \A i \in Nat : run[i] = IF i = 0 THEN queue
                                ELSE IF run[i-1].ready = <<>> THEN run[i-1] ELSE visit(run[i-1])
    BY <1>7
  <2>2. ASSUME NEW i \in Nat PROVE run[i + 1] = Goes(run[i])
    <3>1. i + 1 \in Nat /\ i + 1 # 0 /\ (i + 1) - 1 = i
      OBVIOUS
    <3> QED BY <2>1, <3>1 DEF Goes
  <2> QED BY <2>1, <2>2
<1> DEFINE Good == {i \in Nat : QueueInv(run[i]) /\ (run[i].ready = <<>> \/ Len(run[i].out) = i)}
<1>9. 0 \in Good
  <2>1. queue.out = <<>>
    BY DEF queue
  <2> QED BY <1>1, <1>8, <2>1
<1>10. ASSUME NEW i \in Nat, i \in Good PROVE i + 1 \in Good
  <2>1. run[i + 1] = Goes(run[i])
    BY <1>8
  <2>2. CASE run[i].ready = <<>>
    BY <1>10, <2>1, <2>2 DEF Goes
  <2>3. CASE run[i].ready # <<>>
    <3>1. run[i + 1] = visit(run[i]) /\ QueueInv(run[i]) /\ Len(run[i].out) = i
      BY <1>10, <2>1, <2>3 DEF Goes
    <3>2. QueueInv(run[i + 1]) /\ Len(run[i + 1].out) = i + 1
      BY <2>3, <3>1, QueueGoes
    <3> QED BY <3>2
  <2> QED BY <2>2, <2>3
<1>11. Nat \subseteq Good
  <2> HIDE DEF Good
  <2> QED BY <1>9, <1>10, FromOneToTheNext
<1>12. Cardinality(DOMAIN nodes) \in Nat
  BY NodesAreCounted
<1> QED
  BY <1>6, <1>11, <1>12

\* The order: no node before what it depends on, and no node twice.
LEMMA OrderIsSound ==
  ASSUME nodes \in Seq(NodeShapes)
  PROVE  /\ Lists(topological, Range(topological)) /\ Range(topological) \subseteq DOMAIN nodes
         /\ \A j \in DOMAIN topological :
              DepsOf(topological[j]) \subseteq {topological[k] : k \in 1..(j-1)}
<1>1. PICK s : QueueInv(s) /\ topological = s.out
  BY Visits
<1>2. s.out \in Seq(DOMAIN nodes)
  BY <1>1 DEF QueueInv, QueueStates
<1>3. Range(s.out) \subseteq DOMAIN nodes
  BY <1>2, LenProperties DEF Range
<1>4. /\ Lists(s.out, Range(s.out))
      /\ \A j \in DOMAIN s.out : DepsOf(s.out[j]) \subseteq {s.out[k] : k \in 1..(j-1)}
  BY <1>1 DEF QueueInv
<1> DEFINE Sound(o) == /\ Lists(o, Range(o)) /\ Range(o) \subseteq DOMAIN nodes
                       /\ \A j \in DOMAIN o : DepsOf(o[j]) \subseteq {o[k] : k \in 1..(j-1)}
<1>5. Sound(s.out)
  BY <1>3, <1>4
<1>6. Sound(topological)
  <2> HIDE DEF Sound
  <2> QED BY <1>1, <1>5
<1> QED
  BY <1>6

\* A set of nodes each of which depends on another of the set has a circle.
LEMMA NoSourceNoTree ==
  ASSUME nodes \in Seq(NodeShapes), NEW U \in SUBSET DOMAIN nodes, U # {},
         \A u \in U : DepsOf(u) \cap U # {}
  PROVE  Circular
<1> SUFFICES ASSUME ~Circular PROVE FALSE
  OBVIOUS
<1> DEFINE Left(u) == Cardinality(Above(u) \cap U)
           Sizes == {Left(u) : u \in U}
<1>1. \A u : IsFiniteSet(Above(u) \cap U) /\ Left(u) \in Nat
  <2>1. IsFiniteSet(U)
    BY NodesAreCounted, FS_Subset
  <2> QED BY <2>1, FS_Intersection, FS_CardinalityType
<1>2. PICK u \in U : \A v \in U : Left(u) <= Left(v)
  <2>1. Sizes \in SUBSET Nat /\ Sizes # {}
    BY <1>1
  <2>2. PICK k \in Sizes : \A m \in Sizes : k <= m
    <3> HIDE DEF Sizes
    <3> QED BY <2>1, LeastMember
  <2> QED BY <2>2
<1>3. PICK d \in DepsOf(u) : d \in U
  OBVIOUS
<1>4. d \in Above(u) /\ Above(d) \subseteq Above(u) /\ d \notin Above(d)
  <2>1. d \in Above(u)
    BY <1>3, AboveIsClosed DEF UpClosed
  <2> QED BY <1>3, <2>1, AboveAbove DEF Circular
<1>5. Above(d) \cap U \in SUBSET (Above(u) \cap U) /\ Above(d) \cap U # Above(u) \cap U
  BY <1>3, <1>4
<1>6. Left(d) <= Left(u) /\ Left(d) # Left(u)
  BY <1>1, <1>5, FS_Subset
<1>7. Left(d) \in Nat /\ Left(u) \in Nat /\ Left(u) <= Left(d)
  BY <1>1, <1>2, <1>3
<1> HIDE DEF Left
<1> QED
  BY <1>6, <1>7

\* The order is whole, unless there is a circle or a dependency written twice.
LEMMA OrderIsWhole ==
  ASSUME nodes \in Seq(NodeShapes), dependencies_known, ~Circular,
         \A n \in DOMAIN nodes : UniqueDeps(n)
  PROVE  Len(topological) = Cardinality(DOMAIN nodes)
<1>1. PICK s : /\ QueueInv(s) /\ topological = s.out
               /\ s.ready = <<>> \/ Len(s.out) = Cardinality(DOMAIN nodes)
  BY Visits
<1>2. ASSUME s.ready = <<>> PROVE Len(s.out) = Cardinality(DOMAIN nodes)
  <2> DEFINE U == DOMAIN nodes \ Range(s.out)
  <2>1. Range(s.ready) = {}
    BY <1>2 DEF Range
  <2>2. \A u \in U : DepsOf(u) \cap U # {}
    <3> SUFFICES ASSUME NEW u \in U PROVE DepsOf(u) \cap U # {}
      OBVIOUS
    <3>1. ~(DepsOf(u) \subseteq Range(s.out))
      BY <1>1, <2>1 DEF QueueInv
    <3>2. DepsOf(u) \subseteq DOMAIN nodes
      BY DEF dependencies_known
    <3> QED BY <3>1, <3>2
  <2>3. U = {}
    <3> HIDE DEF U
    <3>1. U \in SUBSET DOMAIN nodes
      BY DEF U
    <3> QED BY <2>2, <3>1, NoSourceNoTree
  <2>4. Range(s.out) = DOMAIN nodes
    BY <1>1, <2>3, OrderIsSound
  <2>5. Lists(s.out, DOMAIN nodes)
    BY <1>1, <2>4 DEF QueueInv
  <2> QED BY <2>5, ListsAll
<1> QED
  BY <1>1, <1>2

----------------------------------------------------------------------------
(* The layers.                                                             *)

\* One more than the deepest of what n depends on.
Deep(g, n) ==
    IF DepsOf(n) = {} THEN 0
    ELSE 1 + CHOOSE m \in {g[p] : p \in DepsOf(n)} : \A p \in DepsOf(n) : g[p] <= m

LEMMA DeepIsNext ==
  ASSUME NEW n, NEW g, NEW k \in Nat, \A p \in DepsOf(n) : g[p] \in Nat /\ g[p] < k
  PROVE  /\ Deep(g, n) \in Nat /\ Deep(g, n) <= k
         /\ \A p \in DepsOf(n) : g[p] < Deep(g, n)
         /\ \/ DepsOf(n) = {} /\ Deep(g, n) = 0
            \/ \E p \in DepsOf(n) : Deep(g, n) = g[p] + 1
<1>1. CASE DepsOf(n) = {}
  BY <1>1 DEF Deep
<1>2. CASE DepsOf(n) # {}
  <2> DEFINE Bounds == {u \in Nat : \A p \in DepsOf(n) : g[p] <= u}
             Largest(m) == m \in {g[p] : p \in DepsOf(n)} /\ \A p \in DepsOf(n) : g[p] <= m
             deepest == CHOOSE m \in {g[p] : p \in DepsOf(n)} : \A p \in DepsOf(n) : g[p] <= m
  <2>1. k \in Bounds
    OBVIOUS
  <2>2. PICK u \in Bounds : \A m \in Bounds : u <= m
    <3>1. Bounds \in SUBSET Nat /\ Bounds # {}
      BY <2>1
    <3> HIDE DEF Bounds
    <3> QED BY <3>1, LeastMember
  <2>3. Largest(u)
    <3> SUFFICES ASSUME \A p \in DepsOf(n) : g[p] # u PROVE FALSE
      OBVIOUS
    <3>1. \A p \in DepsOf(n) : g[p] < u
      BY <2>2
    <3>2. u - 1 \in Bounds
      <4>1. u \in Nat /\ u # 0
        BY <1>2, <2>2, <3>1
      <4>2. \A p \in DepsOf(n) : g[p] <= u - 1
        BY <3>1, <4>1
      <4> QED BY <4>1, <4>2
    <3>3. u \in Nat /\ u <= u - 1
      BY <2>2, <3>2
    <3> QED BY <3>3
  <2>4. Largest(deepest)
    BY <2>3
  <2>5. Deep(g, n) = 1 + deepest
    BY <1>2 DEF Deep
  <2> HIDE DEF deepest
  <2>6. PICK p \in DepsOf(n) : deepest = g[p]
    BY <2>4
  <2>7. g[p] \in Nat /\ g[p] < k /\ \A q \in DepsOf(n) : g[q] \in Nat /\ g[q] <= g[p]
    BY <2>4, <2>6
  <2>8. Deep(g, n) = g[p] + 1
    BY <2>5, <2>6, <2>7
  <2> QED BY <1>2, <2>7, <2>8
<1> QED
  BY <1>1, <1>2

\* It is only the depths of what n depends on that matter.
LEMMA DeepIsOne ==
  ASSUME NEW n, NEW g, NEW h, NEW k \in Nat,
         \A p \in DepsOf(n) : g[p] \in Nat /\ g[p] < k /\ h[p] = g[p]
  PROVE  Deep(h, n) = Deep(g, n)
<1>1. /\ Deep(g, n) \in Nat
      /\ \A p \in DepsOf(n) : g[p] < Deep(g, n)
      /\ \/ DepsOf(n) = {} /\ Deep(g, n) = 0
         \/ \E p \in DepsOf(n) : Deep(g, n) = g[p] + 1
  BY DeepIsNext
<1>2. /\ Deep(h, n) \in Nat
      /\ \A p \in DepsOf(n) : g[p] < Deep(h, n)
      /\ \/ DepsOf(n) = {} /\ Deep(h, n) = 0
         \/ \E p \in DepsOf(n) : Deep(h, n) = g[p] + 1
  <2>1. \A p \in DepsOf(n) : h[p] \in Nat /\ h[p] < k
    OBVIOUS
  <2>2. /\ Deep(h, n) \in Nat
        /\ \A p \in DepsOf(n) : h[p] < Deep(h, n)
        /\ \/ DepsOf(n) = {} /\ Deep(h, n) = 0
           \/ \E p \in DepsOf(n) : Deep(h, n) = h[p] + 1
    BY <2>1, DeepIsNext
  <2> QED BY <2>2
<1> QED
  BY <1>1, <1>2

\* The first k of a sequence of nodes.
FirstOf(topo, k) == {topo[j] : j \in 1..k}

\* When every node comes after what it depends on, depths can be given one by one.
LEMMA DepthDefined ==
  ASSUME NEW len \in Nat, NEW topo,
         \A i, j \in 1..len : topo[i] = topo[j] => i = j,
         \A j \in 1..len : DepsOf(topo[j]) \subseteq FirstOf(topo, j - 1)
  PROVE  \E g \in [FirstOf(topo, len) -> Nat] :
           \A m \in FirstOf(topo, len) : g[m] = Deep(g, m) /\ g[m] < len
<1> DEFINE Built(k, g) == /\ g \in [FirstOf(topo, k) -> Nat]
                          /\ \A m \in FirstOf(topo, k) : g[m] = Deep(g, m) /\ g[m] < k
           Good == {k \in Nat : k <= len => \E g : Built(k, g)}
<1>1. 0 \in Good
  <2>1. FirstOf(topo, 0) = {}
    BY DEF FirstOf
  <2>2. Built(0, [m \in {} |-> 0])
    BY <2>1
  <2> HIDE DEF Built
  <2> QED BY <2>2
<1>2. ASSUME NEW k \in Nat, k \in Good PROVE k + 1 \in Good
  <2> SUFFICES ASSUME k + 1 <= len PROVE \E g : Built(k + 1, g)
    OBVIOUS
  <2>1. PICK g : Built(k, g)
    BY <1>2
  <2> DEFINE n == topo[k + 1]
             h == [m \in FirstOf(topo, k + 1) |-> IF m = n THEN Deep(g, n) ELSE g[m]]
  <2>2. k + 1 \in 1..len /\ (k + 1) - 1 = k
    OBVIOUS
  <2>3. FirstOf(topo, k + 1) = FirstOf(topo, k) \cup {n}
    <3>1. 1..(k + 1) = 1..k \cup {k + 1}
      OBVIOUS
    <3> QED BY <3>1 DEF FirstOf
  <2>4. n \notin FirstOf(topo, k)
    <3> SUFFICES ASSUME NEW j \in 1..k, topo[j] = n PROVE FALSE
      BY DEF FirstOf
    <3>1. j \in 1..len /\ j # k + 1
      OBVIOUS
    <3> QED BY <2>2, <3>1
  <2>5. DepsOf(n) \subseteq FirstOf(topo, k)
    BY <2>2
  <2>6. ASSUME NEW m \in FirstOf(topo, k) PROVE DepsOf(m) \subseteq FirstOf(topo, k)
    <3>1. PICK j \in 1..k : m = topo[j]
      BY DEF FirstOf
    <3>2. j \in 1..len /\ 1..(j - 1) \subseteq 1..k
      OBVIOUS
    <3>3. FirstOf(topo, j - 1) \subseteq FirstOf(topo, k)
      BY <3>2 DEF FirstOf
    <3> QED BY <3>1, <3>2, <3>3
  <2> HIDE DEF n
  <2>7. \A m \in FirstOf(topo, k) : h[m] = g[m] /\ g[m] \in Nat /\ g[m] < k
    BY <2>1, <2>3, <2>4
  <2>8. h[n] = Deep(g, n)
    BY <2>3
  <2>9. Deep(g, n) \in Nat /\ Deep(g, n) <= k
    BY <2>5, <2>7, DeepIsNext
  <2>10. h \in [FirstOf(topo, k + 1) -> Nat]
    BY <2>3, <2>7, <2>9
  <2> HIDE DEF h
  <2>11. ASSUME NEW m \in FirstOf(topo, k + 1) PROVE h[m] = Deep(h, m) /\ h[m] < k + 1
    <3>1. CASE m = n
      <4>1. Deep(h, n) = Deep(g, n)
        BY <2>5, <2>7, DeepIsOne
      <4> QED BY <2>8, <2>9, <3>1, <4>1
    <3>2. CASE m \in FirstOf(topo, k)
      <4>1. \A p \in DepsOf(m) : g[p] \in Nat /\ g[p] < k /\ h[p] = g[p]
        BY <2>6, <2>7, <3>2
      <4>2. Deep(h, m) = Deep(g, m)
        BY <4>1, DeepIsOne
      <4>3. g[m] = Deep(g, m)
        BY <2>1, <3>2
      <4>4. h[m] = g[m] /\ g[m] < k + 1
        BY <2>7, <3>2
      <4> QED BY <4>2, <4>3, <4>4
    <3> QED BY <2>3, <3>1, <3>2
  <2>12. Built(k + 1, h)
    BY <2>10, <2>11
  <2> HIDE DEF Built
  <2> QED BY <2>12
<1>3. Nat \subseteq Good
  <2> HIDE DEF Good
  <2> QED BY <1>1, <1>2, FromOneToTheNext
<1> QED
  BY <1>3

\* A node is deeper than all it depends on.
LEMMA DepthGrows ==
  ASSUME nodes \in Seq(NodeShapes)
  PROVE  \A n \in Range(topological) :
           depth[n] \in Nat /\ \A p \in DepsOf(n) : depth[p] \in Nat /\ depth[p] < depth[n]
<1> DEFINE topo == topological
           len == Len(topo)
           Eq(g) == g = [n \in Range(topo) |->
                           IF DepsOf(n) = {} THEN 0
                           ELSE 1 + CHOOSE m \in {g[p] : p \in DepsOf(n)} :
                                      \A p \in DepsOf(n) : g[p] <= m]
           d == CHOOSE g : Eq(g)
<1>1. /\ len \in Nat /\ DOMAIN topo = 1..len
      /\ \A i, j \in 1..len : topo[i] = topo[j] => i = j
      /\ \A j \in 1..len : DepsOf(topo[j]) \subseteq FirstOf(topo, j - 1)
  <2>1. topo \in Seq(Range(topo))
    BY OrderIsSound DEF Lists
  <2>2. len \in Nat /\ DOMAIN topo = 1..len
    BY <2>1, LenProperties
  <2> QED BY <2>2, OrderIsSound DEF Lists, FirstOf
<1>2. Range(topo) = FirstOf(topo, len)
  BY <1>1 DEF Range, FirstOf
<1>3. \A n \in FirstOf(topo, len) : DepsOf(n) \subseteq FirstOf(topo, len)
  <2> SUFFICES ASSUME NEW j \in 1..len PROVE DepsOf(topo[j]) \subseteq FirstOf(topo, len)
    BY DEF FirstOf
  <2>1. 1..(j - 1) \subseteq 1..len
    BY <1>1
  <2>2. FirstOf(topo, j - 1) \subseteq FirstOf(topo, len)
    BY <2>1 DEF FirstOf
  <2> QED BY <1>1, <2>2
<1>4. PICK g \in [FirstOf(topo, len) -> Nat] :
        \A m \in FirstOf(topo, len) : g[m] = Deep(g, m) /\ g[m] < len
  <2> HIDE DEF topo, len
  <2> QED BY <1>1, DepthDefined
<1>5. Eq(g)
  <2>1. g = [m \in Range(topo) |-> g[m]]
    BY <1>2, <1>4
  <2>2. \A m \in Range(topo) : g[m] = Deep(g, m)
    BY <1>2, <1>4
  <2> HIDE DEF topo
  <2> QED BY <2>1, <2>2 DEF Deep
<1>6. Eq(d)
  <2> HIDE DEF Eq
  <2> QED BY <1>5
<1>7. depth = d
  BY DEF depth
<1> HIDE DEF d
<1>8. \A n \in FirstOf(topo, len) : d[n] = Deep(d, n)
  <2> HIDE DEF topo, len
  <2> QED BY <1>2, <1>6 DEF Deep
<1> DEFINE Good == {k \in Nat : k <= len => \A n \in FirstOf(topo, k) : d[n] \in Nat /\ d[n] < k}
<1>9. 0 \in Good
  BY DEF FirstOf
<1>10. ASSUME NEW k \in Nat, k \in Good PROVE k + 1 \in Good
  <2> SUFFICES ASSUME k + 1 <= len, NEW n \in FirstOf(topo, k + 1)
               PROVE  d[n] \in Nat /\ d[n] < k + 1
    OBVIOUS
  <2> HIDE DEF topo, len
  <2>0. k <= len
    BY <1>1
  <2>1. PICK j \in 1..(k + 1) : n = topo[j]
    BY DEF FirstOf
  <2>2. j \in 1..len /\ 1..(j - 1) \subseteq 1..k
    BY <1>1
  <2>3. DepsOf(n) \subseteq FirstOf(topo, k)
    <3>1. FirstOf(topo, j - 1) \subseteq FirstOf(topo, k)
      BY <2>2 DEF FirstOf
    <3> QED BY <1>1, <2>1, <2>2, <3>1
  <2>4. \A p \in DepsOf(n) : d[p] \in Nat /\ d[p] < k
    BY <1>10, <2>0, <2>3
  <2>5. Deep(d, n) \in Nat /\ Deep(d, n) <= k
    BY <2>4, DeepIsNext
  <2>6. n \in FirstOf(topo, len)
    BY <2>1, <2>2 DEF FirstOf
  <2> QED BY <1>8, <2>5, <2>6
<1>11. Nat \subseteq Good
  <2> HIDE DEF Good
  <2> QED BY <1>9, <1>10, FromOneToTheNext
<1>12. \A n \in FirstOf(topo, len) : d[n] \in Nat /\ d[n] < len
  BY <1>1, <1>11
<1>13. ASSUME NEW n \in FirstOf(topo, len)
       PROVE  d[n] \in Nat /\ \A p \in DepsOf(n) : d[p] \in Nat /\ d[p] < d[n]
  <2> HIDE DEF topo, len
  <2>1. \A p \in DepsOf(n) : d[p] \in Nat /\ d[p] < len
    BY <1>3, <1>12
  <2>2. \A p \in DepsOf(n) : d[p] < Deep(d, n)
    BY <1>1, <2>1, DeepIsNext
  <2> QED BY <1>8, <1>12, <2>1, <2>2
<1> QED
  <2> HIDE DEF topo, len
  <2> QED BY <1>2, <1>7, <1>13 DEF topo

----------------------------------------------------------------------------
(* The verdict.                                                            *)

\* A graph that passes can run in the order of `topological` and layer by layer.
LEMMA PassedRuns ==
  ASSUME nodes \in Seq(NodeShapes), Len(order) = Len(nodes),
         dependencies_known, is_a_dag, dataflow_met
  PROVE  ValidIsRunnable
<1> DEFINE topo == topological
           Before(i) == {topo[j] : j \in 1..(i-1)}
<1>1. /\ Lists(topo, Range(topo)) /\ Range(topo) \subseteq DOMAIN nodes
      /\ \A i \in DOMAIN topo : DepsOf(topo[i]) \subseteq Before(i)
  BY OrderIsSound
<1>2. Len(topo) = Cardinality(DOMAIN nodes)
  BY NodesAreCounted DEF is_a_dag
<1>3. Range(topo) = DOMAIN nodes
  <2>1. IsFiniteSet(DOMAIN nodes) /\ Cardinality(Range(topo)) = Cardinality(DOMAIN nodes)
    BY <1>1, <1>2, ListsAll, NodesAreCounted
  <2> HIDE DEF topo
  <2> QED BY <1>1, <2>1, FS_Subset
<1>4. topo \in Seq(DOMAIN nodes) /\ Len(topo) \in Nat /\ DOMAIN topo = 1..Len(topo)
  <2>1. topo \in Seq(DOMAIN nodes)
    BY <1>1, <1>3 DEF Lists
  <2> HIDE DEF topo
  <2> QED BY <2>1, LenProperties
<1>5. ASSUME NEW i \in DOMAIN topo PROVE Above(topo[i]) \subseteq Before(i)
  <2>1. Before(i) \subseteq DOMAIN nodes
    <3>1. 1..(i - 1) \subseteq 1..Len(topo)
      BY <1>4
    <3> HIDE DEF topo
    <3> QED BY <1>4, <3>1
  <2>2. UpClosed(Before(i), topo[i])
    <3> SUFFICES ASSUME NEW k \in Before(i) \cup {topo[i]} PROVE DepsOf(k) \subseteq Before(i)
      BY DEF UpClosed
    <3>1. CASE k = topo[i]
      BY <1>1, <3>1
    <3>2. CASE k \in Before(i)
      <4>1. PICK j \in 1..(i - 1) : k = topo[j]
        BY <3>2
      <4>2. j \in DOMAIN topo /\ 1..(j - 1) \subseteq 1..(i - 1)
        BY <1>4
      <4>3. Before(j) \subseteq Before(i)
        BY <4>2
      <4> HIDE DEF topo
      <4> QED BY <1>1, <4>1, <4>2, <4>3
    <3> QED BY <3>1, <3>2
  <2> HIDE DEF Before
  <2> QED BY <2>1, <2>2, AboveIsLeast
<1>6. \A i \in DOMAIN topo :
        nodes[topo[i]].requires \subseteq Seeds \cup UNION {nodes[m].provides : m \in Before(i)}
  <2> SUFFICES ASSUME NEW i \in DOMAIN topo
               PROVE  nodes[topo[i]].requires
                        \subseteq Seeds \cup UNION {nodes[m].provides : m \in Before(i)}
    OBVIOUS
  <2> DEFINE n == topo[i]
  <2>1. n \in DOMAIN nodes
    BY <1>3 DEF Range
  <2>2. ancestors(n) \subseteq Before(i)
    BY <1>5, <2>1, AncestorsAreAbove
  <2>3. nodes[n].requires \subseteq Seeds \cup UNION {nodes[m].provides : m \in ancestors(n)}
    BY <2>1 DEF dataflow_met
  <2> HIDE DEF n, Before
  <2> QED BY <2>2, <2>3 DEF n
<1>7. ASSUME NEW n \in DOMAIN nodes, NEW m \in Above(n) PROVE depth[m] # depth[n]
  <2> DEFINE S == {k \in DOMAIN nodes : depth[k] < depth[n]}
  <2>1. \A k \in DOMAIN nodes :
          depth[k] \in Nat /\ \A p \in DepsOf(k) : depth[p] \in Nat /\ depth[p] < depth[k]
    BY <1>3, DepthGrows
  <2>2. UpClosed(S, n)
    <3> SUFFICES ASSUME NEW k \in S \cup {n}, NEW p \in DepsOf(k) \cap DOMAIN nodes
                 PROVE  depth[p] < depth[n]
      BY DEF UpClosed
    <3>1. k \in DOMAIN nodes /\ depth[k] <= depth[n]
      BY <2>1
    <3> QED BY <2>1, <3>1
  <2>3. m \in S
    <3>1. S \in SUBSET DOMAIN nodes
      OBVIOUS
    <3> HIDE DEF S
    <3> QED BY <2>2, <3>1, AboveIsLeast
  <2> QED BY <2>1, <2>3
<1> QED
  BY <1>1, <1>2, <1>3, <1>6, <1>7 DEF ValidIsRunnable

\* The graph as it is written, and what a verdict found of it.
Verdicts == {"open", "duplicate", "dependencies", "cycle", "not a DAG", "dataflow",
             "side effects", "valid", "handed over"}

Found ==
    /\ verdict = "dependencies" => ~dependencies_known
    /\ verdict = "cycle" => dependencies_known /\ cyclic
    /\ verdict = "not a DAG" => dependencies_known /\ ~cyclic /\ ~is_a_dag
    /\ verdict = "dataflow" => dependencies_known /\ ~dataflow_met
    /\ verdict = "side effects" => ~side_effects_coherent
    /\ verdict = "valid" => dependencies_known /\ is_a_dag /\ dataflow_met

BuildInv ==
    /\ nodes \in Seq(NodeShapes) /\ order \in Seq(NodeNames) /\ Len(order) = Len(nodes)
    /\ verdict \in Verdicts
    /\ Found

LEMMA BuildStays == Spec => []BuildInv
<1>1. Init => BuildInv
  BY DEF Init, SessionInit, BuildInit, BuildInv, Found, Verdicts
<1>2. BuildInv /\ [Next]_vars => BuildInv'
  <2> SUFFICES ASSUME BuildInv, [BuildNext]_buildVars PROVE BuildInv'
    BY BuildSteps
  <2> DEFINE Same == /\ dependencies_known' = dependencies_known /\ cyclic' = cyclic
                     /\ is_a_dag' = is_a_dag /\ dataflow_met' = dataflow_met
                     /\ side_effects_coherent' = side_effects_coherent
  <2>s. nodes' = nodes /\ order' = order => Same
    <3> SUFFICES ASSUME nodes' = nodes, order' = order PROVE Same
      OBVIOUS
    <3>1. dependencies_known' = dependencies_known /\ side_effects_coherent' = side_effects_coherent
      BY DEF dependencies_known, side_effects_coherent, DepsOf
    <3>2. cyclic' = cyclic /\ dataflow_met' = dataflow_met
      BY DEF cyclic, dataflow_met, ancestors, DepsOf
    <3>3. topological' = topological
      BY DEF topological, queue, visit, in_order, DepsOf
    <3>4. is_a_dag' = is_a_dag
      BY <3>3 DEF is_a_dag
    <3> QED BY <3>1, <3>2, <3>4
  <2> HIDE DEF Same
  <2>1. ASSUME NEW n \in NodeNames, NEW shape \in NodeShapes, add(n, shape) PROVE BuildInv'
    <3>1. verdict' \in {"open", "duplicate"}
      BY <2>1 DEF add
    <3>2. Found' /\ verdict' \in Verdicts
      BY <3>1 DEF Found, Verdicts
    <3>3. /\ nodes' \in Seq(NodeShapes) /\ order' \in Seq(NodeNames)
          /\ Len(order') = Len(nodes')
      BY <2>1 DEF add, BuildInv
    <3> QED BY <3>2, <3>3 DEF BuildInv
  <2>2. CASE validate
    <3>1. nodes' = nodes /\ order' = order /\ Same
      BY <2>2, <2>s DEF validate
    <3>2. Found' /\ verdict' \in Verdicts
      BY <2>2, <3>1 DEF validate, Found, Verdicts, Same
    <3> QED BY <3>1, <3>2 DEF BuildInv
  <2>3. CASE hand_over
    <3>1. nodes' = <<>> /\ order' = <<>> /\ verdict' = "handed over"
      BY <2>3 DEF hand_over
    <3>2. Found' /\ verdict' \in Verdicts
      BY <3>1 DEF Found, Verdicts
    <3>3. <<>> \in Seq(NodeShapes) /\ <<>> \in Seq(NodeNames)
      OBVIOUS
    <3> QED BY <3>1, <3>2, <3>3 DEF BuildInv
  <2>4. CASE UNCHANGED buildVars
    <3>1. nodes' = nodes /\ order' = order /\ verdict' = verdict /\ Same
      BY <2>4, <2>s DEF buildVars
    <3> QED BY <3>1 DEF BuildInv, Found, Same
  <2> QED
    BY <2>1, <2>2, <2>3, <2>4 DEF BuildNext
<1> QED
  BY <1>1, <1>2, PTL DEF Spec

\* Whatever the nodes are and however they depend on each other: a graph that passes
\* validate can run, in order and layer by layer, and one that is refused has the defect
\* it is refused for (Graph.validate).
THEOREM VerdictAlwaysRight == Spec => []VerdictIsRight
<1>1. ASSUME BuildInv PROVE ValidIsRunnable
  <2>1. CASE verdict = "valid"
    BY <1>1, <2>1, PassedRuns DEF BuildInv, Found
  <2>2. CASE verdict # "valid"
    BY <2>2 DEF ValidIsRunnable
  <2> QED BY <2>1, <2>2
<1>2. ASSUME BuildInv PROVE OnlyDefectsRefused
  <2>1. /\ nodes \in Seq(NodeShapes) /\ Len(order) = Len(nodes) /\ Found
    BY <1>2 DEF BuildInv
  <2>2. dependencies_known => \A n \in DOMAIN nodes : ancestors(n) = Above(n)
    BY <2>1, AncestorsAreAbove
  <2>3. verdict = "dependencies" => \E n \in DOMAIN nodes : DepsOf(n) \ (DOMAIN nodes \ {n}) # {}
    BY <2>1 DEF Found, dependencies_known
  <2>4. verdict = "cycle" => Circular
    BY <2>1, <2>2 DEF Found, cyclic, Circular
  <2>5. verdict = "not a DAG" => ~Circular /\ \E n \in DOMAIN nodes : ~UniqueDeps(n)
    <3> SUFFICES ASSUME verdict = "not a DAG"
                 PROVE  ~Circular /\ \E n \in DOMAIN nodes : ~UniqueDeps(n)
      OBVIOUS
    <3>1. dependencies_known /\ ~cyclic /\ ~is_a_dag
      BY <2>1 DEF Found
    <3>2. ~Circular
      BY <2>2, <3>1 DEF cyclic, Circular
    <3>3. Len(topological) # Cardinality(DOMAIN nodes)
      BY <2>1, <3>1, NodesAreCounted DEF is_a_dag
    <3> QED BY <2>1, <3>1, <3>2, <3>3, OrderIsWhole
  <2>6. verdict = "dataflow" => \E n \in DOMAIN nodes : ~(nodes[n].requires \subseteq Supplied(n))
    <3> SUFFICES ASSUME verdict = "dataflow"
                 PROVE  \E n \in DOMAIN nodes : ~(nodes[n].requires \subseteq Supplied(n))
      OBVIOUS
    <3>1. PICK n \in DOMAIN nodes :
            ~(nodes[n].requires \subseteq Seeds \cup UNION {nodes[m].provides : m \in ancestors(n)})
      BY <2>1 DEF Found, dataflow_met
    <3>2. Supplied(n) \subseteq Seeds \cup UNION {nodes[m].provides : m \in ancestors(n)}
      BY <2>1, <2>2 DEF Found, Supplied
    <3> QED BY <3>1, <3>2
  <2>7. verdict = "side effects" =>
          \E n \in DOMAIN nodes : nodes[n].compensate /\ ~nodes[n].idempotency
    BY <2>1 DEF Found, side_effects_coherent
  <2> QED BY <2>3, <2>4, <2>5, <2>6, <2>7 DEF OnlyDefectsRefused
<1>3. BuildInv => VerdictIsRight
  BY <1>1, <1>2 DEF VerdictIsRight
<1> QED
  BY <1>3, BuildStays, PTL
====
