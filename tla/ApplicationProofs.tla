---- MODULE ApplicationProofs ----
(***************************************************************************)
(* Theorems about the activities of Application: what holds of one of them *)
(* for every value of the constants holds of every behaviour of Spec,      *)
(* because the others leave its variables alone.                           *)
(***************************************************************************)
EXTENDS Application, FiniteSetTheorems, WellFoundedInduction, TLAPS

----------------------------------------------------------------------------
(* Induction, without an operator for what is shown: by the least of the   *)
(* cases it would fail in.                                                  *)

\* A nonempty set of naturals has a least member.
LEMMA LeastMember ==
  ASSUME NEW T \in SUBSET Nat, T # {}
  PROVE  \E x \in T : \A y \in T : x <= y
<1> DEFINE R == {ss \in Nat \X Nat : ss[1] < ss[2]}
<1>1. IsWellFoundedOn(R, Nat)
  BY NatLessThanWellFounded, Zenon DEF OpToRel
<1>2. \E x \in T : \A y \in T : ~(<<y, x>> \in R)
  <2> HIDE DEF R
  <2> QED BY <1>1, WFMin
<1>3. PICK x \in T : \A y \in T : ~(<<y, x>> \in R)
  BY <1>2
<1>4. \A y \in T : x <= y
  <2> SUFFICES ASSUME NEW y \in T PROVE x <= y
    OBVIOUS
  <2>1. x \in Nat /\ y \in Nat /\ ~(y < x)
    BY <1>3
  <2> QED BY <2>1
<1> QED
  BY <1>4

\* What holds of 0 and passes from each number to the next holds of all.
LEMMA FromOneToTheNext ==
  ASSUME NEW Good, 0 \in Good, \A i \in Nat : i \in Good => i + 1 \in Good
  PROVE  Nat \subseteq Good
<1> DEFINE Bad == Nat \ Good
<1> SUFFICES ASSUME Bad # {} PROVE FALSE
  OBVIOUS
<1>1. PICK n \in Bad : \A m \in Bad : n <= m
  <2>1. Bad \in SUBSET Nat
    OBVIOUS
  <2> HIDE DEF Bad
  <2> QED BY <2>1, LeastMember
<1>2. n \in Nat /\ n \notin Good /\ n # 0
  OBVIOUS
<1>3. n - 1 \in Nat /\ ~(n <= n - 1) /\ (n - 1) + 1 = n
  BY <1>2
<1>4. n - 1 \in Good
  BY <1>1, <1>3
<1> QED
  BY <1>2, <1>3, <1>4

\* A finite set without one of its members is smaller by one.
LEMMA OneLess ==
  ASSUME NEW S, IsFiniteSet(S), NEW x \in S
  PROVE  /\ IsFiniteSet(S \ {x})
         /\ Cardinality(S) \in Nat /\ Cardinality(S) # 0 /\ Cardinality(S \ {x}) \in Nat
         /\ Cardinality(S \ {x}) = Cardinality(S) - 1
         /\ Cardinality(S \ {x}) < Cardinality(S)
<1>1. IsFiniteSet(S \ {x}) /\ Cardinality(S \ {x}) = Cardinality(S) - 1
  BY FS_RemoveElement
<1>2. Cardinality(S) \in Nat /\ Cardinality(S \ {x}) \in Nat
  BY <1>1, FS_CardinalityType
<1>3. Cardinality(S) # 0
  BY FS_EmptySet
<1> QED
  BY <1>1, <1>2, <1>3

\* What holds of a subset if it holds of all smaller ones holds of every subset.
LEMMA SmallestFirst ==
  ASSUME NEW S, IsFiniteSet(S), NEW Good,
         \A T \in SUBSET S :
            (\A U \in SUBSET S : Cardinality(U) < Cardinality(T) => U \in Good) => T \in Good
  PROVE  SUBSET S \subseteq Good
<1> DEFINE Bad == {n \in Nat : \E T \in SUBSET S : Cardinality(T) = n /\ T \notin Good}
<1> SUFFICES ASSUME NEW T0 \in SUBSET S, T0 \notin Good PROVE FALSE
  OBVIOUS
<1>1. \A T \in SUBSET S : Cardinality(T) \in Nat
  BY FS_Subset, FS_CardinalityType
<1>2. Bad \in SUBSET Nat /\ Bad # {}
  BY <1>1
<1>3. PICK n \in Bad : \A m \in Bad : n <= m
  <2> HIDE DEF Bad
  <2> QED BY <1>2, LeastMember
<1>4. PICK T \in SUBSET S : Cardinality(T) = n /\ T \notin Good
  BY <1>3
<1>5. \A U \in SUBSET S : Cardinality(U) < Cardinality(T) => U \in Good
  <2> SUFFICES ASSUME NEW U \in SUBSET S, Cardinality(U) < Cardinality(T), U \notin Good PROVE FALSE
    OBVIOUS
  <2>1. Cardinality(U) \in Bad
    BY <1>1
  <2> QED BY <1>1, <1>3, <1>4, <2>1
<1> QED
  BY <1>4, <1>5

----------------------------------------------------------------------------
(* Sums.                                                                    *)

\* What the children of S have cost together, and one step of that fold.
Total(ch, S) == FoldSet(LAMBDA i, sum : ch[i].cost + sum, 0, S)
Adds(ch, f, s) ==
    IF s = {} THEN 0
    ELSE ch[CHOOSE x \in s : TRUE].cost + f[s \ {CHOOSE x \in s : TRUE}]

\* The fold is a function on the subsets of a finite set.
LEMMA TotalDefined ==
  ASSUME NEW ch, NEW S, IsFiniteSet(S)
  PROVE  \E f : f = [s \in SUBSET S |-> Adds(ch, f, s)]
<1> DEFINE Upto(n) == {s \in SUBSET S : Cardinality(s) <= n}
           Defined(n) == \E f : f = [s \in Upto(n) |-> Adds(ch, f, s)]
           T == {n \in Nat : ~Defined(n)}
<1>1. \A s \in SUBSET S : IsFiniteSet(s) /\ Cardinality(s) \in Nat /\ Cardinality(s) <= Cardinality(S)
  BY FS_Subset, FS_CardinalityType
<1>2. \A s \in SUBSET S : s # {} => /\ (CHOOSE x \in s : TRUE) \in s
                                    /\ Cardinality(s) > 0
                                    /\ Cardinality(s \ {CHOOSE x \in s : TRUE}) = Cardinality(s) - 1
  <2> SUFFICES ASSUME NEW s \in SUBSET S, s # {}
               PROVE  /\ (CHOOSE x \in s : TRUE) \in s /\ Cardinality(s) > 0
                      /\ Cardinality(s \ {CHOOSE x \in s : TRUE}) = Cardinality(s) - 1
    OBVIOUS
  <2>1. (CHOOSE x \in s : TRUE) \in s
    OBVIOUS
  <2>2. IsFiniteSet(s)
    BY <1>1
  <2> DEFINE x == CHOOSE y \in s : TRUE
  <2>3. x \in s
    BY <2>1
  <2>4. Cardinality(s \ {x}) = Cardinality(s) - 1 /\ Cardinality(s) \in Nat /\ Cardinality(s) # 0
    <3> HIDE DEF x
    <3> QED BY <2>2, <2>3, OneLess
  <2> QED BY <2>1, <2>4
<1>3. T = {}
  <2> SUFFICES ASSUME T # {} PROVE FALSE
    OBVIOUS
  <2>1. PICK n \in T : \A m \in T : n <= m
    <3>1. T \in SUBSET Nat
      BY DEF T
    <3> HIDE DEF T
    <3> QED BY <3>1, LeastMember
  <2>2. n \in Nat /\ ~Defined(n)
    OBVIOUS
  <2>3. CASE n = 0
    <3> DEFINE g == [s \in Upto(0) |-> 0]
    <3>1. ASSUME NEW s \in Upto(0) PROVE s = {}
      <4>1. s \in SUBSET S /\ Cardinality(s) <= 0 /\ Cardinality(s) \in Nat
        BY <1>1
      <4>2. Cardinality(s) = 0 /\ IsFiniteSet(s)
        BY <1>1, <4>1
      <4> QED BY <4>2, FS_EmptySet
    <3>2. g = [s \in Upto(0) |-> Adds(ch, g, s)]
      BY <3>1 DEF Adds
    <3> HIDE DEF g
    <3> QED BY <2>2, <2>3, <3>2
  <2>4. CASE n # 0
    <3>1. n - 1 \in Nat /\ ~(n <= n - 1)
      BY <2>2, <2>4
    <3>2. Defined(n - 1)
      <4>1. n - 1 \notin T
        <5> HIDE DEF T
        <5> QED BY <2>1, <3>1
      <4> HIDE DEF Defined
      <4> QED BY <3>1, <4>1
    <3>3. PICK f : f = [s \in Upto(n-1) |-> Adds(ch, f, s)]
      BY <3>2
    <3> DEFINE g == [s \in Upto(n) |-> Adds(ch, f, s)]
    <3>4. ASSUME NEW s \in Upto(n) PROVE g[s] = Adds(ch, g, s)
      <4> DEFINE x == CHOOSE y \in s : TRUE
      <4>1. CASE s = {}
        BY <4>1 DEF Adds
      <4>2. CASE s # {}
        <5>1. s \ {x} \in Upto(n-1) /\ s \ {x} \in Upto(n)
          BY <1>1, <1>2, <2>2, <4>2
        <5>2. f[s \ {x}] = Adds(ch, f, s \ {x})
          <6> HIDE DEF Upto, x
          <6> QED BY <3>3, <5>1
        <5>3. g[s \ {x}] = Adds(ch, f, s \ {x}) /\ g[s] = Adds(ch, f, s)
          <6> HIDE DEF Upto, x
          <6> QED BY <5>1
        <5> HIDE DEF g
        <5> QED BY <4>2, <5>2, <5>3 DEF Adds
      <4> QED BY <4>1, <4>2
    <3>5. g = [s \in Upto(n) |-> Adds(ch, g, s)]
      <4>1. g = [s \in Upto(n) |-> g[s]]
        OBVIOUS
      <4> HIDE DEF g, Upto
      <4> QED BY <3>4, <4>1
    <3> HIDE DEF g
    <3> QED BY <2>2, <3>5
  <2> QED BY <2>3, <2>4
<1>4. Upto(Cardinality(S)) = SUBSET S /\ Cardinality(S) \in Nat
  BY <1>1
<1>5. Defined(Cardinality(S))
  BY <1>3, <1>4
<1> QED
  BY <1>4, <1>5

Table(ch, S) == CHOOSE f : f = [s \in SUBSET S |-> Adds(ch, f, s)]

LEMMA TableUnfolds ==
  ASSUME NEW ch, NEW S, IsFiniteSet(S)
  PROVE  \A s \in SUBSET S : Table(ch, S)[s] = Adds(ch, Table(ch, S), s)
<1>1. Table(ch, S) = [s \in SUBSET S |-> Adds(ch, Table(ch, S), s)]
  BY TotalDefined DEF Table
<1> QED BY <1>1

\* It has one value, whatever set it is thought of as a subset of.
LEMMA TotalUnique ==
  ASSUME NEW ch, NEW S, IsFiniteSet(S), NEW R \in SUBSET S
  PROVE  \A s \in SUBSET R : Table(ch, S)[s] = Table(ch, R)[s]
<1> DEFINE f == Table(ch, S)
           g == Table(ch, R)
           Good == {s \in SUBSET R : f[s] = g[s]}
<1>1. IsFiniteSet(R)
  BY FS_Subset
<1>2. /\ \A s \in SUBSET S : f[s] = Adds(ch, f, s)
      /\ \A s \in SUBSET R : g[s] = Adds(ch, g, s)
  BY <1>1, TableUnfolds
<1> HIDE DEF f, g
<1>3. ASSUME NEW s \in SUBSET R,
             \A u \in SUBSET R : Cardinality(u) < Cardinality(s) => u \in Good
      PROVE  s \in Good
  <2> DEFINE x == CHOOSE y \in s : TRUE
  <2>1. f[s] = Adds(ch, f, s) /\ g[s] = Adds(ch, g, s)
    <3>1. s \in SUBSET S
      OBVIOUS
    <3> QED BY <1>2, <3>1
  <2>2. CASE s = {}
    BY <2>1, <2>2 DEF Adds
  <2>3. CASE s # {}
    <3>1. x \in s
      BY <2>3
    <3>2. IsFiniteSet(s) /\ Cardinality(s) \in Nat
      BY <1>1, FS_Subset, FS_CardinalityType
    <3>3. s \ {x} \in SUBSET R /\ Cardinality(s \ {x}) < Cardinality(s)
      <4> HIDE DEF x
      <4> QED BY <3>1, <3>2, OneLess
    <3>4. f[s \ {x}] = g[s \ {x}]
      BY <1>3, <3>3
    <3> QED BY <2>1, <2>3, <3>4 DEF Adds
  <2> QED BY <2>2, <2>3
<1>4. SUBSET R \subseteq Good
  <2> HIDE DEF Good
  <2> QED BY <1>1, <1>3, SmallestFirst
<1> QED
  BY <1>4 DEF f, g

\* A total is nothing, or some child's cost and the total of the others.
LEMMA TotalUnfolds ==
  ASSUME NEW ch, NEW S, IsFiniteSet(S)
  PROVE  /\ Total(ch, {}) = 0
         /\ S # {} => \E x \in S : Total(ch, S) = ch[x].cost + Total(ch, S \ {x})
<1>1. \A R : Total(ch, R) = Table(ch, R)[R]
  BY DEF Total, FoldSet, MapThenFoldSet, Adds, Table
<1>2. \A R \in SUBSET S : Table(ch, S)[R] = Total(ch, R)
  BY <1>1, TotalUnique
<1>3. \A R \in SUBSET S : Table(ch, S)[R] = Adds(ch, Table(ch, S), R)
  BY TableUnfolds
<1>4. Total(ch, {}) = 0
  BY <1>2, <1>3 DEF Adds
<1>5. ASSUME S # {}
      PROVE  \E x \in S : Total(ch, S) = ch[x].cost + Total(ch, S \ {x})
  <2> DEFINE x == CHOOSE y \in S : TRUE
  <2>1. x \in S /\ S \ {x} \in SUBSET S /\ S \in SUBSET S
    BY <1>5
  <2>2. Table(ch, S)[S] = ch[x].cost + Table(ch, S)[S \ {x}]
    BY <1>3, <1>5 DEF Adds
  <2> QED BY <1>2, <2>1, <2>2
<1> QED
  BY <1>4, <1>5

\* The order of summing does not matter: one more child adds its cost.
LEMMA TotalAdds ==
  ASSUME NEW ch, NEW S, IsFiniteSet(S), \A i \in S : ch[i].cost \in Nat
  PROVE  /\ Total(ch, S) \in Nat
         /\ \A x \in S : Total(ch, S) = ch[x].cost + Total(ch, S \ {x})
<1> DEFINE Good == {s \in SUBSET S : /\ Total(ch, s) \in Nat
                                    /\ \A x \in s : Total(ch, s) = ch[x].cost + Total(ch, s \ {x})}
<1>1. ASSUME NEW s \in SUBSET S,
             \A u \in SUBSET S : Cardinality(u) < Cardinality(s) => u \in Good
      PROVE  s \in Good
  <2>1. IsFiniteSet(s) /\ Cardinality(s) \in Nat
    BY FS_Subset, FS_CardinalityType
  <2>2. CASE s = {}
    BY <2>1, <2>2, TotalUnfolds
  <2>3. CASE s # {}
    <3>1. PICK y \in s : Total(ch, s) = ch[y].cost + Total(ch, s \ {y})
      BY <2>1, <2>3, TotalUnfolds
    <3>2. \A x \in s : s \ {x} \in SUBSET S /\ Cardinality(s \ {x}) < Cardinality(s)
      BY <2>1, OneLess
    <3>3. \A x \in s : s \ {x} \in Good
      BY <1>1, <3>2
    <3>4. Total(ch, s) \in Nat
      BY <3>1, <3>3
    <3>5. ASSUME NEW x \in s PROVE Total(ch, s) = ch[x].cost + Total(ch, s \ {x})
      <4>1. CASE x = y
        BY <3>1, <4>1
      <4>2. CASE x # y
        <5>1. Total(ch, s \ {y}) = ch[x].cost + Total(ch, (s \ {y}) \ {x})
          BY <3>3, <4>2
        <5>2. Total(ch, s \ {x}) = ch[y].cost + Total(ch, (s \ {x}) \ {y})
          BY <3>3, <4>2
        <5>3. (s \ {y}) \ {x} = (s \ {x}) \ {y}
          OBVIOUS
        <5>4. Cardinality((s \ {x}) \ {y}) < Cardinality(s) /\ (s \ {x}) \ {y} \in SUBSET S
          <6>1. IsFiniteSet(s \ {x}) /\ Cardinality(s \ {x}) < Cardinality(s) /\ y \in s \ {x}
            BY <2>1, <4>2, OneLess
          <6>2. Cardinality((s \ {x}) \ {y}) < Cardinality(s \ {x})
                /\ Cardinality((s \ {x}) \ {y}) \in Nat /\ Cardinality(s \ {x}) \in Nat
            BY <6>1, OneLess
          <6> QED BY <2>1, <6>1, <6>2
        <5>5. Total(ch, (s \ {x}) \ {y}) \in Nat
          BY <1>1, <5>4
        <5>6. ch[x].cost \in Nat /\ ch[y].cost \in Nat
          OBVIOUS
        <5>7. Total(ch, s) = ch[y].cost + (ch[x].cost + Total(ch, (s \ {x}) \ {y}))
          BY <3>1, <5>1, <5>3
        <5> HIDE DEF Good
        <5> QED BY <5>2, <5>5, <5>6, <5>7
      <4> QED BY <4>1, <4>2
    <3> QED BY <3>4, <3>5
  <2> QED BY <2>2, <2>3
<1>2. SUBSET S \subseteq Good
  <2> HIDE DEF Good
  <2> QED BY <1>1, SmallestFirst
<1> QED
  BY <1>2

\* Children that cost the same have the same total.
LEMMA TotalAgrees ==
  ASSUME NEW ch, NEW cg, NEW S, IsFiniteSet(S), \A i \in S : ch[i].cost \in Nat /\ cg[i].cost = ch[i].cost
  PROVE  Total(cg, S) = Total(ch, S)
<1> DEFINE Good == {s \in SUBSET S : Total(cg, s) = Total(ch, s)}
<1>1. ASSUME NEW s \in SUBSET S,
             \A u \in SUBSET S : Cardinality(u) < Cardinality(s) => u \in Good
      PROVE  s \in Good
  <2>1. IsFiniteSet(s) /\ Cardinality(s) \in Nat
    BY FS_Subset, FS_CardinalityType
  <2>2. CASE s = {}
    BY <2>1, <2>2, TotalUnfolds
  <2>3. CASE s # {}
    <3>1. PICK y \in s : y \in S
      BY <2>3
    <3>2. s \ {y} \in Good
      <4>1. s \ {y} \in SUBSET S /\ Cardinality(s \ {y}) < Cardinality(s)
        BY <2>1, OneLess
      <4> QED BY <1>1, <4>1
    <3>3. Total(ch, s) = ch[y].cost + Total(ch, s \ {y}) /\ Total(cg, s) = cg[y].cost + Total(cg, s \ {y})
      BY <2>1, TotalAdds
    <3> QED BY <3>1, <3>2, <3>3
  <2> QED BY <2>2, <2>3
<1>2. SUBSET S \subseteq Good
  <2> HIDE DEF Good
  <2> QED BY <1>1, SmallestFirst
<1> QED
  BY <1>2

\* Where one child's cost changes, so does the total.
LEMMA TotalChanges ==
  ASSUME NEW ch, NEW cg, NEW S, IsFiniteSet(S), NEW i \in S,
         \A j \in S : ch[j].cost \in Nat /\ cg[j].cost \in Nat,
         \A j \in S \ {i} : cg[j].cost = ch[j].cost
  PROVE  /\ Total(ch, S) \in Nat /\ Total(cg, S) \in Nat
         /\ Total(cg, S) = Total(ch, S) - ch[i].cost + cg[i].cost
<1>1. IsFiniteSet(S \ {i})
  BY OneLess
<1>2. /\ Total(ch, S) \in Nat /\ Total(ch, S) = ch[i].cost + Total(ch, S \ {i})
      /\ Total(cg, S) \in Nat /\ Total(cg, S) = cg[i].cost + Total(cg, S \ {i})
  BY TotalAdds
<1>3. Total(ch, S \ {i}) \in Nat
  BY <1>1, TotalAdds
<1>4. Total(cg, S \ {i}) = Total(ch, S \ {i})
  BY <1>1, TotalAgrees
<1> QED
  BY <1>2, <1>3, <1>4

----------------------------------------------------------------------------
(* A step of the application is a step of each component, or leaves it be.  *)

\* Only start-up changes what start-up reads and writes.
LEMMA StartupSteps == [Next]_vars => [StartupNext]_startupVars
  BY DEF Next, vars, SessionNext, AssuranceNext, sessionVars, assuranceVars

\* Only memory changes notes, documents and prompt.
LEMMA MemorySteps == [Next]_vars => [MemoryNext]_memoryVars
  BY DEF Next, vars, SessionNext, AssuranceNext, sessionVars, assuranceVars

\* Only intake changes the document taken in.
LEMMA IntakeSteps == [Next]_vars => [IntakeNext]_intakeVars
  BY DEF Next, vars, SessionNext, AssuranceNext, sessionVars, assuranceVars

\* Only the map changes its children and the accounts they share.
LEMMA FanoutSteps == [Next]_vars => [FanoutNext]_fanoutVars
  BY DEF Next, vars, SessionNext, AssuranceNext, sessionVars, assuranceVars

\* Only tool calls change what they read and write.
LEMMA ToolSteps == [Next]_vars => [ToolNext]_toolVars
  BY DEF Next, vars, SessionNext, AssuranceNext, sessionVars, assuranceVars

\* Only an evaluation changes its dataset, reports and baseline.
LEMMA EvalSteps == [Next]_vars => [EvalNext]_evalVars
  BY DEF Next, vars, SessionNext, AssuranceNext, sessionVars, assuranceVars

\* Only the pipeline from an agreement to its constraints changes them.
LEMMA ConstraintSteps == [Next]_vars => [ConstraintNext]_constraintVars
  BY DEF Next, vars, SessionNext, AssuranceNext, sessionVars, assuranceVars

\* Only loading changes the configuration.
LEMMA ConfigSteps == [Next]_vars => [ConfigNext]_configVars
  BY DEF Next, vars, SessionNext, AssuranceNext, sessionVars, assuranceVars

\* Only the operations of a record change it.
LEMMA RecordSteps == [Next]_vars => [RecordNext]_recordVars
  BY DEF Next, vars, SessionNext, AssuranceNext, sessionVars, assuranceVars

\* Only the authoring of a graph changes it.
LEMMA BuildSteps == [Next]_vars => [BuildNext]_buildVars
  BY DEF Next, vars, SessionNext, AssuranceNext, sessionVars, assuranceVars

\* Only evidence-check changes what it has read of a page.
LEMMA CheckSteps == [Next]_vars => [CheckNext]_checkVars
  BY DEF Next, vars, SessionNext, AssuranceNext, sessionVars, assuranceVars

\* Only reconcile changes its reports.
LEMMA ReconcileSteps == [Next]_vars => [ReconcileNext]_reconcileVars
  BY DEF Next, vars, SessionNext, AssuranceNext, sessionVars, assuranceVars

----------------------------------------------------------------------------
(* Start-up.                                                                *)

\* Everything that doctor and setup may have said of the environment.
Sayable ==
    residency \cup {backend_note, IF environ.sdk THEN "sdk_installed" ELSE "sdk_missing"}
    \cup {IF present THEN "calls_are_billed"
          ELSE IF environ.backend = "anthropic" THEN "first_call_will_fail" ELSE "runs_in_process"}

\* The client that build_stack makes of the environment and the arguments.
BackendBuilt(args) ==
    IF args.policy THEN "scripted"
    ELSE build_backend(IF args.backend = "unnamed" THEN environ.backend ELSE args.backend)

\* What has been said follows from the environment; the client, and what came of it,
\* from the environment and the arguments.
StartupInv ==
    /\ environ \in Environments
    /\ told \subseteq Sayable
    /\ client \in {"none", "scripted", "anthropic"}
    /\ client # "none" => client = BackendBuilt(arguments) /\ (client = "anthropic" => environ.sdk)
    /\ client # "none" => outcome = "none" \/ outcome \in Outcomes
    /\ client = "none" => \/ outcome = "none"
                          \/ outcome = "no_sdk" /\ BackendBuilt(arguments) = "anthropic" /\ ~environ.sdk

LEMMA StartupStays == Spec => []StartupInv
<1>1. Init => StartupInv
  BY DEF Init, SessionInit, StartupInit, StartupInv
<1>2. StartupInv /\ [Next]_vars => StartupInv'
  <2> SUFFICES ASSUME StartupInv, [StartupNext]_startupVars PROVE StartupInv'
    BY StartupSteps
  <2> USE DEF StartupInv, Sayable, BackendBuilt, present, build_backend, backend_note, residency
  <2>1. CASE doctor
    BY <2>1 DEF doctor, Outcomes
  <2>2. CASE setup
    BY <2>2 DEF setup, Outcomes
  <2>3. ASSUME NEW args \in Arguments, build_stack(args) PROVE StartupInv'
    BY <2>3 DEF build_stack
  <2>4. ASSUME NEW how \in {"in_process", "sent", "failed"}, complete(how)
        PROVE  StartupInv'
    BY <2>4 DEF complete, Outcomes
  <2>5. CASE UNCHANGED startupVars
    BY <2>5 DEF startupVars, Outcomes
  <2>6. QED
    BY <2>1, <2>2, <2>3, <2>4, <2>5 DEF StartupNext
<1>3. QED
  BY <1>1, <1>2, PTL DEF Spec

\* What doctor and setup say of the environment is so of the stack then built from it
\* and its call, apart from what Misstated names: of every environment, in whatever
\* order and however often they were asked.
THEOREM DoctorAlwaysTellsTruth == Spec => []DoctorTellsTruth
<1>1. StartupInv => DoctorTellsTruth
  <2> SUFFICES ASSUME StartupInv, "blank" \notin {environ.key, environ.token},
                      arguments = Unasked, outcome # "none"
               PROVE  told \cap Untrue = told \cap Misstated
    BY DEF DoctorTellsTruth
  <2>1. /\ environ.key \in {"unset", "set"} /\ environ.token \in {"unset", "set"}
        /\ environ.backend \in {"auto", "scripted", "anthropic", "other"}
        /\ environ.sdk \in BOOLEAN /\ environ.profile \in BOOLEAN
    BY DEF StartupInv, Environments, Variable
  <2>2. BackendBuilt(arguments) = build_backend(environ.backend)
    BY DEF BackendBuilt, Unasked
  <2> QED
    BY <2>1, <2>2
    DEF StartupInv, Sayable, present, build_backend, backend_note, residency, Outcomes, Untrue, Misstated
<1>2. QED
  BY <1>1, StartupStays, PTL

----------------------------------------------------------------------------
(* Memory.                                                                  *)

\* Whatever the notes, their sources and the order of changes, writes, crashes and
\* reads: no model is shown a note that is out of date, unchecked, damaged, or not
\* among those that `used` names.
THEOREM ShownAlwaysSound == Spec => []ShownIsSound
<1>1. Init => ShownIsSound
  BY DEF Init, SessionInit, MemoryInit, ShownIsSound, StaleNeverShown, ShownIsTraced
<1>2. ShownIsSound /\ [Next]_vars => ShownIsSound'
  <2> SUFFICES ASSUME ShownIsSound, [MemoryNext]_memoryVars PROVE ShownIsSound'
    BY MemorySteps
  <2>1. CASE Unshown
    BY <2>1 DEF Unshown, ShownIsSound, StaleNeverShown, ShownIsTraced
  <2>2. ASSUME NEW hits, NEW shown \in SUBSET hits, NEW strict, recall(hits, shown, strict)
        PROVE  ShownIsSound'
    <3>1. \A s \in shown :
             /\ s \in Readable
             /\ \/ freshness(notes[s], loaded) = "fresh"
                \/ freshness(notes[s], loaded) = "unbound" /\ ~strict
      BY <2>2 DEF recall, recalled
    <3>2. \A s \in shown :
             /\ notes[s] # Corrupt
             /\ s \in used'
      BY <2>2, <3>1 DEF recall, Show, usable, Readable
    <3>3. \A s \in shown :
             /\ \A b \in notes[s].derived_from : b.ref \in DOMAIN loaded => loaded[b.ref] = b.sha
             /\ notes[s].derived_from # {} => \E b \in notes[s].derived_from : b.ref \in DOMAIN loaded
             /\ strict => notes[s].derived_from # {}
      BY <3>1 DEF freshness
    <3>4. \A p \in prompt' : \E s \in shown :
             p = [note |-> notes[s], slug |-> s, sources |-> loaded, strict |-> strict, whole |-> TRUE]
      BY <2>2 DEF recall, Show
    <3>5. QED
      BY <3>2, <3>3, <3>4 DEF ShownIsSound, StaleNeverShown, ShownIsTraced
  <2>3. ASSUME NEW hits, NEW shown, NEW strict, inject(hits, shown, strict)
        PROVE  ShownIsSound'
    <3>1. \A s \in shown : s \in recalled(hits, loaded, TRUE, strict) /\ usable(notes[s], loaded)
      BY <2>3 DEF inject
    <3>2. \A s \in shown :
             /\ notes[s] # Corrupt
             /\ s \in used'
      BY <2>3, <3>1 DEF inject, Show, recalled, Readable
    <3>3. \A s \in shown :
             /\ \A b \in notes[s].derived_from : b.ref \in DOMAIN loaded => loaded[b.ref] = b.sha
             /\ notes[s].derived_from # {} => \E b \in notes[s].derived_from : b.ref \in DOMAIN loaded
      BY <3>1 DEF usable, freshness
    <3>4. \A p \in prompt' : \E s \in shown :
             p = [note |-> notes[s], slug |-> s, sources |-> loaded, strict |-> strict, whole |-> FALSE]
      BY <2>3 DEF inject, Show
    <3>5. QED
      BY <3>2, <3>3, <3>4 DEF ShownIsSound, StaleNeverShown, ShownIsTraced
  <2>4. CASE UNCHANGED memoryVars
    BY <2>4 DEF memoryVars, ShownIsSound, StaleNeverShown, ShownIsTraced
  <2>5. QED
    BY <2>1, <2>2, <2>3, <2>4
    DEF MemoryNext, change_document, read_document, write, write_interrupted, forget
<1>3. QED
  BY <1>1, <1>2, PTL DEF Spec

----------------------------------------------------------------------------
(* Records.                                                                 *)

\* A record has its six fields, those of what it was lifted from, and what was lifted
\* reads like the artifact it all began with.
RecordInv ==
    /\ record # NoRecord \/ lifted # NoRecord => \E a \in Artifacts : View(lifted) = View(a)
    /\ record # NoRecord =>
         /\ record = [fields |-> record.fields, text |-> record.text, extras |-> record.extras,
                      status |-> record.status, review |-> record.review,
                      gate_report |-> record.gate_report]
         /\ record.fields = [n \in DOMAIN lifted.fields |->
                               [value |-> lifted.fields[n].value,
                                evidence |-> evidence_of(lifted.fields[n])]]
         /\ record.text = lifted.text /\ record.extras = lifted.extras
         /\ record.review = asked /\ record.gate_report = gated

\* Lowering a record gives an artifact that reads as the one it was lifted from.
LEMMA LoweredReadsTheSame ==
  ASSUME RecordInv, to_artifact
  PROVE  View(lifted') = View(lifted)
<1> DEFINE low == [n \in DOMAIN record.fields |->
                     [value |-> record.fields[n].value,
                      quote |-> IF record.fields[n].evidence = <<>> THEN NoText
                                ELSE record.fields[n].evidence[1]]]
<1>1. lifted' = [fields |-> low, text |-> lifted.text, extras |-> lifted.extras]
  BY DEF to_artifact, RecordInv
<1>2. DOMAIN low = DOMAIN lifted.fields
  BY DEF to_artifact, RecordInv
<1>3. ASSUME NEW n \in DOMAIN lifted.fields
      PROVE  /\ low[n].value = lifted.fields[n].value
             /\ (IF low[n].quote = Bare THEN NoText ELSE low[n].quote)
                  = (IF lifted.fields[n].quote = Bare THEN NoText ELSE lifted.fields[n].quote)
  <2>1. record.fields[n] = [value |-> lifted.fields[n].value,
                            evidence |-> evidence_of(lifted.fields[n])]
    BY DEF to_artifact, RecordInv
  <2>2. low[n] = [value |-> lifted.fields[n].value,
                  quote |-> IF evidence_of(lifted.fields[n]) = <<>> THEN NoText
                            ELSE evidence_of(lifted.fields[n])[1]]
    BY <2>1, <1>2
  <2>3. CASE lifted.fields[n].quote \in {Bare, NoText}
    BY <2>2, <2>3 DEF evidence_of
  <2>4. CASE lifted.fields[n].quote \notin {Bare, NoText}
    BY <2>2, <2>4 DEF evidence_of
  <2>5. QED
    BY <2>3, <2>4
<1> HIDE DEF low
<1>4. QED
  BY <1>1, <1>2, <1>3 DEF View

\* A transition keeps the record and everything it was asked.
LEMMA TransitionsKeepRecord ==
  ASSUME RecordInv, NEW to, NEW items, NEW judgement, becomes(to, items, judgement)
  PROVE  RecordInv'
<1>1. record' = [record EXCEPT !.status = to, !.review = record.review \cup items,
                               !.gate_report = Or(judgement, record.gate_report)]
  BY DEF becomes
<1>2. record # NoRecord /\ lifted' = lifted
  BY DEF becomes
<1>3. record' = [fields |-> record.fields, text |-> record.text, extras |-> record.extras,
                 status |-> to, review |-> record.review \cup items,
                 gate_report |-> Or(judgement, record.gate_report)]
  BY <1>1, <1>2 DEF RecordInv
<1>4. asked' = record.review \cup items /\ gated' = Or(judgement, record.gate_report)
  BY <1>2 DEF becomes, RecordInv
<1>5. QED
  BY <1>2, <1>3, <1>4 DEF RecordInv, View

\* A record just lifted has what the artifact had, and was asked nothing.
LEMMA LiftingMakesRecord ==
  ASSUME NEW a, from_artifact(a), \E b \in Artifacts : View(a) = View(b)
  PROVE  RecordInv'
  BY DEF from_artifact, RecordInv, View

\* The gates read of a record what was first extracted, and it knows every question and
\* the last gate report, after any number of transitions and conversions.
THEOREM RecordAlwaysTells == Spec => []RecordTells
<1>1. Init => RecordInv
  BY DEF Init, AssuranceInit, RecordInit, RecordInv
<1>2. RecordInv /\ [Next]_vars => RecordInv'
  <2> SUFFICES ASSUME RecordInv, [RecordNext]_recordVars PROVE RecordInv'
    BY RecordSteps
  <2>1. CASE \E a \in Artifacts : from_artifact(a)
    BY <2>1, LiftingMakesRecord
  <2>2. CASE lift_again
    BY <2>2, LiftingMakesRecord DEF lift_again, RecordInv
  <2>3. ASSUME NEW to, NEW items, NEW judgement, becomes(to, items, judgement)
        PROVE  RecordInv'
    BY <2>3, TransitionsKeepRecord
  <2>4. CASE to_artifact
    BY <2>4, LoweredReadsTheSame DEF to_artifact, RecordInv
  <2>5. CASE UNCHANGED recordVars
    BY <2>5 DEF recordVars, RecordInv, View
  <2>6. QED
    BY <2>1, <2>2, <2>3, <2>4, <2>5
    DEF RecordNext, certified, admitted, referred, abstained, needing_review
<1>3. RecordInv => RecordTells
  BY DEF RecordInv, RecordTells
<1>4. QED
  BY <1>1, <1>2, <1>3, PTL DEF Spec

----------------------------------------------------------------------------
(* Intake.                                                                  *)

\* The gates that every document shares pass of the artifact.
SharedGatesPass ==
    /\ Required[document.kind] \subseteq DOMAIN artifact.fields
    /\ \A n \in DOMAIN artifact.fields :
         /\ artifact.fields[n] # Placeholder
         /\ contains({"page"}, artifact.quotes[n])
    /\ artifact.verdict.approved

\* The text an artifact is judged against is the document's; an approval comes from the
\* verifier, with citations that are all in it; what the gates have passed is
\* what was loaded, for nothing changes it after them.
IntakeInv ==
    /\ extracted # NotYet => document # NotYet
    /\ artifact # NotYet =>
         /\ extracted # NotYet
         /\ artifact = [fields |-> artifact.fields, rows |-> artifact.rows,
                        quotes |-> artifact.quotes, kind |-> artifact.kind, id |-> artifact.id,
                        source |-> {"page"}, verdict |-> artifact.verdict]
    /\ gate_report # NotYet =>
         /\ artifact # NotYet
         /\ artifact.verdict.approved =>
              /\ artifact.verdict.found # {}
              /\ \A q \in artifact.verdict.found : quote_is_in({"page"}, q)
    /\ "failed" \in DOMAIN gate_report /\ gate_report.failed = {} => SharedGatesPass
    /\ Accepted => "failed" \in DOMAIN gate_report /\ gate_report.failed = {}

\* The two reports are told apart by what they carry.
LEMMA ReportsDiffer ==
  /\ [verified |-> TRUE] # NotYet
  /\ "failed" \notin DOMAIN [verified |-> TRUE]
  /\ "failed" \notin DOMAIN NotYet
<1>1. DOMAIN [verified |-> TRUE] = {"verified"} /\ DOMAIN NotYet = {"none"}
  BY DEF NotYet
<1>2. QED
  BY <1>1

\* No gate has failed only if those every document shares have passed.
LEMMA GatesPassEvidence ==
  ASSUME IntakeInv, gates, gate_report'.failed = {}
  PROVE  SharedGatesPass'
<1> DEFINE shared == evidence_gated_extraction(artifact, Required[document.kind])
           own == domain_gates(document.kind, artifact)
<1>1. gate_report' = [failed |-> {g \in DOMAIN shared : ~shared[g]}
                                 \cup {g \in DOMAIN own : ~own[g]}]
  BY DEF gates
<1>3. \A g \in DOMAIN shared : shared[g]
  <2> HIDE DEF shared, own
  <2> QED BY <1>1
<1>4. /\ shared["required_fields"] /\ shared["no_placeholders"]
      /\ shared["evidence_verbatim"] /\ shared["independently_verified"]
  <2>1. {"required_fields", "no_placeholders", "evidence_verbatim", "independently_verified"}
            \subseteq DOMAIN shared
    BY DEF evidence_gated_extraction
  <2> HIDE DEF shared, own
  <2> QED BY <1>3, <2>1
<1>5. artifact.source = {"page"}
  BY ReportsDiffer DEF IntakeInv, gates
<1>6. SharedGatesPass
  BY <1>4, <1>5 DEF SharedGatesPass, evidence_gated_extraction
<1>7. QED
  BY <1>6 DEF gates, SharedGatesPass

\* The verifier approves only with citations, and only with such as are in the text.
LEMMA VerifierNeedsEvidence ==
  ASSUME IntakeInv, NEW r, verify(r)
  PROVE  /\ artifact' = [artifact EXCEPT !.verdict = artifact'.verdict]
         /\ artifact'.verdict.approved =>
              /\ artifact'.verdict.found # {}
              /\ \A q \in artifact'.verdict.found : quote_is_in({"page"}, q)
<1> DEFINE found == {q \in r.citations : quote_is_in(artifact.source, q)}
           approved == r.approves /\ found # {} /\ found = r.citations
           ruling == IF ~r.json THEN NoVerdict ELSE [approved |-> approved, found |-> found]
<1>1. artifact' = [artifact EXCEPT !.verdict = ruling] /\ artifact # NotYet
  BY DEF verify
<1>2. artifact = [fields |-> artifact.fields, rows |-> artifact.rows,
                  quotes |-> artifact.quotes, kind |-> artifact.kind, id |-> artifact.id,
                  source |-> {"page"}, verdict |-> artifact.verdict]
  BY <1>1 DEF IntakeInv
<1>3. artifact'.verdict = ruling
  <2> HIDE DEF ruling
  <2> QED BY <1>1, <1>2
<1>4. ruling.approved => ruling.found # {} /\ \A q \in ruling.found : quote_is_in({"page"}, q)
  <2>1. approved => found # {} /\ \A q \in found : quote_is_in({"page"}, q)
    BY <1>2
  <2>2. ruling = NoVerdict \/ ruling = [approved |-> approved, found |-> found]
    OBVIOUS
  <2> HIDE DEF approved, found, ruling
  <2>3. CASE ruling = NoVerdict
    BY <2>3 DEF NoVerdict
  <2>4. CASE ruling = [approved |-> approved, found |-> found]
    <3>1. ruling.approved = approved /\ ruling.found = found
      BY <2>4
    <3>2. QED
      BY <3>1, <2>1
  <2>5. QED
    BY <2>2, <2>3, <2>4
<1> HIDE DEF ruling
<1>5. QED
  BY <1>1, <1>3, <1>4

LEMMA IntakeStays == Spec => []IntakeInv
<1>1. Init => IntakeInv
  BY ReportsDiffer DEF Init, AssuranceInit, IntakeInit, IntakeInv, Accepted
<1>2. IntakeInv /\ [Next]_vars => IntakeInv'
  <2> SUFFICES ASSUME IntakeInv, [IntakeNext]_intakeVars PROVE IntakeInv'
    BY IntakeSteps
  <2>1. ASSUME NEW d, load_document(d) PROVE IntakeInv'
    BY <2>1, ReportsDiffer DEF load_document, IntakeInv, Accepted, SharedGatesPass
  <2>2. ASSUME NEW x, extract(x) PROVE IntakeInv'
    BY <2>2, ReportsDiffer DEF extract, IntakeInv, Accepted, SharedGatesPass
  <2>3. CASE assemble
    BY <2>3, ReportsDiffer DEF assemble, IntakeInv, Accepted, SharedGatesPass
  <2>4. ASSUME NEW r, verify(r) PROVE IntakeInv'
    <3>1. /\ artifact # NotYet
          /\ gate_report = NotYet /\ gate_report' = [verified |-> TRUE]
          /\ UNCHANGED <<document, extracted, landed>>
      BY <2>4 DEF verify
    <3>2. artifact = [fields |-> artifact.fields, rows |-> artifact.rows,
                      quotes |-> artifact.quotes, kind |-> artifact.kind, id |-> artifact.id,
                      source |-> {"page"}, verdict |-> artifact.verdict]
      BY <3>1 DEF IntakeInv
    <3>3. artifact' = [fields |-> artifact.fields, rows |-> artifact.rows,
                       quotes |-> artifact.quotes, kind |-> artifact.kind, id |-> artifact.id,
                       source |-> {"page"}, verdict |-> artifact'.verdict]
      BY <2>4, <3>2, VerifierNeedsEvidence
    <3>4. artifact'.verdict.approved =>
             /\ artifact'.verdict.found # {}
             /\ \A q \in artifact'.verdict.found : quote_is_in({"page"}, q)
      BY <2>4, VerifierNeedsEvidence
    <3>5. ~Accepted /\ ~Accepted' /\ extracted # NotYet
      BY <3>1, ReportsDiffer DEF IntakeInv, Accepted
    <3>6. artifact' # NotYet
      BY <3>3 DEF NotYet
    <3>7. QED
      BY <3>1, <3>3, <3>4, <3>5, <3>6, ReportsDiffer DEF IntakeInv
  <2>5. CASE gates
    BY <2>5, GatesPassEvidence, ReportsDiffer DEF gates, IntakeInv, Accepted
  <2>6. CASE accept
    BY <2>6 DEF accept, Judged, IntakeInv, Accepted, SharedGatesPass
  <2>7. CASE refer
    BY <2>7 DEF refer, Judged, IntakeInv, Accepted, SharedGatesPass
  <2>8. CASE UNCHANGED intakeVars
    BY <2>8 DEF intakeVars, IntakeInv, Accepted, SharedGatesPass
  <2>9. QED
    BY <2>1, <2>2, <2>3, <2>4, <2>5, <2>6, <2>7, <2>8 DEF IntakeNext
<1>3. QED
  BY <1>1, <1>2, PTL DEF Spec

\* What is loaded rests on the document, for every document, extractor and verifier,
\* whatever keys the extractor's answer carries.
THEOREM AcceptedAlwaysOnEvidence == Spec => []AcceptedOnEvidence
<1>1. IntakeInv => AcceptedOnEvidence
  <2> SUFFICES ASSUME IntakeInv, Accepted PROVE AcceptedOnEvidence
    BY DEF AcceptedOnEvidence
  <2>1. SharedGatesPass /\ gate_report # NotYet
    BY ReportsDiffer DEF IntakeInv
  <2>2. QED
    BY <2>1 DEF AcceptedOnEvidence, IntakeInv, SharedGatesPass, contains, quote_is_in, In
<1>2. QED
  BY <1>1, IntakeStays, PTL

----------------------------------------------------------------------------
(* Evaluation.                                                              *)

\* The keys of a report that count something.
Counters == {"true_accept", "true_refer", "false_accept", "false_refer", "right_reason",
             "wrong_reason", "errored", "correct", "wrong", "missing", "valid", "total"}
Tallies == [Counters -> Nat]

\* One more of one.
LEMMA PlusCounts ==
  ASSUME NEW r \in Tallies, NEW k \in Counters
  PROVE  /\ Plus(r, k) \in Tallies /\ Plus(r, k)[k] = r[k] + 1
         /\ \A j \in Counters : j # k => Plus(r, k)[j] = r[j]
  BY DEF Tallies, Plus

LEMMA ZeroCounts == Zero \in Tallies /\ \A k \in Counters : Zero[k] = 0
<1>1. Zero = [k \in Counters |-> 0]
  BY DEF Zero, Counters
<1> QED
  BY <1>1 DEF Tallies


\* The fields and citations of one case.
WithFields(d, out) ==
    [d EXCEPT !.correct = @ + out.fields.correct, !.wrong = @ + out.fields.wrong,
              !.missing = @ + out.fields.missing, !.valid = @ + out.evidence.valid,
              !.total = @ + out.evidence.total]

Countable(out) ==
    /\ out.raises \in BOOLEAN
    /\ out.fields.correct \in Nat /\ out.fields.wrong \in Nat /\ out.fields.missing \in Nat
    /\ out.evidence.total \in Nat /\ out.evidence.valid \in Nat
    /\ out.evidence.valid <= out.evidence.total

LEMMA OutcomesCount ==
  \A out \in CaseOutcomes \cup {errored_outcome} : Countable(out)
<1>1. Countable(errored_outcome)
  BY DEF Countable, errored_outcome
<1>2. ASSUME NEW out \in CaseOutcomes PROVE Countable(out)
  <2>1. out.evidence.total \in Nat /\ out.evidence.valid \in 0..out.evidence.total
    BY EvaluationAssumption
  <2>2. out.evidence.valid \in Nat /\ out.evidence.valid <= out.evidence.total
    BY <2>1
  <2> QED BY <2>1, <2>2, EvaluationAssumption DEF Countable
<1> QED
  BY <1>1, <1>2

LEMMA FieldsCount ==
  ASSUME NEW d \in Tallies, NEW out, Countable(out)
  PROVE  /\ WithFields(d, out) \in Tallies
         /\ WithFields(d, out)["valid"] = d["valid"] + out.evidence.valid
         /\ WithFields(d, out)["total"] = d["total"] + out.evidence.total
         /\ \A k \in Counters \ {"correct", "wrong", "missing", "valid", "total"} :
               WithFields(d, out)[k] = d[k]
<1> DEFINE e == WithFields(d, out)
<1>1. \A k \in Counters : d[k] \in Nat
  BY DEF Tallies
<1>2. e = [k \in Counters |-> IF k = "correct" THEN d["correct"] + out.fields.correct
                              ELSE IF k = "wrong" THEN d["wrong"] + out.fields.wrong
                              ELSE IF k = "missing" THEN d["missing"] + out.fields.missing
                              ELSE IF k = "valid" THEN d["valid"] + out.evidence.valid
                              ELSE IF k = "total" THEN d["total"] + out.evidence.total ELSE d[k]]
  BY DEF Tallies, Counters, WithFields
<1> HIDE DEF e
<1>3. {"correct", "wrong", "missing", "valid", "total"} \subseteq Counters
  BY DEF Counters
<1>4. ASSUME NEW k \in Counters PROVE e[k] \in Nat
  <2>1. CASE k \in {"correct", "wrong", "missing", "valid", "total"}
    BY <1>1, <1>2, <1>3, <2>1 DEF Countable
  <2>2. CASE k \notin {"correct", "wrong", "missing", "valid", "total"}
    BY <1>1, <1>2, <2>2
  <2> QED BY <2>1, <2>2
<1>5. e \in Tallies
  BY <1>2, <1>4 DEF Tallies
<1> QED
  BY <1>2, <1>3, <1>5 DEF e

\* One case is counted once: what it adds to the tally.
LEMMA CaseCounts ==
  ASSUME NEW r \in Tallies, NEW case, NEW out \in CaseOutcomes \cup {errored_outcome},
         case.decision \in {"accept", "refer"}, NEW n, n = score_case(case, out, r),
         NEW fate, fate = Fate(out)
  PROVE  /\ n \in Tallies
         /\ n["false_accept"] = r["false_accept"]
              + IF case.decision = "refer" /\ fate = "accept" THEN 1 ELSE 0
         /\ n["true_accept"] = r["true_accept"]
              + IF case.decision = "accept" /\ fate = "accept" THEN 1 ELSE 0
         /\ n["true_refer"] = r["true_refer"]
              + IF case.decision = "refer" /\ fate # "accept" THEN 1 ELSE 0
         /\ n["false_refer"] = r["false_refer"]
              + IF case.decision = "accept" /\ fate # "accept" THEN 1 ELSE 0
         /\ n["errored"] = r["errored"] + IF fate = "crash" THEN 1 ELSE 0
         /\ n["right_reason"] + n["wrong_reason"] - n["true_refer"]
              = r["right_reason"] + r["wrong_reason"] - r["true_refer"]
         /\ n["wrong_reason"] >= r["wrong_reason"]
              + IF case.decision = "refer" /\ fate = "crash" THEN 1 ELSE 0
         /\ n["total"] - n["valid"] >= r["total"] - r["valid"]
<1>0. /\ out.raises => fate = "crash"
      /\ ~out.raises /\ out.decision = "accept" => fate = "accept"
      /\ ~out.raises /\ out.decision # "accept" => fate = "refer"
  BY DEF Fate
<1>1. Countable(out)
  BY OutcomesCount
<1>2. /\ "true_accept" \in Counters /\ "true_refer" \in Counters /\ "false_accept" \in Counters
      /\ "false_refer" \in Counters /\ "right_reason" \in Counters /\ "wrong_reason" \in Counters
      /\ "errored" \in Counters /\ "valid" \in Counters /\ "total" \in Counters
  BY DEF Counters
<1>3. \A d \in Tallies : \A k \in Counters : d[k] \in Nat
  BY DEF Tallies
<1>4. CASE out.raises
  <2> DEFINE e == Plus(r, "errored")
             f == Plus(e, "true_refer")
             g == Plus(f, "wrong_reason")
             h == Plus(e, "false_refer")
  <2>1. /\ e \in Tallies /\ f \in Tallies /\ g \in Tallies /\ h \in Tallies
    BY <1>2, PlusCounts
  <2>2. n = IF case.decision = "refer" THEN g ELSE h
    BY <1>4 DEF score_case
  <2>3. e["errored"] = r["errored"] + 1 /\ \A k \in Counters : k # "errored" => e[k] = r[k]
    BY <1>2, PlusCounts
  <2>4. f["true_refer"] = e["true_refer"] + 1 /\ \A k \in Counters : k # "true_refer" => f[k] = e[k]
    BY <1>2, <2>1, PlusCounts
  <2>5. g["wrong_reason"] = f["wrong_reason"] + 1 /\ \A k \in Counters : k # "wrong_reason" => g[k] = f[k]
    BY <1>2, <2>1, PlusCounts
  <2>6. h["false_refer"] = e["false_refer"] + 1 /\ \A k \in Counters : k # "false_refer" => h[k] = e[k]
    BY <1>2, <2>1, PlusCounts
  <2> HIDE DEF e, f, g, h
  <2>7. CASE case.decision = "refer"
    <3>1. /\ n["errored"] = r["errored"] + 1 /\ n["true_refer"] = r["true_refer"] + 1
          /\ n["wrong_reason"] = r["wrong_reason"] + 1
          /\ \A k \in Counters : k \notin {"errored", "true_refer", "wrong_reason"} => n[k] = r[k]
      BY <1>2, <2>2, <2>3, <2>4, <2>5, <2>7
    <3> QED BY <1>0, <1>2, <1>3, <1>4, <2>1, <2>2, <2>7, <3>1
  <2>8. CASE case.decision = "accept"
    <3>1. /\ n["errored"] = r["errored"] + 1 /\ n["false_refer"] = r["false_refer"] + 1
          /\ \A k \in Counters : k \notin {"errored", "false_refer"} => n[k] = r[k]
      BY <1>2, <2>2, <2>3, <2>6, <2>8
    <3> QED BY <1>0, <1>2, <1>3, <1>4, <2>1, <2>2, <2>8, <3>1
  <2> QED BY <2>7, <2>8
<1>5. CASE ~out.raises
  <2> DEFINE d == score_decision(case, out, r)
  <2>1. n = WithFields(d, out)
    BY <1>5 DEF score_case, WithFields
  <2>2. CASE case.decision = "accept"
    <3> DEFINE k1 == IF out.decision = "accept" THEN "true_accept" ELSE "false_refer"
    <3>1. d = Plus(r, k1) /\ k1 \in Counters
      BY <1>2, <2>2 DEF score_decision
    <3> HIDE DEF d, k1
    <3>2. d \in Tallies /\ d[k1] = r[k1] + 1 /\ \A j \in Counters : j # k1 => d[j] = r[j]
      BY <3>1, PlusCounts
    <3>3. /\ n \in Tallies
          /\ n["valid"] = d["valid"] + out.evidence.valid /\ n["total"] = d["total"] + out.evidence.total
          /\ \A k \in Counters \ {"correct", "wrong", "missing", "valid", "total"} : n[k] = d[k]
      BY <1>1, <2>1, <3>2, FieldsCount
    <3>4. CASE out.decision = "accept"
      <4>1. k1 = "true_accept"
        BY <3>4 DEF k1
      <4> QED BY <1>0, <1>1, <1>2, <1>3, <1>5, <2>2, <3>2, <3>3, <3>4, <4>1 DEF Countable
    <3>5. CASE out.decision # "accept"
      <4>1. k1 = "false_refer"
        BY <3>5 DEF k1
      <4> QED BY <1>0, <1>1, <1>2, <1>3, <1>5, <2>2, <3>2, <3>3, <3>5, <4>1 DEF Countable
    <3> QED BY <3>4, <3>5
  <2>3. CASE case.decision = "refer" /\ out.decision = "accept"
    <3>1. d = Plus(r, "false_accept")
      BY <2>3 DEF score_decision
    <3> HIDE DEF d
    <3>2. d \in Tallies /\ d["false_accept"] = r["false_accept"] + 1
          /\ \A j \in Counters : j # "false_accept" => d[j] = r[j]
      BY <1>2, <3>1, PlusCounts
    <3>3. /\ n \in Tallies
          /\ n["valid"] = d["valid"] + out.evidence.valid /\ n["total"] = d["total"] + out.evidence.total
          /\ \A k \in Counters \ {"correct", "wrong", "missing", "valid", "total"} : n[k] = d[k]
      BY <1>1, <2>1, <3>2, FieldsCount
    <3> QED BY <1>0, <1>1, <1>2, <1>3, <1>5, <2>3, <3>2, <3>3 DEF Countable
  <2>4. CASE case.decision = "refer" /\ out.decision # "accept"
    <3> DEFINE e == Plus(r, "true_refer")
               k2 == IF case.gates \cap out.gates # {} THEN "right_reason" ELSE "wrong_reason"
    <3>1. d = Plus(e, k2) /\ k2 \in Counters /\ k2 \in {"right_reason", "wrong_reason"}
      BY <1>2, <2>4 DEF score_decision
    <3>2. e \in Tallies /\ e["true_refer"] = r["true_refer"] + 1
          /\ \A j \in Counters : j # "true_refer" => e[j] = r[j]
      BY <1>2, PlusCounts
    <3> HIDE DEF d, e, k2
    <3>3. d \in Tallies /\ d[k2] = e[k2] + 1 /\ \A j \in Counters : j # k2 => d[j] = e[j]
      BY <3>1, <3>2, PlusCounts
    <3>4. /\ n \in Tallies
          /\ n["valid"] = d["valid"] + out.evidence.valid /\ n["total"] = d["total"] + out.evidence.total
          /\ \A k \in Counters \ {"correct", "wrong", "missing", "valid", "total"} : n[k] = d[k]
      BY <1>1, <2>1, <3>3, FieldsCount
    <3>5. CASE k2 = "right_reason"
      BY <1>0, <1>1, <1>2, <1>3, <1>5, <2>4, <3>2, <3>3, <3>4, <3>5 DEF Countable
    <3>6. CASE k2 = "wrong_reason"
      BY <1>0, <1>1, <1>2, <1>3, <1>5, <2>4, <3>2, <3>3, <3>4, <3>6 DEF Countable
    <3> QED BY <3>1, <3>5, <3>6
  <2> QED BY <2>2, <2>3, <2>4
<1> QED
  BY <1>1, <1>4, <1>5

\* One step of the fold that scores the cases; the fold is a function on their subsets.
Scored(ds, os, f, s) ==
    IF s = {} THEN Zero
    ELSE LET x == CHOOSE y \in s : TRUE IN score_case(ds[x], os[x], f[s \ {x}])

LEMMA ScoreDefined ==
  ASSUME NEW ds, NEW os, NEW S, IsFiniteSet(S)
  PROVE  \E f : f = [s \in SUBSET S |-> Scored(ds, os, f, s)]
<1> DEFINE Upto(n) == {s \in SUBSET S : Cardinality(s) <= n}
           Defined(n) == \E f : f = [s \in Upto(n) |-> Scored(ds, os, f, s)]
           T == {n \in Nat : ~Defined(n)}
<1>1. \A s \in SUBSET S : IsFiniteSet(s) /\ Cardinality(s) \in Nat /\ Cardinality(s) <= Cardinality(S)
  BY FS_Subset, FS_CardinalityType
<1>2. \A s \in SUBSET S : s # {} => /\ (CHOOSE x \in s : TRUE) \in s
                                    /\ Cardinality(s) > 0
                                    /\ Cardinality(s \ {CHOOSE x \in s : TRUE}) = Cardinality(s) - 1
  <2> SUFFICES ASSUME NEW s \in SUBSET S, s # {}
               PROVE  /\ (CHOOSE x \in s : TRUE) \in s /\ Cardinality(s) > 0
                      /\ Cardinality(s \ {CHOOSE x \in s : TRUE}) = Cardinality(s) - 1
    OBVIOUS
  <2>1. (CHOOSE x \in s : TRUE) \in s
    OBVIOUS
  <2>2. IsFiniteSet(s)
    BY <1>1
  <2> DEFINE x == CHOOSE y \in s : TRUE
  <2>3. x \in s
    BY <2>1
  <2>4. Cardinality(s \ {x}) = Cardinality(s) - 1 /\ Cardinality(s) \in Nat /\ Cardinality(s) # 0
    <3> HIDE DEF x
    <3> QED BY <2>2, <2>3, OneLess
  <2> QED BY <2>1, <2>4
<1>3. T = {}
  <2> SUFFICES ASSUME T # {} PROVE FALSE
    OBVIOUS
  <2>1. PICK n \in T : \A m \in T : n <= m
    <3>1. T \in SUBSET Nat
      BY DEF T
    <3> HIDE DEF T
    <3> QED BY <3>1, LeastMember
  <2>2. n \in Nat /\ ~Defined(n)
    OBVIOUS
  <2>3. CASE n = 0
    <3> DEFINE g == [s \in Upto(0) |-> Zero]
    <3>1. ASSUME NEW s \in Upto(0) PROVE s = {}
      <4>1. s \in SUBSET S /\ Cardinality(s) <= 0 /\ Cardinality(s) \in Nat
        BY <1>1
      <4>2. Cardinality(s) = 0 /\ IsFiniteSet(s)
        BY <1>1, <4>1
      <4> QED BY <4>2, FS_EmptySet
    <3>2. g = [s \in Upto(0) |-> Scored(ds, os, g, s)]
      BY <3>1 DEF Scored
    <3> HIDE DEF g
    <3> QED BY <2>2, <2>3, <3>2
  <2>4. CASE n # 0
    <3>1. n - 1 \in Nat /\ ~(n <= n - 1)
      BY <2>2, <2>4
    <3>2. Defined(n - 1)
      <4>1. n - 1 \notin T
        <5> HIDE DEF T
        <5> QED BY <2>1, <3>1
      <4> HIDE DEF Defined
      <4> QED BY <3>1, <4>1
    <3>3. PICK f : f = [s \in Upto(n-1) |-> Scored(ds, os, f, s)]
      BY <3>2
    <3> DEFINE g == [s \in Upto(n) |-> Scored(ds, os, f, s)]
    <3>4. ASSUME NEW s \in Upto(n) PROVE g[s] = Scored(ds, os, g, s)
      <4> DEFINE x == CHOOSE y \in s : TRUE
      <4>1. CASE s = {}
        BY <4>1 DEF Scored
      <4>2. CASE s # {}
        <5>1. s \ {x} \in Upto(n-1) /\ s \ {x} \in Upto(n)
          BY <1>1, <1>2, <2>2, <4>2
        <5>2. f[s \ {x}] = Scored(ds, os, f, s \ {x})
          <6> HIDE DEF Upto, x
          <6> QED BY <3>3, <5>1
        <5>3. g[s \ {x}] = Scored(ds, os, f, s \ {x}) /\ g[s] = Scored(ds, os, f, s)
          <6> HIDE DEF Upto, x
          <6> QED BY <5>1
        <5> HIDE DEF g
        <5> QED BY <4>2, <5>2, <5>3 DEF Scored
      <4> QED BY <4>1, <4>2
    <3>5. g = [s \in Upto(n) |-> Scored(ds, os, g, s)]
      <4>1. g = [s \in Upto(n) |-> g[s]]
        OBVIOUS
      <4> HIDE DEF g, Upto
      <4> QED BY <3>4, <4>1
    <3> HIDE DEF g
    <3> QED BY <2>2, <3>5
  <2> QED BY <2>3, <2>4
<1>4. Upto(Cardinality(S)) = SUBSET S /\ Cardinality(S) \in Nat
  BY <1>1
<1>5. Defined(Cardinality(S))
  BY <1>3, <1>4
<1> QED
  BY <1>4, <1>5


\* What a tally n of the cases s says.
Tells(n, s) ==
    /\ n \in Tallies
    /\ n["false_accept"] = Cardinality(s \cap Ended("refer", "accept"))
    /\ n["true_accept"] = Cardinality(s \cap Ended("accept", "accept"))
    /\ n["true_refer"] = Cardinality(s \cap Ended("refer", "refer"))
                         + Cardinality(s \cap Ended("refer", "crash"))
    /\ n["false_refer"] = Cardinality(s \cap Ended("accept", "refer"))
                          + Cardinality(s \cap Ended("accept", "crash"))
    /\ n["errored"] = Cardinality(s \cap Ended("refer", "crash"))
                      + Cardinality(s \cap Ended("accept", "crash"))
    /\ n["right_reason"] + n["wrong_reason"] = n["true_refer"]
    /\ n["wrong_reason"] >= Cardinality(s \cap Ended("refer", "crash"))
    /\ n["valid"] <= n["total"]

\* One more or none.
LEMMA OneMore ==
  ASSUME NEW s, IsFiniteSet(s), NEW x \in s, NEW T
  PROVE  /\ Cardinality(s \cap T) \in Nat /\ Cardinality((s \ {x}) \cap T) \in Nat
         /\ Cardinality(s \cap T) = Cardinality((s \ {x}) \cap T) + IF x \in T THEN 1 ELSE 0
<1>1. IsFiniteSet(s \cap T) /\ IsFiniteSet((s \ {x}) \cap T)
  <2>1. s \cap T \in SUBSET s /\ (s \ {x}) \cap T \in SUBSET s
    OBVIOUS
  <2> QED BY <2>1, FS_Subset
<1>2. Cardinality(s \cap T) \in Nat /\ Cardinality((s \ {x}) \cap T) \in Nat
  BY <1>1, FS_CardinalityType
<1>3. CASE x \in T
  <2>1. x \in s \cap T /\ (s \ {x}) \cap T = (s \cap T) \ {x}
    BY <1>3
  <2>2. Cardinality((s \cap T) \ {x}) = Cardinality(s \cap T) - 1
    BY <1>1, <2>1, OneLess
  <2> QED BY <1>2, <1>3, <2>1, <2>2
<1>4. CASE x \notin T
  <2>1. (s \ {x}) \cap T = s \cap T
    BY <1>4
  <2> QED BY <1>2, <1>4, <2>1
<1> QED
  BY <1>3, <1>4

\* Every case is counted once, whatever the order.
LEMMA ScoresTell ==
  ASSUME outcomes \in Seq(CaseOutcomes \cup {errored_outcome}),
         \A i \in DOMAIN outcomes : dataset[i].decision \in {"accept", "refer"}
  PROVE  Tells(FoldSet(LAMBDA i, r : score_case(dataset[i], outcomes[i], r), Zero, DOMAIN outcomes),
               DOMAIN outcomes)
<1> DEFINE S == DOMAIN outcomes
           F == CHOOSE f : f = [s \in SUBSET S |-> Scored(dataset, outcomes, f, s)]
           Good == {s \in SUBSET S : Tells(F[s], s)}
<1>1. IsFiniteSet(S)
  <2>1. S = 1..Len(outcomes) /\ Len(outcomes) \in Nat
    OBVIOUS
  <2> HIDE DEF S
  <2> QED BY <2>1, FS_Interval
<1>2. F = [s \in SUBSET S |-> Scored(dataset, outcomes, F, s)]
  <2> HIDE DEF S
  <2> QED BY <1>1, ScoreDefined
<1>3. FoldSet(LAMBDA i, r : score_case(dataset[i], outcomes[i], r), Zero, S) = F[S]
  BY DEF FoldSet, MapThenFoldSet, Scored
<1>4. /\ \A x \in S : /\ dataset[x].decision \in {"accept", "refer"}
                      /\ outcomes[x] \in CaseOutcomes \cup {errored_outcome}
      /\ \A x \in S : \A label, how : x \in Ended(label, how) <=>
           dataset[x].decision = label /\ Fate(outcomes[x]) = how
  BY DEF Ended
<1> HIDE DEF F
<1>5. \A s \in SUBSET S : F[s] = Scored(dataset, outcomes, F, s)
  BY <1>2
<1>6. /\ "true_accept" \in Counters /\ "true_refer" \in Counters /\ "false_accept" \in Counters
      /\ "false_refer" \in Counters /\ "right_reason" \in Counters /\ "wrong_reason" \in Counters
      /\ "errored" \in Counters /\ "valid" \in Counters /\ "total" \in Counters
  BY DEF Counters
<1>7. \A d \in Tallies : \A k \in Counters : d[k] \in Nat
  BY DEF Tallies
<1> HIDE DEF S
<1>8. ASSUME NEW s \in SUBSET S,
             \A u \in SUBSET S : Cardinality(u) < Cardinality(s) => u \in Good
      PROVE  s \in Good
  <2>1. IsFiniteSet(s) /\ Cardinality(s) \in Nat
    BY <1>1, FS_Subset, FS_CardinalityType
  <2>2. CASE s = {}
    <3>1. F[s] = Zero
      BY <1>5, <2>2 DEF Scored
    <3>2. Zero \in Tallies /\ \A k \in Counters : Zero[k] = 0
      BY ZeroCounts
    <3>3. Cardinality(s) = 0 /\ \A T : s \cap T = {} /\ Cardinality(s \cap T) = 0
      BY <2>2, FS_EmptySet
    <3>4. Tells(Zero, s)
      <4>1. /\ Zero["true_accept"] = 0 /\ Zero["true_refer"] = 0 /\ Zero["false_accept"] = 0
            /\ Zero["false_refer"] = 0 /\ Zero["right_reason"] = 0 /\ Zero["wrong_reason"] = 0
            /\ Zero["errored"] = 0 /\ Zero["valid"] = 0 /\ Zero["total"] = 0
        BY <1>6, <3>2
      <4>2. \A label, how : Cardinality(s \cap Ended(label, how)) = 0
        BY <3>3
      <4>3. /\ Cardinality(s \cap Ended("refer", "accept")) = 0
            /\ Cardinality(s \cap Ended("refer", "refer")) = 0
            /\ Cardinality(s \cap Ended("refer", "crash")) = 0
            /\ Cardinality(s \cap Ended("accept", "accept")) = 0
            /\ Cardinality(s \cap Ended("accept", "refer")) = 0
            /\ Cardinality(s \cap Ended("accept", "crash")) = 0
        BY <4>2
      <4> QED BY <3>2, <4>1, <4>3 DEF Tells
    <3> QED BY <3>1, <3>4
  <2>3. CASE s # {}
    <3> DEFINE x == CHOOSE y \in s : TRUE
               u == s \ {x}
               r == F[u]
               n == F[s]
               one(label, how) == IF x \in Ended(label, how) THEN 1 ELSE 0
               before(label, how) == Cardinality(u \cap Ended(label, how))
               after(label, how) == Cardinality(s \cap Ended(label, how))
    <3>1. x \in s /\ x \in S
      BY <2>3
    <3>2. n = score_case(dataset[x], outcomes[x], r)
      BY <1>5, <2>3 DEF Scored
    <3>3. u \in SUBSET S /\ Cardinality(u) = Cardinality(s) - 1 /\ Cardinality(u) \in Nat
      <4> HIDE DEF x
      <4> QED BY <2>1, <3>1, OneLess
    <3>4. Tells(r, u)
      <4>1. u \in Good
        <5> HIDE DEF u, Good
        <5> QED BY <1>8, <2>1, <3>3
      <4> QED BY <4>1
    <3>5. \A T : /\ Cardinality(s \cap T) \in Nat /\ Cardinality(u \cap T) \in Nat
                 /\ Cardinality(s \cap T) = Cardinality(u \cap T) + IF x \in T THEN 1 ELSE 0
      <4> HIDE DEF x
      <4> QED BY <2>1, <3>1, OneMore
    <3> HIDE DEF x, u, r, n
    <3>6. r \in Tallies
      BY <3>4 DEF Tells
    <3>7. /\ n \in Tallies
          /\ n["false_accept"] = r["false_accept"] + one("refer", "accept")
          /\ n["true_accept"] = r["true_accept"] + one("accept", "accept")
          /\ n["true_refer"] = r["true_refer"] + one("refer", "refer") + one("refer", "crash")
          /\ n["false_refer"] = r["false_refer"] + one("accept", "refer") + one("accept", "crash")
          /\ n["errored"] = r["errored"] + one("refer", "crash") + one("accept", "crash")
          /\ n["right_reason"] + n["wrong_reason"] - n["true_refer"]
               = r["right_reason"] + r["wrong_reason"] - r["true_refer"]
          /\ n["wrong_reason"] >= r["wrong_reason"] + one("refer", "crash")
          /\ n["total"] - n["valid"] >= r["total"] - r["valid"]
      <4> DEFINE fate == Fate(outcomes[x])
                 label == dataset[x].decision
      <4>1. /\ label \in {"accept", "refer"} /\ fate \in {"accept", "refer", "crash"}
            /\ outcomes[x] \in CaseOutcomes \cup {errored_outcome}
        BY <1>4, <3>1 DEF Fate
      <4>2. \A l, h : one(l, h) = IF label = l /\ fate = h THEN 1 ELSE 0
        BY <1>4, <3>1
      <4>3. /\ n \in Tallies
            /\ n["false_accept"] = r["false_accept"] + IF label = "refer" /\ fate = "accept" THEN 1 ELSE 0
            /\ n["true_accept"] = r["true_accept"] + IF label = "accept" /\ fate = "accept" THEN 1 ELSE 0
            /\ n["true_refer"] = r["true_refer"] + IF label = "refer" /\ fate # "accept" THEN 1 ELSE 0
            /\ n["false_refer"] = r["false_refer"] + IF label = "accept" /\ fate # "accept" THEN 1 ELSE 0
            /\ n["errored"] = r["errored"] + IF fate = "crash" THEN 1 ELSE 0
            /\ n["right_reason"] + n["wrong_reason"] - n["true_refer"]
                 = r["right_reason"] + r["wrong_reason"] - r["true_refer"]
            /\ n["wrong_reason"] >= r["wrong_reason"] + IF label = "refer" /\ fate = "crash" THEN 1 ELSE 0
            /\ n["total"] - n["valid"] >= r["total"] - r["valid"]
        BY <3>2, <3>6, <4>1, CaseCounts
      <4>4. /\ r["true_refer"] \in Nat /\ r["false_refer"] \in Nat /\ r["errored"] \in Nat
        BY <1>6, <1>7, <3>6
      <4>5. /\ one("refer", "refer") = IF label = "refer" /\ fate = "refer" THEN 1 ELSE 0
            /\ one("refer", "crash") = IF label = "refer" /\ fate = "crash" THEN 1 ELSE 0
            /\ one("refer", "accept") = IF label = "refer" /\ fate = "accept" THEN 1 ELSE 0
            /\ one("accept", "refer") = IF label = "accept" /\ fate = "refer" THEN 1 ELSE 0
            /\ one("accept", "crash") = IF label = "accept" /\ fate = "crash" THEN 1 ELSE 0
            /\ one("accept", "accept") = IF label = "accept" /\ fate = "accept" THEN 1 ELSE 0
        BY <4>2
      <4> HIDE DEF one, fate, label
      <4> QED BY <4>1, <4>3, <4>4, <4>5
    <3>8. \A l, h : /\ after(l, h) = before(l, h) + one(l, h)
                    /\ after(l, h) \in Nat /\ before(l, h) \in Nat /\ one(l, h) \in Nat
      BY <3>5
    <3>9. /\ r["true_accept"] \in Nat /\ r["true_refer"] \in Nat /\ r["false_accept"] \in Nat
          /\ r["false_refer"] \in Nat /\ r["right_reason"] \in Nat /\ r["wrong_reason"] \in Nat
          /\ r["errored"] \in Nat /\ r["valid"] \in Nat /\ r["total"] \in Nat
          /\ n["true_accept"] \in Nat /\ n["true_refer"] \in Nat /\ n["false_accept"] \in Nat
          /\ n["false_refer"] \in Nat /\ n["right_reason"] \in Nat /\ n["wrong_reason"] \in Nat
          /\ n["errored"] \in Nat /\ n["valid"] \in Nat /\ n["total"] \in Nat
      BY <1>6, <1>7, <3>6, <3>7
    <3>10. Tells(n, s)
      <4> DEFINE ra_now == after("refer", "accept")
                 rr_now == after("refer", "refer")
                 rc_now == after("refer", "crash")
                 aa_now == after("accept", "accept")
                 ar_now == after("accept", "refer")
                 ac_now == after("accept", "crash")
                 ra_was == before("refer", "accept")
                 rr_was == before("refer", "refer")
                 rc_was == before("refer", "crash")
                 aa_was == before("accept", "accept")
                 ar_was == before("accept", "refer")
                 ac_was == before("accept", "crash")
                 ra_one == one("refer", "accept")
                 rr_one == one("refer", "refer")
                 rc_one == one("refer", "crash")
                 aa_one == one("accept", "accept")
                 ar_one == one("accept", "refer")
                 ac_one == one("accept", "crash")
      <4>1. /\ r["false_accept"] = before("refer", "accept")
            /\ r["true_accept"] = before("accept", "accept")
            /\ r["true_refer"] = before("refer", "refer") + before("refer", "crash")
            /\ r["false_refer"] = before("accept", "refer") + before("accept", "crash")
            /\ r["errored"] = before("refer", "crash") + before("accept", "crash")
            /\ r["right_reason"] + r["wrong_reason"] = r["true_refer"]
            /\ r["wrong_reason"] >= before("refer", "crash")
            /\ r["valid"] <= r["total"]
        BY <3>4 DEF Tells
      <4>2. /\ ra_now = ra_was + ra_one /\ ra_was \in Nat /\ ra_one \in Nat
            /\ rr_now = rr_was + rr_one /\ rr_was \in Nat /\ rr_one \in Nat
            /\ rc_now = rc_was + rc_one /\ rc_was \in Nat /\ rc_one \in Nat
            /\ aa_now = aa_was + aa_one /\ aa_was \in Nat /\ aa_one \in Nat
            /\ ar_now = ar_was + ar_one /\ ar_was \in Nat /\ ar_one \in Nat
            /\ ac_now = ac_was + ac_one /\ ac_was \in Nat /\ ac_one \in Nat
        <5> HIDE DEF one, before, after
        <5> QED BY <3>8
      <4>3. /\ r["false_accept"] = ra_was /\ r["true_accept"] = aa_was
            /\ r["true_refer"] = rr_was + rc_was /\ r["false_refer"] = ar_was + ac_was
            /\ r["errored"] = rc_was + ac_was /\ r["wrong_reason"] >= rc_was
        BY <4>1
      <4>4. /\ n["false_accept"] = r["false_accept"] + ra_one
            /\ n["true_accept"] = r["true_accept"] + aa_one
            /\ n["true_refer"] = r["true_refer"] + rr_one + rc_one
            /\ n["false_refer"] = r["false_refer"] + ar_one + ac_one
            /\ n["errored"] = r["errored"] + rc_one + ac_one
            /\ n["wrong_reason"] >= r["wrong_reason"] + rc_one
        BY <3>7
      <4> HIDE DEF ra_now, rr_now, rc_now, aa_now, ar_now, ac_now, ra_was, rr_was, rc_was, aa_was, ar_was, ac_was, ra_one, rr_one, rc_one, aa_one, ar_one, ac_one
      <4>5. n["false_accept"] = ra_now /\ n["true_accept"] = aa_now
        BY <4>2, <4>3, <4>4
      <4>6. n["true_refer"] = rr_now + rc_now
        BY <4>2, <4>3, <4>4
      <4>7. n["false_refer"] = ar_now + ac_now
        BY <4>2, <4>3, <4>4
      <4>8. n["errored"] = rc_now + ac_now
        BY <4>2, <4>3, <4>4
      <4>9. n["wrong_reason"] >= rc_now
        <5>1. r["wrong_reason"] \in Nat /\ n["wrong_reason"] \in Nat
          BY <3>9
        <5>2. rc_now = rc_was + rc_one /\ rc_was \in Nat /\ rc_one \in Nat
          BY <4>2
        <5>3. r["wrong_reason"] >= rc_was /\ n["wrong_reason"] >= r["wrong_reason"] + rc_one
          BY <4>3, <4>4
        <5> QED BY <5>1, <5>2, <5>3
      <4>10. n["right_reason"] + n["wrong_reason"] = n["true_refer"] /\ n["valid"] <= n["total"]
        <5>1. /\ r["right_reason"] \in Nat /\ n["right_reason"] \in Nat
              /\ r["wrong_reason"] \in Nat /\ n["wrong_reason"] \in Nat
              /\ r["true_refer"] \in Nat /\ n["true_refer"] \in Nat
          BY <3>9
        <5>2. /\ n["right_reason"] + n["wrong_reason"] - n["true_refer"]
                   = r["right_reason"] + r["wrong_reason"] - r["true_refer"]
              /\ r["right_reason"] + r["wrong_reason"] = r["true_refer"]
          BY <3>7, <4>1
        <5>3. /\ r["valid"] \in Nat /\ n["valid"] \in Nat /\ r["total"] \in Nat /\ n["total"] \in Nat
          BY <3>9
        <5>4. n["total"] - n["valid"] >= r["total"] - r["valid"] /\ r["valid"] <= r["total"]
          BY <3>7, <4>1
        <5>5. n["right_reason"] + n["wrong_reason"] = n["true_refer"]
          BY <5>1, <5>2
        <5>6. n["valid"] <= n["total"]
          BY <5>3, <5>4
        <5> QED BY <5>5, <5>6
      <4> QED
        BY <3>7, <4>5, <4>6, <4>7, <4>8, <4>9, <4>10
        DEF Tells, ra_now, rr_now, rc_now, aa_now, ar_now, ac_now, after
    <3> QED BY <3>10 DEF n
  <2> QED BY <2>2, <2>3
<1>9. SUBSET S \subseteq Good
  <2> HIDE DEF Good
  <2> QED BY <1>1, <1>8, SmallestFirst
<1> QED
  BY <1>3, <1>9 DEF S

Comparable(r) == r \in Tallies /\ r["valid"] <= r["total"]

\* A rounded rate is within half a unit of the rate.
LEMMA RoundedIsNear ==
  ASSUME NEW part \in Nat, NEW whole \in Nat, whole # 0
  PROVE  /\ rounded(part, whole) \in Nat
         /\ 2 * (rounded(part, whole) * whole) <= 20000 * part + whole
         /\ 2 * (rounded(part, whole) * whole) >= 20000 * part - whole
<1> DEFINE a == 10000 * part
           low == a \div whole
           rest == a % whole
           k == rounded(part, whole)
<1>1. /\ a \in Nat /\ low \in Nat /\ rest \in Nat /\ rest < whole /\ a = whole * low + rest
  <2>1. a \in Nat /\ whole > 0
    OBVIOUS
  <2> HIDE DEF a
  <2> QED BY <2>1
<1>2. /\ k \in {low, low + 1}
      /\ k = low => 2 * rest <= whole
      /\ k = low + 1 => 2 * rest >= whole
  <2>1. (CHOOSE r \in {low, low + 1} : TRUE) \in {low, low + 1}
    OBVIOUS
  <2>2. k = IF 2 * rest < whole THEN low
            ELSE IF 2 * rest > whole THEN low + 1 ELSE CHOOSE r \in {low, low + 1} : TRUE
    BY DEF rounded
  <2> HIDE DEF k, low, rest, a
  <2> QED BY <1>1, <2>1, <2>2
<1>3. a = 10000 * part
  OBVIOUS
<1> HIDE DEF k, low, rest, a
<1> DEFINE p == whole * low
<1>4. p \in Nat /\ low * whole = p /\ (low + 1) * whole = p + whole
  BY <1>1
<1> HIDE DEF p
<1>5. a = p + rest
  BY <1>1 DEF p
<1>6. CASE k = low
  BY <1>1, <1>2, <1>3, <1>4, <1>5, <1>6 DEF k
<1>7. CASE k = low + 1
  BY <1>1, <1>2, <1>3, <1>4, <1>5, <1>7 DEF k
<1> QED
  BY <1>2, <1>6, <1>7

LEMMA ShareIsNumber ==
  ASSUME NEW part \in Nat, NEW whole \in Nat, NEW of_nothing \in Nat
  PROVE  Share(part, whole, of_nothing) \in Nat
<1>1. CASE whole = 0
  BY <1>1 DEF Share
<1>2. CASE whole # 0
  <2>1. rounded(part, whole) \in Nat
    BY <1>2, RoundedIsNear
  <2> QED BY <1>2, <2>1 DEF Share
<1> QED BY <1>1, <1>2

\* A comparison that finds nothing saw no more let through and no lower citation rate;
\* one of a report with itself finds nothing.
LEMMA MetricsAreNumbers ==
  ASSUME NEW r, Comparable(r), NEW m
  PROVE  metric(r, m) \in Nat
<1>1. \A k \in Counters : r[k] \in Nat
  BY DEF Comparable, Tallies
<1> DEFINE correct == r["correct"]
           fields == r["correct"] + r["wrong"] + r["missing"]
           vouched == r["valid"]
           total == r["total"]
           apt == r["right_reason"]
           reasons == r["right_reason"] + r["wrong_reason"]
           let_through == r["false_accept"]
           flawed == r["false_accept"] + r["true_refer"]
           sent_back == r["false_refer"]
           clean == r["false_refer"] + r["true_accept"]
           nothing == 0
           everything == 10000
<1>2. /\ correct \in Nat /\ fields \in Nat /\ vouched \in Nat /\ total \in Nat /\ apt \in Nat
      /\ reasons \in Nat /\ let_through \in Nat /\ flawed \in Nat /\ sent_back \in Nat
      /\ clean \in Nat
  <2>1. /\ r["true_accept"] \in Nat /\ r["true_refer"] \in Nat /\ r["false_accept"] \in Nat
        /\ r["false_refer"] \in Nat /\ r["right_reason"] \in Nat /\ r["wrong_reason"] \in Nat
        /\ r["correct"] \in Nat /\ r["wrong"] \in Nat /\ r["missing"] \in Nat
        /\ r["valid"] \in Nat /\ r["total"] \in Nat
    BY <1>1 DEF Counters
  <2> QED BY <2>1
<1>4. nothing \in Nat /\ everything \in Nat
  OBVIOUS
<1>3. \/ metric(r, m) = Share(correct, fields, nothing)
      \/ metric(r, m) = Share(vouched, total, everything)
      \/ metric(r, m) = Share(apt, reasons, everything)
      \/ metric(r, m) = Share(let_through, flawed, nothing)
      \/ metric(r, m) = Share(sent_back, clean, nothing)
  BY DEF metric
<1> HIDE DEF correct, fields, vouched, total, apt, reasons, let_through, flawed, sent_back, clean,
            nothing, everything
<1>5. Share(correct, fields, nothing) \in Nat
  BY <1>2, <1>4, ShareIsNumber
<1>6. Share(vouched, total, everything) \in Nat
  BY <1>2, <1>4, ShareIsNumber
<1>7. Share(apt, reasons, everything) \in Nat
  BY <1>2, <1>4, ShareIsNumber
<1>8. Share(let_through, flawed, nothing) \in Nat
  BY <1>2, <1>4, ShareIsNumber
<1>9. Share(sent_back, clean, nothing) \in Nat
  BY <1>2, <1>4, ShareIsNumber
<1> QED
  BY <1>3, <1>5, <1>6, <1>7, <1>8, <1>9

LEMMA SameIsNoRegression ==
  ASSUME NEW r, Comparable(r), NEW found \in compare(r, r)
  PROVE  found = {}
<1>1. \A m : Worse(r, r, m) = 0
  <2> SUFFICES ASSUME NEW m PROVE Worse(r, r, m) = 0
    OBVIOUS
  <2>1. metric(r, m) \in Nat
    BY MetricsAreNumbers
  <2> QED BY <2>1 DEF Worse
<1>2. \A m \in Metrics : tolerance[m] \in Nat
  BY DEF Metrics, HigherIsBetter, LowerIsBetter, tolerance
<1>3. r.false_accept \in Nat
  BY DEF Comparable, Tallies, Counters
<1>4. {m \in Metrics : Worse(r, r, m) > tolerance[m]} = {}
  BY <1>1, <1>2
<1>5. AtTolerance(r, r) = {}
  BY <1>1, <1>2 DEF AtTolerance
<1>6. {m \in {"false_accepts"} : r.false_accept > r.false_accept} = {}
  <2>1. ~(r.false_accept > r.false_accept)
    BY <1>3
  <2> QED BY <2>1
<1> QED
  BY <1>4, <1>5, <1>6 DEF compare

\* Two rates over different totals, each within half a unit of its rounding.
LEMMA CrossTheRates ==
  ASSUME NEW v \in Nat, NEW w \in Nat, NEW bv \in Nat, NEW bw \in Nat, NEW k \in Nat, NEW b \in Nat,
         b <= k, 2 * (k * w) <= 20000 * v + w, 2 * (b * bw) >= 20000 * bv - bw
  PROVE  10000 * (bv * w - v * bw) <= w * bw
<1> DEFINE kw == k * w
           bb == b * bw
<1>1. kw \in Nat /\ bb \in Nat
  OBVIOUS
<1>2. kw * bw >= bb * w
  <2>1. kw * bw = k * (w * bw) /\ bb * w = b * (w * bw) /\ w * bw \in Nat
    OBVIOUS
  <2>2. \A m \in Nat : b * m <= k * m
    OBVIOUS
  <2> QED BY <2>1, <2>2
<1>3. 2 * (kw * bw) <= 20000 * (v * bw) + w * bw
  <2>1. \A m \in Nat : (2 * kw) * m <= (20000 * v + w) * m
    BY <1>1
  <2>2. (2 * kw) * bw = 2 * (kw * bw) /\ (20000 * v + w) * bw = 20000 * (v * bw) + w * bw
    BY <1>1
  <2> QED BY <2>1, <2>2
<1>4. 2 * (bb * w) >= 20000 * (bv * w) - w * bw
  <2>1. \A m \in Nat : (2 * bb) * m >= (20000 * bv - bw) * m
    BY <1>1
  <2>2. (2 * bb) * w = 2 * (bb * w) /\ (20000 * bv - bw) * w = 20000 * (bv * w) - w * bw
    BY <1>1
  <2> QED BY <2>1, <2>2
<1> HIDE DEF kw, bb
<1> DEFINE x == kw * bw
           y == bb * w
           p == v * bw
           q == bv * w
           z == w * bw
<1>5. x \in Nat /\ y \in Nat /\ p \in Nat /\ q \in Nat /\ z \in Nat
  BY <1>1
<1>6. x >= y /\ 2 * x <= 20000 * p + z /\ 2 * y >= 20000 * q - z
  BY <1>2, <1>3, <1>4
<1>7. 10000 * (q - p) <= z
  <2> HIDE DEF x, y, p, q, z
  <2> QED BY <1>5, <1>6
<1> QED
  BY <1>7

LEMMA NothingFound ==
  ASSUME NEW r, NEW base, Comparable(r), Comparable(base), {} \in compare(base, r)
  PROVE  /\ r.false_accept <= base.false_accept
         /\ r.total # 0 /\ base.total # 0 =>
              10000 * (base.valid * r.total - r.valid * base.total) <= r.total * base.total
<1>1. /\ r["false_accept"] \in Nat /\ base["false_accept"] \in Nat
      /\ r["valid"] \in Nat /\ base["valid"] \in Nat /\ r["total"] \in Nat /\ base["total"] \in Nat
  BY DEF Comparable, Tallies, Counters
<1>2. ~(r.false_accept > base.false_accept)
  <2>1. {m \in {"false_accepts"} : r.false_accept > base.false_accept} = {}
    BY DEF compare
  <2> QED BY <2>1
<1>3. ~(metric(base, "evidence_validity") - metric(r, "evidence_validity") > 0)
  <2>1. {m \in Metrics : Worse(base, r, m) > tolerance[m]} = {}
    BY DEF compare
  <2>2. /\ "evidence_validity" \in Metrics /\ tolerance["evidence_validity"] = 0
        /\ "evidence_validity" \in HigherIsBetter
    BY DEF Metrics, HigherIsBetter, tolerance
  <2> QED BY <2>1, <2>2 DEF Worse
<1> DEFINE v == r["valid"]
           w == r["total"]
           bv == base["valid"]
           bw == base["total"]
<1>4. /\ metric(r, "evidence_validity") = Share(v, w, 10000)
      /\ metric(base, "evidence_validity") = Share(bv, bw, 10000)
  BY DEF metric
<1>5. v \in Nat /\ w \in Nat /\ bv \in Nat /\ bw \in Nat
  BY <1>1
<1> HIDE DEF v, w, bv, bw
<1>6. ASSUME w # 0, bw # 0 PROVE 10000 * (bv * w - v * bw) <= w * bw
  <2> DEFINE k == rounded(v, w)
             b == rounded(bv, bw)
  <2>1. k \in Nat /\ 2 * (k * w) <= 20000 * v + w
    BY <1>5, <1>6, RoundedIsNear
  <2>2. b \in Nat /\ 2 * (b * bw) >= 20000 * bv - bw
    BY <1>5, <1>6, RoundedIsNear
  <2>3. b <= k
    <3>1. Share(v, w, 10000) = k /\ Share(bv, bw, 10000) = b
      BY <1>6 DEF Share
    <3> HIDE DEF k, b
    <3> QED BY <1>3, <1>4, <2>1, <2>2, <3>1
  <2> HIDE DEF k, b
  <2> QED BY <1>5, <1>6, <2>1, <2>2, <2>3, CrossTheRates
<1> QED
  BY <1>1, <1>2, <1>6 DEF v, w, bv, bw

EvalInv ==
    /\ dataset \in Seq(Range(Cases)) /\ outcomes \in Seq(CaseOutcomes \cup {errored_outcome})
    /\ Len(outcomes) <= Len(dataset)
    /\ \/ report = NoReport
       \/ Tells(report, DOMAIN outcomes) /\ outcomes # <<>>
    /\ \/ baseline = NoReport
       \/ Comparable(baseline)
    /\ judged # Unjudged => report # NoReport
    /\ judged.as = "check" =>
         /\ judged.exit = 0 => baseline # NoReport /\ {} \in compare(baseline, report)
         /\ judged.exit = 1 => baseline # NoReport /\ \E found \in compare(baseline, report) : found # {}

\* As many cases as outcomes.
LEMMA CasesCount ==
  ASSUME outcomes \in Seq(CaseOutcomes \cup {errored_outcome})
  PROVE  Cardinality(DOMAIN outcomes) = Len(outcomes) /\ Len(outcomes) \in Nat
<1> DEFINE n == Len(outcomes)
<1>1. DOMAIN outcomes = 1..n /\ n \in Nat
  OBVIOUS
<1> HIDE DEF n
<1>2. Cardinality(1..n) = IF 1 > n THEN 0 ELSE n - 1 + 1
  BY <1>1, FS_Interval
<1>3. Cardinality(1..n) = n
  BY <1>1, <1>2
<1> QED
  BY <1>1, <1>3 DEF n

LEMMA EvalStays == Spec => []EvalInv
<1>1. Init => EvalInv
  <2> SUFFICES ASSUME EvalInit PROVE EvalInv
    BY DEF Init, AssuranceInit
  <2> QED BY DEF EvalInit, EvalInv, Unjudged
<1>2. EvalInv /\ [Next]_vars => EvalInv'
  <2> SUFFICES ASSUME EvalInv, [EvalNext]_evalVars PROVE EvalInv'
    BY EvalSteps
  <2>1. CASE add_case
    <3>1. report = NoReport /\ judged = Unjudged
      BY <2>1 DEF add_case, EvalInv
    <3>2. dataset' \in Seq(Range(Cases)) /\ Len(dataset') = Len(dataset) + 1 /\ Len(dataset) \in Nat
      <4>1. Len(dataset) + 1 \in DOMAIN Cases
        <5>1. Len(dataset) \in Nat /\ Len(Cases) \in Nat /\ DOMAIN Cases = 1..Len(Cases)
          BY EvaluationAssumption DEF EvalInv
        <5> QED BY <2>1, <5>1 DEF add_case
      <4>2. Cases[Len(dataset) + 1] \in Range(Cases)
        BY <4>1 DEF Range
      <4> QED BY <2>1, <4>2 DEF add_case, EvalInv
    <3> QED BY <2>1, <3>1, <3>2 DEF add_case, EvalInv, Unjudged
  <2>2. ASSUME NEW x \in CaseOutcomes, run_one(x) PROVE EvalInv'
    <3>1. report = NoReport /\ judged = Unjudged
      BY <2>2 DEF run_one, EvalInv
    <3>2. /\ outcomes' \in Seq(CaseOutcomes \cup {errored_outcome})
          /\ Len(outcomes') <= Len(dataset)
      BY <2>2 DEF run_one, EvalInv
    <3> QED BY <2>2, <3>1, <3>2 DEF run_one, EvalInv, Unjudged
  <2>3. CASE score
    <3>1. judged = Unjudged
      BY <2>3 DEF score, EvalInv
    <3>6. DOMAIN outcomes = DOMAIN dataset /\ DOMAIN outcomes = 1..Len(outcomes)
      <4>1. dataset \in Seq(Range(Cases)) /\ outcomes \in Seq(CaseOutcomes \cup {errored_outcome})
        BY DEF EvalInv
      <4>2. Len(outcomes) = Len(dataset)
        BY <2>3 DEF score
      <4> QED BY <4>1, <4>2
    <3>2. \A i \in DOMAIN outcomes : dataset[i].decision \in {"accept", "refer"}
      <4>1. DOMAIN outcomes = DOMAIN dataset
        BY <3>6
      <4>2. {dataset[i].decision : i \in DOMAIN dataset} = {"accept", "refer"}
        BY <2>3 DEF score, valid
      <4>3. \A i \in DOMAIN dataset : dataset[i].decision \in {dataset[j].decision : j \in DOMAIN dataset}
        OBVIOUS
      <4> QED BY <4>1, <4>2, <4>3
    <3>3. Tells(report', DOMAIN outcomes)
      <4>1. report' = FoldSet(LAMBDA i, r : score_case(dataset[i], outcomes[i], r), Zero, DOMAIN outcomes)
        BY <2>3 DEF score
      <4>2. Tells(FoldSet(LAMBDA i, r : score_case(dataset[i], outcomes[i], r), Zero, DOMAIN outcomes),
                  DOMAIN outcomes)
        BY <3>2, ScoresTell DEF EvalInv
      <4> QED BY <4>1, <4>2
    <3>4. outcomes # <<>>
      <4>1. {dataset[i].decision : i \in DOMAIN dataset} = {"accept", "refer"}
        BY <2>3 DEF score, valid
      <4>2. DOMAIN dataset # {}
        <5>1. "accept" \in {dataset[i].decision : i \in DOMAIN dataset}
          BY <4>1
        <5> QED BY <5>1
      <4> QED BY <3>6, <4>2
    <3>5. Tells(report, DOMAIN outcomes)'
      BY <2>3, <3>3 DEF score, Tells, Ended, Fate
    <3> QED BY <2>3, <3>1, <3>4, <3>5 DEF score, EvalInv, Unjudged
  <2>4. CASE save_baseline
    <3>1. Comparable(report)
      BY <2>4 DEF save_baseline, EvalInv, Tells, Comparable
    <3>2. Tells(report, DOMAIN outcomes)' <=> Tells(report, DOMAIN outcomes)
      BY <2>4 DEF save_baseline, Tells, Ended, Fate
    <3> QED BY <2>4, <3>1, <3>2 DEF save_baseline, EvalInv
  <2>5. ASSUME NEW as, judge(as) PROVE EvalInv'
    <3>1. Tells(report, DOMAIN outcomes)' <=> Tells(report, DOMAIN outcomes)
      BY <2>5 DEF judge, Tells, Ended, Fate
    <3>2. PICK found \in IF baseline = NoReport THEN {{}} ELSE compare(baseline, report) :
            judged' = [as |-> as, regressions |-> found,
                     exit |-> IF as = "report" THEN 0
                              ELSE IF baseline = NoReport THEN 2
                              ELSE IF found # {} THEN 1 ELSE 0]
      BY <2>5 DEF judge
    <3>3. judged'.as = "check" =>
            /\ judged'.exit = 0 => baseline # NoReport /\ {} \in compare(baseline, report)
            /\ judged'.exit = 1 =>
                 baseline # NoReport /\ \E f \in compare(baseline, report) : f # {}
      BY <3>2
    <3>4. UNCHANGED <<dataset, outcomes, report, baseline>> /\ report # NoReport
      BY <2>5 DEF judge
    <3> QED BY <3>1, <3>3, <3>4 DEF EvalInv
  <2>6. CASE done
    BY <2>6 DEF done, EvalInv, Unjudged
  <2>7. CASE UNCHANGED evalVars
    <3>1. Tells(report, DOMAIN outcomes)' <=> Tells(report, DOMAIN outcomes)
      BY <2>7 DEF evalVars, Tells, Ended, Fate
    <3> QED BY <2>7, <3>1 DEF evalVars, EvalInv
  <2> QED
    BY <2>1, <2>2, <2>3, <2>4, <2>5, <2>6, <2>7 DEF EvalNext
<1> QED
  BY <1>1, <1>2, PTL DEF Spec

\* A report says of the run what is so, and a check that passes or fails does so rightly:
\* for every dataset, whatever the system does with its cases, over any number of
\* evaluations between which the dataset grows.
THEOREM ReportIsAlwaysTheRun == Spec => []ReportIsTheRun
<1>1. EvalInv => ReportIsTheRun
  <2> SUFFICES ASSUME EvalInv, report # NoReport PROVE ReportIsTheRun
    BY DEF ReportIsTheRun
  <2> DEFINE n(label, how) == Cardinality(Ended(label, how))
  <2>1. Tells(report, DOMAIN outcomes)
    BY DEF EvalInv
  <2>2. \A label, how : n(label, how) = Cardinality(DOMAIN outcomes \cap Ended(label, how))
    <3>1. \A label, how : DOMAIN outcomes \cap Ended(label, how) = Ended(label, how)
      BY DEF Ended
    <3> QED BY <3>1
  <2>3. Comparable(report)
    BY <2>1 DEF Tells, Comparable
  <2> HIDE DEF n
  <2>4. /\ report.false_accept = n("refer", "accept")
        /\ report.true_accept = n("accept", "accept")
        /\ report.true_refer = n("refer", "refer") + n("refer", "crash")
        /\ report.false_refer = n("accept", "refer") + n("accept", "crash")
        /\ report.errored = n("refer", "crash") + n("accept", "crash")
        /\ report.right_reason + report.wrong_reason = report.true_refer
        /\ report.wrong_reason >= n("refer", "crash")
    BY <2>1, <2>2 DEF Tells
  <2>5. ASSUME judged.as = "check", judged.exit = 0
        PROVE  /\ baseline # NoReport
               /\ report.false_accept <= baseline.false_accept
               /\ report.total # 0 /\ baseline.total # 0 =>
                    10000 * (baseline.valid * report.total - report.valid * baseline.total)
                      <= report.total * baseline.total
    <3>1. baseline # NoReport /\ {} \in compare(baseline, report) /\ Comparable(baseline)
      BY <2>5 DEF EvalInv
    <3> QED BY <2>3, <3>1, NothingFound
  <2>6. ASSUME judged.as = "check", judged.exit = 1 PROVE report # baseline
    BY <2>3, <2>6, SameIsNoRegression DEF EvalInv
  <2> QED
    BY <2>4, <2>5, <2>6 DEF ReportIsTheRun, n
<1> QED
  BY <1>1, EvalStays, PTL

----------------------------------------------------------------------------
(* Certificates: the pack is what build_pack makes of the agreement, the    *)
(* certificate what certify finds in the pack.                              *)

\* What stands behind a constraint of fields is those fields' own quotes.
LEMMA FieldsBehind ==
  ASSUME NEW names
  PROVE  /\ \A p \in prov(names) : /\ p.of \in names \cap DOMAIN agreement.fields
                                   /\ p.quote = agreement.fields[p.of].quote
                                   /\ p.verified = verbatim(p.quote)
         /\ \A n \in names \cap DOMAIN agreement.fields : \E p \in prov(names) : p.of = n
<1> DEFINE Entry(n) == [of |-> n, quote |-> agreement.fields[n].quote,
                        verified |-> verbatim(agreement.fields[n].quote)]
<1>1. prov(names) = {Entry(n) : n \in names \cap DOMAIN agreement.fields}
  BY DEF prov
<1>2. \A n : Entry(n).of = n /\ Entry(n).quote = agreement.fields[n].quote
            /\ Entry(n).verified = verbatim(agreement.fields[n].quote)
  OBVIOUS
<1> HIDE DEF Entry
<1> QED BY <1>1, <1>2

\* What stands behind a row is its quote and nothing else.
LEMMA RowBehind ==
  ASSUME NEW i
  PROVE  /\ \A p \in row_provenance(i) : /\ p.of = "row" /\ p.quote = agreement.rows[i].quote
                                         /\ p.verified = verbatim(p.quote)
         /\ row_provenance(i) # {} => \E p \in row_provenance(i) : p.quote = agreement.rows[i].quote
<1> DEFINE quote == agreement.rows[i].quote
<1>1. \/ row_provenance(i) = {}
      \/ row_provenance(i) = Of(quote, TRUE) /\ verbatim(quote)
      \/ row_provenance(i) = Of(quote, FALSE) /\ ~verbatim(quote)
  BY DEF row_provenance
<1> DEFINE Entry(v) == [of |-> "row", quote |-> quote, verified |-> v]
<1>2. /\ Of(quote, TRUE) = {Entry(TRUE)} /\ Of(quote, FALSE) = {Entry(FALSE)}
      /\ \A v : Entry(v).of = "row" /\ Entry(v).quote = quote
      /\ Entry(TRUE).verified = TRUE /\ Entry(FALSE).verified = FALSE
  BY DEF Of
<1>3. verbatim(quote) \in BOOLEAN
  BY DEF verbatim, In
<1> HIDE DEF Entry
<1>4. CASE row_provenance(i) = Of(quote, TRUE) /\ verbatim(quote)
  <2>1. row_provenance(i) = {Entry(TRUE)} /\ verbatim(quote) = TRUE
    BY <1>2, <1>3, <1>4
  <2> HIDE DEF quote
  <2>2. \A p \in row_provenance(i) : p.of = "row" /\ p.quote = quote /\ p.verified = verbatim(p.quote)
    BY <2>1, <1>2
  <2>3. \E p \in row_provenance(i) : p.quote = quote
    BY <2>1, <1>2
  <2> QED BY <2>2, <2>3 DEF quote
<1>5. CASE row_provenance(i) = Of(quote, FALSE) /\ ~verbatim(quote)
  <2>1. row_provenance(i) = {Entry(FALSE)} /\ verbatim(quote) = FALSE
    BY <1>2, <1>3, <1>5
  <2> HIDE DEF quote
  <2>2. \A p \in row_provenance(i) : p.of = "row" /\ p.quote = quote /\ p.verified = verbatim(p.quote)
    BY <2>1, <1>2
  <2>3. \E p \in row_provenance(i) : p.quote = quote
    BY <2>1, <1>2
  <2> QED BY <2>2, <2>3 DEF quote
<1> QED BY <1>1, <1>4, <1>5

\* A row's constraint with a quote of the agreement names an asset of the row.
LEMMA RowIsAbout ==
  ASSUME NEW i, row_provenance(i) # {}, verbatim(agreement.rows[i].quote)
  PROVE  agreement.rows[i].about = {}
            \/ agreement.rows[i].about \cap Mentions[agreement.rows[i].quote.clause] # {}
  BY DEF row_provenance

\* A row that stands on its own has its clause, and its percentage is carried.
LEMMA StandingRows ==
  ASSUME NEW i \in DOMAIN agreement.rows, StandsOnItsOwn(i), "none" \notin agreement.source
  PROVE  /\ i \in Established
         /\ i \in Valued => i \in Carried
<1>1. verbatim(agreement.rows[i].quote)
  BY DEF StandsOnItsOwn
<1>2. agreement.rows[i].quote # NoQuote
  BY <1>1 DEF verbatim, In, NoQuote
<1>3. row_provenance(i) = Of(agreement.rows[i].quote, TRUE)
  BY <1>1, <1>2 DEF StandsOnItsOwn, row_provenance
<1>4. i \in Established
  BY <1>3 DEF Of, Established
<1>5. ASSUME i \in Valued PROVE i \in Carried
  <2>1. agreement.rows[i].pct \in 1..100 \cap Shows[agreement.rows[i].quote.clause]
    BY <1>5 DEF Valued, StandsOnItsOwn
  <2>2. \A p \in row_provenance(i) : p.quote = agreement.rows[i].quote
    BY <1>3 DEF Of
  <2> QED BY <1>5, <2>1, <2>2 DEF Carried, valuation_carried
<1> QED
  BY <1>4, <1>5

\* A row with a quote of the agreement and with its percentage stands on its own.
LEMMA CarriedRows ==
  ASSUME NEW i \in Established, verbatim(agreement.rows[i].quote), i \in Valued => i \in Carried
  PROVE  StandsOnItsOwn(i)
<1>1. row_provenance(i) # {} /\ i \in DOMAIN agreement.rows
  BY DEF Established
<1>2. ASSUME agreement.rows[i].pct # Null
      PROVE  agreement.rows[i].pct \in 1..100 \cap Shows[agreement.rows[i].quote.clause]
  <2>1. valuation_carried(i)
    BY <1>2 DEF Valued, Carried
  <2>2. PICK p \in row_provenance(i) : p.quote = agreement.rows[i].quote
    BY <1>1, RowBehind
  <2> QED BY <2>1, <2>2 DEF valuation_carried
<1> QED
  BY <1>1, <1>2, RowIsAbout DEF StandsOnItsOwn

----------------------------------------------------------------------------
SolelyOn(c, n) == c.provenance = prov({n})

\* The amounts of an election: one constraint at least if any is elected, each on the
\* clause of an amount that is, and one for each amount of a party's own.
LEMMA AmountsOf ==
  ASSUME NEW b, NEW k
  PROVE  /\ Elected(b) # {} => per_party_constraints(b, k) # {}
         /\ \A c \in per_party_constraints(b, k) :
               c.kind = k /\ \E n \in Elected(b) : SolelyOn(c, n)
         /\ \A n \in Elected(b) \ {b} : \E c \in per_party_constraints(b, k) : SolelyOn(c, n)
<1> DEFINE own == [PARTY_1 |-> b \o "_party_a", PARTY_2 |-> b \o "_party_b"]
           given == {p \in DOMAIN own : value(own[p]) # Null}
           Amount(p, n) == Constraint(k, p, [term |-> b, amount |-> value(n)], prov({n}))
<1>1. per_party_constraints(b, k) =
        IF given # {} THEN {Amount(p, own[p]) : p \in given}
        ELSE IF value(b) # Null THEN {Amount(p, b) : p \in DOMAIN own} ELSE {}
  BY DEF per_party_constraints
<1>2. DOMAIN own = {"PARTY_1", "PARTY_2"} /\ own["PARTY_1"] = b \o "_party_a"
      /\ own["PARTY_2"] = b \o "_party_b"
  OBVIOUS
<1>3. \A p, n : Amount(p, n).kind = k /\ SolelyOn(Amount(p, n), n)
  BY DEF Constraint, SolelyOn
<1>4. Own_or_base(b) = {b} \cup {own[p] : p \in DOMAIN own}
  BY <1>2 DEF Own_or_base
<1>5. \A n : n \in Elected(b) <=> (n = b \/ \E p \in DOMAIN own : n = own[p]) /\ value(n) # Null
  BY <1>4 DEF Elected
<1> HIDE DEF own, Amount
<1>6. \A p \in DOMAIN own : own[p] \in Elected(b) <=> p \in given
  BY <1>5
<1>7. CASE given # {}
  <2>1. per_party_constraints(b, k) = {Amount(p, own[p]) : p \in given}
    BY <1>1, <1>7
  <2> HIDE DEF given
  <2>2. \A n \in Elected(b) \ {b} : \E p \in given : n = own[p]
    BY <1>5, <1>6
  <2>3. \A p \in given : own[p] \in Elected(b)
    BY <1>6 DEF given
  <2>4. per_party_constraints(b, k) # {}
    BY <1>7, <2>1
  <2>5. \A c \in per_party_constraints(b, k) :
           c.kind = k /\ \E n \in Elected(b) : SolelyOn(c, n)
    BY <1>3, <2>1, <2>3
  <2>6. \A n \in Elected(b) \ {b} : \E c \in per_party_constraints(b, k) : SolelyOn(c, n)
    <3> SUFFICES ASSUME NEW n \in Elected(b) \ {b}
                 PROVE  \E c \in per_party_constraints(b, k) : SolelyOn(c, n)
      OBVIOUS
    <3>1. PICK p \in given : n = own[p]
      BY <2>2
    <3>2. Amount(p, own[p]) \in per_party_constraints(b, k)
      BY <2>1
    <3> QED BY <1>3, <3>1, <3>2
  <2> QED BY <2>4, <2>5, <2>6
<1>8. CASE given = {}
  <2>1. Elected(b) \ {b} = {}
    BY <1>5, <1>6, <1>8
  <2>2. per_party_constraints(b, k) = IF value(b) # Null THEN {Amount(p, b) : p \in DOMAIN own} ELSE {}
    BY <1>1, <1>8
  <2>3. b \in Elected(b) <=> value(b) # Null
    BY <1>5
  <2>4. DOMAIN own # {}
    BY <1>2
  <2> HIDE DEF given
  <2>5. Elected(b) # {} => per_party_constraints(b, k) # {}
    BY <2>1, <2>2, <2>3, <2>4
  <2>6. \A c \in per_party_constraints(b, k) :
           c.kind = k /\ \E n \in Elected(b) : SolelyOn(c, n)
    BY <1>3, <2>2, <2>3
  <2> QED BY <2>1, <2>5, <2>6
<1> QED
  BY <1>7, <1>8

----------------------------------------------------------------------------
PackConstraints ==
    currency_constraints \cup row_constraints \cup rounding_constraints
      \cup per_party_constraints("threshold", "threshold")
      \cup per_party_constraints("mta", "transfer")
      \cup per_party_constraints("independent_amount", "threshold")

\* Every constraint rests on fields of the agreement a pack may use, or on a row that
\* is established.
LEMMA WhatConstraintsRestOn ==
  ASSUME value("base_currency") # Null, NEW c \in PackConstraints
  PROVE  \/ \E names \in SUBSET PackFields :
              names \cap DOMAIN agreement.fields # {} /\ c.provenance = prov(names)
         \/ \E i \in Established : c.provenance = row_provenance(i)
<1>1. \A n : value(n) # Null => n \in DOMAIN agreement.fields
  BY DEF value
<1>2. CASE c \in currency_constraints
  <2> DEFINE names == {"eligible_currency", "base_currency"}
  <2>1. c.provenance = prov(names)
    BY <1>2 DEF currency_constraints, Constraint
  <2>2. names \in SUBSET PackFields /\ names \cap DOMAIN agreement.fields # {}
    BY <1>1 DEF PackFields
  <2> QED BY <2>1, <2>2
<1>3. CASE c \in row_constraints
  <2>1. Carried \subseteq Established
    BY DEF Carried, Valued
  <2> QED BY <1>3, <2>1 DEF row_constraints, Constraint
<1>4. CASE c \in rounding_constraints
  <2>1. c.provenance = prov(RoundingTerms)
    BY <1>4 DEF rounding_constraints, Constraint
  <2>2. RoundingTerms \cap DOMAIN agreement.fields # {}
    BY <1>1, <1>4 DEF rounding_constraints, RoundingTerms
  <2>3. RoundingTerms \in SUBSET PackFields
    BY DEF PackFields
  <2> QED BY <2>1, <2>2, <2>3
<1>5. ASSUME NEW b \in Elections, NEW k, c \in per_party_constraints(b, k)
      PROVE  \E names \in SUBSET PackFields :
               names \cap DOMAIN agreement.fields # {} /\ c.provenance = prov(names)
  <2>1. PICK n \in Elected(b) : SolelyOn(c, n)
    BY <1>5, AmountsOf
  <2>2. n \in Own_or_base(b) /\ n \in DOMAIN agreement.fields
    BY <1>1 DEF Elected
  <2>3. {n} \in SUBSET PackFields
    BY <2>2 DEF PackFields
  <2> QED BY <2>1, <2>2, <2>3 DEF SolelyOn
<1>6. {"threshold", "mta", "independent_amount"} \subseteq Elections
  BY DEF Elections
<1> QED
  BY <1>2, <1>3, <1>4, <1>5, <1>6 DEF PackConstraints

\* What is in the pack of each kind certify requires.
LEMMA KindsOf ==
  /\ \E c \in PackConstraints : c.kind = "currency"
  /\ (\E c \in PackConstraints : c.kind = "eligibility") <=> Established # {}
  /\ (\E c \in PackConstraints : c.kind = "threshold")
        <=> Elected("threshold") \cup Elected("independent_amount") # {}
  /\ (\E c \in PackConstraints : c.kind = "transfer") <=> Elected("mta") # {}
<1>1. \E c \in currency_constraints : c.kind = "currency"
  BY DEF currency_constraints, Constraint
<1>2. \A c \in currency_constraints : c.kind = "currency"
  BY DEF currency_constraints, Constraint
<1>3. \A c \in rounding_constraints : c.kind = "rounding"
  BY DEF rounding_constraints, Constraint
<1>4. \A c \in row_constraints : c.kind \in {"eligibility", "valuation"} /\ Established # {}
  <2>1. Carried \subseteq Established
    BY DEF Carried, Valued
  <2> QED BY <2>1 DEF row_constraints, Constraint
<1>5. Established # {} => \E c \in row_constraints : c.kind = "eligibility"
  <2> SUFFICES ASSUME NEW i \in Established PROVE \E c \in row_constraints : c.kind = "eligibility"
    OBVIOUS
  <2>1. Constraint("eligibility", "BOTH", [row |-> i], row_provenance(i)) \in row_constraints
    BY DEF row_constraints
  <2> QED BY <2>1 DEF Constraint
<1>6. ASSUME NEW b, NEW k
      PROVE  /\ Elected(b) # {} <=> per_party_constraints(b, k) # {}
             /\ \A c \in per_party_constraints(b, k) : c.kind = k
  BY AmountsOf
<1>7. /\ \A c \in per_party_constraints("threshold", "threshold") : c.kind = "threshold"
      /\ Elected("threshold") # {} <=> per_party_constraints("threshold", "threshold") # {}
  BY <1>6
<1>8. /\ \A c \in per_party_constraints("mta", "transfer") : c.kind = "transfer"
      /\ Elected("mta") # {} <=> per_party_constraints("mta", "transfer") # {}
  BY <1>6
<1>9. /\ \A c \in per_party_constraints("independent_amount", "threshold") : c.kind = "threshold"
      /\ Elected("independent_amount") # {}
           <=> per_party_constraints("independent_amount", "threshold") # {}
  BY <1>6
<1> QED
  <2>1. \E c \in PackConstraints : c.kind = "currency"
    BY <1>1 DEF PackConstraints
  <2>2. (\E c \in PackConstraints : c.kind = "eligibility") <=> Established # {}
    BY <1>2, <1>3, <1>4, <1>5, <1>7, <1>8, <1>9 DEF PackConstraints
  <2>3. (\E c \in PackConstraints : c.kind = "threshold")
          <=> Elected("threshold") \cup Elected("independent_amount") # {}
    BY <1>2, <1>3, <1>4, <1>7, <1>8, <1>9 DEF PackConstraints
  <2>4. (\E c \in PackConstraints : c.kind = "transfer") <=> Elected("mta") # {}
    BY <1>2, <1>3, <1>4, <1>7, <1>8, <1>9 DEF PackConstraints
  <2> QED BY <2>1, <2>2, <2>3, <2>4

----------------------------------------------------------------------------
\* certify's five reasons.
Refused(constraints, absent, markers, allow) ==
    \/ ~(RequiredKinds \subseteq {c.kind : c \in constraints})
    \/ \E c \in constraints : \E p \in Behind(c) : ~p.verified
    \/ \E c \in constraints : Behind(c) = {}
    \/ absent # {}
    \/ markers # {} /\ ~allow

AllOmitted == (DOMAIN agreement.rows \ Established) \cup (Valued \ Carried)

ConstraintsInv ==
    /\ agreement = None \/ agreement \in Agreements
    /\ pack # None =>
         /\ agreement # None /\ value("base_currency") # Null
         /\ pack.constraints = PackConstraints /\ pack.omitted = AllOmitted
         /\ pack.unsupported = agreement.source \cap Markers
    /\ certificate # None =>
         /\ pack # None
         /\ certificate.certified =
              ~Refused(pack.constraints, pack.omitted, pack.unsupported, certificate.allowed)
    /\ shadow # None =>
         /\ certificate # None
         /\ \A n \in DOMAIN shadow : /\ n \in DOMAIN agreement.fields
                                     /\ shadow[n].clause = agreement.fields[n].quote

LEMMA ConstraintsStay == Spec => []ConstraintsInv
<1>1. Init => ConstraintsInv
  BY DEF Init, AssuranceInit, ConstraintInit, ConstraintsInv
<1>2. ConstraintsInv /\ [Next]_vars => ConstraintsInv'
  <2> SUFFICES ASSUME ConstraintsInv, [ConstraintNext]_constraintVars PROVE ConstraintsInv'
    BY ConstraintSteps
  <2>1. ASSUME NEW a \in Agreements, extracted_agreement(a) PROVE ConstraintsInv'
    <3>1. pack = None /\ certificate = None /\ shadow = None
      BY <2>1 DEF extracted_agreement, ConstraintsInv
    <3> QED BY <2>1, <3>1 DEF extracted_agreement, ConstraintsInv
  <2> DEFINE Same == /\ (value("base_currency"))' = value("base_currency")
                     /\ PackConstraints' = PackConstraints /\ AllOmitted' = AllOmitted
  <2>s. agreement' = agreement => Same
    BY DEF value, PackConstraints, AllOmitted, currency_constraints, row_constraints,
           rounding_constraints, per_party_constraints, prov, row_provenance, verbatim,
           Established, Valued, Carried, valuation_carried
  <2> HIDE DEF Same
  <2>2. CASE build_pack
    <3>1. certificate = None /\ shadow = None
      BY <2>2 DEF build_pack, ConstraintsInv
    <3>2. Same /\ agreement' = agreement /\ certificate' = certificate /\ shadow' = shadow
      BY <2>2, <2>s DEF build_pack
    <3>3. /\ pack'.constraints = PackConstraints /\ pack'.omitted = AllOmitted
          /\ pack'.unsupported = agreement.source \cap Markers
          /\ agreement # None /\ value("base_currency") # Null
      BY <2>2 DEF build_pack, PackConstraints, AllOmitted, find_unsupported
    <3> QED BY <3>1, <3>2, <3>3 DEF ConstraintsInv, Same
  <2>3. ASSUME NEW allow \in BOOLEAN, certify(allow) PROVE ConstraintsInv'
    <3>1. /\ pack # None /\ shadow = None
          /\ agreement' = agreement /\ pack' = pack /\ shadow' = shadow /\ Same
      BY <2>3, <2>s DEF certify, ConstraintsInv
    <3>2. certificate'.certified = ~Refused(pack.constraints, pack.omitted, pack.unsupported, allow)
          /\ certificate'.allowed = allow
      <4> DEFINE reasons ==
             {r \in {"missing", "unverified", "bare", "omitted", "unsupported"} :
                \/ r = "missing" /\ ~(RequiredKinds \subseteq {c.kind : c \in pack.constraints})
                \/ r = "unverified" /\ \E c \in pack.constraints : \E p \in Behind(c) : ~p.verified
                \/ r = "bare" /\ \E c \in pack.constraints : Behind(c) = {}
                \/ r = "omitted" /\ pack.omitted # {}
                \/ r = "unsupported" /\ pack.unsupported # {} /\ ~allow}
      <4>1. certificate' = [certified |-> reasons = {}, reasons |-> reasons, allowed |-> allow]
        BY <2>3 DEF certify
      <4>2. reasons = {} <=> ~Refused(pack.constraints, pack.omitted, pack.unsupported, allow)
        BY DEF Refused
      <4> HIDE DEF reasons
      <4>3. certificate'.certified = (reasons = {}) /\ certificate'.allowed = allow
        BY <4>1
      <4>4. (reasons = {}) = (~Refused(pack.constraints, pack.omitted, pack.unsupported, allow))
        BY <4>2
      <4> QED BY <4>3, <4>4
    <3> QED BY <3>1, <3>2 DEF ConstraintsInv, Same
  <2>4. ASSUME NEW sys \in MarginSystems, reconcile_shadow(sys) PROVE ConstraintsInv'
    <3>1. /\ certificate # None /\ Same
          /\ agreement' = agreement /\ pack' = pack /\ certificate' = certificate
      BY <2>4, <2>s DEF reconcile_shadow
    <3>2. \A n \in DOMAIN shadow' : /\ n \in DOMAIN agreement.fields
                                    /\ shadow'[n].clause = agreement.fields[n].quote
      BY <2>4 DEF reconcile_shadow
    <3> QED BY <3>1, <3>2 DEF ConstraintsInv, Same
  <2>5. CASE UNCHANGED constraintVars
    BY <2>5, <2>s DEF constraintVars, ConstraintsInv, Same
  <2> QED BY <2>1, <2>2, <2>3, <2>4, <2>5 DEF ConstraintNext
<1> QED
  BY <1>1, <1>2, PTL DEF Spec

\* A certificate of such a pack is what the agreement warrants.
LEMMA CertificatesTell == ASSUME ConstraintsInv PROVE CertifiedIsTraced
<1> SUFFICES ASSUME certificate # None
             PROVE  /\ certificate.certified =>
                         /\ Answered
                         /\ \A i \in DOMAIN agreement.rows : InPack(i)
                         /\ \A b \in Elections : \A n \in Elected(b) \ {b} : RestsOn(n)
                         /\ \A c \in pack.constraints : \A p \in Behind(c) : verbatim(p.quote)
                         /\ shadow # None =>
                              \A n \in DOMAIN shadow : RestsOn(n) => verbatim(shadow[n].clause)
                    /\ /\ Answered
                       /\ \A n \in DOMAIN agreement.fields \cap PackFields :
                            verbatim(agreement.fields[n].quote)
                       => certificate.certified
  BY DEF CertifiedIsTraced
<1>1. /\ agreement \in Agreements /\ value("base_currency") # Null
      /\ pack.constraints = PackConstraints /\ pack.omitted = AllOmitted
      /\ pack.unsupported = agreement.source \cap Markers
      /\ certificate.certified =
            ~Refused(PackConstraints, AllOmitted, agreement.source \cap Markers, certificate.allowed)
  BY DEF ConstraintsInv
<1>2. /\ agreement.rows \in Seq(Range(agreement.rows))
      /\ "row" \notin DOMAIN agreement.fields /\ "none" \notin agreement.source
  BY <1>1, ConstraintAssumption
<1>3. \A n : value(n) # Null => n \in DOMAIN agreement.fields
  BY DEF value
<1>4. \A c \in PackConstraints :
         \/ \E names \in SUBSET PackFields :
              names \cap DOMAIN agreement.fields # {} /\ c.provenance = prov(names)
         \/ \E i \in Established : c.provenance = row_provenance(i)
  BY <1>1, WhatConstraintsRestOn
<1>5. \A names : \A p \in prov(names) : /\ p.of \in names \cap DOMAIN agreement.fields
                                        /\ p.quote = agreement.fields[p.of].quote
                                        /\ p.verified = verbatim(p.quote)
  BY FieldsBehind
<1>6. \A i : \A p \in row_provenance(i) : /\ p.of = "row" /\ p.quote = agreement.rows[i].quote
                                          /\ p.verified = verbatim(p.quote)
  BY RowBehind
<1>7. \A c \in PackConstraints : \A p \in Behind(c) :
         /\ p.verified = verbatim(p.quote)
         /\ p.of # "row" => p.quote = agreement.fields[p.of].quote
  BY <1>4, <1>5, <1>6 DEF Behind
<1>8. \A i \in Established : \E c \in PackConstraints :
         c.kind = "eligibility" /\ c.content = [row |-> i] /\ c.provenance = row_provenance(i)
  <2> SUFFICES ASSUME NEW i \in Established
               PROVE  \E c \in PackConstraints :
                        c.kind = "eligibility" /\ c.content = [row |-> i]
                        /\ c.provenance = row_provenance(i)
    OBVIOUS
  <2>1. Constraint("eligibility", "BOTH", [row |-> i], row_provenance(i)) \in PackConstraints
    BY DEF PackConstraints, row_constraints
  <2> QED BY <2>1 DEF Constraint
<1>9. ASSUME certificate.certified
      PROVE  /\ Answered
             /\ \A i \in DOMAIN agreement.rows : InPack(i)
             /\ \A b \in Elections : \A n \in Elected(b) \ {b} : RestsOn(n)
             /\ \A c \in pack.constraints : \A p \in Behind(c) : verbatim(p.quote)
             /\ shadow # None => \A n \in DOMAIN shadow : RestsOn(n) => verbatim(shadow[n].clause)
  <2>1. /\ RequiredKinds \subseteq {c.kind : c \in PackConstraints}
        /\ \A c \in PackConstraints : \A p \in Behind(c) : p.verified
        /\ AllOmitted = {}
        /\ agreement.source \cap Markers = {} \/ certificate.allowed
    BY <1>1, <1>9 DEF Refused
  <2>2. \A c \in PackConstraints : \A p \in Behind(c) : verbatim(p.quote)
    BY <1>7, <2>1
  <2>3. \A i \in DOMAIN agreement.rows : i \in Established /\ (i \in Valued => i \in Carried)
    BY <2>1 DEF AllOmitted
  <2>4. \A i \in DOMAIN agreement.rows : verbatim(agreement.rows[i].quote)
    <3> SUFFICES ASSUME NEW i \in DOMAIN agreement.rows PROVE verbatim(agreement.rows[i].quote)
      OBVIOUS
    <3>1. PICK c \in PackConstraints : c.provenance = row_provenance(i)
      BY <1>8, <2>3
    <3>2. PICK p \in row_provenance(i) : p.quote = agreement.rows[i].quote
      BY <2>3, RowBehind DEF Established
    <3> QED BY <2>2, <3>1, <3>2 DEF Behind
  <2>5. \A i \in DOMAIN agreement.rows : StandsOnItsOwn(i)
    BY <2>3, <2>4, CarriedRows
  <2>6. \A i \in DOMAIN agreement.rows : InPack(i)
    <3> SUFFICES ASSUME NEW i \in DOMAIN agreement.rows PROVE InPack(i)
      OBVIOUS
    <3>1. \E c \in PackConstraints : c.kind = "eligibility" /\ c.content.row = i
      <4>1. PICK c \in PackConstraints : c.kind = "eligibility" /\ c.content = [row |-> i]
        BY <1>8, <2>3
      <4>2. c.content.row = i
        BY <4>1
      <4> QED BY <4>1, <4>2
    <3>2. ASSUME agreement.rows[i].pct # Null
          PROVE  \E c \in PackConstraints :
                   c.kind = "valuation" /\ c.content = [row |-> i, pct |-> agreement.rows[i].pct]
      <4>1. i \in Carried
        BY <2>3, <3>2 DEF Valued
      <4>2. Constraint("valuation", "BOTH", [row |-> i, pct |-> agreement.rows[i].pct],
                       row_provenance(i)) \in PackConstraints
        BY <4>1 DEF PackConstraints, row_constraints
      <4> QED BY <4>2 DEF Constraint
    <3> QED BY <1>1, <3>1, <3>2 DEF InPack
  <2>7. Answered
    <3>1. Established # {} /\ Elected("mta") # {}
          /\ Elected("threshold") \cup Elected("independent_amount") # {}
      <4>1. \A k \in RequiredKinds : \E c \in PackConstraints : c.kind = k
        BY <2>1
      <4> QED BY <4>1, KindsOf DEF RequiredKinds
    <3>2. agreement.rows # <<>>
      BY <3>1 DEF Established
    <3> QED BY <2>1, <2>5, <3>1, <3>2 DEF Answered
  <2>8. \A b \in Elections : \A n \in Elected(b) \ {b} : RestsOn(n)
    <3> SUFFICES ASSUME NEW b \in Elections, NEW n \in Elected(b) \ {b} PROVE RestsOn(n)
      OBVIOUS
    <3>1. \E k : \A c \in per_party_constraints(b, k) : c \in PackConstraints
      BY DEF Elections, PackConstraints
    <3>2. PICK c \in PackConstraints : SolelyOn(c, n)
      <4>1. \A k : \E c \in per_party_constraints(b, k) : SolelyOn(c, n)
        BY AmountsOf
      <4> QED BY <3>1, <4>1
    <3>3. n \in {n} \cap DOMAIN agreement.fields
      BY <1>3 DEF Elected
    <3>4. \E p \in prov({n}) : p.of = n
      BY <3>3, FieldsBehind
    <3> QED BY <1>1, <3>2, <3>4 DEF RestsOn, Behind, SolelyOn
  <2>9. ASSUME shadow # None, NEW n \in DOMAIN shadow, RestsOn(n) PROVE verbatim(shadow[n].clause)
    <3>1. n # "row" /\ shadow[n].clause = agreement.fields[n].quote
      BY <1>2, <2>9 DEF ConstraintsInv
    <3>2. PICK c \in PackConstraints : \E p \in Behind(c) : p.of = n
      BY <1>1, <2>9 DEF RestsOn
    <3>3. PICK p \in Behind(c) : p.of = n
      BY <3>2
    <3> QED BY <1>7, <2>2, <3>1, <3>3
  <2> QED BY <1>1, <2>2, <2>6, <2>7, <2>8, <2>9
<1>10. ASSUME Answered,
              \A n \in DOMAIN agreement.fields \cap PackFields : verbatim(agreement.fields[n].quote)
       PROVE  certificate.certified
  <2>1. \A i \in DOMAIN agreement.rows : i \in Established /\ (i \in Valued => i \in Carried)
    BY <1>2, <1>10, StandingRows DEF Answered
  <2>2. RequiredKinds \subseteq {c.kind : c \in PackConstraints}
    <3>1. Established # {}
      <4>1. DOMAIN agreement.rows # {}
        <5>1. agreement.rows # <<>> /\ agreement.rows \in Seq(Range(agreement.rows))
          BY <1>2, <1>10 DEF Answered
        <5>2. DOMAIN agreement.rows = 1..Len(agreement.rows) /\ Len(agreement.rows) \in Nat
          BY <5>1
        <5>3. Len(agreement.rows) # 0
          BY <5>1
        <5> QED BY <5>2, <5>3
      <4> QED BY <2>1, <4>1
    <3>2. Elected("mta") # {} /\ Elected("threshold") \cup Elected("independent_amount") # {}
      BY <1>10 DEF Answered
    <3>3. \A k \in RequiredKinds : \E c \in PackConstraints : c.kind = k
      BY <3>1, <3>2, KindsOf DEF RequiredKinds
    <3> QED BY <3>3
  <2>3. \A c \in PackConstraints : Behind(c) # {} /\ \A p \in Behind(c) : p.verified
    <3> SUFFICES ASSUME NEW c \in PackConstraints
                 PROVE  Behind(c) # {} /\ \A p \in Behind(c) : verbatim(p.quote)
      BY <1>7
    <3>1. ASSUME NEW names \in SUBSET PackFields, names \cap DOMAIN agreement.fields # {},
                 c.provenance = prov(names)
          PROVE  Behind(c) # {} /\ \A p \in Behind(c) : verbatim(p.quote)
      <4>1. prov(names) # {}
        BY <3>1, FieldsBehind
      <4>2. \A p \in prov(names) : verbatim(p.quote)
        BY <1>5, <1>10
      <4> QED BY <3>1, <4>1, <4>2 DEF Behind
    <3>2. ASSUME NEW i \in Established, c.provenance = row_provenance(i)
          PROVE  Behind(c) # {} /\ \A p \in Behind(c) : verbatim(p.quote)
      <4>1. verbatim(agreement.rows[i].quote) /\ row_provenance(i) # {}
        BY <1>10 DEF Established, Answered, StandsOnItsOwn
      <4> QED BY <1>6, <3>2, <4>1 DEF Behind
    <3> QED BY <1>4, <3>1, <3>2
  <2>4. AllOmitted = {}
    BY <2>1 DEF AllOmitted, Valued, Established
  <2>5. agreement.source \cap Markers = {} \/ certificate.allowed
    BY <1>10 DEF Answered
  <2>6. ~Refused(PackConstraints, AllOmitted, agreement.source \cap Markers, certificate.allowed)
    BY <2>2, <2>3, <2>4, <2>5 DEF Refused
  <2> QED BY <1>1, <2>6
<1> QED
  BY <1>9, <1>10

\* Whatever the agreements, the clauses and the margin systems are: a certified pack is
\* the whole of its agreement on the agreement's own words, and a complete extraction is
\* certified (certify).
THEOREM CertifiedAlwaysTraced == Spec => []CertifiedIsTraced
<1>1. ConstraintsInv => CertifiedIsTraced
  BY CertificatesTell
<1> QED
  BY <1>1, ConstraintsStay, PTL

----------------------------------------------------------------------------
(* Types.  Each component has an invariant of its own, for what its own     *)
(* guards and what it keeps elsewhere make sure of.                         *)

\* Names are given in order, so that the n-th name is n.
OrderInv ==
    /\ nodes \in Seq(NodeShapes) /\ order \in Seq(Nat) /\ Len(order) = Len(nodes)
    /\ \A i \in 1..Len(order) : order[i] = i

LEMMA OrderStays == Spec => []OrderInv
<1>1. Init => OrderInv
  BY DEF Init, SessionInit, BuildInit, OrderInv
<1>2. OrderInv /\ [Next]_vars => OrderInv'
  <2> SUFFICES ASSUME OrderInv, [BuildNext]_buildVars PROVE OrderInv'
    BY BuildSteps
  <2>1. ASSUME NEW n \in NodeNames, NEW shape \in NodeShapes, add(n, shape) PROVE OrderInv'
    <3>1. CASE n \in DOMAIN nodes
      BY <2>1, <3>1 DEF add, OrderInv
    <3>2. CASE n \notin DOMAIN nodes
      <4>1. n \in Nat /\ n = Len(order) + 1 /\ Len(order) \in Nat
        BY <2>1, <3>2, BuildAssumption DEF add, OrderInv
      <4>2. nodes' = Append(nodes, shape) /\ order' = Append(order, n)
        BY <2>1, <3>2 DEF add
      <4>3. nodes' \in Seq(NodeShapes) /\ order' \in Seq(Nat) /\ Len(order') = Len(nodes')
        BY <4>1, <4>2 DEF OrderInv
      <4>4. \A i \in 1..Len(order') : order'[i] = i
        BY <4>1, <4>2 DEF OrderInv
      <4> QED BY <4>3, <4>4 DEF OrderInv
    <3> QED BY <3>1, <3>2
  <2>2. CASE validate \/ UNCHANGED buildVars
    BY <2>2 DEF validate, buildVars, OrderInv
  <2>3. CASE hand_over
    <3>1. nodes' = <<>> /\ order' = <<>>
      BY <2>3 DEF hand_over
    <3> QED BY <3>1 DEF OrderInv
  <2> QED
    BY <2>1, <2>2, <2>3 DEF BuildNext
<1> QED
  BY <1>1, <1>2, PTL DEF Spec

\* What a thread has read and what its call costs are numbers, and so what it adds.
MapTypes ==
    /\ child = [i \in Items |-> [pc |-> child[i].pc, cost |-> child[i].cost,
                                 read |-> child[i].read]]
    /\ \A i \in Items : child[i].cost \in Nat /\ child[i].read \in Nat
    /\ answers \in Seq(Nat) /\ Len(answers) <= Cardinality(Items)
    /\ usage \in Nat /\ events \in Seq(Nat) /\ parallel \in Widths \cup {0}

LEMMA MapTypesStay == Spec => []MapTypes
<1>1. Init => MapTypes
  <2>1. Cardinality(Items) \in Nat
    BY FanoutAssumption, FS_CardinalityType
  <2> QED BY <2>1 DEF Init, SessionInit, FanoutInit, MapTypes
<1>2. MapTypes /\ [Next]_vars => MapTypes'
  <2> SUFFICES ASSUME MapTypes, [FanoutNext]_fanoutVars PROVE MapTypes'
    BY FanoutSteps
  <2> DEFINE Children(ch) ==
               /\ ch = [j \in Items |-> [pc |-> ch[j].pc, cost |-> ch[j].cost, read |-> ch[j].read]]
               /\ \A j \in Items : ch[j].cost \in Nat /\ ch[j].read \in Nat
             Account == /\ answers \in Seq(Nat) /\ Len(answers) <= Cardinality(Items)
                        /\ usage \in Nat /\ events \in Seq(Nat) /\ parallel \in Widths \cup {0}
  <2>0. Children(child) /\ Account
    BY DEF MapTypes
  <2>c. ASSUME NEW i \in Items, NEW pc, NEW cost \in Nat, NEW read \in Nat,
               child' = [child EXCEPT ![i] = [pc |-> pc, cost |-> cost, read |-> read]]
        PROVE  Children(child')
    BY <2>0, <2>c
  <2>m. ASSUME NEW i \in Items, NEW pc, child' = [child EXCEPT ![i].pc = pc]
        PROVE  Children(child')
    <3> DEFINE c == child[i].cost
               r == child[i].read
    <3>1. child[i] = [pc |-> child[i].pc, cost |-> c, read |-> r] /\ c \in Nat /\ r \in Nat
      BY <2>0
    <3>2. child' = [child EXCEPT ![i] = [child[i] EXCEPT !.pc = pc]]
      BY <2>m
    <3> HIDE DEF c, r
    <3>3. [child[i] EXCEPT !.pc = pc] = [pc |-> pc, cost |-> c, read |-> r]
      BY <3>1
    <3>4. child' = [child EXCEPT ![i] = [pc |-> pc, cost |-> c, read |-> r]]
      BY <3>2, <3>3
    <3> HIDE DEF Children
    <3> QED BY <2>c, <3>1, <3>4
  <2>1. ASSUME NEW w \in Widths, map_node(w) PROVE MapTypes'
    BY <2>1 DEF map_node, MapTypes
  <2>2. ASSUME NEW i \in Items, ChildStep(i) PROVE MapTypes'
    <3>1. CASE start_child(i)
      <4>1. Children(child')
        BY <2>m, <3>1 DEF start_child, Moves
      <4> HIDE DEF Children
      <4> QED BY <2>0, <3>1, <4>1 DEF start_child, MapTypes, Children
    <3>2. CASE check(i)
      <4>1. Children(child')
        BY <2>m, <3>2 DEF check, Moves
      <4> HIDE DEF Children
      <4> QED BY <2>0, <3>2, <4>1 DEF check, MapTypes, Children
    <3>3. CASE call_raises(i)
      <4>1. Children(child')
        BY <2>m, <3>3 DEF call_raises, Moves
      <4> HIDE DEF Children
      <4> QED BY <2>0, <3>3, <4>1 DEF call_raises, MapTypes, Children
    <3>4. ASSUME NEW cost \in Prices, record_spend(i, cost) PROVE MapTypes'
      <4>1. cost \in Nat /\ usage \in Nat
        BY <2>0, FanoutAssumption
      <4>2. Children(child')
        BY <2>c, <3>4, <4>1 DEF record_spend
      <4> HIDE DEF Children
      <4> QED BY <2>0, <3>4, <4>2 DEF record_spend, MapTypes, Children
    <3>5. CASE record_usage(i)
      <4>1. Children(child')
        BY <2>m, <3>5 DEF record_usage, Moves
      <4>2. usage' \in Nat
        BY <2>0, <3>5 DEF record_usage
      <4> HIDE DEF Children
      <4> QED BY <2>0, <3>5, <4>1, <4>2 DEF record_usage, MapTypes, Children
    <3>6. CASE number_event(i)
      <4>1. child[i].cost \in Nat /\ Len(events) \in Nat
        BY <2>0
      <4>2. Children(child')
        BY <2>c, <3>6, <4>1 DEF number_event
      <4> HIDE DEF Children
      <4> QED BY <2>0, <3>6, <4>2 DEF number_event, MapTypes, Children
    <3>7. CASE append_event(i)
      <4>1. Children(child')
        BY <2>m, <3>7 DEF append_event, Moves
      <4>2. events' \in Seq(Nat)
        BY <2>0, <3>7 DEF append_event
      <4> HIDE DEF Children
      <4> QED BY <2>0, <3>7, <4>1, <4>2 DEF append_event, MapTypes, Children
    <3> QED BY <2>2, <3>1, <3>2, <3>3, <3>4, <3>5, <3>6, <3>7 DEF ChildStep
  <2>3. CASE consume
    <3>1. Len(answers) + 1 \in Items /\ Len(answers) + 1 <= Cardinality(Items)
      BY <2>0, <2>3, FanoutAssumption, FS_CardinalityType DEF consume
    <3>2. answers' = answers \/ answers' = Append(answers, Len(answers) + 1)
      BY <2>3 DEF consume
    <3>s. answers \in Seq(Nat) /\ Len(answers) \in Nat /\ Len(answers) + 1 \in Nat
      BY <2>0
    <3>a. /\ Append(answers, Len(answers) + 1) \in Seq(Nat)
          /\ Len(Append(answers, Len(answers) + 1)) = Len(answers) + 1
      BY <3>s
    <3>3. answers' \in Seq(Nat) /\ Len(answers') <= Cardinality(Items)
      <4>1. CASE answers' = answers
        BY <2>0, <4>1
      <4>2. CASE answers' = Append(answers, Len(answers) + 1)
        BY <3>1, <3>a, <4>2
      <4> QED BY <3>2, <4>1, <4>2
    <3>4. \/ child' = child
          \/ child' = [j \in Items |-> IF child[j].pc = "queued"
                                       THEN [child[j] EXCEPT !.pc = "cancelled"] ELSE child[j]]
      BY <2>3 DEF consume
    <3>5. Children(child')
      BY <2>0, <3>4
    <3>6. parallel' = parallel /\ usage' = usage /\ events' = events
      BY <2>3 DEF consume
    <3> HIDE DEF Children
    <3> QED BY <2>0, <3>3, <3>5, <3>6 DEF MapTypes, Children
  <2>4. CASE leave_pool \/ UNCHANGED fanoutVars
    BY <2>4 DEF leave_pool, fanoutVars, MapTypes
  <2> QED
    BY <2>1, <2>2, <2>3, <2>4 DEF FanoutNext, FanoutStep
<1> QED
  BY <1>1, <1>2, PTL DEF Spec

ToolTypes == registry \subseteq Tools /\ surfaced \subseteq Tools

LEMMA ToolTypesStay == Spec => []ToolTypes
<1>1. Init => ToolTypes
  BY DEF Init, SessionInit, ToolInit, ToolTypes
<1>2. ToolTypes /\ [Next]_vars => ToolTypes'
  <2> SUFFICES ASSUME ToolTypes, [ToolNext]_toolVars PROVE ToolTypes'
    BY ToolSteps
  <2>1. ASSUME NEW t, NEW p, NEW a, call(t, p, a) PROVE ToolTypes'
    BY <2>1 DEF call, ToolTypes
  <2>2. ASSUME NEW p, NEW hits, search_tools(p, hits) PROVE ToolTypes'
    BY <2>2 DEF search_tools, ToolTypes
  <2>3. ASSUME NEW names, NEW list, delegate(names, list) PROVE ToolTypes'
    BY <2>3, ToolAssumption DEF delegate, clone, ToolTypes
  <2>4. CASE start_reading
    BY <2>4 DEF start_reading, ToolTypes
  <2>5. ASSUME NEW p, read_artifact(p) PROVE ToolTypes'
    BY <2>5 DEF read_artifact, ToolTypes
  <2>6. CASE UNCHANGED toolVars
    BY <2>6 DEF toolVars, ToolTypes
  <2> QED
    BY <2>1, <2>2, <2>3, <2>4, <2>5, <2>6 DEF ToolNext
<1> QED
  BY <1>1, <1>2, PTL DEF Spec

\* A run has read no version that is still to come.
MemoryTypes ==
    /\ \A s \in DOMAIN notes : notes[s] = Corrupt \/ Slug[notes[s].title] = s
    /\ version \in [Refs -> Nat]
    /\ DOMAIN loaded \subseteq Refs
    /\ \A r \in DOMAIN loaded : loaded[r] \in Nat /\ loaded[r] <= version[r]

LEMMA MemoryTypesStay == Spec => []MemoryTypes
<1>1. Init => MemoryTypes
  BY DEF Init, SessionInit, MemoryInit, MemoryTypes
<1>2. MemoryTypes /\ [Next]_vars => MemoryTypes'
  <2> SUFFICES ASSUME MemoryTypes, [MemoryNext]_memoryVars PROVE MemoryTypes'
    BY MemorySteps
  <2>1. ASSUME NEW r \in Refs, change_document(r) PROVE MemoryTypes'
    BY <2>1 DEF change_document, MemoryTypes
  <2>2. ASSUME NEW r \in Refs, read_document(r) PROVE MemoryTypes'
    BY <2>2 DEF read_document, MemoryTypes
  <2>3. ASSUME NEW t \in Titles, NEW from \in SUBSET DOMAIN loaded, write(t, from)
        PROVE  MemoryTypes'
    <3>1. PICK note : Put(Slug[t], note) /\ note.title = t
      BY <2>3 DEF write
    <3>2. \A s \in DOMAIN notes' : notes'[s] = Corrupt \/ Slug[notes'[s].title] = s
      BY <3>1 DEF Put, MemoryTypes
    <3> QED BY <2>3, <3>2 DEF write, MemoryTypes
  <2>4. ASSUME NEW t \in Titles, write_interrupted(t) PROVE MemoryTypes'
    BY <2>4 DEF write_interrupted, Put, MemoryTypes
  <2>5. ASSUME NEW t \in Titles, forget(t) PROVE MemoryTypes'
    BY <2>5 DEF forget, MemoryTypes
  <2>6. ASSUME NEW hits, NEW shown, NEW strict,
               recall(hits, shown, strict) \/ inject(hits, shown, strict)
        PROVE  MemoryTypes'
    BY <2>6 DEF recall, inject, Show, MemoryTypes
  <2>7. CASE UNCHANGED memoryVars
    BY <2>7 DEF memoryVars, MemoryTypes
  <2> QED
    BY <2>1, <2>2, <2>3, <2>4, <2>5, <2>6, <2>7 DEF MemoryNext
<1> QED
  BY <1>1, <1>2, PTL DEF Spec

\* Nothing is fed before there is a page.
FedInv ==
    /\ fed \in Nat
    /\ page = NoPage \/ (Len(page) \in Nat /\ fed <= Len(page))
    /\ page = <<>> => fed = 0

LEMMA FedStays == Spec => []FedInv
<1>1. Init => FedInv
  BY DEF Init, AssuranceInit, CheckInit, FedInv
<1>2. FedInv /\ [Next]_vars => FedInv'
  <2> SUFFICES ASSUME FedInv, [CheckNext]_checkVars PROVE FedInv'
    BY CheckSteps
  <2>1. ASSUME NEW p \in Pages \cup {NoPage}, load_source(p) PROVE FedInv'
    <3>1. page' = p /\ fed' = 0
      BY <2>1 DEF load_source, FedInv
    <3>2. p = NoPage \/ (Len(p) \in Nat /\ 0 <= Len(p))
      <4>1. CASE p \in Pages
        <5>1. p \in Seq([is : {"open", "close", "data"}, name : STRING])
          BY <4>1, CheckAssumption DEF WellFormed
        <5> QED BY <5>1
      <4> QED BY <4>1
    <3> QED BY <3>1, <3>2 DEF FedInv
  <2>2. ASSUME NEW is, Fed(is) PROVE FedInv'
    <3>1. /\ page # NoPage /\ fed < Len(page) /\ page' = page /\ fed' = fed + 1
          /\ Len(page) \in Nat /\ fed \in Nat
      BY <2>2 DEF Fed, FedInv
    <3>2. page # <<>>
      BY <3>1
    <3> QED BY <3>1, <3>2 DEF FedInv
  <2>3. CASE handle_starttag \/ handle_endtag \/ handle_data
    BY <2>2, <2>3 DEF handle_starttag, handle_endtag, handle_data
  <2>4. ASSUME NEW e, NEW f, cmd_check(e, f) PROVE FedInv'
    BY <2>4 DEF cmd_check, FedInv
  <2>5. CASE UNCHANGED checkVars
    BY <2>5 DEF checkVars, FedInv
  <2> QED
    BY <2>1, <2>3, <2>4, <2>5 DEF CheckNext
<1> QED
  BY <1>1, <1>2, PTL DEF Spec

\* There is nothing to read, and no report, before an export is read.
ReportsInv ==
    /\ unread \cup DOMAIN reports \subseteq DOMAIN portfolio
    /\ export = <<>> => unread = {} /\ reports = <<>>

LEMMA ReportsStay == Spec => []ReportsInv
<1>1. Init => ReportsInv
  BY DEF Init, AssuranceInit, ReconcileInit, ReportsInv
<1>2. ReportsInv /\ [Next]_vars => ReportsInv'
  <2> SUFFICES ASSUME ReportsInv, [ReconcileNext]_reconcileVars PROVE ReportsInv'
    BY ReconcileSteps
  <2>1. ASSUME NEW table, NEW files, NEW cli, load_system(table, files, cli) PROVE ReportsInv'
    <3>1. /\ unread = {} /\ reports = <<>> /\ reports' = <<>>
          /\ export' = table /\ portfolio' = files /\ system' = without_duplicates(table)
      BY <2>1 DEF load_system, ReportsInv
    <3>2. unread' = {} \/ (unread' = DOMAIN files /\ system' # <<>>)
      BY <2>1, <3>1 DEF load_system
    <3>3. table = <<>> => without_duplicates(table) = <<>>
      BY DEF without_duplicates
    <3> QED BY <3>1, <3>2, <3>3 DEF ReportsInv
  <2>2. ASSUME NEW d \in unread, skip(d) PROVE ReportsInv'
    BY <2>2 DEF skip, ReportsInv
  <2>3. ASSUME NEW d \in unread, reconcile_document(d) PROVE ReportsInv'
    <3>1. DOMAIN reports' = DOMAIN reports \cup {d}
      BY <2>3 DEF reconcile_document
    <3>2. unread' = unread \ {d} /\ export' = export /\ portfolio' = portfolio /\ export # <<>>
      BY <2>3 DEF reconcile_document, ReportsInv
    <3> QED BY <3>1, <3>2 DEF ReportsInv
  <2>4. CASE finish
    BY <2>4 DEF finish, ReportsInv
  <2>5. CASE UNCHANGED reconcileVars
    BY <2>5 DEF reconcileVars, ReportsInv
  <2> QED
    BY <2>1, <2>2, <2>3, <2>4, <2>5 DEF ReconcileNext
<1> QED
  BY <1>1, <1>2, PTL DEF Spec

\* An evaluation that is under way is one of those that are allowed.
CountInv ==
    /\ evals \in Nat /\ evals <= MaxEvals
    /\ outcomes # <<>> => evals < MaxEvals

LEMMA CountStays == Spec => []CountInv
<1>1. Init => CountInv
  BY EvaluationAssumption DEF Init, AssuranceInit, EvalInit, CountInv
<1>2. EvalInv /\ CountInv /\ [Next]_vars => CountInv'
  <2> SUFFICES ASSUME EvalInv, CountInv, [EvalNext]_evalVars PROVE CountInv'
    BY EvalSteps
  <2>1. ASSUME NEW x, run_one(x) PROVE CountInv'
    BY <2>1 DEF run_one, CountInv
  <2>2. ASSUME NEW as, judge(as) PROVE CountInv'
    BY <2>2 DEF judge, CountInv
  <2>3. CASE add_case \/ score \/ save_baseline
    BY <2>3 DEF add_case, score, save_baseline, CountInv
  <2>4. CASE done
    <3>1. outcomes # <<>>
      BY <2>4 DEF done, EvalInv
    <3>2. outcomes' = <<>> /\ evals' = evals + 1
      BY <2>4 DEF done
    <3> QED BY <3>1, <3>2, EvaluationAssumption DEF CountInv
  <2>5. CASE UNCHANGED evalVars
    BY <2>5 DEF evalVars, CountInv
  <2> QED
    BY <2>1, <2>2, <2>3, <2>4, <2>5 DEF EvalNext
<1> QED
  BY <1>1, <1>2, EvalStays, PTL DEF Spec

\* Notes, orders and reports name what exists, and no counter passes its bound, whatever
\* the activity.
THEOREM ApplicationTypesCorrect == Spec => []ApplicationTypeOK
<1>1. StartupInv => client \in {"none", "scripted", "anthropic"}
  BY DEF StartupInv
<1>2. OrderInv => DOMAIN nodes = ToSet(order) /\ IsInjective(order)
  <2> SUFFICES ASSUME OrderInv PROVE DOMAIN nodes = ToSet(order) /\ IsInjective(order)
    OBVIOUS
  <2>1. /\ DOMAIN nodes = 1..Len(nodes) /\ DOMAIN order = 1..Len(nodes)
        /\ \A i \in 1..Len(nodes) : order[i] = i
    BY DEF OrderInv
  <2> QED BY <2>1 DEF ToSet, IsInjective
<1>3. EvalInv => Len(outcomes) <= Len(dataset)
  BY DEF EvalInv
<1>4. /\ StartupInv /\ OrderInv /\ MapTypes /\ ToolTypes /\ MemoryTypes /\ FedInv /\ ReportsInv
      /\ EvalInv /\ CountInv
      => ApplicationTypeOK
  BY <1>1, <1>2, <1>3
  DEF MapTypes, ToolTypes, MemoryTypes, FedInv, ReportsInv, CountInv, ApplicationTypeOK
<1> QED
  BY <1>4, StartupStays, OrderStays, MapTypesStay, ToolTypesStay, MemoryTypesStay, FedStays,
     ReportsStay, EvalStays, CountStays, PTL
====
