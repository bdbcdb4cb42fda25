---- MODULE ReadingProofs ----
(***************************************************************************)
(* What is read off what is written, and what is made of it: amounts, the  *)
(* terms of two systems, pages, the lines of a file, documents taken in.   *)
(***************************************************************************)
EXTENDS ApplicationProofs, SequenceTheorems

\* A nonempty set of numbers up to k has a greatest one, which is its Max.
LEMMA Greatest ==
  ASSUME NEW k \in Nat, NEW S \in SUBSET (0..k), S # {}
  PROVE  Max(S) \in S /\ \A i \in S : i <= Max(S)
<1> DEFINE T == {k - i : i \in S}
<1>1. T \in SUBSET Nat /\ T # {}
  <2>1. \A i \in S : k - i \in Nat
    OBVIOUS
  <2> QED BY <2>1
<1>2. PICK x \in T : \A y \in T : x <= y
  <2> HIDE DEF T
  <2> QED BY <1>1, LeastMember
<1>3. PICK m \in S : x = k - m
  BY <1>2
<1>4. \A i \in S : m >= i
  <2> SUFFICES ASSUME NEW i \in S PROVE m >= i
    OBVIOUS
  <2>1. k - m <= k - i
    BY <1>2, <1>3
  <2> QED BY <2>1
<1>5. \E y \in S : \A z \in S : y >= z
  BY <1>4
<1>6. Max(S) \in S /\ \A z \in S : Max(S) >= z
  BY <1>5 DEF Max
<1> QED
  BY <1>6

----------------------------------------------------------------------------
(* Amounts.                                                                 *)

\* One step of the sum over groups of digits.
GroupSum(w, f, s) ==
    IF s = {} THEN 0
    ELSE w.lens[CHOOSE x \in s : TRUE] + f[s \ {CHOOSE x \in s : TRUE}]

\* After the last separator there is the last group.
LEMMA LastGroup ==
  ASSUME NEW w, w.lens \in Seq(Nat), NEW n \in Nat, Len(w.lens) = n + 1
  PROVE  Digits(w, n) = w.lens[n + 1]
<1> DEFINE k == n + 1
           L == w.lens[k]
<1>1. {i \in DOMAIN w.lens : i > n} = {k} /\ L \in Nat
  OBVIOUS
<1>2. Digits(w, n) = (CHOOSE f : f = [s \in SUBSET {k} |-> GroupSum(w, f, s)])[{k}]
  BY <1>1 DEF Digits, FoldSet, MapThenFoldSet, GroupSum
<1>3. \A s \in SUBSET {k} : s = {} \/ s = {k}
  OBVIOUS
<1>4. \A x \in {k} : x = k
  OBVIOUS
<1>5. (CHOOSE x \in {k} : TRUE) = k /\ {k} \ {k} = {} /\ {k} # {} /\ {} \in SUBSET {k} /\ {k} \in SUBSET {k}
  OBVIOUS
<1>6. L = w.lens[k] /\ L \in Nat /\ L + 0 = L
  BY <1>1
<1> HIDE DEF k, L
<1> DEFINE g == [s \in SUBSET {k} |-> IF s = {} THEN 0 ELSE L]
<1>7. g = [s \in SUBSET {k} |-> GroupSum(w, g, s)]
  <2>1. g[{}] = 0 /\ g[{k}] = L
    BY <1>5
  <2>2. g = [s \in SUBSET {k} |-> g[s]]
    OBVIOUS
  <2> HIDE DEF g
  <2>3. GroupSum(w, g, {}) = 0
    BY DEF GroupSum
  <2>4. GroupSum(w, g, {k}) = L
    BY <1>5, <1>6, <2>1 DEF GroupSum
  <2>5. \A s \in SUBSET {k} : g[s] = GroupSum(w, g, s)
    BY <1>3, <2>1, <2>3, <2>4
  <2> QED BY <2>2, <2>5
<1> DEFINE f == CHOOSE h : h = [s \in SUBSET {k} |-> GroupSum(w, h, s)]
<1>8. f = [s \in SUBSET {k} |-> GroupSum(w, f, s)]
  <2> HIDE DEF g
  <2> QED BY <1>7
<1>9. f[{k}] = L
  <2> HIDE DEF f
  <2>1. f[{k}] = GroupSum(w, f, {k}) /\ f[{}] = GroupSum(w, f, {})
    BY <1>5, <1>8
  <2>2. f[{}] = 0
    BY <2>1 DEF GroupSum
  <2> QED BY <1>5, <1>6, <2>1, <2>2 DEF GroupSum
<1> QED
  BY <1>2, <1>6, <1>9 DEF k

Written(w) ==
    /\ w.lens \in Seq(Nat) /\ w.seps \in Seq(Range(w.seps))
    /\ Len(w.lens) = Len(w.seps) + 1

\* A number of decimals is read, and where one alone may be meant it is that one.
LEMMA ReadAsMeant ==
  ASSUME NEW w, Written(w), NEW d, Means(w, d)
  PROVE  /\ decimals_read(w) \in Nat
         /\ ~(w.seps = <<".">> /\ Last(w.lens) = 3) => decimals_read(w) = d
<1> DEFINE k == Len(w.seps)
           commas == At(w, ",")
           dots == At(w, ".")
<1>1. k \in Nat /\ DOMAIN w.seps = 1..k /\ DOMAIN w.lens = 1..(k+1) /\ w.lens[k+1] \in Nat
      /\ \A i \in 1..k+1 : w.lens[i] \in Nat
  BY DEF Written
<1>2. \A m : At(w, m) = {i \in 1..k : w.seps[i] = m}
  BY <1>1 DEF At
<1>3. Digits(w, k) = w.lens[k+1]
  BY <1>1, LastGroup DEF Written
<1>4. \/ d = 0 /\ Grouped(w, k)
      \/ /\ k > 0 /\ d = w.lens[k+1] /\ Grouped(w, k-1)
         /\ w.seps[k] \in {",", "."} /\ \A i \in 1..k-1 : w.seps[i] # w.seps[k]
         /\ w.seps[k] = "," => d = 2 \/ w.seps[1] = "."
  BY DEF Means
<1>5. decimals_read(w) =
         IF commas # {} /\ dots # {}
         THEN IF Max(commas) > Max(dots)
              THEN IF Cardinality(commas) > 1 THEN NotANumber ELSE Digits(w, Max(commas))
              ELSE IF Cardinality(dots) > 1 THEN NotANumber ELSE Digits(w, Max(dots))
         ELSE IF commas # {}
         THEN IF Cardinality(commas) = 1 /\ Digits(w, Max(commas)) = 2 THEN 2 ELSE 0
         ELSE IF Cardinality(dots) = 1 THEN Digits(w, Max(dots)) ELSE 0
  BY Zenon DEF decimals_read
<1>6. Last(w.lens) = w.lens[k+1]
  BY <1>1 DEF Written, Last
<1>7. k = 1 /\ w.seps[1] = "." => w.seps = <<".">>
  BY <1>1 DEF Written
<1>8. /\ k \in Nat /\ \A i \in 1..k : i # k => i \in 1..k-1
      /\ k # 0 => 1 \in 1..k /\ k \in 1..k
      /\ k = 1 => 1..k = {k}
      /\ k > 0 => k # 0
  <2> SUFFICES ASSUME NEW n \in Nat
               PROVE  /\ \A i \in 1..n : i # n => i \in 1..n-1
                      /\ n # 0 => 1 \in 1..n /\ n \in 1..n
                      /\ n = 1 => 1..n = {n}
                      /\ n > 0 => n # 0
    BY <1>1
  <2> QED OBVIOUS
<1> HIDE DEF k, commas, dots
<1>9. \A S \in SUBSET (1..k) : IsFiniteSet(S) /\ Cardinality(S) \in Nat
  <2>1. IsFiniteSet(1..k)
    BY <1>1, FS_Interval
  <2>2. \A S \in SUBSET (1..k) : IsFiniteSet(S)
    BY <2>1, FS_Subset
  <2> QED BY <2>2, FS_CardinalityType
<1>10. /\ commas = {i \in 1..k : w.seps[i] = ","} /\ dots = {i \in 1..k : w.seps[i] = "."}
      /\ Cardinality(commas) \in Nat /\ Cardinality(dots) \in Nat
  BY <1>1, <1>2, <1>9 DEF commas, dots
<1>11. Max({k}) = k /\ Cardinality({k}) = 1
  <2>1. (CHOOSE y \in {k} : \A z \in {k} : y >= z) = k
    BY <1>1
  <2> QED BY <2>1, FS_Singleton DEF Max
\* The last of a set of marks.
<1>12. \A S \in SUBSET (1..k) : S # {} => Max(S) \in S /\ \A i \in S : i <= Max(S)
  <2>1. SUBSET (1..k) \subseteq SUBSET (0..k)
    OBVIOUS
  <2> QED BY <1>1, <2>1, Greatest
<1>13. Cardinality({}) = 0 /\ Cardinality(1..k) = k
  <2>1. Cardinality({}) = 0
    BY FS_EmptySet
  <2>2. Cardinality(1..k) = k
    <3>1. Cardinality(1..k) = IF 1 > k THEN 0 ELSE k - 1 + 1
      BY <1>8, FS_Interval
    <3> QED BY <1>8, <3>1
  <2> QED BY <2>1, <2>2
\* What is read, by the marks there are.
<1>14. commas = {} /\ dots = {} => decimals_read(w) = 0
  BY <1>13, <1>5
<1>15. commas = {k} /\ (dots = {} => w.lens[k+1] = 2) /\ k \notin dots => decimals_read(w) = w.lens[k+1]
  <2> SUFFICES ASSUME commas = {k}, dots = {} => w.lens[k+1] = 2, k \notin dots
               PROVE  decimals_read(w) = w.lens[k+1]
    OBVIOUS
  <2>1. CASE dots = {}
    BY <1>3, <1>11, <2>1, <1>5
  <2>2. CASE dots # {}
    <3>1. Max(dots) \in 1..k /\ Max(dots) # k
      BY <1>1, <1>10, <1>12, <2>2
    <3>2. Max(commas) > Max(dots)
      BY <1>1, <1>11, <3>1
    <3> QED BY <1>3, <1>11, <2>2, <3>2, <1>5
  <2> QED BY <2>1, <2>2
<1>16. dots = {k} /\ k \notin commas => decimals_read(w) = w.lens[k+1]
  <2> SUFFICES ASSUME dots = {k}, k \notin commas PROVE decimals_read(w) = w.lens[k+1]
    OBVIOUS
  <2>1. CASE commas = {}
    BY <1>3, <1>11, <2>1, <1>5
  <2>2. CASE commas # {}
    <3>1. Max(commas) \in 1..k /\ Max(commas) # k
      BY <1>1, <1>10, <1>12, <2>2
    <3>2. ~(Max(commas) > Max(dots))
      BY <1>1, <1>11, <3>1
    <3> QED BY <1>3, <1>11, <2>2, <3>2, <1>5
  <2> QED BY <2>1, <2>2
<1>17. commas = 1..k /\ dots = {} /\ k # 0 /\ (k = 1 => w.lens[2] # 2) => decimals_read(w) = 0
  <2> SUFFICES ASSUME commas = 1..k, dots = {}, k # 0, k = 1 => w.lens[2] # 2 PROVE decimals_read(w) = 0
    OBVIOUS
  <2>1. CASE k = 1
    <3>1. commas = {k}
      BY <1>1, <2>1
    <3> QED BY <1>3, <1>11, <2>1, <3>1, <1>5
  <2>2. CASE k # 1
    <3>1. commas # {}
      BY <1>1
    <3> QED BY <1>13, <2>2, <3>1, <1>5
  <2> QED BY <2>1, <2>2
<1>18. dots = 1..k /\ commas = {} /\ k > 1 => decimals_read(w) = 0
  BY <1>13, <1>5
\* All marks set off groups.
<1>19. CASE d = 0 /\ Grouped(w, k)
  <2>1. \A i \in 1..k : w.seps[i] = w.seps[1] /\ w.lens[i+1] = 3
    BY <1>1, <1>19 DEF Grouped
  <2>2. CASE k = 0 \/ w.seps[1] \notin {",", "."}
    <3>1. commas = {} /\ dots = {}
      <4>1. \A i \in 1..k : w.seps[i] \notin {",", "."}
        <5>1. CASE k = 0
          <6>1. 1..k = {}
            BY <5>1
          <6> QED BY <6>1
        <5>2. CASE w.seps[1] \notin {",", "."}
          BY <2>1, <5>2
        <5> QED BY <2>2, <5>1, <5>2
      <4> QED BY <1>10, <4>1
    <3> QED BY <1>14, <1>19, <3>1
  <2>3. CASE k # 0 /\ w.seps[1] = ","
    <3>1. commas = 1..k /\ dots = {}
      BY <1>10, <2>1, <2>3
    <3>2. k = 1 => w.lens[2] # 2
      <4>1. k = 1 => w.lens[1+1] = 3
        BY <1>8, <2>1
      <4> QED BY <4>1
    <3>3. decimals_read(w) = 0
      BY <1>17, <2>3, <3>1, <3>2
    <3> QED BY <1>19, <3>3
  <2>4. CASE k # 0 /\ w.seps[1] = "."
    <3>1. dots = 1..k /\ commas = {}
      BY <1>10, <2>1, <2>4
    <3>2. CASE k = 1
      <4>1. dots = {k} /\ k \notin commas /\ w.lens[k+1] = 3
        BY <1>8, <2>1, <3>1, <3>2
      <4>2. w.seps = <<".">>
        BY <1>7, <2>4, <3>2
      <4> QED BY <1>1, <1>16, <1>6, <4>1, <4>2
    <3>3. CASE k # 1
      BY <1>1, <1>18, <1>19, <2>4, <3>1, <3>3
    <3> QED BY <3>2, <3>3
  <2> QED BY <2>2, <2>3, <2>4
\* The last one sets off decimals.
<1>20. CASE /\ k > 0 /\ d = w.lens[k+1] /\ Grouped(w, k-1)
            /\ w.seps[k] \in {",", "."} /\ \A i \in 1..k-1 : w.seps[i] # w.seps[k]
            /\ w.seps[k] = "," => d = 2 \/ w.seps[1] = "."
  <2>1. k \in 1..k /\ 1 \in 1..k /\ \A i \in 1..k : i # k => w.seps[i] # w.seps[k]
    <3>1. k # 0
      BY <1>8, <1>20
    <3> QED BY <1>20, <1>8, <3>1
  <2>2. CASE w.seps[k] = ","
    <3>1. commas = {k} /\ k \notin dots
      BY <1>10, <2>1, <2>2
    <3>2. dots = {} => w.lens[k+1] = 2
      BY <1>10, <1>20, <2>1, <2>2
    <3> QED BY <1>1, <1>15, <1>20, <3>1, <3>2
  <2>3. CASE w.seps[k] = "."
    <3>1. dots = {k} /\ k \notin commas
      BY <1>10, <2>1, <2>3
    <3> QED BY <1>1, <1>16, <1>20, <3>1
  <2> QED BY <1>20, <2>2, <2>3
<1> QED
  BY <1>19, <1>20, <1>4

----------------------------------------------------------------------------
(* Reconciliation.                                                          *)

\* One thing is found in one way or it is not found.
LEMMA OneOnly ==
  ASSUME NEW e \in Exports, NEW k \in DOMAIN without_duplicates(e)
  PROVE  \E i \in DOMAIN e : /\ e[i].key = k /\ without_duplicates(e)[k] = e[i].terms
                             /\ \A j \in DOMAIN e : e[j].key = k => j = i
<1> DEFINE S == {i \in DOMAIN e : e[i].key = k}
<1>1. Len(e) \in Nat /\ DOMAIN e = 1..Len(e)
  <2>1. e \in Seq(Range(e))
    BY ReconcileAssumption
  <2> QED BY <2>1
<1>2. IsFiniteSet(S)
  <2>1. IsFiniteSet(1..Len(e)) /\ S \subseteq 1..Len(e)
    BY <1>1, FS_Interval
  <2> QED BY <2>1, FS_Subset
<1>3. Cardinality(S) = 1 /\ without_duplicates(e)[k] = e[CHOOSE i \in S : TRUE].terms
  BY Zenon DEF without_duplicates
<1> HIDE DEF S
<1>4. PICK i : S = {i}
  BY <1>2, <1>3, FS_Singleton
<1>5. (CHOOSE j \in S : TRUE) = i
  BY <1>4
<1> QED
  BY <1>3, <1>4, <1>5 DEF S

\* The terms of one document that are read, the terms of its agreement that are held.
LEMMA OursAreRead ==
  ASSUME NEW p \in Portfolios, NEW d \in DOMAIN p, NEW f \in DOMAIN p[d].fields
  PROVE  p[d].fields[f].value \in Read_values
BY DEF Read_values

LEMMA TheirsAreHeld ==
  ASSUME NEW e \in Exports, NEW i \in DOMAIN e, NEW f \in DOMAIN e[i].terms
  PROVE  e[i].terms[f] \in Held_values
<1>1. e[i].terms[f] \in Range(e[i].terms)
  BY DEF Range
<1> QED BY <1>1 DEF Held_values

\* What is read of a legible amount, and whether it is what is meant.
LEMMA LegiblyRead ==
  ASSUME NEW T, Legible(T), NEW t \in T, t.type = "amount"
  PROVE  /\ Written(t.written) /\ decimals_read(t.written) # NotANumber
         /\ ~Doubtful(t) => AsRead(t.written) = AsMeant(t.written)
<1>1. t \in Amounts_of(T)
  BY DEF Amounts_of
<1>2. Written(t.written) /\ Means(t.written, t.written.meant)
  BY <1>1 DEF Legible, Written
<1>3. /\ decimals_read(t.written) \in Nat
      /\ ~(t.written.seps = <<".">> /\ Last(t.written.lens) = 3)
           => decimals_read(t.written) = t.written.meant
  BY <1>2, ReadAsMeant
<1>4. decimals_read(t.written) # NotANumber
  BY <1>3 DEF NotANumber
<1>5. ~Doubtful(t) => decimals_read(t.written) = t.written.meant
  BY <1>3 DEF Doubtful
<1> QED
  BY <1>2, <1>4, <1>5 DEF AsRead, AsMeant

\* What is written with commas and a point is read as it is meant from its first number.
LEMMA FirstIsMeant ==
  ASSUME NEW w, Written(w), WithCommas(w)
  PROVE  first_number(w) = AsMeant(w)
<1> DEFINE k == Len(w.seps)
           dots == At(w, ".")
           ends == {i \in DOMAIN w.seps : \/ w.seps[i] \notin {",", "."}
                                          \/ w.seps[i] = "." /\ i # Min(dots)}
<1>1. k \in Nat /\ DOMAIN w.seps = 1..k
  BY DEF Written
<1>2. /\ \A i \in 1..k : w.seps[i] = "," \/ (i = k /\ w.seps[i] = ".")
      /\ w.meant = IF k > 0 /\ w.seps[k] = "." THEN w.lens[k+1] ELSE 0
  BY DEF WithCommas
<1>3. Digits(w, k) = w.lens[k+1]
  BY <1>1, LastGroup DEF Written
<1>4. \A i : i \in dots <=> i \in 1..k /\ w.seps[i] = "."
  BY <1>1 DEF At
<1>5. k > 0 <=> k \in 1..k
  BY <1>1
<1>6. Min({k}) = k /\ Max({k}) = k
  <2>1. (CHOOSE y \in {k} : \A z \in {k} : y <= z) = k /\ (CHOOSE y \in {k} : \A z \in {k} : y >= z) = k
    BY <1>1
  <2> QED BY <2>1 DEF Min, Max
<1> HIDE DEF k, dots
<1>7. dots = IF k > 0 /\ w.seps[k] = "." THEN {k} ELSE {}
  BY <1>2, <1>4, <1>5
<1>8. ends = {}
  <2> SUFFICES ASSUME NEW i \in 1..k, w.seps[i] \notin {",", "."} \/ (w.seps[i] = "." /\ i # Min(dots))
               PROVE  FALSE
    BY <1>1
  <2>1. i = k /\ w.seps[k] = "." /\ i \in dots
    BY <1>2, <1>4
  <2> QED BY <1>5, <1>6, <1>7, <2>1
<1>9. first_number(w) = <<w.digits, IF dots = {} THEN 0 ELSE Digits(w, Max(dots))>>
  BY <1>8, Zenon DEF first_number, dots
<1>10. (IF dots = {} THEN 0 ELSE Digits(w, Max(dots))) = w.meant
  BY <1>2, <1>3, <1>6, <1>7
<1> QED
  BY <1>9, <1>10 DEF AsMeant

\* The amounts of a clause are legible.
LEMMA LegibleClauses ==
  ASSUME NEW c \in Clauses
  PROVE  Legible(States[c])
<1>1. Legible(Extracted_values \cup States[c])
  BY CheckAssumption
<1>2. Amounts_of(States[c]) \subseteq Amounts_of(Extracted_values \cup States[c])
  BY DEF Amounts_of
<1> QED BY <1>1, <1>2 DEF Legible

\* What is found in a text: the numbers of its amounts and of its dates.
LEMMA NumbersIn ==
  ASSUME NEW c, NEW n
  PROVE  n \in numbers_in(States[c]) <=>
           \/ \E t \in OfType(c, {"amount"}) : decimals_read(t.written) # NotANumber /\ n = AsRead(t.written)
           \/ \E t \in OfType(c, {"date"}) : \E m \in t.written.shows : n = <<m, 0>>
<1> DEFINE A == {u \in Amounts_of(States[c]) : decimals_read(u.written) # NotANumber}
           D == {u \in States[c] : u.type = "date"}
           dated == {{<<m, 0>> : m \in t.written.shows} : t \in D}
<1>1. numbers_in(States[c]) = {AsRead(t.written) : t \in A} \cup UNION dated
  BY Zenon DEF numbers_in
<1>2. \A t : t \in A <=> t \in OfType(c, {"amount"}) /\ decimals_read(t.written) # NotANumber
  BY DEF OfType, Amounts_of
<1>3. \A t : t \in D <=> t \in OfType(c, {"date"})
  BY DEF OfType
<1>4. n \in UNION dated <=> \E t \in D : n \in {<<m, 0>> : m \in t.written.shows}
  <2> HIDE DEF D
  <2> QED OBVIOUS
<1>5. n \in {AsRead(t.written) : t \in A} <=> \E t \in A : n = AsRead(t.written)
  <2> HIDE DEF A
  <2> QED OBVIOUS
<1>6. \A t : n \in {<<m, 0>> : m \in t.written.shows} <=> \E m \in t.written.shows : n = <<m, 0>>
  OBVIOUS
<1> HIDE DEF A, D, dated
<1> QED
  BY <1>1, <1>2, <1>3, <1>4, <1>5, <1>6

LEMMA CompetingNumbers ==
  ASSUME NEW v, v.type = "amount", NEW c
  PROVE  competing(v, c) = IF parses(v.written) /\ \A n \in numbers_in(States[c]) : ~Equal(n, AsRead(v.written))
                           THEN numbers_in(States[c]) ELSE {}
BY Zenon DEF competing, competing_numbers

\* What contradicts a value competes with it, and does not spell it.
LEMMA WhatContradicts ==
  ASSUME NEW T, Legible(T), NEW v \in T, NEW c, Legible(States[c]), Contradicts(c, v)
  PROVE  v \notin Spells[c] /\ competing(v, c) # {}
<1>1. ~Stated(v, c) /\ v \notin Spells[c]
  BY DEF Contradicts
<1>2. CASE v.type = "amount"
  <2>1. /\ OfType(c, {"amount"}) # {} /\ AllNumeral(v.written) /\ ~InDoubt(v, c)
        /\ \A t \in OfType(c, {"date"}) : \A n \in t.written.shows : ~Equal(<<n, 0>>, AsMeant(v.written))
    BY <1>2 DEF Contradicts
  <2>2. ~Doubtful(v) /\ \A t \in OfType(c, {"amount"}) : ~Doubtful(t)
    BY <1>2, <2>1 DEF InDoubt
  <2>3. parses(v.written) /\ AsRead(v.written) = AsMeant(v.written)
    BY <1>2, <2>1, <2>2, LegiblyRead DEF parses
  <2>4. ASSUME NEW t \in OfType(c, {"amount"})
        PROVE  /\ decimals_read(t.written) # NotANumber /\ AsRead(t.written) = AsMeant(t.written)
               /\ ~Equal(AsRead(t.written), AsRead(v.written))
    <3>1. t \in States[c] /\ t.type = "amount"
      BY DEF OfType
    <3>2. decimals_read(t.written) # NotANumber /\ AsRead(t.written) = AsMeant(t.written)
      BY <2>2, <3>1, LegiblyRead
    <3>3. ~SameAmount(t, v)
      BY <1>1, <1>2 DEF Stated
    <3> QED BY <2>3, <3>2, <3>3 DEF SameAmount
  <2>5. ASSUME NEW n \in numbers_in(States[c]) PROVE ~Equal(n, AsRead(v.written))
    <3>1. CASE \E t \in OfType(c, {"amount"}) : n = AsRead(t.written)
      BY <2>4, <3>1
    <3>2. CASE \E t \in OfType(c, {"date"}) : \E m \in t.written.shows : n = <<m, 0>>
      BY <2>1, <2>3, <3>2
    <3> QED BY <3>1, <3>2, NumbersIn
  <2>6. numbers_in(States[c]) # {}
    <3>1. PICK t \in OfType(c, {"amount"}) : TRUE
      BY <2>1
    <3>2. AsRead(t.written) \in numbers_in(States[c])
      BY <2>4, <3>1, NumbersIn
    <3> QED BY <3>2
  <2> QED BY <1>1, <1>2, <2>3, <2>5, <2>6, CompetingNumbers
<1>3. CASE v.type = "date"
  <2>1. OfType(c, {"date"}) # {} /\ \A t \in OfType(c, {"date"}) : ~(t.id \cap v.id # {})
    BY <1>1, <1>3 DEF Contradicts, Stated
  <2>2. competing(v, c) = IF \E t \in OfType(c, {"date"}) : t.id \cap v.id # {}
                          THEN {} ELSE OfType(c, {"date"})
    BY <1>3, Zenon DEF competing, competing_dates
  <2> QED BY <1>1, <2>1, <2>2
<1>4. CASE v.type = "name"
  <2>1. PICK t \in OfType(c, {"name"}) : <<t.id, v.id>> \in Alike
    BY <1>4 DEF Contradicts
  <2>2. \A u \in OfType(c, {"name"}) : u.id # v.id
    BY <1>1, <1>4 DEF Stated
  <2>3. competing(v, c) = IF \E u \in OfType(c, {"name"}) : u.id = v.id
                          THEN {} ELSE {u \in OfType(c, {"name"}) : <<u.id, v.id>> \in Alike}
    BY <1>4, Zenon DEF competing, competing_names
  <2> QED BY <1>1, <2>1, <2>2, <2>3
<1> QED
  BY <1>2, <1>3, <1>4 DEF Contradicts

\* A clause that is silent, or states the value, does not compete with it.
LEMMA NothingCompetes ==
  ASSUME NEW T, Legible(T), NEW v \in T, NEW c, Legible(States[c]),
         Silent(v, c) \/ (Stated(v, c) /\ ~InDoubt(v, c))
  PROVE  competing(v, c) = {}
<1>1. CASE v.type = "amount"
  <2>1. CASE Silent(v, c)
    <3>1. OfType(c, {"amount", "date"}) = {}
      <4>1. {v.type} \cup (IF v.type = "amount" THEN {"date"} ELSE {}) = {"amount", "date"}
        BY <1>1
      <4> QED BY <2>1, <4>1 DEF Silent
    <3>2. OfType(c, {"amount"}) = {} /\ OfType(c, {"date"}) = {}
      BY <3>1 DEF OfType
    <3>3. \A n : n \notin numbers_in(States[c])
      BY <3>2, NumbersIn
    <3>4. numbers_in(States[c]) = {}
      BY <3>3
    <3> QED BY <1>1, <3>4, CompetingNumbers
  <2>2. CASE Stated(v, c) /\ ~InDoubt(v, c)
    <3>1. PICK t \in OfType(c, {"amount"}) : SameAmount(t, v)
      BY <1>1, <2>2 DEF Stated
    <3>2. ~Doubtful(v) /\ ~Doubtful(t)
      BY <1>1, <2>2 DEF InDoubt
    <3>3. t \in States[c] /\ t.type = "amount"
      BY DEF OfType
    <3>4. decimals_read(t.written) # NotANumber /\ AsRead(t.written) = AsMeant(t.written)
      BY <3>2, <3>3, LegiblyRead
    <3>5. AsRead(v.written) = AsMeant(v.written)
      BY <1>1, <3>2, LegiblyRead
    <3>6. AsRead(t.written) \in numbers_in(States[c])
      BY <3>4, NumbersIn
    <3>7. Equal(AsRead(t.written), AsRead(v.written))
      BY <3>1, <3>4, <3>5 DEF SameAmount
    <3> QED BY <1>1, <3>6, <3>7, CompetingNumbers
  <2> QED BY <2>1, <2>2
<1>2. CASE v.type = "date"
  <2>1. competing(v, c) = IF \E t \in OfType(c, {"date"}) : t.id \cap v.id # {}
                          THEN {} ELSE OfType(c, {"date"})
    BY <1>2, Zenon DEF competing, competing_dates
  <2>2. Silent(v, c) => OfType(c, {"date"}) = {}
    BY <1>2 DEF Silent, OfType
  <2>3. Stated(v, c) => \E t \in OfType(c, {"date"}) : t.id \cap v.id # {}
    BY <1>2 DEF Stated
  <2> QED BY <2>1, <2>2, <2>3
<1>3. CASE v.type = "name"
  <2> DEFINE names == OfType(c, {"name"})
  <2>1. competing(v, c) = IF \E t \in names : t.id = v.id
                          THEN {} ELSE {t \in names : <<t.id, v.id>> \in Alike}
    BY <1>3, Zenon DEF competing, competing_names
  <2>2. Silent(v, c) => names = {}
    BY <1>3 DEF Silent, OfType
  <2>3. Stated(v, c) => \E t \in names : t.id = v.id
    BY <1>3 DEF Stated
  <2> HIDE DEF names
  <2> QED BY <2>1, <2>2, <2>3
<1>4. CASE v.type \notin {"amount", "date", "name"}
  BY <1>4 DEF competing
<1> QED
  BY <1>1, <1>2, <1>3, <1>4

\* What is clear is read as it is meant.
LEMMA ClearlyRead ==
  ASSUME NEW v \in Read_values \cup Held_values, v.type = "amount", ~Unclear(v)
  PROVE  numeric(v) = AsMeant(v.written) /\ numeric(v) # NoNumber
<1>1. /\ Written(v.written) /\ decimals_read(v.written) # NotANumber
      /\ ~Doubtful(v) => AsRead(v.written) = AsMeant(v.written)
  <2>1. Legible(Read_values \cup Held_values)
    BY ReconcileAssumption
  <2> QED BY <2>1, LegiblyRead
<1>2. numeric(v) = AsMeant(v.written)
  <2>1. CASE AllNumeral(v.written)
    BY <1>1, <2>1 DEF numeric, parses, Unclear
  <2>2. CASE ~AllNumeral(v.written)
    BY <1>1, <2>2, FirstIsMeant DEF numeric, parses, Unclear
  <2> QED BY <2>1, <2>2
<1> QED
  BY <1>2 DEF AsMeant, NoNumber

\* No apostrophe in what is clear: its words are all that qualifies it.
LEMMA QualifiedBy ==
  ASSUME NEW v, v.type = "amount", ~Unclear(v)
  PROVE  qualifier(v) = <<v.written.words, 0>>
<1>1. At(v.written, "'") = {}
  BY DEF Unclear
<1> QED BY <1>1, FS_EmptySet DEF qualifier

\* A number is read of every amount and of every date, and of nothing else.
LEMMA HasNumber ==
  ASSUME NEW v
  PROVE  numeric(v) = NoNumber <=> v.type \notin {"amount", "date"}
<1>1. AsRead(v.written) # NoNumber /\ first_number(v.written) # NoNumber
  BY DEF AsRead, first_number, NoNumber
<1>2. <<v.written.first, 0>> # NoNumber
  BY DEF NoNumber
<1> QED
  BY <1>1, <1>2 DEF numeric

\* The same term agrees, if it is clear, and if a date is written in one way.
LEMMA SameAgree ==
  ASSUME NEW v \in Read_values \cup Held_values, NEW w \in Read_values \cup Held_values,
         SameTerm(v, w), ~Unclear(v), ~Unclear(w), v.type = "date" => v.written = w.written
  PROVE  values_agree(v, w)
<1>1. CASE v.type = "amount"
  <2>1. /\ w.type = "amount" /\ SameAmount(v, w) /\ v.written.words = w.written.words
        /\ OneUnit(currency_meant(v), currency_meant(w))
    BY <1>1 DEF SameTerm
  <2>2. numeric(v) = AsMeant(v.written) /\ numeric(w) = AsMeant(w.written)
        /\ numeric(v) # NoNumber /\ numeric(w) # NoNumber
    BY <1>1, <2>1, ClearlyRead
  <2>3. qualifier(v) = qualifier(w)
    BY <1>1, <2>1, QualifiedBy
  <2>4. SameStatement(v, w)
    BY <2>1, <2>2, <2>3 DEF SameStatement, SameAmount
  <2>5. currency_of(v) \in {NoUnit, currency_meant(v)} /\ currency_of(w) \in {NoUnit, currency_meant(w)}
    BY DEF currency_of, currency_meant
  <2>6. OneUnit(currency_of(v), currency_of(w))
    BY <2>1, <2>5 DEF OneUnit
  <2> QED BY <2>4, <2>6 DEF values_agree
<1>2. CASE v.type # "amount"
  <2>1. w.type = v.type /\ v.id = w.id
    BY <1>2 DEF SameTerm
  <2>2. OneUnit(currency_of(v), currency_of(w))
    BY <1>2 DEF currency_of, OneUnit
  <2>3. CASE v.type = "date"
    <3>1. numeric(v) = <<v.written.first, 0>> /\ numeric(w) = numeric(v)
      BY <2>1, <2>3 DEF numeric
    <3>2. numeric(v) # NoNumber /\ qualifier(v) = qualifier(w)
      BY <2>1, <2>3, <3>1 DEF NoNumber, qualifier
    <3>3. Equal(numeric(v), numeric(w))
      BY <3>1 DEF Equal
    <3> QED BY <2>2, <3>1, <3>2, <3>3 DEF values_agree, SameStatement
  <2>4. CASE v.type # "date"
    <3>1. numeric(v) = NoNumber /\ numeric(w) = NoNumber
      BY <1>2, <2>1, <2>4, HasNumber
    <3> QED BY <2>1, <2>2, <3>1 DEF values_agree, SameStatement
  <2> QED BY <2>3, <2>4
<1> QED
  BY <1>1, <1>2

\* What agrees is the same term, unless one is a date, is not clear or has its currency
\* flush with it.
LEMMA AgreeSame ==
  ASSUME NEW v \in Read_values, NEW w \in Held_values, values_agree(v, w),
         v \notin {Absent, Filler}, "date" \notin {v.type, w.type},
         ~Unclear(v), ~Unclear(w), ~Flush(v), ~Flush(w)
  PROVE  SameTerm(v, w)
<1>1. CASE v.type = "amount" /\ w.type = "amount"
  <2>1. numeric(v) = AsMeant(v.written) /\ numeric(w) = AsMeant(w.written)
        /\ numeric(v) # NoNumber /\ numeric(w) # NoNumber
    BY <1>1, ClearlyRead
  <2>2. qualifier(v) = qualifier(w) /\ SameAmount(v, w)
    BY <2>1 DEF values_agree, SameStatement, SameAmount
  <2>3. v.written.words = w.written.words
    BY <1>1, <2>2, QualifiedBy
  <2>4. currency_of(v) = currency_meant(v) /\ currency_of(w) = currency_meant(w)
    BY <1>1 DEF currency_of, currency_meant, Flush
  <2>5. OneUnit(currency_meant(v), currency_meant(w))
    BY <2>4 DEF values_agree
  <2> QED BY <1>1, <2>2, <2>3, <2>5 DEF SameTerm
<1>2. CASE v.type # "amount" /\ w.type # "amount"
  <2>1. numeric(v) = NoNumber /\ numeric(w) = NoNumber
    BY <1>2, HasNumber
  <2>2. v.id = w.id
    BY <2>1 DEF values_agree, SameStatement
  <2>3. Wordy(v) /\ Wordy(w)
    BY <1>2 DEF Wordy
  <2>4. v.type = w.type
    BY <2>2, <2>3, ReconcileAssumption
  <2> QED BY <1>2, <2>2, <2>4 DEF SameTerm
<1>3. CASE (v.type = "amount") # (w.type = "amount")
  <2>1. (numeric(v) = NoNumber) # (numeric(w) = NoNumber)
    BY <1>3, HasNumber
  <2> QED BY <2>1 DEF values_agree, SameStatement
<1> QED
  BY <1>1, <1>2, <1>3

\* What the check says of a document, as the fields and whether they were normalised.
Shown_as(file, cli) ==
    [f \in DOMAIN file.fields |->
        [value |-> file.fields[f].value,
         quote |-> IF cli \/ file.fields[f].under = "quote" THEN file.fields[f].quote ELSE NoQuote]]
Found_in(file, cli) == check_extraction(Shown_as(file, cli), file.text)
Report(file, terms, cli) ==
    [f \in (DOMAIN terms \ Metadata) \cap DOMAIN file.fields |->
        [state |-> IF Found_in(file, cli)[f] # "none" THEN "unverified"
                   ELSE IF values_agree(file.fields[f].value, terms[f]) THEN "agrees"
                   ELSE "discrepancy",
         ours |-> file.fields[f].value, theirs |-> terms[f], clause |-> file.fields[f].quote]]

LEMMA ReportIsReport ==
  ASSUME NEW file, NEW terms
  PROVE  reconcile(file, terms) = Report(file, terms, normalised)
<1>1. unsupported(file) = {f \in DOMAIN file.fields : Found_in(file, normalised)[f] # "none"}
  BY Zenon DEF unsupported, Found_in, Shown_as, Seen_quote
<1> DEFINE D == (DOMAIN terms \ Metadata) \cap DOMAIN file.fields
<1>2. \A f \in D : f \in unsupported(file) <=> Found_in(file, normalised)[f] # "none"
  BY <1>1
<1>3. reconcile(file, terms) =
        [f \in D |->
            [state |-> IF f \in unsupported(file) THEN "unverified"
                       ELSE IF values_agree(file.fields[f].value, terms[f]) THEN "agrees"
                       ELSE "discrepancy",
             ours |-> file.fields[f].value, theirs |-> terms[f], clause |-> file.fields[f].quote]]
  BY Zenon DEF reconcile
<1>4. Report(file, terms, normalised) =
        [f \in D |->
            [state |-> IF Found_in(file, normalised)[f] # "none" THEN "unverified"
                       ELSE IF values_agree(file.fields[f].value, terms[f]) THEN "agrees"
                       ELSE "discrepancy",
             ours |-> file.fields[f].value, theirs |-> terms[f], clause |-> file.fields[f].quote]]
  BY Zenon DEF Report
<1> HIDE DEF D
<1> QED
  BY <1>2, <1>3, <1>4

\* A field without a finding has a value; of a document that cites and is normalised,
\* its citation is found and spells it or states nothing that competes with it.
LEMMA WithoutFinding ==
  ASSUME NEW file, NEW cli \in BOOLEAN, NEW f \in DOMAIN file.fields,
         Found_in(file, cli)[f] = "none"
  PROVE  LET v == file.fields[f].value
             q == file.fields[f].quote
         IN  /\ v \notin {Absent, Filler}
             /\ cli /\ Quoted(file.fields) # {} =>
                  /\ cited(file.text, q) /\ q.clause \in file.text
                  /\ competing(v, q.clause) = {} \/ v \in Spells[q.clause]
<1> DEFINE v == file.fields[f].value
           q == file.fields[f].quote
           seen == Shown_as(file, cli)
           found == check_field(seen[f].value, seen[f].quote, file.text)
<1>1. /\ DOMAIN seen = DOMAIN file.fields
      /\ seen[f].value = v
      /\ cli => \A g \in DOMAIN file.fields : seen[g].quote = file.fields[g].quote
  BY DEF Shown_as
<1>2. Found_in(file, cli)[f] = IF Quoted(seen) = {} /\ found = "MISSING_EVIDENCE" THEN "none" ELSE found
  BY <1>1 DEF Found_in, check_extraction
<1>3. found = "none" \/ found = "MISSING_EVIDENCE"
  <2> HIDE DEF found, seen
  <2> QED BY <1>2
<1>4. v \notin {Absent, Filler}
  <2>1. v = Absent => found = "EMPTY_VALUE"
    BY <1>1 DEF check_field
  <2>2. v = Filler => found \in {"EMPTY_VALUE", "PLACEHOLDER_VALUE"}
    BY <1>1 DEF check_field
  <2> HIDE DEF found
  <2> QED BY <1>3, <2>1, <2>2
<1>5. ASSUME cli, Quoted(file.fields) # {}
      PROVE  /\ cited(file.text, q) /\ q.clause \in file.text
             /\ competing(v, q.clause) = {} \/ v \in Spells[q.clause]
  <2>1. Quoted(seen) = Quoted(file.fields)
    <3> HIDE DEF seen
    <3> QED BY <1>1, <1>5 DEF Quoted
  <2>2. found = "none"
    <3> HIDE DEF found, seen
    <3> QED BY <1>2, <1>5, <2>1
  <2>3. found = check_field(v, q, file.text)
    BY <1>1, <1>5
  <2> HIDE DEF found, seen, q, v
  <2>4. /\ cited(file.text, q) /\ q.dressing # "unseen"
        /\ competing(v, q.clause) = {} \/ v \in Spells[q.clause]
    BY <2>2, <2>3 DEF check_field
  <2> QED BY <2>4 DEF cited, contains, In
<1> QED
  BY <1>4, <1>5

\* Each report is what reconcile makes of a document and the terms held for it, from the
\* export and the portfolio that were read; when the command ends the exceptions and the
\* exit code are what finish makes of them.
ReconcileInv ==
    /\ normalised \in BOOLEAN
    /\ export # <<>> => /\ export \in Exports /\ portfolio \in Portfolios
                        /\ system = without_duplicates(export)
    /\ export = <<>> => unread = {} /\ reports = <<>>
    /\ status # Running => unread = {}
    /\ unread \cup DOMAIN reports \subseteq DOMAIN portfolio
    /\ reports = [d \in DOMAIN reports |-> reports[d]]
    /\ \A d \in DOMAIN reports : \E terms \in stored(d) :
         reports[d] = Report(portfolio[d], terms, normalised)
    /\ status \in {0, 1} =>
         /\ reports # <<>>
         /\ exceptions = UNION {{<<d, f>> : f \in In_state(d, "discrepancy")
                                                 \cup In_state(d, "unverified")} :
                                   d \in DOMAIN reports}
         /\ status = IF \E d \in DOMAIN reports : In_state(d, "discrepancy") \cap Material # {}
                     THEN 1 ELSE 0

LEMMA ReportsStayRight == Spec => []ReconcileInv
<1>1. Init => ReconcileInv
  BY DEF Init, AssuranceInit, ReconcileInit, ReconcileInv, Running
<1>2. ReconcileInv /\ [Next]_vars => ReconcileInv'
  <2> SUFFICES ASSUME ReconcileInv, [ReconcileNext]_reconcileVars PROVE ReconcileInv'
    BY ReconcileSteps
  <2>1. ASSUME NEW table \in Exports, NEW files \in Portfolios, NEW cli \in BOOLEAN,
               load_system(table, files, cli)
        PROVE  ReconcileInv'
    <3>1. /\ unread = {} /\ reports = <<>> /\ reports' = <<>> /\ status = 3 /\ normalised' = cli
          /\ export' = table /\ portfolio' = files /\ system' = without_duplicates(table)
      BY <2>1 DEF load_system, ReconcileInv, Running
    <3>2. \/ unread' = {} /\ status' = 2
          \/ unread' = DOMAIN files /\ system' # <<>> /\ status' = 3
      BY <2>1, <3>1 DEF load_system
    <3>3. table = <<>> => without_duplicates(table) = <<>>
      BY DEF without_duplicates
    <3> QED BY <3>1, <3>2, <3>3 DEF ReconcileInv, Running
  <2>2. ASSUME NEW d \in unread, skip(d) PROVE ReconcileInv'
    <3>1. \A x : stored(x)' = stored(x)
      BY <2>2 DEF skip, stored
    <3>2. /\ normalised' = normalised /\ export' = export /\ portfolio' = portfolio /\ system' = system
          /\ reports' = reports /\ status' = status /\ unread' = unread \ {d}
      BY <2>2 DEF skip
    <3>3. status \notin {0, 1}
      BY DEF ReconcileInv, Running
    <3> QED BY <3>1, <3>2, <3>3 DEF ReconcileInv
  <2>3. ASSUME NEW d \in unread, reconcile_document(d) PROVE ReconcileInv'
    <3>1. PICK terms \in stored(d) :
             reports' = [e \in DOMAIN reports \cup {d} |->
                            IF e = d THEN reconcile(portfolio[d], terms) ELSE reports[e]]
      BY <2>3 DEF reconcile_document
    <3>2. \A x : stored(x)' = stored(x)
      BY <2>3 DEF reconcile_document, stored
    <3>3. /\ normalised' = normalised /\ export' = export /\ portfolio' = portfolio /\ system' = system
          /\ status' = status /\ unread' = unread \ {d}
      BY <2>3 DEF reconcile_document
    <3>4. reconcile(portfolio[d], terms) = Report(portfolio[d], terms, normalised)
      BY ReportIsReport
    <3>5. /\ DOMAIN reports' = DOMAIN reports \cup {d}
          /\ reports'[d] = Report(portfolio[d], terms, normalised)
          /\ \A e \in DOMAIN reports : e # d => reports'[e] = reports[e]
      BY <3>1, <3>4
    <3>6. reports' = [e \in DOMAIN reports' |-> reports'[e]]
      BY <3>1
    <3>7. status = Running /\ export # <<>> /\ d \in DOMAIN portfolio
      BY DEF ReconcileInv
    <3>8. \A e \in DOMAIN reports' : \E t \in stored(e)' :
             reports'[e] = Report(portfolio'[e], t, normalised')
      BY <3>2, <3>3, <3>5 DEF ReconcileInv
    <3> QED BY <3>3, <3>5, <3>6, <3>7, <3>8 DEF ReconcileInv, Running
  <2>4. CASE finish
    <3>1. /\ export # <<>> /\ unread = {} /\ status = Running
          /\ UNCHANGED <<export, system, portfolio, normalised, unread, reports>>
      BY <2>4 DEF finish
    <3>2. \A x : stored(x)' = stored(x)
      BY <3>1 DEF stored
    <3>3. \A x, s : In_state(x, s)' = In_state(x, s)
      BY <3>1 DEF In_state
    <3>4. status' \in {0, 1} =>
             /\ reports # <<>>
             /\ exceptions' = UNION {{<<d, f>> : f \in In_state(d, "discrepancy")
                                                     \cup In_state(d, "unverified")} :
                                       d \in DOMAIN reports}
             /\ status' = IF \E d \in DOMAIN reports : In_state(d, "discrepancy") \cap Material # {}
                         THEN 1 ELSE 0
      BY <2>4 DEF finish
    <3>5. (\A d \in DOMAIN reports : \E terms \in stored(d) :
               reports[d] = Report(portfolio[d], terms, normalised))'
      BY <3>1, <3>2 DEF ReconcileInv
    <3> QED BY <3>1, <3>3, <3>4, <3>5 DEF ReconcileInv
  <2>5. CASE UNCHANGED reconcileVars
    <3>1. UNCHANGED reconcileVars
      BY <2>5
    <3>2. /\ UNCHANGED <<export, system, portfolio, normalised, unread, reports, exceptions, status>>
      BY <3>1 DEF reconcileVars
    <3>3. \A x : stored(x)' = stored(x)
      BY <3>2 DEF stored
    <3>4. \A x, s : In_state(x, s)' = In_state(x, s)
      BY <3>2 DEF In_state
    <3> QED BY <3>2, <3>3, <3>4 DEF ReconcileInv
  <2> QED
    BY <2>1, <2>2, <2>3, <2>4, <2>5 DEF ReconcileNext
<1> QED
  BY <1>1, <1>2, PTL DEF Spec

\* What reconcile makes of a document is right.
LEMMA ReportsRight == ReconcileInv => ReconciledRightly
<1> SUFFICES ASSUME ReconcileInv PROVE ReconciledRightly
  OBVIOUS
<1>1. ASSUME NEW d \in DOMAIN reports,
             NEW i \in DOMAIN export, NEW j \in DOMAIN export,
             export[i].key.document = d, export[i].key = export[j].key, i # j,
             NEW f \in DOMAIN reports[d]
      PROVE  \E k \in DOMAIN export : /\ export[k].key.document = d /\ export[k].key # export[i].key
                                      /\ f \in DOMAIN export[k].terms
  <2>1. PICK terms \in stored(d) : reports[d] = Report(portfolio[d], terms, normalised)
    BY DEF ReconcileInv
  <2>2. f \in DOMAIN terms
    BY <2>1 DEF Report
  <2>3. PICK key \in DOMAIN system : terms = system[key] /\ key.document = d
    <3>1. \A is : [document |-> d, is |-> is].document = d
      OBVIOUS
    <3> QED BY <2>1, <3>1 DEF stored
  <2>4. export \in Exports /\ system = without_duplicates(export)
    <3>1. export # <<>>
      BY DEF ReconcileInv
    <3> QED BY <3>1 DEF ReconcileInv
  <2>5. PICK k \in DOMAIN export : /\ export[k].key = key /\ terms = export[k].terms
                                   /\ \A n \in DOMAIN export : export[n].key = key => n = k
    BY <2>3, <2>4, OneOnly
  <2>6. export[k].key # export[i].key
    BY <1>1, <2>5
  <2> QED BY <2>2, <2>3, <2>5, <2>6
<1>2. ASSUME NEW d \in DOMAIN reports, NEW f \in DOMAIN reports[d]
      PROVE  LET file == portfolio[d]
                 citing == normalised /\ Quoted(file.fields) # {}
                 r == reports[d][f]
                 unclear == Unclear(r.ours) \/ Unclear(r.theirs)
             IN  /\ r.state = "discrepancy" =>
                      /\ citing => /\ cited(file.text, r.clause)
                                   /\ ~Contradicts(r.clause.clause, r.ours)
                      /\ \/ ~SameTerm(r.ours, r.theirs) \/ unclear
                         \/ r.ours.type = "date" /\ r.ours.written # r.theirs.written
                 /\ r.state = "agrees" =>
                      \/ SameTerm(r.ours, r.theirs) \/ unclear
                      \/ Flush(r.ours) \/ Flush(r.theirs)
                      \/ "date" \in {r.ours.type, r.theirs.type}
                 /\ r.state \in {"agrees", "discrepancy", "unverified"}
  <2> DEFINE file == portfolio[d]
             r == reports[d][f]
  <2>1. PICK terms \in stored(d) : reports[d] = Report(file, terms, normalised)
    BY DEF ReconcileInv
  <2>2. f \in DOMAIN terms /\ f \in DOMAIN file.fields
    BY <2>1 DEF Report
  <2>3. /\ r.state = IF Found_in(file, normalised)[f] # "none" THEN "unverified"
                     ELSE IF values_agree(file.fields[f].value, terms[f]) THEN "agrees"
                     ELSE "discrepancy"
        /\ r.ours = file.fields[f].value /\ r.theirs = terms[f] /\ r.clause = file.fields[f].quote
    <3>1. r = [state |-> IF Found_in(file, normalised)[f] # "none" THEN "unverified"
                   ELSE IF values_agree(file.fields[f].value, terms[f]) THEN "agrees"
                   ELSE "discrepancy",
               ours |-> file.fields[f].value, theirs |-> terms[f], clause |-> file.fields[f].quote]
      BY <2>1 DEF Report
    <3> HIDE DEF r
    <3> QED BY <3>1
  <2>4. /\ export \in Exports /\ system = without_duplicates(export)
        /\ portfolio \in Portfolios /\ d \in DOMAIN portfolio /\ normalised \in BOOLEAN
    <3>1. export # <<>>
      BY DEF ReconcileInv
    <3> QED BY <3>1 DEF ReconcileInv
  <2>5. r.ours \in Read_values
    BY <2>2, <2>3, <2>4, OursAreRead
  <2>6. r.theirs \in Held_values
    <3>1. PICK key \in DOMAIN system : terms = system[key]
      BY DEF stored
    <3>2. PICK k \in DOMAIN export : terms = export[k].terms
      BY <2>4, <3>1, OneOnly
    <3> QED BY <2>2, <2>3, <2>4, <3>2, TheirsAreHeld
  <2> HIDE DEF file, r
  <2>7. ASSUME r.state # "unverified"
        PROVE  /\ r.ours \notin {Absent, Filler}
               /\ normalised /\ Quoted(file.fields) # {} =>
                    /\ cited(file.text, r.clause)
                    /\ ~Contradicts(r.clause.clause, r.ours)
    <3>1. Found_in(file, normalised)[f] = "none"
      BY <2>3, <2>7
    <3>2. /\ r.ours \notin {Absent, Filler}
          /\ normalised /\ Quoted(file.fields) # {} =>
               /\ cited(file.text, r.clause) /\ r.clause.clause \in file.text
               /\ competing(r.ours, r.clause.clause) = {} \/ r.ours \in Spells[r.clause.clause]
      BY <2>2, <2>3, <2>4, <3>1, WithoutFinding
    <3>3. ASSUME r.clause.clause \in file.text,
                 competing(r.ours, r.clause.clause) = {} \/ r.ours \in Spells[r.clause.clause]
          PROVE  ~Contradicts(r.clause.clause, r.ours)
      <4>1. r.ours \in Read_values \cup Held_values /\ Legible(Read_values \cup Held_values)
        BY <2>5, ReconcileAssumption
      <4>2. r.clause.clause \in Clauses
        BY <2>4, <3>3, ReconcileAssumption DEF file
      <4>3. Legible(States[r.clause.clause])
        BY <4>2, LegibleClauses
      <4> QED BY <3>3, <4>1, <4>3, WhatContradicts
    <3> QED BY <3>2, <3>3
  <2>8. r.state = "discrepancy" => ~values_agree(r.ours, r.theirs)
    BY <2>3
  <2>9. r.state = "agrees" => values_agree(r.ours, r.theirs)
    BY <2>3
  <2>10. r.state = "discrepancy" =>
           \/ ~SameTerm(r.ours, r.theirs) \/ Unclear(r.ours) \/ Unclear(r.theirs)
           \/ r.ours.type = "date" /\ r.ours.written # r.theirs.written
    BY <2>5, <2>6, <2>8, SameAgree
  <2>11. r.state = "agrees" =>
            \/ SameTerm(r.ours, r.theirs) \/ Unclear(r.ours) \/ Unclear(r.theirs)
            \/ Flush(r.ours) \/ Flush(r.theirs)
            \/ "date" \in {r.ours.type, r.theirs.type}
    BY <2>5, <2>6, <2>7, <2>9, AgreeSame
  <2>12. r.state \in {"agrees", "discrepancy", "unverified"}
    BY <2>3
  <2> QED BY <2>7, <2>10, <2>11, <2>12 DEF file, r
<1>3. ASSUME status \in {0, 1}
      PROVE  LET open == UNION {{<<d, f>> : f \in DOMAIN reports[d]} : d \in DOMAIN reports}
                 differing == {p \in open : reports[p[1]][p[2]].state = "discrepancy"}
             IN  /\ exceptions = {p \in open : reports[p[1]][p[2]].state # "agrees"}
                 /\ status = 1 <=> \E p \in differing : p[2] \in Material
                 /\ DOMAIN reports # {}
  <2> DEFINE open == UNION {{<<d, f>> : f \in DOMAIN reports[d]} : d \in DOMAIN reports}
             differing == {p \in open : reports[p[1]][p[2]].state = "discrepancy"}
  <2>1. \A p : p \in open <=> \E d \in DOMAIN reports : \E f \in DOMAIN reports[d] : p = <<d, f>>
    OBVIOUS
  <2>2. \A p : p \in exceptions <=>
          \E d \in DOMAIN reports : \E f \in In_state(d, "discrepancy") \cup In_state(d, "unverified") :
            p = <<d, f>>
    BY <1>3 DEF ReconcileInv
  <2>3. \A d \in DOMAIN reports : \A f \in DOMAIN reports[d] :
          reports[d][f].state \in {"agrees", "discrepancy", "unverified"}
    BY <1>2
  <2>4. \A d, f : <<d, f>>[1] = d /\ <<d, f>>[2] = f
    OBVIOUS
  <2>5. exceptions = {p \in open : reports[p[1]][p[2]].state # "agrees"}
    <3> HIDE DEF open
    <3>1. \A d \in DOMAIN reports : \A f :
            f \in In_state(d, "discrepancy") \cup In_state(d, "unverified") <=>
              f \in DOMAIN reports[d] /\ reports[d][f].state # "agrees"
      BY <2>3 DEF In_state
    <3>2. \A p : p \in exceptions <=> p \in open /\ reports[p[1]][p[2]].state # "agrees"
      BY <2>1, <2>2, <2>4, <3>1
    <3> QED BY <3>2
  <2>6. status = 1 <=> \E p \in differing : p[2] \in Material
    <3>1. status = 1 <=> \E d \in DOMAIN reports : In_state(d, "discrepancy") \cap Material # {}
      BY <1>3 DEF ReconcileInv
    <3>2. \A d \in DOMAIN reports : \A f :
            f \in In_state(d, "discrepancy") <=> f \in DOMAIN reports[d] /\ reports[d][f].state = "discrepancy"
      BY DEF In_state
    <3> HIDE DEF open
    <3>3. (\E p \in differing : p[2] \in Material) <=>
            \E d \in DOMAIN reports : \E f \in DOMAIN reports[d] :
              reports[d][f].state = "discrepancy" /\ f \in Material
      <4>1. ASSUME NEW p \in differing, p[2] \in Material
            PROVE  \E d \in DOMAIN reports : \E f \in DOMAIN reports[d] :
                     reports[d][f].state = "discrepancy" /\ f \in Material
        <5>1. PICK d \in DOMAIN reports : \E f \in DOMAIN reports[d] : p = <<d, f>>
          BY <2>1
        <5>2. PICK f \in DOMAIN reports[d] : p = <<d, f>>
          BY <5>1
        <5> QED BY <2>4, <4>1, <5>2
      <4>2. ASSUME NEW d \in DOMAIN reports, NEW f \in DOMAIN reports[d],
                   reports[d][f].state = "discrepancy", f \in Material
            PROVE  \E p \in differing : p[2] \in Material
        <5>1. <<d, f>> \in open
          BY <2>1
        <5>2. <<d, f>> \in differing
          BY <2>4, <4>2, <5>1
        <5> QED BY <2>4, <4>2, <5>2
      <4> QED BY <4>1, <4>2
    <3> QED BY <3>1, <3>2, <3>3
  <2>7. DOMAIN reports # {}
    <3>1. reports = [d \in DOMAIN reports |-> reports[d]] /\ reports # <<>>
      BY <1>3 DEF ReconcileInv
    <3> QED BY <3>1
  <2> QED BY <2>5, <2>6, <2>7
<1>4. \A d \in DOMAIN reports :
        LET matching == {i \in DOMAIN export : export[i].key.document = d}
        IN  \A i, j \in matching :
              export[i].key = export[j].key /\ i # j =>
                \A f \in DOMAIN reports[d] : \E k \in matching :
                    export[k].key # export[i].key /\ f \in DOMAIN export[k].terms
  BY <1>1
<1> QED
  BY <1>2, <1>3, <1>4, Zenon DEF ReconciledRightly

\* Whatever the exports, agreements and portfolios: a discrepancy of a document that
\* cites is raised on a clause that stands in it and states nothing else; what agrees is
\* the same term; a row whose key is ambiguous decides nothing; the exceptions and the
\* exit code are what the reports say.
THEOREM ReconciledAlwaysRightly == Spec => []ReconciledRightly
  BY ReportsStayRight, ReportsRight, PTL

----------------------------------------------------------------------------
(* The page and its text.                                                   *)

\* How many marks of a kind there are after one place and up to another, and the last
\* of those that open a tag.
After(p, is, tag, from, n) == {i \in Marks(p, is, tag, n) : i > from}
Count(p, is, tag, from, n) == Cardinality(After(p, is, tag, from, n))
LastOf(p, tag, n) == Max({0} \cup Marks(p, "open", tag, n))

\* Marks up to here and one more place, one more mark if there is one.
LEMMA Counted ==
  ASSUME NEW p, NEW is, NEW tag, NEW from \in Nat, NEW n \in Nat
  PROVE  /\ Count(p, is, tag, from, n) \in Nat
         /\ from >= n => Count(p, is, tag, from, n) = 0
<1> DEFINE S == After(p, is, tag, from, n)
<1>1. S = {i \in 1..n : p[i] = [is |-> is, name |-> tag] /\ i > from}
  BY DEF After, Marks
<1>2. IsFiniteSet(S)
  <2>1. IsFiniteSet(1..n) /\ S \subseteq 1..n
    BY <1>1, FS_Interval
  <2> QED BY <2>1, FS_Subset
<1>3. Cardinality(S) \in Nat
  BY <1>2, FS_CardinalityType
<1>4. from >= n => Cardinality(S) = 0
  <2>1. from >= n => S = {}
    BY <1>1
  <2> QED BY <2>1, FS_EmptySet
<1> QED
  BY <1>3, <1>4 DEF Count

LEMMA CountNext ==
  ASSUME NEW p, NEW is, NEW tag, NEW from \in Nat, NEW n \in Nat
  PROVE  Count(p, is, tag, from, n+1) =
           IF p[n+1] = [is |-> is, name |-> tag] /\ n+1 > from
           THEN Count(p, is, tag, from, n) + 1 ELSE Count(p, is, tag, from, n)
<1> DEFINE S == After(p, is, tag, from, n)
           T == After(p, is, tag, from, n+1)
<1>1. /\ S = {i \in 1..n : p[i] = [is |-> is, name |-> tag] /\ i > from}
      /\ T = {i \in 1..n+1 : p[i] = [is |-> is, name |-> tag] /\ i > from}
  BY DEF After, Marks
<1>2. /\ n+1 \notin S /\ S \subseteq 1..n
      /\ T = IF p[n+1] = [is |-> is, name |-> tag] /\ n+1 > from THEN S \cup {n+1} ELSE S
  <2>1. \A i : i \in 1..n+1 <=> i \in 1..n \/ i = n+1
    OBVIOUS
  <2>2. n+1 \notin 1..n
    OBVIOUS
  <2> HIDE DEF S, T
  <2>3. n+1 \notin S /\ S \subseteq 1..n
    BY <1>1, <2>2
  <2>4. CASE p[n+1] = [is |-> is, name |-> tag] /\ n+1 > from
    BY <1>1, <2>1, <2>4
  <2>5. CASE ~(p[n+1] = [is |-> is, name |-> tag] /\ n+1 > from)
    BY <1>1, <2>1, <2>5
  <2> QED BY <2>3, <2>4, <2>5
<1>3. IsFiniteSet(S)
  <2>1. IsFiniteSet(1..n)
    BY FS_Interval
  <2> QED BY <1>2, <2>1, FS_Subset
<1>4. Cardinality(S \cup {n+1}) = Cardinality(S) + 1
  BY <1>2, <1>3, FS_AddElement
<1> HIDE DEF S, T
<1>5. Cardinality(T) = IF p[n+1] = [is |-> is, name |-> tag] /\ n+1 > from
                       THEN Cardinality(S) + 1 ELSE Cardinality(S)
  BY <1>2, <1>4
<1> QED
  BY <1>5 DEF S, T, Count

\* The greatest of the places up to here, once there is one more.
LEMMA LastNext ==
  ASSUME NEW n \in Nat, NEW S \in SUBSET (1..n)
  PROVE  Max({0} \cup S) \in 0..n /\ Max({0} \cup (S \cup {n+1})) = n+1
<1>1. Max({0} \cup S) \in {0} \cup S
  <2>1. {0} \cup S \in SUBSET (0..n)
    OBVIOUS
  <2> QED BY <2>1, Greatest
<1> DEFINE T == {0} \cup (S \cup {n+1})
<1>2. T \in SUBSET (0..(n+1)) /\ n+1 \in T /\ n+1 \in Nat
  OBVIOUS
<1> HIDE DEF T
<1>3. Max(T) \in T /\ n+1 <= Max(T)
  BY <1>2, Greatest
<1>4. Max(T) = n+1
  <2>1. Max(T) \in 0..(n+1)
    BY <1>2, <1>3
  <2> QED BY <1>3, <2>1
<1>5. Max({0} \cup S) \in 0..n
  <2>1. {0} \cup S \subseteq 0..n
    OBVIOUS
  <2> QED BY <1>1, <2>1
<1> QED
  BY <1>4, <1>5 DEF T

\* Where the last reset and the last opening are, one place further.
LEMMA LastPlaces ==
  ASSUME NEW p, NEW n \in Nat
  PROVE  /\ LastReset(p, n) \in 0..n
         /\ LastReset(p, n+1) = IF p[n+1].is # "data" /\ p[n+1].name \in ResetTags
                                THEN n+1 ELSE LastReset(p, n)
         /\ \A tag : /\ LastOf(p, tag, n) \in 0..n
                     /\ LastOf(p, tag, n+1) = IF p[n+1] = [is |-> "open", name |-> tag]
                                              THEN n+1 ELSE LastOf(p, tag, n)
<1>1. \A i : i \in 1..n+1 <=> i \in 1..n \/ i = n+1
  OBVIOUS
<1>2. /\ LastReset(p, n) \in 0..n
      /\ LastReset(p, n+1) = IF p[n+1].is # "data" /\ p[n+1].name \in ResetTags
                             THEN n+1 ELSE LastReset(p, n)
  <2> DEFINE S == {i \in 1..n : p[i].is # "data" /\ p[i].name \in ResetTags}
             T == {i \in 1..n+1 : p[i].is # "data" /\ p[i].name \in ResetTags}
  <2>1. T = IF p[n+1].is # "data" /\ p[n+1].name \in ResetTags THEN S \cup {n+1} ELSE S
    <3>1. CASE p[n+1].is # "data" /\ p[n+1].name \in ResetTags
      BY <1>1, <3>1
    <3>2. CASE ~(p[n+1].is # "data" /\ p[n+1].name \in ResetTags)
      BY <1>1, <3>2
    <3> QED BY <3>1, <3>2
  <2>2. S \in SUBSET (1..n)
    OBVIOUS
  <2>3. LastReset(p, n) = Max({0} \cup S) /\ LastReset(p, n+1) = Max({0} \cup T)
    BY DEF LastReset
  <2> HIDE DEF S, T
  <2> QED BY <2>1, <2>2, <2>3, LastNext
<1>3. ASSUME NEW tag
      PROVE  /\ LastOf(p, tag, n) \in 0..n
             /\ LastOf(p, tag, n+1) = IF p[n+1] = [is |-> "open", name |-> tag]
                                      THEN n+1 ELSE LastOf(p, tag, n)
  <2> DEFINE S == Marks(p, "open", tag, n)
             T == Marks(p, "open", tag, n+1)
  <2>1. T = IF p[n+1] = [is |-> "open", name |-> tag] THEN S \cup {n+1} ELSE S
    <3>1. CASE p[n+1] = [is |-> "open", name |-> tag]
      BY <1>1, <3>1 DEF Marks
    <3>2. CASE p[n+1] # [is |-> "open", name |-> tag]
      BY <1>1, <3>2 DEF Marks
    <3> QED BY <3>1, <3>2
  <2>2. S \in SUBSET (1..n)
    BY DEF Marks
  <2>3. LastOf(p, tag, n) = Max({0} \cup S) /\ LastOf(p, tag, n+1) = Max({0} \cup T)
    BY DEF LastOf
  <2> HIDE DEF S, T
  <2> QED BY <2>1, <2>2, <2>3, LastNext
<1> QED
  BY <1>2, <1>3

\* What is open is a number, none before the first place.
LEMMA WithinCounted ==
  ASSUME NEW p, NEW tag, NEW from \in Nat, NEW n \in Nat
  PROVE  /\ Within_tag(p, tag, from, n) \in Int
         /\ from >= n => Within_tag(p, tag, from, n) = 0
<1> DEFINE o == Count(p, "open", tag, from, n)
           c == Count(p, "close", tag, from, n)
<1>1. Within_tag(p, tag, from, n) = o - c
  BY DEF Within_tag, Count, After
<1>2. o \in Nat /\ c \in Nat /\ (from >= n => o = 0 /\ c = 0)
  BY Counted
<1> QED
  BY <1>1, <1>2

\* What is open, one place further.
LEMMA WithinNext ==
  ASSUME NEW p, NEW tag, NEW from \in Nat, NEW n \in Nat, from <= n
  PROVE  Within_tag(p, tag, from, n+1) =
           IF p[n+1] = [is |-> "open", name |-> tag] THEN Within_tag(p, tag, from, n) + 1
           ELSE IF p[n+1] = [is |-> "close", name |-> tag] THEN Within_tag(p, tag, from, n) - 1
           ELSE Within_tag(p, tag, from, n)
<1> DEFINE o == Count(p, "open", tag, from, n)
           c == Count(p, "close", tag, from, n)
           o1 == Count(p, "open", tag, from, n+1)
           c1 == Count(p, "close", tag, from, n+1)
<1>1. Within_tag(p, tag, from, n) = o - c /\ Within_tag(p, tag, from, n+1) = o1 - c1
  BY DEF Within_tag, Count, After
<1>2. o \in Nat /\ c \in Nat /\ (from >= n => o = 0 /\ c = 0)
  BY Counted
<1>3. \A is : Count(p, is, tag, from, n+1) =
                IF p[n+1] = [is |-> is, name |-> tag] /\ n+1 > from
                THEN Count(p, is, tag, from, n) + 1 ELSE Count(p, is, tag, from, n)
  BY CountNext
<1>4. from <= n => /\ o1 = IF p[n+1] = [is |-> "open", name |-> tag] THEN o + 1 ELSE o
                   /\ c1 = IF p[n+1] = [is |-> "close", name |-> tag] THEN c + 1 ELSE c
  <2>1. from <= n => n+1 > from
    OBVIOUS
  <2> QED BY <1>3, <2>1
<1>5. ~(p[n+1] = [is |-> "open", name |-> tag] /\ p[n+1] = [is |-> "close", name |-> tag])
  <2>1. [is |-> "open", name |-> tag].is = "open" /\ [is |-> "close", name |-> tag].is = "close"
    OBVIOUS
  <2> QED BY <2>1
<1> HIDE DEF o, c, o1, c1
<1> QED
  BY <1>1, <1>2, <1>3, <1>4, <1>5

\* What the flattener counts, said of the page: how deep it is in what is hidden, which
\* table, row and cell it is at; what is shown, and in which cell.
Inside(p, tag, n) == Within_tag(p, tag, LastReset(p, n), n)
SkipAt(p, n) == Inside(p, "script", n) + Inside(p, "noscript", n)
TableAt(p, n) == Count(p, "open", "table", 0, n)
RowAt(p, n) == Count(p, "open", "tr", 0, n) - Count(p, "open", "tr", 0, LastOf(p, "table", n))
ColAt(p, n) == Count(p, "open", "td", 0, n) - Count(p, "open", "td", 0, LastOf(p, "tr", n))
InCell(p, n) == Within_tag(p, "td", 0, n) # 0
Shown(p, n) == /\ p[n].is = "data" /\ p[n].name # "blank"
               /\ \A t \in Hidden : Inside(p, t, n) = 0
Cell(p, n) == IF ~InCell(p, n) THEN <<>> ELSE <<TableAt(p, n), RowAt(p, n), ColAt(p, n)>>

Marked(t, is, name) == t.is = is /\ t.name = name

LEMMA MarksAreRecords ==
  ASSUME NEW p, WellFormed(p), NEW n \in DOMAIN p
  PROVE  /\ p[n].is \in {"open", "close", "data"}
         /\ \A is, name : p[n] = [is |-> is, name |-> name] <=> Marked(p[n], is, name)
<1> DEFINE R == [is : {"open", "close", "data"}, name : STRING]
<1>1. p \in Seq(R)
  BY DEF WellFormed
<1>2. p[n] \in R
  <2> HIDE DEF R
  <2> QED BY <1>1
<1> QED
  BY <1>2 DEF Marked

\* In a page nothing is closed that is not open.
LEMMA NothingNegative ==
  ASSUME NEW p, WellFormed(p), NEW n \in Nat, n <= Len(p)
  PROVE  /\ Inside(p, "script", n) \in Nat /\ Inside(p, "noscript", n) \in Nat
         /\ Within_tag(p, "td", 0, n) \in {0, 1}
<1>1. p \in Seq([is : {"open", "close", "data"}, name : STRING])
  BY DEF WellFormed
<1>2. DOMAIN p = 1..Len(p) /\ Len(p) \in Nat
  BY <1>1
<1>3. LastReset(p, n) \in 0..n
  BY LastPlaces
<1>4. /\ Inside(p, "script", n) \in Int /\ Inside(p, "noscript", n) \in Int
      /\ n = 0 => /\ Inside(p, "script", n) = 0 /\ Inside(p, "noscript", n) = 0
                  /\ Within_tag(p, "td", 0, n) = 0
  <2>1. LastReset(p, n) \in Nat /\ (n = 0 => LastReset(p, n) >= n)
    BY <1>3
  <2>2. \A tag : \A from \in Nat :
          Within_tag(p, tag, from, n) \in Int /\ (from >= n => Within_tag(p, tag, from, n) = 0)
    BY WithinCounted
  <2>3. 0 \in Nat /\ (n = 0 => 0 >= n)
    OBVIOUS
  <2> QED BY <2>1, <2>2, <2>3 DEF Inside
<1>5. CASE n = 0
  BY <1>4, <1>5
<1>6. CASE n # 0
  <2>1. n \in DOMAIN p
    BY <1>2, <1>6
  <2>2. \A t \in Hidden : Inside(p, t, n) >= 0
    BY <2>1 DEF WellFormed, Inside
  <2>3. Inside(p, "script", n) >= 0 /\ Inside(p, "noscript", n) >= 0
    BY <2>2 DEF Hidden
  <2>4. Within_tag(p, "td", 0, n) \in {0, 1}
    BY <2>1 DEF WellFormed
  <2> QED BY <1>4, <2>3, <2>4
<1> QED
  BY <1>5, <1>6

\* How deep it is in what is hidden, one mark further.
LEMMA SkipNext ==
  ASSUME NEW p, WellFormed(p), NEW n \in Nat, n < Len(p)
  PROVE  LET t == p[n+1]
         IN  /\ SkipAt(p, n) \in Nat
             /\ SkipAt(p, n) = 0 <=> \A h \in Hidden : Inside(p, h, n) = 0
             /\ t.is # "data" /\ t.name \in ResetTags => SkipAt(p, n+1) = 0
             /\ t.is = "open" /\ t.name \in SkipTags => SkipAt(p, n+1) = SkipAt(p, n) + 1
             /\ t.is = "close" /\ t.name \in SkipTags => SkipAt(p, n) # 0 /\ SkipAt(p, n+1) = SkipAt(p, n) - 1
             /\ t.is = "data" \/ t.name \notin SkipTags \cup ResetTags =>
                  /\ SkipAt(p, n+1) = SkipAt(p, n)
                  /\ \A h \in Hidden : Inside(p, h, n+1) = Inside(p, h, n)
<1> DEFINE t == p[n+1]
           a == Inside(p, "script", n)
           b == Inside(p, "noscript", n)
           a1 == Inside(p, "script", n+1)
           b1 == Inside(p, "noscript", n+1)
           reset == t.is # "data" /\ t.name \in ResetTags
<1>1. n+1 \in Nat /\ n+1 <= Len(p) /\ n <= Len(p) /\ n+1 \in DOMAIN p
  <2>1. p \in Seq([is : {"open", "close", "data"}, name : STRING])
    BY DEF WellFormed
  <2>2. DOMAIN p = 1..Len(p) /\ Len(p) \in Nat
    BY <2>1
  <2> QED BY <2>2
<1>2. a \in Nat /\ b \in Nat /\ a1 \in Nat /\ b1 \in Nat
  BY <1>1, NothingNegative
<1>3. SkipAt(p, n) = a + b /\ SkipAt(p, n+1) = a1 + b1
  BY DEF SkipAt
<1>4. /\ LastReset(p, n) \in Nat /\ LastReset(p, n) <= n
      /\ LastReset(p, n+1) = IF reset THEN n+1 ELSE LastReset(p, n)
  <2>1. LastReset(p, n) \in 0..n /\ LastReset(p, n+1) = IF reset THEN n+1 ELSE LastReset(p, n)
    BY LastPlaces
  <2> QED BY <2>1
<1>5. reset => a1 = 0 /\ b1 = 0
  <2>1. \A tag : Within_tag(p, tag, n+1, n+1) = 0
    <3> DEFINE m == n+1
    <3>1. m \in Nat /\ m >= m
      BY <1>1
    <3> HIDE DEF m
    <3>2. \A tag : m >= m => Within_tag(p, tag, m, m) = 0
      BY <3>1, WithinCounted
    <3> QED BY <3>1, <3>2 DEF m
  <2> QED BY <1>4, <2>1 DEF Inside
<1>6. ~reset => \A tag : Inside(p, tag, n+1) = IF Marked(t, "open", tag) THEN Inside(p, tag, n) + 1
                                               ELSE IF Marked(t, "close", tag) THEN Inside(p, tag, n) - 1
                                               ELSE Inside(p, tag, n)
  <2> SUFFICES ASSUME ~reset, NEW tag
               PROVE  Inside(p, tag, n+1) = IF Marked(t, "open", tag) THEN Inside(p, tag, n) + 1
                                            ELSE IF Marked(t, "close", tag) THEN Inside(p, tag, n) - 1
                                            ELSE Inside(p, tag, n)
    OBVIOUS
  <2>1. LastReset(p, n+1) = LastReset(p, n)
    BY <1>4
  <2>2. Within_tag(p, tag, LastReset(p, n), n+1) =
                IF t = [is |-> "open", name |-> tag] THEN Within_tag(p, tag, LastReset(p, n), n) + 1
                ELSE IF t = [is |-> "close", name |-> tag] THEN Within_tag(p, tag, LastReset(p, n), n) - 1
                ELSE Within_tag(p, tag, LastReset(p, n), n)
    <3>1. \A from \in Nat :
            from <= n =>
              Within_tag(p, tag, from, n+1) =
                IF p[n+1] = [is |-> "open", name |-> tag] THEN Within_tag(p, tag, from, n) + 1
                ELSE IF p[n+1] = [is |-> "close", name |-> tag] THEN Within_tag(p, tag, from, n) - 1
                ELSE Within_tag(p, tag, from, n)
      BY WithinNext
    <3> QED BY <1>4, <3>1
  <2>3. \A is : t = [is |-> is, name |-> tag] <=> Marked(t, is, tag)
    BY <1>1, MarksAreRecords
  <2> HIDE DEF t
  <2> QED BY <2>1, <2>2, <2>3 DEF Inside
<1>7. /\ "script" # "noscript" /\ Hidden = {"script", "noscript"} /\ SkipTags = {"script", "noscript"}
      /\ ResetTags = {"body"}
  BY DEF Hidden, SkipTags, ResetTags
<1>8. reset => t.name \notin SkipTags
  BY <1>7
<1>9. ~reset => a1 = IF Marked(t, "open", "script") THEN a + 1 ELSE IF Marked(t, "close", "script") THEN a - 1 ELSE a
  BY <1>6
<1>10. ~reset => b1 = IF Marked(t, "open", "noscript") THEN b + 1 ELSE IF Marked(t, "close", "noscript") THEN b - 1 ELSE b
  BY <1>6
<1> HIDE DEF a, b, a1, b1
<1>11. a + b \in Nat /\ (a + b = 0 <=> a = 0 /\ b = 0)
  BY <1>2
<1>12. a + b = 0 <=> \A h \in Hidden : Inside(p, h, n) = 0
  BY <1>7, <1>11 DEF a, b
<1>13. t.is = "open" /\ t.name \in SkipTags => a1 + b1 = a + b + 1
  <2> SUFFICES ASSUME t.is = "open", t.name \in SkipTags PROVE a1 + b1 = a + b + 1
    OBVIOUS
  <2>1. \/ t.name = "script" /\ a1 = a + 1 /\ b1 = b
        \/ t.name = "noscript" /\ a1 = a /\ b1 = b + 1
    BY <1>7, <1>8, <1>9, <1>10 DEF Marked
  <2> QED BY <1>2, <2>1
<1>14. t.is = "close" /\ t.name \in SkipTags => a + b # 0 /\ a1 + b1 = a + b - 1
  <2> SUFFICES ASSUME t.is = "close", t.name \in SkipTags PROVE a + b # 0 /\ a1 + b1 = a + b - 1
    OBVIOUS
  <2>1. \/ t.name = "script" /\ a1 = a - 1 /\ b1 = b
        \/ t.name = "noscript" /\ a1 = a /\ b1 = b - 1
    BY <1>7, <1>8, <1>9, <1>10 DEF Marked
  <2> QED BY <1>2, <2>1
<1>15. t.is = "data" \/ t.name \notin SkipTags \cup ResetTags =>
         a1 = a /\ b1 = b /\ \A h \in Hidden : Inside(p, h, n+1) = Inside(p, h, n)
  <2>1. t.is = "data" \/ t.name \notin SkipTags \cup ResetTags => a1 = a /\ b1 = b
    BY <1>7, <1>9, <1>10 DEF Marked
  <2> QED BY <1>7, <2>1 DEF a, b, a1, b1
<1>16. reset => a1 + b1 = 0
  BY <1>5 DEF a1, b1
<1> HIDE DEF t
<1>17. t = p[n+1]
  BY DEF t
<1>18. SkipAt(p, n) \in Nat /\ (SkipAt(p, n) = 0 <=> \A h \in Hidden : Inside(p, h, n) = 0)
  BY <1>3, <1>11, <1>12
<1>19. t.is # "data" /\ t.name \in ResetTags => SkipAt(p, n+1) = 0
  BY <1>3, <1>16
<1>20. t.is = "open" /\ t.name \in SkipTags => SkipAt(p, n+1) = SkipAt(p, n) + 1
  BY <1>3, <1>13
<1>21. t.is = "close" /\ t.name \in SkipTags => SkipAt(p, n) # 0 /\ SkipAt(p, n+1) = SkipAt(p, n) - 1
  BY <1>2, <1>3, <1>14
<1>22. t.is = "data" \/ t.name \notin SkipTags \cup ResetTags =>
         SkipAt(p, n+1) = SkipAt(p, n) /\ \A h \in Hidden : Inside(p, h, n+1) = Inside(p, h, n)
  BY <1>3, <1>15
<1> QED
  BY <1>17, <1>18, <1>19, <1>20, <1>21, <1>22, Zenon

\* Which table, row and cell it is at, one mark further.
LEMMA PlaceNext ==
  ASSUME NEW p, WellFormed(p), NEW n \in Nat, n < Len(p)
  PROVE  LET t == p[n+1]
         IN  /\ TableAt(p, n) \in Int /\ RowAt(p, n) \in Int /\ ColAt(p, n) \in Int
             /\ TableAt(p, n+1) = IF Marked(t, "open", "table") THEN TableAt(p, n) + 1 ELSE TableAt(p, n)
             /\ RowAt(p, n+1) = IF Marked(t, "open", "table") THEN 0
                                ELSE IF Marked(t, "open", "tr") THEN RowAt(p, n) + 1 ELSE RowAt(p, n)
             /\ ColAt(p, n+1) = IF Marked(t, "open", "tr") THEN 0
                                ELSE IF Marked(t, "open", "td") THEN ColAt(p, n) + 1 ELSE ColAt(p, n)
             /\ InCell(p, n+1) = IF Marked(t, "open", "td") THEN TRUE
                                 ELSE IF Marked(t, "close", "td") THEN FALSE ELSE InCell(p, n)
<1> DEFINE t == p[n+1]
           C(tag, m) == Count(p, "open", tag, 0, m)
           L(tag, m) == LastOf(p, tag, m)
<1>1. n+1 \in Nat /\ n+1 <= Len(p) /\ n <= Len(p) /\ n+1 \in DOMAIN p
  <2>1. p \in Seq([is : {"open", "close", "data"}, name : STRING])
    BY DEF WellFormed
  <2>2. DOMAIN p = 1..Len(p) /\ Len(p) \in Nat
    BY <2>1
  <2> QED BY <2>2
<1>2. \A is, tag : t = [is |-> is, name |-> tag] <=> Marked(t, is, tag)
  BY <1>1, MarksAreRecords
<1>3. n+1 > 0
  OBVIOUS
<1>4. \A tag : \A m \in Nat : C(tag, m) \in Nat
  BY Counted
<1>5. \A tag : C(tag, n+1) = IF Marked(t, "open", tag) THEN C(tag, n) + 1 ELSE C(tag, n)
  <2>1. \A tag : Count(p, "open", tag, 0, n+1) =
                   IF p[n+1] = [is |-> "open", name |-> tag] /\ n+1 > 0
                   THEN Count(p, "open", tag, 0, n) + 1 ELSE Count(p, "open", tag, 0, n)
    BY CountNext
  <2> QED BY <1>2, <1>3, <2>1
<1>6. \A tag : L(tag, n) \in Nat /\ L(tag, n+1) = IF Marked(t, "open", tag) THEN n+1 ELSE L(tag, n)
  <2>1. \A tag : /\ LastOf(p, tag, n) \in 0..n
                 /\ LastOf(p, tag, n+1) = IF p[n+1] = [is |-> "open", name |-> tag]
                                          THEN n+1 ELSE LastOf(p, tag, n)
    BY LastPlaces
  <2> HIDE DEF t
  <2>2. t = p[n+1]
    BY DEF t
  <2>3. \A tag : LastOf(p, tag, n) \in Nat
    BY <2>1
  <2>4. ASSUME NEW tag PROVE LastOf(p, tag, n+1) = IF Marked(t, "open", tag) THEN n+1 ELSE LastOf(p, tag, n)
    <3>1. CASE Marked(t, "open", tag)
      BY <1>2, <2>1, <2>2, <3>1
    <3>2. CASE ~Marked(t, "open", tag)
      BY <1>2, <2>1, <2>2, <3>2
    <3> QED BY <3>1, <3>2
  <2> QED BY <2>3, <2>4
<1>7. /\ Within_tag(p, "td", 0, n) \in {0, 1} /\ Within_tag(p, "td", 0, n+1) \in {0, 1}
  BY <1>1, NothingNegative
<1>8. Within_tag(p, "td", 0, n+1) = IF Marked(t, "open", "td") THEN Within_tag(p, "td", 0, n) + 1
                                    ELSE IF Marked(t, "close", "td") THEN Within_tag(p, "td", 0, n) - 1
                                    ELSE Within_tag(p, "td", 0, n)
  <2>1. 0 \in Nat /\ 0 <= n
    OBVIOUS
  <2>2. Within_tag(p, "td", 0, n+1) =
           IF p[n+1] = [is |-> "open", name |-> "td"] THEN Within_tag(p, "td", 0, n) + 1
           ELSE IF p[n+1] = [is |-> "close", name |-> "td"] THEN Within_tag(p, "td", 0, n) - 1
           ELSE Within_tag(p, "td", 0, n)
    BY <2>1, WithinNext, Zenon
  <2> QED BY <1>2, <2>2
<1>9. ~(Marked(t, "open", "td") /\ Marked(t, "close", "td"))
      /\ ~(Marked(t, "open", "table") /\ Marked(t, "open", "tr"))
      /\ ~(Marked(t, "open", "td") /\ Marked(t, "open", "tr"))
  BY DEF Marked
<1>10. /\ TableAt(p, n) = C("table", n) /\ TableAt(p, n+1) = C("table", n+1)
       /\ RowAt(p, n) = C("tr", n) - C("tr", L("table", n))
       /\ RowAt(p, n+1) = C("tr", n+1) - C("tr", L("table", n+1))
       /\ ColAt(p, n) = C("td", n) - C("td", L("tr", n))
       /\ ColAt(p, n+1) = C("td", n+1) - C("td", L("tr", n+1))
       /\ InCell(p, n) = (Within_tag(p, "td", 0, n) # 0)
       /\ InCell(p, n+1) = (Within_tag(p, "td", 0, n+1) # 0)
  BY DEF TableAt, RowAt, ColAt, InCell
<1> HIDE DEF C, L
<1>11. C("tr", n+1) - C("tr", n+1) = 0 /\ C("td", n+1) - C("td", n+1) = 0
  BY <1>1, <1>4
<1>12. \A tag : C(tag, n) \in Nat
  BY <1>4
<1>13. \A tag, other : C(tag, L(other, n)) \in Nat
  BY <1>4, <1>6
<1>14. InCell(p, n+1) = IF Marked(t, "open", "td") THEN TRUE
                        ELSE IF Marked(t, "close", "td") THEN FALSE ELSE InCell(p, n)
  <2> DEFINE w == Within_tag(p, "td", 0, n)
             w1 == Within_tag(p, "td", 0, n+1)
  <2> HIDE DEF t, w, w1
  <2>1. w \in {0, 1} /\ w1 \in {0, 1} /\ InCell(p, n) = (w # 0) /\ InCell(p, n+1) = (w1 # 0)
    BY <1>7, <1>10 DEF w, w1
  <2>2. w1 = IF Marked(t, "open", "td") THEN w + 1 ELSE IF Marked(t, "close", "td") THEN w - 1 ELSE w
    BY <1>8 DEF w, w1
  <2>3. CASE Marked(t, "open", "td")
    <3>1. w1 # 0
      BY <2>1, <2>2, <2>3
    <3> QED BY <2>1, <2>3, <3>1, Zenon
  <2>4. CASE ~Marked(t, "open", "td") /\ Marked(t, "close", "td")
    <3>1. w1 = 0
      BY <2>1, <2>2, <2>4
    <3> QED BY <2>1, <2>4, <3>1, Zenon
  <2>5. CASE ~Marked(t, "open", "td") /\ ~Marked(t, "close", "td")
    <3>1. w1 = w
      BY <2>2, <2>5
    <3> QED BY <2>1, <2>5, <3>1, Zenon
  <2> QED BY <2>3, <2>4, <2>5
<1>15. RowAt(p, n+1) = IF Marked(t, "open", "table") THEN 0
                       ELSE IF Marked(t, "open", "tr") THEN RowAt(p, n) + 1 ELSE RowAt(p, n)
  <2>1. CASE Marked(t, "open", "table")
    BY <1>6, <1>10, <1>11, <2>1
  <2>2. CASE ~Marked(t, "open", "table")
    <3>1. L("table", n+1) = L("table", n)
      BY <1>6, <2>2
    <3> QED BY <1>5, <1>10, <1>12, <1>13, <2>2, <3>1
  <2> QED BY <2>1, <2>2
<1>16. ColAt(p, n+1) = IF Marked(t, "open", "tr") THEN 0
                       ELSE IF Marked(t, "open", "td") THEN ColAt(p, n) + 1 ELSE ColAt(p, n)
  <2>1. CASE Marked(t, "open", "tr")
    BY <1>6, <1>10, <1>11, <2>1
  <2>2. CASE ~Marked(t, "open", "tr")
    <3>1. L("tr", n+1) = L("tr", n)
      BY <1>6, <2>2
    <3> QED BY <1>5, <1>10, <1>12, <1>13, <2>2, <3>1
  <2> QED BY <2>1, <2>2
<1>17. TableAt(p, n+1) = IF Marked(t, "open", "table") THEN TableAt(p, n) + 1 ELSE TableAt(p, n)
  BY <1>5, <1>10
<1>18. TableAt(p, n) \in Int /\ RowAt(p, n) \in Int /\ ColAt(p, n) \in Int
  BY <1>10, <1>12, <1>13
<1> QED
  BY <1>14, <1>15, <1>16, <1>17, <1>18, Zenon

\* The page as it is fed: what the flattener counts is so, and the text is what is shown,
\* each run of it with the cell it stands in.
Run_of(p, n) == [clause |-> p[n].name, at |-> Cell(p, n)]
Listed(q) == \E S : q \in Seq(S)
TextOf(p, n, q) ==
    /\ \A k \in DOMAIN q :
         q[k].clause = "break" \/ \E i \in 1..n : Shown(p, i) /\ q[k] = Run_of(p, i)
    /\ \A i \in 1..n : Shown(p, i) => \E k \in DOMAIN q : q[k] = Run_of(p, i)
    /\ Listed(q)
FlattenerAt(p, n) ==
    [skip |-> SkipAt(p, n), table |-> TableAt(p, n), row |-> RowAt(p, n), col |-> ColAt(p, n),
     in_cell |-> InCell(p, n)]
FlatInv ==
    /\ page = <<>> \/ page = NoPage => fed = 0
    /\ fed = 0 => /\ parts = <<>>
                  /\ flat = [skip |-> 0, table |-> 0, row |-> 0, col |-> 0, in_cell |-> FALSE]
    /\ page # NoPage => /\ WellFormed(page) /\ fed \in Nat /\ fed <= Len(page)
                        /\ flat = FlattenerAt(page, fed)
                        /\ TextOf(page, fed, parts)

\* The first run of a page finds nothing counted.
LEMMA AtTheStart ==
  ASSUME NEW p
  PROVE  /\ SkipAt(p, 0) = 0 /\ TableAt(p, 0) = 0 /\ RowAt(p, 0) = 0 /\ ColAt(p, 0) = 0
         /\ InCell(p, 0) = FALSE
<1>1. 0 \in Nat /\ 0 >= 0
  OBVIOUS
<1>2. LastReset(p, 0) = 0 /\ \A tag : LastOf(p, tag, 0) = 0
  <2>1. LastReset(p, 0) \in 0..0 /\ \A tag : LastOf(p, tag, 0) \in 0..0
    BY LastPlaces
  <2> QED BY <2>1
<1>3. \A tag : Count(p, "open", tag, 0, 0) = 0
  BY <1>1, Counted
<1>4. \A tag : Within_tag(p, tag, 0, 0) = 0
  BY <1>1, WithinCounted
<1> QED
  BY <1>2, <1>3, <1>4 DEF SkipAt, Inside, TableAt, RowAt, ColAt, InCell

\* One more part of a text.
GrowsBy(r, s, x) == r = Append(s, x)
LEMMA OnePartMore ==
  ASSUME NEW s, Listed(s), NEW x, NEW r, GrowsBy(r, s, x)
  PROVE  /\ Listed(r)
         /\ \A k \in DOMAIN s : k \in DOMAIN r /\ r[k] = s[k]
         /\ \A k \in DOMAIN r : r[k] = x \/ (k \in DOMAIN s /\ r[k] = s[k])
         /\ \E k \in DOMAIN r : r[k] = x
<1>1. PICK S : s \in Seq(S)
  BY DEF Listed
<1> DEFINE T == S \cup {x}
           l == Len(s)
<1>2. s \in Seq(T) /\ x \in T
  BY <1>1
<1> HIDE DEF T
<1>3. /\ r \in Seq(T) /\ l \in Nat /\ DOMAIN s = 1..l
      /\ DOMAIN r = 1..(l + 1)
  BY <1>2 DEF GrowsBy
<1>4. /\ \A k \in 1..l : r[k] = s[k]
      /\ r[l + 1] = x
  BY <1>2 DEF GrowsBy
<1> HIDE DEF l
<1>5. /\ \A k \in 1..l : k \in 1..(l + 1)
      /\ \A k \in 1..(l + 1) : k = l + 1 \/ k \in 1..l
      /\ l + 1 \in 1..(l + 1)
  BY <1>3
<1>6. Listed(r)
  BY <1>3 DEF Listed
<1> QED
  BY <1>3, <1>4, <1>5, <1>6, Zenon

LEMMA OneOrNone ==
  ASSUME NEW s, Listed(s), NEW x
  PROVE  s \o <<>> = s /\ s \o <<x>> = Append(s, x)
<1>1. PICK S : s \in Seq(S)
  BY DEF Listed
<1> DEFINE T == S \cup {x}
<1>2. s \in Seq(T) /\ x \in T
  BY <1>1
<1> HIDE DEF T
<1> QED
  BY <1>2, ConcatEmptySeq, AppendIsConcat

\* What is not shown changes nothing but for a break.
LEMMA NotShown ==
  ASSUME NEW p, NEW n \in Nat, NEW q, TextOf(p, n, q), ~Shown(p, n+1),
         NEW r, r = q \/ \E x : x.clause = "break" /\ r = Append(q, x)
  PROVE  TextOf(p, n+1, r)
<1>1. \A i : i \in 1..n+1 <=> i \in 1..n \/ i = n+1
  OBVIOUS
<1>2. CASE r = q
  BY <1>1, <1>2 DEF TextOf
<1>3. ASSUME NEW x, x.clause = "break", r = Append(q, x) PROVE TextOf(p, n+1, r)
  <2>1. /\ Listed(r)
        /\ \A k \in DOMAIN q : k \in DOMAIN r /\ r[k] = q[k]
        /\ \A k \in DOMAIN r : r[k] = x \/ (k \in DOMAIN q /\ r[k] = q[k])
    <3>1. Listed(q)
      BY DEF TextOf
    <3>2. GrowsBy(r, q, x)
      BY <1>3 DEF GrowsBy
    <3> QED BY <3>1, <3>2, OnePartMore
  <2> QED BY <1>1, <1>3, <2>1 DEF TextOf
<1> QED
  BY <1>2, <1>3

\* What is shown is one more run.
LEMMA OneMoreShown ==
  ASSUME NEW p, NEW n \in Nat, NEW q, TextOf(p, n, q), Shown(p, n+1)
  PROVE  TextOf(p, n+1, Append(q, Run_of(p, n+1)))
<1> DEFINE r == Append(q, Run_of(p, n+1))
<1>1. \A i : i \in 1..n+1 <=> i \in 1..n \/ i = n+1
  OBVIOUS
<1>2. /\ Listed(r)
      /\ \A k \in DOMAIN q : k \in DOMAIN r /\ r[k] = q[k]
      /\ \A k \in DOMAIN r : r[k] = Run_of(p, n+1) \/ (k \in DOMAIN q /\ r[k] = q[k])
      /\ \E k \in DOMAIN r : r[k] = Run_of(p, n+1)
  <2>1. Listed(q)
    BY DEF TextOf
  <2>2. GrowsBy(r, q, Run_of(p, n+1))
    BY DEF GrowsBy
  <2> HIDE DEF r
  <2> QED BY <2>1, <2>2, OnePartMore
<1> HIDE DEF r
<1>3. TextOf(p, n+1, r)
  BY <1>1, <1>2 DEF TextOf
<1> QED
  BY <1>3 DEF r

\* What a step of the parser starts from.
LEMMA FedFrom ==
  ASSUME FlatInv, NEW is, Fed(is)
  PROVE  /\ page # NoPage /\ WellFormed(page) /\ fed \in Nat /\ fed < Len(page)
         /\ page[fed+1].is = is /\ Tag = page[fed+1].name
         /\ page' = page /\ fed' = fed + 1 /\ checked' = checked
         /\ flat = FlattenerAt(page, fed) /\ TextOf(page, fed, parts)
         /\ page # <<>> /\ fed + 1 \in Nat /\ fed + 1 <= Len(page) /\ fed + 1 # 0
<1>1. /\ page # NoPage /\ fed < Len(page) /\ page[fed+1].is = is
      /\ page' = page /\ fed' = fed + 1 /\ checked' = checked
  BY DEF Fed
<1>2. /\ WellFormed(page) /\ fed \in Nat /\ fed <= Len(page)
      /\ flat = FlattenerAt(page, fed) /\ TextOf(page, fed, parts)
  BY <1>1 DEF FlatInv
<1>3. page # <<>>
  BY <1>1, <1>2
<1>4. Len(page) \in Nat
  <2>1. page \in Seq([is : {"open", "close", "data"}, name : STRING])
    BY <1>2 DEF WellFormed
  <2> QED BY <2>1
<1>5. fed + 1 \in Nat /\ fed + 1 <= Len(page) /\ fed + 1 # 0
  BY <1>1, <1>2, <1>4
<1> QED
  BY <1>1, <1>2, <1>3, <1>5 DEF Tag

\* What a step of the parser comes to.
LEMMA FedTo ==
  ASSUME FlatInv, NEW is, Fed(is),
         flat' = FlattenerAt(page, fed + 1), TextOf(page, fed + 1, parts')
  PROVE  FlatInv'
<1>1. /\ page # NoPage /\ WellFormed(page) /\ page' = page /\ fed' = fed + 1
      /\ page # <<>> /\ fed + 1 \in Nat /\ fed + 1 <= Len(page) /\ fed + 1 # 0
  BY FedFrom
<1> QED
  BY <1>1 DEF FlatInv

\* A tag breaks the text or not.
LEMMA TagBreaks ==
  ASSUME FlatInv, NEW is, Fed(is), is # "data", parts' = parts \/ parts' = parts \o Break(Tag)
  PROVE  TextOf(page, fed + 1, parts')
<1>1. /\ fed \in Nat /\ TextOf(page, fed, parts) /\ page[fed+1].is = is
  BY FedFrom
<1>2. ~Shown(page, fed+1)
  BY <1>1 DEF Shown
<1> DEFINE b == [clause |-> "break", at |-> <<>>]
<1>3. b.clause = "break" /\ Break(Tag) \in {<<>>, <<b>>}
  BY DEF Break
<1> HIDE DEF b
<1>4. Listed(parts)
  BY <1>1 DEF TextOf
<1>5. parts \o <<>> = parts /\ parts \o <<b>> = Append(parts, b)
  BY <1>4, OneOrNone
<1>6. parts' = parts \/ parts' = Append(parts, b)
  BY <1>3, <1>5
<1>7. parts' = parts \/ \E x : x.clause = "break" /\ parts' = Append(parts, x)
  BY <1>3, <1>6
<1> QED
  BY <1>1, <1>2, <1>7, NotShown

\* An opening tag counts.
LEMMA OpeningCounts ==
  ASSUME FlatInv, handle_starttag
  PROVE  flat' = FlattenerAt(page, fed + 1)
<1> DEFINE n == fed
           sk == SkipAt(page, n)
           tb == TableAt(page, n)
           rw == RowAt(page, n)
           cl == ColAt(page, n)
           ic == InCell(page, n)
           t == page[n+1]
<1>1. Fed("open")
  BY DEF handle_starttag
<1>2. /\ WellFormed(page) /\ n \in Nat /\ n < Len(page) /\ t.is = "open" /\ Tag = t.name
      /\ flat = FlattenerAt(page, n)
  BY <1>1, FedFrom
<1>3. flat = [skip |-> sk, table |-> tb, row |-> rw, col |-> cl, in_cell |-> ic]
  BY <1>2 DEF FlattenerAt
<1>4. FlattenerAt(page, n+1) =
        [skip |-> SkipAt(page, n+1), table |-> TableAt(page, n+1), row |-> RowAt(page, n+1),
         col |-> ColAt(page, n+1), in_cell |-> InCell(page, n+1)]
  BY DEF FlattenerAt
<1>5. /\ t.name \in ResetTags => SkipAt(page, n+1) = 0
      /\ t.name \in SkipTags => SkipAt(page, n+1) = sk + 1
      /\ t.name \notin SkipTags \cup ResetTags => SkipAt(page, n+1) = sk
  BY <1>2, SkipNext, Zenon
<1>6. /\ TableAt(page, n+1) = IF t.name = "table" THEN tb + 1 ELSE tb
      /\ RowAt(page, n+1) = IF t.name = "table" THEN 0 ELSE IF t.name = "tr" THEN rw + 1 ELSE rw
      /\ ColAt(page, n+1) = IF t.name = "tr" THEN 0 ELSE IF t.name = "td" THEN cl + 1 ELSE cl
      /\ InCell(page, n+1) = IF t.name = "td" THEN TRUE ELSE ic
  <2>1. /\ \A name : Marked(t, "open", name) <=> t.name = name
        /\ \A name : ~Marked(t, "close", name)
    BY <1>2 DEF Marked
  <2>2. /\ TableAt(page, n+1) = IF Marked(t, "open", "table") THEN tb + 1 ELSE tb
        /\ RowAt(page, n+1) = IF Marked(t, "open", "table") THEN 0
                              ELSE IF Marked(t, "open", "tr") THEN rw + 1 ELSE rw
        /\ ColAt(page, n+1) = IF Marked(t, "open", "tr") THEN 0
                              ELSE IF Marked(t, "open", "td") THEN cl + 1 ELSE cl
        /\ InCell(page, n+1) = IF Marked(t, "open", "td") THEN TRUE
                               ELSE IF Marked(t, "close", "td") THEN FALSE ELSE ic
    BY <1>2, PlaceNext, Zenon
  <2> HIDE DEF t, tb, rw, cl, ic
  <2> QED BY <2>1, <2>2
<1>7. LET f == IF Tag \in ResetTags THEN [flat EXCEPT !.skip = 0] ELSE flat
      IN  IF Tag \in SkipTags
          THEN flat' = [f EXCEPT !.skip = @ + 1]
          ELSE flat' = IF Tag = "table" THEN [f EXCEPT !.table = @ + 1, !.row = 0]
                       ELSE IF Tag = "tr" THEN [f EXCEPT !.row = @ + 1, !.col = 0]
                       ELSE IF Tag = "td" THEN [f EXCEPT !.col = @ + 1, !.in_cell = TRUE]
                       ELSE f
  BY DEF handle_starttag
<1>8. SkipTags = {"script", "noscript"} /\ ResetTags = {"body"}
  BY DEF SkipTags, ResetTags
<1> HIDE DEF sk, tb, rw, cl, ic, t, n
<1>9. CASE Tag \in SkipTags
  <2>1. flat' = [flat EXCEPT !.skip = @ + 1]
    BY <1>7, <1>8, <1>9
  <2>2. flat' = [skip |-> sk + 1, table |-> tb, row |-> rw, col |-> cl, in_cell |-> ic]
    BY <1>3, <2>1
  <2>3. FlattenerAt(page, n+1) = [skip |-> sk + 1, table |-> tb, row |-> rw, col |-> cl, in_cell |-> ic]
    BY <1>2, <1>4, <1>5, <1>6, <1>8, <1>9
  <2> QED BY <2>2, <2>3 DEF n
<1>10. CASE Tag = "body"
  <2>1. flat' = [flat EXCEPT !.skip = 0]
    BY <1>7, <1>8, <1>10
  <2>2. flat' = [skip |-> 0, table |-> tb, row |-> rw, col |-> cl, in_cell |-> ic]
    BY <1>3, <2>1
  <2>3. FlattenerAt(page, n+1) = [skip |-> 0, table |-> tb, row |-> rw, col |-> cl, in_cell |-> ic]
    BY <1>2, <1>4, <1>5, <1>6, <1>8, <1>10
  <2> QED BY <2>2, <2>3 DEF n
<1>11. CASE Tag = "table"
  <2>1. flat' = [flat EXCEPT !.table = @ + 1, !.row = 0]
    BY <1>7, <1>8, <1>11
  <2>2. flat' = [skip |-> sk, table |-> tb + 1, row |-> 0, col |-> cl, in_cell |-> ic]
    BY <1>3, <2>1
  <2>3. FlattenerAt(page, n+1) = [skip |-> sk, table |-> tb + 1, row |-> 0, col |-> cl, in_cell |-> ic]
    BY <1>2, <1>4, <1>5, <1>6, <1>8, <1>11
  <2> QED BY <2>2, <2>3 DEF n
<1>12. CASE Tag = "tr"
  <2>1. flat' = [flat EXCEPT !.row = @ + 1, !.col = 0]
    BY <1>7, <1>8, <1>12
  <2>2. flat' = [skip |-> sk, table |-> tb, row |-> rw + 1, col |-> 0, in_cell |-> ic]
    BY <1>3, <2>1
  <2>3. FlattenerAt(page, n+1) = [skip |-> sk, table |-> tb, row |-> rw + 1, col |-> 0, in_cell |-> ic]
    BY <1>2, <1>4, <1>5, <1>6, <1>8, <1>12
  <2> QED BY <2>2, <2>3 DEF n
<1>13. CASE Tag = "td"
  <2>1. flat' = [flat EXCEPT !.col = @ + 1, !.in_cell = TRUE]
    BY <1>7, <1>8, <1>13
  <2>2. flat' = [skip |-> sk, table |-> tb, row |-> rw, col |-> cl + 1, in_cell |-> TRUE]
    BY <1>3, <2>1
  <2>3. FlattenerAt(page, n+1) = [skip |-> sk, table |-> tb, row |-> rw, col |-> cl + 1, in_cell |-> TRUE]
    BY <1>2, <1>4, <1>5, <1>6, <1>8, <1>13
  <2> QED BY <2>2, <2>3 DEF n
<1>14. CASE Tag \notin SkipTags \cup {"body", "table", "tr", "td"}
  <2>1. flat' = flat
    BY <1>7, <1>8, <1>14
  <2>2. FlattenerAt(page, n+1) = [skip |-> sk, table |-> tb, row |-> rw, col |-> cl, in_cell |-> ic]
    BY <1>2, <1>4, <1>5, <1>6, <1>8, <1>14
  <2> QED BY <1>3, <2>1, <2>2 DEF n
<1> QED
  BY <1>9, <1>10, <1>11, <1>12, <1>13, <1>14

\* A closing tag counts back.
LEMMA ClosingCounts ==
  ASSUME FlatInv, handle_endtag
  PROVE  flat' = FlattenerAt(page, fed + 1)
<1> DEFINE n == fed
           sk == SkipAt(page, n)
           tb == TableAt(page, n)
           rw == RowAt(page, n)
           cl == ColAt(page, n)
           ic == InCell(page, n)
           t == page[n+1]
<1>1. Fed("close")
  BY DEF handle_endtag
<1>2. /\ WellFormed(page) /\ n \in Nat /\ n < Len(page) /\ t.is = "close" /\ Tag = t.name
      /\ flat = FlattenerAt(page, n)
  BY <1>1, FedFrom
<1>3. flat = [skip |-> sk, table |-> tb, row |-> rw, col |-> cl, in_cell |-> ic]
  BY <1>2 DEF FlattenerAt
<1>4. FlattenerAt(page, n+1) =
        [skip |-> SkipAt(page, n+1), table |-> TableAt(page, n+1), row |-> RowAt(page, n+1),
         col |-> ColAt(page, n+1), in_cell |-> InCell(page, n+1)]
  BY DEF FlattenerAt
<1>5. /\ t.name \in ResetTags => SkipAt(page, n+1) = 0
      /\ t.name \in SkipTags => sk # 0 /\ SkipAt(page, n+1) = sk - 1
      /\ t.name \notin SkipTags \cup ResetTags => SkipAt(page, n+1) = sk
  BY <1>2, SkipNext, Zenon
<1>6. /\ TableAt(page, n+1) = tb /\ RowAt(page, n+1) = rw /\ ColAt(page, n+1) = cl
      /\ InCell(page, n+1) = IF t.name = "td" THEN FALSE ELSE ic
  <2>1. /\ \A name : Marked(t, "close", name) <=> t.name = name
        /\ \A name : ~Marked(t, "open", name)
    BY <1>2 DEF Marked
  <2>2. /\ TableAt(page, n+1) = IF Marked(t, "open", "table") THEN tb + 1 ELSE tb
        /\ RowAt(page, n+1) = IF Marked(t, "open", "table") THEN 0
                              ELSE IF Marked(t, "open", "tr") THEN rw + 1 ELSE rw
        /\ ColAt(page, n+1) = IF Marked(t, "open", "tr") THEN 0
                              ELSE IF Marked(t, "open", "td") THEN cl + 1 ELSE cl
        /\ InCell(page, n+1) = IF Marked(t, "open", "td") THEN TRUE
                               ELSE IF Marked(t, "close", "td") THEN FALSE ELSE ic
    BY <1>2, PlaceNext, Zenon
  <2> HIDE DEF t, tb, rw, cl, ic
  <2> QED BY <2>1, <2>2
<1>7. LET f == IF Tag \in ResetTags THEN [flat EXCEPT !.skip = 0] ELSE flat
      IN  IF Tag \in SkipTags
          THEN flat' = [f EXCEPT !.skip = IF @ = 0 THEN 0 ELSE @ - 1]
          ELSE flat' = IF Tag = "td" THEN [f EXCEPT !.in_cell = FALSE] ELSE f
  BY DEF handle_endtag
<1>8. SkipTags = {"script", "noscript"} /\ ResetTags = {"body"}
  BY DEF SkipTags, ResetTags
<1> HIDE DEF sk, tb, rw, cl, ic, t, n
<1>9. CASE Tag \in SkipTags
  <2>1. flat' = [flat EXCEPT !.skip = IF @ = 0 THEN 0 ELSE @ - 1]
    BY <1>7, <1>8, <1>9
  <2>2. sk # 0
    BY <1>2, <1>5, <1>9
  <2>3. flat' = [skip |-> sk - 1, table |-> tb, row |-> rw, col |-> cl, in_cell |-> ic]
    BY <1>3, <2>1, <2>2
  <2>4. FlattenerAt(page, n+1) = [skip |-> sk - 1, table |-> tb, row |-> rw, col |-> cl, in_cell |-> ic]
    BY <1>2, <1>4, <1>5, <1>6, <1>8, <1>9
  <2> QED BY <2>3, <2>4 DEF n
<1>10. CASE Tag = "body"
  <2>1. flat' = [flat EXCEPT !.skip = 0]
    BY <1>7, <1>8, <1>10
  <2>2. flat' = [skip |-> 0, table |-> tb, row |-> rw, col |-> cl, in_cell |-> ic]
    BY <1>3, <2>1
  <2>3. FlattenerAt(page, n+1) = [skip |-> 0, table |-> tb, row |-> rw, col |-> cl, in_cell |-> ic]
    BY <1>2, <1>4, <1>5, <1>6, <1>8, <1>10
  <2> QED BY <2>2, <2>3 DEF n
<1>11. CASE Tag = "td"
  <2>1. flat' = [flat EXCEPT !.in_cell = FALSE]
    BY <1>7, <1>8, <1>11
  <2>2. flat' = [skip |-> sk, table |-> tb, row |-> rw, col |-> cl, in_cell |-> FALSE]
    BY <1>3, <2>1
  <2>3. FlattenerAt(page, n+1) = [skip |-> sk, table |-> tb, row |-> rw, col |-> cl, in_cell |-> FALSE]
    BY <1>2, <1>4, <1>5, <1>6, <1>8, <1>11
  <2> QED BY <2>2, <2>3 DEF n
<1>12. CASE Tag \notin SkipTags \cup {"body", "td"}
  <2>1. flat' = flat
    BY <1>7, <1>8, <1>12
  <2>2. FlattenerAt(page, n+1) = [skip |-> sk, table |-> tb, row |-> rw, col |-> cl, in_cell |-> ic]
    BY <1>2, <1>4, <1>5, <1>6, <1>8, <1>12
  <2> QED BY <1>3, <2>1, <2>2 DEF n
<1> QED
  BY <1>9, <1>10, <1>11, <1>12

\* A run of characters counts nothing, and is text if it is shown.
LEMMA DataCounts ==
  ASSUME FlatInv, handle_data
  PROVE  flat' = FlattenerAt(page, fed + 1) /\ TextOf(page, fed + 1, parts')
<1> DEFINE n == fed
           t == page[n+1]
<1>1. Fed("data")
  BY DEF handle_data
<1>2. /\ WellFormed(page) /\ n \in Nat /\ n < Len(page) /\ t.is = "data" /\ Tag = t.name
      /\ flat = FlattenerAt(page, n) /\ TextOf(page, n, parts)
  BY <1>1, FedFrom
<1>3. /\ SkipAt(page, n+1) = SkipAt(page, n) /\ \A h \in Hidden : Inside(page, h, n+1) = Inside(page, h, n)
      /\ SkipAt(page, n) \in Nat
      /\ SkipAt(page, n) = 0 <=> \A h \in Hidden : Inside(page, h, n) = 0
  BY <1>2, SkipNext, Zenon
<1>4. /\ TableAt(page, n+1) = TableAt(page, n) /\ RowAt(page, n+1) = RowAt(page, n)
      /\ ColAt(page, n+1) = ColAt(page, n) /\ InCell(page, n+1) = InCell(page, n)
  <2>1. \A is, name : is # "data" => ~Marked(t, is, name)
    BY <1>2 DEF Marked
  <2>2. ~Marked(t, "open", "table") /\ ~Marked(t, "open", "tr") /\ ~Marked(t, "open", "td")
        /\ ~Marked(t, "close", "td")
    BY <2>1
  <2>3. /\ TableAt(page, n+1) = IF Marked(t, "open", "table") THEN TableAt(page, n) + 1 ELSE TableAt(page, n)
        /\ RowAt(page, n+1) = IF Marked(t, "open", "table") THEN 0
                              ELSE IF Marked(t, "open", "tr") THEN RowAt(page, n) + 1 ELSE RowAt(page, n)
        /\ ColAt(page, n+1) = IF Marked(t, "open", "tr") THEN 0
                              ELSE IF Marked(t, "open", "td") THEN ColAt(page, n) + 1 ELSE ColAt(page, n)
        /\ InCell(page, n+1) = IF Marked(t, "open", "td") THEN TRUE
                               ELSE IF Marked(t, "close", "td") THEN FALSE ELSE InCell(page, n)
    BY <1>2, PlaceNext, Zenon
  <2> HIDE DEF t
  <2> QED BY <2>2, <2>3
<1>5. FlattenerAt(page, n+1) = FlattenerAt(page, n) /\ Cell(page, n+1) = Cell(page, n)
  BY <1>3, <1>4 DEF FlattenerAt, Cell
<1>6. flat' = FlattenerAt(page, fed + 1)
  BY <1>2, <1>5 DEF handle_data
<1>7. /\ flat.skip = SkipAt(page, n)
      /\ Cell(page, n+1) = IF flat.in_cell THEN <<flat.table, flat.row, flat.col>> ELSE <<>>
  <2>1. /\ flat.skip = SkipAt(page, n) /\ flat.table = TableAt(page, n) /\ flat.row = RowAt(page, n)
        /\ flat.col = ColAt(page, n) /\ flat.in_cell = InCell(page, n)
    BY <1>2 DEF FlattenerAt
  <2> QED BY <1>5, <2>1, Zenon DEF Cell
<1>8. CASE Tag = "blank"
  <2>1. ~Shown(page, n+1)
    BY <1>2, <1>8 DEF Shown
  <2> DEFINE b == [clause |-> "break", at |-> <<>>]
  <2>2. parts' = parts \/ parts' = Append(parts, b)
    BY <1>8 DEF handle_data
  <2>3. b.clause = "break"
    OBVIOUS
  <2> HIDE DEF b
  <2>4. parts' = parts \/ \E x : x.clause = "break" /\ parts' = Append(parts, x)
    BY <2>2, <2>3
  <2> QED BY <1>2, <1>6, <2>1, <2>4, NotShown
<1>9. CASE Tag # "blank" /\ flat.skip > 0
  <2>1. SkipAt(page, n) # 0
    BY <1>3, <1>7, <1>9
  <2>2. ~Shown(page, n+1)
    BY <1>3, <2>1 DEF Shown
  <2>3. parts' = parts
    BY <1>9 DEF handle_data
  <2> QED BY <1>2, <1>6, <2>2, <2>3, NotShown
<1>10. CASE Tag # "blank" /\ ~(flat.skip > 0)
  <2>1. SkipAt(page, n) = 0
    BY <1>3, <1>7, <1>10
  <2>2. Shown(page, n+1)
    BY <1>2, <1>3, <1>10, <2>1 DEF Shown
  <2>3. parts' = Append(parts, [clause |-> Tag, at |-> IF flat.in_cell THEN <<flat.table, flat.row, flat.col>>
                                                        ELSE <<>>])
    BY <1>10 DEF handle_data
  <2>4. parts' = Append(parts, Run_of(page, n+1))
    BY <1>2, <1>7, <2>3, Zenon DEF Run_of
  <2> QED BY <1>2, <1>6, <2>2, <2>4, OneMoreShown
<1> QED
  BY <1>8, <1>9, <1>10

\* The text is the page, as far as it is fed.
LEMMA TextStays == Spec => []FlatInv
<1> DEFINE Fresh == [skip |-> 0, table |-> 0, row |-> 0, col |-> 0, in_cell |-> FALSE]
<1>1. ASSUME NEW p PROVE FlattenerAt(p, 0) = Fresh /\ TextOf(p, 0, <<>>)
  <2>1. FlattenerAt(p, 0) = Fresh
    BY AtTheStart DEF FlattenerAt
  <2>2. <<>> \in Seq({})
    OBVIOUS
  <2>3. DOMAIN <<>> = {} /\ 1..0 = {}
    OBVIOUS
  <2> QED BY <2>1, <2>2, <2>3 DEF TextOf, Listed
<1>2. WellFormed(<<>>)
  <2>1. <<>> \in Seq([is : {"open", "close", "data"}, name : STRING]) /\ DOMAIN <<>> = {}
    OBVIOUS
  <2> QED BY <2>1 DEF WellFormed
<1>3. ASSUME NEW p, WellFormed(p) PROVE 0 \in Nat /\ Len(p) \in Nat /\ 0 <= Len(p)
  <2>1. p \in Seq([is : {"open", "close", "data"}, name : STRING])
    BY <1>3 DEF WellFormed
  <2>2. Len(p) \in Nat
    BY <2>1
  <2> QED BY <2>2
<1>4. Init => FlatInv
  <2> SUFFICES ASSUME Init PROVE FlatInv
    OBVIOUS
  <2>1. page = <<>> /\ fed = 0 /\ parts = <<>> /\ flat = Fresh
    BY DEF Init, AssuranceInit, CheckInit
  <2>2. FlattenerAt(page, 0) = Fresh /\ TextOf(page, 0, <<>>)
    BY <1>1
  <2> HIDE DEF Fresh
  <2>3. WellFormed(page) /\ 0 \in Nat /\ 0 <= Len(page)
    BY <1>2, <1>3, <2>1
  <2> QED BY <2>1, <2>2, <2>3 DEF FlatInv, Fresh
<1>5. FlatInv /\ [Next]_vars => FlatInv'
  <2> SUFFICES ASSUME FlatInv, [CheckNext]_checkVars PROVE FlatInv'
    BY CheckSteps
  <2>1. ASSUME NEW p \in Pages \cup {NoPage}, load_source(p) PROVE FlatInv'
    <3>1. page' = p /\ fed' = 0 /\ parts' = <<>> /\ flat' = Fresh
      BY <2>1 DEF load_source, FlatInv
    <3>2. FlattenerAt(p, 0) = Fresh /\ TextOf(p, 0, <<>>)
      BY <1>1
    <3>3. p # NoPage => WellFormed(p) /\ 0 \in Nat /\ 0 <= Len(p)
      BY <1>3, CheckAssumption
    <3> HIDE DEF Fresh
    <3> QED BY <3>1, <3>2, <3>3 DEF FlatInv, Fresh
  <2>2. CASE handle_starttag
    <3>1. Fed("open") /\ (parts' = parts \/ parts' = parts \o Break(Tag))
      BY <2>2 DEF handle_starttag
    <3>2. flat' = FlattenerAt(page, fed + 1)
      BY <2>2, OpeningCounts
    <3>3. TextOf(page, fed + 1, parts')
      BY <3>1, TagBreaks
    <3> QED BY <3>1, <3>2, <3>3, FedTo
  <2>3. CASE handle_endtag
    <3>1. Fed("close") /\ (parts' = parts \/ parts' = parts \o Break(Tag))
      BY <2>3 DEF handle_endtag
    <3>2. flat' = FlattenerAt(page, fed + 1)
      BY <2>3, ClosingCounts
    <3>3. TextOf(page, fed + 1, parts')
      BY <3>1, TagBreaks
    <3> QED BY <3>1, <3>2, <3>3, FedTo
  <2>4. CASE handle_data
    <3>1. Fed("data")
      BY <2>4 DEF handle_data
    <3> QED BY <2>4, <3>1, DataCounts, FedTo
  <2>5. ASSUME NEW e, NEW f, cmd_check(e, f) PROVE FlatInv'
    BY <2>5 DEF cmd_check, FlatInv
  <2>6. CASE UNCHANGED checkVars
    BY <2>6 DEF checkVars, FlatInv
  <2> QED
    BY <2>1, <2>2, <2>3, <2>4, <2>5, <2>6 DEF CheckNext
<1> QED
  BY <1>4, <1>5, PTL DEF Spec

\* Every nonempty set of places has a first one, which is its Min.
LEMMA First ==
  ASSUME NEW T \in SUBSET Nat, T # {}
  PROVE  Min(T) \in T
<1>1. PICK x \in T : \A y \in T : x <= y
  BY LeastMember
<1>2. \E k \in T : \A y \in T : k <= y
  BY <1>1
<1> QED
  BY <1>2 DEF Min

\* What a reader sees, and where, is what is shown of the page.
LEMMA ShownIsVisible ==
  /\ Visible = {i \in DOMAIN page : Shown(page, i)}
  /\ \A i \in Nat : CellOf(i) = Cell(page, i)
<1>1. Visible = {i \in DOMAIN page : Shown(page, i)}
  BY DEF Visible, Shown, Inside
<1>2. ASSUME NEW i \in Nat PROVE CellOf(i) = Cell(page, i)
  <2>1. ASSUME NEW tag, NEW n PROVE Opened(tag, n) = Count(page, "open", tag, 0, n)
    <3>1. Marks(page, "open", tag, n) = After(page, "open", tag, 0, n)
      BY DEF Marks, After
    <3> QED BY <3>1 DEF Opened, Count
  <2>2. \A tag : LastOpened(tag, i) = LastOf(page, tag, i)
    BY DEF LastOpened, LastOf
  <2>3. CellOf(i) = IF Within_tag(page, "td", 0, i) = 0 THEN <<>>
                    ELSE <<Opened("table", i),
                           Opened("tr", i) - Opened("tr", LastOpened("table", i)),
                           Opened("td", i) - Opened("td", LastOpened("tr", i))>>
    BY Zenon DEF CellOf
  <2> QED BY <2>1, <2>2, <2>3 DEF Cell, InCell, TableAt, RowAt, ColAt
<1> QED
  BY <1>1, <1>2

\* Between the page and the text nothing is lost, nothing hidden gets in, and what is
\* quoted is located in the cell it stands in, whatever the page.
LEMMA TextIsPage == FlatInv => TextIsThePage
<1> SUFFICES ASSUME FlatInv, page # NoPage, fed = Len(page)
             PROVE  /\ Text = Seen
                    /\ \A c \in Seen : \E i \in Visible : page[i].name = c /\ locate(c) = CellOf(i)
  BY DEF TextIsThePage
<1>1. WellFormed(page) /\ TextOf(page, fed, parts)
  BY DEF FlatInv
<1>2. DOMAIN page = 1..fed /\ fed \in Nat /\ \A i \in DOMAIN page : i \in Nat
  <2>1. page \in Seq([is : {"open", "close", "data"}, name : STRING])
    BY <1>1 DEF WellFormed
  <2> QED BY <2>1
<1>3. \A i : i \in Visible <=> i \in 1..fed /\ Shown(page, i)
  BY <1>2, ShownIsVisible
<1>4. \A i \in Visible : page[i].name # "break"
  BY <1>1, <1>2, <1>3 DEF WellFormed, Shown
<1>5. \A c : c \in Seen <=> \E i \in Visible : c = page[i].name
  BY DEF Seen
<1>6. \A c : c \in Text <=> c # "break" /\ \E k \in DOMAIN parts : c = parts[k].clause
  BY DEF Text
<1>7. \A i : Run_of(page, i).clause = page[i].name /\ Run_of(page, i).at = Cell(page, i)
  BY DEF Run_of
<1>8. /\ \A k \in DOMAIN parts :
           parts[k].clause = "break" \/ \E i \in Visible : parts[k] = Run_of(page, i)
      /\ \A i \in Visible : \E k \in DOMAIN parts : parts[k] = Run_of(page, i)
  BY <1>1, <1>3 DEF TextOf
<1>9. Text = Seen
  <2>1. ASSUME NEW c \in Text PROVE c \in Seen
    BY <1>5, <1>6, <1>7, <1>8
  <2>2. ASSUME NEW c \in Seen PROVE c \in Text
    <3>1. PICK i \in Visible : c = page[i].name
      BY <1>5
    <3>2. PICK k \in DOMAIN parts : parts[k] = Run_of(page, i)
      BY <1>8
    <3> QED BY <1>4, <1>6, <1>7, <3>1, <3>2
  <2> QED BY <2>1, <2>2
<1>10. ASSUME NEW c \in Seen
       PROVE  \E i \in Visible : page[i].name = c /\ locate(c) = CellOf(i)
  <2> DEFINE T == {k \in DOMAIN parts : parts[k].clause = c}
  <2>1. c \in Text /\ c # "break"
    BY <1>6, <1>9
  <2>2. T # {}
    BY <1>6, <2>1
  <2>3. T \in SUBSET Nat
    <3>1. PICK S : parts \in Seq(S)
      BY <1>1 DEF TextOf, Listed
    <3>2. DOMAIN parts \subseteq Nat
      BY <3>1
    <3> QED BY <3>2
  <2>4. locate(c) = parts[Min(T)].at
    BY DEF locate
  <2>5. Min(T) \in T
    <3> HIDE DEF T
    <3> QED BY <2>2, <2>3, First
  <2> DEFINE k == Min(T)
  <2>6. k \in DOMAIN parts /\ parts[k].clause = c
    BY <2>5
  <2> HIDE DEF k
  <2>7. PICK i \in Visible : parts[k] = Run_of(page, i)
    BY <1>8, <2>1, <2>6
  <2>8. page[i].name = c /\ parts[k].at = Cell(page, i)
    BY <1>7, <2>6, <2>7
  <2>9. CellOf(i) = Cell(page, i)
    BY <1>2, <1>3, ShownIsVisible
  <2> QED BY <2>4, <2>8, <2>9 DEF k
<1> QED
  BY <1>9, <1>10

\* What the command reports was made of the whole text.
JudgedOn(fields, fail_on, text) ==
    LET findings == check_extraction(fields, text)
        counted == IF fail_on = "any" THEN Range(findings) \ {"none"}
                   ELSE IF fail_on = "critical" THEN Range(findings) \cap Critical
                   ELSE {}
    IN  [fields |-> fields, findings |-> findings, fail_on |-> fail_on,
         exit |-> IF counted = {} THEN 0 ELSE 1]
CheckedInv ==
    \/ checked \in {Unchecked, [Unchecked EXCEPT !.exit = 2]}
    \/ /\ page \notin {<<>>, NoPage} /\ fed = Len(page)
       /\ \E fields \in Extractions, fail_on \in {"critical", "any", "never"} :
            checked = JudgedOn(fields, fail_on, Text)

LEMMA CheckedStays == Spec => []CheckedInv
<1>1. Init => CheckedInv
  BY DEF Init, AssuranceInit, CheckInit, CheckedInv
<1>2. FlatInv /\ CheckedInv /\ [Next]_vars => CheckedInv'
  <2> SUFFICES ASSUME FlatInv, CheckedInv, [CheckNext]_checkVars PROVE CheckedInv'
    BY CheckSteps
  <2>1. parts' = parts => Text' = Text
    BY DEF Text
  <2>2. ASSUME NEW p \in Pages \cup {NoPage}, load_source(p) PROVE CheckedInv'
    <3>1. page = <<>>
      BY <2>2 DEF load_source
    <3>2. checked \in {Unchecked, [Unchecked EXCEPT !.exit = 2]}
      BY <3>1 DEF CheckedInv
    <3>3. checked' = checked \/ checked' = [Unchecked EXCEPT !.exit = 2]
      BY <2>2 DEF load_source
    <3> QED BY <3>2, <3>3 DEF CheckedInv
  <2>3. ASSUME NEW is, Fed(is) PROVE CheckedInv'
    <3>1. checked' = checked /\ fed < Len(page) /\ fed \in Nat
      BY <2>3, FedFrom
    <3>2. fed # Len(page)
      BY <3>1
    <3> QED BY <3>1, <3>2 DEF CheckedInv
  <2>4. ASSUME NEW e \in Extractions \cup {NoExtraction}, NEW f \in {"critical", "any", "never"},
               cmd_check(e, f)
        PROVE  CheckedInv'
    <3>1. /\ page \notin {<<>>, NoPage} /\ fed = Len(page)
          /\ page' = page /\ fed' = fed /\ parts' = parts
      BY <2>4 DEF cmd_check
    <3>2. \/ checked' = [Unchecked EXCEPT !.exit = 2]
          \/ e # NoExtraction /\ checked' = JudgedOn(e, f, Text)
      BY <2>4, Zenon DEF cmd_check, JudgedOn
    <3> QED BY <2>1, <3>1, <3>2 DEF CheckedInv
  <2>5. CASE UNCHANGED checkVars
    BY <2>1, <2>5 DEF checkVars, CheckedInv
  <2> QED
    BY <2>2, <2>3, <2>4, <2>5 DEF CheckNext, handle_starttag, handle_endtag, handle_data
<1> QED
  BY <1>1, <1>2, TextStays, PTL DEF Spec

\* What is judged of a text that is the page's is right.
LEMMA ReportRight == FlatInv /\ CheckedInv => ReportIsRight
<1> SUFFICES ASSUME FlatInv, CheckedInv, NEW f \in DOMAIN checked.findings
             PROVE  LET v == checked.fields[f].value
                        q == checked.fields[f].quote
                        given == v \notin {Absent, Filler} /\ f \in Quoted(checked.fields)
                        found == given /\ q.clause \in Seen /\ q.dressing \notin {"reworded", "stub"}
                        finding == checked.findings[f]
                    IN  /\ found =>
                             /\ Silent(v, q.clause) => finding = "none"
                             /\ Stated(v, q.clause) /\ ~InDoubt(v, q.clause) => finding = "none"
                             /\ Contradicts(q.clause, v) => finding = "SILENT_REPAIR"
                        /\ given /\ (q.clause \notin Seen \/ q.dressing = "reworded")
                             => finding = "FABRICATED_EVIDENCE"
                        /\ checked.fail_on = "any" /\ checked.exit = 0 => finding = "none"
  BY Zenon DEF ReportIsRight
<1>1. checked \notin {Unchecked, [Unchecked EXCEPT !.exit = 2]}
  <2>1. Unchecked.findings = <<>> /\ [Unchecked EXCEPT !.exit = 2].findings = <<>>
    BY DEF Unchecked
  <2>2. DOMAIN <<>> = {}
    OBVIOUS
  <2> QED BY <2>1, <2>2
<1>2. PICK fields \in Extractions, fail_on \in {"critical", "any", "never"} :
        checked = JudgedOn(fields, fail_on, Text)
  BY <1>1 DEF CheckedInv
<1>3. Text = Seen
  <2>1. page # NoPage /\ fed = Len(page)
    BY <1>1 DEF CheckedInv
  <2> QED BY <2>1, TextIsPage DEF TextIsThePage
<1> DEFINE findings == check_extraction(fields, Seen)
           any == Range(findings) \ {"none"}
<1>4. /\ checked.fields = fields /\ checked.findings = findings /\ checked.fail_on = fail_on
      /\ fail_on = "any" => checked.exit = IF any = {} THEN 0 ELSE 1
  <2> HIDE DEF findings
  <2> SUFFICES /\ JudgedOn(fields, fail_on, Seen).fields = fields
               /\ JudgedOn(fields, fail_on, Seen).findings = findings
               /\ JudgedOn(fields, fail_on, Seen).fail_on = fail_on
               /\ fail_on = "any" => JudgedOn(fields, fail_on, Seen).exit = IF any = {} THEN 0 ELSE 1
    BY <1>2, <1>3
  <2> QED BY DEF JudgedOn, findings
<1>5. DOMAIN findings = DOMAIN fields /\ f \in DOMAIN fields
  BY <1>4 DEF check_extraction
<1> DEFINE v == fields[f].value
           q == fields[f].quote
<1>6. v \in Extracted_values
      /\ (q = NoQuote \/ q \in [clause : Clauses, dressing : Dressings])
  <2>1. v \in {fields[g].value : g \in DOMAIN fields}
    BY <1>5
  <2>2. v \in Extracted_values
    BY <2>1 DEF Extracted_values
  <2> QED BY <1>5, <2>2, CheckAssumption
<1>7. v \notin {Absent, Filler} /\ f \in Quoted(fields)
        => /\ q \in [clause : Clauses, dressing : Dressings \ {"unseen"}]
           /\ findings[f] =
                IF ~cited(Seen, q) THEN "FABRICATED_EVIDENCE"
                ELSE IF v \in Spells[q.clause] \/ competing(v, q.clause) = {} THEN "none"
                ELSE "SILENT_REPAIR"
  <2> SUFFICES ASSUME v \notin {Absent, Filler}, f \in Quoted(fields)
               PROVE  /\ q \in [clause : Clauses, dressing : Dressings \ {"unseen"}]
                      /\ findings[f] =
                           IF ~cited(Seen, q) THEN "FABRICATED_EVIDENCE"
                           ELSE IF v \in Spells[q.clause] \/ competing(v, q.clause) = {} THEN "none"
                           ELSE "SILENT_REPAIR"
    OBVIOUS
  <2>1. q.dressing \notin {"none", "unseen"} /\ Quoted(fields) # {}
    BY DEF Quoted
  <2>2. q # NoQuote
    BY <2>1 DEF NoQuote
  <2>3. q \in [clause : Clauses, dressing : Dressings \ {"unseen"}]
    BY <1>6, <2>1, <2>2
  <2>4. findings[f] = check_field(v, q, Seen)
    BY <1>5, <2>1, Zenon DEF check_extraction
  <2>5. v # Absent /\ v # Filler /\ q.dressing # "unseen"
    BY <2>1
  <2> HIDE DEF findings, v, q
  <2>6. check_field(v, q, Seen) =
          IF ~cited(Seen, q) THEN "FABRICATED_EVIDENCE"
          ELSE IF v \in Spells[q.clause] \/ competing(v, q.clause) = {} THEN "none"
          ELSE "SILENT_REPAIR"
    BY <2>2, <2>5, Zenon DEF check_field
  <2> QED BY <2>3, <2>4, <2>6
<1>8. fail_on = "any" /\ checked.exit = 0 => findings[f] = "none"
  <2>1. findings[f] \in Range(findings)
    BY <1>5 DEF Range
  <2> HIDE DEF findings
  <2> QED BY <1>4, <2>1
<1> HIDE DEF findings, v, q
<1>9. q \in [clause : Clauses, dressing : Dressings \ {"unseen"}] =>
        /\ q.clause \in Seen /\ q.dressing \notin {"reworded", "stub"} => cited(Seen, q)
        /\ q.clause \notin Seen \/ q.dressing = "reworded" => ~cited(Seen, q)
  <2> SUFFICES ASSUME q \in [clause : Clauses, dressing : Dressings \ {"unseen"}]
               PROVE  /\ q.clause \in Seen /\ q.dressing \notin {"reworded", "stub"} => cited(Seen, q)
                      /\ q.clause \notin Seen \/ q.dressing = "reworded" => ~cited(Seen, q)
    OBVIOUS
  <2>1. q.dressing \in {"exact", "rewrapped", "as seen", "ellipsis", "stub", "reworded"}
    BY DEF Dressings
  <2> QED BY <2>1 DEF cited, contains, In
<1>10. q \in [clause : Clauses, dressing : Dressings \ {"unseen"}] =>
         /\ Silent(v, q.clause) => competing(v, q.clause) = {}
         /\ Stated(v, q.clause) /\ ~InDoubt(v, q.clause) => competing(v, q.clause) = {}
         /\ Contradicts(q.clause, v) => v \notin Spells[q.clause] /\ competing(v, q.clause) # {}
  <2> SUFFICES ASSUME q \in [clause : Clauses, dressing : Dressings \ {"unseen"}]
               PROVE  /\ Silent(v, q.clause) => competing(v, q.clause) = {}
                      /\ Stated(v, q.clause) /\ ~InDoubt(v, q.clause) => competing(v, q.clause) = {}
                      /\ Contradicts(q.clause, v)
                           => v \notin Spells[q.clause] /\ competing(v, q.clause) # {}
    OBVIOUS
  <2>1. q.clause \in Clauses
    OBVIOUS
  <2>2. Legible(States[q.clause])
    BY <2>1, LegibleClauses
  <2>3. Legible(Extracted_values \cup States[q.clause]) /\ v \in Extracted_values \cup States[q.clause]
    BY <1>6, <2>1, CheckAssumption
  <2> QED BY <2>2, <2>3, NothingCompetes, WhatContradicts
<1>11. checked.fields[f].value = v /\ checked.fields[f].quote = q
  BY <1>4 DEF v, q
<1> QED
  BY <1>4, <1>7, <1>8, <1>9, <1>10, <1>11

\* From the page to the exit code, whatever the page and what was extracted from it:
\* no field is reported that its citation supports or leaves open, every citation
\* that is not on the page is, and every amount or date of which the citation states
\* another.
THEOREM EvidenceAlwaysJudgedRightly == Spec => []EvidenceIsJudgedRightly
<1>1. FlatInv /\ CheckedInv => EvidenceIsJudgedRightly
  BY TextIsPage, ReportRight DEF EvidenceIsJudgedRightly
<1> QED
  BY <1>1, TextStays, CheckedStays, PTL

----------------------------------------------------------------------------
(* The configuration file.                                                  *)

Lined(file) == file \in Seq([indent : Nat, key : {file[i].key : i \in DOMAIN file},
                             value : {file[i].value : i \in DOMAIN file}])
Around(file, i) == {m \in DOMAIN file : Encloses(file, m, i)}
KeysOf(file, S) ==
    [n \in 1..Cardinality(S) |-> file[CHOOSE m \in S : Cardinality({k \in S : k <= m}) = n].key]

LEMMA LinesAreRecords ==
  ASSUME NEW file, Lined(file)
  PROVE  /\ Len(file) \in Nat /\ DOMAIN file = 1..Len(file)
         /\ \A i \in 1..Len(file) : file[i].indent \in Nat
<1> DEFINE K == {file[i].key : i \in DOMAIN file}
           V == {file[i].value : i \in DOMAIN file}
<1>1. file \in Seq([indent : Nat, key : K, value : V])
  BY DEF Lined
<1> DEFINE R == [indent : Nat, key : K, value : V]
<1> HIDE DEF K, V
<1>2. Len(file) \in Nat /\ DOMAIN file = 1..Len(file)
  BY <1>1
<1>3. ASSUME NEW i \in 1..Len(file) PROVE file[i].indent \in Nat
  <2>1. file[i] \in R
    <3> HIDE DEF R
    <3>1. file \in Seq(R)
      BY <1>1 DEF R
    <3> QED BY <1>2, <3>1
  <2> QED BY <2>1
<1> QED
  BY <1>2, <1>3

LEMMA PathIsKeys ==
  ASSUME NEW file, NEW i
  PROVE  PathOf(file, i) = KeysOf(file, Around(file, i)) \o <<file[i].key>>
BY DEF PathOf, KeysOf, Around

\* The keys of a set of lines and of a line below them.
LEMMA OneKeyMore ==
  ASSUME NEW file, NEW S \in SUBSET Nat, IsFiniteSet(S), NEW m \in Nat, \A x \in S : x < m
  PROVE  KeysOf(file, S \cup {m}) = KeysOf(file, S) \o <<file[m].key>>
<1> DEFINE T == S \cup {m}
           c == Cardinality(S)
           Upto(U, x) == {k \in U : k <= x}
           Nth(U, n) == CHOOSE x \in U : Cardinality(Upto(U, x)) = n
<1>1. m \notin S /\ IsFiniteSet(T) /\ Cardinality(T) = c + 1 /\ c \in Nat
  <2>1. m \notin S
    OBVIOUS
  <2> QED BY <2>1, FS_AddElement, FS_CardinalityType
<1>2. \A x \in S : Upto(T, x) = Upto(S, x)
  OBVIOUS
<1>3. Upto(T, m) = T
  <2>1. \A k \in T : k <= m
    OBVIOUS
  <2> HIDE DEF T
  <2> QED BY <2>1
<1>4. \A x \in S : Cardinality(Upto(S, x)) \in Nat /\ Cardinality(Upto(S, x)) <= c
  <2>1. \A x \in S : Upto(S, x) \in SUBSET S
    OBVIOUS
  <2> HIDE DEF Upto
  <2> QED BY <2>1, FS_Subset, FS_CardinalityType
<1> HIDE DEF T, c, Upto
<1>5. ASSUME NEW n \in 1..c PROVE Nth(T, n) = Nth(S, n)
  <2>1. \A x : x \in T <=> x \in S \/ x = m
    BY DEF T
  <2>2. n # c + 1
    BY <1>1
  <2>3. \A x : (x \in T /\ Cardinality(Upto(T, x)) = n) <=> (x \in S /\ Cardinality(Upto(S, x)) = n)
    BY <1>1, <1>2, <1>3, <2>1, <2>2
  <2>4. {x \in T : Cardinality(Upto(T, x)) = n} = {x \in S : Cardinality(Upto(S, x)) = n}
    BY <2>3
  <2>5. \A U : Nth(U, n) = CHOOSE x : x \in {y \in U : Cardinality(Upto(U, y)) = n}
    OBVIOUS
  <2> HIDE DEF Nth
  <2> QED BY <2>4, <2>5
<1>6. Nth(T, c + 1) = m
  <2>1. m \in T /\ Cardinality(Upto(T, m)) = c + 1
    BY <1>1, <1>3 DEF T
  <2>2. \A x \in T : Cardinality(Upto(T, x)) = c + 1 => x = m
    BY <1>1, <1>2, <1>4 DEF T
  <2> QED BY <2>1, <2>2
<1>7. \A U : KeysOf(file, U) = [n \in 1..Cardinality(U) |-> file[Nth(U, n)].key]
  BY DEF KeysOf, Upto
<1> HIDE DEF Nth
<1> DEFINE K == {file[Nth(S, n)].key : n \in 1..c} \cup {file[m].key}
           a == [n \in 1..c |-> file[Nth(S, n)].key]
<1>8. KeysOf(file, S) = a /\ a \in Seq(K) /\ Len(a) = c
  <2>1. KeysOf(file, S) = a
    BY <1>7 DEF c
  <2>2. a \in [1..c -> K]
    OBVIOUS
  <2> HIDE DEF a, K
  <2> QED BY <1>1, <2>1, <2>2
<1>9. KeysOf(file, T) = [n \in 1..c+1 |-> file[Nth(T, n)].key]
  BY <1>1, <1>7
<1>10. ASSUME NEW n \in 1..c+1
       PROVE  file[Nth(T, n)].key = IF n <= c THEN a[n] ELSE file[m].key
  <2>1. CASE n <= c
    <3>1. n \in 1..c
      BY <1>1, <2>1
    <3> QED BY <1>5, <2>1, <3>1
  <2>2. CASE ~(n <= c)
    <3>1. n = c + 1
      BY <1>1, <2>2
    <3> QED BY <1>6, <2>2, <3>1
  <2> QED BY <2>1, <2>2
<1>11. a \o <<file[m].key>> = [n \in 1..c+1 |-> IF n <= c THEN a[n] ELSE file[m].key]
  <2>1. <<file[m].key>> \in Seq(K) /\ Len(<<file[m].key>>) = 1 /\ <<file[m].key>>[1] = file[m].key
    OBVIOUS
  <2> DEFINE b == <<file[m].key>>
  <2> HIDE DEF a, K, b
  <2>2. a \o b = [n \in 1..(Len(a) + Len(b)) |-> IF n <= Len(a) THEN a[n] ELSE b[n - Len(a)]]
    BY <1>8, <2>1 DEF b
  <2>3. \A n \in 1..c+1 : ~(n <= c) => n - c = 1
    BY <1>1
  <2>4. Len(b) = 1 /\ b[1] = file[m].key
    BY <2>1 DEF b
  <2>5. a \o b = [n \in 1..c+1 |-> IF n <= c THEN a[n] ELSE b[n - c]]
    BY <1>8, <2>2, <2>4
  <2> QED BY <2>3, <2>4, <2>5 DEF b
<1> QED
  <2> HIDE DEF a
  <2>1. KeysOf(file, T) = [n \in 1..c+1 |-> IF n <= c THEN a[n] ELSE file[m].key]
    BY <1>9, <1>10
  <2> QED BY <1>8, <1>11, <2>1 DEF T

\* Finitely many maps are around a line, and its path is a sequence.
LEMMA PathsAreSequences ==
  ASSUME NEW file, Lined(file), NEW i, NEW e
  PROVE  /\ Around(file, i) \in SUBSET Nat /\ IsFiniteSet(Around(file, i))
         /\ \E S : PathOf(file, i) \in Seq(S) /\ e \in S
<1>1. Around(file, i) \in SUBSET Nat /\ IsFiniteSet(Around(file, i))
  <2>1. Len(file) \in Nat /\ DOMAIN file = 1..Len(file)
    BY LinesAreRecords
  <2>2. Around(file, i) \in SUBSET (1..Len(file)) /\ IsFiniteSet(1..Len(file))
    BY <2>1, FS_Interval DEF Around
  <2> QED BY <2>1, <2>2, FS_Subset
<1> DEFINE c == Cardinality(Around(file, i))
           a == KeysOf(file, Around(file, i))
           S == {a[n] : n \in 1..c} \cup {file[i].key, e}
           b == <<file[i].key>>
<1>2. c \in Nat /\ a \in [1..c -> {a[n] : n \in 1..c}]
  <2>1. c \in Nat
    BY <1>1, FS_CardinalityType
  <2> QED BY <2>1 DEF KeysOf
<1>3. a \in Seq(S) /\ b \in Seq(S)
  <2>1. a \in [1..c -> S]
    BY <1>2
  <2>2. file[i].key \in S
    OBVIOUS
  <2> HIDE DEF S, a, c
  <2> QED BY <1>2, <2>1, <2>2
<1>4. PathOf(file, i) = a \o b /\ e \in S
  BY PathIsKeys
<1> HIDE DEF S, a, b
<1> QED
  BY <1>1, <1>3, <1>4

\* The keys a line stands under: those of the last map around it, and that one's own.
LEMMA AroundIt ==
  ASSUME NEW file, Lined(file), NEW i \in DOMAIN file, NoValue # ListItem
  PROVE  /\ Around(file, i) = {} => PathOf(file, i) = Append(<<>>, file[i].key)
         /\ \A m \in Around(file, i) :
              (\A x \in Around(file, i) : x <= m)
                 => PathOf(file, i) = Append(PathOf(file, m), file[i].key)
<1>1. /\ Len(file) \in Nat /\ DOMAIN file = 1..Len(file)
      /\ \A k \in DOMAIN file : file[k].indent \in Nat
  BY LinesAreRecords
<1>2. \A k, m : m \in Around(file, k) <=>
        /\ m \in DOMAIN file
        /\ m < k /\ file[m].value = NoValue /\ file[m].indent < file[k].indent
        /\ \A l \in m+1..k-1 : file[l].value # ListItem => file[l].indent > file[m].indent
  BY DEF Around, Encloses
<1>3. \A m : m \in DOMAIN file => m \in Nat
  BY <1>1
<1>4. \A k : Around(file, k) \in SUBSET Nat /\ IsFiniteSet(Around(file, k))
  BY PathsAreSequences
<1>5. ASSUME Around(file, i) = {} PROVE PathOf(file, i) = Append(<<>>, file[i].key)
  <2>1. Cardinality({}) = 0
    BY FS_EmptySet
  <2>2. KeysOf(file, {}) = <<>>
    BY <2>1 DEF KeysOf
  <2>3. PathOf(file, i) = <<>> \o <<file[i].key>>
    BY <1>5, <2>2, PathIsKeys
  <2> QED BY <2>3
<1>6. ASSUME NEW m \in Around(file, i), \A x \in Around(file, i) : x <= m
      PROVE  PathOf(file, i) = Append(PathOf(file, m), file[i].key)
  <2>1. /\ m \in DOMAIN file /\ m \in Nat /\ i \in Nat
        /\ m < i /\ file[m].value = NoValue /\ file[m].indent < file[i].indent
        /\ \A l \in m+1..i-1 : file[l].value # ListItem => file[l].indent > file[m].indent
    BY <1>2, <1>3
  <2>2. ASSUME NEW x \in Around(file, m) PROVE x \in Around(file, i) /\ x < m
    <3>1. /\ x \in DOMAIN file /\ x \in Nat
          /\ x < m /\ file[x].value = NoValue /\ file[x].indent < file[m].indent
          /\ \A l \in x+1..m-1 : file[l].value # ListItem => file[l].indent > file[x].indent
      BY <1>2, <1>3
    <3>2. x < i /\ file[x].indent < file[i].indent
      BY <1>1, <2>1, <3>1
    <3>3. ASSUME NEW l \in x+1..i-1, file[l].value # ListItem PROVE file[l].indent > file[x].indent
      <4>1. CASE l < m
        <5>1. l \in x+1..m-1
          BY <2>1, <3>1, <4>1
        <5> QED BY <3>1, <3>3, <5>1
      <4>2. CASE l = m
        BY <1>1, <2>1, <3>1, <4>2
      <4>3. CASE l > m
        <5>1. l \in m+1..i-1
          <6>1. m \in Nat /\ x \in Nat /\ i \in Nat
            BY <2>1, <3>1
          <6> QED BY <4>3, <6>1
        <5>2. l \in DOMAIN file
          <6>1. m \in Nat /\ i \in 1..Len(file) /\ Len(file) \in Nat
            BY <1>1, <2>1
          <6> QED BY <1>1, <5>1, <6>1
        <5>3. file[l].indent > file[m].indent
          BY <2>1, <3>3, <5>1
        <5>4. file[l].indent \in Nat /\ file[m].indent \in Nat /\ file[x].indent \in Nat
          BY <1>1, <2>1, <3>1, <5>2
        <5>5. file[x].indent < file[m].indent
          BY <3>1
        <5> QED BY <5>3, <5>4, <5>5
      <4>4. l \in Int /\ m \in Int
        BY <2>1, <3>1
      <4>5. l < m \/ l = m \/ l > m
        BY <4>4
      <4> QED BY <4>1, <4>2, <4>3, <4>5
    <3> QED BY <1>2, <3>1, <3>2, <3>3
  <2>3. ASSUME NEW x \in Around(file, i), x # m PROVE x \in Around(file, m)
    <3>1. /\ x \in DOMAIN file /\ x \in Nat
          /\ x < i /\ file[x].value = NoValue /\ file[x].indent < file[i].indent
          /\ \A l \in x+1..i-1 : file[l].value # ListItem => file[l].indent > file[x].indent
      BY <1>2, <1>3
    <3>2. x < m
      BY <1>6, <2>1, <2>3, <3>1
    <3>3. m \in x+1..i-1 /\ \A l \in x+1..m-1 : l \in x+1..i-1
      BY <2>1, <3>1, <3>2
    <3>4. file[x].indent < file[m].indent
      <4>1. file[m].indent > file[x].indent
        BY <2>1, <3>1, <3>3
      <4> QED BY <1>1, <2>1, <3>1, <4>1
    <3> QED BY <1>2, <3>1, <3>2, <3>3, <3>4
  <2>4. Around(file, i) = Around(file, m) \cup {m}
    BY <2>2, <2>3
  <2>5. \A x \in Around(file, m) : x < m
    BY <2>2
  <2>6. KeysOf(file, Around(file, i)) = KeysOf(file, Around(file, m)) \o <<file[m].key>>
    BY <1>4, <2>1, <2>4, <2>5, OneKeyMore
  <2>7. PathOf(file, m) = KeysOf(file, Around(file, m)) \o <<file[m].key>>
    BY PathIsKeys
  <2>8. PathOf(file, i) = PathOf(file, m) \o <<file[i].key>>
    BY <2>6, <2>7, PathIsKeys
  <2>9. PICK S : PathOf(file, m) \in Seq(S) /\ file[i].key \in S
    BY PathsAreSequences
  <2> QED BY <2>8, <2>9, AppendIsConcat
<1> QED
  BY <1>5, <1>6

\* The maps that are open after i lines, and what the parser holds of one.
StillOpen(file, i) ==
    {m \in 1..i : /\ file[m].value = NoValue
                  /\ \A k \in m+1..i : file[k].value # ListItem => file[k].indent > file[m].indent}
OpenMap(file, m) == [indent |-> file[m].indent, path |-> PathOf(file, m)]

\* A line leaves open what is around it, and may open a map.
LEMMA OpenNext ==
  ASSUME NEW file, Lined(file), NEW i \in Nat, i < Len(file)
  PROVE  /\ Around(file, i + 1) = {m \in StillOpen(file, i) : file[m].indent < file[i+1].indent}
         /\ file[i+1].value = ListItem /\ NoValue # ListItem => StillOpen(file, i + 1) = StillOpen(file, i)
         /\ file[i+1].value # ListItem =>
              StillOpen(file, i + 1) = Around(file, i + 1) \cup
                                       (IF file[i+1].value = NoValue THEN {i + 1} ELSE {})
<1> DEFINE j == i + 1
           Deep(m, n) == \A k \in m+1..n : file[k].value # ListItem => file[k].indent > file[m].indent
<1>1. /\ Len(file) \in Nat /\ DOMAIN file = 1..Len(file)
      /\ \A k \in DOMAIN file : file[k].indent \in Nat
  BY LinesAreRecords
<1>2. /\ j \in 1..Len(file) /\ j \in Nat /\ 1..j = 1..i \cup {j} /\ j - 1 = i /\ i < j
      /\ 1..i \subseteq 1..Len(file)
      /\ \A m \in 1..i : m < j /\ m # j /\ m \in Nat
      /\ \A m \in 1..Len(file) : m < j => m \in 1..i
  BY <1>1
<1>3. \A m \in 1..i : m+1..j = m+1..i \cup {j}
  BY <1>2
<1>4. j+1..j = {}
  BY <1>2
<1>5. \A m : m \in Around(file, j) <=>
              ( /\ m \in 1..Len(file)
                /\ m < j /\ file[m].value = NoValue /\ file[m].indent < file[j].indent
                /\ Deep(m, i) )
  BY <1>1, <1>2 DEF Around, Encloses
<1>6. \A m : /\ m \in StillOpen(file, i) <=> m \in 1..i /\ file[m].value = NoValue /\ Deep(m, i)
             /\ m \in StillOpen(file, j) <=> m \in 1..j /\ file[m].value = NoValue /\ Deep(m, j)
  BY DEF StillOpen
<1>7. ASSUME NEW m \in 1..i
      PROVE  Deep(m, j) <=> (Deep(m, i) /\ (file[j].value # ListItem => file[j].indent > file[m].indent))
  <2>1. \A k : k \in m+1..j <=> k \in m+1..i \/ k = j
    BY <1>3
  <2> HIDE DEF j
  <2> QED BY <2>1
<1>8. Deep(j, j)
  BY <1>4
<1>9. \A m \in 1..i : file[j].indent > file[m].indent <=> file[m].indent < file[j].indent
  BY <1>1, <1>2
<1> HIDE DEF Deep, j
<1>10. Around(file, j) = {m \in StillOpen(file, i) : file[m].indent < file[j].indent}
  BY <1>2, <1>5, <1>6
<1>11. file[j].value = ListItem /\ NoValue # ListItem => StillOpen(file, j) = StillOpen(file, i)
  BY <1>2, <1>6, <1>7
<1>12. file[j].value # ListItem =>
         StillOpen(file, j) = Around(file, j) \cup (IF file[j].value = NoValue THEN {j} ELSE {})
  <2> SUFFICES ASSUME file[j].value # ListItem, NEW m
               PROVE  m \in StillOpen(file, j) <=>
                         m \in Around(file, j) \/ (file[j].value = NoValue /\ m = j)
    BY Zenon
  <2>1. CASE m = j
    <3>1. j \notin Around(file, j)
      BY <1>2, <1>5
    <3> QED BY <1>2, <1>6, <1>8, <2>1, <3>1
  <2>2. CASE m # j
    BY <1>2, <1>5, <1>6, <1>7, <1>9, <2>2
  <2> QED BY <2>1, <2>2
<1> QED
  BY <1>10, <1>11, <1>12 DEF j

\* The parser's stack holds the open maps, the outer ones first.
StackOf(file, i, open, L, js) ==
    /\ L \in Nat /\ js \in [1..L -> StillOpen(file, i)]
    /\ \A m \in StillOpen(file, i) : \E n \in 1..L : js[n] = m
    /\ \A a, b \in 1..L : a < b => js[a] < js[b]
    /\ open = [n \in 1..L |-> OpenMap(file, js[n])]

LEMMA StackIsSequence ==
  ASSUME NEW file, NEW L \in Nat, NEW js, NEW open, open = [n \in 1..L |-> OpenMap(file, js[n])], NEW e
  PROVE  /\ Len(open) = L
         /\ \E S : open \in Seq(S) /\ e \in S
         /\ \A k \in 0..L : SubSeq(open, 1, k) = [n \in 1..k |-> OpenMap(file, js[n])]
<1> DEFINE S == {open[n] : n \in 1..L} \cup {e}
<1>1. open \in [1..L -> S]
  OBVIOUS
<1>2. open \in Seq(S) /\ Len(open) = L /\ e \in S
  BY <1>1
<1>3. ASSUME NEW k \in 0..L PROVE SubSeq(open, 1, k) = [n \in 1..k |-> OpenMap(file, js[n])]
  <2>1. \A n \in 1..k : n \in 1..L
    OBVIOUS
  <2>2. SubSeq(open, 1, k) = [n \in 1..k |-> open[n]]
    <3>1. k \in Nat /\ \A n \in 1..k : n + 1 - 1 = n
      OBVIOUS
    <3> HIDE DEF S
    <3> QED BY <1>2, <3>1
  <2> QED BY <2>1, <2>2
<1> HIDE DEF S
<1> QED
  BY <1>2, <1>3

\* What a line leaves on the stack are the maps around it, and its path is made of them.
LEMMA StackNext ==
  ASSUME NEW file, Lined(file), NoValue # ListItem, NEW i \in Nat, i < Len(file),
         NEW open, NEW L, NEW js, StackOf(file, i, open, L, js)
  PROVE  \E K \in 0..L :
           LET left == still_open(open, file[i+1].indent)
           IN  /\ left = [n \in 1..K |-> OpenMap(file, js[n])]
               /\ \A m : m \in Around(file, i + 1) <=> \E n \in 1..K : js[n] = m
               /\ \A n \in 1..K : js[n] \in 1..i
               /\ Append(IF left = <<>> THEN <<>> ELSE Last(left).path, file[i+1].key)
                    = PathOf(file, i + 1)
<1> DEFINE j == i + 1
           T == {n \in DOMAIN open : open[n].indent < file[j].indent}
           K == Max({0} \cup T)
           left == still_open(open, file[j].indent)
<1>1. /\ Len(file) \in Nat /\ DOMAIN file = 1..Len(file)
      /\ \A k \in DOMAIN file : file[k].indent \in Nat
  BY LinesAreRecords
<1>2. j \in DOMAIN file /\ \A m \in 1..i : m \in DOMAIN file /\ m \in Nat
  BY <1>1
<1>3. /\ L \in Nat /\ \A n \in 1..L : js[n] \in StillOpen(file, i)
      /\ \A m \in StillOpen(file, i) : \E n \in 1..L : js[n] = m
      /\ \A a, b \in 1..L : a < b => js[a] < js[b]
      /\ open = [n \in 1..L |-> OpenMap(file, js[n])]
  BY DEF StackOf
<1>4. DOMAIN open = 1..L /\ \A n \in 1..L : open[n].indent = file[js[n]].indent
                                            /\ open[n].path = PathOf(file, js[n])
  BY <1>3 DEF OpenMap
<1>5. \A m \in StillOpen(file, i) :
        /\ m \in 1..i /\ file[m].value = NoValue
        /\ \A k \in m+1..i : file[k].value # ListItem => file[k].indent > file[m].indent
  BY DEF StillOpen
<1>6. ASSUME NEW a \in 1..L, NEW b \in 1..L, a < b PROVE file[js[a]].indent < file[js[b]].indent
  <2>1. js[a] \in 1..i /\ js[b] \in 1..i /\ js[a] < js[b] /\ file[js[b]].value # ListItem
    BY <1>3, <1>5, <1>6
  <2>2. js[b] \in js[a]+1..i
    BY <2>1
  <2>3. file[js[b]].indent > file[js[a]].indent
    BY <1>3, <1>5, <2>1, <2>2
  <2>4. file[js[b]].indent \in Nat /\ file[js[a]].indent \in Nat
    BY <1>1, <1>2, <2>1
  <2> QED BY <2>3, <2>4
<1>7. Around(file, j) = {m \in StillOpen(file, i) : file[m].indent < file[j].indent}
  BY OpenNext
<1> HIDE DEF j
<1>8. \A n : n \in T <=> n \in 1..L /\ file[js[n]].indent < file[j].indent
  BY <1>4
<1>9. \A m : m \in Around(file, j) <=> \E n \in T : js[n] = m
  BY <1>3, <1>7, <1>8
<1> HIDE DEF T
<1>10. K \in {0} \cup T /\ \A n \in {0} \cup T : n <= K
  <2>1. {0} \cup T \in SUBSET (0..L) /\ {0} \cup T # {}
    BY <1>3, <1>8
  <2> QED BY <1>3, <2>1, Greatest
<1> HIDE DEF K
<1>11. K \in 0..L
  BY <1>3, <1>8, <1>10
<1>12. \A n : n \in T <=> n \in 1..K
  <2>1. ASSUME NEW n \in T PROVE n \in 1..K
    BY <1>3, <1>8, <1>10, <1>11, <2>1
  <2>2. ASSUME NEW n \in 1..K PROVE n \in T
    <3>1. K \in T /\ K \in 1..L /\ n \in 1..L
      BY <1>3, <1>8, <1>10, <1>11
    <3>2. CASE n = K
      BY <3>1, <3>2
    <3>3. CASE n # K
      <4>1. n < K
        BY <1>11, <3>3
      <4>2. file[js[n]].indent < file[js[K]].indent /\ file[js[K]].indent < file[j].indent
        BY <1>6, <1>8, <3>1, <4>1
      <4>3. file[js[n]].indent \in Nat /\ file[js[K]].indent \in Nat /\ file[j].indent \in Nat
        BY <1>1, <1>2, <1>3, <1>5, <3>1
      <4>4. file[js[n]].indent < file[j].indent
        <5>1. \A x, y, z \in Nat : x < y /\ y < z => x < z
          OBVIOUS
        <5> QED BY <4>2, <4>3, <5>1, Zenon
      <4> QED BY <1>8, <3>1, <4>4
    <3> QED BY <3>2, <3>3
  <2> QED BY <2>1, <2>2
<1>13. left = [n \in 1..K |-> OpenMap(file, js[n])]
  <2>1. left = SubSeq(open, 1, K)
    BY DEF still_open, K, T
  <2>2. \A k \in 0..L : SubSeq(open, 1, k) = [n \in 1..k |-> OpenMap(file, js[n])]
    BY <1>3, StackIsSequence
  <2> HIDE DEF left
  <2> QED BY <1>11, <2>1, <2>2
<1>14. \A m : m \in Around(file, j) <=> \E n \in 1..K : js[n] = m
  BY <1>9, <1>12
<1>15. \A n \in 1..K : js[n] \in 1..i /\ n \in 1..L
  BY <1>3, <1>5, <1>8, <1>12
<1> HIDE DEF left
<1>16. Append(IF left = <<>> THEN <<>> ELSE Last(left).path, file[j].key) = PathOf(file, j)
  <2>1. Len(left) = K
    BY <1>11, <1>13, StackIsSequence
  <2>2. CASE K = 0
    <3>1. left = <<>>
      BY <1>13, <2>2
    <3>2. Around(file, j) = {}
      BY <1>14, <2>2
    <3> QED BY <1>2, <3>1, <3>2, AroundIt
  <2>3. CASE K # 0
    <3>1. K \in 1..K /\ left # <<>>
      <4>1. K \in 1..K
        BY <1>11, <2>3
      <4>2. Len(<<>>) = 0
        OBVIOUS
      <4> QED BY <2>1, <2>3, <4>1, <4>2
    <3>2. Last(left).path = PathOf(file, js[K])
      <4>1. left[K] = OpenMap(file, js[K])
        BY <1>13, <3>1
      <4> QED BY <2>1, <4>1 DEF Last, OpenMap
    <3>3. js[K] \in Around(file, j)
      BY <1>14, <3>1
    <3>4. \A x \in Around(file, j) : x <= js[K]
      <4> SUFFICES ASSUME NEW n \in 1..K PROVE js[n] <= js[K]
        BY <1>14
      <4>1. js[n] \in Nat /\ js[K] \in Nat
        BY <1>2, <1>15, <3>1
      <4>2. n < K => js[n] < js[K]
        BY <1>3, <1>15, <3>1
      <4>3. n < K \/ n = K
        BY <1>11
      <4> QED BY <4>1, <4>2, <4>3
    <3>5. PathOf(file, j) = Append(PathOf(file, js[K]), file[j].key)
      BY <1>2, <3>3, <3>4, AroundIt
    <3> QED BY <3>1, <3>2, <3>5
  <2> QED BY <2>2, <2>3
<1> QED
  BY <1>11, <1>13, <1>14, <1>15, <1>16 DEF j, left

\* After a line the stack holds the maps that are open then.
LEMMA StackAfter ==
  ASSUME NEW file, Lined(file), NoValue # ListItem, NEW i \in Nat, i < Len(file),
         NEW L, NEW js, NEW open, StackOf(file, i, open, L, js), NEW K \in 0..L,
         NEW left, left = [n \in 1..K |-> OpenMap(file, js[n])],
         \A m : m \in Around(file, i + 1) <=> \E n \in 1..K : js[n] = m,
         \A n \in 1..K : js[n] \in 1..i,
         file[i+1].value # ListItem
  PROVE  /\ file[i+1].value # NoValue => \E N, ks : StackOf(file, i + 1, left, N, ks)
         /\ file[i+1].value = NoValue =>
              \E N, ks : StackOf(file, i + 1, Append(left, OpenMap(file, i + 1)), N, ks)
<1> DEFINE j == i + 1
<1>1. /\ L \in Nat /\ K \in Nat /\ \A a, b \in 1..K : a \in 1..L /\ b \in 1..L
      /\ \A a, b \in 1..L : a < b => js[a] < js[b]
  <2>1. L \in Nat /\ \A a, b \in 1..L : a < b => js[a] < js[b]
    BY DEF StackOf
  <2> QED BY <2>1
<1>2. StillOpen(file, j) = Around(file, j) \cup (IF file[j].value = NoValue THEN {j} ELSE {})
  BY OpenNext
<1>3. \A n \in 1..K : js[n] < j /\ js[n] \in Nat
  OBVIOUS
<1>4. j \in Nat
  OBVIOUS
<1> HIDE DEF j
<1>5. \A m : m \in Around(file, j) <=> \E n \in 1..K : js[n] = m
  BY DEF j
<1>6. ASSUME file[j].value # NoValue PROVE \E N, ks : StackOf(file, j, left, N, ks)
  <2> DEFINE ks == [n \in 1..K |-> js[n]]
  <2>1. StillOpen(file, j) = Around(file, j)
    BY <1>2, <1>6
  <2>2. ks \in [1..K -> StillOpen(file, j)] /\ \A m \in StillOpen(file, j) : \E n \in 1..K : ks[n] = m
    BY <1>5, <2>1
  <2>3. \A a, b \in 1..K : a < b => ks[a] < ks[b]
    BY <1>1
  <2>4. left = [n \in 1..K |-> OpenMap(file, ks[n])]
    OBVIOUS
  <2> HIDE DEF ks
  <2>5. StackOf(file, j, left, K, ks)
    BY <1>1, <2>2, <2>3, <2>4 DEF StackOf
  <2> QED BY <2>5
<1>7. ASSUME file[j].value = NoValue
      PROVE  \E N, ks : StackOf(file, j, Append(left, OpenMap(file, j)), N, ks)
  <2> DEFINE N == K + 1
             ks == [n \in 1..N |-> IF n = N THEN j ELSE js[n]]
  <2>1. \A m : m \in StillOpen(file, j) <=> m \in Around(file, j) \/ m = j
    BY <1>2, <1>7
  <2>2. N \in Nat /\ N \in 1..N /\ (\A n \in 1..N : n # N => n \in 1..K) /\ (\A n \in 1..K : n \in 1..N /\ n # N)
    BY <1>1
  <2>3. ks[N] = j /\ \A n \in 1..K : ks[n] = js[n]
    BY <2>2
  <2>4. DOMAIN ks = 1..N /\ \A n \in 1..N : ks[n] \in StillOpen(file, j)
    BY <1>5, <2>1, <2>2, <2>3
  <2>5. ks \in [1..N -> StillOpen(file, j)]
    BY <2>4
  <2>6. \A m \in StillOpen(file, j) : \E n \in 1..N : ks[n] = m
    <3> SUFFICES ASSUME NEW m \in StillOpen(file, j) PROVE \E n \in 1..N : ks[n] = m
      OBVIOUS
    <3>1. CASE m = j
      BY <2>2, <2>3, <3>1
    <3>2. CASE m # j
      <4>1. PICK n \in 1..K : js[n] = m
        BY <1>5, <2>1, <3>2
      <4> QED BY <2>2, <2>3, <4>1
    <3> QED BY <3>1, <3>2
  <2>7. ASSUME NEW a \in 1..N, NEW b \in 1..N, a < b PROVE ks[a] < ks[b]
    <3>1. a \in 1..K
      BY <1>1, <2>7
    <3>2. CASE b = N
      BY <1>3, <2>3, <3>1, <3>2
    <3>3. CASE b # N
      <4>1. b \in 1..K
        BY <2>2, <3>3
      <4> QED BY <1>1, <2>3, <2>7, <3>1, <4>1
    <3> QED BY <3>2, <3>3
  <2>8. Append(left, OpenMap(file, j)) = [n \in 1..N |-> OpenMap(file, ks[n])]
    <3> DEFINE e == OpenMap(file, j)
    <3> HIDE DEF e
    <3> DEFINE S == {left[n] : n \in 1..K} \cup {e}
    <3>0. left \in [1..K -> S] /\ e \in S
      OBVIOUS
    <3> HIDE DEF S
    <3>1. left \in Seq(S) /\ e \in S
      BY <1>1, <3>0
    <3>2. Len(left) = K
      BY <1>1, StackIsSequence
    <3> HIDE DEF e, ks
    <3>3. Append(left, e) = [n \in 1..N |-> IF n = N THEN e ELSE left[n]]
      BY <1>1, <3>1, <3>2
    <3>4. \A n \in 1..N : (IF n = N THEN e ELSE left[n]) = OpenMap(file, ks[n])
      BY <2>2, <2>3 DEF e
    <3> QED BY <3>3, <3>4 DEF e
  <2> HIDE DEF ks, N
  <2>9. StackOf(file, j, Append(left, OpenMap(file, j)), N, ks)
    BY <2>2, <2>5, <2>6, <2>7, <2>8 DEF StackOf
  <2> QED BY <2>9
<1> QED
  BY <1>6, <1>7 DEF j

\* The map holds the scalars that nothing below has overwritten so far.
Kept(file, i) ==
    {k \in 1..i : /\ file[k].value \notin {NoValue, ListItem}
                  /\ \A l \in k+1..i : file[l].value # ListItem
                                         => ~IsPrefix(PathOf(file, l), PathOf(file, k))}
MapOf(file, i, map) ==
    /\ DOMAIN map = {PathOf(file, k) : k \in Kept(file, i)}
    /\ \A k \in Kept(file, i) : map[PathOf(file, k)] = file[k].value

LEMMA KeptNext ==
  ASSUME NEW file, NEW i \in Nat
  PROVE  /\ file[i+1].value = ListItem => Kept(file, i + 1) = Kept(file, i)
         /\ file[i+1].value # ListItem =>
              \A k : k \in Kept(file, i + 1) <=>
                       \/ k \in Kept(file, i) /\ ~IsPrefix(PathOf(file, i + 1), PathOf(file, k))
                       \/ k = i + 1 /\ file[i+1].value # NoValue
<1> DEFINE j == i + 1
           Stays(k, n) == \A l \in k+1..n : file[l].value # ListItem
                                              => ~IsPrefix(PathOf(file, l), PathOf(file, k))
<1>1. \A k : /\ k \in Kept(file, i) <=> k \in 1..i /\ file[k].value \notin {NoValue, ListItem} /\ Stays(k, i)
             /\ k \in Kept(file, j) <=> k \in 1..j /\ file[k].value \notin {NoValue, ListItem} /\ Stays(k, j)
  BY DEF Kept
<1>2. 1..j = 1..i \cup {j} /\ \A k \in 1..i : k+1..j = k+1..i \cup {j} /\ k # j
  OBVIOUS
<1>3. j+1..j = {}
  OBVIOUS
<1>4. Stays(j, j)
  BY <1>3
<1>5. ASSUME NEW k \in 1..i
      PROVE  Stays(k, j) <=> (Stays(k, i) /\ (file[j].value # ListItem
                                                => ~IsPrefix(PathOf(file, j), PathOf(file, k))))
  <2>1. \A l : l \in k+1..j <=> l \in k+1..i \/ l = j
    BY <1>2
  <2> HIDE DEF j
  <2> QED BY <2>1
<1> HIDE DEF Stays, j
<1>6. file[j].value = ListItem => Kept(file, j) = Kept(file, i)
  BY <1>1, <1>2, <1>5
<1>7. ASSUME file[j].value # ListItem, NEW k
      PROVE  k \in Kept(file, j) <=>
                       \/ k \in Kept(file, i) /\ ~IsPrefix(PathOf(file, j), PathOf(file, k))
                       \/ k = j /\ file[j].value # NoValue
  BY <1>1, <1>2, <1>4, <1>5, <1>7
<1> QED
  BY <1>6, <1>7 DEF j

LEMMA MapNext ==
  ASSUME NEW file, Lined(file), NoValue # ListItem, NEW i \in Nat,
         NEW map, MapOf(file, i, map), file[i+1].value # ListItem
  PROVE  LET path == PathOf(file, i + 1)
             rest == without(map, path)
         IN  /\ file[i+1].value = NoValue => MapOf(file, i + 1, rest)
             /\ file[i+1].value # NoValue =>
                  MapOf(file, i + 1, [p \in DOMAIN rest \cup {path} |->
                                        IF p = path THEN file[i+1].value ELSE rest[p]])
<1> DEFINE j == i + 1
           P == PathOf(file, j)
           rest == without(map, P)
           more == [p \in DOMAIN rest \cup {P} |-> IF p = P THEN file[j].value ELSE rest[p]]
<1>1. IsPrefix(P, P)
  <2>1. PICK S : P \in Seq(S)
    BY PathsAreSequences
  <2>2. Len(P) \in Nat
    BY <2>1
  <2> QED BY <2>2 DEF IsPrefix
<1>2. \A k : k \in Kept(file, j) <=>
               \/ k \in Kept(file, i) /\ ~IsPrefix(P, PathOf(file, k))
               \/ k = j /\ file[j].value # NoValue
  BY KeptNext
<1>3. /\ \A p : p \in DOMAIN map <=> \E k \in Kept(file, i) : p = PathOf(file, k)
      /\ \A k \in Kept(file, i) : map[PathOf(file, k)] = file[k].value
  BY DEF MapOf
<1>4. /\ \A p : p \in DOMAIN rest <=> p \in DOMAIN map /\ ~IsPrefix(P, p)
      /\ \A p \in DOMAIN rest : rest[p] = map[p]
  BY DEF without
<1>5. /\ \A p : p \in DOMAIN more <=> p \in DOMAIN rest \/ p = P
      /\ \A p \in DOMAIN more : more[p] = IF p = P THEN file[j].value ELSE rest[p]
  OBVIOUS
<1>6. j \notin Kept(file, i)
  <2>1. j \notin 1..i
    OBVIOUS
  <2> QED BY <2>1 DEF Kept
<1> HIDE DEF j, P, rest, more
<1>7. ASSUME file[j].value = NoValue PROVE MapOf(file, j, rest)
  <2>1. \A p : p \in DOMAIN rest <=> \E k \in Kept(file, j) : p = PathOf(file, k)
    BY <1>2, <1>3, <1>4, <1>7
  <2>2. \A k \in Kept(file, j) : rest[PathOf(file, k)] = file[k].value
    BY <1>2, <1>3, <1>4, <1>7
  <2>3. DOMAIN rest = {PathOf(file, k) : k \in Kept(file, j)}
    BY <2>1
  <2> QED BY <2>2, <2>3 DEF MapOf
<1>8. ASSUME file[j].value # NoValue PROVE MapOf(file, j, more)
  <2>1. \A k : k \in Kept(file, j) <=> (k \in Kept(file, i) /\ ~IsPrefix(P, PathOf(file, k))) \/ k = j
    BY <1>2, <1>8
  <2>2. P = PathOf(file, j)
    BY DEF P
  <2>3. \A p : p \in DOMAIN more <=> \E k \in Kept(file, j) : p = PathOf(file, k)
    <3> SUFFICES ASSUME NEW p
                 PROVE  p \in DOMAIN more <=> \E k \in Kept(file, j) : p = PathOf(file, k)
      OBVIOUS
    <3>1. p \in DOMAIN rest <=> \E k \in Kept(file, i) : p = PathOf(file, k) /\ ~IsPrefix(P, p)
      BY <1>3, <1>4
    <3> QED BY <1>5, <2>1, <2>2, <3>1
  <2>4. ASSUME NEW k \in Kept(file, j) PROVE more[PathOf(file, k)] = file[k].value
    <3>1. PathOf(file, k) \in DOMAIN more
      BY <2>3
    <3>2. CASE k = j
      BY <1>5, <2>2, <3>1, <3>2
    <3>3. CASE k # j
      <4>1. k \in Kept(file, i) /\ ~IsPrefix(P, PathOf(file, k))
        BY <2>1, <3>3
      <4>2. PathOf(file, k) # P /\ PathOf(file, k) \in DOMAIN rest
        BY <1>1, <1>3, <1>4, <4>1
      <4> QED BY <1>3, <1>4, <1>5, <3>1, <4>1, <4>2
    <3> QED BY <3>2, <3>3
  <2>5. DOMAIN more = {PathOf(file, k) : k \in Kept(file, j)}
    BY <2>3
  <2> QED BY <2>4, <2>5 DEF MapOf
<1> QED
  BY <1>7, <1>8 DEF j, P, rest, more

\* What the parser knows after i lines is what they say.
LinesSay(file, i, s) ==
    (\E L, js : StackOf(file, i, s.open, L, js)) /\ MapOf(file, i, s.map)

LEMMA LineNext ==
  ASSUME NEW file, Lined(file), NoValue # ListItem, NEW i \in Nat, i < Len(file),
         NEW s, LinesSay(file, i, s)
  PROVE  LinesSay(file, i + 1, parse_line(s, file[i+1]))
<1> DEFINE j == i + 1
           line == file[j]
           left == still_open(s.open, line.indent)
           path == Append(IF left = <<>> THEN <<>> ELSE Last(left).path, line.key)
           rest == without(s.map, path)
           more == [p \in DOMAIN rest \cup {path} |-> IF p = path THEN line.value ELSE rest[p]]
<1>1. PICK L, js : StackOf(file, i, s.open, L, js)
  BY DEF LinesSay
<1>2. MapOf(file, i, s.map)
  BY DEF LinesSay
<1>3. parse_line(s, line) =
        IF line.value = ListItem THEN s
        ELSE IF line.value = NoValue
        THEN [open |-> Append(left, [indent |-> line.indent, path |-> path]), map |-> rest]
        ELSE [open |-> left, map |-> more]
  BY Zenon DEF parse_line
<1>4. PICK K \in 0..L :
        /\ left = [n \in 1..K |-> OpenMap(file, js[n])]
        /\ \A m : m \in Around(file, i + 1) <=> \E n \in 1..K : js[n] = m
        /\ \A n \in 1..K : js[n] \in 1..i
        /\ path = PathOf(file, i + 1)
  BY <1>1, StackNext
<1>5. CASE line.value = ListItem
  <2>1. StillOpen(file, j) = StillOpen(file, i) /\ Kept(file, j) = Kept(file, i)
    BY <1>5, OpenNext, KeptNext
  <2>2. StackOf(file, j, s.open, L, js)
    BY <1>1, <2>1 DEF StackOf
  <2>3. MapOf(file, j, s.map)
    BY <1>2, <2>1 DEF MapOf
  <2> HIDE DEF line, j
  <2>4. parse_line(s, line) = s
    BY <1>3, <1>5
  <2> QED BY <2>2, <2>3, <2>4 DEF LinesSay, line, j
<1>6. CASE line.value # ListItem /\ line.value = NoValue
  <2>1. \E N, ks : StackOf(file, j, Append(left, OpenMap(file, j)), N, ks)
    <3> HIDE DEF left, path
    <3> QED BY <1>1, <1>4, <1>6, StackAfter
  <2>2. MapOf(file, j, rest)
    <3> HIDE DEF left, path
    <3> QED BY <1>2, <1>4, <1>6, MapNext
  <2>3. OpenMap(file, j) = [indent |-> line.indent, path |-> path]
    BY <1>4 DEF OpenMap
  <2> HIDE DEF left, rest, path, line, j
  <2> DEFINE t == parse_line(s, line)
  <2>4. t.open = Append(left, OpenMap(file, j)) /\ t.map = rest
    BY <1>3, <1>6, <2>3
  <2> HIDE DEF t
  <2>5. LinesSay(file, j, t)
    BY <2>1, <2>2, <2>4 DEF LinesSay
  <2> QED BY <2>5 DEF t, line, j
<1>7. CASE line.value # ListItem /\ line.value # NoValue
  <2>1. \E N, ks : StackOf(file, j, left, N, ks)
    <3> HIDE DEF left, path
    <3> QED BY <1>1, <1>4, <1>7, StackAfter
  <2>2. MapOf(file, j, more)
    <3> HIDE DEF left, path
    <3> DEFINE Q == PathOf(file, i + 1)
               kept == without(s.map, Q)
    <3>1. MapOf(file, i + 1, [p \in DOMAIN kept \cup {Q} |->
                                IF p = Q THEN file[i+1].value ELSE kept[p]])
      BY <1>2, <1>7, MapNext
    <3> HIDE DEF Q
    <3>2. path = Q
      BY <1>4 DEF Q
    <3> QED BY <3>1, <3>2
  <2> HIDE DEF left, rest, path, more, line, j
  <2> DEFINE t == parse_line(s, line)
  <2>4. t.open = left /\ t.map = more
    BY <1>3, <1>7
  <2> HIDE DEF t
  <2>5. LinesSay(file, j, t)
    BY <2>1, <2>2, <2>4 DEF LinesSay
  <2> QED BY <2>5 DEF t, line, j
<1> QED
  BY <1>5, <1>6, <1>7

\* parse goes through the lines, one after the other.
Start == [open |-> <<>>, map |-> <<>>]
Passes(file, n, f) ==
    f = [i \in 0..n |-> IF i = 0 THEN Start ELSE parse_line(f[i-1], file[i])]

LEMMA ParsePasses ==
  ASSUME NEW file, Len(file) \in Nat
  PROVE  \E f : Passes(file, Len(file), f) /\ parse(file) = f[Len(file)].map
<1> DEFINE Good == {n \in Nat : \E f : Passes(file, n, f)}
<1>1. 0 \in Good
  <2> DEFINE f == [i \in 0..0 |-> Start]
  <2>1. \A i \in 0..0 : i = 0
    OBVIOUS
  <2>2. Passes(file, 0, f)
    BY <2>1 DEF Passes
  <2> QED BY <2>2
<1>2. ASSUME NEW n \in Nat, n \in Good PROVE n + 1 \in Good
  <2>1. PICK f : Passes(file, n, f)
    BY <1>2
  <2> DEFINE m == n + 1
             g == [i \in 0..m |-> IF i = m THEN parse_line(f[n], file[m]) ELSE f[i]]
             h == [i \in 0..m |-> IF i = 0 THEN Start ELSE parse_line(g[i-1], file[i])]
  <2>2. /\ \A i \in 0..m : i # m => i \in 0..n /\ (i # 0 => i - 1 \in 0..m /\ i - 1 # m)
        /\ m \in 0..m /\ m # 0 /\ n \in 0..m /\ n # m /\ m - 1 = n
    OBVIOUS
  <2>3. \A i \in 0..n : f[i] = IF i = 0 THEN Start ELSE parse_line(f[i-1], file[i])
    <3> DEFINE fn == [i \in 0..n |-> IF i = 0 THEN Start ELSE parse_line(f[i-1], file[i])]
    <3>1. f = fn
      BY <2>1 DEF Passes
    <3>2. \A i \in 0..n : fn[i] = IF i = 0 THEN Start ELSE parse_line(f[i-1], file[i])
      OBVIOUS
    <3> HIDE DEF fn
    <3> QED BY <3>1, <3>2
  <2>4. \A i \in 0..m : g[i] = IF i = m THEN parse_line(f[n], file[m]) ELSE f[i]
    OBVIOUS
  <2>5. \A i \in 0..m : h[i] = IF i = 0 THEN Start ELSE parse_line(g[i-1], file[i])
    OBVIOUS
  <2>6. DOMAIN g = 0..m /\ DOMAIN h = 0..m /\ g = [i \in 0..m |-> g[i]] /\ h = [i \in 0..m |-> h[i]]
    OBVIOUS
  <2> HIDE DEF g, h, m
  <2>7. ASSUME NEW i \in 0..m PROVE g[i] = h[i]
    <3>1. CASE i = m
      <4>1. g[n] = f[n]
        BY <2>2, <2>4
      <4> QED BY <2>2, <2>4, <2>5, <3>1, <4>1
    <3>2. CASE i # m /\ i # 0
      <4>1. g[i-1] = f[i-1]
        BY <2>2, <2>4, <3>2
      <4> QED BY <2>2, <2>3, <2>4, <2>5, <3>2, <4>1
    <3>3. CASE i = 0
      BY <2>2, <2>3, <2>4, <2>5, <3>3
    <3> QED BY <3>1, <3>2, <3>3
  <2>8. g = h
    BY <2>6, <2>7
  <2>9. Passes(file, m, g)
    BY <2>8 DEF Passes, h
  <2> QED BY <2>9 DEF m
<1>3. Len(file) \in Good
  <2> HIDE DEF Good
  <2> QED BY <1>1, <1>2, FromOneToTheNext
<1>4. \E f : Passes(file, Len(file), f)
  BY <1>3
<1> DEFINE f == CHOOSE f : Passes(file, Len(file), f)
<1>5. Passes(file, Len(file), f)
  BY <1>4
<1>6. parse(file) = f[Len(file)].map
  BY DEF parse, Passes, Start
<1> QED
  BY <1>5, <1>6

\* What is parsed is what the lines say.
LEMMA ParsedAsSaid ==
  ASSUME NEW file, Lined(file), NoValue # ListItem
  PROVE  MapOf(file, Len(file), parse(file))
<1> DEFINE n == Len(file)
<1>1. n \in Nat
  BY LinesAreRecords
<1>2. PICK f : Passes(file, n, f) /\ parse(file) = f[n].map
  BY <1>1, ParsePasses
<1>3. \A i \in 0..n : f[i] = IF i = 0 THEN Start ELSE parse_line(f[i-1], file[i])
  <2> DEFINE fn == [i \in 0..n |-> IF i = 0 THEN Start ELSE parse_line(f[i-1], file[i])]
  <2>1. f = fn
    BY <1>2 DEF Passes
  <2>2. \A i \in 0..n : fn[i] = IF i = 0 THEN Start ELSE parse_line(f[i-1], file[i])
    OBVIOUS
  <2> HIDE DEF fn
  <2> QED BY <2>1, <2>2
<1> DEFINE Good == {i \in Nat : i <= n => LinesSay(file, i, f[i])}
<1>4. 0 \in Good
  <2>1. f[0] = Start
    BY <1>1, <1>3
  <2>2. StackOf(file, 0, <<>>, 0, <<>>)
    <3>1. StillOpen(file, 0) = {} /\ 1..0 = {}
      BY DEF StillOpen
    <3> QED BY <3>1 DEF StackOf
  <2>3. MapOf(file, 0, <<>>)
    <3>1. Kept(file, 0) = {}
      BY DEF Kept
    <3> QED BY <3>1 DEF MapOf
  <2>4. Start.open = <<>> /\ Start.map = <<>>
    BY DEF Start
  <2>5. LinesSay(file, 0, Start)
    BY <2>2, <2>3, <2>4 DEF LinesSay
  <2> QED BY <2>1, <2>5
<1>5. ASSUME NEW i \in Nat, i \in Good PROVE i + 1 \in Good
  <2> SUFFICES ASSUME i + 1 <= n PROVE LinesSay(file, i + 1, f[i+1])
    OBVIOUS
  <2>1. i < n /\ i <= n /\ i + 1 \in 0..n /\ i + 1 # 0 /\ (i + 1) - 1 = i
    BY <1>1
  <2>2. LinesSay(file, i, f[i])
    BY <1>5, <2>1
  <2>3. f[i+1] = parse_line(f[i], file[i+1])
    BY <1>3, <2>1
  <2> QED BY <2>1, <2>2, <2>3, LineNext
<1>6. n \in Good
  <2> HIDE DEF Good
  <2> QED BY <1>1, <1>4, <1>5, FromOneToTheNext
<1> QED
  BY <1>1, <1>2, <1>6 DEF LinesSay

\* A configuration is what was parsed of its file.
Scalars(map) == [p \in DOMAIN map |-> scalar(map[p])]
ConfigInv ==
    config.state = "loaded" => /\ source \in ConfigFiles /\ ~cannot_parse(source)
                               /\ config.values = Scalars(parse(source))

\* A loaded file means what its indentation says, whatever its lines.
THEOREM FileAlwaysMeansItsIndentation == Spec => []FileMeansItsIndentation
<1>1. Init => ConfigInv
  BY DEF Init, SessionInit, ConfigInit, ConfigInv
<1>2. ConfigInv /\ [Next]_vars => ConfigInv'
  <2> SUFFICES ASSUME ConfigInv, [ConfigNext]_configVars PROVE ConfigInv'
    BY ConfigSteps
  <2>1. ASSUME NEW file \in ConfigFiles, NEW allow \in BOOLEAN, load(file, allow)
        PROVE  ConfigInv'
    <3>1. source' = file
      BY <2>1 DEF load
    <3>2. config'.state = "refused" \/ (~cannot_parse(file) /\ config'.values = Scalars(parse(file)))
      BY <2>1 DEF load, Scalars
    <3> QED BY <3>1, <3>2 DEF ConfigInv
  <2>2. CASE load_missing
    BY <2>2 DEF load_missing, ConfigInv
  <2>3. CASE UNCHANGED configVars
    BY <2>3 DEF configVars, ConfigInv
  <2> QED
    BY <2>1, <2>2, <2>3 DEF ConfigNext
<1>3. ConfigInv => FileMeansItsIndentation
  <2> SUFFICES ASSUME ConfigInv, config.state = "loaded" PROVE FileMeansItsIndentation
    BY DEF FileMeansItsIndentation
  <2> DEFINE n == Len(source)
             lines == {i \in DOMAIN source : source[i].value # ListItem}
             Overwrites(j, i) == j > i /\ IsPrefix(PathOf(source, j), PathOf(source, i))
             kept == {i \in lines : source[i].value # NoValue /\ ~\E j \in lines : Overwrites(j, i)}
  <2>1. /\ Lined(source) /\ NoValue # ListItem /\ config.values = Scalars(parse(source))
        /\ \A i \in DOMAIN source : source[i].value # NoColon
    BY ConfigAssumption DEF ConfigInv, Lined, cannot_parse
  <2>2. MapOf(source, n, parse(source))
    BY <2>1, ParsedAsSaid
  <2>3. n \in Nat /\ DOMAIN source = 1..n
    BY <2>1, LinesAreRecords
  <2>4. kept = Kept(source, n)
    <3> SUFFICES ASSUME NEW i \in 1..n
                 PROVE  (~\E j \in lines : Overwrites(j, i)) <=>
                        \A l \in i+1..n : source[l].value # ListItem
                                            => ~IsPrefix(PathOf(source, l), PathOf(source, i))
      BY <2>3 DEF Kept
    <3>1. \A l : l \in i+1..n <=> l \in 1..n /\ l > i
      BY <2>3
    <3> QED BY <2>3, <3>1
  <2> HIDE DEF kept
  <2>5. /\ DOMAIN parse(source) = {PathOf(source, i) : i \in kept}
        /\ \A i \in kept : parse(source)[PathOf(source, i)] = source[i].value
    BY <2>2, <2>4 DEF MapOf
  <2>6. /\ DOMAIN config.values = {PathOf(source, i) : i \in kept}
        /\ \A i \in kept : config.values[PathOf(source, i)] = scalar(source[i].value)
    BY <2>1, <2>5 DEF Scalars
  <2>7. \A i \in lines : source[i].value # NoColon
    BY <2>1
  <2> QED BY <2>6, <2>7 DEF FileMeansItsIndentation, kept
<1> QED
  BY <1>1, <1>2, <1>3, PTL DEF Spec

----------------------------------------------------------------------------
(* The lines of an invoice.                                                 *)

\* What each line comes to, and one step of their sum.
Worths(rows) == [i \in DOMAIN rows |-> [cost |-> rows[i].quantity * rows[i].unit_price]]
NetStep(rows, f, s) ==
    IF s = {} THEN 0
    ELSE rows[CHOOSE x \in s : TRUE].quantity * rows[CHOOSE x \in s : TRUE].unit_price
         + f[s \ {CHOOSE x \in s : TRUE}]
PricedLines == Seq([quantity : Nat, unit_price : Nat])

LEMMA LinesAreWorth ==
  ASSUME NEW rows \in PricedLines
  PROVE  /\ DOMAIN Worths(rows) = 1..Len(rows) /\ Len(rows) \in Nat /\ IsFiniteSet(1..Len(rows))
         /\ \A i \in 1..Len(rows) : /\ Worths(rows)[i].cost \in Nat
                                    /\ Worths(rows)[i].cost = rows[i].quantity * rows[i].unit_price
                                    /\ rows[i].quantity \in Nat /\ rows[i].unit_price \in Nat
<1>1. rows \in [1..Len(rows) -> [quantity : Nat, unit_price : Nat]] /\ Len(rows) \in Nat
      /\ DOMAIN rows = 1..Len(rows)
  <2> DEFINE R == [quantity : Nat, unit_price : Nat]
  <2>1. rows \in Seq(R)
    BY DEF PricedLines
  <2> HIDE DEF R
  <2>2. rows \in [1..Len(rows) -> R] /\ Len(rows) \in Nat /\ DOMAIN rows = 1..Len(rows)
    BY <2>1
  <2> QED BY <2>2 DEF R
<1>2. \A i \in 1..Len(rows) : rows[i].quantity \in Nat /\ rows[i].unit_price \in Nat
  BY <1>1
<1>3. \A m, n \in Nat : m * n \in Nat
  OBVIOUS
<1>4. DOMAIN Worths(rows) = 1..Len(rows)
  BY <1>1 DEF Worths
<1>5. \A i \in 1..Len(rows) : Worths(rows)[i].cost = rows[i].quantity * rows[i].unit_price
  BY <1>1 DEF Worths
<1>6. IsFiniteSet(1..Len(rows))
  BY <1>1, FS_Interval
<1> QED
  BY <1>1, <1>2, <1>3, <1>4, <1>5, <1>6

\* What the lines come to is a total.
LEMMA NetIsTotal ==
  ASSUME NEW rows \in PricedLines
  PROVE  net_of(rows) = Total(Worths(rows), 1..Len(rows)) /\ net_of(rows) \in Nat
<1> DEFINE S == 1..Len(rows)
           W == Worths(rows)
           f == CHOOSE g : g = [s \in SUBSET S |-> NetStep(rows, g, s)]
           Good == {s \in SUBSET S : f[s] = Total(W, s)}
<1>1. DOMAIN rows = S
  BY DEF PricedLines
<1>2. net_of(rows) = f[S]
  <2>1. net_of(rows) = (CHOOSE g : g = [s \in SUBSET DOMAIN rows |-> NetStep(rows, g, s)])[DOMAIN rows]
    BY DEF net_of, FoldSeq, FoldFunction, FoldFunctionOnSet, MapThenFoldSet, NetStep
  <2> QED BY <1>1, <2>1
<1>3. /\ IsFiniteSet(S) /\ \A i \in S : W[i].cost \in Nat
      /\ \A i \in S : W[i].cost = rows[i].quantity * rows[i].unit_price
  BY LinesAreWorth
<1>4. ASSUME NEW g, NEW s \in SUBSET S PROVE NetStep(rows, g, s) = Adds(W, g, s)
  <2>1. CASE s = {}
    BY <2>1 DEF NetStep, Adds
  <2>2. CASE s # {}
    <3> DEFINE x == CHOOSE y \in s : TRUE
    <3>1. x \in s
      BY <2>2
    <3>2. x \in S
      BY <3>1
    <3>3. W[x].cost = rows[x].quantity * rows[x].unit_price
      <4> HIDE DEF x, W, S
      <4> QED BY <1>3, <3>2
    <3>4. /\ NetStep(rows, g, s) = rows[x].quantity * rows[x].unit_price + g[s \ {x}]
          /\ Adds(W, g, s) = W[x].cost + g[s \ {x}]
      <4> HIDE DEF W
      <4> QED BY <2>2 DEF NetStep, Adds
    <3> QED BY <3>3, <3>4
  <2> QED BY <2>1, <2>2
<1>5. \E g : g = [s \in SUBSET S |-> NetStep(rows, g, s)]
  <2>1. PICK g : g = [s \in SUBSET S |-> Adds(W, g, s)]
    <3> HIDE DEF W, S
    <3> QED BY <1>3, TotalDefined
  <2>2. [s \in SUBSET S |-> Adds(W, g, s)] = [s \in SUBSET S |-> NetStep(rows, g, s)]
    <3> HIDE DEF W, S
    <3> QED BY <1>4
  <2> QED BY <2>1, <2>2
<1>6. f = [s \in SUBSET S |-> NetStep(rows, f, s)]
  <2> HIDE DEF S
  <2> QED BY <1>5
<1>7. \A s \in SUBSET S : f[s] = Adds(W, f, s)
  <2> HIDE DEF f, S, W
  <2> QED BY <1>4, <1>6
<1> HIDE DEF f
<1>8. ASSUME NEW s \in SUBSET S,
             \A u \in SUBSET S : Cardinality(u) < Cardinality(s) => u \in Good
      PROVE  s \in Good
  <2>1. IsFiniteSet(s) /\ \A i \in s : W[i].cost \in Nat
    <3> HIDE DEF W, S
    <3> QED BY <1>3, FS_Subset
  <2>2. CASE s = {}
    <3>1. f[s] = 0
      BY <1>7, <2>2 DEF Adds
    <3>2. Total(W, s) = 0
      <4> HIDE DEF W
      <4> QED BY <2>1, <2>2, TotalUnfolds
    <3> QED BY <3>1, <3>2
  <2>3. CASE s # {}
    <3> DEFINE x == CHOOSE y \in s : TRUE
    <3>1. x \in s
      BY <2>3
    <3>2. f[s] = W[x].cost + f[s \ {x}]
      <4> HIDE DEF W, S
      <4> QED BY <1>7, <2>3 DEF Adds
    <3> HIDE DEF x, W, S
    <3>3. s \ {x} \in SUBSET S /\ Cardinality(s \ {x}) < Cardinality(s)
      BY <2>1, <3>1, OneLess
    <3>4. f[s \ {x}] = Total(W, s \ {x})
      BY <1>8, <3>3
    <3>5. Total(W, s) = W[x].cost + Total(W, s \ {x})
      BY <2>1, <3>1, TotalAdds
    <3> QED BY <3>2, <3>4, <3>5
  <2> QED BY <2>2, <2>3
<1>9. S \in Good
  <2>1. SUBSET S \subseteq Good
    <3> HIDE DEF Good, S, W
    <3> QED BY <1>3, <1>8, SmallestFirst
  <2> QED BY <2>1
<1>10. Total(W, S) \in Nat
  <2> HIDE DEF W, S
  <2> QED BY <1>3, TotalAdds
<1> QED
  BY <1>2, <1>9, <1>10

\* A digit misread in the price of the first line changes what the lines come to.
LEMMA DigitChangesNet ==
  ASSUME NEW rows \in PricedLines, rows # <<>>, rows[1].quantity # 0,
         NEW seen, seen = [rows EXCEPT ![1].unit_price = @ + 10]
  PROVE  /\ net_of(rows) \in Nat /\ net_of(seen) \in Nat
         /\ net_of(seen) >= net_of(rows) + 10
<1> DEFINE S == 1..Len(rows)
           R == [quantity : Nat, unit_price : Nat]
<1>1. rows \in Seq(R)
  BY DEF PricedLines
<1>2. rows[1] \in R /\ Len(rows) \in Nat /\ 1 \in S /\ Len(rows) # 0
  <2> HIDE DEF R
  <2> QED BY <1>1
<1>3. [rows[1] EXCEPT !.unit_price = @ + 10] \in R
  BY <1>2
<1>4. seen = [rows EXCEPT ![1] = [rows[1] EXCEPT !.unit_price = @ + 10]]
  OBVIOUS
<1>5. seen \in Seq(R) /\ Len(seen) = Len(rows)
  <2> HIDE DEF R
  <2> DEFINE e == [rows[1] EXCEPT !.unit_price = @ + 10]
  <2>1. e \in R /\ seen = [rows EXCEPT ![1] = e]
    BY <1>3, <1>4
  <2> HIDE DEF e
  <2> QED BY <1>1, <1>2, <2>1
<1>6. seen \in PricedLines
  BY <1>5 DEF PricedLines
<1>7. /\ seen[1].quantity = rows[1].quantity /\ seen[1].unit_price = rows[1].unit_price + 10
      /\ \A i \in S \ {1} : seen[i] = rows[i]
  <2>1. DOMAIN rows = S
    <3> HIDE DEF R
    <3> QED BY <1>1
  <2>2. seen[1] = [rows[1] EXCEPT !.unit_price = @ + 10] /\ \A i \in S \ {1} : seen[i] = rows[i]
    BY <1>2, <1>4, <2>1
  <2> QED BY <1>2, <2>2
<1>8. /\ IsFiniteSet(S)
      /\ \A i \in S : Worths(rows)[i].cost \in Nat /\ Worths(seen)[i].cost \in Nat
      /\ \A i \in S : Worths(rows)[i].cost = rows[i].quantity * rows[i].unit_price
      /\ \A i \in S : Worths(seen)[i].cost = seen[i].quantity * seen[i].unit_price
  BY <1>5, <1>6, LinesAreWorth
<1>9. \A i \in S \ {1} : Worths(seen)[i].cost = Worths(rows)[i].cost
  BY <1>7, <1>8
<1>10. Total(Worths(seen), S) = Total(Worths(rows), S) - Worths(rows)[1].cost + Worths(seen)[1].cost
  <2> DEFINE W == Worths(rows)
             V == Worths(seen)
  <2>1. /\ IsFiniteSet(S) /\ 1 \in S /\ \A j \in S : W[j].cost \in Nat /\ V[j].cost \in Nat
        /\ \A j \in S \ {1} : V[j].cost = W[j].cost
    BY <1>2, <1>8, <1>9
  <2> HIDE DEF S, W, V
  <2>2. Total(V, S) = Total(W, S) - W[1].cost + V[1].cost
    BY <2>1, TotalChanges
  <2> QED BY <2>2 DEF W, V
<1>11. Worths(seen)[1].cost >= Worths(rows)[1].cost + 10
  <2>1. \A q, u \in Nat : q # 0 => q * (u + 10) >= q * u + 10
    <3> SUFFICES ASSUME NEW q \in Nat, NEW u \in Nat, q # 0 PROVE q * (u + 10) >= q * u + 10
      OBVIOUS
    <3>1. q * (u + 10) = q * u + 10 * q /\ q * u \in Nat
      OBVIOUS
    <3>2. \A x \in Nat : x + 10 * q >= x + 10
      OBVIOUS
    <3>3. q * u + 10 * q >= q * u + 10
      BY <3>1, <3>2
    <3> QED BY <3>1, <3>3
  <2>2. rows[1].quantity \in Nat /\ rows[1].unit_price \in Nat
    BY <1>2
  <2>3. rows[1].quantity * (rows[1].unit_price + 10) >= rows[1].quantity * rows[1].unit_price + 10
    BY <2>1, <2>2
  <2>4. /\ Worths(rows)[1].cost = rows[1].quantity * rows[1].unit_price
        /\ Worths(seen)[1].cost = rows[1].quantity * (rows[1].unit_price + 10)
    <3> HIDE DEF S
    <3> QED BY <1>2, <1>7, <1>8
  <2> QED BY <2>3, <2>4
<1>12. /\ net_of(rows) = Total(Worths(rows), S) /\ net_of(seen) = Total(Worths(seen), S)
       /\ net_of(rows) \in Nat /\ net_of(seen) \in Nat
  BY <1>5, <1>6, NetIsTotal
<1>13. Worths(seen)[1].cost \in Nat /\ Worths(rows)[1].cost \in Nat
  BY <1>2, <1>8
<1> QED
  BY <1>10, <1>11, <1>12, <1>13

\* Without the first line they come to so much less.
LEMMA MissedLineIsMissing ==
  ASSUME NEW rows \in PricedLines, rows # <<>>
  PROVE  /\ net_of(rows) \in Nat /\ net_of(Tail(rows)) \in Nat
         /\ net_of(rows) = rows[1].quantity * rows[1].unit_price + net_of(Tail(rows))
<1> DEFINE R == [quantity : Nat, unit_price : Nat]
           rest == Tail(rows)
           W == Worths(rows)
           V == Worths(rest)
           Good == {n \in Nat : n < Len(rows) =>
                       Total(W, 1..n+1) = W[1].cost + Total(V, 1..n)}
<1>1. rows \in Seq(R)
  BY DEF PricedLines
<1>2. /\ rest \in Seq(R) /\ Len(rest) = Len(rows) - 1 /\ Len(rows) \in Nat /\ Len(rows) # 0
      /\ \A i \in 1..Len(rest) : rest[i] = rows[i+1]
  <2> HIDE DEF R
  <2> QED BY <1>1
<1>3. rest \in PricedLines
  BY <1>2 DEF PricedLines
<1>4. /\ \A i \in 1..Len(rows) : W[i].cost \in Nat /\ W[i].cost = rows[i].quantity * rows[i].unit_price
      /\ \A i \in 1..Len(rest) : V[i].cost \in Nat /\ V[i].cost = rest[i].quantity * rest[i].unit_price
  BY <1>3, LinesAreWorth
<1>5. \A i \in 1..Len(rest) : V[i].cost = W[i+1].cost
  <2> SUFFICES ASSUME NEW i \in 1..Len(rest) PROVE V[i].cost = W[i+1].cost
    OBVIOUS
  <2>1. i + 1 \in 1..Len(rows)
    BY <1>2
  <2>2. rest[i] = rows[i+1]
    BY <1>2
  <2> HIDE DEF W, V, rest
  <2> QED BY <1>4, <2>1, <2>2
<1>6. \A m \in Nat : IsFiniteSet(1..m)
  BY FS_Interval
<1> HIDE DEF W, V, rest
<1>7. 0 \in Good
  <2>1. 1..1 = {1} /\ 1..0 = {} /\ 1 \in 1..Len(rows)
    BY <1>2
  <2>2. Total(W, {1}) = W[1].cost + Total(W, {1} \ {1})
    <3>1. IsFiniteSet({1}) /\ \A i \in {1} : W[i].cost \in Nat
      BY <1>4, <1>6, <2>1
    <3> QED BY <3>1, TotalAdds
  <2>3. Total(W, {}) = 0 /\ Total(V, {}) = 0
    <3>1. IsFiniteSet({})
      BY <1>6, <2>1
    <3> QED BY <3>1, TotalUnfolds
  <2>4. {1} \ {1} = {}
    OBVIOUS
  <2>5. Total(W, 1..0+1) = W[1].cost + Total(V, 1..0)
    <3>1. 0 + 1 = 1
      OBVIOUS
    <3> QED BY <2>1, <2>2, <2>3, <2>4, <3>1
  <2> QED BY <2>5
<1>8. ASSUME NEW n \in Nat, n \in Good PROVE n + 1 \in Good
  <2> SUFFICES ASSUME n + 1 < Len(rows)
               PROVE  Total(W, 1..(n+1)+1) = W[1].cost + Total(V, 1..n+1)
    OBVIOUS
  <2>1. Total(W, 1..n+1) = W[1].cost + Total(V, 1..n)
    <3>1. n < Len(rows)
      <4> HIDE DEF R, Good
      <4> QED BY <1>2
    <3> QED BY <1>8, <3>1
  <2>2. /\ 1..(n+1)+1 \subseteq 1..Len(rows) /\ 1..n+1 \subseteq 1..Len(rest)
        /\ (1..(n+1)+1) \ {n+2} = 1..n+1 /\ (1..n+1) \ {n+1} = 1..n
        /\ n+2 \in 1..(n+1)+1 /\ n+1 \in 1..n+1 /\ (n + 1) + 1 = n + 2
        /\ n + 1 \in Nat /\ (n + 1) + 1 \in Nat /\ 1 \in 1..Len(rows)
        /\ 1..n \subseteq 1..Len(rest)
    <3> DEFINE l == Len(rows)
               k == Len(rest)
    <3>1. l \in Nat /\ k = l - 1 /\ n + 1 < l /\ k \in Nat
      <4> HIDE DEF R
      <4> QED BY <1>2
    <3> HIDE DEF l, k
    <3>2. (n + 1) + 1 = n + 2 /\ n + 2 <= l /\ n + 1 <= k /\ 1 <= l
      BY <3>1
    <3>3. \A m \in Nat : (1..m+1) \ {m+1} = 1..m
      OBVIOUS
    <3>4. (1..(n+1)+1) \ {n+2} = 1..n+1 /\ (1..n+1) \ {n+1} = 1..n
      BY <3>2, <3>3
    <3>5. n+2 \in 1..(n+1)+1 /\ n+1 \in 1..n+1 /\ n + 1 \in Nat /\ (n + 1) + 1 \in Nat
      BY <3>2
    <3>6. 1..(n+1)+1 \subseteq 1..l /\ 1..n+1 \subseteq 1..k /\ 1 \in 1..l /\ 1..n \subseteq 1..k
      BY <3>1, <3>2
    <3> QED BY <3>2, <3>4, <3>5, <3>6 DEF l, k
  <2>3. Total(W, 1..(n+1)+1) = W[n+2].cost + Total(W, 1..n+1) /\ Total(W, 1..n+1) \in Nat
    <3> DEFINE S == 1..(n+1)+1
               U == 1..n+1
    <3>1. /\ IsFiniteSet(S) /\ IsFiniteSet(U) /\ n+2 \in S /\ S \ {n+2} = U
          /\ \A i \in S : W[i].cost \in Nat
          /\ \A i \in U : W[i].cost \in Nat
      BY <1>4, <1>6, <2>2
    <3> HIDE DEF S, U
    <3>2. Total(W, S) = W[n+2].cost + Total(W, S \ {n+2}) /\ Total(W, U) \in Nat
      BY <3>1, TotalAdds
    <3> QED BY <3>1, <3>2 DEF S, U
  <2>4. Total(V, 1..n+1) = V[n+1].cost + Total(V, 1..n) /\ Total(V, 1..n) \in Nat
    <3> DEFINE S == 1..n+1
               U == 1..n
    <3>1. /\ IsFiniteSet(S) /\ IsFiniteSet(U) /\ n+1 \in S /\ S \ {n+1} = U
          /\ \A i \in S : V[i].cost \in Nat
          /\ \A i \in U : V[i].cost \in Nat
      BY <1>4, <1>6, <2>2
    <3> HIDE DEF S, U
    <3>2. Total(V, S) = V[n+1].cost + Total(V, S \ {n+1}) /\ Total(V, U) \in Nat
      BY <3>1, TotalAdds
    <3> QED BY <3>1, <3>2 DEF S, U
  <2>5. V[n+1].cost = W[n+2].cost /\ V[n+1].cost \in Nat /\ W[1].cost \in Nat
    BY <1>4, <1>5, <2>2
  <2> DEFINE a == Total(W, 1..(n+1)+1)
             b == Total(W, 1..n+1)
             c == Total(V, 1..n+1)
             e == Total(V, 1..n)
             v == V[n+1].cost
             w == W[1].cost
  <2>6. a = v + b /\ b = w + e /\ c = v + e /\ v \in Nat /\ w \in Nat /\ e \in Nat
    BY <2>1, <2>3, <2>4, <2>5
  <2> HIDE DEF a, b, c, e, v, w
  <2>7. a = w + c
    BY <2>6
  <2> QED BY <2>7 DEF a, c, w
<1>9. Nat \subseteq Good
  <2> HIDE DEF Good
  <2> QED BY <1>7, <1>8, FromOneToTheNext
<1>10. Total(W, 1..Len(rows)) = W[1].cost + Total(V, 1..Len(rest))
  <2>1. Len(rest) \in Good /\ Len(rest) < Len(rows) /\ Len(rest) + 1 = Len(rows)
    <3>1. Len(rest) \in Nat /\ Len(rest) < Len(rows) /\ Len(rest) + 1 = Len(rows)
      BY <1>2
    <3> HIDE DEF Good
    <3> QED BY <1>9, <3>1
  <2> QED BY <2>1
<1>11. /\ net_of(rows) = Total(W, 1..Len(rows)) /\ net_of(rest) = Total(V, 1..Len(rest))
       /\ net_of(rows) \in Nat /\ net_of(rest) \in Nat
  BY <1>3, NetIsTotal DEF W, V
<1>12. W[1].cost = rows[1].quantity * rows[1].unit_price
  BY <1>2, <1>4
<1> QED
  BY <1>10, <1>11, <1>12 DEF rest

----------------------------------------------------------------------------
(* Annexes.                                                                 *)

\* How an annex rounds, and the fields of one whose amounts are the same for both
\* parties, which names an eligible currency and says how to round.
Roundings == [delivery : Nat, return : Nat, up_then_down : BOOLEAN, conditional : BOOLEAN]
Shared(t) == /\ t.threshold["party_a"] = t.threshold["party_b"]
             /\ t.mta["party_a"] = t.mta["party_b"] /\ t.rounding # Nothing
             /\ t.eligible # {}
Plain_names == {"base_currency", "eligible_currency", "governing_law", "threshold", "mta"}
               \cup RoundingFields
Shape(f, B, E, T, M, r) ==
    /\ DOMAIN f = Plain_names \cup (IF Standard(r) /\ ~r.conditional THEN {} ELSE {"rounding_full_text"})
    /\ f["base_currency"] = Codes({B}) /\ f["eligible_currency"] = Codes(E)
    /\ f["governing_law"] = Number(0)
    /\ f["threshold"] = Number(T) /\ f["mta"] = Number(M)
    /\ f["rounding_delivery_amount"] = Number(r.delivery)
    /\ f["rounding_return_amount"] = Number(r.return)
    /\ f["rounding_delivery_direction"] = Direction(UP)
    /\ f["rounding_return_direction"] = Direction(IF r.up_then_down THEN DOWN ELSE UP)
    /\ "rounding_full_text" \in DOMAIN f => f["rounding_full_text"] = Number(0)

LEMMA AnnexTerms ==
  ASSUME NEW d \in Documents, d.kind = "csa"
  PROVE  /\ d.terms.threshold \in [Parties -> Nat] /\ d.terms.mta \in [Parties -> Nat]
         /\ d.terms.rounding # Nothing => d.terms.rounding \in Roundings
         /\ d.terms.rows \subseteq 0..100
         /\ "party_a" \in Parties /\ "party_b" \in Parties
         /\ d.terms.threshold["party_a"] \in Nat /\ d.terms.mta["party_a"] \in Nat
<1>1. /\ {d.terms.threshold, d.terms.mta} \subseteq [Parties -> Nat]
      /\ d.terms.rounding \in {Nothing} \cup Roundings /\ d.terms.rows \subseteq 0..100
  BY IntakeAssumption DEF Roundings
<1>2. "party_a" \in Parties /\ "party_b" \in Parties
  BY DEF Parties
<1> QED
  BY <1>1, <1>2

\* What is transcribed of an annex has all required fields exactly if its amounts are
\* the same for both, a currency is eligible and it says how to round.
LEMMA AnnexFields ==
  ASSUME NEW d \in Documents, d.kind = "csa"
  PROVE  /\ CsaRequired \subseteq DOMAIN transcribed(d) <=> Shared(d.terms)
         /\ Shared(d.terms) => Shape(transcribed(d), d.terms.base, d.terms.eligible,
                                     d.terms.threshold["party_a"], d.terms.mta["party_a"],
                                     d.terms.rounding)
<1> DEFINE t == d.terms
           r == t.rounding
           full == IF r = Nothing \/ (Standard(r) /\ ~r.conditional) THEN {}
                   ELSE {"rounding_full_text"}
           chosen == IF t.eligible = {} THEN {} ELSE {"eligible_currency"}
           names == {"base_currency", "governing_law"} \cup chosen
                    \cup Amount_fields("threshold", t.threshold) \cup Amount_fields("mta", t.mta)
                    \cup (IF r = Nothing THEN {} ELSE RoundingFields) \cup full
           elected == [base_currency |-> Codes({t.base}), eligible_currency |-> Codes(t.eligible),
                       governing_law |-> Number(0),
                       threshold |-> Number(t.threshold.party_a), mta |-> Number(t.mta.party_a),
                       threshold_party_a |-> Number(t.threshold.party_a),
                       threshold_party_b |-> Number(t.threshold.party_b),
                       mta_party_a |-> Number(t.mta.party_a), mta_party_b |-> Number(t.mta.party_b),
                       rounding_full_text |-> Number(0)]
           to_be_rounded == [rounding_delivery_amount |-> Number(r.delivery),
                             rounding_return_amount |-> Number(r.return),
                             rounding_delivery_direction |-> Direction(UP),
                             rounding_return_direction |-> Direction(IF r.up_then_down THEN DOWN ELSE UP)]
           f == transcribed(d)
<1>1. f = [n \in names |-> IF n \in RoundingFields THEN to_be_rounded[n] ELSE elected[n]]
  BY DEF transcribed, transcribed_csa
<1>2. ASSUME NEW base \in {"threshold", "mta"}, NEW e
      PROVE  /\ e["party_a"] = e["party_b"] => Amount_fields(base, e) = {base}
             /\ e["party_a"] # e["party_b"] =>
                  Amount_fields(base, e) \subseteq {"threshold_party_a", "threshold_party_b",
                                                    "mta_party_a", "mta_party_b"}
  <2>1. {PartyField[base][p] : p \in Parties} \subseteq {"threshold_party_a", "threshold_party_b",
                                                        "mta_party_a", "mta_party_b"}
    BY DEF PartyField, Parties
  <2> QED BY <2>1 DEF Amount_fields
<1>3. DOMAIN f = names
  <2> HIDE DEF names, elected, to_be_rounded, f
  <2> QED BY <1>1
<1>4. \A n \in names : f[n] = IF n \in RoundingFields THEN to_be_rounded[n] ELSE elected[n]
  <2> HIDE DEF names, elected, to_be_rounded, f
  <2> QED BY <1>1
<1>5. /\ "threshold" \in names <=> t.threshold["party_a"] = t.threshold["party_b"]
      /\ "mta" \in names <=> t.mta["party_a"] = t.mta["party_b"]
      /\ r = Nothing => "rounding_delivery_amount" \notin names
      /\ t.eligible = {} => "eligible_currency" \notin names
  BY <1>2 DEF RoundingFields
<1>6. CsaRequired \subseteq DOMAIN f => Shared(t)
  <2> HIDE DEF names, f
  <2> QED BY <1>3, <1>5 DEF CsaRequired, Shared, RoundingFields
<1>7. ASSUME Shared(t)
      PROVE  /\ CsaRequired \subseteq DOMAIN f
             /\ Shape(f, t.base, t.eligible, t.threshold["party_a"], t.mta["party_a"], r)
  <2>1. /\ Amount_fields("threshold", t.threshold) = {"threshold"}
        /\ Amount_fields("mta", t.mta) = {"mta"}
    BY <1>2, <1>7 DEF Shared
  <2>2. names = Plain_names \cup full
    BY <1>7, <2>1 DEF Shared, Plain_names
  <2>3. full = IF Standard(r) /\ ~r.conditional THEN {} ELSE {"rounding_full_text"}
    BY <1>7 DEF Shared
  <2>4. CsaRequired \subseteq DOMAIN f
    <3> HIDE DEF names, full, f
    <3> QED BY <1>3, <2>2 DEF CsaRequired, Plain_names
  <2>5. /\ f["base_currency"] = Codes({t.base}) /\ f["eligible_currency"] = Codes(t.eligible)
        /\ f["governing_law"] = Number(0)
        /\ f["threshold"] = Number(t.threshold.party_a) /\ f["mta"] = Number(t.mta.party_a)
    <3>1. {"base_currency", "eligible_currency", "governing_law", "threshold", "mta"}
             \subseteq names \ RoundingFields
      <4> HIDE DEF full, names
      <4> QED BY <2>2 DEF Plain_names, RoundingFields
    <3>2. \A n \in {"base_currency", "eligible_currency", "governing_law", "threshold", "mta"} :
             f[n] = elected[n]
      <4> HIDE DEF names, elected, to_be_rounded, f
      <4> QED BY <1>4, <3>1
    <3> HIDE DEF f
    <3> QED BY <3>2
  <2>6. /\ f["rounding_delivery_amount"] = Number(r.delivery)
        /\ f["rounding_return_amount"] = Number(r.return)
        /\ f["rounding_delivery_direction"] = Direction(UP)
        /\ f["rounding_return_direction"] = Direction(IF r.up_then_down THEN DOWN ELSE UP)
    <3>1. RoundingFields \subseteq names
      <4> HIDE DEF full, names
      <4> QED BY <2>2 DEF Plain_names
    <3>2. \A n \in RoundingFields : f[n] = to_be_rounded[n]
      <4> HIDE DEF names, elected, to_be_rounded, f
      <4> QED BY <1>4, <3>1
    <3> HIDE DEF f
    <3> QED BY <3>2 DEF RoundingFields
  <2>7. "rounding_full_text" \in DOMAIN f => f["rounding_full_text"] = Number(0)
    <3>1. "rounding_full_text" \in names => f["rounding_full_text"] = elected["rounding_full_text"]
      <4> HIDE DEF names, elected, to_be_rounded, f
      <4> QED BY <1>4 DEF RoundingFields
    <3> HIDE DEF f, names
    <3> QED BY <1>3, <3>1
  <2> HIDE DEF f, names, full
  <2> QED BY <1>3, <2>2, <2>3, <2>4, <2>5, <2>6, <2>7 DEF Shape
<1> QED
  BY <1>6, <1>7

\* All gates pass when each does.
LEMMA AnnexGates ==
  ASSUME NEW a
  PROVE  (\A g \in DOMAIN csa_gates(a) : csa_gates(a)[g]) <=>
           (/\ iso_currency(a, Currencies)
            /\ values_are_numeric(a, Amounts) /\ no_cross_reference_values(a, Amounts)
            /\ \A n \in Given(a, {"rounding_delivery_direction", "rounding_return_direction"}) :
                  a.fields[n] \in {Direction(UP), Direction(DOWN)}
            /\ mta_not_transposed_with_threshold(a)
            /\ csa_readable(a, "mta") /\ Parses(Field(a, "rounding_delivery_amount"))
            /\ Field(a, "rounding_delivery_amount").n <= csa_amount(a, "mta")
            /\ \A n \in Given(a, {"rounding_delivery_amount", "rounding_return_amount"}) :
                  a.fields[n].is = "number"
            /\ standard_rounding(a) \/ Field(a, "rounding_full_text") # Nothing
            /\ a.rows # {} /\ a.rows \subseteq 50..100 /\ Max(a.rows) >= 95
            /\ to_cdm(a) # CdmError)
<1> DEFINE G == csa_gates(a)
<1>1. DOMAIN G = {"currencies_are_iso_codes", "amounts_are_numeric",
                  "no_clause_references_in_amounts", "rounding_directions_valid",
                  "mta_not_transposed_with_threshold", "rounding_no_coarser_than_mta",
                  "rounding_standard_or_documented", "valuation_percentages_sane",
                  "representable_in_cdm"}
  BY DEF csa_gates
<1>2. /\ G["currencies_are_iso_codes"] <=> iso_currency(a, Currencies)
      /\ G["amounts_are_numeric"] <=> values_are_numeric(a, Amounts)
      /\ G["no_clause_references_in_amounts"] <=> no_cross_reference_values(a, Amounts)
      /\ G["rounding_directions_valid"] <=>
            \A n \in Given(a, {"rounding_delivery_direction", "rounding_return_direction"}) :
                a.fields[n] \in {Direction(UP), Direction(DOWN)}
      /\ G["mta_not_transposed_with_threshold"] <=> mta_not_transposed_with_threshold(a)
      /\ G["rounding_no_coarser_than_mta"] <=>
            (/\ csa_readable(a, "mta") /\ Parses(Field(a, "rounding_delivery_amount"))
             /\ Field(a, "rounding_delivery_amount").n <= csa_amount(a, "mta"))
      /\ G["rounding_standard_or_documented"] <=>
            (/\ \A n \in Given(a, {"rounding_delivery_amount", "rounding_return_amount"}) :
                  a.fields[n].is = "number"
             /\ standard_rounding(a) \/ Field(a, "rounding_full_text") # Nothing)
      /\ G["valuation_percentages_sane"] <=>
            (/\ a.rows # {} /\ a.rows \subseteq 50..100 /\ Max(a.rows) >= 95)
      /\ G["representable_in_cdm"] <=> to_cdm(a) # CdmError
  BY DEF csa_gates
<1> HIDE DEF G
<1>3. (\A g \in DOMAIN G : G[g]) <=>
         (/\ G["currencies_are_iso_codes"] /\ G["amounts_are_numeric"]
          /\ G["no_clause_references_in_amounts"] /\ G["rounding_directions_valid"]
          /\ G["mta_not_transposed_with_threshold"] /\ G["rounding_no_coarser_than_mta"]
          /\ G["rounding_standard_or_documented"] /\ G["valuation_percentages_sane"]
          /\ G["representable_in_cdm"])
  BY <1>1, Zenon
<1>4. (\A g \in DOMAIN G : G[g]) <=>
         (/\ iso_currency(a, Currencies)
          /\ values_are_numeric(a, Amounts) /\ no_cross_reference_values(a, Amounts)
          /\ \A n \in Given(a, {"rounding_delivery_direction", "rounding_return_direction"}) :
                a.fields[n] \in {Direction(UP), Direction(DOWN)}
          /\ mta_not_transposed_with_threshold(a)
          /\ csa_readable(a, "mta") /\ Parses(Field(a, "rounding_delivery_amount"))
          /\ Field(a, "rounding_delivery_amount").n <= csa_amount(a, "mta")
          /\ \A n \in Given(a, {"rounding_delivery_amount", "rounding_return_amount"}) :
                a.fields[n].is = "number"
          /\ standard_rounding(a) \/ Field(a, "rounding_full_text") # Nothing
          /\ a.rows # {} /\ a.rows \subseteq 50..100 /\ Max(a.rows) >= 95
          /\ to_cdm(a) # CdmError)
  BY <1>2, <1>3, Zenon
<1> QED
  BY <1>4 DEF G

\* The greatest and the least of one number, and of some percentages.
LEMMA MaxOfOne == \A x \in Nat : Max({x}) = x
<1> SUFFICES ASSUME NEW x \in Nat PROVE Max({x}) = x
  OBVIOUS
<1>1. Max({x}) \in {x}
  BY Greatest
<1> QED
  BY <1>1

LEMMA Percentages ==
  ASSUME NEW rows \in SUBSET (0..100)
  PROVE  /\ (rows # {} /\ rows \subseteq 50..100 /\ Max(rows) >= 95)
               <=> (rows # {} /\ Min(rows) >= 50 /\ Max(rows) \in 95..100)
         /\ rows # {} /\ Max(rows) >= 95 => ~({100 - pct : pct \in rows} \subseteq 50..100)
<1> SUFFICES ASSUME rows # {}
             PROVE  /\ rows \subseteq 50..100 /\ Max(rows) >= 95
                           <=> Min(rows) >= 50 /\ Max(rows) \in 95..100
                    /\ Max(rows) >= 95 => ~({100 - pct : pct \in rows} \subseteq 50..100)
  OBVIOUS
<1>1. Max(rows) \in rows /\ \A i \in rows : i <= Max(rows)
  BY Greatest
<1>2. Min(rows) \in rows /\ \A i \in rows : Min(rows) <= i
  <2>1. rows \in SUBSET Nat
    OBVIOUS
  <2>2. PICK x \in rows : \A y \in rows : x <= y
    BY <2>1, LeastMember
  <2>3. \E k \in rows : \A y \in rows : k <= y
    BY <2>2
  <2> QED BY <2>3 DEF Min
<1> DEFINE high == Max(rows)
           low == Min(rows)
<1>0. high \in rows /\ low \in rows /\ \A i \in rows : i \in 0..100
  BY <1>1, <1>2
<1> HIDE DEF high, low
<1>3. high \in 0..100 /\ low \in 0..100 /\ \A i \in rows : i \in Nat
  BY <1>0
<1>4. ASSUME high >= 95 PROVE ~({100 - pct : pct \in rows} \subseteq 50..100)
  <2>1. 100 - high \in {100 - pct : pct \in rows}
    BY <1>1 DEF high
  <2>2. 100 - high \notin 50..100
    BY <1>3, <1>4
  <2> QED BY <2>1, <2>2
<1>5. rows \subseteq 50..100 <=> low >= 50
  <2>1. \A i \in rows : low <= i /\ i \in 0..100
    BY <1>2 DEF low
  <2>2. low \in rows
    BY <1>2 DEF low
  <2> QED BY <1>3, <2>1, <2>2
<1>6. high >= 95 <=> high \in 95..100
  BY <1>3
<1> QED
  BY <1>4, <1>5, <1>6 DEF high, low

\* What the gates read of such an annex.
LEMMA ShapeRead ==
  ASSUME NEW a, NEW B, NEW E, NEW T \in Nat, NEW M \in Nat, NEW r \in Roundings,
         Shape(a.fields, B, E, T, M, r)
  PROVE  /\ csa_readable(a, "threshold") /\ csa_amount(a, "threshold") = T
         /\ csa_readable(a, "mta") /\ csa_amount(a, "mta") = M
         /\ Field(a, "base_currency") = Codes({B}) /\ Field(a, "eligible_currency") = Codes(E)
         /\ Field(a, "rounding_currency") = Nothing
         /\ iso_currency(a, Currencies) <=> Single(E)
         /\ Own(a, "threshold") = {} /\ Own(a, "mta") = {}
         /\ values_are_numeric(a, Amounts) /\ no_cross_reference_values(a, Amounts)
         /\ \A n \in {"rounding_delivery_direction", "rounding_return_direction"} :
               n \in DOMAIN a.fields /\ a.fields[n] \in {Direction(UP), Direction(DOWN)}
         /\ \A n \in {"rounding_delivery_amount", "rounding_return_amount"} :
               n \in DOMAIN a.fields /\ a.fields[n].is = "number"
         /\ Field(a, "rounding_delivery_amount") = Number(r.delivery)
         /\ standard_rounding(a) <=> Standard(r)
         /\ Standard(r) \/ Field(a, "rounding_full_text") = Number(0)
<1> DEFINE f == a.fields
<1>1. /\ Plain_names \subseteq DOMAIN f
      /\ DOMAIN f \subseteq Plain_names \cup {"rounding_full_text"}
      /\ ~Standard(r) => "rounding_full_text" \in DOMAIN f
  BY DEF Shape
<1>2. /\ f["base_currency"] = Codes({B}) /\ f["eligible_currency"] = Codes(E)
      /\ f["threshold"] = Number(T) /\ f["mta"] = Number(M)
      /\ f["rounding_delivery_amount"] = Number(r.delivery)
      /\ f["rounding_return_amount"] = Number(r.return)
      /\ f["rounding_delivery_direction"] = Direction(UP)
      /\ f["rounding_return_direction"] = Direction(IF r.up_then_down THEN DOWN ELSE UP)
      /\ "rounding_full_text" \in DOMAIN f => f["rounding_full_text"] = Number(0)
  BY DEF Shape
<1> HIDE DEF f
<1>3. /\ {"threshold_party_a", "threshold_party_b", "mta_party_a", "mta_party_b",
          "rounding_conditions", "rounding_currency"} \cap DOMAIN f = {}
      /\ {"base_currency", "eligible_currency", "threshold", "mta", "rounding_delivery_amount",
          "rounding_return_amount", "rounding_delivery_direction", "rounding_return_direction"}
            \subseteq DOMAIN f
  BY <1>1 DEF Plain_names, RoundingFields
<1>4. /\ {PartyField["threshold"][p] : p \in Parties} = {"threshold_party_a", "threshold_party_b"}
      /\ {PartyField["mta"][p] : p \in Parties} = {"mta_party_a", "mta_party_b"}
  BY DEF PartyField, Parties
<1>5. csa_values(a, "threshold") = {"threshold"} /\ csa_values(a, "mta") = {"mta"}
  BY <1>3, <1>4 DEF csa_values, Given, f
<1>6. \A n \in Nat : Number(n).is = "number" /\ Number(n).n = n
  BY DEF Number
<1>7. csa_amount(a, "threshold") = T /\ csa_amount(a, "mta") = M
  <2>1. {a.fields[n].n : n \in {"threshold"}} = {T} /\ {a.fields[n].n : n \in {"mta"}} = {M}
    BY <1>2, <1>6 DEF f
  <2> QED BY <1>5, <2>1, MaxOfOne DEF csa_amount
<1>8. csa_readable(a, "threshold") /\ csa_readable(a, "mta")
  BY <1>2, <1>5, <1>6 DEF csa_readable, Parses, f
<1>9. Own(a, "threshold") = {} /\ Own(a, "mta") = {}
  <2>1. \A p \in Parties : /\ PartyField["threshold"][p] \notin DOMAIN f
                           /\ PartyField["mta"][p] \notin DOMAIN f
    BY <1>3, <1>4
  <2> QED BY <2>1 DEF Own, f
<1>10. \A n \in {"threshold", "mta", "rounding_delivery_amount", "rounding_return_amount"} :
          f[n].is = "number"
  BY <1>2, <1>6 DEF Roundings
<1>11. values_are_numeric(a, Amounts) /\ no_cross_reference_values(a, Amounts)
  BY <1>10 DEF values_are_numeric, no_cross_reference_values, Given, Amounts, f
<1>12. \A n \in {"rounding_delivery_direction", "rounding_return_direction"} :
          n \in DOMAIN f /\ f[n] \in {Direction(UP), Direction(DOWN)}
  BY <1>2, <1>3
<1>13. \A n \in DOMAIN f : Field(a, n) = f[n]
  BY DEF Field, f
<1>14. Field(a, "rounding_conditions") = Nothing /\ Field(a, "rounding_currency") = Nothing
  BY <1>3 DEF Field, f
<1>15. standard_rounding(a) <=> Standard(r)
  <2>1. /\ Field(a, "rounding_delivery_direction") = Direction(UP)
        /\ Field(a, "rounding_return_direction") = Direction(IF r.up_then_down THEN DOWN ELSE UP)
        /\ Field(a, "rounding_delivery_amount") = Number(r.delivery)
        /\ Field(a, "rounding_return_amount") = Number(r.return)
    BY <1>2, <1>3, <1>13
  <2>2. r.delivery \in Nat /\ r.return \in Nat /\ r.up_then_down \in BOOLEAN
    BY DEF Roundings
  <2>3. Direction(IF r.up_then_down THEN DOWN ELSE UP) = Direction(DOWN) <=> r.up_then_down
    BY <2>2 DEF Direction, UP, DOWN
  <2>4. /\ Number(r.delivery) = Number(r.return) <=> r.delivery = r.return
        /\ Number(r.delivery) # Nothing
    BY <1>6, <2>2 DEF Nothing
  <2> QED BY <1>14, <2>1, <2>3, <2>4, Zenon DEF standard_rounding, Standard
<1>16. Standard(r) \/ Field(a, "rounding_full_text") = Number(0)
  BY <1>1, <1>2, <1>13
<1>17. /\ Field(a, "base_currency") = Codes({B}) /\ Field(a, "eligible_currency") = Codes(E)
       /\ Field(a, "rounding_delivery_amount") = Number(r.delivery)
  BY <1>2, <1>3, <1>13
<1>18. iso_currency(a, Currencies) <=> Single(E)
  <2>1. Given(a, Currencies) = {"base_currency", "eligible_currency"}
    BY <1>3 DEF Given, Currencies, f
  <2>2. Single({B})
    BY DEF Single
  <2>3. \A S : IsCode(Codes(S)) <=> Single(S)
    BY DEF IsCode, Codes
  <2> QED BY <1>2, <2>1, <2>2, <2>3 DEF iso_currency, f
<1> QED
  BY <1>3, <1>7, <1>8, <1>9, <1>10, <1>11, <1>12, <1>14, <1>15, <1>16, <1>17, <1>18 DEF f

\* Such an annex is represented as it is written.
ForBoth(n) == [p \in Parties |-> n]
Represents(c, B, E, T, M, r) ==
    /\ c.base = Codes({B}) /\ c.eligible = Codes(E) /\ (c.includes <=> B \in E)
    /\ c.threshold = ForBoth(T) /\ c.mta = ForBoth(M)
    /\ c.rounding.terms["rounding_delivery_amount"] = r.delivery
    /\ c.rounding.terms["rounding_return_amount"] = r.return
    /\ c.rounding.other = ~Standard(r)
LEMMA ShapeCdm ==
  ASSUME NEW a, NEW B, NEW E, NEW T \in Nat, NEW M \in Nat, NEW r \in Roundings,
         Shape(a.fields, B, E, T, M, r)
  PROVE  to_cdm(a) # CdmError /\ Represents(to_cdm(a), B, E, T, M, r)
<1> DEFINE f == a.fields
           terms == [n \in RoundingFields |-> a.fields[n].n]
           rest == [terms |-> terms, currency |-> Codes({B}), other |-> ~standard_rounding(a)]
           included == Codes({B}).of \subseteq Codes(E).of
           whole == [base |-> Codes({B}), eligible |-> Codes(E), includes |-> included,
                     threshold |-> per_party(a, "threshold"), mta |-> per_party(a, "mta"),
                     rounding |-> rest]
<1>1. /\ RoundingFields \cup {"threshold", "mta", "base_currency"} \subseteq DOMAIN f
      /\ f["threshold"] = Number(T) /\ f["mta"] = Number(M)
      /\ f["rounding_delivery_amount"] = Number(r.delivery)
      /\ f["rounding_return_amount"] = Number(r.return)
  BY DEF Shape, Plain_names
<1>2. /\ Own(a, "threshold") = {} /\ Own(a, "mta") = {}
      /\ Field(a, "base_currency") = Codes({B}) /\ Field(a, "eligible_currency") = Codes(E)
      /\ Field(a, "rounding_currency") = Nothing
      /\ \A n \in {"rounding_delivery_direction", "rounding_return_direction"} :
            n \in DOMAIN a.fields /\ a.fields[n] \in {Direction(UP), Direction(DOWN)}
      /\ standard_rounding(a) <=> Standard(r)
      /\ Standard(r) \/ Field(a, "rounding_full_text") = Number(0)
  BY ShapeRead
<1>3. /\ \A n : Number(n).is = "number" /\ Number(n).n = n /\ Number(n) # Nothing
      /\ \A S : Codes(S) # Nothing /\ Codes(S).of = S
  BY DEF Number, Nothing, Codes
<1>4. per_party(a, "threshold") = [p \in Parties |-> T] /\ per_party(a, "mta") = [p \in Parties |-> M]
  <2>1. "threshold" \in DOMAIN f /\ "mta" \in DOMAIN f /\ f["threshold"].n = T /\ f["mta"].n = M
    BY <1>1, <1>3
  <2> HIDE DEF f
  <2>2. per_party(a, "threshold") = [p \in Parties |-> f["threshold"].n]
    BY <1>2, <2>1 DEF per_party, f
  <2>3. per_party(a, "mta") = [p \in Parties |-> f["mta"].n]
    BY <1>2, <2>1 DEF per_party, f
  <2> QED BY <2>1, <2>2, <2>3
<1>5. Given(a, RoundingFields) = RoundingFields /\ RoundingFields # {}
  BY <1>1 DEF Given, RoundingFields
<1>6. rounding(a) = rest
  <2>1. ~(\E n \in {"rounding_delivery_direction", "rounding_return_direction"} :
            a.fields[n] \notin {Direction(UP), Direction(DOWN)})
    BY <1>2
  <2>2. ~(~standard_rounding(a) /\ Field(a, "rounding_full_text") = Nothing)
    BY <1>2, <1>3
  <2> QED BY <1>2, <1>5, <2>1, <2>2 DEF rounding
<1>7. rest # CdmError /\ whole # CdmError
  <2>1. "terms" \in DOMAIN rest /\ "mta" \in DOMAIN whole /\ DOMAIN CdmError = {"error"}
    BY DEF CdmError
  <2> QED BY <2>1
<1>8. to_cdm(a) = whole
  <2> DEFINE Read(b) == IF Own(a, b) = {} THEN {b} ELSE {PartyField[b][p] : p \in Own(a, b)}
             amounts == Given(a, Read("threshold") \cup Read("mta")
                            \cup {"rounding_delivery_amount", "rounding_return_amount"})
  <2>1. amounts \subseteq Amounts
    BY <1>2 DEF Given, Amounts
  <2>2. \A n \in amounts : a.fields[n].is = "number"
    BY <1>1, <1>3, <2>1 DEF Amounts
  <2> HIDE DEF amounts, Read, whole, rest, included
  <2>3. ~(\/ Field(a, "base_currency") = Nothing
          \/ \E n \in amounts : a.fields[n].is # "number"
          \/ rounding(a) = CdmError)
    BY <1>2, <1>3, <1>6, <1>7, <2>2
  <2>4. to_cdm(a) = [base |-> Codes({B}), eligible |-> Codes(E),
                     includes |-> Codes({B}).of \subseteq Codes(E).of,
                     threshold |-> per_party(a, "threshold"), mta |-> per_party(a, "mta"),
                     rounding |-> rounding(a)]
    BY <1>2, <1>3, <2>3 DEF to_cdm, amounts, Read
  <2> QED BY <1>6, <2>4 DEF whole, included
<1>9. terms["rounding_delivery_amount"] = r.delivery /\ terms["rounding_return_amount"] = r.return
  <2>1. "rounding_delivery_amount" \in RoundingFields /\ "rounding_return_amount" \in RoundingFields
    BY DEF RoundingFields
  <2> QED BY <1>1, <1>3, <2>1
<1> HIDE DEF terms
<1>10. /\ rest.terms = terms /\ rest.other = ~standard_rounding(a)
       /\ whole.threshold = per_party(a, "threshold") /\ whole.mta = per_party(a, "mta")
       /\ whole.rounding = rest
       /\ whole.base = Codes({B}) /\ whole.eligible = Codes(E) /\ whole.includes = included
  OBVIOUS
<1>11. (~standard_rounding(a)) = (~Standard(r))
  BY <1>2
<1>12. included <=> B \in E
  BY <1>3
<1> HIDE DEF rest, whole, included
<1> QED
  BY <1>4, <1>7, <1>8, <1>9, <1>10, <1>11, <1>12 DEF ForBoth, Represents

\* It passes its gates exactly if it coheres.
AnnexPasses(E, T, M, r, rows) ==
    Single(E) /\ Lower(M, T) /\ r.delivery <= M /\ rows # {} /\ Min(rows) >= 50 /\ Max(rows) \in 95..100
LEMMA ShapeGates ==
  ASSUME NEW a, NEW B, NEW E, NEW T \in Nat, NEW M \in Nat, NEW r \in Roundings,
         Shape(a.fields, B, E, T, M, r), a.rows \in SUBSET (0..100)
  PROVE  (\A g \in DOMAIN csa_gates(a) : csa_gates(a)[g]) <=> AnnexPasses(E, T, M, r, a.rows)
<1>1. /\ csa_readable(a, "threshold") /\ csa_amount(a, "threshold") = T
      /\ csa_readable(a, "mta") /\ csa_amount(a, "mta") = M
      /\ Field(a, "base_currency") = Codes({B}) /\ Field(a, "eligible_currency") = Codes(E)
      /\ Field(a, "rounding_currency") = Nothing
      /\ iso_currency(a, Currencies) <=> Single(E)
      /\ Own(a, "threshold") = {} /\ Own(a, "mta") = {}
      /\ values_are_numeric(a, Amounts) /\ no_cross_reference_values(a, Amounts)
      /\ \A n \in {"rounding_delivery_direction", "rounding_return_direction"} :
            n \in DOMAIN a.fields /\ a.fields[n] \in {Direction(UP), Direction(DOWN)}
      /\ \A n \in {"rounding_delivery_amount", "rounding_return_amount"} :
            n \in DOMAIN a.fields /\ a.fields[n].is = "number"
      /\ Field(a, "rounding_delivery_amount") = Number(r.delivery)
      /\ standard_rounding(a) <=> Standard(r)
      /\ Standard(r) \/ Field(a, "rounding_full_text") = Number(0)
  BY ShapeRead
<1>2. /\ Number(r.delivery).is = "number" /\ Number(r.delivery).n = r.delivery
      /\ Number(0) # Nothing
  BY DEF Number, Nothing
<1>3. mta_not_transposed_with_threshold(a) <=> Lower(M, T)
  BY <1>1 DEF mta_not_transposed_with_threshold, Lower
<1>4. /\ Parses(Field(a, "rounding_delivery_amount"))
      /\ Field(a, "rounding_delivery_amount").n = r.delivery
  BY <1>1, <1>2 DEF Parses
<1>5. to_cdm(a) # CdmError
  BY ShapeCdm
<1>6. /\ \A n \in Given(a, {"rounding_delivery_direction", "rounding_return_direction"}) :
            a.fields[n] \in {Direction(UP), Direction(DOWN)}
      /\ \A n \in Given(a, {"rounding_delivery_amount", "rounding_return_amount"}) :
            a.fields[n].is = "number"
  BY <1>1 DEF Given
<1>7. standard_rounding(a) \/ Field(a, "rounding_full_text") # Nothing
  BY <1>1, <1>2
<1>8. (a.rows # {} /\ a.rows \subseteq 50..100 /\ Max(a.rows) >= 95)
         <=> (a.rows # {} /\ Min(a.rows) >= 50 /\ Max(a.rows) \in 95..100)
  BY Percentages
<1>9. (\A g \in DOMAIN csa_gates(a) : csa_gates(a)[g])
         <=> (/\ Single(E) /\ Lower(M, T) /\ r.delivery <= M
              /\ a.rows # {} /\ a.rows \subseteq 50..100 /\ Max(a.rows) >= 95)
  <2>1. Field(a, "rounding_delivery_amount").n <= csa_amount(a, "mta") <=> r.delivery <= M
    BY <1>1, <1>4
  <2> QED BY <1>1, <1>3, <1>4, <1>5, <1>6, <1>7, <2>1, AnnexGates, Zenon
<1> QED
  BY <1>8, <1>9 DEF AnnexPasses

----------------------------------------------------------------------------
(* What is misread.                                                         *)

\* A value put in the place of another, and two values that change places.
With(f, name, v) == [n \in DOMAIN f |-> IF n = name THEN v ELSE f[n]]
Swap(f, g, h) == [n \in DOMAIN f |-> IF n = g THEN f[h] ELSE IF n = h THEN f[g] ELSE f[n]]
LEMMA FaithfulReadAs ==
  ASSUME NEW f, NEW rows
  PROVE  misread("faithful", f, rows).fields = f /\ misread("faithful", f, rows).rows = rows
  BY DEF misread

LEMMA AnnexReadAs ==
  ASSUME NEW f, NEW rows
  PROVE  /\ misread("formatted", f, rows).fields = With(f, "mta", Formatted(1))
         /\ misread("pointer", f, rows).fields = With(f, "threshold", Reference)
         /\ misread("spelled_out", f, rows).fields = With(f, "base_currency", Spelled)
         /\ misread("one_direction", f, rows).fields =
              With(f, "rounding_return_direction", Direction(2))
         /\ misread("placeholder", f, rows).fields = With(f, "governing_law", Placeholder)
         /\ misread("abridged", f, rows).fields = Restrict(f, DOMAIN f \ {"rounding_full_text"})
<1>1. /\ misread("formatted", f, rows).fields = With(f, "mta", Formatted(1))
      /\ misread("pointer", f, rows).fields = With(f, "threshold", Reference)
      /\ misread("spelled_out", f, rows).fields = With(f, "base_currency", Spelled)
  BY DEF misread, With
<1>2. /\ misread("one_direction", f, rows).fields =
            With(f, "rounding_return_direction", Direction(2))
      /\ misread("placeholder", f, rows).fields = With(f, "governing_law", Placeholder)
      /\ misread("abridged", f, rows).fields = Restrict(f, DOMAIN f \ {"rounding_full_text"})
  BY DEF misread, With
<1> QED
  BY <1>1, <1>2

LEMMA SwappedReadAs ==
  ASSUME NEW f, NEW rows, "threshold" \in DOMAIN f, "mta" \in DOMAIN f
  PROVE  /\ misread("swapped", f, rows).fields = Swap(f, "threshold", "mta")
         /\ misread("swapped", f, rows).rows = rows
  BY DEF misread, Swap

Flipped(rows) == {100 - pct : pct \in rows}
LEMMA HaircutsReadAs ==
  ASSUME NEW f, NEW rows
  PROVE  misread("haircuts", f, rows).rows = Flipped(rows)
  BY DEF misread, Flipped

LEMMA DigitReadAs ==
  ASSUME NEW f, NEW rows
  PROVE  /\ misread("digit", f, rows).fields = f
         /\ misread("digit", f, rows).rows = [rows EXCEPT ![1].unit_price = @ + 10]
  BY DEF misread

LEMMA LineMissedReadAs ==
  ASSUME NEW f, NEW rows
  PROVE  /\ misread("line_missed", f, rows).fields = f
         /\ misread("line_missed", f, rows).rows = Tail(rows)
  BY DEF misread

LEMMA DatesReadAs ==
  ASSUME NEW f, NEW rows, "invoice_date" \in DOMAIN f, "due_date" \in DOMAIN f
  PROVE  /\ misread("dates_swapped", f, rows).fields = Swap(f, "invoice_date", "due_date")
         /\ misread("dates_swapped", f, rows).rows = rows
  BY DEF misread, Swap

\* An annex that coheres, and what is transcribed of it.
LEMMA CoherentAnnex ==
  ASSUME NEW d \in Documents, d.kind = "csa"
  PROVE  /\ Coherent(d) <=> /\ Shared(d.terms)
                            /\ AnnexPasses(d.terms.eligible, d.terms.threshold["party_a"],
                                           d.terms.mta["party_a"], d.terms.rounding,
                                           d.terms.rows)
         /\ Shared(d.terms) =>
              /\ d.terms.rounding \in Roundings
              /\ d.terms.threshold = [p \in Parties |-> d.terms.threshold["party_a"]]
              /\ d.terms.mta = [p \in Parties |-> d.terms.mta["party_a"]]
<1> DEFINE t == d.terms
<1>1. Coherent(d) <=> /\ Shared(t)
                      /\ AnnexPasses(t.eligible, t.threshold["party_a"], t.mta["party_a"],
                                     t.rounding, t.rows)
  BY DEF Coherent, Consistent, Single, Shared, AnnexPasses
<1>2. ASSUME NEW e \in [Parties -> Nat], e["party_a"] = e["party_b"]
      PROVE  e = [p \in Parties |-> e["party_a"]]
  <2>1. \A p \in Parties : e[p] = e["party_a"]
    BY <1>2 DEF Parties
  <2> QED BY <2>1
<1>3. Shared(t) => t.rounding \in Roundings
  BY AnnexTerms DEF Shared
<1>4. t.threshold \in [Parties -> Nat] /\ t.mta \in [Parties -> Nat]
  BY AnnexTerms
<1>5. Shared(t) => t.threshold = [p \in Parties |-> t.threshold["party_a"]]
  BY <1>2, <1>4 DEF Shared
<1>6. Shared(t) => t.mta = [p \in Parties |-> t.mta["party_a"]]
  BY <1>2, <1>4 DEF Shared
<1> QED
  BY <1>1, <1>3, <1>5, <1>6

\* Of an annex that coheres, no misreading passes that a gate can see.
LEMMA AnnexMisread ==
  ASSUME NEW d \in Documents, d.kind = "csa", Coherent(d),
         NEW how \in Misreadings["csa"] \cup {"faithful"}, NEW a,
         a.fields = misread(how, transcribed(d), d.terms.rows).fields,
         a.rows = misread(how, transcribed(d), d.terms.rows).rows,
         \A g \in DOMAIN csa_gates(a) : csa_gates(a)[g],
         \A n \in DOMAIN a.fields : a.fields[n] # Placeholder
  PROVE  Unseen(d, how)
<1> DEFINE f == transcribed(d)
           t == d.terms
           T == t.threshold["party_a"]
           M == t.mta["party_a"]
           r == t.rounding
           B == t.base
           E == t.eligible
<1>1. /\ Shared(t) /\ AnnexPasses(E, T, M, r, t.rows) /\ Shape(f, B, E, T, M, r) /\ r \in Roundings
      /\ T \in Nat /\ M \in Nat /\ t.rows \in SUBSET (0..100)
      /\ t.threshold = [p \in Parties |-> T] /\ t.mta = [p \in Parties |-> M]
  BY CoherentAnnex, AnnexFields, AnnexTerms
<1> HIDE DEF f
<1>2. /\ Plain_names \subseteq DOMAIN f
      /\ DOMAIN f = Plain_names \cup (IF Standard(r) /\ ~r.conditional THEN {} ELSE {"rounding_full_text"})
      /\ f["base_currency"] = Codes({B}) /\ f["eligible_currency"] = Codes(E)
      /\ f["governing_law"] = Number(0)
      /\ f["threshold"] = Number(T) /\ f["mta"] = Number(M)
      /\ f["rounding_delivery_amount"] = Number(r.delivery)
      /\ f["rounding_return_amount"] = Number(r.return)
      /\ f["rounding_delivery_direction"] = Direction(UP)
      /\ f["rounding_return_direction"] = Direction(IF r.up_then_down THEN DOWN ELSE UP)
      /\ "rounding_full_text" \in DOMAIN f => f["rounding_full_text"] = Number(0)
  BY <1>1 DEF Shape
<1>3. /\ {"base_currency", "eligible_currency", "governing_law", "threshold", "mta"} \subseteq DOMAIN f
      /\ RoundingFields \subseteq DOMAIN f /\ "rounding_return_direction" \in RoundingFields
  BY <1>2 DEF Plain_names, RoundingFields
<1>4. /\ iso_currency(a, Currencies)
      /\ values_are_numeric(a, Amounts)
      /\ \A n \in Given(a, {"rounding_delivery_direction", "rounding_return_direction"}) :
            a.fields[n] \in {Direction(UP), Direction(DOWN)}
      /\ standard_rounding(a) \/ Field(a, "rounding_full_text") # Nothing
      /\ a.rows # {} /\ a.rows \subseteq 50..100 /\ Max(a.rows) >= 95
  BY AnnexGates
<1>5. ASSUME NEW name \in DOMAIN f, NEW v, a.fields = With(f, name, v)
      PROVE  name \in DOMAIN a.fields /\ a.fields[name] = v
  BY <1>5 DEF With
<1>6. how # "formatted"
  <2> SUFFICES ASSUME how = "formatted" PROVE FALSE
    OBVIOUS
  <2>1. a.fields = With(f, "mta", Formatted(1))
    BY AnnexReadAs DEF f
  <2>2. "mta" \in DOMAIN a.fields /\ a.fields["mta"] = Formatted(1)
    BY <1>3, <1>5, <2>1
  <2> QED BY <1>4, <2>2 DEF values_are_numeric, Given, Amounts, Formatted
<1>7. how # "pointer"
  <2> SUFFICES ASSUME how = "pointer" PROVE FALSE
    OBVIOUS
  <2>1. a.fields = With(f, "threshold", Reference)
    BY AnnexReadAs DEF f
  <2>2. "threshold" \in DOMAIN a.fields /\ a.fields["threshold"] = Reference
    BY <1>3, <1>5, <2>1
  <2> QED BY <1>4, <2>2 DEF values_are_numeric, Given, Amounts, Reference
<1>8. how # "spelled_out"
  <2> SUFFICES ASSUME how = "spelled_out" PROVE FALSE
    OBVIOUS
  <2>1. a.fields = With(f, "base_currency", Spelled)
    BY AnnexReadAs DEF f
  <2>2. "base_currency" \in DOMAIN a.fields /\ a.fields["base_currency"] = Spelled
    BY <1>3, <1>5, <2>1
  <2> QED BY <1>4, <2>2 DEF iso_currency, IsCode, Given, Currencies, Spelled
<1>9. how # "one_direction"
  <2> SUFFICES ASSUME how = "one_direction" PROVE FALSE
    OBVIOUS
  <2>1. a.fields = With(f, "rounding_return_direction", Direction(2))
    BY AnnexReadAs DEF f
  <2>2. /\ "rounding_return_direction" \in DOMAIN a.fields
        /\ a.fields["rounding_return_direction"] = Direction(2)
    BY <1>3, <1>5, <2>1
  <2> QED BY <1>4, <2>2 DEF Given, Direction, UP, DOWN
<1>10. how # "placeholder"
  <2> SUFFICES ASSUME how = "placeholder" PROVE FALSE
    OBVIOUS
  <2>1. a.fields = With(f, "governing_law", Placeholder)
    BY AnnexReadAs DEF f
  <2> QED BY <1>3, <1>5, <2>1
<1>11. how # "haircuts"
  <2> SUFFICES ASSUME how = "haircuts" PROVE FALSE
    OBVIOUS
  <2>1. a.rows = Flipped(t.rows)
    BY HaircutsReadAs
  <2>2. t.rows # {} /\ Max(t.rows) >= 95
    BY <1>1 DEF AnnexPasses
  <2> QED BY <1>1, <1>4, <2>1, <2>2, Percentages DEF Flipped
<1>12. ASSUME how = "swapped"
       PROVE  0 \in {T, M} \/ t.threshold = t.mta
  <2>1. a.fields = Swap(f, "threshold", "mta") /\ a.rows = t.rows
    <3>1. /\ misread("swapped", f, t.rows).fields = Swap(f, "threshold", "mta")
          /\ misread("swapped", f, t.rows).rows = t.rows
      BY <1>3, SwappedReadAs
    <3> QED BY <1>12, <3>1 DEF f
  <2>2. /\ DOMAIN a.fields = DOMAIN f
        /\ a.fields["threshold"] = Number(M) /\ a.fields["mta"] = Number(T)
        /\ \A n \in DOMAIN f \ {"threshold", "mta"} : a.fields[n] = f[n]
    BY <1>2, <1>3, <2>1 DEF Swap
  <2>3. Shape(a.fields, B, E, M, T, r)
    <3>1. ({"base_currency", "eligible_currency", "governing_law", "rounding_full_text"}
              \cup RoundingFields)
             \cap {"threshold", "mta"} = {}
      BY DEF RoundingFields
    <3>2. /\ a.fields["base_currency"] = Codes({B}) /\ a.fields["eligible_currency"] = Codes(E)
          /\ a.fields["governing_law"] = Number(0)
          /\ "rounding_full_text" \in DOMAIN a.fields => a.fields["rounding_full_text"] = Number(0)
      BY <1>2, <1>3, <2>2, <3>1
    <3>3. \A n \in RoundingFields : a.fields[n] = f[n]
      BY <1>3, <2>2, <3>1
    <3> QED BY <1>2, <2>2, <3>2, <3>3 DEF Shape, RoundingFields
  <2>4. AnnexPasses(E, M, T, r, a.rows)
    BY <1>1, <2>1, <2>3, ShapeGates
  <2>5. Lower(T, M) /\ Lower(M, T)
    BY <1>1, <2>4 DEF AnnexPasses
  <2>6. M = 0 \/ T = 0 \/ M = T
    BY <1>1, <2>5 DEF Lower
  <2> QED BY <1>1, <2>6
<1>13. ASSUME how = "abridged"
       PROVE  Standard(r)
  <2>1. a.fields = Restrict(f, DOMAIN f \ {"rounding_full_text"})
    BY <1>13, AnnexReadAs DEF f
  <2>2. /\ DOMAIN a.fields = DOMAIN f \ {"rounding_full_text"}
        /\ \A n \in DOMAIN a.fields : a.fields[n] = f[n]
    BY <2>1 DEF Restrict
  <2>3. Field(a, "rounding_full_text") = Nothing
    BY <2>2 DEF Field
  <2>4. \A n \in RoundingFields : Field(a, n) = f[n]
    <3>1. RoundingFields \subseteq DOMAIN a.fields
      BY <1>3, <2>2 DEF RoundingFields
    <3> QED BY <2>2, <3>1 DEF Field
  <2>5. standard_rounding(a)
    BY <1>4, <2>3
  <2>6. /\ Direction(IF r.up_then_down THEN DOWN ELSE UP) = Direction(DOWN)
        /\ Number(r.delivery) = Number(r.return)
    <3>1. {"rounding_delivery_amount", "rounding_return_amount", "rounding_return_direction"}
             \subseteq RoundingFields
      BY DEF RoundingFields
    <3> QED BY <1>2, <2>4, <2>5, <3>1 DEF standard_rounding
  <2>7. r.up_then_down /\ r.delivery = r.return
    BY <1>1, <2>6 DEF Direction, Number, UP, DOWN, Roundings
  <2> QED BY <2>7 DEF Standard
<1>14. how \in {"swapped", "abridged", "faithful"}
  BY <1>6, <1>7, <1>8, <1>9, <1>10, <1>11 DEF Misreadings
<1> QED
  BY <1>12, <1>13, <1>14 DEF Unseen

\* What is stated in invoices and packs is numbers.
Numbers == [is : {"number"}, n : Nat]
Invoiced == [quantity : Nat \ {0}, unit_price : Nat]

LEMMA StatedTerms ==
  ASSUME NEW d \in Documents, d.kind # "csa"
  PROVE  /\ d.kind \in {"invoice", "kyc"} /\ transcribed(d) = d.terms.fields
         /\ d.terms.fields \in [DOMAIN d.terms.fields -> Numbers]
         /\ \A n \in DOMAIN d.terms.fields : d.terms.fields[n] \in Numbers
         /\ d.kind = "invoice" => d.terms.rows \in Seq(Invoiced)
<1>1. /\ d.kind \in {"invoice", "kyc"}
      /\ d.terms.fields \in [DOMAIN d.terms.fields -> Numbers]
      /\ d.kind = "invoice" => d.terms.rows \in Seq(Invoiced)
  BY IntakeAssumption DEF Numbers, Invoiced
<1>2. \A n \in DOMAIN d.terms.fields : d.terms.fields[n] \in Numbers
  <2> DEFINE f == d.terms.fields
  <2>1. f \in [DOMAIN f -> Numbers]
    BY <1>1
  <2> HIDE DEF f
  <2>2. \A n \in DOMAIN f : f[n] \in Numbers
    BY <2>1
  <2> QED BY <2>2 DEF f
<1> QED
  BY <1>1, <1>2 DEF transcribed

\* An invoice passes its gates exactly if its lines come to its totals and it is due
\* after its day.
Stands(f, rows) ==
    /\ rows # <<>> /\ WithinACent(net_of(rows), f["net_total"].n)
    /\ WithinACent(gross_of(net_of(rows), f["tax_rate_pct"].n), f["gross_total"].n)
    /\ f["invoice_date"].n < f["due_date"].n
LEMMA InvoiceGates ==
  ASSUME NEW a, InvoiceRequired \subseteq DOMAIN a.fields,
         \A n \in InvoiceRequired : a.fields[n] \in Numbers
  PROVE  (\A g \in DOMAIN invoice_gates(a) : invoice_gates(a)[g]) <=> Stands(a.fields, a.rows)
<1> DEFINE G == invoice_gates(a)
<1>2. \A n \in InvoiceRequired : /\ Field(a, n) = a.fields[n] /\ a.fields[n].is = "number"
                                 /\ a.fields[n].n \in Nat
  BY DEF Field, Numbers
<1>3. {"tax_rate_pct", "net_total", "gross_total", "due_date", "invoice_date"} \subseteq InvoiceRequired
  BY DEF InvoiceRequired
<1>4. /\ \A n \in {"tax_rate_pct", "net_total", "gross_total"} : Parses(Field(a, n))
      /\ Dated(a, {"due_date", "invoice_date"})
  BY <1>2, <1>3 DEF Parses, Dated
<1>5. DOMAIN G = {"lines_sum_to_total", "due_after_invoice_date"}
  BY DEF invoice_gates
<1>6. G["lines_sum_to_total"] <=>
         (/\ a.rows # <<>> /\ WithinACent(net_of(a.rows), a.fields["net_total"].n)
          /\ WithinACent(gross_of(net_of(a.rows), a.fields["tax_rate_pct"].n),
                         a.fields["gross_total"].n))
  <2>1. /\ Field(a, "net_total") = a.fields["net_total"]
        /\ Field(a, "tax_rate_pct") = a.fields["tax_rate_pct"]
        /\ Field(a, "gross_total") = a.fields["gross_total"]
    BY <1>2, <1>3
  <2> QED BY <1>4, <2>1 DEF invoice_gates
<1>7. G["due_after_invoice_date"] <=> a.fields["invoice_date"].n < a.fields["due_date"].n
  BY <1>2, <1>3, <1>4 DEF invoice_gates
<1> HIDE DEF G
<1>8. (\A g \in DOMAIN G : G[g]) <=> G["lines_sum_to_total"] /\ G["due_after_invoice_date"]
  BY <1>5, Zenon
<1> QED
  BY <1>6, <1>7, <1>8 DEF G, Stands

\* The lines of an invoice are priced.
LEMMA RowsArePriced ==
  ASSUME NEW d \in Documents, d.kind = "invoice"
  PROVE  /\ d.terms.rows \in Seq(Invoiced) /\ d.terms.rows \in PricedLines
         /\ d.terms.rows # <<>> => d.terms.rows[1] \in Invoiced
<1> DEFINE rows == d.terms.rows
<1>1. rows \in Seq(Invoiced)
  BY StatedTerms
<1> HIDE DEF rows
<1>2. rows # <<>> => rows[1] \in Invoiced
  <2>1. rows \in [1..Len(rows) -> Invoiced] /\ Len(rows) \in Nat
    BY <1>1
  <2>2. rows # <<>> => Len(rows) # 0
    BY <1>1
  <2> QED BY <2>1, <2>2
<1>3. rows \in PricedLines
  <2> DEFINE R == [quantity : Nat, unit_price : Nat]
  <2>1. Invoiced \subseteq R
    BY DEF Invoiced
  <2> HIDE DEF R
  <2>2. rows \in Seq(R)
    BY <1>1, <2>1
  <2> QED BY <2>2 DEF R, PricedLines
<1> QED
  BY <1>1, <1>2, <1>3 DEF rows

\* What is within a cent of a rounded amount is within three halves of what it rounds,
\* and an amount less than half a cent off rounds to it.
LEMMA Nearest ==
  ASSUME NEW g \in Int, NEW x \in Int, NEW exact \in Int, NEW half \in {Half - 1, Half},
         Cent * g <= exact + half, exact + half < Cent * g + Cent,
         g <= x + 1, x <= g + 1
  PROVE  OffBy(exact - Cent * x, Cent + Half)
<1>1. 4999 <= half /\ half <= 5000
  BY DEF Half
<1>2. 10000 * g <= exact + half /\ exact + half < 10000 * g + 10000
  BY DEF Cent
<1>3. exact - 10000 * x <= 15000 /\ -15000 <= exact - 10000 * x
  BY <1>1, <1>2
<1> QED
  BY <1>3 DEF OffBy, Cent, Half

LEMMA RoundsTo ==
  ASSUME NEW g \in Int, NEW x \in Int, NEW exact \in Int, NEW half \in {Half - 1, Half},
         Cent * g <= exact + half, exact + half < Cent * g + Cent,
         OffBy(exact - Cent * x, Half - 1)
  PROVE  g = x
<1>1. 4999 <= half /\ half <= 5000
  BY DEF Half
<1>2. 10000 * g <= exact + half /\ exact + half < 10000 * g + 10000
  BY DEF Cent
<1>3. exact <= 10000 * x + 4999 /\ 10000 * x <= exact + 4999
  BY DEF OffBy, Cent, Half
<1>4. g <= x
  BY <1>1, <1>2, <1>3
<1>5. x <= g
  BY <1>1, <1>2, <1>3
<1> QED
  BY <1>4, <1>5

\* A rounded gross total is at most half a cent off what it rounds, and is the whole
\* number nearest to it where there is one.
LEMMA GrossIsNear ==
  ASSUME NEW net \in Nat, NEW rate \in Nat, NEW gross \in Nat
  PROVE  /\ gross_of(net, rate) \in Int
         /\ gross_of(net, rate) - gross \in -1..1 =>
              OffBy(net * (Cent + rate) - Cent * gross, Cent + Half)
         /\ OffBy(net * (Cent + rate) - Cent * gross, Half - 1) => gross_of(net, rate) = gross
<1> DEFINE exact == net * (Cent + rate)
           half == IF <<net, rate>> \in RoundedUp THEN Half ELSE Half - 1
           g == (exact + half) \div Cent
<1>1. half \in {Half - 1, Half} /\ half \in Int /\ gross_of(net, rate) = g
  BY DEF gross_of, Half
<1>2. exact \in Int
  BY DEF Cent
<1> HIDE DEF exact, half
<1>3. g \in Int /\ Cent * g <= exact + half /\ exact + half < Cent * g + Cent
  BY <1>1, <1>2 DEF Cent
<1> HIDE DEF g
<1>4. gross \in Int
  OBVIOUS
<1>5. g - gross \in -1..1 => g <= gross + 1 /\ gross <= g + 1
  BY <1>3, <1>4
<1>6. g - gross \in -1..1 => OffBy(exact - Cent * gross, Cent + Half)
  BY <1>1, <1>2, <1>3, <1>4, <1>5, Nearest
<1>7. OffBy(exact - Cent * gross, Half - 1) => g = gross
  BY <1>1, <1>2, <1>3, <1>4, RoundsTo
<1> QED
  BY <1>1, <1>3, <1>6, <1>7 DEF exact

\* An invoice that stands is payable, and one whose totals are right to the cent stands.
LEMMA StandsIfPayable ==
  ASSUME NEW d \in Documents, d.kind = "invoice", StatesAll(d)
  PROVE  /\ Stands(d.terms.fields, d.terms.rows) => Payable(d.terms)
         /\ Payable(d.terms) /\ NetOff(d.terms) = 0 /\ OffBy(GrossOff(d.terms), Half - 1)
               => Stands(d.terms.fields, d.terms.rows)
<1> DEFINE f == d.terms.fields
           rows == d.terms.rows
           net == net_of(rows)
           rate == f["tax_rate_pct"].n
           stated == f["net_total"].n
           total == f["gross_total"].n
           gross == gross_of(net, rate)
           early == f["invoice_date"].n < f["due_date"].n
<1>1. /\ NetOff(d.terms) = net - stated /\ GrossOff(d.terms) = net * (Cent + rate) - Cent * total
      /\ Stands(f, rows) <=> /\ rows # <<>> /\ WithinACent(net, stated)
                             /\ WithinACent(gross, total) /\ early
      /\ Payable(d.terms) <=> /\ rows # <<>> /\ NetOff(d.terms) \in -1..1
                              /\ OffBy(GrossOff(d.terms), Cent + Half) /\ early
  BY DEF NetOff, GrossOff, Stands, Payable
<1>2. net \in Nat
  BY RowsArePriced, NetIsTotal
<1>3. rate \in Nat /\ stated \in Nat /\ total \in Nat
  <2>1. {"tax_rate_pct", "net_total", "gross_total"} \subseteq DOMAIN d.terms.fields
    BY DEF StatesAll, Required, InvoiceRequired
  <2> QED BY <2>1, StatedTerms DEF Numbers
<1> HIDE DEF net, rate, stated, total, early
<1>4. /\ gross \in Int
      /\ gross - total \in -1..1 => OffBy(net * (Cent + rate) - Cent * total, Cent + Half)
      /\ OffBy(net * (Cent + rate) - Cent * total, Half - 1) => gross = total
  BY <1>2, <1>3, GrossIsNear
<1> HIDE DEF gross, f, rows
<1>5. \A m, n \in Int : /\ WithinACent(m, n) => m - n \in -1..1
                        /\ m = n => WithinACent(m, n)
                        /\ m - n = 0 => m = n
  BY DEF WithinACent
<1>6. /\ WithinACent(net, stated) => net - stated \in -1..1
      /\ WithinACent(gross, total) => gross - total \in -1..1
      /\ net - stated = 0 => WithinACent(net, stated)
      /\ gross = total => WithinACent(gross, total)
  BY <1>2, <1>3, <1>4, <1>5
<1>7. Stands(f, rows) => Payable(d.terms)
  BY <1>1, <1>4, <1>6
<1>8. Payable(d.terms) /\ NetOff(d.terms) = 0 /\ OffBy(GrossOff(d.terms), Half - 1)
         => Stands(f, rows)
  BY <1>1, <1>4, <1>6
<1> QED
  BY <1>7, <1>8 DEF f, rows

\* Of a payable invoice, no misreading passes but that of a line of two cents.
LEMMA InvoiceMisread ==
  ASSUME NEW d \in Documents, d.kind = "invoice", Coherent(d),
         NEW how \in Misreadings["invoice"] \cup {"faithful"}, NEW a,
         a.fields = misread(how, transcribed(d), d.terms.rows).fields,
         a.rows = misread(how, transcribed(d), d.terms.rows).rows,
         \A g \in DOMAIN invoice_gates(a) : invoice_gates(a)[g]
  PROVE  Unseen(d, how)
<1> DEFINE f == d.terms.fields
           rows == d.terms.rows
<1>1. /\ InvoiceRequired \subseteq DOMAIN f /\ Payable(d.terms) /\ transcribed(d) = f
      /\ f \in [DOMAIN f -> Numbers] /\ \A n \in DOMAIN f : f[n] \in Numbers
  BY StatedTerms DEF Coherent, StatesAll, Required
<1>2. /\ {"invoice_date", "due_date", "net_total"} \subseteq InvoiceRequired
      /\ {"invoice_date", "due_date"} \subseteq DOMAIN f
      /\ \A n \in InvoiceRequired : f[n].n \in Nat /\ f[n] \in Numbers
  BY <1>1 DEF InvoiceRequired, Numbers
<1>3. /\ rows \in Seq(Invoiced) /\ rows \in PricedLines /\ rows # <<>> /\ rows[1] \in Invoiced
      /\ net_of(rows) - f["net_total"].n \in -1..1
      /\ f["invoice_date"].n < f["due_date"].n
  BY <1>1, RowsArePriced DEF Payable, NetOff
<1>9. \A m, n \in Int : WithinACent(m, n) => m - n \in -1..1
  BY DEF WithinACent
<1>4. rows[1].quantity \in Nat /\ rows[1].quantity # 0 /\ rows[1].unit_price \in Nat
  BY <1>3 DEF Invoiced
<1> HIDE DEF f, rows
<1>5. how # "digit"
  <2> SUFFICES ASSUME how = "digit" PROVE FALSE
    OBVIOUS
  <2> DEFINE seen == [rows EXCEPT ![1].unit_price = @ + 10]
  <2>1. a.fields = f /\ a.rows = seen
    BY <1>1, DigitReadAs DEF rows
  <2>2. net_of(rows) \in Nat /\ net_of(seen) \in Nat /\ net_of(seen) >= net_of(rows) + 10
    BY <1>3, <1>4, DigitChangesNet
  <2> HIDE DEF seen
  <2>3. Stands(f, seen)
    BY <1>1, <1>2, <2>1, InvoiceGates
  <2>4. net_of(seen) - f["net_total"].n \in -1..1
    BY <1>2, <1>9, <2>2, <2>3 DEF Stands
  <2> QED BY <1>2, <1>3, <2>2, <2>4
<1>6. ASSUME how = "line_missed"
      PROVE  rows[1].quantity * rows[1].unit_price <= 2
  <2>1. a.fields = f /\ a.rows = Tail(rows)
    BY <1>1, <1>6, LineMissedReadAs DEF rows
  <2>2. /\ net_of(rows) \in Nat /\ net_of(Tail(rows)) \in Nat
        /\ net_of(rows) = rows[1].quantity * rows[1].unit_price + net_of(Tail(rows))
    BY <1>3, MissedLineIsMissing
  <2>3. Stands(f, Tail(rows))
    BY <1>1, <1>2, <2>1, InvoiceGates
  <2>4. net_of(Tail(rows)) - f["net_total"].n \in -1..1
    BY <1>2, <1>9, <2>2, <2>3 DEF Stands
  <2> DEFINE worth == rows[1].quantity * rows[1].unit_price
             whole == net_of(rows)
             rest == net_of(Tail(rows))
             net == f["net_total"].n
  <2>5. /\ worth \in Nat /\ whole \in Nat /\ rest \in Nat /\ net \in Nat /\ whole = worth + rest
        /\ whole - net \in -1..1 /\ rest - net \in -1..1
    BY <1>2, <1>3, <1>4, <2>2, <2>4
  <2> HIDE DEF worth, whole, rest, net
  <2>6. worth <= 2
    BY <2>5
  <2> QED BY <2>6 DEF worth
<1>7. how # "dates_swapped"
  <2> SUFFICES ASSUME how = "dates_swapped" PROVE FALSE
    OBVIOUS
  <2>1. a.fields = Swap(f, "invoice_date", "due_date") /\ a.rows = rows
    BY <1>1, <1>2, DatesReadAs DEF rows
  <2>2. /\ DOMAIN a.fields = DOMAIN f /\ \A n \in DOMAIN f : a.fields[n] \in Numbers
        /\ a.fields["invoice_date"] = f["due_date"] /\ a.fields["due_date"] = f["invoice_date"]
    BY <1>1, <1>2, <2>1 DEF Swap
  <2>3. f["due_date"].n < f["invoice_date"].n
    BY <1>1, <2>2, InvoiceGates DEF Stands
  <2> QED BY <1>2, <1>3, <2>3
<1>8. how \in {"faithful", "line_missed"}
  BY <1>5, <1>7 DEF Misreadings
<1> QED
  BY <1>6, <1>8 DEF Unseen, rows

\* A pack that states what it has to passes its gates exactly if it is in order.
LEMMA KycGates ==
  ASSUME NEW d \in Documents, d.kind = "kyc", StatesAll(d), NEW a, a.fields = d.terms.fields
  PROVE  (\A g \in DOMAIN kyc_gates(a) : kyc_gates(a)[g]) <=> PackInOrder(d.terms)
<1> DEFINE G == kyc_gates(a)
           f == d.terms.fields
<1>1. KycRequired \subseteq DOMAIN f /\ \A n \in DOMAIN f : f[n] \in Numbers
  BY StatedTerms DEF StatesAll, Required
<1>2. \A n \in KycRequired : /\ n \in DOMAIN a.fields /\ Field(a, n) = f[n]
                             /\ f[n] \in Numbers
  BY <1>1 DEF Field
<1> HIDE DEF f
<1>3. \A n \in KycRequired : f[n] = Number(f[n].n) /\ f[n].n \in Nat /\ f[n].is = "number"
  BY <1>2 DEF Numbers, Number
<1>4. \A m, n : Number(m) = Number(n) <=> m = n
  BY DEF Number
<1>5. {"application_date", "applicant_name", "date_of_birth", "place_of_birth",
       "country_of_citizenship", "document_type", "name_on_document", "document_expiry", "address_proof_type",
       "address_proof_addressed_to", "address_proof_date", "address_proof_format"} \subseteq KycRequired
  BY DEF KycRequired
<1>6. DOMAIN G = {"applicant_is_of_age", "identity_document_valid",
                  "identity_document_type_accepted", "identity_data_points_present",
                  "name_matches_document", "address_proof_type_accepted",
                  "address_proof_names_applicant", "address_proof_not_a_screenshot",
                  "address_proof_recent"}
  BY DEF kyc_gates
<1>7. /\ Dated(a, {"date_of_birth", "application_date"})
      /\ Dated(a, {"document_expiry", "application_date"})
      /\ Dated(a, {"application_date", "address_proof_date"})
  BY <1>2, <1>3, <1>5 DEF Dated
<1> DEFINE on(name) == f[name].n
           provider == IF "address_proof_provider" \in DOMAIN f
                       THEN on("address_proof_provider") ELSE 0
<1>8. /\ G["applicant_is_of_age"] <=> ComesOfAge[on("date_of_birth")] <= on("application_date")
      /\ G["identity_document_valid"] <=> on("application_date") < on("document_expiry")
      /\ G["address_proof_recent"] <=> on("address_proof_date") \in
                                   on("application_date") - MaxProofAge..on("application_date")
  <2>1. /\ G["applicant_is_of_age"] <=> ComesOfAge[on("date_of_birth")] <= on("application_date")
        /\ G["identity_document_valid"] <=> on("document_expiry") > on("application_date")
        /\ G["address_proof_recent"] <=>
              on("application_date") - on("address_proof_date") \in 0..MaxProofAge
    BY <1>2, <1>5, <1>7 DEF kyc_gates
  <2>2. /\ on("application_date") \in Nat /\ on("date_of_birth") \in Nat
        /\ on("document_expiry") \in Nat /\ on("address_proof_date") \in Nat
        /\ MaxProofAge \in Nat
    BY <1>3, <1>5, IntakeAssumption
  <2> HIDE DEF G, on
  <2> QED BY <2>1, <2>2
<1>9. /\ G["identity_document_type_accepted"] <=> on("document_type") = 1
      /\ G["address_proof_type_accepted"] <=>
            on("address_proof_type") # 0 /\ <<on("address_proof_type"), provider>> \notin NonBankMarked
      /\ G["address_proof_not_a_screenshot"] <=> on("address_proof_format") # 0
  <2>1. /\ G["identity_document_type_accepted"] <=> f["document_type"] = Number(1)
        /\ G["address_proof_not_a_screenshot"] <=> f["address_proof_format"] # Number(0)
    BY <1>2, <1>5 DEF kyc_gates
  <2>2. Field(a, "address_proof_provider").n = provider
    BY DEF Field, Nothing, f
  <2>3. G["address_proof_type_accepted"] <=>
            on("address_proof_type") # 0 /\ <<on("address_proof_type"), provider>> \notin NonBankMarked
    BY <1>2, <1>5, <2>2 DEF kyc_gates
  <2> HIDE DEF G, provider
  <2> QED BY <1>3, <1>4, <1>5, <2>1, <2>3
<1>10. /\ G["name_matches_document"] <=> on("applicant_name") = on("name_on_document")
       /\ G["address_proof_names_applicant"] <=>
             on("address_proof_addressed_to") = on("applicant_name")
  <2>1. /\ G["name_matches_document"] <=> f["applicant_name"] = f["name_on_document"]
        /\ G["address_proof_names_applicant"] <=>
              f["address_proof_addressed_to"] = f["applicant_name"]
    BY <1>2, <1>5 DEF kyc_gates
  <2> HIDE DEF G
  <2> QED BY <1>3, <1>4, <1>5, <2>1
<1>11. G["identity_data_points_present"]
  BY <1>2, <1>5 DEF kyc_gates
<1> HIDE DEF G
<1>12. (\A g \in DOMAIN G : G[g]) <=>
          (/\ G["applicant_is_of_age"] /\ G["identity_document_valid"]
           /\ G["identity_document_type_accepted"] /\ G["identity_data_points_present"]
           /\ G["name_matches_document"] /\ G["address_proof_type_accepted"]
           /\ G["address_proof_names_applicant"] /\ G["address_proof_not_a_screenshot"]
           /\ G["address_proof_recent"])
  BY <1>6, Zenon
<1> HIDE DEF on, provider
<1>13. {on("name_on_document"), on("address_proof_addressed_to")} = {on("applicant_name")} <=>
          on("applicant_name") = on("name_on_document")
          /\ on("address_proof_addressed_to") = on("applicant_name")
  OBVIOUS
<1>14. PackInOrder(d.terms) <=>
          (/\ ComesOfAge[on("date_of_birth")] <= on("application_date")
           /\ on("application_date") < on("document_expiry")
           /\ on("address_proof_date") \in
                on("application_date") - MaxProofAge..on("application_date")
           /\ on("document_type") = 1 /\ on("address_proof_format") # 0
           /\ on("address_proof_type") # 0 /\ <<on("address_proof_type"), provider>> \notin NonBankMarked
           /\ {on("name_on_document"), on("address_proof_addressed_to")} = {on("applicant_name")})
  BY DEF PackInOrder, on, f, provider
<1> QED
  BY <1>8, <1>9, <1>10, <1>11, <1>12, <1>13, <1>14, Zenon DEF G

----------------------------------------------------------------------------
(* What is loaded.                                                          *)

\* The gates that every document shares pass of an artifact that is well cited.
WellCited(a) == /\ \A n \in DOMAIN a.fields : contains({"page"}, a.quotes[n])
                /\ a.verdict.approved
Filled(a, required) == /\ required \subseteq DOMAIN a.fields
                       /\ \A n \in DOMAIN a.fields : a.fields[n] # Placeholder
LEMMA SharedGates ==
  ASSUME NEW a, a.source = {"page"}, NEW required
  PROVE  (\A g \in DOMAIN evidence_gated_extraction(a, required) :
              evidence_gated_extraction(a, required)[g])
            <=> WellCited(a) /\ Filled(a, required)
<1> DEFINE G == evidence_gated_extraction(a, required)
<1>1. DOMAIN G = {"required_fields", "no_placeholders", "evidence_present", "evidence_verbatim",
                  "independently_verified"}
  BY DEF evidence_gated_extraction
<1>2. /\ G["required_fields"] <=> required \subseteq DOMAIN a.fields
      /\ G["no_placeholders"] <=> \A n \in DOMAIN a.fields : a.fields[n] # Placeholder
      /\ G["evidence_present"] <=> \A n \in DOMAIN a.fields : a.quotes[n] # NoQuote
      /\ G["evidence_verbatim"] <=> \A n \in DOMAIN a.fields : contains({"page"}, a.quotes[n])
      /\ G["independently_verified"] <=> a.verdict.approved
  BY DEF evidence_gated_extraction
<1> HIDE DEF G
<1>3. ~contains({"page"}, NoQuote)
  BY DEF contains, In, NoQuote
<1>4. (\A n \in DOMAIN a.fields : contains({"page"}, a.quotes[n]))
         => \A n \in DOMAIN a.fields : a.quotes[n] # NoQuote
  BY <1>3
<1>5. (\A g \in DOMAIN G : G[g]) <=>
         (/\ G["required_fields"] /\ G["no_placeholders"] /\ G["evidence_present"]
          /\ G["evidence_verbatim"] /\ G["independently_verified"])
  BY <1>1, Zenon
<1>6. (\A g \in DOMAIN G : G[g]) <=>
         (/\ required \subseteq DOMAIN a.fields
          /\ \A n \in DOMAIN a.fields : a.fields[n] # Placeholder
          /\ \A n \in DOMAIN a.fields : contains({"page"}, a.quotes[n])
          /\ a.verdict.approved)
  BY <1>2, <1>4, <1>5, Zenon
<1> QED
  BY <1>6 DEF G, WellCited, Filled

AllPass(a, kind) ==
    /\ WellCited(a) /\ Filled(a, Required[kind])
    /\ \A g \in DOMAIN domain_gates(kind, a) : domain_gates(kind, a)[g]

\* Faithful, well cited and confirmed, what passes coheres, and what coheres beyond
\* doubt passes.
LEMMA FaithfulPasses ==
  ASSUME NEW d \in Documents, NEW a, a.fields = transcribed(d), a.rows = d.terms.rows,
         WellCited(a)
  PROVE  /\ AllPass(a, d.kind) => Coherent(d)
         /\ Beyond_doubt(d) => AllPass(a, d.kind)
<1>1. \A m : /\ Number(m) # Placeholder /\ Direction(m) # Placeholder /\ Codes(m) # Placeholder
             /\ m \in Numbers => m # Placeholder
  BY DEF Number, Direction, Codes, Placeholder, Numbers
<1>2. CASE d.kind = "csa"
  <2> DEFINE T == d.terms.threshold["party_a"]
             M == d.terms.mta["party_a"]
             r == d.terms.rounding
             E == d.terms.eligible
  <2>1. domain_gates(d.kind, a) = csa_gates(a) /\ Required[d.kind] = CsaRequired
    BY <1>2 DEF domain_gates, Required
  <2>2. Coherent(d) <=> Shared(d.terms) /\ AnnexPasses(E, T, M, r, d.terms.rows)
    BY <1>2, CoherentAnnex
  <2>3. CsaRequired \subseteq DOMAIN a.fields <=> Shared(d.terms)
    BY <1>2, AnnexFields
  <2>4. ASSUME Shared(d.terms)
        PROVE  /\ \A n \in DOMAIN a.fields : a.fields[n] # Placeholder
               /\ (\A g \in DOMAIN csa_gates(a) : csa_gates(a)[g])
                     <=> AnnexPasses(E, T, M, r, a.rows)
    <3>1. /\ Shape(a.fields, d.terms.base, E, T, M, r) /\ T \in Nat /\ M \in Nat /\ r \in Roundings
          /\ a.rows \in SUBSET (0..100)
      BY <1>2, <2>4, AnnexFields, AnnexTerms, CoherentAnnex
    <3>2. (\A g \in DOMAIN csa_gates(a) : csa_gates(a)[g]) <=> AnnexPasses(E, T, M, r, a.rows)
      BY <3>1, ShapeGates
    <3>3. \A n \in Plain_names \cup {"rounding_full_text"} :
             n \in DOMAIN a.fields => a.fields[n] # Placeholder
      BY <1>1, <3>1 DEF Shape, Plain_names, RoundingFields
    <3>4. DOMAIN a.fields \subseteq Plain_names \cup {"rounding_full_text"}
      BY <3>1 DEF Shape
    <3> QED BY <3>2, <3>3, <3>4
  <2>5. AllPass(a, d.kind) <=> Coherent(d)
    BY <2>1, <2>2, <2>3, <2>4 DEF AllPass, Filled
  <2> QED BY <2>5 DEF Beyond_doubt
<1>3. ASSUME d.kind # "csa"
      PROVE  Filled(a, Required[d.kind]) <=> StatesAll(d)
  <2>1. a.fields = d.terms.fields /\ \A n \in DOMAIN a.fields : a.fields[n] \in Numbers
    BY <1>3, StatedTerms
  <2> QED BY <1>1, <2>1 DEF Filled, StatesAll
<1>4. CASE d.kind = "invoice"
  <2>1. domain_gates(d.kind, a) = invoice_gates(a)
    BY <1>4 DEF domain_gates
  <2>2. Coherent(d) <=> StatesAll(d) /\ Payable(d.terms)
    BY <1>4 DEF Coherent
  <2>3. a.fields = d.terms.fields /\ \A n \in DOMAIN a.fields : a.fields[n] \in Numbers
    BY <1>4, StatedTerms
  <2>4. ASSUME StatesAll(d)
        PROVE  (\A g \in DOMAIN invoice_gates(a) : invoice_gates(a)[g]) <=> Stands(a.fields, a.rows)
    <3>1. InvoiceRequired \subseteq DOMAIN a.fields
      BY <1>4, <2>3, <2>4 DEF StatesAll, Required
    <3> QED BY <2>3, <3>1, InvoiceGates
  <2>5. ASSUME StatesAll(d)
        PROVE  /\ Stands(a.fields, a.rows) => Payable(d.terms)
               /\ Payable(d.terms) /\ NetOff(d.terms) = 0 /\ OffBy(GrossOff(d.terms), Half - 1)
                     => Stands(a.fields, a.rows)
    <3>1. /\ Stands(d.terms.fields, d.terms.rows) => Payable(d.terms)
          /\ Payable(d.terms) /\ NetOff(d.terms) = 0 /\ OffBy(GrossOff(d.terms), Half - 1)
                => Stands(d.terms.fields, d.terms.rows)
      BY <1>4, <2>5, StandsIfPayable
    <3>2. a.fields = d.terms.fields /\ a.rows = d.terms.rows
      BY <1>1, <2>3
    <3> QED BY <3>1, <3>2
  <2>6. Filled(a, Required[d.kind]) <=> StatesAll(d)
    BY <1>3, <1>4
  <2> QED BY <1>4, <2>1, <2>2, <2>4, <2>5, <2>6 DEF AllPass, Beyond_doubt
<1>5. CASE d.kind = "kyc"
  <2>1. domain_gates(d.kind, a) = kyc_gates(a)
    BY <1>5 DEF domain_gates
  <2>2. a.fields = d.terms.fields /\ (Coherent(d) <=> StatesAll(d) /\ PackInOrder(d.terms))
    BY <1>5, StatedTerms DEF Coherent
  <2>3. StatesAll(d) =>
           ((\A g \in DOMAIN kyc_gates(a) : kyc_gates(a)[g]) <=> PackInOrder(d.terms))
    BY <1>5, <2>2, KycGates
  <2>4. Filled(a, Required[d.kind]) <=> StatesAll(d)
    BY <1>3, <1>5
  <2> QED BY <2>1, <2>2, <2>3, <2>4 DEF AllPass, Beyond_doubt
<1> QED
  BY <1>2, <1>4, <1>5, StatedTerms

\* Misread, no part of what coheres passes that a gate can see.
LEMMA MisreadIsSeen ==
  ASSUME NEW d \in Documents, Coherent(d),
         NEW how \in Misreadings[d.kind] \cup {"faithful"}, NEW a,
         a.fields = misread(how, transcribed(d), d.terms.rows).fields,
         a.rows = misread(how, transcribed(d), d.terms.rows).rows, AllPass(a, d.kind)
  PROVE  Unseen(d, how)
<1>1. CASE d.kind = "csa"
  <2>1. domain_gates(d.kind, a) = csa_gates(a)
    BY <1>1 DEF domain_gates
  <2>2. /\ \A g \in DOMAIN csa_gates(a) : csa_gates(a)[g]
        /\ \A n \in DOMAIN a.fields : a.fields[n] # Placeholder
    BY <2>1 DEF AllPass, Filled
  <2> QED BY <1>1, <2>2, AnnexMisread
<1>2. CASE d.kind = "invoice"
  <2>1. domain_gates(d.kind, a) = invoice_gates(a)
    BY <1>2 DEF domain_gates
  <2>2. \A g \in DOMAIN invoice_gates(a) : invoice_gates(a)[g]
    BY <2>1 DEF AllPass
  <2> QED BY <1>2, <2>2, InvoiceMisread
<1>3. CASE d.kind = "kyc"
  <2>1. how \in {"reconciled", "faithful"}
    BY <1>3 DEF Misreadings
  <2> QED BY <2>1 DEF Unseen
<1> QED
  BY <1>1, <1>2, <1>3, StatedTerms

\* What stands in the artifact was read from the document, what the gates report is of
\* that artifact, and what landed follows from their report.
LoadInv ==
    /\ document # NotYet => document \in Documents
    /\ extracted # NotYet =>
         /\ document # NotYet
         /\ extracted.reading \in Misreadings[document.kind] \cup {"faithful"}
         /\ extracted.fields =
              misread(extracted.reading, transcribed(document), document.terms.rows).fields
         /\ extracted.rows =
              misread(extracted.reading, transcribed(document), document.terms.rows).rows
    /\ artifact # NotYet =>
         /\ extracted # NotYet
         /\ artifact.fields = extracted.fields /\ artifact.rows = extracted.rows
         /\ artifact.kind \in {"other", document.kind}
    /\ "failed" \in DOMAIN gate_report =>
         /\ artifact # NotYet
         /\ gate_report.failed = {} <=> AllPass(artifact, document.kind)
    /\ landed # NotYet =>
         /\ "failed" \in DOMAIN gate_report
         /\ gate_report.failed = {} =>
              landed = [status |-> "accepted", id |-> artifact.id,
                        cdm |-> IF artifact.kind = "csa" THEN to_cdm(artifact) ELSE Nothing]
         /\ gate_report.failed # {} =>
              landed = [status |-> "referred", id |-> artifact.id, cdm |-> Nothing]

\* The gates report nothing exactly of what passes all of them.
LEMMA ReportIsOfAll ==
  ASSUME IntakeInv, gates
  PROVE  /\ "failed" \in DOMAIN gate_report'
         /\ gate_report'.failed = {} <=> AllPass(artifact, document.kind)
<1> DEFINE shared == evidence_gated_extraction(artifact, Required[document.kind])
           own == domain_gates(document.kind, artifact)
           failed == {g \in DOMAIN shared : ~shared[g]} \cup {g \in DOMAIN own : ~own[g]}
<1>1. gate_report' = [failed |-> failed]
  BY DEF gates
<1>2. artifact.source = {"page"}
  BY ReportsDiffer DEF IntakeInv, gates
<1>3. (\A g \in DOMAIN shared : shared[g]) <=>
         WellCited(artifact) /\ Filled(artifact, Required[document.kind])
  BY <1>2, SharedGates
<1>4. failed = {} <=> (\A g \in DOMAIN shared : shared[g]) /\ (\A g \in DOMAIN own : own[g])
  <2> HIDE DEF shared, own
  <2> QED OBVIOUS
<1> HIDE DEF failed, shared
<1>5. "failed" \in DOMAIN gate_report' /\ gate_report'.failed = failed
  BY <1>1
<1> QED
  BY <1>3, <1>4, <1>5 DEF AllPass

LEMMA LoadStays == Spec => []LoadInv
<1>1. Init => LoadInv
  BY ReportsDiffer DEF Init, AssuranceInit, IntakeInit, LoadInv
<1>2. LoadInv /\ IntakeInv /\ [Next]_vars => LoadInv'
  <2> SUFFICES ASSUME LoadInv, IntakeInv, [IntakeNext]_intakeVars PROVE LoadInv'
    BY IntakeSteps
  <2>1. ASSUME NEW d \in Documents, load_document(d) PROVE LoadInv'
    <3>1. /\ document = NotYet /\ document' = d
          /\ UNCHANGED <<extracted, artifact, gate_report, landed>>
      BY <2>1 DEF load_document
    <3>2. extracted = NotYet /\ artifact = NotYet /\ "failed" \notin DOMAIN gate_report
          /\ landed = NotYet
      BY <3>1 DEF LoadInv
    <3> QED BY <3>1, <3>2 DEF LoadInv
  <2>2. ASSUME NEW x, extract(x) PROVE LoadInv'
    <3> DEFINE seen == misread(x.reading, transcribed(document), document.terms.rows)
    <3>1. /\ document # NotYet /\ extracted = NotYet
          /\ x.reading \in Misreadings[document.kind] \cup {"faithful"}
          /\ UNCHANGED <<document, artifact, gate_report, landed>>
      BY <2>2 DEF extract
    <3>2. /\ extracted'.reading = x.reading
          /\ extracted'.fields = seen.fields /\ extracted'.rows = seen.rows
      BY <2>2 DEF extract
    <3>3. artifact = NotYet /\ "failed" \notin DOMAIN gate_report /\ landed = NotYet
      BY <3>1 DEF LoadInv
    <3>4. seen' = misread(x.reading, transcribed(document'), document'.terms.rows)
      OBVIOUS
    <3> HIDE DEF seen
    <3>5. document \in Documents /\ document' = document
      BY <3>1 DEF LoadInv
    <3>6. /\ extracted'.fields =
               misread(extracted'.reading, transcribed(document'), document'.terms.rows).fields
          /\ extracted'.rows =
               misread(extracted'.reading, transcribed(document'), document'.terms.rows).rows
      BY <3>2, <3>5 DEF seen
    <3> QED BY <3>1, <3>2, <3>3, <3>5, <3>6 DEF LoadInv
  <2>3. ASSUME assemble PROVE LoadInv'
    <3>1. /\ extracted # NotYet /\ artifact = NotYet
          /\ artifact'.fields = extracted.fields /\ artifact'.rows = extracted.rows
          /\ artifact'.kind \in {"other", document.kind}
          /\ UNCHANGED <<document, extracted, gate_report, landed>>
      BY <2>3 DEF assemble
    <3>2. "failed" \notin DOMAIN gate_report /\ landed = NotYet
      BY <3>1 DEF LoadInv
    <3> QED BY <3>1, <3>2 DEF LoadInv
  <2>4. ASSUME NEW r, verify(r) PROVE LoadInv'
    <3>1. /\ artifact # NotYet /\ gate_report = NotYet /\ gate_report' = [verified |-> TRUE]
          /\ UNCHANGED <<document, extracted, landed>>
      BY <2>4 DEF verify
    <3>2. artifact' = [artifact EXCEPT !.verdict = artifact'.verdict]
      BY <2>4, VerifierNeedsEvidence
    <3>3. artifact = [fields |-> artifact.fields, rows |-> artifact.rows,
                      quotes |-> artifact.quotes, kind |-> artifact.kind, id |-> artifact.id,
                      source |-> {"page"}, verdict |-> artifact.verdict]
      BY <3>1 DEF IntakeInv
    <3>4. /\ artifact'.fields = artifact.fields /\ artifact'.rows = artifact.rows
          /\ artifact'.kind = artifact.kind
      BY <3>2, <3>3
    <3>5. /\ "failed" \notin DOMAIN gate_report /\ "failed" \notin DOMAIN gate_report'
          /\ landed = NotYet
      BY <3>1, ReportsDiffer DEF LoadInv
    <3> QED BY <3>1, <3>4, <3>5 DEF LoadInv
  <2>5. ASSUME gates PROVE LoadInv'
    <3>1. /\ gate_report = [verified |-> TRUE]
          /\ UNCHANGED <<document, extracted, artifact, landed>>
      BY <2>5 DEF gates
    <3>2. landed = NotYet /\ artifact # NotYet
      BY <3>1, ReportsDiffer DEF LoadInv, IntakeInv
    <3>3. /\ "failed" \in DOMAIN gate_report'
          /\ gate_report'.failed = {} <=> AllPass(artifact, document.kind)
      BY <2>5, ReportIsOfAll
    <3>4. AllPass(artifact, document.kind)' <=> AllPass(artifact, document.kind)
      BY <3>1 DEF AllPass, WellCited, Filled
    <3> QED BY <3>1, <3>2, <3>3, <3>4 DEF LoadInv
  <2>6. ASSUME accept \/ refer \/ UNCHANGED intakeVars PROVE LoadInv'
    <3>1. UNCHANGED <<document, extracted, artifact, gate_report>>
      BY <2>6 DEF accept, refer, intakeVars
    <3>2. AllPass(artifact, document.kind)' <=> AllPass(artifact, document.kind)
      BY <3>1 DEF AllPass, WellCited, Filled
    <3>3. /\ landed' # NotYet =>
               /\ "failed" \in DOMAIN gate_report
               /\ gate_report.failed = {} =>
                    landed' = [status |-> "accepted", id |-> artifact.id,
                               cdm |-> IF artifact.kind = "csa" THEN to_cdm(artifact) ELSE Nothing]
               /\ gate_report.failed # {} =>
                    landed' = [status |-> "referred", id |-> artifact.id, cdm |-> Nothing]
      <4>1. CASE accept
        BY <4>1 DEF accept, Judged
      <4>2. CASE refer
        BY <4>2 DEF refer, Judged
      <4>3. CASE UNCHANGED intakeVars
        BY <4>3 DEF intakeVars, LoadInv
      <4> QED BY <2>6, <4>1, <4>2, <4>3
    <3>4. /\ document' # NotYet => document' \in Documents
          /\ extracted' # NotYet =>
               /\ document' # NotYet
               /\ extracted'.reading \in Misreadings[document'.kind] \cup {"faithful"}
               /\ extracted'.fields =
                    misread(extracted'.reading, transcribed(document'), document'.terms.rows).fields
               /\ extracted'.rows =
                    misread(extracted'.reading, transcribed(document'), document'.terms.rows).rows
          /\ artifact' # NotYet =>
               /\ extracted' # NotYet
               /\ artifact'.fields = extracted'.fields /\ artifact'.rows = extracted'.rows
               /\ artifact'.kind \in {"other", document'.kind}
      BY <3>1 DEF LoadInv
    <3>5. "failed" \in DOMAIN gate_report' =>
             /\ artifact' # NotYet
             /\ gate_report'.failed = {} <=> AllPass(artifact, document.kind)'
      BY <3>1, <3>2 DEF LoadInv
    <3>6. landed' # NotYet =>
             /\ "failed" \in DOMAIN gate_report'
             /\ gate_report'.failed = {} =>
                  landed' = [status |-> "accepted", id |-> artifact'.id,
                             cdm |-> IF artifact'.kind = "csa" THEN to_cdm(artifact)' ELSE Nothing]
             /\ gate_report'.failed # {} =>
                  landed' = [status |-> "referred", id |-> artifact'.id, cdm |-> Nothing]
      BY <3>1, <3>3
    <3> QED BY <3>4, <3>5, <3>6 DEF LoadInv
  <2> QED
    BY <2>1, <2>2, <2>3, <2>4, <2>5, <2>6 DEF IntakeNext
<1> QED
  BY <1>1, <1>2, IntakeStays, PTL DEF Spec

\* For every document, extractor and verifier: of a faithful extraction, well cited and
\* confirmed, what is loaded coheres and what coheres beyond doubt is loaded; no
\* misreading of what coheres is,
\* apart from what no gate can see; and an annex lands as what it says.
THEOREM LoadedAlwaysIfRight == Spec => []LoadedIfRight
<1>1. LoadInv /\ IntakeInv => LoadedIfRight
  <2> SUFFICES ASSUME LoadInv, IntakeInv, landed # NotYet PROVE LoadedIfRight
    BY DEF LoadedIfRight
  <2> DEFINE d == document
             how == extracted.reading
             t == document.terms
  <2>1. /\ d \in Documents /\ d # NotYet /\ extracted # NotYet /\ artifact # NotYet
        /\ how \in Misreadings[d.kind] \cup {"faithful"}
        /\ artifact.fields = misread(how, transcribed(d), t.rows).fields
        /\ artifact.rows = misread(how, transcribed(d), t.rows).rows
        /\ extracted.fields = artifact.fields /\ extracted.rows = artifact.rows
        /\ artifact.kind \in {"other", d.kind}
    BY DEF LoadInv
  <2>2. Accepted <=> AllPass(artifact, d.kind)
    BY DEF LoadInv, Accepted
  <2>3. Accepted /\ artifact.kind = "csa" => landed.cdm = to_cdm(artifact)
    BY DEF LoadInv, Accepted
  <2>4. how = "faithful" => artifact.fields = transcribed(d) /\ artifact.rows = t.rows
    BY <2>1, FaithfulReadAs
  <2>5. how = "faithful" /\ WellCited(artifact) =>
           (Accepted => Coherent(d)) /\ (Beyond_doubt(d) => Accepted)
    BY <2>1, <2>2, <2>4, FaithfulPasses
  <2>6. Accepted /\ Coherent(d) => Unseen(d, how)
    BY <2>1, <2>2, MisreadIsSeen
  <2>7. ASSUME Accepted, artifact.kind = "csa"
        PROVE  /\ landed.cdm # CdmError
               /\ how = "faithful" =>
                    /\ landed.cdm.base = Codes({t.base}) /\ landed.cdm.eligible = Codes(t.eligible)
                    /\ landed.cdm.includes <=> t.base \in t.eligible
                    /\ landed.cdm.threshold = t.threshold /\ landed.cdm.mta = t.mta
                    /\ landed.cdm.rounding.terms["rounding_delivery_amount"] = t.rounding.delivery
                    /\ landed.cdm.rounding.terms["rounding_return_amount"] = t.rounding.return
                    /\ landed.cdm.rounding.other = ~Standard(t.rounding)
    <3>1. d.kind = "csa"
      BY <2>1, <2>7
    <3>2. /\ \A g \in DOMAIN csa_gates(artifact) : csa_gates(artifact)[g]
          /\ CsaRequired \subseteq DOMAIN artifact.fields
      BY <2>2, <2>7, <3>1 DEF AllPass, domain_gates, Filled, Required
    <3>3. to_cdm(artifact) # CdmError
      BY <3>2, AnnexGates
    <3>4. ASSUME how = "faithful"
          PROVE  /\ to_cdm(artifact).base = Codes({t.base})
                 /\ to_cdm(artifact).eligible = Codes(t.eligible)
                 /\ to_cdm(artifact).includes <=> t.base \in t.eligible
                 /\ to_cdm(artifact).threshold = t.threshold /\ to_cdm(artifact).mta = t.mta
                 /\ to_cdm(artifact).rounding.terms["rounding_delivery_amount"] = t.rounding.delivery
                 /\ to_cdm(artifact).rounding.terms["rounding_return_amount"] = t.rounding.return
                 /\ to_cdm(artifact).rounding.other = ~Standard(t.rounding)
      <4> DEFINE T == d.terms.threshold["party_a"]
                 M == d.terms.mta["party_a"]
      <4>1. t = d.terms
        OBVIOUS
      <4>2. /\ Shared(d.terms)
            /\ Shape(artifact.fields, d.terms.base, d.terms.eligible, T, M, d.terms.rounding)
        BY <2>1, <2>4, <3>1, <3>2, <3>4, AnnexFields
      <4>3. /\ T \in Nat /\ M \in Nat /\ d.terms.rounding \in Roundings
            /\ d.terms.threshold = [p \in Parties |-> T] /\ d.terms.mta = [p \in Parties |-> M]
        BY <2>1, <3>1, <4>2, AnnexTerms, CoherentAnnex
      <4> HIDE DEF T, M
      <4>4. d.terms.threshold = ForBoth(T) /\ d.terms.mta = ForBoth(M)
        BY <4>3 DEF ForBoth
      <4>5. T \in Nat /\ M \in Nat /\ d.terms.rounding \in Roundings
        BY <4>3
      <4>6. Represents(to_cdm(artifact), d.terms.base, d.terms.eligible, T, M, d.terms.rounding)
        BY <4>2, <4>5, ShapeCdm
      <4> QED BY <4>1, <4>4, <4>6 DEF Represents
    <3> QED BY <2>3, <2>7, <3>3, <3>4
  <2>8. (/\ \A n \in DOMAIN artifact.fields : contains({"page"}, artifact.quotes[n])
         /\ artifact.verdict.approved) <=> WellCited(artifact)
    BY DEF WellCited
  <2>9. /\ how = "faithful" /\ (/\ \A n \in DOMAIN artifact.fields :
                                      contains({"page"}, artifact.quotes[n])
                                /\ artifact.verdict.approved) =>
              (Accepted => Coherent(d)) /\ (Beyond_doubt(d) => Accepted)
    BY <2>5, <2>8
  <2> QED BY <2>6, <2>7, <2>9 DEF LoadedIfRight
<1> QED
  BY <1>1, LoadStays, IntakeStays, PTL
====
