--------------------------- MODULE NightlyProofs ---------------------------
(***************************************************************************)
(* Proofs about Gateway and Nightly, for any processes, lengths of an      *)
(* outage, answers and citations: what a probe that failed in an outage    *)
(* costs after it, that the two gateways of a turn agree, what the judge   *)
(* reads and what its row says.                                            *)
(***************************************************************************)
EXTENDS Nightly, FiniteSetTheorems, TLAPS

-----------------------------------------------------------------------------
(* Finite sets of numbers.                                                  *)

\* A least set without a maximum would have one after all.
LEMMA FiniteMax ==
  ASSUME NEW S, IsFiniteSet(S), S \subseteq Nat, S # {}
  PROVE  Max(S) \in S /\ \A n \in S : n <= Max(S)
<1> DEFINE HasMax(T) == \E x \in T : \A y \in T : x >= y
           R == StrictSubsetOrdering(S)
           Without == {T \in SUBSET S : T # {} /\ ~HasMax(T)}
<1>1. IsWellFoundedOn(R, SUBSET S)
  BY FS_StrictSubsetOrderingWellFounded, FS_FiniteSubsetsOfFinite
<1>2. ASSUME Without # {} PROVE FALSE
  <2>1. Without \subseteq SUBSET S
    OBVIOUS
  <2>2. \E T \in Without : \A U \in Without : <<U, T>> \notin R
    <3> HIDE DEF R, Without
    <3> QED
      BY <1>1, <1>2, <2>1, WFMin
  <2>3. PICK T \in Without : \A U \in Without : <<U, T>> \notin R
    BY <2>2
  <2>4. PICK x \in T : x \in Nat
    OBVIOUS
  <2>5. CASE T = {x}
    BY <2>4, <2>5
  <2>6. CASE T # {x}
    <3> DEFINE U == T \ {x}
    <3>1. U # {} /\ U \in SUBSET S /\ <<U, T>> \in R
      BY <2>4, <2>6 DEF StrictSubsetOrdering
    <3>2. PICK y \in U : \A z \in U : y >= z
      BY <2>3, <3>1
    <3>3. y \in Nat /\ (x >= y \/ y >= x)
      BY <2>4, <3>2
    <3>4. (\A z \in T : x >= z) \/ (\A z \in T : y >= z)
      BY <2>4, <3>2, <3>3
    <3> QED
      BY <3>4
  <2> QED
    BY <2>5, <2>6
<1>3. HasMax(S)
  BY <1>2
<1> HIDE DEF HasMax
<1>4. \E x \in S : \A y \in S : x >= y
  BY <1>3 DEF HasMax
<1> QED
  BY <1>4 DEF Max

-----------------------------------------------------------------------------
(* The sums of the regression alert.                                        *)

\* The library's fold takes the rows in this order.  It is a recursive function,
\* and so a CHOOSE: that there is one to choose has to be shown.
First(s) == CHOOSE row \in s : TRUE
Sums(g, S) == g = [s \in SUBSET S |-> IF s = {} THEN 0 ELSE First(s)[3] + g[s \ {First(s)}]]
Table(S) == CHOOSE g : Sums(g, S)

LEMMA SumTable == \A S : SumOf(S) = Table(S)[S]
BY DEF SumOf, MapThenSumSet, MapThenFoldSet, Table, Sums, First

LEMMA FirstIn == \A s : s # {} => First(s) \in s
BY DEF First

\* Induction over the subsets of a finite set: those without a property have a least one.
LEMMA LeastSubset ==
  ASSUME NEW S, IsFiniteSet(S), NEW Without \in SUBSET SUBSET S, Without # {}
  PROVE  \E T \in Without : \A U \in Without : U \subseteq T => U = T
<1>1. IsWellFoundedOn(StrictSubsetOrdering(S), SUBSET S)
  BY FS_StrictSubsetOrderingWellFounded, FS_FiniteSubsetsOfFinite
<1>2. PICK T \in Without : \A U \in Without : <<U, T>> \notin StrictSubsetOrdering(S)
  BY <1>1, WFMin
<1>3. \A U \in SUBSET S : U \subseteq T /\ U # T => <<U, T>> \in StrictSubsetOrdering(S)
  BY DEF StrictSubsetOrdering
<1>4. \A U \in Without : U \subseteq T => U = T
  BY <1>2, <1>3
<1> QED
  BY <1>4

\* Two tables agree where both are defined.
LEMMA TablesAgree ==
  ASSUME NEW S, IsFiniteSet(S), NEW A \in SUBSET S, NEW B \in SUBSET S,
         NEW g, NEW h, Sums(g, A), Sums(h, B)
  PROVE  \A T \in SUBSET (A \cap B) : g[T] = h[T]
<1> DEFINE Without == {T \in SUBSET (A \cap B) : g[T] # h[T]}
<1>1. ASSUME Without # {} PROVE FALSE
  <2>1. Without \in SUBSET SUBSET S
    OBVIOUS
  <2>2. PICK T \in Without : \A U \in Without : U \subseteq T => U = T
    <3> HIDE DEF Without
    <3> QED
      BY <1>1, <2>1, LeastSubset
  <2>3. T \in SUBSET A /\ T \in SUBSET B
    OBVIOUS
  <2>4. /\ g[T] = IF T = {} THEN 0 ELSE First(T)[3] + g[T \ {First(T)}]
        /\ h[T] = IF T = {} THEN 0 ELSE First(T)[3] + h[T \ {First(T)}]
    BY <2>3 DEF Sums
  <2>5. CASE T = {}
    BY <2>4, <2>5
  <2>6. CASE T # {}
    <3>1. T \ {First(T)} \in SUBSET (A \cap B) /\ T \ {First(T)} # T
      BY <2>6, FirstIn
    <3>2. g[T \ {First(T)}] = h[T \ {First(T)}]
      BY <2>2, <3>1
    <3> QED
      BY <2>4, <2>6, <3>2
  <2> QED
    BY <2>5, <2>6
<1> QED
  BY <1>1

LEMMA TableExists == ASSUME NEW S, IsFiniteSet(S) PROVE \A T \in SUBSET S : Sums(Table(T), T)
<1> DEFINE Without == {T \in SUBSET S : ~\E g : Sums(g, T)}
<1>1. ASSUME Without # {} PROVE FALSE
  <2>1. Without \in SUBSET SUBSET S
    OBVIOUS
  <2>2. PICK T \in Without : \A U \in Without : U \subseteq T => U = T
    <3> HIDE DEF Without
    <3> QED
      BY <1>1, <2>1, LeastSubset
  <2>3. \A U \in SUBSET T : U # T => Sums(Table(U), U)
    <3> SUFFICES ASSUME NEW U \in SUBSET T, U # T PROVE Sums(Table(U), U)
      OBVIOUS
    <3>1. \E g : Sums(g, U)
      BY <2>2
    <3> QED
      BY <3>1 DEF Table
  <2> DEFINE rest(s) == s \ {First(s)}
             g == [s \in SUBSET T |-> IF s = {} THEN 0 ELSE First(s)[3] + Table(rest(s))[rest(s)]]
  <2>4. ASSUME NEW s \in SUBSET T, s # {} PROVE g[rest(s)] = Table(rest(s))[rest(s)]
    <3>1. PICK u : u = rest(s)
      OBVIOUS
    <3>2. u \in SUBSET T /\ u # T
      BY <2>4, <3>1, FirstIn
    <3>3. Table(u)[u] = IF u = {} THEN 0 ELSE First(u)[3] + Table(u)[rest(u)]
      BY <2>3, <3>2 DEF Sums
    <3>4. CASE u = {}
      BY <3>1, <3>2, <3>3, <3>4
    <3>5. CASE u # {}
      <4>1. PICK v : v = rest(u)
        OBVIOUS
      <4>2. v \in SUBSET u /\ v \in SUBSET T /\ v # T
        BY <3>2, <3>5, <4>1, FirstIn
      <4>3. IsFiniteSet(T) /\ Sums(Table(u), u) /\ Sums(Table(v), v)
        BY <2>3, <3>2, <4>2, FS_Subset
      <4>4. v \in SUBSET (u \cap v)
        BY <4>2
      <4>5. Table(u)[v] = Table(v)[v]
        BY <3>2, <4>2, <4>3, <4>4, TablesAgree
      <4> QED
        BY <3>1, <3>2, <3>3, <3>5, <4>1, <4>5
    <3> QED
      BY <3>4, <3>5
  <2>5. g = [s \in SUBSET T |-> IF s = {} THEN 0 ELSE First(s)[3] + g[rest(s)]]
    BY <2>4
  <2>6. Sums(g, T)
    BY <2>5 DEF Sums
  <2> QED
    BY <2>2, <2>6
<1>2. \A T \in SUBSET S : \E g : Sums(g, T)
  BY <1>1
<1> QED
  BY <1>2 DEF Table

LEMMA SumFirst ==
  ASSUME NEW S, IsFiniteSet(S)
  PROVE  SumOf(S) = IF S = {} THEN 0 ELSE First(S)[3] + SumOf(S \ {First(S)})
<1>1. PICK u : u = S \ {First(S)}
  OBVIOUS
<1>2. Sums(Table(S), S) /\ Sums(Table(u), u)
  BY <1>1, TableExists
<1>3. Table(S)[S] = IF S = {} THEN 0 ELSE First(S)[3] + Table(S)[u]
  BY <1>1, <1>2 DEF Sums
<1>4. Table(S)[u] = Table(u)[u]
  BY <1>1, <1>2, TablesAgree
<1> QED
  BY <1>1, <1>3, <1>4, SumTable

LEMMA SumEmpty == SumOf({}) = 0
BY SumFirst, FS_EmptySet

\* The sum does not depend on the order.
LEMMA SumWithout ==
  ASSUME NEW S, IsFiniteSet(S), \A row \in S : row[3] \in Nat
  PROVE  /\ SumOf(S) \in Nat
         /\ \A row \in S : SumOf(S) = row[3] + SumOf(S \ {row})
<1> DEFINE Splits(T) == /\ SumOf(T) \in Nat
                      /\ \A row \in T : SumOf(T) = row[3] + SumOf(T \ {row})
           Without == {T \in SUBSET S : ~Splits(T)}
<1>1. ASSUME Without # {} PROVE FALSE
  <2>1. Without \in SUBSET SUBSET S
    OBVIOUS
  <2>2. PICK T \in Without : \A U \in Without : U \subseteq T => U = T
    <3> HIDE DEF Without
    <3> QED
      BY <1>1, <2>1, LeastSubset
  <2>3. T \in SUBSET S /\ ~Splits(T) /\ IsFiniteSet(T)
    BY <2>2, FS_Subset
  <2>4. \A U \in SUBSET T : U # T => Splits(U)
    <3> HIDE DEF Splits
    <3> QED
      BY <2>2, <2>3
  <2>5. T # {}
    <3>1. ASSUME T = {} PROVE FALSE
      <4>1. SumOf(T) = 0
        BY <3>1, SumEmpty
      <4> QED
        BY <2>3, <3>1, <4>1
    <3> QED
      BY <3>1
  <2>6. PICK x : x = First(T) /\ x \in T /\ x[3] \in Nat
    BY <2>3, <2>5, FirstIn
  <2>7. SumOf(T) = x[3] + SumOf(T \ {x})
    BY <2>3, <2>5, <2>6, SumFirst
  <2>8. Splits(T \ {x})
    <3> HIDE DEF Splits
    <3> QED
      BY <2>4, <2>6
  <2>9. ASSUME NEW y \in T PROVE SumOf(T) = y[3] + SumOf(T \ {y})
    <3>1. CASE y = x
      BY <2>7, <3>1
    <3>2. CASE y # x
      <4>1. PICK U, V, W : U = T \ {x} /\ V = T \ {y} /\ W = T \ {x, y}
        OBVIOUS
      <4>2. U \ {y} = W /\ V \ {x} = W /\ y \in U /\ x \in V
        BY <2>6, <3>2, <4>1
      <4>3. Splits(V) /\ Splits(W)
        <5> HIDE DEF Splits
        <5> QED
          BY <2>4, <2>6, <4>1
      <4>4. SumOf(U) = y[3] + SumOf(W) /\ SumOf(V) = x[3] + SumOf(W) /\ SumOf(W) \in Nat
        BY <2>8, <4>1, <4>2, <4>3
      <4>5. y[3] \in Nat
        BY <2>3
      <4> QED
        BY <2>6, <2>7, <4>1, <4>4, <4>5
    <3> QED
      BY <3>1, <3>2
  <2> QED
    BY <2>3, <2>6, <2>7, <2>8, <2>9
<1>2. S \notin Without
  BY <1>1
<1> QED
  BY <1>2

LEMMA SumBetween ==
  ASSUME NEW S, IsFiniteSet(S), NEW low \in Nat, NEW high \in Nat,
         \A row \in S : row[3] \in low..high
  PROVE  Cardinality(S) * low <= SumOf(S) /\ SumOf(S) <= Cardinality(S) * high
<1> DEFINE Between(T) == Cardinality(T) * low <= SumOf(T) /\ SumOf(T) <= Cardinality(T) * high
           Without == {T \in SUBSET S : ~Between(T)}
<1>1. ASSUME Without # {} PROVE FALSE
  <2>1. Without \in SUBSET SUBSET S
    OBVIOUS
  <2>2. PICK T \in Without : \A U \in Without : U \subseteq T => U = T
    <3> HIDE DEF Without
    <3> QED
      BY <1>1, <2>1, LeastSubset
  <2>3. T \in SUBSET S /\ ~Between(T) /\ IsFiniteSet(T)
    BY <2>2, FS_Subset
  <2>4. T # {}
    BY <2>3, SumEmpty, FS_EmptySet
  <2>5. PICK x : x \in T /\ x[3] \in low..high
    BY <2>3, <2>4
  <2>6. PICK U : U = T \ {x}
    OBVIOUS
  <2>7. Between(U)
    <3> HIDE DEF Between
    <3> QED
      BY <2>2, <2>3, <2>5, <2>6
  <2>8. IsFiniteSet(U) /\ Cardinality(T) = Cardinality(U) + 1 /\ Cardinality(U) \in Nat
    <3>1. IsFiniteSet(U) /\ Cardinality(U) = Cardinality(T) - 1
      BY <2>3, <2>5, <2>6, FS_RemoveElement
    <3>2. Cardinality(U) \in Nat /\ Cardinality(T) \in Nat
      BY <2>3, <3>1, FS_CardinalityType
    <3> QED
      BY <3>1, <3>2
  <2>9. SumOf(T) = x[3] + SumOf(U) /\ SumOf(U) \in Nat
    <3>1. (\A row \in T : row[3] \in Nat) /\ (\A row \in U : row[3] \in Nat)
      BY <2>3, <2>6
    <3> QED
      BY <2>3, <2>5, <2>6, <2>8, <3>1, SumWithout
  <2>10. PICK n \in Nat, s \in Nat, v \in Nat : n = Cardinality(U) /\ s = SumOf(U) /\ v = x[3]
    BY <2>5, <2>8, <2>9
  <2>11. (n + 1) * low = n * low + low /\ (n + 1) * high = n * high + high
    BY <2>10
  <2>12. PICK l \in Nat, h \in Nat : l = n * low /\ h = n * high
    BY <2>10
  <2> QED
    BY <2>3, <2>5, <2>7, <2>8, <2>9, <2>10, <2>11, <2>12
<1> QED
  BY <1>1

LEMMA Least ==
  ASSUME NEW S \in SUBSET Nat, S # {}
  PROVE  Min(S) \in S /\ \A n \in S : Min(S) <= n
<1>1. PICK m \in S : \A n \in S : <<n, m>> \notin OpToRel(<, Nat)
  BY NatLessThanWellFounded, WFMin
<1>2. \A n \in S : ~(n < m)
  BY <1>1 DEF OpToRel
<1>3. \A n \in S : m <= n
  BY <1>2
<1> QED
  BY <1>3 DEF Min

-----------------------------------------------------------------------------
(* The regression alert.                                                    *)

\* What the alert reads: one row a night before tonight, and tonight's rows.
LEMMA AveragedRows ==
  ASSUME TypeOK, NEW past \in Past
  PROVE  /\ IsFiniteSet(Averaged(past))
         /\ \A r \in Averaged(past) : r[1] \in 0..Tonight /\ r[3] \in Nat
         /\ \A r, s \in Averaged(past) : r[1] = s[1] /\ r[1] < Tonight => r = s
<1>1. Tonight \in Nat /\ rows \in Seq(Row) /\ Len(rows) \in Nat /\ DOMAIN rows = 1..Len(rows)
  BY NightlyAssumption DEF TypeOK, Tonight
<1>2. PICK t \in Nat, l \in Nat : t = Tonight /\ l = Len(rows)
  BY <1>1
<1>3. DOMAIN past = 0..t - 1 /\ \A d \in 0..t - 1 : past[d] = {} \/ \E v \in Score : past[d] = {v}
  BY <1>2 DEF Past
<1>4. \A i \in 1..l : rows[i].count # 0 => rows[i].total \div rows[i].count \in Nat
  <2> SUFFICES ASSUME NEW i \in 1..l, rows[i].count # 0
               PROVE  rows[i].total \div rows[i].count \in Nat
    OBVIOUS
  <2>1. rows[i] \in Row
    BY <1>1, <1>2
  <2>2. PICK a \in Nat, b \in Nat : a = rows[i].total /\ b = rows[i].count
    BY <2>1 DEF Row
  <2>3. a \div b \in Nat
    BY <2>2
  <2> QED
    BY <2>2, <2>3
<1>5. \A r \in Averaged(past) :
        \/ \E d \in 0..t - 1 : \E v \in Score : past[d] = {v} /\ r = <<d, 0, v>>
        \/ \E i \in 1..l : rows[i].count # 0 /\ r = <<t, i, rows[i].total \div rows[i].count>>
  <2> SUFFICES ASSUME NEW r \in Averaged(past)
               PROVE  \/ \E d \in 0..t - 1 : \E v \in Score : past[d] = {v} /\ r = <<d, 0, v>>
                      \/ \E i \in 1..l : /\ rows[i].count # 0
                                        /\ r = <<t, i, rows[i].total \div rows[i].count>>
    OBVIOUS
  <2> DEFINE before == UNION {{<<d, 0, v>> : v \in past[d]} : d \in DOMAIN past}
             tonight == {<<Tonight, i, rows[i].total \div rows[i].count>> :
                            i \in {j \in DOMAIN rows : rows[j].count # 0}}
  <2>1. r \in before \/ r \in tonight
    <3>1. Averaged(past) = before \cup tonight
      BY DEF Averaged
    <3> HIDE DEF before, tonight
    <3> QED
      BY <3>1
  <2>2. ASSUME r \in before
        PROVE  \E d \in 0..t - 1 : \E v \in Score : past[d] = {v} /\ r = <<d, 0, v>>
    <3>1. PICK d \in 0..t - 1 : r \in {<<d, 0, v>> : v \in past[d]}
      BY <1>3, <2>2, Zenon
    <3>2. PICK v \in past[d] : r = <<d, 0, v>>
      BY <3>1
    <3> QED
      BY <1>3, <3>2
  <2>3. ASSUME r \in tonight
        PROVE  \E i \in 1..l : rows[i].count # 0 /\ r = <<t, i, rows[i].total \div rows[i].count>>
    BY <1>1, <1>2, <2>3
  <2> QED
    BY <2>1, <2>2, <2>3
<1>6. \A r \in Averaged(past) : r[1] \in 0..t /\ r[3] \in Nat /\ r[2] \in 0..l
  <2> SUFFICES ASSUME NEW r \in Averaged(past)
               PROVE  r[1] \in 0..t /\ r[3] \in Nat /\ r[2] \in 0..l
    OBVIOUS
  <2>1. CASE \E d \in 0..t - 1 : \E v \in Score : past[d] = {v} /\ r = <<d, 0, v>>
    BY <2>1, NightlyAssumption
  <2>2. CASE \E i \in 1..l : rows[i].count # 0 /\ r = <<t, i, rows[i].total \div rows[i].count>>
    BY <1>4, <2>2
  <2> QED
    BY <1>5, <2>1, <2>2
<1>7. \A r, s \in Averaged(past) : r[1] + r[2] = s[1] + s[2] => r = s
  <2>0. SUFFICES ASSUME NEW r \in Averaged(past), NEW s \in Averaged(past),
                        r[1] + r[2] = s[1] + s[2]
                 PROVE  r = s
    OBVIOUS
  <2>1. r[1] = s[1] /\ r[2] = s[2]
    <3>1. \A x \in Averaged(past) : (x[1] < t /\ x[2] = 0) \/ (x[1] = t /\ x[2] \in 1..l)
      BY <1>5
    <3>2. PICK a \in Nat, b \in Nat, c \in Nat, d \in Nat : a = r[1] /\ b = r[2] /\ c = s[1] /\ d = s[2]
      BY <1>6
    <3>3. ((a < t /\ b = 0) \/ (a = t /\ b \in 1..l))
          /\ ((c < t /\ d = 0) \/ (c = t /\ d \in 1..l))
      BY <3>1, <3>2
    <3>4. a = c /\ b = d
      BY <2>0, <3>2, <3>3
    <3> QED
      BY <3>2, <3>4
  <2>2. CASE \E d \in 0..t - 1 : \E v \in Score : past[d] = {v} /\ r = <<d, 0, v>>
    <3>1. PICK d \in 0..t - 1, v \in Score : past[d] = {v} /\ r = <<d, 0, v>>
      BY <2>2
    <3>2. PICK w \in Score : past[d] = {w} /\ s = <<d, 0, w>>
      BY <1>5, <2>1, <3>1
    <3> QED
      BY <3>1, <3>2
  <2>3. CASE \E i \in 1..l : rows[i].count # 0 /\ r = <<t, i, rows[i].total \div rows[i].count>>
    <3>1. PICK i \in 1..l : r = <<t, i, rows[i].total \div rows[i].count>>
      BY <2>3
    <3>2. s = <<t, i, rows[i].total \div rows[i].count>>
      BY <1>5, <2>1, <3>1
    <3> QED
      BY <3>1, <3>2
  <2> QED
    BY <1>5, <2>2, <2>3
<1>8. \A r, s \in Averaged(past) : r[1] = s[1] /\ r[1] < t => r = s
  <2>1. \A r \in Averaged(past) : r[1] < t => r[2] = 0
    BY <1>5
  <2> QED
    BY <1>7, <2>1
<1>9. IsFiniteSet(Averaged(past))
  <2> DEFINE place == [r \in Averaged(past) |-> r[1] + r[2]]
  <2>1. place \in Injection(Averaged(past), 0..t + l)
    BY <1>6, <1>7 DEF Injection, IsInjective
  <2>2. IsFiniteSet(0..t + l)
    BY FS_Interval
  <2> HIDE DEF place
  <2> QED
    BY <2>1, <2>2, FS_Injection
<1> QED
  BY <1>2, <1>6, <1>8, <1>9

\* Two windows whose means are not apart: no row of the earlier one is above one of the later.
LEMMA NoFall ==
  ASSUME NEW previous, NEW current, IsFiniteSet(previous), IsFiniteSet(current),
         \A r \in previous : r[3] \in Nat, \A r \in current : r[3] \in Nat,
         \A r \in previous : \A s \in current : r[3] <= s[3]
  PROVE  ~Falls(previous, current)
<1> SUFFICES ASSUME previous # {}, current # {} PROVE ~Falls(previous, current)
  BY DEF Falls
<1> DEFINE values(S) == {r[3] : r \in S}
<1>1. \A S : IsFiniteSet(S) => IsFiniteSet(values(S))
  <2> SUFFICES ASSUME NEW S, IsFiniteSet(S) PROVE IsFiniteSet(values(S))
    OBVIOUS
  <2>1. [r \in S |-> r[3]] \in Surjection(S, values(S))
    BY DEF Surjection
  <2> HIDE DEF values
  <2> QED
    BY <2>1, FS_Surjection
<1>2. PICK high \in Nat : \A r \in current : r[3] <= high
  <2>1. values(current) \subseteq Nat /\ values(current) # {} /\ IsFiniteSet(values(current))
    BY <1>1
  <2> HIDE DEF values
  <2>2. Max(values(current)) \in values(current)
        /\ \A n \in values(current) : n <= Max(values(current))
    BY <2>1, FiniteMax
  <2> QED
    BY <2>1, <2>2 DEF values
<1>3. PICK m \in Nat : (\A r \in previous : r[3] <= m) /\ (\A r \in current : m <= r[3])
  <2>1. values(previous) \subseteq Nat /\ values(previous) # {} /\ IsFiniteSet(values(previous))
    BY <1>1
  <2> HIDE DEF values
  <2>2. Max(values(previous)) \in values(previous)
        /\ \A n \in values(previous) : n <= Max(values(previous))
    BY <2>1, FiniteMax
  <2>3. PICK r \in previous : r[3] = Max(values(previous))
    BY <2>2 DEF values
  <2> QED
    BY <2>1, <2>2, <2>3 DEF values
<1>4. /\ SumOf(previous) \in Nat /\ SumOf(current) \in Nat
      /\ Cardinality(previous) \in Nat /\ Cardinality(current) \in Nat
  BY SumWithout, FS_CardinalityType
<1>5. SumOf(previous) <= Cardinality(previous) * m
  <2>1. \A r \in previous : r[3] \in 0..m
    BY <1>3
  <2> QED
    BY <2>1, SumBetween
<1>6. Cardinality(current) * m <= SumOf(current)
  <2>1. \A r \in current : r[3] \in m..high
    BY <1>2, <1>3
  <2> QED
    BY <2>1, SumBetween
<1>7. PICK p \in Nat, c \in Nat, sp \in Nat, sc \in Nat :
        p = Cardinality(previous) /\ c = Cardinality(current) /\ sp = SumOf(previous) /\ sc = SumOf(current)
  BY <1>4
<1>8. sp * c <= (p * m) * c /\ (c * m) * p <= sc * p
  BY <1>5, <1>6, <1>7
<1>9. (p * m) * c = (c * m) * p
  OBVIOUS
<1>10. Threshold * p * c \in Nat
  BY NightlyAssumption
<1>11. sp * c - sc * p <= 0
  BY <1>8, <1>9
<1>12. ~(sp * c - sc * p > Threshold * p * c)
  <2> PICK x \in Int, y \in Nat : x = sp * c - sc * p /\ y = Threshold * p * c
    BY <1>10
  <2> QED
    BY <1>11
<1> QED
  BY <1>7, <1>12 DEF Falls

\* Where a window of n bad rows and c - n good ones, no more of these than of the
\* bad, lies below a window of good ones by more than a threshold.
LEMMA FarBelow ==
  ASSUME NEW p \in Nat \ {0}, NEW n \in Nat \ {0}, NEW c \in n..2 * n, NEW T \in Nat,
         NEW bad \in Nat, NEW good \in Nat, good - bad > 2 * T
  PROVE  (p * good) * c - ((c - n) * good + n * bad) * p > T * p * c
<1>1. PICK e \in Nat \ {0} : good = bad + (2 * T + e)
  <2>1. good - bad - 2 * T \in Nat \ {0}
    OBVIOUS
  <2> QED
    BY <2>1
<1>2. PICK k \in Nat, j \in Nat : c = n + k /\ n = k + j
  <2>1. c - n \in Nat /\ 2 * n - c \in Nat
    OBVIOUS
  <2> QED
    BY <2>1
<1> DEFINE d == 2 * T + e
<1>3. (p * (bad + d)) * (n + k) - (k * (bad + d) + n * bad) * p = p * n * d
  OBVIOUS
<1>4. p * n * d = T * p * (n + k) + p * T * j + p * n * e
  <2>1. p * n * d = p * n * T + p * n * T + p * n * e
    OBVIOUS
  <2>2. p * n * T = p * k * T + p * j * T
    BY <1>2
  <2> QED
    BY <2>1, <2>2
<1>5. p * T * j \in Nat /\ p * n * e \in Nat \ {0} /\ T * p * (n + k) \in Nat
  OBVIOUS
<1>6. c - n = k
  BY <1>2
<1> QED
  BY <1>1, <1>2, <1>3, <1>4, <1>5, <1>6

\* The two windows: every night of the earlier one lies before every night of the
\* later one, and a row of the later one that is not of the last week is that of a week ago.
Current(past, edge) == {row \in Averaged(past) : Recent(row, edge)}
Previous(past, edge) == Averaged(past) \ Current(past, edge)

LEMMA Windows ==
  ASSUME TypeOK, NEW past \in Past, NEW edge \in BOOLEAN
  PROVE  /\ IsFiniteSet(Previous(past, edge)) /\ IsFiniteSet(Current(past, edge))
         /\ \A r \in Previous(past, edge) : r \in Averaged(past) /\ r[1] <= Week /\ r[3] \in Nat
         /\ \A r \in Current(past, edge) :
              r \in Averaged(past) /\ (r[1] > Week \/ r[1] = Week) /\ r[3] \in Nat
         /\ \A r \in Previous(past, edge) : \A s \in Current(past, edge) : r[1] < s[1]
         /\ \A r \in Averaged(past) : r[1] < Week => r \in Previous(past, edge)
         /\ \A r \in Averaged(past) : r[1] > Week => r \in Current(past, edge)
<1>1. IsFiniteSet(Averaged(past)) /\ \A r \in Averaged(past) : r[1] \in 0..Tonight /\ r[3] \in Nat
  BY AveragedRows
<1>2. Tonight \in Nat /\ Week \in Nat /\ Tonight - Week = Week
  BY NightlyAssumption DEF Tonight
<1>3. \A r \in Averaged(past) : Recent(r, edge) <=> (r[1] > Week \/ (edge /\ r[1] = Week))
  BY <1>2 DEF Recent
<1>4. IsFiniteSet(Previous(past, edge)) /\ IsFiniteSet(Current(past, edge))
  BY <1>1, FS_Subset DEF Previous, Current
<1> QED
  BY <1>1, <1>2, <1>3, <1>4 DEF Previous, Current

LEMMA SteadyIsQuiet ==
  ASSUME TypeOK, NEW past \in Past, NEW edge \in BOOLEAN, Steady(past)
  PROVE  ~Regressed(past, edge)
<1>1. ~Falls(Previous(past, edge), Current(past, edge))
  <2>1. \A r \in Previous(past, edge) : \A s \in Current(past, edge) : r[3] <= s[3]
    BY Windows DEF Steady
  <2> QED
    BY <2>1, Windows, NoFall
<1> QED
  BY <1>1 DEF Regressed, Previous, Current

\* Rows that are all alike.
LEMMA SumAlike ==
  ASSUME NEW S, IsFiniteSet(S), NEW v \in Nat, \A row \in S : row[3] = v
  PROVE  SumOf(S) = Cardinality(S) * v
<1>1. \A row \in S : row[3] \in Nat /\ row[3] \in v..v
  OBVIOUS
<1>2. Cardinality(S) * v <= SumOf(S) /\ SumOf(S) <= Cardinality(S) * v
  BY <1>1, SumBetween
<1>3. SumOf(S) \in Nat /\ Cardinality(S) * v \in Nat
  BY <1>1, SumWithout, FS_CardinalityType
<1> QED
  BY <1>2, <1>3

LEMMA CollapseAlerts ==
  ASSUME TypeOK, NEW past \in Past, NEW edge \in BOOLEAN, Collapsed(past)
  PROVE  Regressed(past, edge)
<1>0. PICK previous, current : previous = Previous(past, edge) /\ current = Current(past, edge)
  OBVIOUS
<1>1. /\ IsFiniteSet(previous) /\ IsFiniteSet(current)
      /\ \A r \in previous : r \in Averaged(past) /\ r[1] <= Week /\ r[3] \in Nat
      /\ \A r \in current : r \in Averaged(past) /\ (r[1] > Week \/ r[1] = Week) /\ r[3] \in Nat
      /\ \A r \in Averaged(past) : r[1] < Week => r \in previous
      /\ \A r \in Averaged(past) : r[1] > Week => r \in current
  <2>1. /\ IsFiniteSet(previous) /\ IsFiniteSet(current)
        /\ \A r \in previous : r \in Averaged(past) /\ r[1] <= Week /\ r[3] \in Nat
    BY <1>0, Windows
  <2>2. \A r \in current : r \in Averaged(past) /\ (r[1] > Week \/ r[1] = Week) /\ r[3] \in Nat
    BY <1>0, Windows
  <2>3. \A r \in Averaged(past) : r[1] < Week => r \in previous
    BY <1>0, Windows
  <2>4. \A r \in Averaged(past) : r[1] > Week => r \in current
    BY <1>0, Windows
  <2> QED
    BY <2>1, <2>2, <2>3, <2>4
<1>2. PICK bad \in Nat, good \in Nat : bad = Bad /\ good = Good /\ good - bad > 2 * Threshold
  <2>1. PICK low \in Score, high \in Score : high - low > 2 * Threshold
    BY ScoresAssumption
  <2>2. /\ Bad \in Score /\ Bad <= low /\ Good \in Score /\ high <= Good
        /\ Score \subseteq Nat /\ Threshold \in Nat
    BY <2>1, NightlyAssumption, ScoresAssumption, Least, FiniteMax DEF Bad, Good
  <2> QED
    BY <2>1, <2>2
<1>3. /\ \A r \in Averaged(past) : r[1] > Week => r[3] = bad
      /\ \A r \in Averaged(past) : r[1] <= Week => r[3] = good
  BY <1>2 DEF Collapsed
<1>4. \E r \in Averaged(past) : r[1] < Week
  <2>1. PICK d \in 1..(Week - 1) : past[d] # {}
    BY DEF Collapsed
  <2>2. PICK v : v \in past[d]
    BY <2>1
  <2>3. d \in DOMAIN past
    BY <2>1, NightlyAssumption DEF Past, Tonight
  <2>4. <<d, 0, v>> \in {<<d, 0, w>> : w \in past[d]}
    BY <2>2
  <2>5. <<d, 0, v>> \in Averaged(past)
    BY <2>3, <2>4 DEF Averaged
  <2>6. <<d, 0, v>>[1] < Week
    BY <2>1, NightlyAssumption
  <2> QED
    BY <2>5, <2>6
<1>5. \E r \in Averaged(past) : r[1] > Week
  <2>1. PICK i \in DOMAIN rows : rows[i].count # 0
    BY DEF Collapsed
  <2>2. <<Tonight, i, rows[i].total \div rows[i].count>> \in Averaged(past)
    BY <2>1 DEF Averaged
  <2>3. Tonight > Week
    BY NightlyAssumption DEF Tonight
  <2> QED
    BY <2>2, <2>3
<1>6. SumOf(previous) = Cardinality(previous) * good
  <2>1. \A r \in previous : r[3] = good
    BY <1>1, <1>3
  <2> QED
    BY <1>1, <2>1, SumAlike
<1>7. Cardinality(previous) \in Nat \ {0} /\ Cardinality(current) \in Nat \ {0}
  <2>1. previous # {} /\ current # {}
    BY <1>1, <1>4, <1>5
  <2> QED
    BY <1>1, <2>1, FS_CardinalityType, FS_EmptySet
<1>8. \E n \in Nat \ {0} :
        /\ Cardinality(current) \in n..2 * n
        /\ SumOf(current) = (Cardinality(current) - n) * good + n * bad
  <2>1. CASE \A r \in current : r[1] > Week
    <3>1. \A r \in current : r[3] = bad
      BY <1>1, <1>3, <2>1
    <3>2. SumOf(current) = Cardinality(current) * bad
      BY <1>1, <3>1, SumAlike
    <3>3. PICK c \in Nat \ {0} : c = Cardinality(current)
      BY <1>7
    <3>4. (c - c) * good = 0
      BY <3>3
    <3>5. c \in c..2 * c /\ c * bad \in Nat
      BY <3>3
    <3> QED
      BY <3>2, <3>3, <3>4, <3>5
  <2>2. CASE \E r \in current : r[1] = Week
    <3>1. PICK w \in current : w[1] = Week
      BY <2>2
    <3>2. w[3] = good /\ \A r \in current \ {w} : r[3] = bad
      <4>1. w[3] = good
        BY <1>1, <1>3, <3>1, NightlyAssumption
      <4>2. \A r \in current : r[1] = Week => r = w
        <5>1. Week < Tonight
          BY NightlyAssumption DEF Tonight
        <5> QED
          BY <1>1, <3>1, <5>1, AveragedRows
      <4>3. \A r \in current : r # w => r[1] > Week
        <5> QED
          BY <1>1, <4>2
      <4> QED
        BY <1>1, <1>3, <4>1, <4>3
    <3>3. PICK rest : rest = current \ {w}
      OBVIOUS
    <3>4. rest # {}
      BY <1>1, <1>5, <3>1, <3>3, NightlyAssumption
    <3>5. IsFiniteSet(rest) /\ Cardinality(rest) \in Nat \ {0} /\ Cardinality(current) = Cardinality(rest) + 1
      <4>1. IsFiniteSet(rest) /\ Cardinality(rest) = Cardinality(current) - 1
        BY <1>1, <3>3, FS_RemoveElement
      <4>2. Cardinality(rest) \in Nat \ {0}
        BY <3>4, <4>1, FS_CardinalityType, FS_EmptySet
      <4> QED
        BY <1>7, <4>1, <4>2
    <3>6. SumOf(rest) = Cardinality(rest) * bad
      BY <3>2, <3>3, <3>5, SumAlike
    <3>7. SumOf(current) = good + SumOf(rest)
      BY <1>1, <3>2, <3>3, SumWithout
    <3>8. PICK n \in Nat \ {0} : n = Cardinality(rest)
      BY <3>5
    <3>9. (n + 1) - n = 1 /\ 1 * good = good /\ n + 1 \in n..2 * n
      BY <3>8
    <3> QED
      BY <3>5, <3>6, <3>7, <3>8, <3>9
  <2> QED
    BY <1>1, <2>1, <2>2
<1>9. PICK p \in Nat \ {0}, c \in Nat \ {0}, n \in Nat \ {0} :
        /\ p = Cardinality(previous) /\ c = Cardinality(current) /\ c \in n..2 * n
        /\ SumOf(current) = (c - n) * good + n * bad
  BY <1>7, <1>8
<1>10. (p * good) * c - ((c - n) * good + n * bad) * p > Threshold * p * c
  <2>1. Threshold \in Nat
    BY NightlyAssumption
  <2> QED
    BY <1>2, <1>9, <2>1, FarBelow
<1>11. previous # {} /\ current # {}
  BY <1>7, FS_EmptySet
<1>12. Falls(previous, current)
  BY <1>6, <1>9, <1>10, <1>11 DEF Falls
<1> QED
  BY <1>0, <1>12 DEF Regressed, Previous, Current

USE GatewayAssumption, NightlyAssumption

-----------------------------------------------------------------------------
(* The gateways.                                                            *)

\* What a probe has cached: a failure whose TTL does not outlast one since the outage.
ProbeInv(p) == probe[p].left + since <= Ttl

\* What a turn has: with the model server's LLM never the stand-in's embeddings, and
\* if it began a TTL after the last outage, no stand-in at all.
TurnInv(p) ==
  /\ turn[p].llm = "ollama" => keys = {} /\ probe[p].reachable /\ turn[p].embed # "hashing"
  /\ turn[p].embed # "none" => (turn[p].embed = "openai" <=> "openai" \in keys)
  /\ turn[p].late => up /\ since = Ttl /\ turn[p].llm # "offline" /\ turn[p].embed # "hashing"

GatewayInv ==
  /\ GatewayTypeOK
  /\ ~up => since = 0
  /\ \A p \in Process : ProbeInv(p)
  /\ embedder = "openai" <=> "openai" \in keys
  /\ \A p \in Api : TurnInv(p)

ProbeState == [reachable : BOOLEAN, left : 0..Ttl]

\* A probe that is due is as good as one that was kept.
LEMMA Probing ==
  ASSUME GatewayInv, NEW p \in Process
  PROVE  /\ Probed(p) \in ProbeState /\ Probed(p).left + since <= Ttl
         /\ Probed(p).reachable = Reachable(p)
         /\ Fresh \in ProbeState /\ Fresh.left + since <= Ttl /\ Fresh.reachable = up
         /\ Unprobed \in ProbeState /\ Unprobed.left + since <= Ttl
<1>1. probe[p] \in ProbeState /\ since \in 0..Ttl /\ up \in BOOLEAN
  BY DEF GatewayInv, GatewayTypeOK, ProbeState
<1>2. Fresh \in ProbeState /\ Fresh.left + since <= Ttl /\ Fresh.reachable = up
  BY <1>1 DEF GatewayInv, Fresh, RetryAfter, ProbeState
<1>3. Unprobed \in ProbeState /\ Unprobed.left + since <= Ttl
  BY <1>1 DEF Unprobed, ProbeState
<1> QED
  BY <1>1, <1>2, <1>3 DEF GatewayInv, ProbeInv, Probed, Reachable, Cached

\* A TTL after an outage, what was cached of it is forgotten.
LEMMA ReachableLate ==
  ASSUME GatewayInv, NEW p \in Process, up, since = Ttl
  PROVE  Reachable(p)
<1>1. probe[p].left \in 0..Ttl /\ probe[p].left + since <= Ttl
  BY DEF GatewayInv, GatewayTypeOK, ProbeInv
<1> QED
  BY <1>1 DEF Reachable, Cached

LEMMA NoTurnOK ==
  NoTurn \in Turn /\ NoTurn.llm = "none" /\ NoTurn.embed = "none" /\ ~NoTurn.late
BY DEF NoTurn, Turn

LEMMA GatewayInitOK == GatewayInit => GatewayInv
<1> SUFFICES ASSUME GatewayInit PROVE GatewayInv
  OBVIOUS
<1>1. keys \subseteq {"anthropic", "openai"} /\ up \in BOOLEAN /\ since \in 0..Ttl
  BY DEF GatewayInit
<1>2. Started \in Embedders /\ (Started = "openai" <=> "openai" \in keys)
  BY DEF Started, Embedders
<1>3. Unprobed \in ProbeState /\ FirstProbe \in ProbeState
      /\ Unprobed.left + since <= Ttl /\ FirstProbe.left + since <= Ttl
  BY <1>1 DEF GatewayInit, Unprobed, FirstProbe, Fresh, RetryAfter, ProbeState
<1>4. probe \in [Process -> ProbeState] /\ \A p \in Process : probe[p].left + since <= Ttl
  BY <1>3 DEF GatewayInit, Process
<1> QED
  BY <1>1, <1>2, <1>4, NoTurnOK DEF GatewayInit, GatewayInv, GatewayTypeOK, ProbeInv, ProbeState, TurnInv

\* A process probes, or starts with an empty cache.
LEMMA ProbeKept ==
  ASSUME GatewayInv, UNCHANGED <<keys, up, since>>, NEW q \in Process, NEW e \in ProbeState,
         e.left + since <= Ttl, probe' = probe \/ probe' = [probe EXCEPT ![q] = e]
  PROVE  /\ probe' \in [Process -> ProbeState] /\ \A p \in Process : ProbeInv(p)'
         /\ \A p \in Process \ {q} : probe'[p] = probe[p]
         /\ probe' = probe \/ probe'[q] = e
BY DEF GatewayInv, GatewayTypeOK, ProbeState, ProbeInv

\* A step of one turn, which may probe.
LEMMA OneTurn ==
  ASSUME GatewayInv, UNCHANGED <<keys, up, since, embedder, index>>, NEW p \in Api, NEW x \in Turn,
         NEW e \in ProbeState, e.left + since <= Ttl,
         probe' = probe \/ probe' = [probe EXCEPT ![p] = e],
         turn' = [turn EXCEPT ![p] = x],
         x.llm = "ollama" => keys = {} /\ probe'[p].reachable /\ x.embed # "hashing",
         x.embed # "none" => (x.embed = "openai" <=> "openai" \in keys),
         x.late => up /\ since = Ttl /\ x.llm # "offline" /\ x.embed # "hashing"
  PROVE  GatewayInv'
<1>1. p \in Process
  BY DEF Process
<1>2. /\ probe' \in [Process -> ProbeState] /\ \A q \in Process : ProbeInv(q)'
      /\ \A q \in Process \ {p} : probe'[q] = probe[q]
  BY <1>1, ProbeKept
<1>3. turn' \in [Api -> Turn] /\ turn'[p] = x /\ \A q \in Api \ {p} : turn'[q] = turn[q]
  BY DEF GatewayInv, GatewayTypeOK
<1>4. ASSUME NEW q \in Api PROVE TurnInv(q)'
  <2>1. CASE q = p
    BY <1>3, <2>1 DEF TurnInv
  <2>2. CASE q # p
    <3>1. turn'[q] = turn[q] /\ probe'[q] = probe[q] /\ TurnInv(q)
      BY <1>2, <1>3, <2>2 DEF GatewayInv, Process
    <3> QED
      BY <3>1 DEF TurnInv
  <2> QED
    BY <2>1, <2>2
<1> QED
  BY <1>2, <1>3, <1>4 DEF GatewayInv, GatewayTypeOK, ProbeState

LEMMA AskOK == ASSUME GatewayInv, NEW p \in Api, Ask(p) PROVE GatewayInv'
<1> DEFINE x == [NoTurn EXCEPT !.llm = LlmProvider(p), !.late = (up /\ since = Ttl)]
<1>1. p \in Process
  BY DEF Process
<1>2. /\ LlmProvider(p) \in Llms
      /\ LlmProvider(p) = "ollama" => keys = {} /\ Reachable(p)
      /\ LlmProvider(p) = "offline" => ~Reachable(p)
  BY DEF LlmProvider, Llms
<1>3. x \in Turn /\ x.llm = LlmProvider(p) /\ x.embed = "none" /\ x.late = (up /\ since = Ttl)
  BY <1>2, NoTurnOK DEF Turn, NoTurn
<1>4. turn' = [turn EXCEPT ![p] = x]
  BY DEF Ask
<1> HIDE DEF x
<1>5. probe' = probe \/ probe' = [probe EXCEPT ![p] = Probed(p)]
  BY DEF Ask, AfterLlm
<1>6. x.llm = "ollama" => keys = {} /\ probe'[p].reachable
  <2>1. SUFFICES ASSUME x.llm = "ollama" PROVE keys = {} /\ probe'[p].reachable
    OBVIOUS
  <2>2. keys = {} /\ Reachable(p) /\ p \in DOMAIN probe
    BY <1>1, <1>2, <1>3, <2>1 DEF GatewayInv, GatewayTypeOK
  <2>3. probe'[p] = Probed(p)
    BY <2>2 DEF Ask, AfterLlm
  <2> QED
    BY <1>1, <2>2, <2>3, Probing
<1>7. x.late => up /\ since = Ttl /\ x.llm # "offline"
  BY <1>1, <1>2, <1>3, ReachableLate
<1> QED
  BY <1>1, <1>3, <1>4, <1>5, <1>6, <1>7, Probing, OneTurn DEF Ask

LEMMA BuildDependenciesOK ==
  ASSUME GatewayInv, NEW p \in Api, BuildDependencies(p) PROVE GatewayInv'
<1> DEFINE x == [turn[p] EXCEPT !.embed = EmbeddingProvider(p)]
<1>1. p \in Process /\ turn[p] \in Turn /\ TurnInv(p) /\ p \in DOMAIN probe
  BY DEF Process, GatewayInv, GatewayTypeOK
<1>2. /\ EmbeddingProvider(p) \in Embedders
      /\ EmbeddingProvider(p) = "openai" <=> "openai" \in keys
      /\ EmbeddingProvider(p) = "hashing" => ~Reachable(p)
  BY DEF EmbeddingProvider, Embedders
<1>3. x \in Turn /\ x.llm = turn[p].llm /\ x.embed = EmbeddingProvider(p) /\ x.late = turn[p].late
  BY <1>1, <1>2 DEF Turn
<1>4. turn' = [turn EXCEPT ![p] = x]
  BY DEF BuildDependencies
<1> HIDE DEF x
<1>5. probe' = probe \/ probe' = [probe EXCEPT ![p] = Probed(p)]
  BY DEF BuildDependencies, AfterEmbedding
<1>6. x.llm = "ollama" => keys = {} /\ probe'[p].reachable /\ x.embed # "hashing"
  <2>1. SUFFICES ASSUME x.llm = "ollama" PROVE keys = {} /\ probe'[p].reachable /\ x.embed # "hashing"
    OBVIOUS
  <2>2. keys = {} /\ probe[p].reachable /\ Reachable(p)
    BY <1>1, <1>3, <2>1 DEF TurnInv, Reachable, Cached
  <2>3. Probed(p).reachable
    BY <1>1, <2>2, Probing
  <2> QED
    BY <1>1, <1>2, <1>3, <1>5, <2>2, <2>3
<1>7. x.late => up /\ since = Ttl /\ x.llm # "offline" /\ x.embed # "hashing"
  BY <1>1, <1>2, <1>3, ReachableLate DEF TurnInv
<1>8. Probed(p) \in ProbeState /\ Probed(p).left + since <= Ttl
  BY <1>1, Probing
<1>9. x.embed = "openai" <=> "openai" \in keys
  BY <1>2, <1>3
<1>10. UNCHANGED <<keys, up, since, embedder, index>>
  BY DEF BuildDependencies
<1> QED
  BY <1>3, <1>4, <1>5, <1>6, <1>7, <1>8, <1>9, <1>10, OneTurn

\* The turn ends, or its process starts anew.
LEMMA EndOfTurnOK ==
  ASSUME GatewayInv, NEW p \in Api, AnswerFromCache(p) \/ Search(p) \/ RestartApi(p)
  PROVE  GatewayInv'
<1>1. p \in Process
  BY DEF Process
<1>2. turn' = [turn EXCEPT ![p] = NoTurn] /\ (probe' = probe \/ probe' = [probe EXCEPT ![p] = Unprobed])
  BY DEF AnswerFromCache, Search, RestartApi
<1> QED
  BY <1>1, <1>2, NoTurnOK, Probing, OneTurn DEF AnswerFromCache, Search, RestartApi

\* The worker probes, and may be a new process with an embedder of its own.
LEMMA WorkerOK ==
  ASSUME GatewayInv, UNCHANGED <<keys, up, since, turn, index>>,
         NEW e \in ProbeState, e.left + since <= Ttl,
         probe' = probe \/ probe' = [probe EXCEPT ![Worker] = e],
         embedder' = embedder \/ embedder' = Started
  PROVE  GatewayInv'
<1>1. Worker \in Process /\ \A q \in Api : q \in Process \ {Worker}
  BY DEF Process
<1>2. /\ probe' \in [Process -> ProbeState] /\ \A q \in Process : ProbeInv(q)'
      /\ \A q \in Process \ {Worker} : probe'[q] = probe[q]
  BY <1>1, ProbeKept
<1>3. embedder' \in Embedders /\ (embedder' = "openai" <=> "openai" \in keys')
  BY DEF GatewayInv, GatewayTypeOK, Started, Embedders
<1> QED
  BY <1>1, <1>2, <1>3 DEF GatewayInv, GatewayTypeOK, ProbeState, TurnInv

LEMMA TickOK == ASSUME GatewayInv, Tick PROVE GatewayInv'
<1> DEFINE Aged(p) == [probe[p] EXCEPT !.left = IF @ = 0 THEN 0 ELSE @ - 1]
<1>1. \A p \in Process : probe[p] \in ProbeState
  BY DEF GatewayInv, GatewayTypeOK, ProbeState
<1>2. ASSUME NEW p \in Process
      PROVE  /\ Aged(p) \in ProbeState /\ Aged(p).reachable = probe[p].reachable
             /\ Aged(p).left = IF probe[p].left = 0 THEN 0 ELSE probe[p].left - 1
  BY <1>1 DEF ProbeState
<1>3. probe' = [p \in Process |-> Aged(p)]
  BY DEF Tick
<1>4. /\ probe' \in [Process -> ProbeState]
      /\ \A p \in Process : probe'[p].reachable = probe[p].reachable
      /\ \A p \in Process : probe'[p].left = IF probe[p].left = 0 THEN 0 ELSE probe[p].left - 1
  <2> HIDE DEF Aged
  <2> QED
    BY <1>2, <1>3
<1>5. since' \in 0..Ttl /\ (~up' => since' = 0) /\ since' <= since + 1
  BY DEF Tick, GatewayInv, GatewayTypeOK
<1>6. \A p \in Process : probe[p].left \in 0..Ttl /\ probe[p].left + since <= Ttl
  BY <1>1 DEF GatewayInv, ProbeInv, ProbeState
<1>7. \A p \in Process : probe'[p].left + since' <= Ttl
  BY <1>4, <1>5, <1>6 DEF GatewayInv, GatewayTypeOK
<1>8. \A p \in Api : p \in Process
  BY DEF Process
<1>9. ASSUME NEW p \in Api PROVE TurnInv(p)'
  <2>1. TurnInv(p) /\ turn'[p] = turn[p] /\ UNCHANGED <<keys, up>> /\ (up /\ since = Ttl => since' = Ttl)
    BY DEF Tick, services, GatewayInv
  <2> QED
    BY <1>4, <1>8, <2>1 DEF TurnInv
<1> QED
  BY <1>4, <1>5, <1>7, <1>9 DEF Tick, services, GatewayInv, GatewayTypeOK, ProbeInv, ProbeState

LEMMA GatewayStepOK == ASSUME GatewayInv, GatewayStep PROVE GatewayInv'
<1>2. CASE Ingest
  BY <1>2 DEF Ingest, GatewayInv, GatewayTypeOK, ProbeInv, TurnInv
<1>3. CASE GoDown
  <2>1. \A p \in Process : probe[p].left \in 0..Ttl
    BY DEF GatewayInv, GatewayTypeOK
  <2>2. \A p \in Process : probe'[p].left + since' <= Ttl
    BY <1>3, <2>1 DEF GoDown
  <2>3. since' = 0 /\ since' \in 0..Ttl
    BY <1>3 DEF GoDown
  <2>5. up' \in BOOLEAN
    BY <1>3 DEF GoDown
  <2>4. UNCHANGED <<keys, probe, embedder, index>>
    BY <1>3 DEF GoDown
  <2>6. ASSUME NEW p \in Api
        PROVE  /\ turn'[p] \in Turn /\ turn'[p].llm = turn[p].llm /\ turn'[p].embed = turn[p].embed
               /\ turn'[p].late = FALSE
    <3>1. turn[p] \in Turn /\ turn'[p] = [turn[p] EXCEPT !.late = FALSE]
      BY <1>3 DEF GoDown, GatewayInv, GatewayTypeOK
    <3> QED
      BY <3>1 DEF Turn
  <2>7. turn' \in [Api -> Turn]
    BY <1>3, <2>6 DEF GoDown
  <2>8. \A p \in Api : TurnInv(p)'
    BY <2>4, <2>6 DEF GatewayInv, TurnInv
  <2> QED
    BY <2>2, <2>3, <2>4, <2>5, <2>7, <2>8 DEF GatewayInv, GatewayTypeOK, ProbeInv
<1>4. CASE ComeUp
  <2>1. ~up /\ up' /\ UNCHANGED <<keys, since, probe, turn, embedder, index>>
    BY <1>4 DEF ComeUp, services
  <2> QED
    BY <2>1 DEF GatewayInv, GatewayTypeOK, ProbeInv, TurnInv
<1> QED
  BY <1>2, <1>3, <1>4, AskOK, BuildDependenciesOK, EndOfTurnOK, TickOK DEF GatewayStep

\* Somebody who finds the server back a TTL ago has no failure cached.
LEMMA Recovered == GatewayInv => RecoversWithinTtl
<1> SUFFICES ASSUME GatewayInv PROVE RecoversWithinTtl
  OBVIOUS
<1>1. embedder \in {"openai", "ollama", "hashing"} /\ (embedder = "openai" <=> "openai" \in keys)
  BY DEF GatewayInv, GatewayTypeOK, Embedders
<1>2. ASSUME NEW p \in Api, turn[p].late
      PROVE  /\ turn[p].llm # "offline"
             /\ embedder # "hashing" /\ index = embedder => turn[p].embed \in {"none", index}
  <2>1. TurnInv(p) /\ turn[p].embed \in {"openai", "ollama", "hashing", "none"}
    BY DEF GatewayInv, GatewayTypeOK, Turn, Embedders
  <2> QED
    BY <1>1, <1>2, <2>1 DEF TurnInv
<1>3. ASSUME up, since = Ttl, NEW p \in Process
      PROVE  /\ LlmProvider(p) # "offline"
             /\ embedder # "hashing" /\ index = embedder => EmbeddingProvider(p) = index
  BY <1>1, <1>3, ReachableLate DEF LlmProvider, EmbeddingProvider
<1> QED
  BY <1>2, <1>3 DEF RecoversWithinTtl

\* The embedding service of a turn finds what its LLM gateway has cached.
LEMMA BothOnline == GatewayInv => NeverHalfOffline
BY DEF GatewayInv, TurnInv, NeverHalfOffline

-----------------------------------------------------------------------------
(* The night.                                                               *)

Sampled == {m \in Answer : job.cites[m] # {}}
Sampling == {"rows", "chunks", "loop", "asked"}

\* The job's sample is split into what is to do, asked, scored and skipped.
SampleInv ==
  /\ job.pc \in Sampling => job.llm # "offline"
  /\ IF job.pc = "asked" THEN Cardinality(job.asked.of) = 1 ELSE job.asked = Nothing
  /\ job.pc \notin {"chunks", "loop", "asked"} => Sampled = {} /\ job.todo = {}
  /\ job.todo \subseteq Sampled
  /\ job.count + job.skipped + Cardinality(job.todo) + Cardinality(job.asked.of) = Cardinality(Sampled)

\* The delivery has sent to the traces what total says of its scores; and its row
\* will say that, or says it.
Traces(total) == traced <= total /\ (~lacking => traced = total)

TraceInv ==
  /\ job.pc \notin {"alert", "done", "failed"} => Traces(job.total)
  /\ job.pc = "alert" => rows # <<>> /\ Traces(rows[Len(rows)].total)

RowsInv == \A i \in DOMAIN rows : rows[i].count + rows[i].skipped = rows[i].sampled

NightInv ==
  /\ GatewayInv /\ TypeOK /\ SampleInv /\ TraceInv /\ RowsInv /\ JudgeSeesCitations

LEMMA EmptyJob ==
  ASSUME NEW try \in 1..MaxTries
  PROVE  Queued(try) \in JobState /\ Nothing.of = {}
BY FS_EmptySet DEF Queued, JobState, Nothing, Llms

LEMMA InitOK == Init => NightInv
<1> SUFFICES ASSUME Init PROVE NightInv
  OBVIOUS
<1>1. job \in JobState /\ job = Queued(1) /\ Nothing.of = {}
  BY EmptyJob DEF Init
<1>2. rows \in Seq(Row) /\ traced \in Nat /\ lacking \in BOOLEAN /\ alerted \in BOOLEAN
  <2>1. rows = <<>> /\ traced = 0 /\ lacking = FALSE /\ alerted \in BOOLEAN
    BY DEF Init
  <2>2. rows \in Seq(Row)
    BY <2>1
  <2> QED
    BY <2>1, <2>2
<1>3. /\ job.pc = "queued" /\ job.try = 1 /\ job.asked = Nothing /\ job.todo = {}
      /\ job.count = 0 /\ job.skipped = 0 /\ job.total = 0 /\ Sampled = {}
  BY <1>1 DEF Queued, Sampled
<1>4. SampleInv
  BY <1>1, <1>3, FS_EmptySet DEF SampleInv, Sampling
<1>5. TraceInv /\ RowsInv /\ JudgeSeesCitations
  BY <1>3 DEF Init, TraceInv, Traces, RowsInv, JudgeSeesCitations, At
<1> QED
  BY <1>1, <1>2, <1>4, <1>5, GatewayInitOK DEF Init, NightInv, TypeOK, GatewayInv

\* The job ends, or goes on to the alert, and forgets its sample.
LEMMA Left ==
  ASSUME NightInv, NEW pc \in {"alert", "done", "failed"}, Leave(pc)
  PROVE  /\ job' \in JobState /\ job'.try = job.try /\ job'.pc = pc /\ job'.total = 0
         /\ SampleInv' /\ JudgeSeesCitations'
<1>1. job.try \in 1..MaxTries
  BY DEF NightInv, TypeOK, JobState
<1>2. Queued(job.try) \in JobState /\ Nothing.of = {}
  BY <1>1, EmptyJob
<1>3. /\ job' \in JobState /\ job'.pc = pc /\ job'.try = job.try /\ job'.todo = {}
      /\ job'.asked = Nothing /\ job'.count = 0 /\ job'.skipped = 0 /\ job'.total = 0
      /\ job'.cites = [m \in Answer |-> {}]
  <2>1. job' \in JobState
    BY <1>2 DEF Leave, JobState
  <2> QED
    BY <2>1 DEF Leave, Queued
<1>4. Sampled' = {}
  BY <1>3 DEF Sampled
<1> QED
  BY <1>2, <1>3, <1>4, FS_EmptySet DEF SampleInv, Sampling, JudgeSeesCitations, At

\* A step that leaves the gateways and the rows alone.
LEMMA JobStep ==
  ASSUME NightInv, UNCHANGED <<gatewayVars, rows>>, job' \in JobState,
         traced' \in Nat /\ lacking' \in BOOLEAN, alerted' \in BOOLEAN, SampleInv', JudgeSeesCitations', TraceInv'
  PROVE  NightInv'
<1>1. GatewayInv'
  BY DEF NightInv, gatewayVars, services, GatewayInv, GatewayTypeOK, ProbeInv, TurnInv
<1>2. TypeOK'
  BY <1>1 DEF NightInv, TypeOK, GatewayInv
<1>3. RowsInv'
  BY DEF NightInv, RowsInv
<1> QED
  BY <1>1, <1>2, <1>3 DEF NightInv

LEMMA BeginOK == ASSUME NightInv, Begin PROVE NightInv'
<1>1. Worker \in Process
  BY DEF Process
<1>2. GatewayInv /\ job \in JobState /\ traced' \in Nat /\ lacking' \in BOOLEAN /\ rows' \in Seq(Row)
  BY DEF Begin, NightInv, TypeOK
<1>3. probe' = probe \/ probe' = [probe EXCEPT ![Worker] = Probed(Worker)]
  BY DEF Begin, AfterLlm
<1>4. GatewayInv'
  BY <1>1, <1>2, <1>3, Probing, WorkerOK DEF Begin, services
<1>5. alerted' \in BOOLEAN /\ UNCHANGED <<rows, traced, lacking>>
  BY DEF Begin, NightInv, TypeOK
<1>6. LlmProvider(Worker) \in Llms
  BY DEF LlmProvider, Llms
<1>7. CASE MayJudge(LlmProvider(Worker))
  <2>1. job' = [job EXCEPT !.pc = "rows", !.llm = LlmProvider(Worker)]
    BY <1>7 DEF Begin
  <2>2. /\ job' \in JobState /\ job'.pc = "rows" /\ job'.llm # "offline"
        /\ \A f \in {"try", "cites", "todo", "asked", "count", "total", "skipped"} : job'[f] = job[f]
    BY <1>2, <1>6, <1>7, <2>1 DEF JobState, MayJudge
  <2>3. job'.try = job.try /\ job'.cites = job.cites /\ job'.todo = job.todo /\ job'.asked = job.asked
        /\ job'.count = job.count /\ job'.total = job.total /\ job'.skipped = job.skipped
    BY <2>2
  <2>4. job.pc = "queued"
    BY DEF Begin, At
  <2>5. Sampled' = Sampled
    BY <2>3 DEF Sampled
  <2>6. SampleInv'
    BY <2>2, <2>3, <2>4, <2>5 DEF NightInv, SampleInv, Sampling
  <2>7. TraceInv' /\ RowsInv' /\ JudgeSeesCitations'
    BY <1>5, <2>2, <2>3, <2>4 DEF NightInv, TraceInv, Traces, RowsInv, JudgeSeesCitations, At
  <2> QED
    BY <1>2, <1>4, <1>5, <2>2, <2>6, <2>7 DEF NightInv, TypeOK, GatewayInv
<1>8. CASE ~MayJudge(LlmProvider(Worker))
  <2>1. Leave("done")
    BY <1>8 DEF Begin
  <2>2. job' \in JobState /\ job'.try = job.try /\ job'.pc = "done" /\ job'.total = 0
        /\ SampleInv' /\ JudgeSeesCitations'
    BY <2>1, Left
  <2>3. job.pc = "queued"
    BY DEF Begin, At
  <2>4. TraceInv'
    BY <1>5, <2>2, <2>3 DEF NightInv, TraceInv, Traces
  <2>5. RowsInv'
    BY <1>5 DEF NightInv, RowsInv
  <2> QED
    BY <1>2, <1>4, <1>5, <2>2, <2>4, <2>5 DEF NightInv, TypeOK, GatewayInv
<1> QED
  BY <1>7, <1>8

LEMMA ReadAnswersOK == ASSUME NightInv, ReadAnswers PROVE NightInv'
<1>1. /\ UNCHANGED <<gatewayVars, rows>> /\ job.pc = "rows" /\ UNCHANGED <<traced, lacking>>
      /\ job \in JobState /\ traced' \in Nat /\ lacking' \in BOOLEAN /\ alerted' \in BOOLEAN
  BY DEF ReadAnswers, At, NightInv, TypeOK
<1>2. CASE Leave("done")
  <2>1. job' \in JobState /\ job'.try = job.try /\ job'.pc = "done"
        /\ SampleInv' /\ JudgeSeesCitations'
    BY <1>2, Left
  <2>2. TraceInv'
    BY <1>1, <2>1 DEF NightInv, TraceInv, Traces
  <2> QED
    BY <1>1, <2>1, <2>2, JobStep
<1>3. ASSUME NEW found \in (SUBSET Answer) \ {{}},
             NEW sample \in kSubset(SampleSize(Cardinality(found)), found),
             NEW cites \in [sample -> (SUBSET Slot) \ {{}}],
             job' = [job EXCEPT !.pc = "chunks", !.todo = sample,
                       !.cites = [m \in Answer |-> IF m \in sample THEN cites[m] ELSE {}]]
      PROVE  NightInv'
  <2> DEFINE chosen == [m \in Answer |-> IF m \in sample THEN cites[m] ELSE {}]
  <2>1. sample \subseteq Answer
    BY DEF kSubset
  <2>0. \A m \in sample : cites[m] \in SUBSET Slot /\ cites[m] # {}
    OBVIOUS
  <2>2. chosen \in [Answer -> SUBSET Slot] /\ \A m \in Answer : chosen[m] # {} <=> m \in sample
    BY <2>0, <2>1
  <2> HIDE DEF chosen
  <2>3. job' = [job EXCEPT !.pc = "chunks", !.todo = sample, !.cites = chosen]
    BY <1>3 DEF chosen
  <2>4. /\ job' \in JobState /\ job'.pc = "chunks" /\ job'.todo = sample /\ job'.cites = chosen
        /\ job'.try = job.try /\ job'.llm = job.llm /\ job'.asked = job.asked
        /\ job'.count = job.count /\ job'.total = job.total /\ job'.skipped = job.skipped
    BY <1>1, <2>1, <2>2, <2>3 DEF JobState
  <2>5. Sampled' = sample
    BY <2>1, <2>2, <2>4 DEF Sampled
  <2>6. Sampled = {} /\ job.todo = {} /\ job.asked = Nothing /\ job.llm # "offline"
        /\ job.count + job.skipped + Cardinality(job.todo) + Cardinality(job.asked.of) = Cardinality(Sampled)
    BY <1>1 DEF NightInv, SampleInv, Sampling
  <2>7. Cardinality({}) = 0 /\ Cardinality(job.asked.of) = 0
    BY <2>6, FS_EmptySet DEF Nothing
  <2>8. job.count = 0 /\ job.skipped = 0
    BY <1>1, <2>6, <2>7 DEF JobState
  <2>9. Cardinality(sample) \in Nat
    BY <2>1, FS_Subset, FS_CardinalityType
  <2>10. SampleInv'
    BY <2>4, <2>5, <2>6, <2>7, <2>8, <2>9 DEF SampleInv, Sampling
  <2>11. TraceInv' /\ JudgeSeesCitations'
    BY <1>1, <2>4 DEF NightInv, TraceInv, Traces, JudgeSeesCitations, At
  <2> QED
    BY <1>1, <2>4, <2>10, <2>11, JobStep
<1> QED
  BY <1>2, <1>3 DEF ReadAnswers

LEMMA ReadChunksOK == ASSUME NightInv, ReadChunks PROVE NightInv'
<1>1. /\ UNCHANGED <<gatewayVars, rows>> /\ job.pc = "chunks" /\ UNCHANGED <<traced, lacking>>
      /\ job \in JobState /\ traced' \in Nat /\ lacking' \in BOOLEAN /\ alerted' \in BOOLEAN
  BY DEF ReadChunks, At, NightInv, TypeOK
<1>2. PICK found \in SUBSET UNION {Cited(m) : m \in job.todo} :
        job' = [job EXCEPT !.pc = "loop", !.found = found]
  BY DEF ReadChunks
<1>3. found \subseteq Answer \X Slot
  BY <1>1 DEF JobState, Cited
<1>4. /\ job' \in JobState /\ job'.pc = "loop" /\ job'.todo = job.todo /\ job'.cites = job.cites
      /\ job'.try = job.try /\ job'.llm = job.llm /\ job'.asked = job.asked
      /\ job'.count = job.count /\ job'.total = job.total /\ job'.skipped = job.skipped
  BY <1>1, <1>2, <1>3 DEF JobState
<1>5. Sampled' = Sampled
  BY <1>4 DEF Sampled
<1>6. SampleInv'
  BY <1>1, <1>4, <1>5 DEF NightInv, SampleInv, Sampling
<1>7. TraceInv' /\ JudgeSeesCitations'
  BY <1>1, <1>4 DEF NightInv, TraceInv, Traces, JudgeSeesCitations, At
<1> QED
  BY <1>1, <1>4, <1>6, <1>7, JobStep

\* One answer less to do.
LEMMA OneLess ==
  ASSUME job \in JobState, NEW m \in job.todo
  PROVE  /\ Cardinality(job.todo) \in Nat /\ Cardinality(job.todo \ {m}) = Cardinality(job.todo) - 1
         /\ job.todo \ {m} \subseteq Answer
BY FS_Subset, FS_CardinalityType, FS_RemoveElement DEF JobState

LEMMA SkipOK == ASSUME NightInv, NEW m \in Answer, Skip(m) PROVE NightInv'
<1>1. /\ UNCHANGED <<gatewayVars, rows>> /\ job.pc = "loop" /\ UNCHANGED <<traced, lacking>> /\ m \in job.todo
      /\ job \in JobState /\ traced' \in Nat /\ lacking' \in BOOLEAN /\ alerted' \in BOOLEAN
  BY DEF Skip, At, NightInv, TypeOK
<1>2. job' = [job EXCEPT !.todo = job.todo \ {m}, !.skipped = job.skipped + 1]
  BY DEF Skip
<1>9. job.todo \ {m} \in SUBSET Answer /\ job.skipped + 1 \in Nat
  BY <1>1 DEF JobState
<1>3. /\ job' \in JobState /\ job'.pc = "loop" /\ job'.todo = job.todo \ {m} /\ job'.cites = job.cites
      /\ job'.try = job.try /\ job'.llm = job.llm /\ job'.asked = job.asked
      /\ job'.count = job.count /\ job'.total = job.total /\ job'.skipped = job.skipped + 1
  BY <1>1, <1>2, <1>9 DEF JobState
<1>4. Sampled' = Sampled
  BY <1>3 DEF Sampled
<1>5. job.asked = Nothing /\ Cardinality(job.asked.of) = 0
  <2>1. job.asked = Nothing
    BY <1>1 DEF NightInv, SampleInv
  <2>2. Nothing.of = {}
    BY DEF Nothing
  <2> QED
    BY <2>1, <2>2, FS_EmptySet
<1>6. job'.count + job'.skipped + Cardinality(job'.todo) + Cardinality(job'.asked.of) = Cardinality(Sampled')
  BY <1>1, <1>3, <1>4, <1>5, OneLess DEF NightInv, SampleInv, JobState
<1>7. SampleInv'
  BY <1>1, <1>3, <1>4, <1>6 DEF NightInv, SampleInv, Sampling
<1>8. TraceInv' /\ JudgeSeesCitations'
  BY <1>1, <1>3 DEF NightInv, TraceInv, Traces, JudgeSeesCitations, At
<1> QED
  BY <1>1, <1>3, <1>7, <1>8, JobStep

\* Every number the answer cites is the place of its passage.
LEMMA InPlace ==
  ASSUME job \in JobState, NEW m \in Answer, job.cites[m] # {}, AllFound(m)
  PROVE  /\ Passages(m) \in Seq((Answer \X Slot) \cup {Padding})
         /\ \A n \in job.cites[m] : n \in DOMAIN Passages(m) /\ Passages(m)[n] = <<m, n>>
<1> DEFINE c == job.cites[m]
<1>1. c \subseteq Slot /\ c \subseteq Nat \ {0} /\ IsFiniteSet(c)
  BY FS_Subset DEF JobState
<1>2. Max(c) \in Nat /\ \A n \in c : n \in 1..Max(c)
  <2>1. Max(c) \in c /\ \A n \in c : n <= Max(c)
    BY <1>1, FiniteMax
  <2>2. ASSUME NEW n \in c PROVE n \in 1..Max(c)
    BY <1>1, <2>1
  <2> QED
    BY <1>1, <2>1, <2>2
<1>3. job.found \subseteq Answer \X Slot
  BY DEF JobState
<1>4. \A n \in c : <<m, n>> \in Cited(m) \cap job.found
  BY DEF AllFound, Cited
<1>5. DOMAIN Passages(m) = 1..Max(c)
  BY DEF Passages
<1>6. \A n \in 1..Max(c) :
        Passages(m)[n] = IF <<m, n>> \in Cited(m) \cap job.found THEN <<m, n>> ELSE Padding
  BY DEF Passages
<1>7. Passages(m) \in [1..Max(c) -> (Answer \X Slot) \cup {Padding}]
  BY <1>3 DEF Passages
<1>8. Passages(m) \in Seq((Answer \X Slot) \cup {Padding})
  BY <1>2, <1>7
<1> QED
  BY <1>2, <1>4, <1>5, <1>6, <1>8

LEMMA AskJudgeOK == ASSUME NightInv, NEW m \in Answer, AskJudge(m) PROVE NightInv'
<1>1. /\ UNCHANGED <<gatewayVars, rows>> /\ job.pc = "loop" /\ UNCHANGED <<traced, lacking>> /\ m \in job.todo
      /\ job \in JobState /\ traced' \in Nat /\ lacking' \in BOOLEAN /\ alerted' \in BOOLEAN /\ AllFound(m)
  BY DEF AskJudge, At, NightInv, TypeOK
<1>2. PICK q : q = Passages(m)
  OBVIOUS
<1>3. job.cites[m] # {}
  BY <1>1 DEF NightInv, SampleInv, Sampled
<1>4. /\ q \in Seq((Answer \X Slot) \cup {Padding})
      /\ \A n \in job.cites[m] : n \in DOMAIN q /\ q[n] = <<m, n>>
  BY <1>1, <1>2, <1>3, InPlace
<1>5. job' = [job EXCEPT !.pc = "asked", !.todo = job.todo \ {m}, !.asked = [of |-> {m}, passages |-> q]]
  BY <1>2 DEF AskJudge
<1>6. /\ job' \in JobState /\ job'.pc = "asked" /\ job'.todo = job.todo \ {m} /\ job'.cites = job.cites
      /\ job'.try = job.try /\ job'.llm = job.llm
      /\ job'.asked.of = {m} /\ job'.asked.passages = q
      /\ job'.count = job.count /\ job'.total = job.total /\ job'.skipped = job.skipped
  BY <1>1, <1>4, <1>5 DEF JobState
<1>7. Sampled' = Sampled
  BY <1>6 DEF Sampled
<1>8. job.asked = Nothing /\ Cardinality(job.asked.of) = 0 /\ Cardinality({m}) = 1
  <2>1. job.asked = Nothing
    BY <1>1 DEF NightInv, SampleInv
  <2>2. Nothing.of = {}
    BY DEF Nothing
  <2> QED
    BY <2>1, <2>2, FS_EmptySet, FS_Singleton
<1>9. job'.count + job'.skipped + Cardinality(job'.todo) + Cardinality(job'.asked.of) = Cardinality(Sampled')
  BY <1>1, <1>6, <1>7, <1>8, OneLess DEF NightInv, SampleInv, JobState
<1>10. SampleInv'
  BY <1>1, <1>6, <1>7, <1>8, <1>9 DEF NightInv, SampleInv, Sampling
<1>11. job.llm # "offline"
  BY <1>1 DEF NightInv, SampleInv, Sampling
<1>12. TraceInv' /\ JudgeSeesCitations'
  BY <1>1, <1>4, <1>6, <1>11 DEF NightInv, TraceInv, Traces, JudgeSeesCitations, At
<1> QED
  BY <1>1, <1>6, <1>10, <1>12, JobStep

LEMMA ScoredOK == ASSUME NightInv, Scored PROVE NightInv'
<1>1. /\ UNCHANGED <<gatewayVars, rows>> /\ job.pc = "asked"
      /\ job \in JobState /\ alerted' \in BOOLEAN
  BY DEF Scored, At, NightInv, TypeOK
<1>2. PICK v \in Score, trace_id \in BOOLEAN :
        /\ job' = [job EXCEPT !.pc = "loop", !.asked = Nothing,
                              !.count = job.count + 1, !.total = job.total + v]
        /\ traced' = IF trace_id THEN traced + v ELSE traced
        /\ lacking' = (lacking \/ ~trace_id)
  BY DEF Scored
<1>3. v \in Nat /\ job.count + 1 \in Nat /\ job.total \in Nat /\ job.total + v \in Nat
      /\ traced \in Nat /\ traced' \in Nat /\ lacking' \in BOOLEAN
  <2>1. traced \in Nat /\ lacking \in BOOLEAN
    BY DEF NightInv, TypeOK
  <2>2. v \in Nat /\ job.count \in Nat /\ job.total \in Nat
    BY <1>1 DEF JobState
  <2> QED
    BY <1>2, <2>1, <2>2
<1>4. Nothing \in [of : SUBSET Answer, passages : Seq((Answer \X Slot) \cup {Padding})] /\ Nothing.of = {}
  BY DEF Nothing
<1>5. /\ job' \in JobState /\ job'.pc = "loop" /\ job'.todo = job.todo /\ job'.cites = job.cites
      /\ job'.try = job.try /\ job'.llm = job.llm /\ job'.asked = Nothing
      /\ job'.count = job.count + 1 /\ job'.total = job.total + v /\ job'.skipped = job.skipped
  BY <1>1, <1>2, <1>3, <1>4 DEF JobState
<1>6. Sampled' = Sampled
  BY <1>5 DEF Sampled
<1>7. Cardinality(job.asked.of) = 1 /\ Cardinality(job'.asked.of) = 0
  BY <1>1, <1>4, <1>5, FS_EmptySet DEF NightInv, SampleInv
<1>8. Cardinality(job.todo) \in Nat
  BY <1>1, FS_Subset, FS_CardinalityType DEF JobState
<1>9. job'.count + job'.skipped + Cardinality(job'.todo) + Cardinality(job'.asked.of) = Cardinality(Sampled')
  BY <1>1, <1>5, <1>6, <1>7, <1>8 DEF NightInv, SampleInv, JobState
<1>10. SampleInv'
  BY <1>1, <1>5, <1>6, <1>9 DEF NightInv, SampleInv, Sampling
<1>11. TraceInv'
  <2>1. traced <= job.total /\ (~lacking => traced = job.total)
    BY <1>1 DEF NightInv, TraceInv, Traces
  <2>2. CASE trace_id
    <3>1. traced' = traced + v /\ job'.total = job.total + v /\ lacking' = lacking
      BY <1>2, <1>5, <2>2 DEF NightInv, TypeOK
    <3> QED
      BY <1>3, <1>5, <2>1, <3>1 DEF TraceInv, Traces
  <2>3. CASE ~trace_id
    <3>1. traced' = traced /\ job'.total = job.total + v /\ lacking'
      BY <1>2, <1>5, <2>3
    <3> QED
      BY <1>3, <1>5, <2>1, <3>1 DEF TraceInv, Traces
  <2> QED
    BY <2>2, <2>3
<1>12. JudgeSeesCitations'
  BY <1>5 DEF JudgeSeesCitations, At
<1> QED
  BY <1>1, <1>3, <1>5, <1>10, <1>11, <1>12, JobStep

LEMMA RaiseOK == ASSUME NightInv, Raise PROVE NightInv'
<1>1. /\ UNCHANGED <<gatewayVars, rows, traced, lacking>> /\ traced' \in Nat /\ lacking' \in BOOLEAN /\ alerted' \in BOOLEAN
  BY DEF Raise, NightInv, TypeOK
<1>2. Leave("failed")
  BY DEF Raise, JudgeRaises, Leave
<1>3. job' \in JobState /\ job'.try = job.try /\ job'.pc = "failed" /\ SampleInv' /\ JudgeSeesCitations'
  BY <1>2, Left
<1>4. TraceInv'
  BY <1>1, <1>3 DEF NightInv, TraceInv, Traces
<1> QED
  BY <1>1, <1>3, <1>4, JobStep

LEMMA CommitOK == ASSUME NightInv, Commit PROVE NightInv'
<1>1. /\ UNCHANGED gatewayVars /\ job.pc = "loop" /\ job.todo = {} /\ UNCHANGED <<traced, lacking>>
      /\ job \in JobState /\ rows \in Seq(Row) /\ traced' \in Nat /\ lacking' \in BOOLEAN /\ alerted' \in BOOLEAN
  BY DEF Commit, At, NightInv, TypeOK
<1>2. job' \in JobState /\ job'.try = job.try /\ job'.pc = "alert" /\ SampleInv' /\ JudgeSeesCitations'
  BY Left DEF Commit
<1>3. PICK row : row = [count |-> job.count, total |-> job.total, skipped |-> job.skipped,
                        sampled |-> Cardinality(Sampled)]
  OBVIOUS
<1>4. rows' = Append(rows, row)
  BY <1>3 DEF Commit, Sampled
<1>5. Cardinality(Sampled) \in Nat
  BY FS_Subset, FS_CardinalityType DEF Sampled
<1>6. row \in Row /\ row.total = job.total
  BY <1>1, <1>3, <1>5 DEF JobState, Row
<1>7. job.asked = Nothing
  BY <1>1 DEF NightInv, SampleInv
<1>8. Cardinality(job.todo) = 0 /\ Cardinality(job.asked.of) = 0
  BY <1>1, <1>7, FS_EmptySet DEF Nothing
<1>9. row.count + row.skipped = row.sampled
  BY <1>1, <1>3, <1>8 DEF NightInv, SampleInv, JobState
<1>10. rows' \in Seq(Row) /\ RowsInv'
  <2>1. /\ rows' \in Seq(Row) /\ DOMAIN rows' = 1..(Len(rows) + 1) /\ DOMAIN rows = 1..Len(rows)
        /\ rows'[Len(rows) + 1] = row /\ \A i \in 1..Len(rows) : rows'[i] = rows[i]
        /\ Len(rows) \in Nat
    BY <1>1, <1>4, <1>6
  <2>2. ASSUME NEW i \in 1..(Len(rows) + 1) PROVE rows'[i].count + rows'[i].skipped = rows'[i].sampled
    <3>1. CASE i = Len(rows) + 1
      BY <1>9, <2>1, <3>1
    <3>2. CASE i # Len(rows) + 1
      <4>1. i \in 1..Len(rows)
        BY <2>1, <3>2
      <4> QED
        BY <2>1, <4>1 DEF NightInv, RowsInv
    <3> QED
      BY <3>1, <3>2
  <2> QED
    BY <2>1, <2>2 DEF RowsInv
<1>11. TraceInv'
  <2>1. Traces(job.total)
    BY <1>1 DEF NightInv, TraceInv
  <2>2. rows' # <<>> /\ rows'[Len(rows')] = row
    BY <1>1, <1>4, <1>6
  <2> QED
    BY <1>1, <1>2, <1>6, <2>1, <2>2 DEF TraceInv, Traces
<1>12. GatewayInv'
  BY <1>1 DEF NightInv, gatewayVars, services, GatewayInv, GatewayTypeOK, ProbeInv, TurnInv
<1> QED
  BY <1>1, <1>2, <1>10, <1>11, <1>12 DEF NightInv, TypeOK, GatewayInv

LEMMA AlertOK == ASSUME NightInv, Alert PROVE NightInv'
<1>1. /\ UNCHANGED <<gatewayVars, rows, traced, lacking>> /\ job.pc = "alert"
  BY DEF Alert, At
<1>2. job' \in JobState /\ job'.try = job.try /\ job'.pc = "done" /\ SampleInv' /\ JudgeSeesCitations'
  BY Left DEF Alert
<1>3. alerted' \in BOOLEAN
  <2>1. PICK told \in {Regressed(past, edge) : past \in Past, edge \in BOOLEAN} :
          alerted' = (alerted \/ told)
    BY DEF Alert
  <2> QED
    BY <2>1
<1>4. traced' \in Nat /\ lacking' \in BOOLEAN
  BY <1>1 DEF NightInv, TypeOK
<1>5. TraceInv'
  BY <1>1, <1>2 DEF NightInv, TraceInv, Traces
<1> QED
  BY <1>1, <1>2, <1>3, <1>4, <1>5, JobStep

LEMMA RestartWorkerOK == ASSUME NightInv, RestartWorker PROVE NightInv'
<1>0. (traced' = traced /\ lacking' = lacking) \/ (traced' = 0 /\ lacking' = FALSE)
  BY Zenon DEF RestartWorker
<1>1. /\ UNCHANGED <<rows, alerted, keys, up, since, turn, index>>
      /\ job \in JobState /\ GatewayInv /\ rows' \in Seq(Row) /\ alerted' \in BOOLEAN
      /\ traced' \in Nat /\ lacking' \in BOOLEAN
  <2>1. UNCHANGED <<rows, alerted, keys, up, since, turn, index>>
    BY DEF RestartWorker, StartWorker
  <2>2. rows \in Seq(Row) /\ alerted \in BOOLEAN /\ traced \in Nat /\ lacking \in BOOLEAN
        /\ job \in JobState /\ GatewayInv
    BY DEF NightInv, TypeOK
  <2>3. traced' \in Nat /\ lacking' \in BOOLEAN
    <3>1. CASE traced' = traced /\ lacking' = lacking
      BY <2>2, <3>1
    <3>2. CASE traced' = 0 /\ lacking' = FALSE
      BY <3>2
    <3> QED
      BY <1>0, <3>1, <3>2
  <2> QED
    BY <2>1, <2>2, <2>3
<1>2. FirstProbe \in ProbeState /\ FirstProbe.left + since <= Ttl
  BY <1>1, Probing DEF FirstProbe, Process
<1>3. GatewayInv'
  BY <1>1, <1>2, WorkerOK DEF RestartWorker, StartWorker
<1>4. RowsInv'
  BY <1>1 DEF NightInv, RowsInv
<1>5. CASE UNCHANGED <<job, traced, lacking>>
  <2>1. SampleInv' /\ TraceInv' /\ JudgeSeesCitations'
    BY <1>1, <1>5 DEF NightInv, SampleInv, Sampled, TraceInv, Traces, JudgeSeesCitations, At, AllFound, Cited
  <2> QED
    BY <1>1, <1>3, <1>4, <1>5, <2>1 DEF NightInv, TypeOK, GatewayInv
<1>6. CASE ~UNCHANGED <<job, traced, lacking>>
  <2>1. /\ \/ job.try < MaxTries /\ job' = Queued(job.try + 1)
           \/ job.try >= MaxTries /\ Leave("failed")
        /\ traced' = 0 /\ lacking' = FALSE
    BY <1>1, <1>6 DEF RestartWorker, Leave, JobState
  <2>2. CASE Leave("failed")
    <3>1. job' \in JobState /\ job'.try = job.try /\ job'.pc = "failed" /\ SampleInv' /\ JudgeSeesCitations'
      BY <2>2, Left
    <3>2. TraceInv'
      BY <1>1, <3>1 DEF NightInv, TraceInv, Traces
    <3> QED
      BY <1>1, <1>3, <1>4, <3>1, <3>2 DEF NightInv, TypeOK, GatewayInv
  <2>3. CASE job.try < MaxTries /\ job' = Queued(job.try + 1)
    <3>1. job.try + 1 \in 1..MaxTries
      BY <1>1, <2>3 DEF JobState
    <3>2. job' \in JobState /\ Nothing.of = {}
      BY <2>3, <3>1, EmptyJob
    <3>3. /\ job'.pc = "queued" /\ job'.total = 0 /\ job'.asked = Nothing /\ job'.todo = {}
          /\ job'.count = 0 /\ job'.skipped = 0 /\ job'.cites = [m \in Answer |-> {}]
      BY <2>3, <3>1 DEF Queued
    <3>4. Sampled' = {}
      BY <3>3 DEF Sampled
    <3>5. SampleInv'
      BY <3>2, <3>3, <3>4, FS_EmptySet DEF SampleInv, Sampling
    <3>6. TraceInv' /\ JudgeSeesCitations'
      BY <2>1, <3>3 DEF TraceInv, Traces, JudgeSeesCitations, At
    <3> QED
      BY <1>1, <1>3, <1>4, <3>2, <3>5, <3>6 DEF NightInv, TypeOK, GatewayInv
  <2> QED
    BY <2>1, <2>2, <2>3
<1> QED
  BY <1>5, <1>6

LEMMA Quiet == ASSUME NightInv, GatewayInv', UNCHANGED nightVars PROVE NightInv'
<1>1. SampleInv' /\ TraceInv' /\ RowsInv' /\ JudgeSeesCitations'
  BY DEF nightVars, NightInv, SampleInv, Sampled, TraceInv, Traces, RowsInv, JudgeSeesCitations, At
<1> QED
  BY <1>1 DEF nightVars, NightInv, TypeOK, GatewayInv

-----------------------------------------------------------------------------
(* The theorems.                                                            *)

\* The inductive invariant: no cached failure outlasts a TTL after the outage, a turn
\* on the Ollama server keeps the probe that found it, the job's sample is accounted
\* for at every step, and what it has traced is what its row will say.
THEOREM NightInvariant == Spec => []NightInv
<1>1. ASSUME NightInv, [Next]_vars PROVE NightInv'
  <2>1. ASSUME GatewayStep, UNCHANGED nightVars PROVE NightInv'
    <3>1. GatewayInv'
      BY <2>1, <1>1, GatewayStepOK DEF NightInv
    <3> QED
      BY <1>1, <2>1, <3>1, Quiet
  <2>2. CASE UNCHANGED vars
    <3>1. GatewayInv'
      BY <1>1, <2>2 DEF vars, gatewayVars, services, NightInv, GatewayInv, GatewayTypeOK, ProbeInv, TurnInv
    <3> QED
      BY <1>1, <2>2, <3>1, Quiet DEF vars
  <2> QED
    BY <1>1, <2>1, <2>2, RestartWorkerOK, BeginOK, ReadAnswersOK, ReadChunksOK, SkipOK, AskJudgeOK,
       ScoredOK, RaiseOK, CommitOK, AlertOK DEF Next
<1> QED
  BY <1>1, InitOK, PTL DEF Spec

\* Every reachable state is well typed.
THEOREM NightTyped == Spec => []TypeOK
<1>1. NightInv => TypeOK
  BY DEF NightInv
<1> QED
  BY <1>1, NightInvariant, PTL

\* What is built a TTL after the Ollama server is back is no stand-in, and a turn that
\* begins then embeds its question with the model of the chunks.
THEOREM OutageForgotten == Spec => []RecoversWithinTtl
<1>1. NightInv => RecoversWithinTtl
  BY Recovered DEF NightInv
<1> QED
  BY <1>1, NightInvariant, PTL

\* A turn that the Ollama server answers searches with its embeddings, not with the
\* stand-in's, whatever becomes of the server in between.
THEOREM GatewaysAgree == Spec => []NeverHalfOffline
<1>1. NightInv => NeverHalfOffline
  BY BothOnline DEF NightInv
<1> QED
  BY <1>1, NightInvariant, PTL

\* The judge is a real model and reads every cited passage under its own number.
THEOREM JudgeInformed == Spec => []JudgeSeesCitations
<1>1. NightInv => JudgeSeesCitations
  BY DEF NightInv
<1> QED
  BY <1>1, NightInvariant, PTL

\* A row accounts for each answer of its sample, and its mean for the scores that its
\* delivery sent to traces: all of them, or all of the answers that had a trace.
THEOREM RowsAccount == Spec => []RowAccountsForSample
<1>1. NightInv => RowAccountsForSample
  BY DEF NightInv, RowsInv, TraceInv, Traces, At, RowAccountsForSample
<1> QED
  BY <1>1, NightInvariant, PTL

\* A week's collapse alerts at its end at the latest and a record that never falls does
\* not, for any scores, threshold, length of a week and number of rows of tonight.
THEOREM AlertsTrue == Spec => []AlertsOnCollapse
<1>1. TypeOK => AlertsOnCollapse
  BY CollapseAlerts, SteadyIsQuiet DEF AlertsOnCollapse
<1> QED
  BY <1>1, NightTyped, PTL

=============================================================================
