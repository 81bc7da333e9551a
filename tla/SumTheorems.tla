----------------------------- MODULE SumTheorems -----------------------------
(***************************************************************************)
(* Sums over finite sets, as MapThenSumSet of FiniteSetsExt computes them: *)
(* the order in which the elements are taken does not matter.              *)
(*                                                                         *)
(* The theorems of the library on induction and on recursive definitions   *)
(* take a predicate as a parameter.  WFMin does not, and says the same: a  *)
(* set of counterexamples would have a smallest one.                       *)
(***************************************************************************)
EXTENDS FiniteSetsExt, FiniteSetTheorems, TLAPS

-----------------------------------------------------------------------------
(* Smallest counterexamples.                                               *)

\* A set of natural numbers has a least one.
LEMMA LeastNumber ==
    ASSUME NEW T \in SUBSET Nat, T # {}
    PROVE  \E n \in T : \A m \in T : n <= m
<1> DEFINE lt == {ss \in Nat \X Nat : ss[1] < ss[2]}
<1>1. IsWellFoundedOn(lt, Nat)
  BY NatLessThanWellFounded, Zenon DEF OpToRel
<1>2. PICK n \in T : \A m \in T : <<m, n>> \notin lt
  BY <1>1, WFMin
<1>3. ASSUME NEW m \in T PROVE ~(m < n)
  <2>1. m \in Nat /\ n \in Nat /\ <<m, n>> \notin lt
    BY <1>2
  <2> QED BY <2>1, Zenon
<1> QED BY <1>3

\* A family of subsets of a finite set has one that contains no other.
LEMMA SmallestSubset ==
    ASSUME NEW S, IsFiniteSet(S), NEW T, T \subseteq SUBSET S, T # {}
    PROVE  \E x \in T : \A y \in T : y \subseteq x => y = x
<1>1. \E x \in T : \A y \in T : <<y, x>> \notin StrictSubsetOrdering(S)
  BY WFMin, FS_StrictSubsetOrderingWellFounded, FS_FiniteSubsetsOfFinite
<1> QED BY <1>1 DEF StrictSubsetOrdering

-----------------------------------------------------------------------------
(* The recursive function behind a sum.                                    *)

Pick(s) == CHOOSE x \in s : TRUE

\* it adds up the weights w over the sets of D.
Adds(it, w, D) ==
    it = [s \in D |-> IF s = {} THEN 0 ELSE w[Pick(s)] + it[s \ {Pick(s)}]]

\* What MapThenSumSet chooses: a function that adds up w over the subsets of S.
Total(w, S) == (CHOOSE it : Adds(it, w, SUBSET S))[S]

\* Pick takes an element out, and what is left is smaller.
LEMMA PickFacts ==
    ASSUME NEW S, IsFiniteSet(S), NEW s \in SUBSET S, s # {}
    PROVE  /\ Pick(s) \in s /\ s \ {Pick(s)} \in SUBSET S
           /\ Cardinality(s) \in Nat /\ Cardinality(s) > 0
           /\ Cardinality(s \ {Pick(s)}) = Cardinality(s) - 1
<1>1. Pick(s) \in s
  BY DEF Pick
<1>2. IsFiniteSet(s)
  BY FS_Subset
<1>3. Cardinality(s) \in Nat /\ Cardinality(s) # 0
  BY <1>2, FS_CardinalityType, FS_EmptySet
<1>4. Cardinality(s \ {Pick(s)}) = Cardinality(s) - 1
  BY <1>1, <1>2, FS_RemoveElement
<1>5. Cardinality(s) > 0 /\ s \ {Pick(s)} \in SUBSET S
  BY <1>3
<1> QED BY <1>1, <1>3, <1>4, <1>5

\* There is such a function: if there is one for the subsets of at most n
\* elements, one more step makes it one for those of n + 1.
LEMMA AddsExists ==
    ASSUME NEW S, IsFiniteSet(S), NEW w
    PROVE  \E it : Adds(it, w, SUBSET S)
<1> DEFINE D(n) == {s \in SUBSET S : Cardinality(s) <= n}
           Bad == {n \in Nat : ~\E it : Adds(it, w, D(n))}
<1>1. ASSUME Bad # {} PROVE FALSE
  <2>1. PICK n \in Bad : \A m \in Bad : n <= m
    BY <1>1, LeastNumber
  <2>2. n # 0
    <3> DEFINE it == [s \in D(0) |-> 0]
    <3>1. \A s \in D(0) : s = {}
      BY FS_Subset, FS_EmptySet, FS_CardinalityType
    <3>2. Adds(it, w, D(0))
      BY <3>1 DEF Adds
    <3> QED BY <2>1, <3>2
  <2>3. n \in Nat /\ n - 1 \in Nat /\ n - 1 \notin Bad
    <3>1. n \in Nat
      BY <2>1
    <3> HIDE DEF Bad
    <3> QED BY <2>1, <2>2, <3>1
  <2>4. PICK g : Adds(g, w, D(n - 1))
    BY <2>3
  <2> DEFINE step(s) == IF s = {} THEN 0 ELSE w[Pick(s)] + g[s \ {Pick(s)}]
             it == [s \in D(n) |-> step(s)]
  <2>5. \A s \in D(n - 1) : g[s] = step(s) /\ s \in D(n)
    <3> SUFFICES ASSUME NEW s \in D(n - 1) PROVE g[s] = step(s) /\ s \in D(n)
      OBVIOUS
    <3>1. g[s] = step(s)
      BY <2>4 DEF Adds
    <3>2. s \in SUBSET S /\ Cardinality(s) <= n - 1 /\ Cardinality(s) \in Nat
      BY FS_Subset, FS_CardinalityType
    <3>3. Cardinality(s) <= n
      BY <2>3, <3>2
    <3> QED BY <3>1, <3>2, <3>3
  <2>6. \A s \in D(n) : s # {} => s \ {Pick(s)} \in D(n - 1)
    BY <2>3, PickFacts
  <2>7. \A s \in D(n) : s # {} => it[s \ {Pick(s)}] = g[s \ {Pick(s)}]
    BY <2>5, <2>6
  <2>8. Adds(it, w, D(n))
    BY <2>7 DEF Adds
  <2> QED BY <2>1, <2>8
<1>2. Cardinality(S) \in Nat /\ D(Cardinality(S)) = SUBSET S
  BY FS_Subset, FS_CardinalityType
<1> QED BY <1>1, <1>2

\* Hence a sum unfolds.
LEMMA TotalUnfolds ==
    ASSUME NEW S, IsFiniteSet(S), NEW w
    PROVE  \E it : Adds(it, w, SUBSET S) /\ Total(w, S) = it[S]
<1> DEFINE it == CHOOSE it : Adds(it, w, SUBSET S)
<1>1. Adds(it, w, SUBSET S)
  BY AddsExists
<1> QED BY <1>1 DEF Total

\* Two such functions agree where their weights do.
LEMMA AddsAgree ==
    ASSUME NEW T, NEW S \in SUBSET T, IsFiniteSet(S),
           NEW w, NEW v, \A x \in S : w[x] = v[x],
           NEW it, Adds(it, w, SUBSET S), NEW jt, Adds(jt, v, SUBSET T)
    PROVE  it[S] = jt[S]
<1> DEFINE Bad == {s \in SUBSET S : it[s] # jt[s]}
<1>1. ASSUME Bad # {} PROVE FALSE
  <2>1. PICK s \in Bad : \A t \in Bad : t \subseteq s => t = s
    <3>1. Bad \subseteq SUBSET S
      OBVIOUS
    <3> HIDE DEF Bad
    <3> QED BY <1>1, <3>1, SmallestSubset
  <2>2. s \in SUBSET S /\ s \in SUBSET T /\ it[s] # jt[s]
    BY <2>1
  <2>3. s # {}
    BY <2>2 DEF Adds
  <2> DEFINE x == Pick(s)
  <2>4. x \in s /\ s \ {x} \subseteq s /\ s \ {x} # s
    BY <2>3 DEF Pick
  <2>5. it[s \ {x}] = jt[s \ {x}]
    BY <2>1, <2>2, <2>4
  <2>6. it[s] = w[x] + it[s \ {x}] /\ jt[s] = v[x] + jt[s \ {x}]
    BY <2>2, <2>3 DEF Adds
  <2>7. w[x] = v[x]
    BY <2>2, <2>4
  <2> QED BY <2>2, <2>5, <2>6, <2>7
<1> QED BY <1>1

\* Sums of natural numbers are natural numbers.
LEMMA AddsNat ==
    ASSUME NEW S, IsFiniteSet(S), NEW w, NEW it, Adds(it, w, SUBSET S),
           \A x \in S : w[x] \in Nat
    PROVE  \A s \in SUBSET S : it[s] \in Nat
<1> DEFINE Bad == {s \in SUBSET S : it[s] \notin Nat}
<1>1. ASSUME Bad # {} PROVE FALSE
  <2>1. PICK s \in Bad : \A t \in Bad : t \subseteq s => t = s
    <3>1. Bad \subseteq SUBSET S
      OBVIOUS
    <3> HIDE DEF Bad
    <3> QED BY <1>1, <3>1, SmallestSubset
  <2>2. s \in SUBSET S /\ it[s] \notin Nat
    BY <2>1
  <2>3. s # {}
    BY <2>2 DEF Adds
  <2> DEFINE x == Pick(s)
  <2>4. x \in s /\ s \ {x} \subseteq s /\ s \ {x} # s
    BY <2>3 DEF Pick
  <2>5. it[s \ {x}] \in Nat
    BY <2>1, <2>2, <2>4
  <2>6. it[s] = w[x] + it[s \ {x}]
    BY <2>2, <2>3 DEF Adds
  <2>7. w[x] \in Nat
    BY <2>2, <2>4
  <2> QED BY <2>2, <2>5, <2>6, <2>7
<1> QED BY <1>1

\* Any element may be taken out first.
LEMMA AddsAnyOrder ==
    ASSUME NEW S, IsFiniteSet(S), NEW w, NEW it, Adds(it, w, SUBSET S),
           \A x \in S : w[x] \in Nat,
           NEW u \in SUBSET S, NEW z \in u
    PROVE  it[u] = w[z] + it[u \ {z}]
<1> DEFINE Bad == {s \in SUBSET S : \E x \in s : it[s] # w[x] + it[s \ {x}]}
<1>1. ASSUME Bad # {} PROVE FALSE
  <2>1. PICK s \in Bad : \A t \in Bad : t \subseteq s => t = s
    <3>1. Bad \subseteq SUBSET S
      OBVIOUS
    <3> HIDE DEF Bad
    <3> QED BY <1>1, <3>1, SmallestSubset
  <2>2. s \in SUBSET S
    BY <2>1
  <2>3. PICK x \in s : it[s] # w[x] + it[s \ {x}]
    BY <2>1
  <2> DEFINE y == Pick(s)
             rest == s \ {x, y}
  <2>4. y \in s /\ s # {}
    BY <2>3 DEF Pick
  <2>5. it[s] = w[y] + it[s \ {y}]
    BY <2>2, <2>4 DEF Adds
  <2>6. x # y
    BY <2>3, <2>5
  <2>7. /\ s \ {x} \in SUBSET S /\ s \ {x} \subseteq s /\ s \ {x} # s /\ y \in s \ {x}
        /\ s \ {y} \in SUBSET S /\ s \ {y} \subseteq s /\ s \ {y} # s /\ x \in s \ {y}
        /\ (s \ {x}) \ {y} = rest /\ (s \ {y}) \ {x} = rest
    BY <2>2, <2>3, <2>4, <2>6
  <2>8. s \ {x} \notin Bad /\ s \ {y} \notin Bad
    BY <2>1, <2>7
  <2>9. it[s \ {x}] = w[y] + it[rest] /\ it[s \ {y}] = w[x] + it[rest]
    BY <2>7, <2>8
  <2>10. w[x] \in Nat /\ w[y] \in Nat /\ rest \in SUBSET S
    BY <2>2, <2>3, <2>4
  <2>11. it[rest] \in Nat
    BY <2>10, AddsNat
  <2> QED BY <2>3, <2>5, <2>9, <2>10, <2>11
<1> QED BY <1>1

-----------------------------------------------------------------------------
(* Sums.                                                                   *)

\* The sum over the empty set.
LEMMA TotalEmpty == ASSUME NEW w PROVE Total(w, {}) = 0
<1>1. PICK it : Adds(it, w, SUBSET {}) /\ Total(w, {}) = it[{}]
  BY TotalUnfolds, FS_EmptySet
<1> QED BY <1>1 DEF Adds

\* The type of a sum.
LEMMA TotalNat ==
    ASSUME NEW S, IsFiniteSet(S), NEW w, \A x \in S : w[x] \in Nat
    PROVE  Total(w, S) \in Nat
<1>1. PICK it : Adds(it, w, SUBSET S) /\ Total(w, S) = it[S]
  BY TotalUnfolds
<1>2. \A s \in SUBSET S : it[s] \in Nat
  BY <1>1, AddsNat
<1> QED BY <1>1, <1>2

\* Only the weights of the elements count.
LEMMA TotalSame ==
    ASSUME NEW S, IsFiniteSet(S), NEW w, NEW v, \A x \in S : w[x] = v[x]
    PROVE  Total(w, S) = Total(v, S)
<1>1. PICK it : Adds(it, w, SUBSET S) /\ Total(w, S) = it[S]
  BY TotalUnfolds
<1>2. PICK jt : Adds(jt, v, SUBSET S) /\ Total(v, S) = jt[S]
  BY TotalUnfolds
<1>3. S \in SUBSET S
  OBVIOUS
<1>4. it[S] = jt[S]
  BY <1>1, <1>2, <1>3, AddsAgree
<1> QED BY <1>1, <1>2, <1>4

\* One element more.
LEMMA TotalAdd ==
    ASSUME NEW S, IsFiniteSet(S), NEW x, x \notin S, NEW w,
           \A y \in S \cup {x} : w[y] \in Nat
    PROVE  Total(w, S \cup {x}) = w[x] + Total(w, S)
<1> DEFINE T == S \cup {x}
<1>1. IsFiniteSet(T)
  BY FS_AddElement
<1>2. PICK it : Adds(it, w, SUBSET S) /\ Total(w, S) = it[S]
  BY TotalUnfolds
<1>3. PICK jt : Adds(jt, w, SUBSET T) /\ Total(w, T) = jt[T]
  BY <1>1, TotalUnfolds
<1>4. jt[T] = w[x] + jt[T \ {x}]
  <2>1. T \in SUBSET T /\ x \in T /\ \A y \in T : w[y] \in Nat
    OBVIOUS
  <2> HIDE DEF T
  <2> QED BY <1>1, <1>3, <2>1, AddsAnyOrder
<1>5. T \ {x} = S
  OBVIOUS
<1>6. it[S] = jt[S]
  <2>1. S \in SUBSET S /\ S \in SUBSET T
    OBVIOUS
  <2> HIDE DEF T
  <2> QED BY <1>2, <1>3, <2>1, AddsAgree
<1> QED BY <1>2, <1>3, <1>4, <1>5, <1>6

\* A sum over more elements is no smaller.
LEMMA TotalMonotone ==
    ASSUME NEW T, IsFiniteSet(T), NEW S \in SUBSET T, NEW w, \A x \in T : w[x] \in Nat
    PROVE  Total(w, S) <= Total(w, T)
<1> DEFINE Bad == {U \in SUBSET T : S \subseteq U /\ ~(Total(w, S) <= Total(w, U))}
<1>1. ASSUME Bad # {} PROVE FALSE
  <2>1. PICK U \in Bad : \A V \in Bad : V \subseteq U => V = U
    <3>1. Bad \subseteq SUBSET T
      OBVIOUS
    <3> HIDE DEF Bad
    <3> QED BY <1>1, <3>1, SmallestSubset
  <2>2. U \in SUBSET T /\ S \subseteq U /\ ~(Total(w, S) <= Total(w, U))
    BY <2>1
  <2>3. IsFiniteSet(S) /\ IsFiniteSet(U)
    BY <2>2, FS_Subset
  <2>4. Total(w, S) \in Nat
    BY <2>3, TotalNat
  <2>5. PICK x \in U : x \notin S
    BY <2>2, <2>4
  <2> DEFINE V == U \ {x}
  <2>6. V \in SUBSET T /\ S \subseteq V /\ V \subseteq U /\ V # U /\ V \cup {x} = U /\ x \notin V
    BY <2>2, <2>5
  <2>7. V \notin Bad
    BY <2>1, <2>6
  <2>8. IsFiniteSet(V)
    BY <2>6, FS_Subset
  <2>9. Total(w, U) = w[x] + Total(w, V)
    BY <2>2, <2>6, <2>8, TotalAdd
  <2>10. Total(w, V) \in Nat /\ w[x] \in Nat
    BY <2>2, <2>6, <2>8, TotalNat
  <2>11. Total(w, S) <= Total(w, V)
    BY <2>6, <2>7
  <2> QED BY <2>2, <2>4, <2>9, <2>10, <2>11
<1> QED BY <1>1

\* A sum over some elements is no larger than one over others that stand for
\* them one by one, with the same weights.
LEMMA TotalEmbeds ==
    ASSUME NEW S, IsFiniteSet(S), NEW T, IsFiniteSet(T), NEW w, NEW v, NEW h \in [S -> T],
           \A x, y \in S : h[x] = h[y] => x = y,
           \A x \in S : w[x] = v[h[x]],
           \A y \in T : v[y] \in Nat
    PROVE  Total(w, S) <= Total(v, T)
<1> DEFINE Im(U) == {h[x] : x \in U}
           Bad == {U \in SUBSET S : Total(w, U) # Total(v, Im(U))}
<1>1. ASSUME Bad # {} PROVE FALSE
  <2>1. PICK U \in Bad : \A V \in Bad : V \subseteq U => V = U
    <3>1. Bad \subseteq SUBSET S
      OBVIOUS
    <3> HIDE DEF Bad
    <3> QED BY <1>1, <3>1, SmallestSubset
  <2>2. U \in SUBSET S /\ Total(w, U) # Total(v, Im(U))
    BY <2>1
  <2>3. U # {}
    <3>1. Im({}) = {}
      OBVIOUS
    <3> QED BY <2>2, <3>1, TotalEmpty
  <2>4. PICK x \in U : TRUE
    BY <2>3
  <2> DEFINE V == U \ {x}
  <2>5. V \in SUBSET S /\ V \subseteq U /\ V # U /\ V \cup {x} = U /\ x \notin V
    BY <2>2, <2>4
  <2>6. Im(V) \in SUBSET T /\ h[x] \notin Im(V) /\ Im(U) = Im(V) \cup {h[x]} /\ h[x] \in T
    BY <2>2, <2>4
  <2>7. IsFiniteSet(V) /\ IsFiniteSet(Im(V))
    BY <2>5, <2>6, FS_Subset
  <2>8. V \notin Bad
    BY <2>1, <2>5
  <2>9. Total(w, V) = Total(v, Im(V))
    BY <2>5, <2>8
  <2>10. \A y \in U : w[y] \in Nat
    BY <2>2
  <2> HIDE DEF Im, Bad
  <2>11. Total(w, U) = w[x] + Total(w, V)
    BY <2>5, <2>7, <2>10, TotalAdd
  <2>12. Total(v, Im(U)) = v[h[x]] + Total(v, Im(V))
    BY <2>6, <2>7, TotalAdd
  <2>13. w[x] = v[h[x]]
    BY <2>2, <2>4
  <2> QED BY <2>2, <2>9, <2>11, <2>12, <2>13
<1>2. Total(w, S) = Total(v, Im(S))
  BY <1>1
<1>3. Im(S) \in SUBSET T
  OBVIOUS
<1> QED BY <1>2, <1>3, TotalMonotone

=============================================================================
