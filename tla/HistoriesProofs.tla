-------------------------- MODULE HistoriesProofs ---------------------------
(***************************************************************************)
(* Lemmas about the order of numbers that the proofs of several components *)
(* use: least and largest members, the newest of some runs, and what it    *)
(* means that a history has flipped.                                       *)
(***************************************************************************)
EXTENDS Histories, FiniteSetsExt, FiniteSetTheorems, WellFoundedInduction, TLAPS

(* The least and the largest of some numbers *)

LEMMA LeastOf ==
  ASSUME NEW S \in SUBSET Nat, S # {}
  PROVE  \E m \in S : \A k \in S : m <= k
<1>1. PICK m \in S : \A k \in S : ~ (<<k, m>> \in OpToRel(<, Nat))
  BY NatLessThanWellFounded, WFMin
<1>2. \A k \in S : ~ (k < m)
  BY <1>1 DEF OpToRel
<1> QED BY <1>2

LEMMA GreatestOf ==
  ASSUME NEW n \in Nat, NEW S \in SUBSET (1..n), S # {}
  PROVE  \E m \in S : \A k \in S : k <= m
<1> DEFINE U == {m \in Nat : \A k \in S : k <= m}
<1>1. U \in SUBSET Nat /\ n \in U
  OBVIOUS
<1>2. PICK m \in U : \A k \in U : m <= k
  BY <1>1, LeastOf
<1>3. m \in S
  <2> SUFFICES ASSUME m \notin S PROVE FALSE
    OBVIOUS
  <2>1. \A k \in S : k <= m - 1
    BY <1>2
  <2>2. m - 1 \in Nat
    <3>1. PICK k \in S : k <= m - 1
      BY <2>1
    <3> QED BY <1>2, <3>1
  <2>3. m - 1 \in U
    BY <2>1, <2>2
  <2> QED BY <1>2, <2>2, <2>3
<1> QED BY <1>2, <1>3

LEMMA MinIsLeast ==
  ASSUME NEW S \in SUBSET Nat, S # {}
  PROVE  Min(S) \in S /\ \A k \in S : Min(S) <= k
<1>1. \E m \in S : \A k \in S : m <= k
  BY LeastOf
<1> QED BY <1>1 DEF Min

LEMMA MaxIsLargest ==
  ASSUME NEW n \in Nat, NEW S \in SUBSET (1..n), S # {}
  PROVE  Max(S) \in S /\ \A k \in S : k <= Max(S)
<1>1. \E x \in S : \A y \in S : x >= y
  BY GreatestOf
<1> QED BY <1>1 DEF Max

----------------------------------------------------------------------------
(* The newest of some runs *)

\* Whatever is left out is older than all that is kept, and is left out because
\* as many are kept as may be.
LEMMA LastAreNewest ==
  ASSUME NEW m \in Nat, NEW S \in SUBSET (1..m), NEW n \in Nat \ {0}
  PROVE  /\ LastOf(S, n) \subseteq S
         /\ LastOf(S, n) = {} => S = {}
         /\ \A r \in S \ LastOf(S, n) : /\ \A q \in LastOf(S, n) : q > r
                                        /\ Cardinality(LastOf(S, n)) = n
<1> DEFINE Above(r) == {q \in S : q > r}
           T == LastOf(S, n)
<1>0. \A x \in S : x \in Nat
  OBVIOUS
<1>1. IsFiniteSet(S)
  <2>1. IsFiniteSet(1..m)
    BY FS_Interval
  <2> QED BY <2>1, FS_Subset
<1>2. \A r \in S : IsFiniteSet(Above(r)) /\ Cardinality(Above(r)) \in Nat
  <2> TAKE r \in S
  <2>1. Above(r) \subseteq S
    OBVIOUS
  <2>2. IsFiniteSet(Above(r))
    BY <1>1, <2>1, FS_Subset
  <2> QED BY <2>2, FS_CardinalityType
<1>3. T \subseteq S /\ \A r \in S : r \in T <=> Cardinality(Above(r)) < n
  BY DEF LastOf
<1>4. \A r, x \in S : x \in Above(r) <=> r < x
  BY <1>0
<1>5. \A r \in S : Above(r) \subseteq S
  OBVIOUS
<1> SUFFICES /\ T = {} => S = {}
             /\ \A r \in S \ T : /\ \A q \in T : r < q
                                 /\ Cardinality(T) = n
  <2>1. \A r \in S, q \in T : r < q => q > r
    BY <1>0, <1>3
  <2> QED BY <1>3, <2>1
<1> HIDE DEF Above, T
<1>6. ASSUME NEW r \in S \ T, NEW q \in T
      PROVE  r < q
  <2> SUFFICES ASSUME ~ (r < q) PROVE FALSE
    OBVIOUS
  <2>1. r \in Nat /\ q \in Nat /\ q \in S
    BY <1>0, <1>3
  <2>2. Above(r) \subseteq Above(q)
    <3>1. \A x \in S : r < x => q < x
      BY <1>0, <2>1
    <3> QED BY <1>4, <1>5, <2>1, <3>1
  <2>3. Cardinality(Above(r)) <= Cardinality(Above(q))
    BY <1>2, <2>1, <2>2, FS_Subset
  <2>4. Cardinality(Above(q)) < n /\ ~ (Cardinality(Above(r)) < n)
    BY <1>3
  <2>5. Cardinality(Above(q)) \in Nat /\ Cardinality(Above(r)) \in Nat
    BY <1>2, <2>1
  <2> QED BY <2>3, <2>4, <2>5
<1>7. ASSUME NEW r \in S \ T
      PROVE  T # {} /\ Cardinality(T) = n
  <2>1. S \ T \in SUBSET (1..m) /\ S \ T # {}
    OBVIOUS
  <2>2. PICK x \in S \ T : \A k \in S \ T : k <= x
    BY <2>1, GreatestOf
  <2>3. Above(x) = T
    <3>1. \A k \in T : k \in Above(x)
      BY <1>3, <1>4, <1>6
    <3>2. \A k \in S : x < k => k \in T
      BY <1>0, <2>2
    <3> QED BY <1>4, <1>5, <3>1, <3>2
  <2>4. ~ (Cardinality(T) < n) /\ Cardinality(T) \in Nat /\ IsFiniteSet(T)
    BY <1>2, <1>3, <2>3
  <2>5. T # {}
    BY <2>4, FS_EmptySet
  <2>6. T \in SUBSET Nat
    BY <1>0, <1>3
  <2>7. PICK t \in T : \A k \in T : t <= k
    BY <2>5, <2>6, LeastOf
  <2>8. Above(t) = T \ {t}
    <3>1. \A k \in S \ T : k \notin Above(t)
      <4> TAKE k \in S \ T
      <4>1. k < t /\ k \in Nat /\ t \in Nat
        BY <1>0, <1>3, <1>6
      <4>2. ~ (t < k)
        BY <4>1
      <4> QED BY <1>3, <1>4, <4>2
    <3>2. \A k \in T : k \in Above(t) <=> k # t
      <4> TAKE k \in T
      <4>1. t <= k /\ k \in Nat /\ t \in Nat
        BY <2>6, <2>7
      <4>2. t < k <=> k # t
        BY <4>1
      <4> QED BY <1>3, <1>4, <4>2
    <3> QED BY <1>3, <1>5, <3>1, <3>2
  <2>9. Cardinality(T \ {t}) = Cardinality(T) - 1
    BY <2>4, <2>7, FS_RemoveElement
  <2>10. Cardinality(T \ {t}) < n
    BY <1>3, <2>7, <2>8
  <2> QED BY <2>4, <2>5, <2>9, <2>10
<1> QED BY <1>6, <1>7

----------------------------------------------------------------------------
(* Histories *)

FlipsAt(h) == {r \in DOMAIN h : \E q \in DOMAIN h : Adjacent(h, q, r) /\ h[q] # h[r]}

\* Between two results that differ one differs from the one before it.
LEMMA TurnBetween ==
  ASSUME NEW n \in Nat, NEW D \in SUBSET (1..n), NEW h \in [D -> {"pass", "fail"}],
         NEW p \in D, NEW q \in D, p < q, h[p] # h[q]
  PROVE  \E x \in FlipsAt(h) : p < x /\ x <= q
<1> DEFINE Other == {d \in D : p < d /\ h[d] # h[p]}
<1>1. Other \in SUBSET Nat /\ q \in Other
  <2>1. D \subseteq Nat
    OBVIOUS
  <2> QED BY <2>1
<1>2. PICK x \in Other : \A d \in Other : x <= d
  BY <1>1, LeastOf
<1> DEFINE Before == {d \in D : d < x}
<1>3. Before \in SUBSET (1..n) /\ p \in Before
  BY <1>2
<1>4. PICK y \in Before : \A d \in Before : d <= y
  BY <1>3, GreatestOf
<1>5. h[y] = h[p]
  BY <1>2, <1>3, <1>4
<1>6. Adjacent(h, y, x)
  BY <1>4, <1>2 DEF Adjacent
<1>7. x \in FlipsAt(h)
  BY <1>2, <1>5, <1>6 DEF FlipsAt
<1> QED BY <1>1, <1>2, <1>7

\* A history has flipped twice when a result came back that had been there before
\* another: it swung back and forth (flip_count, flaky_tests).
LEMMA FlipsMeanSwings ==
  ASSUME NEW n \in Nat, NEW D \in SUBSET (1..n), NEW h \in [D -> {"pass", "fail"}]
  PROVE  /\ Flips(h) \in Nat
         /\ Flips(h) >= 2 <=> \E p, q, r \in D : /\ p < q /\ q < r
                                                 /\ h[p] # h[q] /\ h[r] = h[p]
<1>1. IsFiniteSet(FlipsAt(h)) /\ Flips(h) = Cardinality(FlipsAt(h))
  <2>1. IsFiniteSet(1..n)
    BY FS_Interval
  <2>2. FlipsAt(h) \subseteq 1..n
    BY DEF FlipsAt
  <2> QED BY <2>1, <2>2, FS_Subset DEF FlipsAt, Flips
<1>2. Flips(h) \in Nat
  BY <1>1, FS_CardinalityType
<1>3. ASSUME Flips(h) >= 2
      PROVE  \E p, q, r \in D : p < q /\ q < r /\ h[p] # h[q] /\ h[r] = h[p]
  <2>1. \E i, j \in FlipsAt(h) : i < j
    <3> SUFFICES ASSUME \A i, j \in FlipsAt(h) : ~ (i < j) PROVE FALSE
      OBVIOUS
    <3>1. PICK i \in FlipsAt(h) : TRUE
      BY <1>1, <1>3, FS_EmptySet
    <3>2. \A x \in FlipsAt(h) : x \in Nat
      BY DEF FlipsAt
    <3>3. \A x \in FlipsAt(h) : x = i
      BY <3>1, <3>2
    <3>4. FlipsAt(h) = {i}
      BY <3>1, <3>3
    <3> QED BY <1>1, <1>3, <3>4, FS_Singleton
  <2>2. PICK i, j \in FlipsAt(h) : i < j
    BY <2>1
  <2>3. PICK p \in D : Adjacent(h, p, i) /\ h[p] # h[i]
    BY <2>2 DEF FlipsAt
  <2>4. PICK k \in D : Adjacent(h, k, j) /\ h[k] # h[j]
    BY <2>2 DEF FlipsAt
  <2>5. i \in D /\ j \in D /\ p < i /\ i <= k
    BY <2>2, <2>3, <2>4 DEF FlipsAt, Adjacent
  <2>6. CASE h[j] = h[p]
    BY <2>2, <2>3, <2>5, <2>6
  <2>7. CASE h[j] # h[p]
    <3>1. h[k] = h[p] /\ k # i
      BY <2>3, <2>4, <2>5, <2>7
    <3> QED BY <2>3, <2>5, <3>1
  <2> QED BY <2>6, <2>7
<1>4. ASSUME NEW p \in D, NEW q \in D, NEW r \in D, p < q, q < r, h[p] # h[q], h[r] = h[p]
      PROVE  Flips(h) >= 2
  <2>1. PICK x \in FlipsAt(h) : p < x /\ x <= q
    BY <1>4, TurnBetween
  <2>2. PICK y \in FlipsAt(h) : q < y /\ y <= r
    BY <1>4, TurnBetween
  <2>3. x # y
    BY <2>1, <2>2 DEF FlipsAt
  <2>4. {x, y} \subseteq FlipsAt(h) /\ Cardinality({x, y}) = 2 /\ IsFiniteSet({x, y})
    <3>1. IsFiniteSet({x}) /\ Cardinality({x}) = 1
      BY FS_Singleton
    <3>2. {x} \cup {y} = {x, y}
      OBVIOUS
    <3> QED BY <2>3, <3>1, <3>2, FS_AddElement
  <2> QED BY <1>1, <1>2, <2>4, FS_Subset
<1> QED BY <1>2, <1>3, <1>4

=============================================================================
