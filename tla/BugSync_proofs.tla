----------------------------- MODULE BugSync_proofs -----------------------------
(***************************************************************************)
(* Proofs about BugSync and the operators of Bug it is built from, for any *)
(* clones, labels, editors and bounds: what an instance has in memory is   *)
(* what a fresh read would compile, no edit comes before what it edits,    *)
(* and the labels and comments of a snapshot are what its operations say.  *)
(*                                                                         *)
(* Compile, Order and the folds are recursive functions. A fact about all  *)
(* their values is shown by steps from one length to the next (Reached).   *)
(* First come orders and folds, then the snapshot, then the order of a     *)
(* history, and at last the invariant Inv and the steps that keep it.      *)
(***************************************************************************)
EXTENDS BugSync, Numbers_proofs, FunctionTheorems, SequenceTheorems

------------------------------------------------------------------------------
(* The members of a set in an order.                                       *)

StrictOrder(S, R) ==
  /\ \A x \in S : <<x, x>> \notin R
  /\ \A x, y \in S : x # y => <<x, y>> \in R \/ <<y, x>> \in R
  /\ \A x, y, z \in S : <<x, y>> \in R /\ <<y, z>> \in R => <<x, z>> \in R

Rank(S, R, x) == Cardinality({y \in S : <<y, x>> \in R})

(* How many come before a member tells it from the others.                 *)
LEMMA RankFacts ==
  ASSUME NEW S, NEW R, IsFiniteSet(S), StrictOrder(S, R)
  PROVE  /\ \A x \in S : Rank(S, R, x) \in 0 .. Cardinality(S) - 1
         /\ \A x, y \in S : <<x, y>> \in R => Rank(S, R, x) < Rank(S, R, y)
         /\ \A x, y \in S : Rank(S, R, x) = Rank(S, R, y) => x = y
<1> DEFINE Below(x) == {y \in S : <<y, x>> \in R}
<1>1. ASSUME NEW x \in S
      PROVE  Rank(S, R, x) \in 0 .. Cardinality(S) - 1
  <2>1. Below(x) \in SUBSET S /\ Below(x) # S
    BY DEF StrictOrder
  <2>2. /\ Cardinality(Below(x)) <= Cardinality(S) /\ Cardinality(Below(x)) # Cardinality(S)
        /\ IsFiniteSet(Below(x))
    BY <2>1, FS_Subset
  <2>3. Cardinality(Below(x)) \in Nat /\ Cardinality(S) \in Nat
    BY <2>2, FS_CardinalityType
  <2>4. QED
    BY <2>2, <2>3 DEF Rank
<1>2. ASSUME NEW x \in S, NEW y \in S, <<x, y>> \in R
      PROVE  Rank(S, R, x) < Rank(S, R, y)
  <2>1. Below(x) \in SUBSET Below(y) /\ Below(x) # Below(y)
    BY <1>2 DEF StrictOrder
  <2>2. IsFiniteSet(Below(y))
    <3>1. Below(y) \in SUBSET S
      OBVIOUS
    <3>2. QED
      BY <3>1, FS_Subset
  <2>3. Cardinality(Below(x)) <= Cardinality(Below(y)) /\ Cardinality(Below(x)) # Cardinality(Below(y))
    BY <2>1, <2>2, FS_Subset
  <2>4. QED
    BY <2>3, <1>1 DEF Rank
<1>3. ASSUME NEW x \in S, NEW y \in S, Rank(S, R, x) = Rank(S, R, y)
      PROVE  x = y
  <2>1. Rank(S, R, x) \in Int /\ Rank(S, R, y) \in Int
    BY <1>1
  <2>2. ~ <<x, y>> \in R /\ ~ <<y, x>> \in R
    BY <2>1, <1>2, <1>3
  <2>3. QED
    BY <2>2 DEF StrictOrder
<1>4. QED
  BY <1>1, <1>2, <1>3

(* InOrder lists every member once, each after those before it.            *)
LEMMA InOrderFacts ==
  ASSUME NEW S, NEW R, IsFiniteSet(S), StrictOrder(S, R)
  PROVE  /\ Cardinality(S) \in Nat
         /\ InOrder(S, R) \in [1 .. Cardinality(S) -> S]
         /\ InOrder(S, R) \in Seq(S) /\ Len(InOrder(S, R)) = Cardinality(S)
         /\ \A x \in S : \E n \in 1 .. Cardinality(S) : InOrder(S, R)[n] = x
         /\ \A m, n \in 1 .. Cardinality(S) :
              m < n => <<InOrder(S, R)[m], InOrder(S, R)[n]>> \in R
<1> DEFINE N == Cardinality(S)
           rank == [x \in S |-> Rank(S, R, x) + 1]
           s == InOrder(S, R)
<1>1. N \in Nat
  BY FS_CardinalityType
<1>2. rank \in Injection(S, 1 .. N)
  BY <1>1, RankFacts, Fun_IsInj
<1>3. rank \in Surjection(S, 1 .. N)
  <2>1. IsFiniteSet(1 .. N) /\ Cardinality(1 .. N) = N
    BY <1>1, FS_Interval
  <2>2. QED
    BY <1>2, <2>1, FS_Injection
<1>4. \A n \in 1 .. N : s[n] \in S /\ Rank(S, R, s[n]) = n - 1
  <2> SUFFICES ASSUME NEW n \in 1 .. N
               PROVE  s[n] \in S /\ Rank(S, R, s[n]) = n - 1
    OBVIOUS
  <2>1. s[n] = CHOOSE x \in S : Rank(S, R, x) = n - 1
    BY DEF InOrder, Rank
  <2>2. \E x \in S : rank[x] = n
    <3> HIDE DEF rank
    <3>1. QED
      BY <1>3, SMT DEF Surjection
  <2>3. \E x \in S : Rank(S, R, x) = n - 1
    BY <2>2, RankFacts
  <2>4. QED
    BY <2>1, <2>3
<1>5. s \in [1 .. N -> S]
  BY <1>4, <1>1 DEF InOrder
<1>6. \A x \in S : \E n \in 1 .. N : s[n] = x
  <2> SUFFICES ASSUME NEW x \in S
               PROVE  \E n \in 1 .. N : s[n] = x
    OBVIOUS
  <2>1. rank[x] \in 1 .. N /\ Rank(S, R, x) = rank[x] - 1
    BY RankFacts, <1>1
  <2>2. s[rank[x]] \in S /\ Rank(S, R, s[rank[x]]) = Rank(S, R, x)
    BY <2>1, <1>4
  <2>3. s[rank[x]] = x
    BY <2>2, RankFacts
  <2>4. QED
    BY <2>1, <2>3
<1>7. \A m, n \in 1 .. N : m < n => <<s[m], s[n]>> \in R
  <2> SUFFICES ASSUME NEW m \in 1 .. N, NEW n \in 1 .. N, m < n
               PROVE  <<s[m], s[n]>> \in R
    OBVIOUS
  <2>1. s[m] \in S /\ s[n] \in S /\ Rank(S, R, s[m]) = m - 1 /\ Rank(S, R, s[n]) = n - 1
    BY <1>4
  <2>2. s[m] # s[n]
    BY <2>1
  <2>3. CASE <<s[n], s[m]>> \in R
    <3>1. n - 1 < m - 1
      BY <2>1, <2>3, RankFacts
    <3>2. QED
      BY <3>1
  <2>4. QED
    BY <2>1, <2>2, <2>3 DEF StrictOrder
<1>8. s \in Seq(S) /\ Len(s) = N
  BY <1>5, <1>1
<1>9. QED
  BY <1>1, <1>5, <1>6, <1>7, <1>8

(* It is the only such list.                                               *)
LEMMA InOrderUnique ==
  ASSUME NEW S, NEW R, StrictOrder(S, R), NEW N \in Nat, NEW s \in [1 .. N -> S],
         \A x \in S : \E n \in 1 .. N : s[n] = x,
         \A m, n \in 1 .. N : m < n => <<s[m], s[n]>> \in R
  PROVE  IsFiniteSet(S) /\ Cardinality(S) = N /\ s = InOrder(S, R)
<1>1. \A m, n \in 1 .. N : s[m] = s[n] => m = n
  <2> SUFFICES ASSUME NEW m \in 1 .. N, NEW n \in 1 .. N, s[m] = s[n], m # n
               PROVE  FALSE
    OBVIOUS
  <2>1. <<s[m], s[n]>> \in R \/ <<s[n], s[m]>> \in R
    <3>1. m < n \/ n < m
      OBVIOUS
    <3>2. QED
      BY <3>1
  <2>2. <<s[m], s[m]>> \in R /\ s[m] \in S
    BY <2>1
  <2>3. QED
    BY <2>2 DEF StrictOrder
<1>2. s \in Injection(1 .. N, S) /\ s \in Surjection(1 .. N, S)
  BY <1>1, Fun_IsInj, Fun_IsSurj
<1>3. IsFiniteSet(1 .. N) /\ Cardinality(1 .. N) = N
  BY FS_Interval
<1>4. IsFiniteSet(S) /\ Cardinality(S) = N
  BY <1>2, <1>3, FS_Surjection
<1>5. ASSUME NEW n \in 1 .. N
      PROVE  Rank(S, R, s[n]) = n - 1
  <2> DEFINE t == [m \in 1 .. n - 1 |-> s[m]]
             B == {y \in S : <<y, s[n]>> \in R}
  <2>1. t \in [1 .. n - 1 -> B]
    OBVIOUS
  <2>2. \A y \in B : \E m \in 1 .. n - 1 : t[m] = y
    <3> SUFFICES ASSUME NEW y \in B
                 PROVE  \E m \in 1 .. n - 1 : t[m] = y
      OBVIOUS
    <3>1. PICK m \in 1 .. N : s[m] = y
      OBVIOUS
    <3>2. ~ n < m
      BY <3>1 DEF StrictOrder
    <3>3. m # n
      BY <3>1 DEF StrictOrder
    <3>4. QED
      BY <3>1, <3>2, <3>3
  <2>3. t \in Injection(1 .. n - 1, B) /\ t \in Surjection(1 .. n - 1, B)
    <3> HIDE DEF B
    <3>1. \A i, j \in 1 .. n - 1 : t[i] = t[j] => i = j
      BY <1>1
    <3>2. QED
      BY <2>1, <2>2, <3>1, Fun_IsInj, Fun_IsSurj
  <2>4. IsFiniteSet(1 .. n - 1) /\ Cardinality(1 .. n - 1) = n - 1
    BY FS_Interval
  <2>5. Cardinality(B) = n - 1
    BY <2>3, <2>4, FS_Surjection
  <2>6. QED
    BY <2>5 DEF Rank
<1>6. ASSUME NEW n \in 1 .. N
      PROVE  InOrder(S, R)[n] = s[n]
  <2>1. InOrder(S, R)[n] = CHOOSE x \in S : Rank(S, R, x) = n - 1
    BY <1>4 DEF InOrder, Rank
  <2>2. \A x \in S : Rank(S, R, x) = n - 1 => x = s[n]
    BY <1>5, <1>4, RankFacts
  <2>3. QED
    BY <2>1, <2>2, <1>5
<1>7. InOrder(S, R) \in [1 .. N -> S]
  BY <1>4, InOrderFacts
<1>8. QED
  BY <1>4, <1>6, <1>7

(* Numbers in increasing order.                                            *)
LEMMA IncreasingFacts ==
  ASSUME NEW S \in SUBSET Int, IsFiniteSet(S)
  PROVE  /\ Increasing(S) \in Seq(S) /\ Len(Increasing(S)) = Cardinality(S)
         /\ \A x \in S : \E n \in 1 .. Len(Increasing(S)) : Increasing(S)[n] = x
         /\ \A m, n \in 1 .. Len(Increasing(S)) :
              m < n => Increasing(S)[m] < Increasing(S)[n]
<1> DEFINE R == {r \in S \X S : r[1] < r[2]}
<1>1. StrictOrder(S, R)
  BY DEF StrictOrder
<1>2. \A x, y : <<x, y>> \in R => x < y
  OBVIOUS
<1> HIDE DEF R
<1>3. Increasing(S) = InOrder(S, R)
  BY DEF Increasing, R
<1>4. /\ InOrder(S, R) \in Seq(S) /\ Len(InOrder(S, R)) = Cardinality(S)
      /\ \A x \in S : \E n \in 1 .. Cardinality(S) : InOrder(S, R)[n] = x
      /\ \A m, n \in 1 .. Cardinality(S) :
           m < n => <<InOrder(S, R)[m], InOrder(S, R)[n]>> \in R
  BY <1>1, InOrderFacts
<1>5. QED
  BY <1>2, <1>3, <1>4

LEMMA AmongFacts ==
  ASSUME NEW T, NEW s \in Seq(T), NEW S
  PROVE  Among(s, S) \in Seq(T \cap S)
<1> DEFINE K == {k \in DOMAIN s : s[k] \in S}
           places == Increasing(K)
<1>1. K \in SUBSET Int /\ IsFiniteSet(K)
  <2>1. DOMAIN s = 1 .. Len(s) /\ IsFiniteSet(1 .. Len(s))
    BY FS_Interval
  <2>2. K \in SUBSET (1 .. Len(s))
    BY <2>1
  <2>3. QED
    BY <2>1, <2>2, FS_Subset
<1>2. places \in Seq(K)
  BY <1>1, IncreasingFacts
<1>3. DOMAIN places = 1 .. Len(places) /\ Len(places) \in Nat
  BY <1>2
<1>4. \A n \in 1 .. Len(places) : places[n] \in K
  BY <1>2
<1>5. \A n \in 1 .. Len(places) : s[places[n]] \in T \cap S
  BY <1>4
<1>6. Among(s, S) = [n \in 1 .. Len(places) |-> s[places[n]]]
  BY <1>3 DEF Among
<1> HIDE DEF places
<1>7. QED
  BY <1>3, <1>5, <1>6

(* Sorted keeps the elements.                                              *)
LEMMA SortedFacts ==
  ASSUME NEW s \in Seq(Nat), \A m, n \in 1 .. Len(s) : s[m] = s[n] => m = n
  PROVE  /\ Sorted(s) \in Seq(Nat) /\ Len(Sorted(s)) = Len(s)
         /\ \A n \in 1 .. Len(s) : \E m \in 1 .. Len(s) : Sorted(s)[n] = s[m]
         /\ \A m \in 1 .. Len(s) : \E n \in 1 .. Len(s) : Sorted(s)[n] = s[m]
         /\ \A m, n \in 1 .. Len(s) : m < n => Sorted(s)[m] < Sorted(s)[n]
<1> DEFINE D == DOMAIN s
           R == {r \in D \X D : s[r[1]] < s[r[2]] \/ (s[r[1]] = s[r[2]] /\ r[1] < r[2])}
           places == InOrder(D, R)
<1>1. D = 1 .. Len(s) /\ IsFiniteSet(D) /\ Cardinality(D) = Len(s)
  <2>1. D = 1 .. Len(s) /\ Len(s) \in Nat
    OBVIOUS
  <2>2. IsFiniteSet(1 .. Len(s)) /\ Cardinality(1 .. Len(s)) = Len(s)
    BY <2>1, FS_Interval
  <2>3. QED
    BY <2>1, <2>2
<1>2. \A x, y : <<x, y>> \in R <=> x \in D /\ y \in D /\ (s[x] < s[y] \/ (s[x] = s[y] /\ x < y))
  OBVIOUS
<1> HIDE DEF R
<1>3. StrictOrder(D, R)
  <2>1. \A x \in D : s[x] \in Nat /\ x \in Nat
    BY <1>1
  <2> HIDE DEF D
  <2>2. \A x \in D : <<x, x>> \notin R
    BY <1>2, <2>1
  <2>3. ASSUME NEW x \in D, NEW y \in D, x # y
        PROVE  <<x, y>> \in R \/ <<y, x>> \in R
    <3>1. s[x] < s[y] \/ s[y] < s[x] \/ (s[x] = s[y] /\ (x < y \/ y < x))
      BY <2>1, <2>3
    <3>2. QED
      BY <3>1, <1>2
  <2>4. \A x, y, z \in D : <<x, y>> \in R /\ <<y, z>> \in R => <<x, z>> \in R
    BY <1>2, <2>1
  <2>5. QED
    BY <2>2, <2>3, <2>4 DEF StrictOrder
<1>4. /\ places \in [1 .. Len(s) -> D]
      /\ \A x \in D : \E n \in 1 .. Len(s) : places[n] = x
      /\ \A m, n \in 1 .. Len(s) : m < n => <<places[m], places[n]>> \in R
  <2> HIDE DEF D, places
  <2>1. /\ InOrder(D, R) \in [1 .. Cardinality(D) -> D]
        /\ \A x \in D : \E n \in 1 .. Cardinality(D) : InOrder(D, R)[n] = x
        /\ \A m, n \in 1 .. Cardinality(D) :
             m < n => <<InOrder(D, R)[m], InOrder(D, R)[n]>> \in R
    <3>1. IsFiniteSet(D)
      BY <1>1
    <3>2. QED
      BY <3>1, <1>3, InOrderFacts
  <2>2. QED
    BY <1>1, <2>1 DEF places
<1>5. Sorted(s) = [n \in D |-> s[places[n]]]
  BY DEF Sorted, R
<1> HIDE DEF places
<1>6. \A n \in 1 .. Len(s) : places[n] \in 1 .. Len(s) /\ Sorted(s)[n] = s[places[n]]
  BY <1>1, <1>4, <1>5
<1>7. Sorted(s) \in Seq(Nat) /\ Len(Sorted(s)) = Len(s)
  BY <1>1, <1>4, <1>5
<1>8. \A n \in 1 .. Len(s) : \E m \in 1 .. Len(s) : Sorted(s)[n] = s[m]
  BY <1>6
<1>9. ASSUME NEW m \in 1 .. Len(s)
      PROVE  \E n \in 1 .. Len(s) : Sorted(s)[n] = s[m]
  <2>1. PICK n \in 1 .. Len(s) : places[n] = m
    BY <1>1, <1>4
  <2>2. QED
    BY <2>1, <1>6
<1>10. ASSUME NEW m \in 1 .. Len(s), NEW n \in 1 .. Len(s), m < n
       PROVE  Sorted(s)[m] < Sorted(s)[n]
  <2>1. s[places[m]] < s[places[n]] \/ (s[places[m]] = s[places[n]] /\ places[m] < places[n])
    BY <1>10, <1>4, <1>2
  <2>2. s[places[m]] # s[places[n]] \/ places[m] = places[n]
    BY <1>6
  <2>3. QED
    BY <2>1, <2>2, <1>6
<1>11. QED
  BY <1>7, <1>8, <1>9, <1>10
------------------------------------------------------------------------------
(* Folds.                                                                  *)

LEMMA MaxOf ==
  ASSUME NEW n \in Nat, NEW t \in SUBSET (1 .. n), t # {}
  PROVE  Max(t) \in t /\ \A x \in t : x <= Max(t)
<1>1. t \in SUBSET Nat /\ \A x \in t : x <= n
  OBVIOUS
<1>2. Max(t) \in t
  BY <1>1, MaxMember
<1>3. \E x \in t : \A y \in t : x >= y
  <2> DEFINE U == {u \in Nat : \A x \in t : x <= u}
  <2>1. U \in SUBSET Nat /\ U # {}
    BY <1>1
  <2>2. PICK u \in U : \A y \in U : u <= y
    BY <2>1, LeastMember
  <2>3. ASSUME u \notin t
        PROVE  FALSE
    <3>1. \A x \in t : x <= u - 1
      BY <2>3, <1>1
    <3>2. u - 1 \in Nat
      <4>1. PICK x \in t : TRUE
        OBVIOUS
      <4>2. x <= u - 1 /\ x \in Nat /\ u \in Nat
        BY <3>1, <1>1
      <4>3. QED
        BY <4>2
    <3>3. QED
      BY <3>1, <3>2, <2>2
  <2>4. QED
    BY <2>3
<1>4. QED
  BY <1>2, <1>3 DEF Max

(* What FoldLeft goes by, the results for all sets of places, exists.      *)
Folds(g, A, F, b, s) ==
  /\ g \in [SUBSET DOMAIN s -> A]
  /\ \A t \in SUBSET DOMAIN s : g[t] = IF t = {} THEN b ELSE F[<<g[t \ {Max(t)}], s[Max(t)]>>]

LEMMA FoldExists ==
  ASSUME NEW A, NEW T, NEW F \in [A \X T -> A], NEW b \in A,
         NEW s \in Seq(T)
  PROVE  \E g : Folds(g, A, F, b, s)
<1> DEFINE Good(k, g) ==
             /\ g \in [SUBSET (1 .. k) -> A]
             /\ \A t \in SUBSET (1 .. k) :
                  g[t] = IF t = {} THEN b ELSE F[<<g[t \ {Max(t)}], s[Max(t)]>>]
           n == Len(s)
           Bad == {k \in Nat : k <= n /\ \A g : ~ Good(k, g)}
<1>n. n \in Nat /\ DOMAIN s = 1 .. n /\ \A k \in 1 .. n : s[k] \in T
  OBVIOUS
<1> HIDE DEF n
<1>0. \A j \in Nat : j <= n /\ j \notin Bad => \E g : Good(j, g)
  <2> HIDE DEF Good
  <2>1. QED
    OBVIOUS
<1>1. SUFFICES ASSUME Bad # {} PROVE FALSE
  <2>1. \E g : Good(n, g)
    <3>1. n \notin Bad
      BY <1>1
    <3>2. n \in Nat /\ n <= n
      BY <1>n
    <3> HIDE DEF Good, Bad
    <3>3. QED
      BY <3>1, <3>2, <1>0
  <2>2. QED
    BY <2>1, <1>n DEF Folds
<1>2. PICK k \in Bad : \A j \in Bad : k <= j
  BY <1>1, LeastMember
<1>3. k # 0
  <2> SUFFICES ASSUME k = 0 PROVE FALSE
    OBVIOUS
  <2> DEFINE h == [t \in SUBSET (1 .. 0) |-> b]
  <2>1. \A t \in SUBSET (1 .. 0) : t = {}
    OBVIOUS
  <2>2. Good(0, h)
    BY <2>1
  <2>3. QED
    BY <2>2
<1>4. k \in Nat /\ k - 1 \in Nat /\ k <= n /\ k - 1 \notin Bad
  <2>1. k \in Nat /\ k <= n
    BY <1>2
  <2>2. k - 1 \in Nat
    BY <2>1, <1>3
  <2>3. ~ k <= k - 1
    BY <2>1
  <2>4. QED
    BY <2>1, <2>2, <2>3, <1>2
<1>5. PICK g : Good(k - 1, g)
  <2> HIDE DEF Good, Bad
  <2>1. k - 1 \in Nat /\ k - 1 <= n /\ k - 1 \notin Bad
    BY <1>4, <1>n
  <2>2. QED
    BY <2>1, <1>0
<1> DEFINE h == [t \in SUBSET (1 .. k) |-> IF k \in t THEN F[<<g[t \ {k}], s[k]>>] ELSE g[t]]
<1>6. \A t \in SUBSET (1 .. k) :
        t \ {k} \in SUBSET (1 .. k - 1) /\ (k \notin t => t \in SUBSET (1 .. k - 1))
  BY <1>4
<1>7. s[k] \in T /\ k \in 1 .. n
  BY <1>4, <1>3, <1>n
<1>8. \A t \in SUBSET (1 .. k - 1) : g[t] \in A
  BY <1>5
<1>9. h \in [SUBSET (1 .. k) -> A]
  <2> SUFFICES ASSUME NEW t \in SUBSET (1 .. k)
               PROVE  (IF k \in t THEN F[<<g[t \ {k}], s[k]>>] ELSE g[t]) \in A
    OBVIOUS
  <2>1. CASE k \in t
    <3>1. g[t \ {k}] \in A
      BY <1>6, <1>8
    <3>2. <<g[t \ {k}], s[k]>> \in A \X T
      BY <3>1, <1>7
    <3>3. QED
      BY <2>1, <3>2
  <2>2. CASE k \notin t
    BY <2>2, <1>6, <1>8
  <2>3. QED
    BY <2>1, <2>2
<1>10. ASSUME NEW t \in SUBSET (1 .. k)
       PROVE  h[t] = IF t = {} THEN b ELSE F[<<h[t \ {Max(t)}], s[Max(t)]>>]
  <2>1. CASE k \in t
    <3>1. Max(t) = k
      <4>1. Max(t) \in t /\ k <= Max(t)
        BY <2>1, MaxOf, <1>4
      <4>2. Max(t) \in 1 .. k
        BY <4>1
      <4>3. QED
        BY <4>1, <4>2, <1>4
    <3>2. h[t \ {k}] = g[t \ {k}]
      <4>1. t \ {k} \in SUBSET (1 .. k) /\ k \notin t \ {k}
        OBVIOUS
      <4>2. QED
        BY <4>1
    <3>3. QED
      BY <2>1, <3>1, <3>2
  <2>2. CASE k \notin t /\ t = {}
    <3>1. g[t] = b
      BY <2>2, <1>5
    <3>2. QED
      BY <2>2, <3>1
  <2>3. CASE k \notin t /\ t # {}
    <3>1. t \in SUBSET (1 .. k - 1)
      BY <2>3, <1>6
    <3>2. g[t] = F[<<g[t \ {Max(t)}], s[Max(t)]>>]
      BY <3>1, <1>5, <2>3
    <3>3. t \ {Max(t)} \in SUBSET (1 .. k) /\ k \notin t \ {Max(t)}
      BY <2>3
    <3>4. h[t \ {Max(t)}] = g[t \ {Max(t)}]
      BY <3>3
    <3>5. h[t] = g[t]
      BY <2>3
    <3>6. QED
      BY <2>3, <3>2, <3>4, <3>5
  <2>4. QED
    BY <2>1, <2>2, <2>3
<1>11. Good(k, h)
  <2> HIDE DEF h
  <2>1. QED
    BY <1>9, <1>10
<1>12. k \in Bad
  BY <1>2
<1>13. QED
  <2> HIDE DEF h, Good
  <2>1. QED
    BY <1>11, <1>12

(* FoldLeft of an operator that is a function on the given domain.         *)
Adds(acc, T, b, s) ==
  /\ acc \in [0 .. Len(s) -> Seq(T)]
  /\ acc[0] = b /\ acc[Len(s)] = FoldLeft(AddOnce, b, s)
  /\ \A k \in 1 .. Len(s) : acc[k] = AddOnce(acc[k - 1], s[k])

LEMMA FoldAddOnce ==
  ASSUME NEW T, NEW b \in Seq(T), NEW s \in Seq(T)
  PROVE  \E acc : Adds(acc, T, b, s)
<1> DEFINE A == Seq(T)
           F == [r \in A \X T |-> AddOnce(r[1], r[2])]
           P == SUBSET DOMAIN s
           Iter(g) == g = [t \in P |-> IF t = {} THEN b
                                       ELSE LET x == Max(t) IN AddOnce(g[t \ {x}], s[x])]
           iter == CHOOSE g : Iter(g)
           acc == [k \in 0 .. Len(s) |-> iter[1 .. k]]
<1>1. Len(s) \in Nat /\ s \in [1 .. Len(s) -> T] /\ DOMAIN s = 1 .. Len(s)
  OBVIOUS
<1>2. \A a \in A, x \in T : AddOnce(a, x) \in A /\ F[<<a, x>>] = AddOnce(a, x)
  BY DEF AddOnce
<1>3. F \in [A \X T -> A]
  BY <1>2
<1>4. PICK g \in [P -> A] : \A t \in P :
        g[t] = IF t = {} THEN b ELSE F[<<g[t \ {Max(t)}], s[Max(t)]>>]
  <2> HIDE DEF F, A, P
  <2>1. b \in A
    BY DEF A
  <2>2. \E g : Folds(g, A, F, b, s)
    BY <2>1, <1>3, FoldExists DEF A
  <2>3. QED
    BY <2>2 DEF P, Folds
<1>5. Iter(g)
  <2>1. ASSUME NEW t \in P, t # {}
        PROVE  g[t] = AddOnce(g[t \ {Max(t)}], s[Max(t)])
    <3>1. Max(t) \in t
      BY <2>1, <1>1, MaxOf
    <3>2. s[Max(t)] \in T /\ g[t \ {Max(t)}] \in A
      BY <3>1, <1>1
    <3>3. QED
      BY <3>2, <2>1, <1>4, <1>2
  <2>2. QED
    BY <2>1, <1>4
<1>6. Iter(iter)
  <2> HIDE DEF Iter
  <2>1. QED
    BY <1>5
<1>7. FoldLeft(AddOnce, b, s) = iter[DOMAIN s]
  BY DEF FoldLeft, MapThenFoldSet
<1> HIDE DEF iter
<1>8. iter[{}] = b
  BY <1>6
<1>9. ASSUME NEW k \in 1 .. Len(s)
      PROVE  iter[1 .. k] = AddOnce(iter[1 .. k - 1], s[k])
  <2>1. 1 .. k \in P /\ 1 .. k # {} /\ 1 .. k \in SUBSET (1 .. k) /\ k \in Nat
    <3>1. k \in Nat /\ k \in 1 .. k
      BY <1>1
    <3>2. 1 .. k \subseteq 1 .. Len(s)
      BY <1>1
    <3>3. QED
      BY <3>1, <3>2, <1>1
  <2>2. Max(1 .. k) = k
    <3>1. Max(1 .. k) \in 1 .. k /\ \A x \in 1 .. k : x <= Max(1 .. k)
      BY <2>1, MaxOf
    <3>2. k <= Max(1 .. k) /\ Max(1 .. k) <= k /\ Max(1 .. k) \in Int
      BY <3>1, <2>1
    <3>3. QED
      BY <3>2, <2>1
  <2>3. (1 .. k) \ {k} = 1 .. k - 1
    BY <2>1
  <2>4. QED
    BY <1>6, <2>1, <2>2, <2>3
<1> DEFINE Bad == {k \in Nat : k <= Len(s) /\ iter[1 .. k] \notin A}
<1>10. ASSUME Bad # {}
       PROVE  FALSE
  <2>1. PICK k \in Bad : \A j \in Bad : k <= j
    BY <1>10, LeastMember
  <2>2. k # 0
    <3>1. 1 .. 0 = {}
      OBVIOUS
    <3>2. QED
      BY <3>1, <1>8
  <2>3. k \in 1 .. Len(s) /\ k - 1 \in Nat /\ k - 1 <= Len(s) /\ ~ k <= k - 1
    BY <2>1, <2>2, <1>1
  <2>4. iter[1 .. k - 1] \in A
    BY <2>1, <2>3
  <2>5. QED
    BY <2>1, <2>3, <2>4, <1>1, <1>2, <1>9
<1>11. \A k \in 0 .. Len(s) : iter[1 .. k] \in A
  BY <1>10, <1>1
<1>12. acc \in [0 .. Len(s) -> A]
  BY <1>11
<1>13. acc[0] = b /\ acc[Len(s)] = FoldLeft(AddOnce, b, s)
  <2>1. 1 .. 0 = {} /\ 0 \in 0 .. Len(s) /\ Len(s) \in 0 .. Len(s)
    BY <1>1
  <2>2. QED
    BY <2>1, <1>1, <1>7, <1>8
<1>14. ASSUME NEW k \in 1 .. Len(s)
       PROVE  acc[k] = AddOnce(acc[k - 1], s[k])
  <2>1. k \in 0 .. Len(s) /\ k - 1 \in 0 .. Len(s)
    BY <1>1
  <2>2. QED
    BY <2>1, <1>9
<1>15. QED
  <2> HIDE DEF acc
  <2>1. QED
    BY <1>12, <1>13, <1>14 DEF Adds, A

Distinct(s) == \A m, n \in 1 .. Len(s) : s[m] = s[n] => m = n

LEMMA AddOnceFacts ==
  ASSUME NEW T, NEW s \in Seq(T), NEW x \in T
  PROVE  /\ AddOnce(s, x) \in Seq(T)
         /\ Distinct(s) => Distinct(AddOnce(s, x))
         /\ \A y : Contains(AddOnce(s, x), y) <=> Contains(s, y) \/ y = x
<1>1. CASE Contains(s, x)
  BY <1>1 DEF AddOnce, Contains
<1>2. CASE ~ Contains(s, x)
  <2>1. /\ AddOnce(s, x) \in Seq(T) /\ Len(AddOnce(s, x)) = Len(s) + 1 /\ Len(s) \in Nat
        /\ \A n \in 1 .. Len(s) : AddOnce(s, x)[n] = s[n]
        /\ AddOnce(s, x)[Len(s) + 1] = x
    BY <1>2 DEF AddOnce
  <2>2. \A n \in 1 .. Len(s) : s[n] # x
    BY <1>2 DEF Contains
  <2>3. \A n \in 1 .. Len(s) + 1 : n \in 1 .. Len(s) \/ n = Len(s) + 1
    BY <2>1
  <2>4. Distinct(s) => Distinct(AddOnce(s, x))
    BY <2>1, <2>2, <2>3 DEF Distinct
  <2>5. \A y : Contains(AddOnce(s, x), y) <=> Contains(s, y) \/ y = x
    BY <2>1, <2>3 DEF Contains
  <2>6. QED
    BY <2>1, <2>4, <2>5
<1>3. QED
  BY <1>1, <1>2

LEMMA RemoveLabelFacts ==
  ASSUME NEW T, NEW s \in Seq(T), NEW x
  PROVE  /\ RemoveLabel(s, x) \in Seq(T)
         /\ Distinct(s) =>
              /\ Distinct(RemoveLabel(s, x))
              /\ \A y : Contains(RemoveLabel(s, x), y) <=> Contains(s, y) /\ y # x
<1>1. CASE ~ Contains(s, x)
  BY <1>1 DEF RemoveLabel, Contains
<1>2. CASE Contains(s, x)
  <2> DEFINE N == Len(s)
             n == CHOOSE k \in DOMAIN s : s[k] = x
             u == [s EXCEPT ![n] = Last(s)]
             r == RemoveLabel(s, x)
  <2>1. n \in 1 .. N /\ s[n] = x /\ N \in Nat /\ N > 0
    BY <1>2 DEF Contains
  <2> HIDE DEF n
  <2>2. s[N] \in T /\ u \in Seq(T) /\ Len(u) = N
    BY <2>1 DEF Last
  <2>3. \A k \in 1 .. N : u[k] = IF k = n THEN s[N] ELSE s[k]
    BY <2>1 DEF Last
  <2>4. r = SubSeq(u, 1, N - 1)
    BY <1>2, <2>2 DEF RemoveLabel, Front, n
  <2> HIDE DEF u, r
  <2>5. r \in Seq(T) /\ Len(r) = N - 1 /\ \A k \in 1 .. N - 1 : r[k] = u[k]
    <3>1. \A i \in 1 .. N - 1 : u[i] \in T
      BY <2>2
    <3>2. 1 \in Int /\ N - 1 \in Int
      BY <2>1
    <3>3. /\ SubSeq(u, 1, N - 1) \in Seq(T)
          /\ Len(SubSeq(u, 1, N - 1)) = IF 1 <= N - 1 THEN N - 1 - 1 + 1 ELSE 0
          /\ \A i \in 1 .. N - 1 - 1 + 1 : SubSeq(u, 1, N - 1)[i] = u[1 + i - 1]
      BY <3>1, <3>2, SubSeqProperties
    <3>4. (IF 1 <= N - 1 THEN N - 1 - 1 + 1 ELSE 0) = N - 1 /\ N - 1 - 1 + 1 = N - 1
      <4> HIDE DEF N
      <4>1. QED
        BY <2>1
    <3>5. \A i \in 1 .. N - 1 : SubSeq(u, 1, N - 1)[i] = u[i]
      <4>1. \A i \in 1 .. N - 1 : 1 + i - 1 = i
        BY <2>1
      <4>2. QED
        BY <3>3, <3>4, <4>1
    <3>6. QED
      BY <2>4, <3>3, <3>4, <3>5
  <2>6. ASSUME Distinct(s)
        PROVE  Distinct(r)
    <3> SUFFICES ASSUME NEW i \in 1 .. N - 1, NEW j \in 1 .. N - 1, r[i] = r[j]
                 PROVE  i = j
      BY <2>5 DEF Distinct
    <3>1. (IF i = n THEN s[N] ELSE s[i]) = IF j = n THEN s[N] ELSE s[j]
      BY <2>1, <2>3, <2>5
    <3>2. \A k, l \in 1 .. N : s[k] = s[l] => k = l
      BY <2>6 DEF Distinct
    <3>3. QED
      BY <3>1, <3>2, <2>1
  <2>7. ASSUME Distinct(s), NEW y
        PROVE  Contains(r, y) <=> Contains(s, y) /\ y # x
    <3>1. \A k, l \in 1 .. N : s[k] = s[l] => k = l
      BY <2>7 DEF Distinct
    <3>2. ASSUME NEW i \in 1 .. N - 1, r[i] = y
          PROVE  Contains(s, y) /\ y # x
      <4>1. y = IF i = n THEN s[N] ELSE s[i]
        BY <3>2, <2>1, <2>3, <2>5
      <4>2. QED
        BY <4>1, <3>1, <2>1 DEF Contains
    <3>3. ASSUME NEW i \in 1 .. N, s[i] = y, y # x
          PROVE  \E j \in 1 .. N - 1 : r[j] = y
      <4>1. CASE i = N
        <5>1. n # N /\ n \in 1 .. N - 1
          BY <4>1, <3>3, <2>1
        <5>2. r[n] = s[N]
          BY <5>1, <2>1, <2>3, <2>5
        <5>3. QED
          BY <5>1, <5>2, <4>1, <3>3
      <4>2. CASE i # N
        <5>1. i \in 1 .. N - 1 /\ i # n
          BY <4>2, <3>3, <2>1
        <5>2. r[i] = s[i]
          BY <5>1, <2>1, <2>3, <2>5
        <5>3. QED
          BY <5>1, <5>2, <3>3
      <4>3. QED
        BY <4>1, <4>2
    <3>4. QED
      BY <3>2, <3>3, <2>5 DEF Contains
  <2>8. QED
    BY <2>5, <2>6, <2>7 DEF r
<1>3. QED
  BY <1>1, <1>2

Removes(acc, T, b, s) ==
  /\ acc \in [0 .. Len(s) -> Seq(T)]
  /\ acc[0] = b /\ acc[Len(s)] = FoldLeft(RemoveLabel, b, s)
  /\ \A k \in 1 .. Len(s) : acc[k] = RemoveLabel(acc[k - 1], s[k])

LEMMA FoldRemoveLabel ==
  ASSUME NEW T, NEW b \in Seq(T), NEW s \in Seq(T)
  PROVE  \E acc : Removes(acc, T, b, s)
<1> DEFINE A == Seq(T)
           F == [r \in A \X T |-> RemoveLabel(r[1], r[2])]
           P == SUBSET DOMAIN s
           Iter(g) == g = [t \in P |-> IF t = {} THEN b
                                       ELSE LET x == Max(t) IN RemoveLabel(g[t \ {x}], s[x])]
           iter == CHOOSE g : Iter(g)
           acc == [k \in 0 .. Len(s) |-> iter[1 .. k]]
<1>1. Len(s) \in Nat /\ s \in [1 .. Len(s) -> T] /\ DOMAIN s = 1 .. Len(s)
  OBVIOUS
<1>2. \A a \in A, x \in T : RemoveLabel(a, x) \in A /\ F[<<a, x>>] = RemoveLabel(a, x)
  BY RemoveLabelFacts
<1>3. F \in [A \X T -> A]
  BY <1>2
<1>4. PICK g \in [P -> A] : \A t \in P :
        g[t] = IF t = {} THEN b ELSE F[<<g[t \ {Max(t)}], s[Max(t)]>>]
  <2> HIDE DEF F, A, P
  <2>1. b \in A
    BY DEF A
  <2>2. \E g : Folds(g, A, F, b, s)
    BY <2>1, <1>3, FoldExists DEF A
  <2>3. QED
    BY <2>2 DEF P, Folds
<1>5. Iter(g)
  <2>1. ASSUME NEW t \in P, t # {}
        PROVE  g[t] = RemoveLabel(g[t \ {Max(t)}], s[Max(t)])
    <3>1. Max(t) \in t
      BY <2>1, <1>1, MaxOf
    <3>2. s[Max(t)] \in T /\ g[t \ {Max(t)}] \in A
      BY <3>1, <1>1
    <3>3. QED
      BY <3>2, <2>1, <1>4, <1>2
  <2>2. QED
    BY <2>1, <1>4
<1>6. Iter(iter)
  <2> HIDE DEF Iter
  <2>1. QED
    BY <1>5
<1>7. FoldLeft(RemoveLabel, b, s) = iter[DOMAIN s]
  BY DEF FoldLeft, MapThenFoldSet
<1> HIDE DEF iter
<1>8. iter[{}] = b
  BY <1>6
<1>9. ASSUME NEW k \in 1 .. Len(s)
      PROVE  iter[1 .. k] = RemoveLabel(iter[1 .. k - 1], s[k])
  <2>1. 1 .. k \in P /\ 1 .. k # {} /\ 1 .. k \in SUBSET (1 .. k) /\ k \in Nat
    <3>1. k \in Nat /\ k \in 1 .. k
      BY <1>1
    <3>2. 1 .. k \subseteq 1 .. Len(s)
      BY <1>1
    <3>3. QED
      BY <3>1, <3>2, <1>1
  <2>2. Max(1 .. k) = k
    <3>1. Max(1 .. k) \in 1 .. k /\ \A x \in 1 .. k : x <= Max(1 .. k)
      BY <2>1, MaxOf
    <3>2. k <= Max(1 .. k) /\ Max(1 .. k) <= k /\ Max(1 .. k) \in Int
      BY <3>1, <2>1
    <3>3. QED
      BY <3>2, <2>1
  <2>3. (1 .. k) \ {k} = 1 .. k - 1
    BY <2>1
  <2>4. QED
    BY <1>6, <2>1, <2>2, <2>3
<1> DEFINE Bad == {k \in Nat : k <= Len(s) /\ iter[1 .. k] \notin A}
<1>10. ASSUME Bad # {}
       PROVE  FALSE
  <2>1. PICK k \in Bad : \A j \in Bad : k <= j
    BY <1>10, LeastMember
  <2>2. k # 0
    <3>1. 1 .. 0 = {}
      OBVIOUS
    <3>2. QED
      BY <3>1, <1>8
  <2>3. k \in 1 .. Len(s) /\ k - 1 \in Nat /\ k - 1 <= Len(s) /\ ~ k <= k - 1
    BY <2>1, <2>2, <1>1
  <2>4. iter[1 .. k - 1] \in A
    BY <2>1, <2>3
  <2>5. QED
    BY <2>1, <2>3, <2>4, <1>1, <1>2, <1>9
<1>11. \A k \in 0 .. Len(s) : iter[1 .. k] \in A
  BY <1>10, <1>1
<1>12. acc \in [0 .. Len(s) -> A]
  BY <1>11
<1>13. acc[0] = b /\ acc[Len(s)] = FoldLeft(RemoveLabel, b, s)
  <2>1. 1 .. 0 = {} /\ 0 \in 0 .. Len(s) /\ Len(s) \in 0 .. Len(s)
    BY <1>1
  <2>2. QED
    BY <2>1, <1>1, <1>7, <1>8
<1>14. ASSUME NEW k \in 1 .. Len(s)
       PROVE  acc[k] = RemoveLabel(acc[k - 1], s[k])
  <2>1. k \in 0 .. Len(s) /\ k - 1 \in 0 .. Len(s)
    BY <1>1
  <2>2. QED
    BY <2>1, <1>9
<1>15. QED
  <2> HIDE DEF acc
  <2>1. QED
    BY <1>12, <1>13, <1>14 DEF Removes, A

(* Induction up to n over a set of numbers.                                *)
LEMMA Reached ==
  ASSUME NEW n \in Nat, NEW G, 0 \in G, \A k \in 1 .. n : k - 1 \in G => k \in G
  PROVE  \A k \in 0 .. n : k \in G
<1> DEFINE Bad == {k \in Nat : k <= n /\ k \notin G}
<1>1. ASSUME Bad # {}
      PROVE  FALSE
  <2>1. PICK k \in Bad : \A j \in Bad : k <= j
    BY <1>1, LeastMember
  <2>2. k \in Nat /\ k <= n /\ k \notin G
    BY <2>1
  <2>3. k \in 1 .. n
    BY <2>2
  <2>4. k - 1 \in Nat /\ k - 1 <= n /\ ~ k <= k - 1
    BY <2>3
  <2>5. k - 1 \in G
    BY <2>1, <2>4
  <2>6. QED
    BY <2>2, <2>3, <2>5
<1>2. QED
  BY <1>1

LEMMA AddAll ==
  ASSUME NEW T, NEW b \in Seq(T), NEW s \in Seq(T)
  PROVE  /\ FoldLeft(AddOnce, b, s) \in Seq(T)
         /\ Distinct(b) => Distinct(FoldLeft(AddOnce, b, s))
         /\ \A y : Contains(FoldLeft(AddOnce, b, s), y) <=> Contains(b, y) \/ Contains(s, y)
<1>0. PICK acc : Adds(acc, T, b, s)
  BY FoldAddOnce
<1>1. /\ acc \in [0 .. Len(s) -> Seq(T)]
      /\ acc[0] = b /\ acc[Len(s)] = FoldLeft(AddOnce, b, s)
      /\ \A k \in 1 .. Len(s) : acc[k] = AddOnce(acc[k - 1], s[k])
  BY <1>0 DEF Adds
<1> DEFINE N == Len(s)
           G == {k \in 0 .. N :
                  /\ Distinct(b) => Distinct(acc[k])
                  /\ \A y : Contains(acc[k], y) <=> Contains(b, y) \/ \E i \in 1 .. k : s[i] = y}
<1>2. N \in Nat /\ \A k \in 1 .. N : s[k] \in T
  OBVIOUS
<1>3. 0 \in G
  BY <1>1, <1>2
<1>4. ASSUME NEW k \in 1 .. N, k - 1 \in G
      PROVE  k \in G
  <2>1. acc[k - 1] \in Seq(T) /\ acc[k] = AddOnce(acc[k - 1], s[k]) /\ s[k] \in T
    BY <1>1, <1>2
  <2>2. /\ Distinct(acc[k - 1]) => Distinct(acc[k])
        /\ \A y : Contains(acc[k], y) <=> Contains(acc[k - 1], y) \/ y = s[k]
    <3>1. /\ Distinct(acc[k - 1]) => Distinct(AddOnce(acc[k - 1], s[k]))
          /\ \A y : Contains(AddOnce(acc[k - 1], s[k]), y) <=> Contains(acc[k - 1], y) \/ y = s[k]
      <4> DEFINE a == acc[k - 1]
                 x == s[k]
      <4>1. a \in Seq(T) /\ x \in T
        BY <2>1
      <4> HIDE DEF a, x
      <4>2. /\ Distinct(a) => Distinct(AddOnce(a, x))
            /\ \A y : Contains(AddOnce(a, x), y) <=> Contains(a, y) \/ y = x
        BY <4>1, AddOnceFacts
      <4>3. QED
        BY <4>2 DEF a, x
    <3>2. QED
      BY <2>1, <3>1
  <2>3. \A i : i \in 1 .. k <=> i \in 1 .. k - 1 \/ i = k
    BY <1>2
  <2>4. \A y : Contains(acc[k], y) <=> Contains(b, y) \/ \E i \in 1 .. k : s[i] = y
    BY <2>2, <2>3, <1>4
  <2>5. k \in 0 .. N
    BY <1>2
  <2>6. QED
    BY <1>4, <2>2, <2>4, <2>5
<1>5. N \in G
  <2> HIDE DEF G
  <2>1. \A k \in 0 .. N : k \in G
    BY <1>2, <1>3, <1>4, Reached
  <2>2. QED
    BY <2>1, <1>2
<1>6. acc[N] \in Seq(T)
  BY <1>1, <1>2
<1>7. (Distinct(b) => Distinct(acc[N])) /\ \A y : Contains(acc[N], y) <=> Contains(b, y) \/ \E i \in 1 .. N : s[i] = y
  BY <1>5
<1>8. \A y : Contains(s, y) <=> \E i \in 1 .. N : s[i] = y
  BY DEF Contains
<1> HIDE DEF G
<1>9. QED
  BY <1>1, <1>6, <1>7, <1>8

LEMMA RemoveAll ==
  ASSUME NEW T, NEW b \in Seq(T), NEW s \in Seq(T)
  PROVE  /\ FoldLeft(RemoveLabel, b, s) \in Seq(T)
         /\ Distinct(b) =>
              /\ Distinct(FoldLeft(RemoveLabel, b, s))
              /\ \A y : Contains(FoldLeft(RemoveLabel, b, s), y) <=>
                            Contains(b, y) /\ ~ Contains(s, y)
<1>0. PICK acc : Removes(acc, T, b, s)
  BY FoldRemoveLabel
<1>1. /\ acc \in [0 .. Len(s) -> Seq(T)]
      /\ acc[0] = b /\ acc[Len(s)] = FoldLeft(RemoveLabel, b, s)
      /\ \A k \in 1 .. Len(s) : acc[k] = RemoveLabel(acc[k - 1], s[k])
  BY <1>0 DEF Removes
<1> DEFINE N == Len(s)
           G == {k \in 0 .. N : Distinct(b) =>
                  /\ Distinct(acc[k])
                  /\ \A y : Contains(acc[k], y) <=>
                               Contains(b, y) /\ \A i \in 1 .. k : s[i] # y}
<1>2. N \in Nat
  OBVIOUS
<1>3. 0 \in G
  BY <1>1, <1>2
<1>4. ASSUME NEW k \in 1 .. N, k - 1 \in G
      PROVE  k \in G
  <2>1. acc[k - 1] \in Seq(T) /\ acc[k] = RemoveLabel(acc[k - 1], s[k])
    BY <1>1, <1>2
  <2>2. Distinct(acc[k - 1]) =>
          /\ Distinct(acc[k])
          /\ \A y : Contains(acc[k], y) <=> Contains(acc[k - 1], y) /\ y # s[k]
    BY <2>1, RemoveLabelFacts
  <2>3. \A i : i \in 1 .. k <=> i \in 1 .. k - 1 \/ i = k
    BY <1>2
  <2>4. ASSUME Distinct(b), NEW y
        PROVE  Contains(acc[k], y) <=> Contains(b, y) /\ \A i \in 1 .. k : s[i] # y
    BY <2>2, <2>3, <2>4, <1>4
  <2>5. k \in 0 .. N
    BY <1>2
  <2>6. QED
    BY <1>4, <2>2, <2>4, <2>5
<1>5. N \in G
  <2> HIDE DEF G
  <2>1. \A k \in 0 .. N : k \in G
    BY <1>2, <1>3, <1>4, Reached
  <2>2. QED
    BY <2>1, <1>2
<1>6. acc[N] \in Seq(T)
  BY <1>1, <1>2
<1>7. Distinct(b) => Distinct(acc[N]) /\ \A y : Contains(acc[N], y) <=> Contains(b, y) /\ \A i \in 1 .. N : s[i] # y
  BY <1>5
<1>8. \A y : Contains(s, y) <=> \E i \in 1 .. N : s[i] = y
  BY DEF Contains
<1> HIDE DEF G
<1>9. QED
  BY <1>1, <1>6, <1>7, <1>8

(* The labels after an operation: those before and those it adds, but for  *)
(* those it removes, sorted.                                               *)
Ascending(s) == \A m, n \in 1 .. Len(s) : m < n => s[m] < s[n]

LEMMA ChangeSetFacts ==
  ASSUME NEW labels \in Seq(Label), Distinct(labels),
         NEW op, op.add \in Seq(Label), op.remove \in Seq(Label)
  PROVE  /\ ChangeSet(labels, op) \in Seq(Label)
         /\ Distinct(ChangeSet(labels, op)) /\ Ascending(ChangeSet(labels, op))
         /\ \A y : Contains(ChangeSet(labels, op), y) <=>
                      (Contains(labels, y) \/ Contains(op.add, y)) /\ ~ Contains(op.remove, y)
<1> DEFINE added == FoldLeft(AddOnce, labels, op.add)
           s == FoldLeft(RemoveLabel, added, op.remove)
           r == Sorted(s)
<1>1. /\ added \in Seq(Label) /\ Distinct(added)
      /\ \A y : Contains(added, y) <=> Contains(labels, y) \/ Contains(op.add, y)
  BY AddAll
<1> HIDE DEF added
<1>2. /\ s \in Seq(Label) /\ Distinct(s)
      /\ \A y : Contains(s, y) <=> Contains(added, y) /\ ~ Contains(op.remove, y)
  BY <1>1, RemoveAll
<1>3. ChangeSet(labels, op) = r
  BY DEF ChangeSet, added
<1> HIDE DEF s
<1>4. s \in Seq(Nat) /\ Len(s) \in Nat
  <2>1. \A l \in Label : l \in Nat
    BY LabelAssumption
  <2>2. Len(s) \in Nat /\ \A n \in 1 .. Len(s) : s[n] \in Nat
    BY <1>2, <2>1
  <2>3. s = [n \in 1 .. Len(s) |-> s[n]]
    BY <1>2
  <2>4. QED
    BY <2>2, <2>3
<1>5. /\ r \in Seq(Nat) /\ Len(r) = Len(s)
      /\ \A n \in 1 .. Len(s) : \E m \in 1 .. Len(s) : r[n] = s[m]
      /\ \A m \in 1 .. Len(s) : \E n \in 1 .. Len(s) : r[n] = s[m]
      /\ \A m, n \in 1 .. Len(s) : m < n => r[m] < r[n]
  BY <1>2, <1>4, SortedFacts DEF Distinct
<1> HIDE DEF r
<1>6. ASSUME NEW n \in 1 .. Len(r)
      PROVE  r[n] \in Label /\ r[n] \in Nat
  <2>1. PICK m \in 1 .. Len(s) : r[n] = s[m]
    BY <1>5
  <2>2. s[m] \in Label
    BY <1>2
  <2>3. QED
    BY <2>1, <2>2, LabelAssumption
<1>7. r \in Seq(Label)
  <2>1. r = [n \in 1 .. Len(r) |-> r[n]] /\ Len(r) \in Nat
    BY <1>5
  <2>2. QED
    BY <2>1, <1>6
<1>8. Distinct(r)
  <2> SUFFICES ASSUME NEW m \in 1 .. Len(r), NEW n \in 1 .. Len(r), r[m] = r[n]
               PROVE  m = n
    BY DEF Distinct
  <2>0. r[m] \in Nat /\ r[n] \in Nat /\ m \in 1 .. Len(s) /\ n \in 1 .. Len(s)
    BY <1>5, <1>6
  <2>1. m < n => r[m] < r[n]
    BY <2>0, <1>5
  <2>2. n < m => r[n] < r[m]
    BY <2>0, <1>5
  <2>3. QED
    BY <2>0, <2>1, <2>2, <1>4
<1>9. \A y : Contains(r, y) <=> Contains(s, y)
  BY <1>5 DEF Contains
<1>10. QED
  BY <1>1, <1>2, <1>3, <1>5, <1>7, <1>8, <1>9 DEF Ascending
------------------------------------------------------------------------------
(* Compile, one operation at a time.                                       *)

(* v holds the views on the way.                                           *)
Compiles(v, s, extra) ==
  /\ v[0] = View(Blank(Head(s).id), extra)
  /\ \A k \in 1 .. Len(s) : v[k] = Apply(v[k - 1], s[k])

LEMMA CompileSteps ==
  ASSUME NEW s, Len(s) \in Nat, NEW extra
  PROVE  \E v : Compiles(v, s, extra) /\ Compile(s, extra) = v[Len(s)]
<1> DEFINE N == Len(s)
           V0 == View(Blank(Head(s).id), extra)
           Is(v) == v = [n \in 0 .. N |->
                          IF n = 0 THEN V0
                          ELSE CHOOSE w \in {Apply(last, s[n]) : last \in {v[n - 1]}} : TRUE]
           Upto(k, g) == g[0] = V0 /\ \A n \in 1 .. k : g[n] = Apply(g[n - 1], s[n])
           G == {k \in 0 .. N : \E g : Upto(k, g)}
           view_ == CHOOSE v : Is(v)
<1>1. \A a, b : (CHOOSE w \in {Apply(last, b) : last \in {a}} : TRUE) = Apply(a, b)
  OBVIOUS
<1>2. 0 \in G
  <2> DEFINE g == [n \in 0 .. 0 |-> V0]
  <2>1. Upto(0, g)
    OBVIOUS
  <2> HIDE DEF Upto, g
  <2>2. QED
    BY <2>1
<1>3. ASSUME NEW k \in 1 .. N, k - 1 \in G
      PROVE  k \in G
  <2>1. PICK g : Upto(k - 1, g)
    <3> HIDE DEF Upto
    <3>1. QED
      BY <1>3
  <2> DEFINE h == [n \in 0 .. k |-> IF n = k THEN Apply(g[k - 1], s[k]) ELSE g[n]]
  <2>2. h[0] = V0
    BY <2>1
  <2>3. ASSUME NEW n \in 1 .. k
        PROVE  h[n] = Apply(h[n - 1], s[n])
    <3>1. n - 1 \in 0 .. k /\ n - 1 # k /\ n \in 0 .. k
      OBVIOUS
    <3>2. h[n - 1] = g[n - 1]
      BY <3>1
    <3>3. CASE n = k
      BY <3>1, <3>2, <3>3
    <3>4. CASE n # k
      <4>1. n \in 1 .. k - 1 /\ h[n] = g[n]
        BY <3>1, <3>4
      <4>2. QED
        BY <4>1, <3>2, <2>1
    <3>5. QED
      BY <3>3, <3>4
  <2>4. Upto(k, h)
    <3> HIDE DEF h
    <3>1. QED
      BY <2>2, <2>3
  <2> HIDE DEF Upto, h
  <2>5. QED
    BY <2>4
<1>4. PICK g : Upto(N, g)
  <2>1. \A k \in 0 .. N : k \in G
    <3> HIDE DEF G
    <3>1. QED
      BY <1>2, <1>3, Reached
  <2>2. N \in G
    <3> HIDE DEF G
    <3>1. QED
      BY <2>1
  <2> HIDE DEF Upto
  <2>3. QED
    BY <2>2
<1>5. Is([n \in 0 .. N |-> g[n]])
  <2> DEFINE h == [n \in 0 .. N |-> g[n]]
  <2>1. h[0] = V0
    BY <1>4
  <2>2. ASSUME NEW n \in 0 .. N, n # 0
        PROVE  h[n] = CHOOSE w \in {Apply(last, s[n]) : last \in {h[n - 1]}} : TRUE
    <3>1. h[n] = g[n] /\ h[n - 1] = g[n - 1] /\ n \in 1 .. N
      BY <2>2
    <3>2. g[n] = Apply(g[n - 1], s[n])
      BY <3>1, <1>4
    <3>3. QED
      BY <3>1, <3>2, <1>1
  <2>3. h = [n \in 0 .. N |-> h[n]]
    OBVIOUS
  <2> HIDE DEF h, V0
  <2>4. Is(h)
    BY <2>1, <2>2, <2>3
  <2>5. QED
    BY <2>4 DEF h
<1>6. Is(view_)
  <2> HIDE DEF Is
  <2>1. QED
    BY <1>5
<1>7. Compile(s, extra) = view_[N]
  BY DEF Compile
<1> HIDE DEF view_
<1>8. Compiles(view_, s, extra)
  <2>1. view_[0] = V0
    BY <1>6
  <2>2. ASSUME NEW k \in 1 .. N
        PROVE  view_[k] = Apply(view_[k - 1], s[k])
    <3>1. view_[k] = CHOOSE w \in {Apply(last, s[k]) : last \in {view_[k - 1]}} : TRUE
      BY <1>6
    <3>2. QED
      BY <3>1, <1>1
  <2>3. QED
    BY <2>1, <2>2 DEF Compiles
<1>9. QED
  BY <1>7, <1>8

(* There is one way through the same operations.                           *)
LEMMA CompilesAlike ==
  ASSUME NEW s, NEW t, NEW extra, NEW v, NEW w, Compiles(v, s, extra), Compiles(w, t, extra),
         NEW n \in Nat, n <= Len(s), n <= Len(t), Len(s) \in Nat, Len(t) \in Nat,
         Head(s) = Head(t), \A k \in 1 .. n : s[k] = t[k]
  PROVE  v[n] = w[n]
<1> DEFINE G == {k \in 0 .. n : v[k] = w[k]}
<1>1. 0 \in G
  BY DEF Compiles
<1>2. ASSUME NEW k \in 1 .. n, k - 1 \in G
      PROVE  k \in G
  <2>1. k \in 1 .. Len(s) /\ k \in 1 .. Len(t) /\ s[k] = t[k] /\ v[k - 1] = w[k - 1]
    BY <1>2
  <2>2. v[k] = Apply(v[k - 1], s[k]) /\ w[k] = Apply(w[k - 1], t[k])
    BY <2>1 DEF Compiles
  <2>3. QED
    BY <2>1, <2>2
<1>3. \A k \in 0 .. n : k \in G
  <2> HIDE DEF G
  <2>1. QED
    BY <1>1, <1>2, Reached
<1>4. QED
  BY <1>3

LEMMA CompileAppend ==
  ASSUME NEW T, NEW s \in Seq(T), s # <<>>, NEW op \in T, NEW extra
  PROVE  Compile(Append(s, op), extra) = Apply(Compile(s, extra), op)
<1> DEFINE t == Append(s, op)
           N == Len(s)
<1>1. /\ N \in Nat /\ N > 0 /\ Len(t) = N + 1 /\ t[N + 1] = op /\ Head(t) = Head(s)
      /\ \A k \in 1 .. N : t[k] = s[k]
  OBVIOUS
<1> HIDE DEF t
<1>2. PICK v : Compiles(v, s, extra) /\ Compile(s, extra) = v[N]
  BY <1>1, CompileSteps
<1>3. PICK w : Compiles(w, t, extra) /\ Compile(t, extra) = w[Len(t)]
  BY <1>1, CompileSteps
<1>4. v[N] = w[N]
  <2>1. N <= N /\ N <= Len(t) /\ Len(t) \in Nat
    BY <1>1
  <2>2. QED
    BY <1>1, <1>2, <1>3, <2>1, CompilesAlike
<1>5. w[N + 1] = Apply(w[N], op)
  <2>1. N + 1 \in 1 .. Len(t) /\ N + 1 - 1 = N
    BY <1>1
  <2>2. w[N + 1] = Apply(w[N + 1 - 1], t[N + 1])
    BY <1>3, <2>1 DEF Compiles
  <2>3. QED
    BY <2>1, <2>2, <1>1
<1>6. QED
  BY <1>1, <1>2, <1>3, <1>4, <1>5 DEF t
------------------------------------------------------------------------------
(* What a snapshot holds.                                                  *)

Id == 1 .. MaxOps
CommentKind == {"create", "comment"}
CommentRecord == [target : Id, author : Clone, message : Id]
CommentItemRecord == [kind : CommentKind, id : Id, message : Id, history : Seq(Id)]
ChangeItemRecord ==
  [kind : {"title", "status", "labels"}, id : Id, status : {"open", "closed"},
   was : 0 .. MaxOps, add : Seq(Label), remove : Seq(Label)]
ItemRecord == CommentItemRecord \union ChangeItemRecord

SnapRecord ==
  [id : 0 .. MaxOps, status : {"open", "closed"}, title : 0 .. MaxOps,
   comments : Seq(CommentRecord), labels : Seq(Label), author : Clone \union {None},
   actors : Seq(Clone), participants : Seq(Clone), timeline : Seq(ItemRecord),
   ops : Seq(OperationRecord)]
ViewRecord == [snap : SnapRecord, extra : [Id -> 0 .. MaxOps]]

LEMMA ActorType ==
  ASSUME NEW snap \in SnapRecord, NEW a \in Clone
  PROVE  /\ addActor(snap, a) \in SnapRecord
         /\ addParticipant(addActor(snap, a), a) \in SnapRecord
         /\ \E as \in Seq(Clone) : addActor(snap, a) = [snap EXCEPT !.actors = as]
         /\ \E as, ps \in Seq(Clone) :
              addParticipant(addActor(snap, a), a) =
                [snap EXCEPT !.actors = as, !.participants = ps]
<1>1. snap.actors \in Seq(Clone) /\ snap.participants \in Seq(Clone)
  BY DEF SnapRecord
<1>2. AddOnce(snap.actors, a) \in Seq(Clone) /\ AddOnce(snap.participants, a) \in Seq(Clone)
  BY <1>1 DEF AddOnce
<1>3. addActor(snap, a) = [snap EXCEPT !.actors = AddOnce(snap.actors, a)]
  BY DEF addActor
<1>4. addActor(snap, a) \in SnapRecord /\ addActor(snap, a).participants = snap.participants
  BY <1>2, <1>3 DEF SnapRecord
<1>5. addParticipant(addActor(snap, a), a) =
        [snap EXCEPT !.actors = AddOnce(snap.actors, a),
                     !.participants = AddOnce(snap.participants, a)]
  BY <1>3, <1>4 DEF addParticipant, SnapRecord
<1>6. addParticipant(addActor(snap, a), a) \in SnapRecord
  BY <1>2, <1>5 DEF SnapRecord
<1>7. QED
  BY <1>2, <1>3, <1>4, <1>5, <1>6

(* What the operations do to a snapshot, field by field.                   *)
EditedTimeline(snap, op) ==
  [n \in DOMAIN snap.timeline |->
     IF n \in Edited(snap, op) THEN EditItem(snap.timeline[n], op) ELSE snap.timeline[n]]
EditedComments(snap, op) ==
  [n \in DOMAIN snap.comments |->
     IF snap.comments[n].target = op.target
     THEN [snap.comments[n] EXCEPT !.message = op.id] ELSE snap.comments[n]]

Fresh(snap, op) == snap.id = None \/ snap.id = op.id

LEMMA CreateFacts ==
  ASSUME NEW snap \in SnapRecord, NEW op \in OperationRecord, op.kind = "create"
  PROVE  LET r == ApplySnapshot(snap, op) IN
         IF Fresh(snap, op)
         THEN /\ r \in SnapRecord /\ r.ops = snap.ops /\ r.labels = snap.labels /\ r.id = op.id
              /\ r.comments = <<Comment(op)>> /\ r.timeline = <<CommentItem(op)>>
         ELSE r = snap
<1> DEFINE r == ApplySnapshot(snap, op)
<1>1. r = ApplyCreate(snap, op)
  BY DEF ApplySnapshot
<1>2. CASE ~ Fresh(snap, op)
  BY <1>1, <1>2 DEF ApplyCreate, Fresh
<1>3. CASE Fresh(snap, op)
  <2>1. op.id \in Id /\ op.author \in Clone
    BY DEF OperationRecord, Id
  <2>2. PICK as \in Seq(Clone), ps \in Seq(Clone) :
          addParticipant(addActor(snap, op.author), op.author) =
            [snap EXCEPT !.actors = as, !.participants = ps]
    BY <2>1, ActorType
  <2>3. Comment(op) \in CommentRecord /\ CommentItem(op) \in ItemRecord
    BY <2>1 DEF Comment, CommentItem, CommentRecord, ItemRecord, CommentItemRecord, CommentKind
  <2>4. r = [[snap EXCEPT !.actors = as, !.participants = ps] EXCEPT
               !.id = op.id, !.title = op.id, !.author = op.author,
               !.comments = <<Comment(op)>>, !.timeline = <<CommentItem(op)>>]
    BY <1>1, <1>3, <2>2 DEF ApplyCreate, Fresh
  <2>5. <<Comment(op)>> \in Seq(CommentRecord) /\ <<CommentItem(op)>> \in Seq(ItemRecord)
    BY <2>3
  <2>6. op.id \in 0 .. MaxOps
    BY <2>1, BoundAssumption DEF Id
  <2> HIDE DEF r
  <2>7. /\ r.ops = snap.ops /\ r.labels = snap.labels /\ r.id = op.id
        /\ r.comments = <<Comment(op)>> /\ r.timeline = <<CommentItem(op)>>
    BY <2>4 DEF SnapRecord
  <2>8. r \in SnapRecord
    BY <2>1, <2>4, <2>5, <2>6 DEF SnapRecord
  <2>9. QED
    BY <1>3, <2>7, <2>8 DEF r
<1>4. QED
  BY <1>2, <1>3

LEMMA AddCommentFacts ==
  ASSUME NEW snap \in SnapRecord, NEW op \in OperationRecord, op.kind = "comment"
  PROVE  LET r == ApplySnapshot(snap, op) IN
         /\ r \in SnapRecord /\ r.ops = snap.ops /\ r.labels = snap.labels /\ r.id = snap.id
         /\ r.comments = Append(snap.comments, Comment(op))
         /\ r.timeline = Append(snap.timeline, CommentItem(op))
<1> DEFINE r == ApplySnapshot(snap, op)
<1>1. r = ApplyAddComment(snap, op)
  BY DEF ApplySnapshot
<1>2. op.id \in Id /\ op.author \in Clone
  BY DEF OperationRecord, Id
<1>3. PICK as \in Seq(Clone), ps \in Seq(Clone) :
        addParticipant(addActor(snap, op.author), op.author) =
          [snap EXCEPT !.actors = as, !.participants = ps]
  BY <1>2, ActorType
<1>4. Comment(op) \in CommentRecord /\ CommentItem(op) \in ItemRecord
  BY <1>2 DEF Comment, CommentItem, CommentRecord, ItemRecord, CommentItemRecord, CommentKind
<1>5. snap.comments \in Seq(CommentRecord) /\ snap.timeline \in Seq(ItemRecord)
  BY DEF SnapRecord
<1>6. r = [[snap EXCEPT !.actors = as, !.participants = ps] EXCEPT
             !.comments = Append(snap.comments, Comment(op)),
             !.timeline = Append(snap.timeline, CommentItem(op))]
  BY <1>1, <1>3 DEF ApplyAddComment, SnapRecord
<1>7. /\ Append(snap.comments, Comment(op)) \in Seq(CommentRecord)
      /\ Append(snap.timeline, CommentItem(op)) \in Seq(ItemRecord)
  BY <1>4, <1>5
<1> HIDE DEF r
<1>8. r \in SnapRecord
  BY <1>6, <1>7 DEF SnapRecord
<1>9. QED
  BY <1>6, <1>8 DEF SnapRecord, r

LEMMA EditFacts ==
  ASSUME NEW snap \in SnapRecord, NEW op \in OperationRecord, op.kind = "edit"
  PROVE  LET r == ApplySnapshot(snap, op) IN
         IF Edited(snap, op) = {} THEN r = snap
         ELSE /\ r \in SnapRecord /\ r.ops = snap.ops /\ r.labels = snap.labels /\ r.id = snap.id
              /\ r.comments = EditedComments(snap, op) /\ r.timeline = EditedTimeline(snap, op)
<1> DEFINE r == ApplySnapshot(snap, op)
<1>1. r = ApplyEditComment(snap, op)
  BY DEF ApplySnapshot
<1>2. CASE Edited(snap, op) = {}
  BY <1>1, <1>2 DEF ApplyEditComment
<1>3. CASE Edited(snap, op) # {}
  <2>1. op.id \in Id /\ op.author \in Clone
    BY DEF OperationRecord, Id
  <2>2. PICK as \in Seq(Clone) : addActor(snap, op.author) = [snap EXCEPT !.actors = as]
    BY <2>1, ActorType
  <2>3. snap.comments \in Seq(CommentRecord) /\ snap.timeline \in Seq(ItemRecord)
    BY DEF SnapRecord
  <2>4. r = [[snap EXCEPT !.actors = as] EXCEPT
               !.timeline = EditedTimeline(snap, op), !.comments = EditedComments(snap, op)]
    <3> DEFINE q == addActor(snap, op.author)
    <3>1. q.timeline = snap.timeline /\ q.comments = snap.comments
      BY <2>2 DEF SnapRecord
    <3>2. r = [q EXCEPT
            !.timeline = [n \in DOMAIN q.timeline |->
               IF n \in Edited(snap, op) THEN EditItem(q.timeline[n], op) ELSE q.timeline[n]],
            !.comments = [n \in DOMAIN q.comments |->
               IF q.comments[n].target = op.target
               THEN [q.comments[n] EXCEPT !.message = op.id] ELSE q.comments[n]]]
      BY <1>1, <1>3, Zenon DEF ApplyEditComment
    <3> HIDE DEF q
    <3>3. r = [q EXCEPT
            !.timeline = EditedTimeline(snap, op), !.comments = EditedComments(snap, op)]
      BY <3>1, <3>2 DEF EditedTimeline, EditedComments
    <3>4. QED
      BY <3>3, <2>2 DEF q
  <2>5. EditedComments(snap, op) \in Seq(CommentRecord)
    <3>1. ASSUME NEW n \in DOMAIN snap.comments
          PROVE  (IF snap.comments[n].target = op.target
                  THEN [snap.comments[n] EXCEPT !.message = op.id] ELSE snap.comments[n])
                    \in CommentRecord
      <4>1. snap.comments[n] \in CommentRecord
        BY <2>3
      <4>2. QED
        BY <2>1, <4>1 DEF CommentRecord
    <3>2. DOMAIN snap.comments = 1 .. Len(snap.comments) /\ Len(snap.comments) \in Nat
      BY <2>3
    <3>3. QED
      BY <3>1, <3>2 DEF EditedComments
  <2>6. EditedTimeline(snap, op) \in Seq(ItemRecord)
    <3>1. ASSUME NEW n \in DOMAIN snap.timeline
          PROVE  (IF n \in Edited(snap, op)
                  THEN EditItem(snap.timeline[n], op) ELSE snap.timeline[n]) \in ItemRecord
      <4>1. snap.timeline[n] \in ItemRecord
        BY <2>3
      <4>2. CASE n \in Edited(snap, op)
        <5>1. snap.timeline[n] \in CommentItemRecord
          BY <4>1, <4>2 DEF Edited, ItemRecord, ChangeItemRecord
        <5>2. Append(snap.timeline[n].history, op.id) \in Seq(Id)
          BY <5>1, <2>1 DEF CommentItemRecord
        <5>3. QED
          BY <4>2, <5>1, <5>2, <2>1 DEF CommentItemRecord, ItemRecord, EditItem
      <4>3. CASE n \notin Edited(snap, op)
        BY <4>1, <4>3
      <4>4. QED
        BY <4>2, <4>3
    <3>2. DOMAIN snap.timeline = 1 .. Len(snap.timeline) /\ Len(snap.timeline) \in Nat
      BY <2>3
    <3> DEFINE e(n) == IF n \in Edited(snap, op)
                       THEN EditItem(snap.timeline[n], op) ELSE snap.timeline[n]
    <3>3. \A n \in 1 .. Len(snap.timeline) : e(n) \in ItemRecord
      BY <3>1, <3>2
    <3>4. EditedTimeline(snap, op) = [n \in 1 .. Len(snap.timeline) |-> e(n)]
      BY <3>2 DEF EditedTimeline
    <3> HIDE DEF e
    <3>5. QED
      BY <3>2, <3>3, <3>4
  <2> HIDE DEF r
  <2>7. r \in SnapRecord
    BY <2>2, <2>4, <2>5, <2>6 DEF SnapRecord
  <2>8. QED
    BY <1>3, <2>4, <2>7 DEF SnapRecord, r
<1>4. QED
  BY <1>2, <1>3

LEMMA ChangeFacts ==
  ASSUME NEW snap \in SnapRecord, Distinct(snap.labels), NEW op \in OperationRecord,
         op.kind \in {"title", "status", "labels"}
  PROVE  LET r == ApplySnapshot(snap, op) IN
         /\ r \in SnapRecord /\ r.ops = snap.ops /\ r.id = snap.id
         /\ r.labels = IF op.kind = "labels" THEN ChangeSet(snap.labels, op) ELSE snap.labels
         /\ r.comments = snap.comments /\ r.timeline = Append(snap.timeline, ChangeItem(op))
<1> DEFINE r == ApplySnapshot(snap, op)
           ls == IF op.kind = "labels" THEN ChangeSet(snap.labels, op) ELSE snap.labels
<1>2. /\ op.id \in Id /\ op.author \in Clone /\ op.add \in Seq(Label) /\ op.remove \in Seq(Label)
      /\ op.status \in {"open", "closed"} /\ op.was \in 0 .. MaxOps
  BY DEF OperationRecord, Id
<1>3. PICK as \in Seq(Clone) : addActor(snap, op.author) = [snap EXCEPT !.actors = as]
  BY <1>2, ActorType
<1>4. ChangeItem(op) \in ItemRecord
  BY <1>2 DEF ChangeItem, ItemRecord, ChangeItemRecord
<1>5. Append(snap.timeline, ChangeItem(op)) \in Seq(ItemRecord)
  BY <1>4 DEF SnapRecord
<1>6. ls \in Seq(Label)
  BY <1>2, ChangeSetFacts DEF SnapRecord
<1>7. \E t \in 0 .. MaxOps, st \in {"open", "closed"} :
        r = [[snap EXCEPT !.actors = as] EXCEPT
               !.title = t, !.status = st, !.labels = ls,
               !.timeline = Append(snap.timeline, ChangeItem(op))]
  <2>1. snap.title \in 0 .. MaxOps /\ snap.status \in {"open", "closed"} /\ op.id \in 0 .. MaxOps
    BY <1>2, BoundAssumption DEF SnapRecord, Id
  <2>2. CASE op.kind = "title"
    <3>1. r = [[snap EXCEPT !.actors = as] EXCEPT
                 !.title = op.id, !.status = snap.status, !.labels = ls,
                 !.timeline = Append(snap.timeline, ChangeItem(op))]
      BY <2>2, <1>3 DEF ApplySnapshot, ApplySetTitle, SnapRecord
    <3>2. QED
      BY <3>1, <2>1
  <2>3. CASE op.kind = "status"
    <3>1. r = [[snap EXCEPT !.actors = as] EXCEPT
                 !.title = snap.title, !.status = op.status, !.labels = ls,
                 !.timeline = Append(snap.timeline, ChangeItem(op))]
      BY <2>3, <1>3 DEF ApplySnapshot, ApplySetStatus, SnapRecord
    <3>2. QED
      BY <3>1, <2>1, <1>2
  <2>4. CASE op.kind = "labels"
    <3>1. r = [[snap EXCEPT !.actors = as] EXCEPT
                 !.title = snap.title, !.status = snap.status, !.labels = ls,
                 !.timeline = Append(snap.timeline, ChangeItem(op))]
      BY <2>4, <1>3 DEF ApplySnapshot, ApplyLabelChange, SnapRecord
    <3>2. QED
      BY <3>1, <2>1
  <2>5. QED
    BY <2>2, <2>3, <2>4
<1> HIDE DEF r, ls
<1>8. r \in SnapRecord
  BY <1>5, <1>6, <1>7 DEF SnapRecord
<1>9. /\ r.ops = snap.ops /\ r.id = snap.id /\ r.labels = ls
      /\ r.comments = snap.comments /\ r.timeline = Append(snap.timeline, ChangeItem(op))
  BY <1>7 DEF SnapRecord
<1>10. QED
  BY <1>8, <1>9 DEF r, ls

(* The operations users make: labels are for those that change them.       *)
Op == {op \in OperationRecord : op.kind # "labels" => op.add = <<>> /\ op.remove = <<>>}

(* A label is on if its last mention adds it.                              *)
KeptIn(os, l) ==
  \E n \in 1 .. Len(os) :
    /\ Contains(os[n].add, l) /\ ~ Contains(os[n].remove, l)
    /\ \A m \in n + 1 .. Len(os) : ~ Contains(os[m].remove, l)
LabelsSound(snap) ==
  /\ Distinct(snap.labels) /\ Ascending(snap.labels)
  /\ \A l : Contains(snap.labels, l) <=> KeptIn(snap.ops, l)

(* f leads from the comments to their items in the timeline.               *)
CommentPlaces(items) == {k \in DOMAIN items : items[k].kind \in CommentKind}
Matches(f, comments, items) ==
  /\ f \in [1 .. Len(comments) -> CommentPlaces(items)]
  /\ \A m, n \in 1 .. Len(comments) : m < n => f[m] < f[n]
  /\ \A k \in CommentPlaces(items) : \E n \in 1 .. Len(comments) : f[n] = k
  /\ \A n \in 1 .. Len(comments) :
       /\ items[f[n]].id = comments[n].target
       /\ items[f[n]].message = comments[n].message
       /\ items[f[n]].message = Last(items[f[n]].history)
CommentsSound(snap) == \E f : Matches(f, snap.comments, snap.timeline)

LEMMA KeptInAppend ==
  ASSUME NEW os \in Seq(Op), NEW op \in Op, NEW l
  PROVE  KeptIn(Append(os, op), l) <=>
           (KeptIn(os, l) \/ Contains(op.add, l)) /\ ~ Contains(op.remove, l)
<1> DEFINE N == Len(os)
           t == Append(os, op)
<1>1. /\ N \in Nat /\ Len(t) = N + 1 /\ t[N + 1] = op
      /\ \A n \in 1 .. N : t[n] = os[n]
      /\ \A n : n \in 1 .. N + 1 <=> n \in 1 .. N \/ n = N + 1
  OBVIOUS
<1> HIDE DEF t
<1>2. ASSUME KeptIn(t, l)
      PROVE  (KeptIn(os, l) \/ Contains(op.add, l)) /\ ~ Contains(op.remove, l)
  <2>1. PICK n \in 1 .. N + 1 :
          /\ Contains(t[n].add, l) /\ ~ Contains(t[n].remove, l)
          /\ \A m \in n + 1 .. N + 1 : ~ Contains(t[m].remove, l)
    BY <1>1, <1>2 DEF KeptIn
  <2>2. CASE n = N + 1
    BY <2>1, <2>2, <1>1
  <2>3. CASE n \in 1 .. N
    <3>1. N + 1 \in n + 1 .. N + 1
      BY <2>3, <1>1
    <3>2. ~ Contains(op.remove, l)
      BY <2>1, <3>1, <1>1
    <3>3. \A m \in n + 1 .. N : m \in n + 1 .. N + 1 /\ t[m] = os[m]
      BY <2>3, <1>1
    <3>4. KeptIn(os, l)
      BY <2>1, <2>3, <3>3, <1>1 DEF KeptIn
    <3>5. QED
      BY <3>2, <3>4
  <2>4. QED
    BY <2>2, <2>3, <1>1
<1>3. ASSUME Contains(op.add, l), ~ Contains(op.remove, l)
      PROVE  KeptIn(t, l)
  <2>1. N + 1 \in 1 .. Len(t) /\ N + 1 + 1 .. Len(t) = {}
    BY <1>1
  <2>2. QED
    BY <2>1, <1>1, <1>3 DEF KeptIn
<1>4. ASSUME KeptIn(os, l), ~ Contains(op.remove, l)
      PROVE  KeptIn(t, l)
  <2>1. PICK n \in 1 .. N :
          /\ Contains(os[n].add, l) /\ ~ Contains(os[n].remove, l)
          /\ \A m \in n + 1 .. N : ~ Contains(os[m].remove, l)
    BY <1>4 DEF KeptIn
  <2>2. n \in 1 .. N + 1 /\ t[n] = os[n]
    BY <1>1
  <2>3. \A m \in n + 1 .. N + 1 : m = N + 1 \/ (m \in n + 1 .. N /\ t[m] = os[m])
    BY <1>1
  <2>4. \A m \in n + 1 .. N + 1 : ~ Contains(t[m].remove, l)
    BY <2>1, <2>3, <1>1, <1>4
  <2>5. QED
    BY <2>1, <2>2, <2>4, <1>1 DEF KeptIn
<1>5. QED
  BY <1>2, <1>3, <1>4 DEF t

(* A comment more at the end of both lists, and an item that is no comment. *)
LEMMA MatchesAppend ==
  ASSUME NEW cs \in Seq(CommentRecord), NEW items \in Seq(ItemRecord), NEW f,
         Matches(f, cs, items), NEW op \in OperationRecord, op.kind \in CommentKind
  PROVE  \E g : Matches(g, Append(cs, Comment(op)), Append(items, CommentItem(op)))
<1> DEFINE N == Len(cs)
           M == Len(items)
           c == Append(cs, Comment(op))
           i == Append(items, CommentItem(op))
           g == [n \in 1 .. N + 1 |-> IF n = N + 1 THEN M + 1 ELSE f[n]]
<1>1. /\ N \in Nat /\ Len(c) = N + 1 /\ c[N + 1] = Comment(op)
      /\ \A n \in 1 .. N : c[n] = cs[n]
      /\ \A n : n \in 1 .. N + 1 <=> n \in 1 .. N \/ n = N + 1
  OBVIOUS
<1>2. /\ M \in Nat /\ Len(i) = M + 1 /\ i[M + 1] = CommentItem(op)
      /\ \A n \in 1 .. M : i[n] = items[n]
      /\ DOMAIN items = 1 .. M /\ DOMAIN i = 1 .. M + 1
      /\ \A n : n \in 1 .. M + 1 <=> n \in 1 .. M \/ n = M + 1
  OBVIOUS
<1> HIDE DEF c, i
<1>3. /\ CommentItem(op).kind \in CommentKind
      /\ CommentItem(op).id = Comment(op).target
      /\ CommentItem(op).message = Comment(op).message
      /\ CommentItem(op).message = Last(CommentItem(op).history)
  BY DEF CommentItem, Comment, Last
<1>4. \A k : k \in CommentPlaces(i) <=> k \in CommentPlaces(items) \/ k = M + 1
  BY <1>2, <1>3 DEF CommentPlaces
<1>5. \A n \in 1 .. N : f[n] \in CommentPlaces(items) /\ f[n] \in 1 .. M
  BY <1>2 DEF Matches, CommentPlaces
<1>6. /\ g[N + 1] = M + 1 /\ \A n \in 1 .. N : g[n] = f[n]
      /\ g \in [1 .. N + 1 -> CommentPlaces(i)]
  BY <1>1, <1>4, <1>5
<1> HIDE DEF g
<1>7. ASSUME NEW m \in 1 .. N + 1, NEW n \in 1 .. N + 1, m < n
      PROVE  g[m] < g[n]
  <2>1. m \in 1 .. N
    BY <1>1, <1>7
  <2>2. CASE n = N + 1
    BY <2>1, <2>2, <1>2, <1>5, <1>6
  <2>3. CASE n \in 1 .. N
    BY <2>1, <2>3, <1>6, <1>7 DEF Matches
  <2>4. QED
    BY <2>2, <2>3, <1>1
<1>8. \A k \in CommentPlaces(i) : \E n \in 1 .. N + 1 : g[n] = k
  <2>1. \A k \in CommentPlaces(items) : \E n \in 1 .. N : f[n] = k
    BY DEF Matches
  <2>2. QED
    BY <2>1, <1>1, <1>4, <1>6
<1>9. ASSUME NEW n \in 1 .. N + 1
      PROVE  /\ i[g[n]].id = c[n].target
             /\ i[g[n]].message = c[n].message
             /\ i[g[n]].message = Last(i[g[n]].history)
  <2>1. CASE n = N + 1
    BY <2>1, <1>1, <1>2, <1>3, <1>6
  <2>2. CASE n \in 1 .. N
    <3>1. g[n] = f[n] /\ i[f[n]] = items[f[n]] /\ c[n] = cs[n]
      BY <2>2, <1>1, <1>2, <1>5, <1>6
    <3>2. QED
      BY <2>2, <3>1 DEF Matches
  <2>3. QED
    BY <2>1, <2>2, <1>1
<1>10. Matches(g, c, i)
  BY <1>1, <1>6, <1>7, <1>8, <1>9 DEF Matches
<1>11. QED
  BY <1>10 DEF c, i

LEMMA MatchesChange ==
  ASSUME NEW cs \in Seq(CommentRecord), NEW items \in Seq(ItemRecord), NEW f,
         Matches(f, cs, items), NEW op, op.kind \notin CommentKind
  PROVE  Matches(f, cs, Append(items, ChangeItem(op)))
<1> DEFINE N == Len(cs)
           M == Len(items)
           i == Append(items, ChangeItem(op))
<1>1. /\ M \in Nat /\ Len(i) = M + 1 /\ i[M + 1] = ChangeItem(op)
      /\ \A n \in 1 .. M : i[n] = items[n]
      /\ DOMAIN items = 1 .. M /\ DOMAIN i = 1 .. M + 1
      /\ \A n : n \in 1 .. M + 1 <=> n \in 1 .. M \/ n = M + 1
  OBVIOUS
<1> HIDE DEF i
<1>2. ChangeItem(op).kind \notin CommentKind
  BY DEF ChangeItem
<1>3. CommentPlaces(i) = CommentPlaces(items)
  BY <1>1, <1>2 DEF CommentPlaces
<1>4. \A n \in 1 .. N : i[f[n]] = items[f[n]]
  BY <1>1 DEF Matches, CommentPlaces
<1>5. Matches(f, cs, i)
  BY <1>3, <1>4 DEF Matches
<1>6. QED
  BY <1>5 DEF i

LEMMA MatchesEdit ==
  ASSUME NEW snap \in SnapRecord, NEW f, Matches(f, snap.comments, snap.timeline),
         NEW op \in OperationRecord
  PROVE  Matches(f, EditedComments(snap, op), EditedTimeline(snap, op))
<1> DEFINE cs == snap.comments
           items == snap.timeline
           c == EditedComments(snap, op)
           i == EditedTimeline(snap, op)
           N == Len(cs)
<1>1. cs \in Seq(CommentRecord) /\ items \in Seq(ItemRecord) /\ op.id \in Id
  BY DEF SnapRecord, OperationRecord, Id
<1>2. /\ N \in Nat /\ DOMAIN cs = 1 .. N /\ Len(c) = N /\ DOMAIN i = DOMAIN items
      /\ \A n \in 1 .. N : cs[n] \in CommentRecord
      /\ \A n \in 1 .. N : c[n] = IF cs[n].target = op.target
                                 THEN [cs[n] EXCEPT !.message = op.id] ELSE cs[n]
      /\ \A k \in DOMAIN items : items[k] \in ItemRecord
      /\ \A k \in DOMAIN items :
           i[k] = IF k \in Edited(snap, op) THEN EditItem(items[k], op) ELSE items[k]
  BY <1>1 DEF EditedComments, EditedTimeline
<1> HIDE DEF c, i
<1>3. \A k \in CommentPlaces(items) : items[k] \in CommentItemRecord
  BY <1>2 DEF CommentPlaces, CommentKind, ItemRecord, ChangeItemRecord
<1>4. \A k : k \in Edited(snap, op) <=> k \in CommentPlaces(items) /\ items[k].id = op.target
  BY DEF Edited, CommentPlaces, CommentKind
<1>5. ASSUME NEW k \in CommentPlaces(items)
      PROVE  /\ i[k].kind = items[k].kind /\ i[k].id = items[k].id
             /\ items[k].id = op.target =>
                  i[k].message = op.id /\ Last(i[k].history) = op.id
             /\ items[k].id # op.target => i[k] = items[k]
  <2>1. k \in DOMAIN items /\ items[k] \in CommentItemRecord
    BY <1>3 DEF CommentPlaces
  <2>2. CASE items[k].id = op.target
    <3>1. i[k] = [items[k] EXCEPT !.message = op.id, !.history = Append(items[k].history, op.id)]
      BY <2>1, <2>2, <1>2, <1>4 DEF EditItem
    <3>2. items[k].history \in Seq(Id)
      BY <2>1 DEF CommentItemRecord
    <3>3. Last(Append(items[k].history, op.id)) = op.id
      BY <3>2, <1>1 DEF Last
    <3>4. QED
      BY <2>1, <2>2, <3>1, <3>3 DEF CommentItemRecord
  <2>3. CASE items[k].id # op.target
    BY <2>1, <2>3, <1>2, <1>4
  <2>4. QED
    BY <2>2, <2>3
<1>6. CommentPlaces(i) = CommentPlaces(items)
  <2>1. \A k \in DOMAIN items : k \notin CommentPlaces(items) => i[k] = items[k]
    BY <1>2, <1>4
  <2>2. QED
    BY <2>1, <1>2, <1>5 DEF CommentPlaces
<1>7. ASSUME NEW n \in 1 .. N
      PROVE  /\ i[f[n]].id = c[n].target
             /\ i[f[n]].message = c[n].message
             /\ i[f[n]].message = Last(i[f[n]].history)
  <2>1. /\ f[n] \in CommentPlaces(items) /\ items[f[n]].id = cs[n].target
        /\ items[f[n]].message = cs[n].message
        /\ items[f[n]].message = Last(items[f[n]].history)
    BY DEF Matches
  <2>2. CASE cs[n].target = op.target
    <3>1. c[n].target = cs[n].target /\ c[n].message = op.id
      BY <2>2, <1>2 DEF CommentRecord
    <3>2. QED
      BY <2>1, <2>2, <3>1, <1>5
  <2>3. CASE cs[n].target # op.target
    BY <2>1, <2>3, <1>2, <1>5
  <2>4. QED
    BY <2>2, <2>3
<1>8. Matches(f, c, i)
  BY <1>2, <1>6, <1>7 DEF Matches
<1>9. QED
  BY <1>8 DEF c, i

Sound(v) ==
  /\ v \in ViewRecord /\ v.snap.ops \in Seq(Op)
  /\ LabelsSound(v.snap) /\ CommentsSound(v.snap)

LEMMA BlankSound ==
  ASSUME NEW id \in 0 .. MaxOps, NEW extra \in [Id -> 0 .. MaxOps]
  PROVE  Sound(View(Blank(id), extra)) /\ View(Blank(id), extra).snap.ops = <<>>
<1> DEFINE b == Blank(id)
<1>1. b \in SnapRecord
  BY BoundAssumption DEF Blank, SnapRecord, None
<1>2. View(b, extra) \in ViewRecord /\ View(b, extra).snap = b
  BY <1>1 DEF View, ViewRecord
<1>3. b.labels = <<>> /\ b.ops = <<>> /\ b.comments = <<>> /\ b.timeline = <<>>
  BY DEF Blank
<1> HIDE DEF b
<1>4. LabelsSound(b)
  BY <1>3 DEF LabelsSound, KeptIn, Distinct, Ascending, Contains
<1>5. CommentsSound(b)
  <2>1. Matches([n \in 1 .. 0 |-> 0], <<>>, <<>>)
    BY DEF Matches, CommentPlaces
  <2>2. QED
    BY <2>1, <1>3 DEF CommentsSound
<1>6. QED
  BY <1>2, <1>3, <1>4, <1>5 DEF Sound, b

(* The snapshot before the operation is listed.                            *)
LEMMA SnapshotSound ==
  ASSUME NEW snap \in SnapRecord, LabelsSound(snap), CommentsSound(snap), NEW op \in Op
  PROVE  LET r == ApplySnapshot(snap, op) IN
         /\ r \in SnapRecord /\ r.ops = snap.ops /\ CommentsSound(r)
         /\ r.labels = IF op.kind = "labels" THEN ChangeSet(snap.labels, op) ELSE snap.labels
         /\ op.kind # "create" => r.id = snap.id
<1> DEFINE r == ApplySnapshot(snap, op)
           cs == snap.comments
           items == snap.timeline
<1>1. op \in OperationRecord /\ Distinct(snap.labels)
  BY DEF Op, LabelsSound
<1>2. PICK f : Matches(f, cs, items)
  BY DEF CommentsSound
<1>3. cs \in Seq(CommentRecord) /\ items \in Seq(ItemRecord)
  BY DEF SnapRecord
<1> HIDE DEF r
<1>4. CASE op.kind = "create"
  <2>1. CASE Fresh(snap, op)
    <3>1. /\ r \in SnapRecord /\ r.ops = snap.ops /\ r.labels = snap.labels
          /\ r.comments = <<Comment(op)>> /\ r.timeline = <<CommentItem(op)>>
      BY <1>1, <1>4, <2>1, CreateFacts DEF r
    <3>2. Matches([n \in 1 .. 0 |-> 0], <<>>, <<>>)
      BY DEF Matches, CommentPlaces
    <3>3. <<>> \in Seq(CommentRecord) /\ <<>> \in Seq(ItemRecord) /\ op.kind \in CommentKind
      BY <1>4 DEF CommentKind
    <3>4. \E g : Matches(g, Append(<<>>, Comment(op)), Append(<<>>, CommentItem(op)))
      BY <1>1, <3>2, <3>3, MatchesAppend
    <3>5. Append(<<>>, Comment(op)) = <<Comment(op)>> /\ Append(<<>>, CommentItem(op)) = <<CommentItem(op)>>
      OBVIOUS
    <3>6. CommentsSound(r)
      BY <3>1, <3>4, <3>5 DEF CommentsSound
    <3>7. QED
      BY <1>4, <3>1, <3>6 DEF r
  <2>2. CASE ~ Fresh(snap, op)
    BY <1>1, <1>4, <2>2, CreateFacts
  <2>3. QED
    BY <2>1, <2>2
<1>5. CASE op.kind = "comment"
  <2>1. /\ r \in SnapRecord /\ r.ops = snap.ops /\ r.labels = snap.labels /\ r.id = snap.id
        /\ r.comments = Append(cs, Comment(op)) /\ r.timeline = Append(items, CommentItem(op))
    BY <1>1, <1>5, AddCommentFacts DEF r
  <2>2. \E g : Matches(g, Append(cs, Comment(op)), Append(items, CommentItem(op)))
    BY <1>1, <1>2, <1>3, <1>5, MatchesAppend DEF CommentKind
  <2>3. CommentsSound(r)
    BY <2>1, <2>2 DEF CommentsSound
  <2>4. QED
    BY <1>5, <2>1, <2>3 DEF r
<1>6. CASE op.kind = "edit"
  <2>1. CASE Edited(snap, op) = {}
    <3>1. r = snap
      BY <1>1, <1>6, <2>1, EditFacts DEF r
    <3>2. QED
      BY <1>6, <3>1 DEF r
  <2>2. CASE Edited(snap, op) # {}
    <3>1. /\ r \in SnapRecord /\ r.ops = snap.ops /\ r.labels = snap.labels /\ r.id = snap.id
          /\ r.comments = EditedComments(snap, op) /\ r.timeline = EditedTimeline(snap, op)
      BY <1>1, <1>6, <2>2, EditFacts DEF r
    <3>2. Matches(f, EditedComments(snap, op), EditedTimeline(snap, op))
      BY <1>1, <1>2, MatchesEdit
    <3>3. CommentsSound(r)
      BY <3>1, <3>2 DEF CommentsSound
    <3>4. QED
      BY <1>6, <3>1, <3>3 DEF r
  <2>3. QED
    BY <2>1, <2>2
<1>7. CASE op.kind \in {"title", "status", "labels"}
  <2>1. /\ r \in SnapRecord /\ r.ops = snap.ops /\ r.id = snap.id
        /\ r.labels = IF op.kind = "labels" THEN ChangeSet(snap.labels, op) ELSE snap.labels
        /\ r.comments = cs /\ r.timeline = Append(items, ChangeItem(op))
    BY <1>1, <1>7, ChangeFacts DEF r
  <2>2. Matches(f, cs, Append(items, ChangeItem(op)))
    BY <1>2, <1>3, <1>7, MatchesChange DEF CommentKind
  <2>3. CommentsSound(r)
    BY <2>1, <2>2 DEF CommentsSound
  <2>4. QED
    BY <2>1, <2>3 DEF r
<1>8. CASE op.kind \in {"metadata", "noop", "unknown"}
  <2>1. r = snap
    BY <1>8 DEF ApplySnapshot, r
  <2>2. QED
    BY <1>8, <2>1 DEF r
<1>9. op.kind \in {"create", "comment", "edit", "title", "status", "labels", "metadata", "noop",
                   "unknown"}
  BY <1>1 DEF OperationRecord
<1>10. QED
  BY <1>4, <1>5, <1>6, <1>7, <1>8, <1>9

LEMMA ApplySound ==
  ASSUME NEW v, Sound(v), NEW op \in Op
  PROVE  /\ Sound(Apply(v, op)) /\ Apply(v, op).snap.ops = Append(v.snap.ops, op)
         /\ Apply(v, op).extra =
              IF op.kind = "metadata" THEN ApplySetMetadata(v, op) ELSE v.extra
<1> DEFINE r == ApplySnapshot(v.snap, op)
           q == [r EXCEPT !.ops = Append(@, op)]
           e == IF op.kind = "metadata" THEN ApplySetMetadata(v, op) ELSE v.extra
<1>1. /\ v.snap \in SnapRecord /\ v.extra \in [Id -> 0 .. MaxOps] /\ v.snap.ops \in Seq(Op)
      /\ LabelsSound(v.snap) /\ CommentsSound(v.snap)
  BY DEF Sound, ViewRecord
<1>2. /\ r \in SnapRecord /\ r.ops = v.snap.ops /\ CommentsSound(r)
      /\ r.labels = IF op.kind = "labels" THEN ChangeSet(v.snap.labels, op) ELSE v.snap.labels
  BY <1>1, SnapshotSound
<1>3. Apply(v, op) = View(q, e)
  BY DEF Apply
<1> HIDE DEF r
<1>4. /\ op \in OperationRecord /\ op.id \in 0 .. MaxOps /\ op.add \in Seq(Label)
      /\ op.remove \in Seq(Label)
  BY BoundAssumption DEF Op, OperationRecord
<1>5. e \in [Id -> 0 .. MaxOps]
  BY <1>1, <1>4 DEF ApplySetMetadata
<1>6. /\ q \in SnapRecord /\ q.ops = Append(v.snap.ops, op) /\ q.labels = r.labels
      /\ q.comments = r.comments /\ q.timeline = r.timeline
  <2>1. Append(r.ops, op) \in Seq(OperationRecord)
    BY <1>2, <1>4 DEF SnapRecord
  <2>2. QED
    BY <1>2, <2>1 DEF SnapRecord
<1> HIDE DEF q, e
<1>7. LabelsSound(q)
  <2>1. \A l : KeptIn(q.ops, l) <=>
               (KeptIn(v.snap.ops, l) \/ Contains(op.add, l)) /\ ~ Contains(op.remove, l)
    BY <1>1, <1>6, KeptInAppend
  <2>2. CASE op.kind = "labels"
    <3>1. v.snap.labels \in Seq(Label) /\ Distinct(v.snap.labels)
      BY <1>1 DEF SnapRecord, LabelsSound
    <3>2. /\ Distinct(q.labels) /\ Ascending(q.labels)
          /\ \A y : Contains(q.labels, y) <=>
                (Contains(v.snap.labels, y) \/ Contains(op.add, y)) /\ ~ Contains(op.remove, y)
      BY <1>2, <1>4, <1>6, <2>2, <3>1, ChangeSetFacts
    <3>3. QED
      BY <2>1, <3>2, <1>1 DEF LabelsSound
  <2>3. CASE op.kind # "labels"
    <3>1. \A l : ~ Contains(op.add, l) /\ ~ Contains(op.remove, l)
      BY <2>3 DEF Op, Contains
    <3>2. QED
      BY <2>1, <2>3, <3>1, <1>1, <1>2, <1>6 DEF LabelsSound
  <2>4. QED
    BY <2>2, <2>3
<1>8. CommentsSound(q)
  BY <1>2, <1>6 DEF CommentsSound
<1>9. View(q, e) \in ViewRecord /\ View(q, e).snap = q /\ View(q, e).extra = e
  BY <1>5, <1>6 DEF View, ViewRecord
<1>10. q.ops \in Seq(Op)
  BY <1>1, <1>6
<1>11. Sound(View(q, e))
  BY <1>7, <1>8, <1>9, <1>10 DEF Sound
<1>12. QED
  BY <1>3, <1>6, <1>9, <1>11 DEF e

(* Every view on the way is sound, and lists what was applied.             *)
LEMMA CompileSound ==
  ASSUME NEW s \in Seq(Op), s # <<>>, NEW extra \in [Id -> 0 .. MaxOps], NEW v,
         Compiles(v, s, extra), NEW n \in 0 .. Len(s)
  PROVE  /\ Sound(v[n]) /\ Len(v[n].snap.ops) = n
         /\ \A k \in 1 .. n : v[n].snap.ops[k] = s[k]
<1> DEFINE N == Len(s)
           G == {k \in 0 .. N : /\ Sound(v[k]) /\ Len(v[k].snap.ops) = k
                               /\ \A i \in 1 .. k : v[k].snap.ops[i] = s[i]}
<1>1. N \in Nat /\ \A k \in 1 .. N : s[k] \in Op
  OBVIOUS
<1>2. 0 \in G
  <2>1. Head(s) \in Op
    OBVIOUS
  <2>2. Head(s).id \in 0 .. MaxOps
    BY <2>1, BoundAssumption DEF Op, OperationRecord
  <2>3. Sound(v[0]) /\ v[0].snap.ops = <<>>
    BY <2>2, BlankSound DEF Compiles
  <2>4. QED
    BY <1>1, <2>3
<1>3. ASSUME NEW k \in 1 .. N, k - 1 \in G
      PROVE  k \in G
  <2>1. v[k] = Apply(v[k - 1], s[k]) /\ s[k] \in Op /\ Sound(v[k - 1])
    BY <1>1, <1>3 DEF Compiles
  <2>2. Sound(v[k]) /\ v[k].snap.ops = Append(v[k - 1].snap.ops, s[k])
    BY <2>1, ApplySound
  <2> DEFINE os == v[k - 1].snap.ops
  <2>3. os \in Seq(Op) /\ Len(os) = k - 1 /\ \A i \in 1 .. k - 1 : os[i] = s[i]
    BY <1>3 DEF Sound
  <2> HIDE DEF os
  <2>4. /\ Len(Append(os, s[k])) = k /\ Append(os, s[k])[k] = s[k]
        /\ \A i \in 1 .. k - 1 : Append(os, s[k])[i] = s[i]
    BY <2>1, <2>3, <1>1
  <2>5. \A i \in 1 .. k : i \in 1 .. k - 1 \/ i = k
    BY <1>1
  <2>6. k \in 0 .. N
    BY <1>1
  <2>7. QED
    BY <2>2, <2>4, <2>5, <2>6 DEF os
<1>4. \A k \in 0 .. N : k \in G
  <2> HIDE DEF G
  <2>1. QED
    BY <1>1, <1>2, <1>3, Reached
<1>5. QED
  BY <1>4

LEMMA CompiledSound ==
  ASSUME NEW s \in Seq(Op), s # <<>>, NEW extra \in [Id -> 0 .. MaxOps]
  PROVE  Sound(Compile(s, extra)) /\ Compile(s, extra).snap.ops = s
<1>1. Len(s) \in Nat
  OBVIOUS
<1>2. PICK v : Compiles(v, s, extra) /\ Compile(s, extra) = v[Len(s)]
  BY <1>1, CompileSteps
<1> DEFINE os == v[Len(s)].snap.ops
<1>3. Sound(v[Len(s)]) /\ Len(os) = Len(s) /\ \A k \in 1 .. Len(s) : os[k] = s[k]
  <2>1. Len(s) \in 0 .. Len(s)
    BY <1>1
  <2>2. QED
    BY <1>2, <2>1, CompileSound
<1>4. os \in Seq(Op)
  BY <1>3 DEF Sound
<1> HIDE DEF os
<1>5. os = s
  BY <1>3, <1>4, SeqEqual
<1>6. QED
  BY <1>2, <1>3, <1>5 DEF os

(* Metadata once left on an operation stay as they are.                    *)
LEMMA ExtraStays ==
  ASSUME NEW v, Sound(v), NEW op \in Op, NEW t \in Id
  PROVE  /\ v.extra[t] # None => Apply(v, op).extra[t] # None
         /\ op.kind = "metadata" /\ op.target = t /\ (\E o \in Range(v.snap.ops) : o.id = t)
              => Apply(v, op).extra[t] # None
<1>1. Apply(v, op).extra = IF op.kind = "metadata" THEN ApplySetMetadata(v, op) ELSE v.extra
  BY ApplySound
<1>2. v.extra \in [Id -> 0 .. MaxOps] /\ op.id # None
  BY DEF Sound, ViewRecord, Op, OperationRecord, None
<1>3. QED
  BY <1>1, <1>2 DEF ApplySetMetadata

(* Operations that are compiled again, with the metadata they bear from    *)
(* the last time, give the same view.                                      *)
LEMMA CompileAgain ==
  ASSUME NEW s \in Seq(Op), s # <<>>, NEW extra \in [Id -> 0 .. MaxOps]
  PROVE  Compile(s, Compile(s, extra).extra) = Compile(s, extra)
<1> DEFINE N == Len(s)
           last == Compile(s, extra).extra
<1>1. N \in Nat /\ \A k \in 1 .. N : s[k] \in Op
  OBVIOUS
<1>2. PICK v : Compiles(v, s, extra) /\ Compile(s, extra) = v[N]
  BY <1>1, CompileSteps
<1>3. PICK w : Compiles(w, s, last) /\ Compile(s, last) = w[N]
  BY <1>1, CompileSteps
<1>4. last \in [Id -> 0 .. MaxOps]
  BY CompiledSound DEF Sound, ViewRecord
<1> HIDE DEF last
<1>5. \A n \in 0 .. N : Sound(v[n]) /\ Sound(w[n])
  BY <1>2, <1>3, <1>4, CompileSound
<1>6. last = v[N].extra
  BY <1>2 DEF last
<1>7. ASSUME NEW n \in 0 .. N, NEW t \in Id, v[n].extra[t] # None
      PROVE  last[t] # None
  <2> DEFINE G == {k \in 0 .. N - n : v[n + k].extra[t] # None}
  <2>1. 0 \in G
    BY <1>1, <1>7
  <2>2. ASSUME NEW k \in 1 .. N - n, k - 1 \in G
        PROVE  k \in G
    <3>1. n + k \in 1 .. N /\ n + k - 1 \in 0 .. N /\ n + (k - 1) = n + k - 1
      BY <1>1
    <3>2. v[n + k] = Apply(v[n + k - 1], s[n + k]) /\ s[n + k] \in Op /\ Sound(v[n + k - 1])
      BY <3>1, <1>1, <1>2, <1>5 DEF Compiles
    <3>3. v[n + k - 1].extra[t] # None
      BY <2>2, <3>1
    <3>4. v[n + k].extra[t] # None
      BY <3>2, <3>3, ExtraStays
    <3>5. k \in 0 .. N - n
      BY <1>1
    <3>6. QED
      BY <3>4, <3>5
  <2>3. N - n \in Nat /\ N - n \in 0 .. N - n
    BY <1>1
  <2> HIDE DEF G
  <2>4. \A k \in 0 .. N - n : k \in G
    BY <2>1, <2>2, <2>3, Reached
  <2>5. N - n \in G /\ n + (N - n) = N
    BY <2>3, <2>4, <1>1
  <2>6. QED
    BY <2>5, <1>6 DEF G
<1> DEFINE H == {k \in 0 .. N : w[k].snap = v[k].snap /\ w[k].extra = last}
<1>8. 0 \in H
  BY <1>1, <1>2, <1>3 DEF Compiles, View
<1>9. ASSUME NEW k \in 1 .. N, k - 1 \in H
      PROVE  k \in H
  <2> DEFINE op == s[k]
             a == v[k - 1]
             b == w[k - 1]
  <2>1. /\ v[k] = Apply(a, op) /\ w[k] = Apply(b, op) /\ op \in Op
        /\ k - 1 \in 0 .. N /\ k \in 0 .. N
    BY <1>1, <1>2, <1>3 DEF Compiles
  <2>2. Sound(a) /\ Sound(b) /\ a.snap = b.snap /\ b.extra = last
    BY <2>1, <1>5, <1>9
  <2> HIDE DEF op, a, b
  <2>3. v[k].snap = w[k].snap
    BY <2>1, <2>2 DEF Apply, View
  <2>4. w[k].extra = IF op.kind = "metadata" THEN ApplySetMetadata(b, op) ELSE last
    BY <2>1, <2>2, ApplySound
  <2>5. CASE op.kind = "metadata" /\ \E o \in Range(b.snap.ops) : o.id = op.target
    <3>1. op.target \in Id
      <4>1. PICK o \in Range(b.snap.ops) : o.id = op.target
        BY <2>5
      <4>2. b.snap.ops \in Seq(Op)
        BY <2>2 DEF Sound
      <4>3. o \in Op
        BY <4>1, <4>2, RangeOfSeq
      <4>4. QED
        BY <4>1, <4>3 DEF Op, OperationRecord, Id
    <3>2. v[k].extra[op.target] # None
      BY <2>1, <2>2, <2>5, <3>1, ExtraStays
    <3>3. last[op.target] # None
      BY <2>1, <3>1, <3>2, <1>7
    <3>4. w[k].extra = last
      BY <2>2, <2>4, <2>5, <3>3 DEF ApplySetMetadata
    <3>5. QED
      BY <2>1, <2>3, <3>4
  <2>6. CASE ~ (op.kind = "metadata" /\ \E o \in Range(b.snap.ops) : o.id = op.target)
    <3>1. w[k].extra = last
      BY <2>2, <2>4, <2>6 DEF ApplySetMetadata
    <3>2. QED
      BY <2>1, <2>3, <3>1
  <2>7. QED
    BY <2>5, <2>6
<1>10. \A k \in 0 .. N : k \in H
  <2> HIDE DEF H
  <2>1. QED
    BY <1>1, <1>8, <1>9, Reached
<1>11. N \in 0 .. N /\ N \in H
  BY <1>1, <1>10
<1>12. w[N] = v[N]
  <2>1. v[N] \in ViewRecord /\ w[N] \in ViewRecord
    BY <1>5, <1>11 DEF Sound
  <2>2. w[N].snap = v[N].snap /\ w[N].extra = v[N].extra
    BY <1>6, <1>11
  <2>3. ASSUME NEW a \in ViewRecord, NEW b \in ViewRecord, a.snap = b.snap, a.extra = b.extra
        PROVE  a = b
    BY <2>3 DEF ViewRecord
  <2>4. QED
    BY <2>1, <2>2, <2>3
<1>13. QED
  BY <1>2, <1>3, <1>12 DEF last
------------------------------------------------------------------------------
(* The order of the operations of a history.                               *)

PackRecord ==
  [parents : Seq(Nat), ops : SUBSET Nat, edit : Nat, root : BOOLEAN, hist : SUBSET Nat]

(* A commit comes after all it was built on, and an operation is in one    *)
(* pack.                                                                   *)
DagShape(d) ==
  /\ d \in Seq(PackRecord) /\ Len(d) > 0 /\ d[1].ops = {1}
  /\ \A c \in 1 .. Len(d) : d[c].hist \subseteq 1 .. c /\ c \in d[c].hist /\ 1 \in d[c].hist
  /\ \A c \in 1 .. Len(d) : \A e \in d[c].hist :
       d[e].hist \subseteq d[c].hist /\ (e # c => d[e].edit < d[c].edit)
  /\ \A c, e \in 1 .. Len(d) : c # e => d[c].ops \cap d[e].ops = {}

IdShape(d, id) ==
  id \in Seq(Int) /\ Len(id) = Len(d) /\ \A c \in 1 .. Len(d) : id[c] = c \/ id[c] = - c

(* What edits and metadata are for was there before them.                  *)
OpsShape(os) ==
  /\ os \in Seq(Op) /\ Len(os) \in 1 .. MaxOps
  /\ \A o \in 1 .. Len(os) :
       /\ os[o].id = o
       /\ os[o].kind = "create" <=> o = 1
       /\ os[o].kind \in {"edit", "metadata"} => os[o].target \in 1 .. o - 1
       /\ os[o].kind = "edit" => os[os[o].target].kind \in CommentKind

Causal(d, os) ==
  \A c \in 1 .. Len(d) : \A o \in d[c].ops :
    /\ o \in 1 .. Len(os)
    /\ os[o].kind \in {"edit", "metadata"} => os[o].target \in OpsAt(d, c)

PackOf(d, tip) == [o \in OpsAt(d, tip) |-> CHOOSE c \in History(d, tip) : o \in d[c].ops]
OrderOf(d, id, tip) ==
  {r \in OpsAt(d, tip) \X OpsAt(d, tip) : Before(r[1], r[2], PackOf(d, tip), d, id)}

LEMMA OrderIs ==
  ASSUME NEW d, NEW id, NEW tip
  PROVE  /\ Order(d, id, tip) = InOrder(OpsAt(d, tip), OrderOf(d, id, tip))
         /\ \A o, p : <<o, p>> \in OrderOf(d, id, tip) <=>
              /\ o \in OpsAt(d, tip) /\ p \in OpsAt(d, tip)
              /\ Before(o, p, PackOf(d, tip), d, id)
<1>1. Order(d, id, tip) = InOrder(OpsAt(d, tip), OrderOf(d, id, tip))
  BY DEF Order, OrderOf, PackOf
<1>2. QED
  BY <1>1 DEF OrderOf

LEMMA PackOfFacts ==
  ASSUME NEW d, DagShape(d), NEW tip \in 1 .. Len(d)
  PROVE  /\ History(d, tip) = d[tip].hist /\ History(d, tip) \subseteq 1 .. Len(d)
         /\ \A o \in OpsAt(d, tip) :
              PackOf(d, tip)[o] \in History(d, tip) /\ o \in d[PackOf(d, tip)[o]].ops
         /\ \A c \in 1 .. Len(d), o \in OpsAt(d, tip) : o \in d[c].ops => PackOf(d, tip)[o] = c
<1>0. tip \in Nat /\ tip # 0 /\ Len(d) \in Nat /\ tip <= Len(d)
  BY DEF DagShape
<1>1. History(d, tip) = d[tip].hist
  BY <1>0 DEF History
<1>2. History(d, tip) \subseteq 1 .. Len(d)
  <2>1. d[tip].hist \subseteq 1 .. tip
    BY DEF DagShape
  <2>2. QED
    BY <1>0, <1>1, <2>1
<1>3. ASSUME NEW o \in OpsAt(d, tip)
      PROVE  PackOf(d, tip)[o] \in History(d, tip) /\ o \in d[PackOf(d, tip)[o]].ops
  <2>1. \E c \in History(d, tip) : o \in d[c].ops
    BY DEF OpsAt
  <2>2. PackOf(d, tip)[o] = CHOOSE c \in History(d, tip) : o \in d[c].ops
    BY DEF PackOf
  <2>3. QED
    BY <2>1, <2>2
<1>4. ASSUME NEW c \in 1 .. Len(d), NEW o \in OpsAt(d, tip), o \in d[c].ops
      PROVE  PackOf(d, tip)[o] = c
  BY <1>2, <1>3, <1>4 DEF DagShape
<1>5. QED
  BY <1>1, <1>2, <1>3, <1>4

LEMMA OrderStrict ==
  ASSUME NEW d, DagShape(d), NEW id, IdShape(d, id), NEW tip \in 1 .. Len(d)
  PROVE  StrictOrder(OpsAt(d, tip), OrderOf(d, id, tip))
<1> DEFINE S == OpsAt(d, tip)
           R == OrderOf(d, id, tip)
           pack == PackOf(d, tip)
           edit(o) == d[pack[o]].edit
           name(o) == id[pack[o]]
<1>1. ASSUME NEW o \in S
      PROVE  o \in Nat /\ edit(o) \in Nat /\ name(o) \in Int /\ pack[o] \in 1 .. Len(d)
  <2>1. pack[o] \in 1 .. Len(d) /\ o \in d[pack[o]].ops
    BY PackOfFacts
  <2>2. d[pack[o]] \in PackRecord
    BY <2>1 DEF DagShape
  <2>3. QED
    BY <2>1, <2>2 DEF PackRecord, IdShape
<1>2. \A o, p \in S : name(o) = name(p) => pack[o] = pack[p]
  <2> SUFFICES ASSUME NEW o \in S, NEW p \in S, name(o) = name(p)
               PROVE  pack[o] = pack[p]
    OBVIOUS
  <2> DEFINE a == pack[o]
             b == pack[p]
  <2>1. a \in 1 .. Len(d) /\ b \in 1 .. Len(d)
    BY <1>1
  <2> HIDE DEF a, b
  <2>2. (id[a] = a \/ id[a] = - a) /\ (id[b] = b \/ id[b] = - b) /\ a \in Nat /\ b \in Nat
    BY <2>1 DEF IdShape
  <2>3. id[a] = id[b]
    BY DEF a, b
  <2>4. a = b
    BY <2>1, <2>2, <2>3
  <2>5. QED
    BY <2>4 DEF a, b
<1>3. \A o, p \in S : pack[o] = pack[p] => edit(o) = edit(p) /\ name(o) = name(p)
  OBVIOUS
<1>4. \A o, p \in S : <<o, p>> \in R <=>
        \/ edit(o) < edit(p)
        \/ edit(o) = edit(p) /\ name(o) < name(p)
        \/ pack[o] = pack[p] /\ o < p
  BY OrderIs DEF Before
<1> HIDE DEF S, R, pack, edit, name
<1>5. \A o \in S : <<o, o>> \notin R
  BY <1>1, <1>4
<1>6. ASSUME NEW o \in S, NEW p \in S, o # p
      PROVE  <<o, p>> \in R \/ <<p, o>> \in R
  BY <1>1, <1>2, <1>4, <1>6
<1>7. ASSUME NEW o \in S, NEW p \in S, NEW q \in S, <<o, p>> \in R, <<p, q>> \in R
      PROVE  <<o, q>> \in R
  <2>1. /\ o \in Nat /\ p \in Nat /\ q \in Nat /\ edit(o) \in Nat /\ edit(p) \in Nat /\ edit(q) \in Nat
        /\ name(o) \in Int /\ name(p) \in Int /\ name(q) \in Int
    BY <1>1
  <2>2. /\ \/ edit(o) < edit(p)
           \/ edit(o) = edit(p) /\ name(o) < name(p)
           \/ pack[o] = pack[p] /\ o < p
        /\ \/ edit(p) < edit(q)
           \/ edit(p) = edit(q) /\ name(p) < name(q)
           \/ pack[p] = pack[q] /\ p < q
    BY <1>4, <1>7
  <2>3. /\ pack[o] = pack[p] => edit(o) = edit(p) /\ name(o) = name(p)
        /\ pack[p] = pack[q] => edit(p) = edit(q) /\ name(p) = name(q)
    BY <1>3
  <2>4. \/ edit(o) < edit(q)
        \/ edit(o) = edit(q) /\ name(o) < name(q)
        \/ pack[o] = pack[q] /\ o < q
    BY <2>1, <2>2, <2>3
  <2>5. QED
    BY <2>4, <1>4
<1>8. QED
  BY <1>5, <1>6, <1>7 DEF StrictOrder, S, R

LEMMA OrderFacts ==
  ASSUME NEW d, DagShape(d), NEW id, IdShape(d, id), NEW os, OpsShape(os), Causal(d, os),
         NEW tip \in 1 .. Len(d)
  PROVE  LET order == Order(d, id, tip) IN
         /\ OpsAt(d, tip) \subseteq 1 .. Len(os)
         /\ order \in Seq(OpsAt(d, tip))
         /\ \A o \in OpsAt(d, tip) : \E n \in 1 .. Len(order) : order[n] = o
         /\ \A m, n \in 1 .. Len(order) :
              m < n => <<order[m], order[n]>> \in OrderOf(d, id, tip)
<1> DEFINE S == OpsAt(d, tip)
<1>1. S \subseteq 1 .. Len(os)
  BY PackOfFacts DEF OpsAt, Causal
<1>2. IsFiniteSet(S)
  <2>1. IsFiniteSet(1 .. Len(os)) /\ S \in SUBSET (1 .. Len(os))
    BY <1>1, FS_Interval DEF OpsShape
  <2>2. QED
    BY <2>1, FS_Subset
<1> HIDE DEF S
<1>3. StrictOrder(S, OrderOf(d, id, tip))
  BY OrderStrict DEF S
<1>4. Order(d, id, tip) = InOrder(S, OrderOf(d, id, tip))
  BY OrderIs DEF S
<1> DEFINE order == InOrder(S, OrderOf(d, id, tip))
<1>5. /\ order \in Seq(S) /\ Len(order) = Cardinality(S)
      /\ \A x \in S : \E n \in 1 .. Cardinality(S) : order[n] = x
      /\ \A m, n \in 1 .. Cardinality(S) :
           m < n => <<order[m], order[n]>> \in OrderOf(d, id, tip)
  BY <1>2, <1>3, InOrderFacts
<1>6. QED
  BY <1>1, <1>4, <1>5 DEF S

(* Where an operation is before another, it is earlier in the order.       *)
LEMMA OrderPlaces ==
  ASSUME NEW d, DagShape(d), NEW id, IdShape(d, id), NEW os, OpsShape(os), Causal(d, os),
         NEW tip \in 1 .. Len(d), NEW o \in OpsAt(d, tip), NEW p \in OpsAt(d, tip),
         Before(o, p, PackOf(d, tip), d, id)
  PROVE  LET order == Order(d, id, tip) IN
         \E m, n \in 1 .. Len(order) : order[m] = o /\ order[n] = p /\ m < n
<1> DEFINE order == Order(d, id, tip)
           R == OrderOf(d, id, tip)
<1>1. /\ \A x \in OpsAt(d, tip) : \E n \in 1 .. Len(order) : order[n] = x
      /\ \A m, n \in 1 .. Len(order) : m < n => <<order[m], order[n]>> \in R
      /\ Len(order) \in Nat
  BY OrderFacts
<1>2. <<o, p>> \in R
  BY OrderIs
<1>3. StrictOrder(OpsAt(d, tip), R)
  BY OrderStrict
<1> HIDE DEF order, R
<1>4. PICK m \in 1 .. Len(order), n \in 1 .. Len(order) : order[m] = o /\ order[n] = p
  BY <1>1
<1>5. o # p /\ <<p, o>> \notin R
  BY <1>2, <1>3 DEF StrictOrder
<1>6. m # n /\ ~ n < m
  BY <1>1, <1>4, <1>5
<1>7. m < n
  BY <1>1, <1>6
<1>8. QED
  BY <1>4, <1>7 DEF order
------------------------------------------------------------------------------
(* A commit more.                                                          *)

(* What is on top of the commits of d: a commit of the given parents.      *)
Fits(d, p) ==
  /\ p.parents \in Seq(1 .. Len(d)) /\ p.parents # <<>>
  /\ p.ops \in SUBSET Nat /\ p.edit \in Nat /\ p.root = FALSE
  /\ p.hist = {Len(d) + 1} \union UNION {d[p.parents[i]].hist : i \in DOMAIN p.parents}
  /\ \A i \in DOMAIN p.parents : d[p.parents[i]].edit < p.edit
  /\ \A c \in 1 .. Len(d) : d[c].ops \cap p.ops = {}

LEMMA DagGrows ==
  ASSUME NEW d, DagShape(d), NEW p \in PackRecord, Fits(d, p)
  PROVE  DagShape(Append(d, p))
<1> DEFINE e == Append(d, p)
           N == Len(d)
<1>1. /\ e \in Seq(PackRecord) /\ N \in Nat /\ N > 0 /\ Len(e) = N + 1 /\ e[N + 1] = p
      /\ \A c \in 1 .. N : e[c] = d[c] /\ d[c] \in PackRecord
      /\ \A c : c \in 1 .. N + 1 <=> c \in 1 .. N \/ c = N + 1
  BY DEF DagShape
<1> HIDE DEF e
<1>2. /\ \A c \in 1 .. N : d[c].hist \subseteq 1 .. c /\ c \in d[c].hist /\ 1 \in d[c].hist
      /\ \A c \in 1 .. N : \A f \in d[c].hist :
           d[f].hist \subseteq d[c].hist /\ (f # c => d[f].edit < d[c].edit)
  BY DEF DagShape
<1>3. ASSUME NEW i \in DOMAIN p.parents
      PROVE  p.parents[i] \in 1 .. N /\ d[p.parents[i]].edit < p.edit
  BY DEF Fits
<1>4. ASSUME NEW f \in p.hist
      PROVE  \/ f = N + 1
             \/ /\ f \in 1 .. N /\ d[f].hist \subseteq p.hist /\ d[f].edit < p.edit
  <2>1. CASE f # N + 1
    <3>1. PICK i \in DOMAIN p.parents : f \in d[p.parents[i]].hist
      BY <2>1 DEF Fits
    <3> DEFINE q == p.parents[i]
    <3>2. q \in 1 .. N /\ d[q].edit < p.edit /\ f \in d[q].hist
      BY <1>3, <3>1
    <3>3. d[q].hist \subseteq p.hist
      BY DEF Fits
    <3> HIDE DEF q
    <3>4. f \in 1 .. q /\ q \in 1 .. N
      BY <3>2, <1>2
    <3>5. f \in 1 .. N
      BY <3>4
    <3>6. d[f].hist \subseteq d[q].hist /\ (f # q => d[f].edit < d[q].edit)
      BY <3>2, <1>2
    <3>7. d[f].edit \in Nat /\ d[q].edit \in Nat /\ p.edit \in Nat
      BY <3>2, <3>5, <1>1 DEF PackRecord
    <3>8. d[f].edit < p.edit
      BY <3>2, <3>6, <3>7
    <3>9. QED
      BY <3>3, <3>5, <3>6, <3>8
  <2>2. QED
    BY <2>1
<1>5. 1 \in p.hist /\ N + 1 \in p.hist
  <2>1. 1 \in DOMAIN p.parents
    BY DEF Fits
  <2>2. p.parents[1] \in 1 .. N
    BY <2>1, <1>3
  <2>3. 1 \in d[p.parents[1]].hist
    BY <2>2, <1>2
  <2>4. QED
    BY <2>1, <2>3 DEF Fits
<1>6. ASSUME NEW c \in 1 .. N + 1
      PROVE  e[c].hist \subseteq 1 .. c /\ c \in e[c].hist /\ 1 \in e[c].hist
  <2>1. CASE c \in 1 .. N
    BY <2>1, <1>1, <1>2
  <2>2. CASE c = N + 1
    <3>1. p.hist \subseteq 1 .. N + 1
      BY <1>1, <1>4
    <3>2. QED
      BY <3>1, <2>2, <1>1, <1>5
  <2>3. QED
    BY <2>1, <2>2, <1>1
<1>7. ASSUME NEW c \in 1 .. N + 1, NEW f \in e[c].hist
      PROVE  e[f].hist \subseteq e[c].hist /\ (f # c => e[f].edit < e[c].edit)
  <2>1. CASE c \in 1 .. N
    <3>1. e[c] = d[c] /\ f \in d[c].hist /\ f \in 1 .. c
      BY <2>1, <1>1, <1>2
    <3>2. f \in 1 .. N
      BY <2>1, <3>1, <1>1
    <3>3. QED
      BY <2>1, <3>1, <3>2, <1>1, <1>2
  <2>2. CASE c = N + 1
    <3>1. e[c] = p
      BY <2>2, <1>1
    <3>2. QED
      BY <2>2, <3>1, <1>1, <1>4
  <2>3. QED
    BY <2>1, <2>2, <1>1
<1>8. ASSUME NEW c \in 1 .. N + 1, NEW f \in 1 .. N + 1, c # f
      PROVE  e[c].ops \cap e[f].ops = {}
  <2>1. \A a \in 1 .. N : d[a].ops \cap p.ops = {}
    BY DEF Fits
  <2>2. \A a, b \in 1 .. N : a # b => d[a].ops \cap d[b].ops = {}
    BY DEF DagShape
  <2>3. QED
    BY <2>1, <2>2, <1>1, <1>8
<1>9. e[1].ops = {1}
  BY <1>1 DEF DagShape
<1>10. QED
  BY <1>1, <1>6, <1>7, <1>8, <1>9 DEF DagShape, e

LEMMA IdsGrow ==
  ASSUME NEW d, DagShape(d), NEW id, IdShape(d, id), NEW p, NEW i \in Int,
         i = Len(d) + 1 \/ i = - (Len(d) + 1)
  PROVE  IdShape(Append(d, p), Append(id, i))
<1> DEFINE j == Append(id, i)
           N == Len(d)
<1>1. /\ N \in Nat /\ j \in Seq(Int) /\ Len(j) = N + 1 /\ j[N + 1] = i
      /\ \A c \in 1 .. N : j[c] = id[c]
      /\ Len(Append(d, p)) = N + 1
      /\ \A c : c \in 1 .. N + 1 <=> c \in 1 .. N \/ c = N + 1
  BY DEF DagShape, IdShape
<1> HIDE DEF j
<1>2. \A c \in 1 .. N : id[c] = c \/ id[c] = - c
  BY DEF IdShape
<1>3. \A c \in 1 .. N + 1 : j[c] = c \/ j[c] = - c
  BY <1>1, <1>2
<1>4. QED
  BY <1>1, <1>3 DEF IdShape, j

(* Old commits are read as before.                                         *)
LEMMA OrderKept ==
  ASSUME NEW d, DagShape(d), NEW id, IdShape(d, id), NEW p, NEW i,
         DagShape(Append(d, p)), NEW tip \in 1 .. Len(d)
  PROVE  /\ History(Append(d, p), tip) = History(d, tip)
         /\ OpsAt(Append(d, p), tip) = OpsAt(d, tip)
         /\ Order(Append(d, p), Append(id, i), tip) = Order(d, id, tip)
<1> DEFINE e == Append(d, p)
           j == Append(id, i)
           N == Len(d)
           S == OpsAt(d, tip)
<1>1. /\ N \in Nat /\ Len(e) = N + 1 /\ tip \in 1 .. Len(e)
      /\ \A c \in 1 .. N : e[c] = d[c] /\ j[c] = id[c]
  BY DEF DagShape, IdShape
<1>2. DagShape(e)
  OBVIOUS
<1> HIDE DEF e, j
<1>3. History(e, tip) = History(d, tip) /\ History(d, tip) \subseteq 1 .. N
  BY <1>1, <1>2, PackOfFacts
<1>4. OpsAt(e, tip) = S
  <2>1. {e[c].ops : c \in History(e, tip)} = {d[c].ops : c \in History(d, tip)}
    BY <1>1, <1>3
  <2>2. QED
    BY <2>1 DEF OpsAt
<1>5. ASSUME NEW o \in S
      PROVE  PackOf(e, tip)[o] = PackOf(d, tip)[o] /\ PackOf(d, tip)[o] \in 1 .. N
  <2> DEFINE c == PackOf(d, tip)[o]
  <2>1. c \in 1 .. N /\ o \in d[c].ops
    BY <1>3, PackOfFacts
  <2> HIDE DEF c
  <2>2. c \in 1 .. Len(e) /\ o \in e[c].ops /\ o \in OpsAt(e, tip)
    BY <2>1, <1>1, <1>4
  <2>3. PackOf(e, tip)[o] = c
    BY <2>2, <1>1, <1>2, PackOfFacts
  <2>4. QED
    BY <2>1, <2>3 DEF c
<1>6. ASSUME NEW o \in S, NEW q \in S
      PROVE  Before(o, q, PackOf(e, tip), e, j) <=> Before(o, q, PackOf(d, tip), d, id)
  <2> DEFINE a == PackOf(d, tip)[o]
             b == PackOf(d, tip)[q]
  <2>1. /\ PackOf(e, tip)[o] = a /\ PackOf(e, tip)[q] = b
        /\ e[a] = d[a] /\ e[b] = d[b] /\ j[a] = id[a] /\ j[b] = id[b]
    BY <1>1, <1>5
  <2>2. QED
    BY <2>1 DEF Before
<1>7. OrderOf(e, j, tip) = OrderOf(d, id, tip)
  <2>1. OrderOf(e, j, tip) = {r \in S \X S : Before(r[1], r[2], PackOf(e, tip), e, j)}
    BY <1>4 DEF OrderOf
  <2>2. OrderOf(d, id, tip) = {r \in S \X S : Before(r[1], r[2], PackOf(d, tip), d, id)}
    BY DEF OrderOf
  <2> HIDE DEF S
  <2>3. \A r \in S \X S : r[1] \in S /\ r[2] \in S
    OBVIOUS
  <2>4. \A r \in S \X S : Before(r[1], r[2], PackOf(e, tip), e, j)
                            <=> Before(r[1], r[2], PackOf(d, tip), d, id)
    BY <1>6, <2>3
  <2>5. QED
    BY <2>1, <2>2, <2>4, Zenon
<1>8. Order(e, j, tip) = Order(d, id, tip)
  BY <1>4, <1>7, OrderIs
<1>9. QED
  BY <1>3, <1>4, <1>8 DEF e, j

(* p holds the operations ids, and is on top of b alone; its id is i.      *)
OnTop(d, p, i, b, ids) ==
  /\ p \in PackRecord /\ Fits(d, p) /\ i \in Int /\ (i = Len(d) + 1 \/ i = - (Len(d) + 1))
  /\ b \in 1 .. Len(d) /\ p.parents = <<b>>
  /\ ids \in Seq(Nat) /\ Ascending(ids) /\ p.ops = Range(ids)

(* A pack on top of a commit comes after all that is read there.           *)
LEMMA OrderGrows ==
  ASSUME NEW d, DagShape(d), NEW id, IdShape(d, id), NEW os, OpsShape(os), Causal(d, os),
         NEW p, NEW i, NEW b, NEW ids, OnTop(d, p, i, b, ids)
  PROVE  /\ OpsAt(Append(d, p), Len(d) + 1) = OpsAt(d, b) \union p.ops
         /\ Order(Append(d, p), Append(id, i), Len(d) + 1) = Order(d, id, b) \o ids
<1> DEFINE e == Append(d, p)
           j == Append(id, i)
           N == Len(d)
           new == N + 1
           S == OpsAt(d, b)
           T == OpsAt(e, new)
           order == Order(d, id, b)
           R == OrderOf(e, j, new)
<1>21. /\ p \in PackRecord /\ Fits(d, p) /\ i \in Int /\ (i = Len(d) + 1 \/ i = - (Len(d) + 1))
       /\ b \in 1 .. Len(d) /\ p.parents = <<b>>
       /\ ids \in Seq(Nat) /\ Ascending(ids) /\ p.ops = Range(ids)
  BY DEF OnTop
<1> USE <1>21
<1>0. p.ops = {ids[n] : n \in 1 .. Len(ids)}
  BY DEF Range
<1>1. DagShape(e) /\ IdShape(e, j)
  BY DagGrows, IdsGrow
<1>2. /\ N \in Nat /\ Len(e) = new /\ new \in 1 .. Len(e) /\ e[new] = p
      /\ \A c \in 1 .. N : e[c] = d[c] /\ j[c] = id[c]
  BY DEF DagShape, IdShape
<1>3. History(e, b) = History(d, b) /\ OpsAt(e, b) = S /\ Order(e, j, b) = order
  BY <1>1, OrderKept
<1>20. /\ History(e, new) = e[new].hist
      /\ \A c \in 1 .. Len(e), o \in T : o \in e[c].ops => PackOf(e, new)[o] = c
  <2> HIDE DEF e, new
  <2>1. QED
    BY <1>1, <1>2, PackOfFacts
<1>4. /\ order \in Seq(S) /\ Len(order) \in Nat
      /\ \A o \in S : \E n \in 1 .. Len(order) : order[n] = o
      /\ \A m, n \in 1 .. Len(order) : m < n => <<order[m], order[n]>> \in OrderOf(d, id, b)
  BY OrderFacts
<1>5. History(d, b) = d[b].hist /\ History(d, b) \subseteq 1 .. N
  BY PackOfFacts
<1>6. History(e, new) = {new} \union History(d, b)
  <2>1. UNION {d[p.parents[k]].hist : k \in DOMAIN p.parents} = d[b].hist
    OBVIOUS
  <2>2. p.hist = {new} \union d[b].hist
    BY <2>1 DEF Fits
  <2>3. History(e, new) = e[new].hist
    BY <1>20
  <2>4. QED
    BY <2>2, <2>3, <1>2, <1>5
<1>7. T = S \union p.ops
  <2>1. \A c \in History(d, b) : e[c] = d[c]
    BY <1>2, <1>5
  <2>2. \A o : o \in T <=> \E c \in History(e, new) : o \in e[c].ops
    BY DEF OpsAt
  <2>3. \A o : o \in S <=> \E c \in History(d, b) : o \in d[c].ops
    BY DEF OpsAt
  <2> HIDE DEF e, T, S
  <2>4. QED
    BY <2>1, <2>2, <2>3, <1>2, <1>6
<1> DEFINE M == Len(order)
           K == Len(ids)
           u == order \o ids
<1>8. /\ M \in Nat /\ K \in Nat /\ Len(u) = M + K
      /\ \A n \in 1 .. M : u[n] = order[n] /\ order[n] \in S
      /\ \A n \in 1 .. K : u[M + n] = ids[n] /\ ids[n] \in p.ops
      /\ \A n \in 1 .. M + K : n \in 1 .. M \/ (n - M \in 1 .. K /\ n = M + (n - M))
  <2> HIDE DEF order, S
  <2>1. QED
    BY <1>0, <1>4
<1>9. u \in [1 .. M + K -> T] /\ u \in Seq(T)
  <2>1. order \in Seq(T) /\ ids \in Seq(T)
    <3> HIDE DEF order, S, T
    <3>1. \A n \in 1 .. K : ids[n] \in T
      BY <1>7, <1>8
    <3>2. \A n \in 1 .. M : order[n] \in T
      BY <1>7, <1>8
    <3>3. order \in Seq(T)
      <4>1. order \in [1 .. M -> T]
        BY <3>2, <1>4
      <4>2. QED
        BY <4>1, <1>8
    <3>4. ids \in Seq(T)
      <4>1. ids \in [1 .. K -> T] /\ K \in Nat
        BY <3>1, <1>8
      <4> HIDE DEF K
      <4>2. QED
        BY <4>1
    <3>5. QED
      BY <3>3, <3>4
  <2> HIDE DEF order, S, T
  <2>2. u \in Seq(T)
    BY <2>1
  <2> HIDE DEF u
  <2>3. QED
    BY <2>2, <1>8
<1>10. \A o \in T : \E n \in 1 .. M + K : u[n] = o
  <2> SUFFICES ASSUME NEW o \in T
               PROVE  \E n \in 1 .. M + K : u[n] = o
    OBVIOUS
  <2> HIDE DEF order, u, S, T
  <2>1. CASE o \in S
    <3>1. PICK n \in 1 .. M : order[n] = o
      BY <2>1, <1>4
    <3>2. n \in 1 .. M + K
      BY <1>8
    <3>3. QED
      BY <3>1, <3>2, <1>8
  <2>2. CASE o \in p.ops
    <3>1. PICK n \in 1 .. K : ids[n] = o
      BY <2>2, <1>0
    <3>2. M + n \in 1 .. M + K
      BY <1>8
    <3>3. QED
      BY <3>1, <3>2, <1>8
  <2>3. QED
    BY <2>1, <2>2, <1>7
<1>11. /\ \A o \in p.ops : PackOf(e, new)[o] = new
       /\ \A o \in S : PackOf(e, new)[o] \in History(d, b) /\ o \in d[PackOf(e, new)[o]].ops
                       /\ PackOf(e, new)[o] = PackOf(d, b)[o]
  <2>1. \A c \in 1 .. Len(e), o \in T : o \in e[c].ops => PackOf(e, new)[o] = c
    BY <1>20
  <2>2. ASSUME NEW o \in S
        PROVE  /\ PackOf(e, new)[o] = PackOf(d, b)[o]
               /\ PackOf(d, b)[o] \in History(d, b) /\ o \in d[PackOf(d, b)[o]].ops
    <3> DEFINE c == PackOf(d, b)[o]
    <3>1. c \in History(d, b) /\ o \in d[c].ops
      BY PackOfFacts
    <3> HIDE DEF c
    <3>2. c \in 1 .. Len(e) /\ e[c] = d[c] /\ o \in T
      <4> HIDE DEF e, T, S
      <4>1. QED
        BY <3>1, <1>2, <1>5, <1>7
    <3>3. PackOf(e, new)[o] = c
      BY <2>1, <3>1, <3>2
    <3>4. QED
      BY <3>1, <3>3 DEF c
  <2>3. ASSUME NEW o \in p.ops
        PROVE  PackOf(e, new)[o] = new
    <3> HIDE DEF e, T
    <3>1. QED
      BY <2>1, <1>2, <1>7
  <2>4. QED
    BY <2>2, <2>3
<1>12. ASSUME NEW c \in History(d, b)
       PROVE  e[c].edit < e[new].edit /\ c # new
  <2>1. c \in e[new].hist /\ c \in 1 .. N
    <3> HIDE DEF e
    <3>1. QED
      BY <1>20, <1>5, <1>6
  <2>2. c # new
    BY <2>1, <1>2
  <2> HIDE DEF e
  <2>3. QED
    BY <2>1, <2>2, <1>1, <1>2 DEF DagShape
<1>13. ASSUME NEW m \in 1 .. M + K, NEW n \in 1 .. M + K, m < n
       PROVE  Before(u[m], u[n], PackOf(e, new), e, j)
  <2> DEFINE pack == PackOf(e, new)
  <2>1. CASE n \in 1 .. M
    <3>1. m \in 1 .. M
      BY <2>1, <1>13, <1>8
    <3> DEFINE o == order[m]
               q == order[n]
    <3>2. o \in S /\ q \in S /\ u[m] = o /\ u[n] = q
      BY <2>1, <3>1, <1>8
    <3>3. Before(o, q, PackOf(d, b), d, id)
      <4>1. <<o, q>> \in OrderOf(d, id, b)
        BY <2>1, <3>1, <1>13, <1>4
      <4>2. QED
        BY <4>1, OrderIs
    <3> HIDE DEF o, q
    <3> DEFINE a == PackOf(d, b)[o]
               f == PackOf(d, b)[q]
    <3>4. /\ pack[o] = a /\ pack[q] = f /\ a \in 1 .. N /\ f \in 1 .. N
      BY <3>2, <1>5, <1>11
    <3>5. e[a] = d[a] /\ e[f] = d[f] /\ j[a] = id[a] /\ j[f] = id[f]
      BY <3>4, <1>2
    <3> HIDE DEF e, j, pack
    <3>6. Before(o, q, pack, e, j)
      BY <3>3, <3>4, <3>5 DEF Before
    <3>7. QED
      BY <3>2, <3>6 DEF pack
  <2>2. CASE m \in 1 .. M /\ n \notin 1 .. M
    <3>1. u[m] \in S /\ u[n] \in p.ops
      BY <2>2, <1>8
    <3>2. pack[u[m]] \in History(d, b) /\ pack[u[n]] = new
      BY <3>1, <1>11
    <3> HIDE DEF e, j, pack, u
    <3>3. e[pack[u[m]]].edit < e[pack[u[n]]].edit
      BY <3>2, <1>12
    <3>4. QED
      BY <3>3 DEF Before, pack
  <2>3. CASE m \notin 1 .. M
    <3>1. m - M \in 1 .. K /\ m = M + (m - M) /\ n - M \in 1 .. K /\ n = M + (n - M) /\ m - M < n - M
      BY <2>3, <1>13, <1>8
    <3>2. u[m] = ids[m - M] /\ u[n] = ids[n - M] /\ ids[m - M] < ids[n - M]
      BY <3>1, <1>8 DEF Ascending
    <3>3. u[m] \in p.ops /\ u[n] \in p.ops /\ u[m] < u[n]
      BY <3>1, <3>2, <1>8
    <3>4. pack[u[m]] = new /\ pack[u[n]] = new
      BY <3>3, <1>11
    <3> HIDE DEF e, j, pack, u
    <3>5. QED
      BY <3>3, <3>4 DEF Before, pack
  <2>4. QED
    BY <2>1, <2>2, <2>3
<1>14. StrictOrder(T, R)
  BY <1>1, <1>2, OrderStrict
<1>15. \A m, n \in 1 .. M + K : m < n => <<u[m], u[n]>> \in R
  <2>1. \A m \in 1 .. M + K : u[m] \in T
    BY <1>9
  <2>2. QED
    BY <2>1, <1>13, OrderIs
<1>16. M + K \in Nat
  BY <1>8
<1>17. u = InOrder(T, R)
  <2> DEFINE L == M + K
  <2>1. /\ L \in Nat /\ u \in [1 .. L -> T] /\ \A o \in T : \E n \in 1 .. L : u[n] = o
        /\ \A m, n \in 1 .. L : m < n => <<u[m], u[n]>> \in R
    BY <1>9, <1>10, <1>15, <1>16
  <2> HIDE DEF u, T, R, L
  <2>2. QED
    BY <2>1, <1>14, InOrderUnique
<1>18. Order(e, j, new) = InOrder(T, R)
  BY OrderIs
<1>19. QED
  BY <1>7, <1>17, <1>18

------------------------------------------------------------------------------
(* The operations of a history.                                            *)

(* The first operation creates the bug, and what an edit or metadata are   *)
(* for comes before them.                                                  *)
Grounded(s) ==
  /\ s \in Seq(Op) /\ Len(s) > 0
  /\ \A n \in 1 .. Len(s) : s[n].kind = "create" <=> n = 1
  /\ \A n \in 1 .. Len(s) : s[n].kind \in {"edit", "metadata"} =>
       \E m \in 1 .. n - 1 :
         s[m].id = s[n].target /\ (s[n].kind = "edit" => s[m].kind \in CommentKind)

Listed(order, os) == [n \in DOMAIN order |-> os[order[n]]]

LEMMA OrderGrounded ==
  ASSUME NEW d, DagShape(d), NEW id, IdShape(d, id), NEW os, OpsShape(os), Causal(d, os),
         NEW tip \in 1 .. Len(d)
  PROVE  Grounded(Listed(Order(d, id, tip), os))
<1> DEFINE order == Order(d, id, tip)
           S == OpsAt(d, tip)
           N == Len(order)
           s == Listed(order, os)
           pack == PackOf(d, tip)
<1>0. /\ Len(os) \in Nat
      /\ \A o \in 1 .. Len(os) : os[o] \in Op /\ os[o].id = o /\ (os[o].kind = "create" <=> o = 1)
  BY DEF OpsShape
<1>1. /\ S \subseteq 1 .. Len(os) /\ order \in Seq(S)
      /\ \A o \in S : \E n \in 1 .. N : order[n] = o
  BY OrderFacts
<1>2. N \in Nat /\ DOMAIN order = 1 .. N /\ \A n \in 1 .. N : order[n] \in S
  <2> HIDE DEF order, S
  <2>1. QED
    BY <1>1
<1>3. s \in Seq(Op) /\ Len(s) = N /\ \A n \in 1 .. N : s[n] = os[order[n]]
  <2> HIDE DEF order, S
  <2>1. \A n \in 1 .. N : os[order[n]] \in Op
    BY <1>0, <1>1, <1>2
  <2>2. QED
    BY <2>1, <1>2 DEF Listed
<1>4. /\ \A c \in History(d, tip) : c \in 1 .. Len(d) /\ d[c].hist \subseteq History(d, tip)
      /\ 1 \in History(d, tip)
  BY PackOfFacts DEF DagShape
<1>5. 1 \in S
  BY <1>4 DEF OpsAt, DagShape
<1>6. \A o \in S : pack[o] \in History(d, tip) /\ o \in d[pack[o]].ops
  BY PackOfFacts
<1>7. \A c \in 1 .. Len(d), o \in S : o \in d[c].ops => pack[o] = c
  BY PackOfFacts
<1>8. \A m, n \in 1 .. N : order[m] = order[n] => m = n
  <2> SUFFICES ASSUME NEW m \in 1 .. N, NEW n \in 1 .. N, m # n
               PROVE  order[m] # order[n]
    OBVIOUS
  <2>1. m < n \/ n < m
    BY <1>2
  <2>2. <<order[m], order[n]>> \in OrderOf(d, id, tip) \/ <<order[n], order[m]>> \in OrderOf(d, id, tip)
    BY <2>1, OrderFacts
  <2>3. StrictOrder(S, OrderOf(d, id, tip)) /\ order[m] \in S
    BY <1>2, OrderStrict
  <2>4. QED
    BY <2>2, <2>3 DEF StrictOrder
<1>9. ASSUME NEW o \in S, NEW p \in S, Before(o, p, pack, d, id)
      PROVE  \E m, n \in 1 .. N : order[m] = o /\ order[n] = p /\ m < n
  BY <1>9, OrderPlaces
<1>10. ASSUME NEW o \in S, NEW p \in S, o < p, pack[o] \in d[pack[p]].hist
       PROVE  Before(o, p, pack, d, id)
  <2>1. pack[o] = pack[p] \/ d[pack[o]].edit < d[pack[p]].edit
    BY <1>4, <1>6, <1>10 DEF DagShape
  <2>2. QED
    BY <2>1, <1>10 DEF Before
<1> HIDE DEF s, order, S, N, pack
<1>16. \A n \in 1 .. N : order[n] \in 1 .. Len(os)
  <2>1. S \subseteq 1 .. Len(os)
    BY <1>1
  <2>2. QED
    BY <2>1, <1>2
<1>11. order[1] = 1 /\ 1 \in 1 .. N
  <2>1. PICK k \in 1 .. N : order[k] = 1
    BY <1>1, <1>5
  <2>2. ASSUME k # 1
        PROVE  FALSE
    <3>1. 1 \in 1 .. N /\ order[1] \in S /\ order[1] # 1
      BY <2>1, <2>2, <1>2, <1>8
    <3>2. 1 < order[1]
      BY <3>1, <1>0, <1>16
    <3>3. pack[1] = 1
      BY <1>5, <1>7, <1>4 DEF DagShape
    <3>4. 1 \in d[pack[order[1]]].hist
      BY <3>1, <1>4, <1>6 DEF DagShape
    <3>5. PICK m \in 1 .. N, n \in 1 .. N : order[m] = 1 /\ order[n] = order[1] /\ m < n
      BY <3>1, <3>2, <3>3, <3>4, <1>5, <1>9, <1>10
    <3>6. n = 1
      BY <3>1, <3>5, <1>8
    <3>7. QED
      BY <3>5, <3>6
  <2>3. QED
    BY <2>1, <2>2
<1>12. ASSUME NEW n \in 1 .. N
       PROVE  s[n].kind = "create" <=> n = 1
  <2>1. order[n] = 1 <=> n = 1
    BY <1>8, <1>11
  <2>2. QED
    BY <2>1, <1>0, <1>3, <1>16
<1>13. ASSUME NEW n \in 1 .. N, s[n].kind \in {"edit", "metadata"}
       PROVE  \E m \in 1 .. n - 1 :
                s[m].id = s[n].target /\ (s[n].kind = "edit" => s[m].kind \in CommentKind)
  <2> DEFINE o == order[n]
             t == os[o].target
  <2>1. o \in S /\ s[n] = os[o] /\ o \in 1 .. Len(os)
    BY <1>1, <1>2, <1>3
  <2>2. t \in 1 .. o - 1 /\ (s[n].kind = "edit" => os[t].kind \in CommentKind)
    BY <2>1, <1>13 DEF OpsShape
  <2>3. t \in OpsAt(d, pack[o])
    BY <2>1, <1>4, <1>6, <1>13 DEF Causal
  <2>4. pack[o] \in 1 .. Len(d) /\ pack[o] # 0
    BY <2>1, <1>4, <1>6
  <2> HIDE DEF t
  <2>5. PICK c \in d[pack[o]].hist : t \in d[c].ops
    BY <2>3, <2>4 DEF OpsAt, History
  <2>6. c \in History(d, tip) /\ c \in 1 .. Len(d)
    BY <2>1, <2>5, <1>4, <1>6
  <2>7. t \in S
    BY <2>5, <2>6 DEF S, OpsAt
  <2>8. pack[t] = c /\ t < o
    BY <2>1, <2>2, <2>5, <2>6, <2>7, <1>7
  <2>9. PICK k \in 1 .. N, l \in 1 .. N : order[k] = t /\ order[l] = o /\ k < l
    BY <2>1, <2>5, <2>7, <2>8, <1>9, <1>10
  <2>10. l = n
    BY <2>9, <1>8
  <2>11. s[k] = os[t] /\ os[t].id = t /\ k \in 1 .. n - 1
    <3>1. t \in 1 .. Len(os)
      BY <2>7, <1>1
    <3>2. QED
      BY <3>1, <2>9, <2>10, <1>2, <1>3 DEF OpsShape
  <2>12. QED
    BY <2>1, <2>2, <2>11 DEF t
<1>14. N > 0
  BY <1>2, <1>11
<1>15. QED
  BY <1>3, <1>12, <1>13, <1>14 DEF Grounded, s, order, N

LEMMA GroundedAppend ==
  ASSUME NEW s, Grounded(s), NEW op \in Op, op.kind # "create",
         op.kind \in {"edit", "metadata"} =>
           \E m \in 1 .. Len(s) :
             s[m].id = op.target /\ (op.kind = "edit" => s[m].kind \in CommentKind)
  PROVE  Grounded(Append(s, op))
<1> DEFINE t == Append(s, op)
           N == Len(s)
<1>1. /\ s \in Seq(Op) /\ N \in Nat /\ N > 0 /\ t \in Seq(Op) /\ Len(t) = N + 1 /\ t[N + 1] = op
      /\ \A n \in 1 .. N : t[n] = s[n]
      /\ \A n \in 1 .. N + 1 : n \in 1 .. N \/ n = N + 1
  BY DEF Grounded
<1> HIDE DEF t
<1>2. ASSUME NEW n \in 1 .. N + 1
      PROVE  t[n].kind = "create" <=> n = 1
  BY <1>1 DEF Grounded
<1>3. ASSUME NEW n \in 1 .. N + 1, t[n].kind \in {"edit", "metadata"}
      PROVE  \E m \in 1 .. n - 1 :
               t[m].id = t[n].target /\ (t[n].kind = "edit" => t[m].kind \in CommentKind)
  <2>1. CASE n = N + 1
    <3>1. t[n] = op /\ n - 1 = N
      BY <2>1, <1>1
    <3>2. QED
      BY <3>1, <1>1, <1>3
  <2>2. CASE n \in 1 .. N
    <3>1. t[n] = s[n] /\ \A m \in 1 .. n - 1 : t[m] = s[m]
      BY <2>2, <1>1
    <3>2. QED
      BY <3>1, <2>2, <1>3 DEF Grounded
  <2>3. QED
    BY <2>1, <2>2, <1>1
<1>4. QED
  BY <1>1, <1>2, <1>3 DEF Grounded, t

------------------------------------------------------------------------------
(* Where edits and metadata end up.                                        *)

IsComment(item, t) == item.kind \in CommentKind /\ item.id = t
Answers(op, v) ==
  LET items == v.snap.timeline IN
  /\ op.kind \in CommentKind => \E k \in DOMAIN items : IsComment(items[k], op.id)
  /\ op.kind = "edit" =>
       \E k \in DOMAIN items : IsComment(items[k], op.target) /\ Contains(items[k].history, op.id)
  /\ op.kind = "metadata" => op.target \in Id /\ v.extra[op.target] # None
Landed(v) ==
  LET os == v.snap.ops
      comments == v.snap.comments
  IN  /\ \A n \in 1 .. Len(os) : Answers(os[n], v)
      /\ \A n \in 1 .. Len(comments) :
           \E m \in 1 .. Len(os) : os[m].id = comments[n].target /\ os[m].kind \in CommentKind

(* Comments stay in the timeline, and what is in their history stays there. *)
Extends(items, more) ==
  \A k \in DOMAIN items : items[k].kind \in CommentKind =>
    /\ k \in DOMAIN more /\ more[k].kind = items[k].kind /\ more[k].id = items[k].id
    /\ \A x : Contains(items[k].history, x) => Contains(more[k].history, x)

LEMMA AnswersStay ==
  ASSUME NEW v, NEW w, NEW op, Answers(op, v), Extends(v.snap.timeline, w.snap.timeline),
         \A t \in Id : v.extra[t] # None => w.extra[t] # None
  PROVE  Answers(op, w)
<1> DEFINE items == v.snap.timeline
           more == w.snap.timeline
<1>1. /\ op.kind \in CommentKind => \E k \in DOMAIN items : IsComment(items[k], op.id)
      /\ op.kind = "edit" =>
           \E k \in DOMAIN items : IsComment(items[k], op.target) /\ Contains(items[k].history, op.id)
      /\ op.kind = "metadata" => op.target \in Id /\ v.extra[op.target] # None
  BY DEF Answers
<1>2. Extends(items, more)
  OBVIOUS
<1> HIDE DEF items, more
<1>3. \A t : \A k \in DOMAIN items : IsComment(items[k], t) =>
        /\ k \in DOMAIN more /\ IsComment(more[k], t)
        /\ \A x : Contains(items[k].history, x) => Contains(more[k].history, x)
  BY <1>2 DEF Extends, IsComment
<1>4. /\ op.kind \in CommentKind => \E k \in DOMAIN more : IsComment(more[k], op.id)
      /\ op.kind = "edit" =>
           \E k \in DOMAIN more : IsComment(more[k], op.target) /\ Contains(more[k].history, op.id)
  BY <1>1, <1>3, Zenon
<1>5. QED
  BY <1>1, <1>4 DEF Answers, more

LEMMA ExtendsAppend ==
  ASSUME NEW items \in Seq(ItemRecord), NEW item
  PROVE  Extends(items, items) /\ Extends(items, Append(items, item))
<1>1. DOMAIN items = 1 .. Len(items) /\ Len(items) \in Nat
  OBVIOUS
<1> DEFINE more == Append(items, item)
<1>2. \A k \in DOMAIN items : k \in DOMAIN more /\ more[k] = items[k]
  BY <1>1
<1> HIDE DEF more
<1>3. Extends(items, more)
  BY <1>2 DEF Extends
<1>4. QED
  BY <1>3 DEF Extends, more

LEMMA ExtendsEdited ==
  ASSUME NEW snap \in SnapRecord, NEW op \in OperationRecord
  PROVE  /\ Extends(snap.timeline, EditedTimeline(snap, op))
         /\ DOMAIN EditedTimeline(snap, op) = DOMAIN snap.timeline
         /\ \A k \in Edited(snap, op) :
              /\ k \in DOMAIN snap.timeline
              /\ IsComment(EditedTimeline(snap, op)[k], op.target)
              /\ Contains(EditedTimeline(snap, op)[k].history, op.id)
<1> DEFINE items == snap.timeline
           more == EditedTimeline(snap, op)
<1>1. items \in Seq(ItemRecord) /\ op.id \in Id
  BY DEF SnapRecord, OperationRecord, Id
<1>2. /\ DOMAIN more = DOMAIN items
      /\ \A k \in DOMAIN items :
           /\ items[k] \in ItemRecord
           /\ more[k] = IF k \in Edited(snap, op) THEN EditItem(items[k], op) ELSE items[k]
  BY <1>1 DEF EditedTimeline
<1>3. \A k : k \in Edited(snap, op) <=> k \in DOMAIN items /\ IsComment(items[k], op.target)
  BY DEF Edited, IsComment, CommentKind
<1> HIDE DEF items, more
<1>4. ASSUME NEW k \in Edited(snap, op)
      PROVE  /\ k \in DOMAIN items /\ more[k].kind = items[k].kind /\ more[k].id = items[k].id
             /\ Contains(more[k].history, op.id)
             /\ \A x : Contains(items[k].history, x) => Contains(more[k].history, x)
  <2>1. k \in DOMAIN items /\ items[k] \in CommentItemRecord /\ more[k] = EditItem(items[k], op)
    BY <1>2, <1>3 DEF ItemRecord, ChangeItemRecord, IsComment, CommentKind
  <2> DEFINE h == items[k].history
  <2>2. h \in Seq(Id)
    BY <2>1 DEF CommentItemRecord
  <2>3. /\ more[k].kind = items[k].kind /\ more[k].id = items[k].id
        /\ more[k].history = Append(h, op.id)
    BY <2>1 DEF EditItem, CommentItemRecord
  <2> HIDE DEF h
  <2>4. Contains(Append(h, op.id), op.id) /\ \A x : Contains(h, x) => Contains(Append(h, op.id), x)
    <3>1. /\ Len(Append(h, op.id)) = Len(h) + 1 /\ Append(h, op.id)[Len(h) + 1] = op.id
          /\ Len(h) \in Nat /\ \A n \in 1 .. Len(h) : Append(h, op.id)[n] = h[n]
      BY <2>2
    <3>2. QED
      BY <3>1 DEF Contains
  <2>5. QED
    BY <2>1, <2>3, <2>4 DEF h
<1>5. Extends(items, more)
  BY <1>2, <1>4 DEF Extends
<1>6. \A k \in Edited(snap, op) : IsComment(more[k], op.target)
  BY <1>3, <1>4 DEF IsComment
<1>7. QED
  BY <1>2, <1>4, <1>5, <1>6 DEF items, more

(* What the operations of a history find when they are applied.            *)
Finds(v, op) ==
  LET os == v.snap.ops IN
  /\ op.kind = "create" => os = <<>> /\ Fresh(v.snap, op)
  /\ op.kind \in {"edit", "metadata"} =>
       \E m \in 1 .. Len(os) :
         os[m].id = op.target /\ (op.kind = "edit" => os[m].kind \in CommentKind)

LEMMA LandedStep ==
  ASSUME NEW v, Sound(v), Landed(v), NEW op \in Op, Finds(v, op)
  PROVE  Landed(Apply(v, op))
<1> DEFINE w == Apply(v, op)
           snap == v.snap
           os == v.snap.ops
           items == v.snap.timeline
           more == w.snap.timeline
           r == ApplySnapshot(snap, op)
<1>1. /\ Sound(w) /\ w.snap.ops = Append(os, op)
      /\ w.extra = IF op.kind = "metadata" THEN ApplySetMetadata(v, op) ELSE v.extra
  BY ApplySound
<1>2. /\ snap \in SnapRecord /\ os \in Seq(Op) /\ items \in Seq(ItemRecord)
      /\ snap.comments \in Seq(CommentRecord) /\ Distinct(snap.labels)
      /\ op \in OperationRecord
  BY DEF Sound, ViewRecord, SnapRecord, LabelsSound, Op
<1>3. r \in SnapRecord /\ w.snap.timeline = r.timeline /\ w.snap.comments = r.comments
  <2>1. r \in SnapRecord
    BY <1>2, SnapshotSound DEF Sound
  <2>2. QED
    BY <2>1 DEF Apply, View, SnapRecord
<1>4. /\ Len(os) \in Nat /\ Len(w.snap.ops) = Len(os) + 1 /\ w.snap.ops[Len(os) + 1] = op
      /\ \A n \in 1 .. Len(os) : w.snap.ops[n] = os[n]
      /\ \A n \in 1 .. Len(os) + 1 : n \in 1 .. Len(os) \/ n = Len(os) + 1
  BY <1>1, <1>2
<1>5. \A t \in Id : v.extra[t] # None => w.extra[t] # None
  BY ExtraStays
<1> HIDE DEF w
<1> DEFINE Known(c) == \E m \in 1 .. Len(w.snap.ops) :
                         w.snap.ops[m].id = c.target /\ w.snap.ops[m].kind \in CommentKind
           Goal == /\ Extends(items, more) \/ os = <<>>
                   /\ Answers(op, w)
                   /\ \A n \in 1 .. Len(r.comments) : Known(r.comments[n])
<1>6. \A n \in 1 .. Len(snap.comments) : Known(snap.comments[n])
  <2> SUFFICES ASSUME NEW n \in 1 .. Len(snap.comments)
               PROVE  Known(snap.comments[n])
    OBVIOUS
  <2>1. PICK m \in 1 .. Len(os) : os[m].id = snap.comments[n].target /\ os[m].kind \in CommentKind
    BY DEF Landed
  <2>2. m \in 1 .. Len(w.snap.ops) /\ w.snap.ops[m] = os[m]
    BY <1>4
  <2>3. QED
    BY <2>1, <2>2
<1>7. CommentItem(op).id = op.id /\ CommentItem(op).kind = op.kind /\ Comment(op).target = op.id
  BY DEF CommentItem, Comment
<1>8. op.kind \in CommentKind => Known(Comment(op))
  BY <1>4, <1>7
<1> HIDE DEF Known
<1>9. ASSUME op.kind = "create" PROVE Goal
  <2>1. os = <<>> /\ Fresh(snap, op)
    BY <1>9 DEF Finds
  <2>2. r.comments = <<Comment(op)>> /\ r.timeline = <<CommentItem(op)>>
    BY <2>1, <1>2, <1>9, CreateFacts
  <2>3. 1 \in DOMAIN more /\ more[1] = CommentItem(op)
    BY <2>2, <1>3
  <2>4. Answers(op, w)
    BY <2>3, <1>7, <1>9 DEF Answers, IsComment, CommentKind
  <2>5. \A n \in 1 .. Len(r.comments) : Known(r.comments[n])
    BY <2>2, <1>8, <1>9 DEF CommentKind
  <2>6. QED
    BY <2>1, <2>4, <2>5
<1>10. ASSUME op.kind = "comment" PROVE Goal
  <2>1. /\ r.comments = Append(snap.comments, Comment(op))
        /\ r.timeline = Append(items, CommentItem(op))
    BY <1>2, <1>10, AddCommentFacts
  <2>2. Extends(items, more)
    BY <2>1, <1>2, <1>3, ExtendsAppend
  <2>3. Len(items) + 1 \in DOMAIN more /\ more[Len(items) + 1] = CommentItem(op)
    <3> HIDE DEF items
    <3>1. QED
      BY <2>1, <1>2, <1>3
  <2>4. Answers(op, w)
    BY <2>3, <1>7, <1>10 DEF Answers, IsComment, CommentKind
  <2>5. \A n \in 1 .. Len(r.comments) : Known(r.comments[n])
    <3> DEFINE cs == snap.comments
    <3>1. \A n \in 1 .. Len(cs) : Known(cs[n])
      BY <1>6
    <3>2. cs \in Seq(CommentRecord) /\ r.comments = Append(cs, Comment(op))
      BY <2>1, <1>2
    <3> HIDE DEF cs, r
    <3>3. Known(Comment(op))
      BY <1>8, <1>10 DEF CommentKind
    <3>4. QED
      BY <3>1, <3>2, <3>3
  <2>6. QED
    BY <2>2, <2>4, <2>5
<1>11. ASSUME op.kind = "edit" PROVE Goal
  <2>1. PICK m \in 1 .. Len(os) : os[m].id = op.target /\ os[m].kind \in CommentKind
    BY <1>11 DEF Finds
  <2>2. PICK k \in DOMAIN items : IsComment(items[k], op.target)
    BY <2>1 DEF Landed, Answers
  <2>3. k \in Edited(snap, op)
    BY <2>2 DEF Edited, IsComment, CommentKind
  <2>4. r.comments = EditedComments(snap, op) /\ r.timeline = EditedTimeline(snap, op)
    BY <2>3, <1>2, <1>11, EditFacts
  <2>5. Extends(items, more)
    BY <2>4, <1>2, <1>3, ExtendsEdited
  <2>6. k \in DOMAIN more /\ IsComment(more[k], op.target) /\ Contains(more[k].history, op.id)
    BY <2>3, <2>4, <1>2, <1>3, ExtendsEdited
  <2>7. Answers(op, w)
    BY <2>6, <1>11 DEF Answers, CommentKind
  <2>8. ASSUME NEW n \in 1 .. Len(r.comments)
        PROVE  Known(r.comments[n])
    <3> DEFINE cs == snap.comments
    <3>1. /\ DOMAIN cs = 1 .. Len(cs) /\ Len(cs) \in Nat
          /\ \A i \in 1 .. Len(cs) : cs[i] \in CommentRecord
      BY <1>2
    <3>2. n \in 1 .. Len(cs) /\ r.comments[n].target = cs[n].target
      BY <2>4, <3>1 DEF EditedComments, CommentRecord
    <3>3. QED
      BY <3>2, <1>6 DEF Known
  <2>9. QED
    BY <2>5, <2>7, <2>8
<1>12. ASSUME op.kind \in {"title", "status", "labels"} PROVE Goal
  <2>1. r.comments = snap.comments /\ r.timeline = Append(items, ChangeItem(op))
    BY <1>2, <1>12, ChangeFacts
  <2>2. Extends(items, more)
    BY <2>1, <1>2, <1>3, ExtendsAppend
  <2>3. Answers(op, w)
    BY <1>12 DEF Answers, CommentKind
  <2>4. QED
    BY <2>1, <2>2, <2>3, <1>6
<1>13. ASSUME op.kind \in {"metadata", "noop", "unknown"} PROVE Goal
  <2>1. r = snap
    BY <1>13 DEF ApplySnapshot
  <2>2. Extends(items, more)
    BY <2>1, <1>2, <1>3, ExtendsAppend
  <2>3. ASSUME op.kind = "metadata"
        PROVE  op.target \in Id /\ w.extra[op.target] # None
    <3>1. PICK m \in 1 .. Len(os) : os[m].id = op.target
      BY <2>3 DEF Finds
    <3>2. os[m] \in Op /\ os[m] \in Range(os)
      BY <1>2, RangeOfSeq DEF Range
    <3>3. op.target \in Id
      BY <3>1, <3>2 DEF Op, OperationRecord, Id
    <3>4. QED
      BY <2>3, <3>1, <3>2, <3>3, ExtraStays DEF w
  <2>4. Answers(op, w)
    BY <2>3, <1>13 DEF Answers, CommentKind
  <2>5. QED
    BY <2>1, <2>2, <2>4, <1>6
<1>14. Goal
  BY <1>2, <1>9, <1>10, <1>11, <1>12, <1>13 DEF OperationRecord
<1>15. ASSUME NEW n \in 1 .. Len(w.snap.ops)
       PROVE  Answers(w.snap.ops[n], w)
  <2>1. CASE n = Len(os) + 1
    BY <2>1, <1>4, <1>14
  <2>2. CASE n \in 1 .. Len(os)
    <3>1. os # <<>>
      BY <2>2
    <3>2. w.snap.ops[n] = os[n] /\ Answers(os[n], v)
      BY <2>2, <1>4 DEF Landed
    <3>3. Extends(v.snap.timeline, w.snap.timeline)
      BY <3>1, <1>14
    <3>4. QED
      BY <3>2, <3>3, <1>5, AnswersStay
  <2>3. QED
    BY <2>1, <2>2, <1>4
<1>16. \A n \in 1 .. Len(w.snap.comments) :
         \E m \in 1 .. Len(w.snap.ops) :
           w.snap.ops[m].id = w.snap.comments[n].target /\ w.snap.ops[m].kind \in CommentKind
  BY <1>3, <1>14 DEF Known
<1>17. Landed(w)
  BY <1>15, <1>16 DEF Landed
<1>18. QED
  BY <1>17 DEF w

LEMMA HistoryLands ==
  ASSUME NEW s, Grounded(s), NEW extra \in [Id -> 0 .. MaxOps]
  PROVE  Landed(Compile(s, extra))
<1> DEFINE N == Len(s)
<1>1. s \in Seq(Op) /\ s # <<>> /\ N \in Nat /\ N > 0 /\ Head(s) = s[1]
  BY DEF Grounded
<1>2. PICK v : Compiles(v, s, extra) /\ Compile(s, extra) = v[N]
  BY <1>1, CompileSteps
<1>3. \A n \in 0 .. N : /\ Sound(v[n]) /\ Len(v[n].snap.ops) = n /\ v[n].snap.ops \in Seq(Op)
                       /\ \A k \in 1 .. n : v[n].snap.ops[k] = s[k]
  BY <1>1, <1>2, CompileSound DEF Sound
<1> DEFINE G == {k \in 0 .. N : Landed(v[k])}
<1>4. v[0].snap.ops = <<>> /\ v[0].snap.comments = <<>> /\ v[0].snap.id = s[1].id
  BY <1>1, <1>2 DEF Compiles, View, Blank
<1>5. 0 \in G
  BY <1>1, <1>4 DEF Landed
<1>6. ASSUME NEW k \in 1 .. N, k - 1 \in G
      PROVE  k \in G
  <2> DEFINE a == v[k - 1]
             op == s[k]
  <2>1. /\ k - 1 \in 0 .. N /\ k \in 0 .. N /\ v[k] = Apply(a, op) /\ op \in Op /\ Landed(a)
    BY <1>1, <1>2, <1>6 DEF Compiles
  <2>2. /\ Sound(a) /\ Len(a.snap.ops) = k - 1 /\ a.snap.ops \in Seq(Op)
        /\ \A i \in 1 .. k - 1 : a.snap.ops[i] = s[i]
    BY <2>1, <1>3
  <2>3. op.kind = "create" => a.snap.ops = <<>> /\ Fresh(a.snap, op)
    <3>1. ASSUME op.kind = "create"
          PROVE  a.snap.ops = <<>> /\ Fresh(a.snap, op)
      <4>1. k = 1
        BY <3>1 DEF Grounded
      <4>2. QED
        BY <4>1, <1>4 DEF Fresh
    <3>2. QED
      BY <3>1
  <2>4. op.kind \in {"edit", "metadata"} =>
          \E m \in 1 .. k - 1 :
            s[m].id = op.target /\ (op.kind = "edit" => s[m].kind \in CommentKind)
    BY DEF Grounded
  <2> HIDE DEF a, op
  <2>5. Finds(a, op)
    BY <2>2, <2>3, <2>4 DEF Finds
  <2>6. Landed(v[k])
    BY <2>1, <2>2, <2>5, LandedStep
  <2>7. QED
    BY <2>1, <2>6
<1>7. \A k \in 0 .. N : k \in G
  <2> HIDE DEF G
  <2>1. QED
    BY <1>1, <1>5, <1>6, Reached
<1>8. N \in 0 .. N
  BY <1>1
<1>9. QED
  BY <1>2, <1>7, <1>8
------------------------------------------------------------------------------
(* The invariant.                                                          *)

ReadingRecord == [ok : BOOLEAN, order : Seq(Nat)]

(* What the clones and the remote share: the operations, the commits they  *)
(* are in, and what is read there.                                         *)
Stored ==
  /\ DagShape(dag) /\ IdShape(dag, packId) /\ OpsShape(ops) /\ Causal(dag, ops)
  /\ \A k \in 1 .. Len(dag) : dag[k].edit <= MaxTime
  /\ reading \in Seq(ReadingRecord) /\ Len(reading) = Len(dag)
  /\ \A k \in 1 .. Len(dag) : reading[k].order = Order(dag, packId, k)

Refs ==
  /\ local \in [Clone -> 0 .. Len(dag)] /\ base \in [Clone -> 0 .. Len(dag)]
  /\ remote \in 0 .. Len(dag) /\ clock \in [Clone -> 0 .. MaxTime]
  /\ \A c \in Clone : Time(local[c]) <= clock[c]

(* Staged operations are in the order they were made in, and in no pack.   *)
StagedIn(d, os, st) ==
  /\ st \in Seq(Op)
  /\ \A m, n \in 1 .. Len(st) : m < n => st[m].id < st[n].id
  /\ \A n \in 1 .. Len(st) :
       /\ st[n].id \in 1 .. Len(os) /\ os[st[n].id] = st[n]
       /\ \A k \in 1 .. Len(d) : st[n].id \notin d[k].ops

Staged ==
  /\ staging \in [Clone -> Seq(Op)]
  /\ \A c \in Clone : StagedIn(dag, ops, staging[c])
  /\ \A c, e \in Clone : c # e =>
       \A m \in 1 .. Len(staging[c]), n \in 1 .. Len(staging[e]) :
         staging[c][m].id # staging[e][n].id

(* An instance in memory: what was read, what is staged on it, and the     *)
(* snapshot of both.                                                       *)
InMemory(d, id, os, b, ld, st, vw) ==
  IF b = 0 THEN ld = <<>> /\ st = <<>> /\ vw = NoView
  ELSE /\ ld = Listed(Order(d, id, b), os)
       /\ Grounded(ld \o st) /\ vw = Compile(ld \o st, NoExtra)

Memory ==
  /\ loaded \in [Clone -> Seq(Op)] /\ view \in [Clone -> ViewRecord]
  /\ \A c \in Clone : InMemory(dag, packId, ops, base[c], loaded[c], staging[c], view[c])

Inv == Stored /\ Refs /\ Staged /\ Memory

LEMMA NoExtraType == NoExtra \in [Id -> 0 .. MaxOps]
BY BoundAssumption DEF NoExtra, Id, None

LEMMA NoViewSound == Sound(NoView) /\ NoView.snap.ops = <<>>
<1>1. None \in 0 .. MaxOps
  BY BoundAssumption DEF None
<1>2. QED
  BY <1>1, NoExtraType, BlankSound DEF NoView

(* The view of any instance is sound.                                      *)
LEMMA InMemorySound ==
  ASSUME NEW d, NEW id, NEW os, NEW b, NEW ld, NEW st, NEW vw,
         InMemory(d, id, os, b, ld, st, vw)
  PROVE  /\ Sound(vw) /\ Landed(vw)
         /\ b = 0 => vw.snap.ops = <<>>
         /\ b # 0 => vw.snap.ops = ld \o st
<1>1. CASE b = 0
  <2>1. vw = NoView
    BY <1>1 DEF InMemory
  <2>2. Landed(vw)
    BY <2>1, NoViewSound DEF Landed, NoView, View, Blank
  <2>3. QED
    BY <1>1, <2>1, <2>2, NoViewSound
<1>2. CASE b # 0
  <2> DEFINE s == ld \o st
  <2>1. Grounded(s) /\ vw = Compile(s, NoExtra)
    BY <1>2 DEF InMemory
  <2> HIDE DEF s
  <2>2. s \in Seq(Op) /\ s # <<>>
    BY <2>1 DEF Grounded
  <2>3. Sound(vw) /\ vw.snap.ops = s
    BY <2>1, <2>2, CompiledSound, NoExtraType
  <2>4. Landed(vw)
    BY <2>1, HistoryLands, NoExtraType
  <2>5. QED
    BY <1>2, <2>3, <2>4 DEF s
<1>3. QED
  BY <1>1, <1>2

------------------------------------------------------------------------------
(* What an instance holds stays as it is when an operation is made or a    *)
(* commit is stored elsewhere.                                             *)

LEMMA ListedFacts ==
  ASSUME NEW d, DagShape(d), NEW id, IdShape(d, id), NEW os, OpsShape(os), Causal(d, os),
         NEW tip \in 1 .. Len(d)
  PROVE  LET s == Listed(Order(d, id, tip), os) IN
         /\ s \in Seq(Op)
         /\ \A n \in 1 .. Len(s) :
              s[n].id \in OpsAt(d, tip) /\ s[n].id \in 1 .. Len(os) /\ s[n] = os[s[n].id]
         /\ \A op : Listed(Order(d, id, tip), Append(os, op)) = s
<1> DEFINE order == Order(d, id, tip)
           s == Listed(order, os)
<1>1. /\ OpsAt(d, tip) \subseteq 1 .. Len(os) /\ order \in Seq(OpsAt(d, tip))
  BY OrderFacts
<1>2. s \in Seq(Op)
  BY OrderGrounded DEF Grounded
<1>3. /\ os \in Seq(Op) /\ Len(os) \in Nat /\ \A o \in 1 .. Len(os) : os[o].id = o
  BY DEF OpsShape
<1> HIDE DEF order
<1>4. /\ DOMAIN order = 1 .. Len(order) /\ Len(order) \in Nat
      /\ \A n \in DOMAIN order : order[n] \in OpsAt(d, tip) /\ order[n] \in 1 .. Len(os)
  BY <1>1
<1>5. DOMAIN s = DOMAIN order /\ Len(s) = Len(order) /\ \A n \in DOMAIN order : s[n] = os[order[n]]
  BY <1>4 DEF Listed
<1>6. ASSUME NEW op
      PROVE  Listed(order, Append(os, op)) = s
  <2>1. \A n \in DOMAIN order : Append(os, op)[order[n]] = os[order[n]]
    BY <1>3, <1>4
  <2>2. QED
    BY <2>1 DEF Listed
<1>7. \A n \in 1 .. Len(s) :
        s[n].id \in OpsAt(d, tip) /\ s[n].id \in 1 .. Len(os) /\ s[n] = os[s[n].id]
  <2> HIDE DEF s
  <2>1. QED
    BY <1>3, <1>4, <1>5
<1>8. QED
  BY <1>2, <1>6, <1>7 DEF order

LEMMA InMemoryMore ==
  ASSUME NEW d, DagShape(d), NEW id, IdShape(d, id), NEW os, OpsShape(os), Causal(d, os),
         NEW b \in 0 .. Len(d), NEW ld, NEW st, NEW vw, InMemory(d, id, os, b, ld, st, vw), NEW op
  PROVE  InMemory(d, id, Append(os, op), b, ld, st, vw)
<1>1. Len(d) \in Nat
  BY DEF DagShape
<1>2. b # 0 => b \in 1 .. Len(d)
  BY <1>1
<1>3. QED
  BY <1>2, ListedFacts DEF InMemory

LEMMA InMemoryGrows ==
  ASSUME NEW d, DagShape(d), NEW id, IdShape(d, id), NEW p, NEW i, DagShape(Append(d, p)),
         NEW os, NEW b \in 0 .. Len(d), NEW ld, NEW st, NEW vw, InMemory(d, id, os, b, ld, st, vw)
  PROVE  InMemory(Append(d, p), Append(id, i), os, b, ld, st, vw)
<1>1. Len(d) \in Nat
  BY DEF DagShape
<1>2. b # 0 => b \in 1 .. Len(d)
  BY <1>1
<1>3. QED
  BY <1>2, OrderKept DEF InMemory

LEMMA StagedMore ==
  ASSUME NEW d, NEW os \in Seq(Op), NEW op \in Op, NEW st, StagedIn(d, os, st)
  PROVE  StagedIn(d, Append(os, op), st)
<1>1. /\ Len(os) \in Nat /\ Len(Append(os, op)) = Len(os) + 1
      /\ \A o \in 1 .. Len(os) : Append(os, op)[o] = os[o] /\ o \in 1 .. Len(os) + 1
  OBVIOUS
<1>2. QED
  BY <1>1 DEF StagedIn

LEMMA StagedGrows ==
  ASSUME NEW d, DagShape(d), NEW p, NEW os, NEW st, StagedIn(d, os, st),
         \A n \in 1 .. Len(st) : st[n].id \notin p.ops
  PROVE  StagedIn(Append(d, p), os, st)
<1>1. /\ Len(d) \in Nat /\ Len(Append(d, p)) = Len(d) + 1
      /\ \A k \in 1 .. Len(d) : Append(d, p)[k] = d[k]
      /\ Append(d, p)[Len(d) + 1] = p
      /\ \A k \in 1 .. Len(d) + 1 : k \in 1 .. Len(d) \/ k = Len(d) + 1
  BY DEF DagShape
<1>2. \A n \in 1 .. Len(st), k \in 1 .. Len(d) + 1 : st[n].id \notin Append(d, p)[k].ops
  BY <1>1 DEF StagedIn
<1>3. QED
  BY <1>1, <1>2 DEF StagedIn

(* Every operation in memory is one of those made.                         *)
LEMMA MemoryOps ==
  ASSUME NEW d, DagShape(d), NEW id, IdShape(d, id), NEW os, OpsShape(os), Causal(d, os),
         NEW b \in 1 .. Len(d), NEW ld, NEW st, NEW vw, InMemory(d, id, os, b, ld, st, vw),
         StagedIn(d, os, st)
  PROVE  LET s == ld \o st IN
         /\ s \in Seq(Op) /\ ld \in Seq(Op) /\ st \in Seq(Op)
         /\ \A n \in 1 .. Len(s) :
              /\ s[n].id \in 1 .. Len(os) /\ s[n] = os[s[n].id]
              /\ s[n].id \in OpsAt(d, b) \union {st[k].id : k \in 1 .. Len(st)}
<1> DEFINE s == ld \o st
<1>1. b # 0 /\ Len(d) \in Nat
  BY DEF DagShape
<1>2. ld = Listed(Order(d, id, b), os) /\ Grounded(s)
  BY <1>1 DEF InMemory
<1>3. /\ ld \in Seq(Op)
      /\ \A n \in 1 .. Len(ld) :
           ld[n].id \in OpsAt(d, b) /\ ld[n].id \in 1 .. Len(os) /\ ld[n] = os[ld[n].id]
  BY <1>2, ListedFacts
<1>4. st \in Seq(Op) /\ \A n \in 1 .. Len(st) : st[n].id \in 1 .. Len(os) /\ st[n] = os[st[n].id]
  BY DEF StagedIn
<1>5. /\ Len(ld) \in Nat /\ Len(st) \in Nat /\ Len(s) = Len(ld) + Len(st)
      /\ \A n \in 1 .. Len(ld) : s[n] = ld[n]
      /\ \A n \in 1 .. Len(s) : n \notin 1 .. Len(ld) =>
           n - Len(ld) \in 1 .. Len(st) /\ s[n] = st[n - Len(ld)]
  BY <1>3, <1>4
<1>6. s \in Seq(Op)
  BY <1>3, <1>4
<1> HIDE DEF s
<1>7. ASSUME NEW n \in 1 .. Len(s)
      PROVE  /\ s[n].id \in 1 .. Len(os) /\ s[n] = os[s[n].id]
             /\ s[n].id \in OpsAt(d, b) \union {st[k].id : k \in 1 .. Len(st)}
  <2>1. CASE n \in 1 .. Len(ld)
    BY <2>1, <1>3, <1>5
  <2>2. CASE n \notin 1 .. Len(ld)
    BY <2>2, <1>4, <1>5
  <2>3. QED
    BY <2>1, <2>2
<1>8. QED
  BY <1>3, <1>4, <1>6, <1>7 DEF s

------------------------------------------------------------------------------
(* An operation more.                                                      *)

(* What a call may make: no second creation, and edits and metadata are    *)
(* for an operation the snapshot lists.                                    *)
Makes(c, op) ==
  /\ op \in Op /\ op.id = NextId /\ op.kind # "create" /\ base[c] # 0
  /\ op.kind \in {"edit", "metadata"} =>
       \E m \in 1 .. Len(Snap(c).ops) :
         /\ Snap(c).ops[m].id = op.target
         /\ op.kind = "edit" => Snap(c).ops[m].kind \in CommentKind

LEMMA AppendStep ==
  ASSUME Inv, NEW c \in Clone, NEW op, Makes(c, op), Append_(c, op)
  PROVE  Inv'
<1> DEFINE s == loaded[c] \o staging[c]
           new == NextId
<1>1. /\ DagShape(dag) /\ IdShape(dag, packId) /\ OpsShape(ops) /\ Causal(dag, ops)
      /\ base[c] \in 1 .. Len(dag) /\ base[c] # 0
      /\ InMemory(dag, packId, ops, base[c], loaded[c], staging[c], view[c])
      /\ StagedIn(dag, ops, staging[c])
  <2>1. base[c] \in 0 .. Len(dag) /\ base[c] # 0 /\ Len(dag) \in Nat
    BY DEF Inv, Stored, Refs, Makes, DagShape
  <2>2. QED
    BY <2>1 DEF Inv, Stored, Staged, Memory
<1>2. /\ s \in Seq(Op) /\ loaded[c] \in Seq(Op) /\ staging[c] \in Seq(Op)
      /\ \A n \in 1 .. Len(s) : s[n].id \in 1 .. Len(ops) /\ s[n] = ops[s[n].id]
  <2> DEFINE b == base[c]
             ld == loaded[c]
             st == staging[c]
             vw == view[c]
  <2>1. b \in 1 .. Len(dag) /\ InMemory(dag, packId, ops, b, ld, st, vw) /\ StagedIn(dag, ops, st)
    BY <1>1
  <2> HIDE DEF b, ld, st, vw
  <2>2. /\ ld \o st \in Seq(Op) /\ ld \in Seq(Op) /\ st \in Seq(Op)
        /\ \A n \in 1 .. Len(ld \o st) :
             (ld \o st)[n].id \in 1 .. Len(ops) /\ (ld \o st)[n] = ops[(ld \o st)[n].id]
    BY <2>1, <1>1, MemoryOps
  <2>3. QED
    BY <2>2 DEF ld, st
<1>3. Grounded(s) /\ view[c] = Compile(s, NoExtra) /\ Snap(c).ops = s /\ Sound(view[c])
  <2>1. Grounded(s) /\ view[c] = Compile(s, NoExtra)
    BY <1>1 DEF InMemory
  <2>2. Sound(view[c]) /\ view[c].snap.ops = s
    <3> DEFINE b == base[c]
               ld == loaded[c]
               st == staging[c]
               vw == view[c]
    <3>1. b # 0 /\ InMemory(dag, packId, ops, b, ld, st, vw)
      BY <1>1
    <3> HIDE DEF b, ld, st, vw
    <3>2. Sound(vw) /\ vw.snap.ops = ld \o st
      BY <3>1, InMemorySound
    <3>3. QED
      BY <3>2 DEF s, ld, st, vw
  <2>3. QED
    BY <2>1, <2>2 DEF Snap
<1>4. /\ op \in Op /\ op.id = new /\ op.kind # "create"
      /\ op.kind \in {"edit", "metadata"} =>
           \E m \in 1 .. Len(s) : s[m].id = op.target /\ (op.kind = "edit" => s[m].kind \in CommentKind)
  BY <1>3 DEF Makes
<1> HIDE DEF s
<1>5. /\ ops \in Seq(Op) /\ Len(ops) \in 1 .. MaxOps /\ Len(ops) < MaxOps /\ new = Len(ops) + 1
      /\ Len(ops) \in Nat /\ MaxOps \in Nat /\ Len(ops') = new /\ ops'[new] = op
      /\ ops' = Append(ops, op) /\ \A o \in 1 .. Len(ops) : ops'[o] = ops[o]
      /\ \A o : o \in 1 .. new <=> o \in 1 .. Len(ops) \/ o = new
  BY <1>1, <1>4, BoundAssumption DEF OpsShape, Append_, NextId
<1> HIDE DEF new
<1>6. OpsShape(ops')
  <2>1. ops' \in Seq(Op) /\ Len(ops') \in 1 .. MaxOps
    BY <1>4, <1>5
  <2>2. ASSUME NEW o \in 1 .. new
        PROVE  /\ ops'[o].id = o
               /\ ops'[o].kind = "create" <=> o = 1
               /\ ops'[o].kind \in {"edit", "metadata"} => ops'[o].target \in 1 .. o - 1
               /\ ops'[o].kind = "edit" => ops'[ops'[o].target].kind \in CommentKind
    <3>1. CASE o \in 1 .. Len(ops)
      <4>1. ops'[o] = ops[o]
        BY <3>1, <1>5
      <4>2. /\ ops[o].id = o
            /\ ops[o].kind = "create" <=> o = 1
            /\ ops[o].kind \in {"edit", "metadata"} => ops[o].target \in 1 .. o - 1
            /\ ops[o].kind = "edit" => ops[ops[o].target].kind \in CommentKind
        BY <3>1, <1>1 DEF OpsShape
      <4>3. ops[o].kind = "edit" => ops'[ops[o].target] = ops[ops[o].target]
        BY <3>1, <4>2, <1>5
      <4>4. QED
        BY <4>1, <4>2, <4>3
    <3>2. CASE o = new
      <4>1. ops'[o] = op /\ o # 1
        BY <3>2, <1>5
      <4>2. CASE op.kind \in {"edit", "metadata"}
        <5>1. PICK m \in 1 .. Len(s) :
                s[m].id = op.target /\ (op.kind = "edit" => s[m].kind \in CommentKind)
          BY <4>2, <1>4
        <5>2. op.target \in 1 .. Len(ops) /\ ops'[op.target] = s[m]
          BY <5>1, <1>2, <1>5
        <5>3. o - 1 = Len(ops)
          BY <3>2, <1>5
        <5>4. QED
          BY <4>1, <4>2, <5>1, <5>2, <5>3, <3>2, <1>4
      <4>3. CASE op.kind \notin {"edit", "metadata"}
        BY <4>1, <4>3, <3>2, <1>4
      <4>4. QED
        BY <4>2, <4>3
    <3>3. QED
      BY <3>1, <3>2, <1>5
  <2>3. QED
    BY <2>1, <2>2, <1>5 DEF OpsShape
<1>7. UNCHANGED <<dag, packId, reading, local, remote, clock, base, loaded>>
  BY DEF Append_
<1>8. Causal(dag, ops')
  BY <1>1, <1>5 DEF Causal
<1>9. Stored'
  BY <1>6, <1>7, <1>8 DEF Inv, Stored
<1>10. Refs'
  BY <1>7 DEF Inv, Refs, Time
<1> DEFINE st == Append(staging[c], op)
<1>11. /\ staging \in [Clone -> Seq(Op)] /\ staging' = [staging EXCEPT ![c] = st]
       /\ view \in [Clone -> ViewRecord] /\ view' = [view EXCEPT ![c] = Apply(view[c], op)]
  BY DEF Inv, Staged, Memory, Append_
<1>12. /\ st \in Seq(Op) /\ Len(staging[c]) \in Nat /\ Len(st) = Len(staging[c]) + 1
       /\ st[Len(staging[c]) + 1] = op /\ \A n \in 1 .. Len(staging[c]) : st[n] = staging[c][n]
       /\ \A n \in 1 .. Len(st) : n \in 1 .. Len(staging[c]) \/ n = Len(staging[c]) + 1
  BY <1>2, <1>4
<1>13. \A e \in Clone : \A n \in 1 .. Len(staging[e]) : staging[e][n].id \in 1 .. Len(ops)
  BY DEF Inv, Staged, StagedIn
<1>14. \A k \in 1 .. Len(dag) : new \notin dag[k].ops
  BY <1>1, <1>5 DEF Causal
<1>15. StagedIn(dag, ops', st)
  <2>1. StagedIn(dag, ops', staging[c])
    BY <1>1, <1>4, <1>5, StagedMore
  <2> HIDE DEF st
  <2>2. ASSUME NEW m \in 1 .. Len(st), NEW n \in 1 .. Len(st), m < n
        PROVE  st[m].id < st[n].id
    <3>1. m \in 1 .. Len(staging[c])
      BY <2>2, <1>12
    <3>2. CASE n \in 1 .. Len(staging[c])
      BY <2>1, <2>2, <3>1, <3>2, <1>12 DEF StagedIn
    <3>3. CASE n = Len(staging[c]) + 1
      <4>1. st[n] = op /\ st[m] = staging[c][m] /\ st[m].id \in 1 .. Len(ops)
        BY <3>1, <3>3, <1>12, <1>13
      <4>2. QED
        BY <4>1, <1>4, <1>5
    <3>4. QED
      BY <3>2, <3>3, <1>12
  <2>3. ASSUME NEW n \in 1 .. Len(st)
        PROVE  /\ st[n].id \in 1 .. Len(ops') /\ ops'[st[n].id] = st[n]
               /\ \A k \in 1 .. Len(dag) : st[n].id \notin dag[k].ops
    <3>1. CASE n \in 1 .. Len(staging[c])
      <4>1. st[n] = staging[c][n]
        BY <3>1, <1>12
      <4>2. QED
        BY <4>1, <3>1, <2>1 DEF StagedIn
    <3>2. CASE n = Len(staging[c]) + 1
      <4>1. st[n] = op
        BY <3>2, <1>12
      <4>2. QED
        BY <4>1, <1>4, <1>5, <1>14
    <3>3. QED
      BY <3>1, <3>2, <1>12
  <2>4. QED
    BY <2>2, <2>3, <1>12 DEF StagedIn
<1>16. Staged'
  <2>1. staging' \in [Clone -> Seq(Op)]
    BY <1>11, <1>12
  <2>2. ASSUME NEW e \in Clone
        PROVE  StagedIn(dag, ops', staging'[e])
    <3>1. CASE e = c
      BY <3>1, <1>11, <1>15
    <3>2. CASE e # c
      <4>1. staging'[e] = staging[e] /\ StagedIn(dag, ops, staging[e])
        BY <3>2, <1>11 DEF Inv, Staged
      <4>2. QED
        BY <4>1, <1>4, <1>5, StagedMore
    <3>3. QED
      BY <3>1, <3>2
  <2>3. ASSUME NEW e \in Clone, e # c, NEW m \in 1 .. Len(st), NEW n \in 1 .. Len(staging[e])
        PROVE  st[m].id # staging[e][n].id
    <3> HIDE DEF st
    <3>1. CASE m \in 1 .. Len(staging[c])
      BY <2>3, <3>1, <1>12 DEF Inv, Staged
    <3>2. CASE m = Len(staging[c]) + 1
      <4>1. st[m].id = Len(ops) + 1 /\ staging[e][n].id \in 1 .. Len(ops)
        BY <3>2, <1>4, <1>5, <1>12, <1>13
      <4>2. QED
        BY <4>1, <1>5
    <3>3. QED
      BY <3>1, <3>2, <1>12
  <2>4. \A e, f \in Clone : e # f =>
          \A m \in 1 .. Len(staging'[e]), n \in 1 .. Len(staging'[f]) :
            staging'[e][m].id # staging'[f][n].id
    <3> HIDE DEF st
    <3>1. /\ staging'[c] = st /\ \A e \in Clone : e # c => staging'[e] = staging[e]
      BY <1>11
    <3>2. \A e, f \in Clone : e # f =>
            \A m \in 1 .. Len(staging[e]), n \in 1 .. Len(staging[f]) :
              staging[e][m].id # staging[f][n].id
      BY DEF Inv, Staged
    <3>3. QED
      BY <3>1, <3>2, <2>3
  <2>5. QED
    BY <2>1, <2>2, <2>4, <1>7 DEF Staged
<1>17. InMemory(dag, packId, ops', base[c], loaded[c], st, Apply(view[c], op))
  <2>1. loaded[c] \o st = Append(s, op)
    <3>1. ASSUME NEW a \in Seq(Op), NEW b \in Seq(Op)
          PROVE  a \o Append(b, op) = Append(a \o b, op)
      BY <1>4
    <3>2. QED
      BY <3>1, <1>2 DEF s
  <2>2. Grounded(Append(s, op))
    BY <1>3, <1>4, GroundedAppend
  <2>3. Compile(Append(s, op), NoExtra) = Apply(view[c], op)
    <3>1. s # <<>>
      BY <1>3 DEF Grounded
    <3>2. QED
      BY <3>1, <1>2, <1>3, <1>4, CompileAppend
  <2>4. loaded[c] = Listed(Order(dag, packId, base[c]), ops')
    BY <1>1, <1>5, ListedFacts DEF InMemory
  <2>5. QED
    BY <2>1, <2>2, <2>3, <2>4, <1>1 DEF InMemory
<1>18. Memory'
  <2>1. Apply(view[c], op) \in ViewRecord
    BY <1>3, <1>4, ApplySound DEF Sound
  <2>2. view' \in [Clone -> ViewRecord] /\ loaded' \in [Clone -> Seq(Op)]
    BY <2>1, <1>7, <1>11 DEF Inv, Memory
  <2>3. ASSUME NEW e \in Clone
        PROVE  InMemory(dag, packId, ops', base[e], loaded[e], staging'[e], view'[e])
    <3>1. CASE e = c
      BY <3>1, <1>11, <1>17
    <3>2. CASE e # c
      <4>1. /\ staging'[e] = staging[e] /\ view'[e] = view[e] /\ base[e] \in 0 .. Len(dag)
            /\ InMemory(dag, packId, ops, base[e], loaded[e], staging[e], view[e])
        BY <3>2, <1>11 DEF Inv, Memory, Refs
      <4>2. QED
        BY <4>1, <1>1, <1>5, InMemoryMore
    <3>3. QED
      BY <3>1, <3>2
  <2>4. QED
    BY <2>2, <2>3, <1>7 DEF Memory
<1>19. QED
  BY <1>9, <1>10, <1>16, <1>18 DEF Inv

(* The calls that make an operation.                                       *)
LEMMA OperationType ==
  ASSUME NEW id \in Id, NEW a \in Clone, NEW kind,
         kind \in {"create", "comment", "edit", "title", "status", "metadata", "noop", "unknown"}
  PROVE  /\ Operation(id, kind, a) \in Op
         /\ Operation(id, kind, a).id = id /\ Operation(id, kind, a).kind = kind
         /\ Operation(id, kind, a).target = None
BY BoundAssumption DEF Operation, Op, OperationRecord, Id, None

LEMMA LabelChangeType ==
  ASSUME NEW id \in Id, NEW a \in Clone, NEW add \in Seq(Label), NEW remove \in Seq(Label)
  PROVE  /\ LabelChangeOp(id, a, add, remove) \in Op
         /\ LabelChangeOp(id, a, add, remove).id = id
         /\ LabelChangeOp(id, a, add, remove).kind = "labels"
<1> DEFINE op == LabelChangeOp(id, a, add, remove)
           o == Operation(id, "labels", a)
<1>1. op = [o EXCEPT !.add = add, !.remove = remove]
  BY DEF LabelChangeOp
<1>2. o \in OperationRecord /\ o.id = id /\ o.kind = "labels"
  BY BoundAssumption DEF Operation, OperationRecord, Id, None
<1> HIDE DEF op, o
<1>3. op \in OperationRecord /\ op.id = id /\ op.kind = "labels"
  BY <1>1, <1>2 DEF OperationRecord
<1>4. QED
  BY <1>3 DEF Op, op

LEMMA EditMakes ==
  ASSUME Inv, NEW c \in Clone, Edit(c)
  PROVE  \E op : Makes(c, op) /\ Append_(c, op)
<1> DEFINE os == Snap(c).ops
           labels == Snap(c).labels
<1>1. Sound(view[c]) /\ Landed(view[c])
      /\ (base[c] # 0 => os = loaded[c] \o staging[c] /\ Grounded(loaded[c] \o staging[c]))
  <2> DEFINE b == base[c]
             ld == loaded[c]
             st == staging[c]
             vw == view[c]
  <2>1. InMemory(dag, packId, ops, b, ld, st, vw)
    BY DEF Inv, Memory
  <2> HIDE DEF b, ld, st, vw
  <2>2. Sound(vw) /\ Landed(vw) /\ (b # 0 => vw.snap.ops = ld \o st)
    BY <2>1, InMemorySound
  <2>3. b # 0 => Grounded(ld \o st)
    BY <2>1 DEF InMemory
  <2>4. QED
    BY <2>2, <2>3 DEF b, ld, st, vw, Snap
<1>2. /\ os \in Seq(Op) /\ labels \in Seq(Label) /\ Len(os) \in Nat /\ DOMAIN os = 1 .. Len(os)
      /\ Snap(c).comments \in Seq(CommentRecord)
      /\ \A n \in 1 .. Len(os) : os[n] \in Op /\ os[n].id \in Id
      /\ base[c] # 0 => Len(os) > 0
  <2>1. os \in Seq(Op) /\ view[c].snap \in SnapRecord
    BY <1>1 DEF Sound, ViewRecord, Snap
  <2>2. labels \in Seq(Label) /\ Snap(c).comments \in Seq(CommentRecord)
    BY <2>1 DEF SnapRecord, Snap
  <2>3. base[c] # 0 => Len(os) > 0
    BY <1>1 DEF Grounded
  <2> HIDE DEF os, labels
  <2>4. \A n \in 1 .. Len(os) : os[n] \in Op
    BY <2>1
  <2>5. \A n \in 1 .. Len(os) : os[n].id \in Id
    BY <2>4 DEF Op, OperationRecord, Id
  <2>6. QED
    BY <2>1, <2>2, <2>3, <2>4, <2>5
<1>3. \A op : Append_(c, op) => NextId \in Id
  <2>1. Len(ops) \in Nat
    BY DEF Inv, Stored, OpsShape
  <2>2. QED
    BY <2>1, BoundAssumption DEF Append_, NextId, Id
<1> HIDE DEF os, labels
<1>4. Loaded(c)
  BY DEF Edit, AddComment, EditComment, SetTitle, SetStatus, ChangeLabels, ForceChangeLabels,
         SetMetadata, LaterVersion
<1>5. base[c] # 0
  BY <1>4 DEF Loaded
<1>6. CASE AddComment(c)
  <2>1. Append_(c, AddCommentOp(NextId, c))
    BY <1>6 DEF AddComment
  <2>2. NextId \in Id
    BY <2>1, <1>3
  <2>3. Makes(c, AddCommentOp(NextId, c))
    BY <2>2, <1>5, OperationType DEF Makes, AddCommentOp
  <2>4. QED
    BY <2>1, <2>3
<1>7. CASE EditComment(c)
  <2>1. PICK target \in SearchComment(c) : Append_(c, EditCommentOp(NextId, c, target))
    BY <1>7 DEF EditComment
  <2>2. NextId \in Id
    BY <2>1, <1>3
  <2> DEFINE cs == Snap(c).comments
             op == EditCommentOp(NextId, c, target)
  <2>3. PICK n \in 1 .. Len(cs) : target = cs[n].target
    BY <1>2 DEF SearchComment, Range
  <2>4. PICK m \in 1 .. Len(os) : os[m].id = cs[n].target /\ os[m].kind \in CommentKind
    BY <1>1 DEF Landed, Snap, os
  <2>5. target \in Id /\ os[m].id = target
    BY <2>3, <2>4, <1>2
  <2>6. /\ op \in Op /\ op.id = NextId /\ op.kind = "edit" /\ op.target = target
    <3> DEFINE o == Operation(NextId, "edit", c)
    <3>1. o \in Op /\ o.id = NextId /\ o.kind = "edit"
      BY <2>2, OperationType
    <3>2. target \in 0 .. MaxOps
      BY <2>5, BoundAssumption DEF Id
    <3> HIDE DEF o
    <3>3. op = [o EXCEPT !.target = target]
      BY DEF EditCommentOp, o
    <3>4. QED
      BY <3>1, <3>2, <3>3 DEF Op, OperationRecord
  <2> HIDE DEF op
  <2>7. Makes(c, op)
    BY <2>4, <2>5, <2>6, <1>5 DEF Makes, os
  <2>8. QED
    BY <2>1, <2>7 DEF op
<1>8. CASE SetTitle(c)
  <2> DEFINE titles == {n \in DOMAIN os : os[n].kind = "title"}
             place == IF titles = {} THEN 1 ELSE Max(titles)
             was == os[place].id
             op == SetTitleOp(NextId, c, was)
  <2>1. Append_(c, op)
    BY <1>8 DEF SetTitle, os
  <2>2. NextId \in Id
    BY <2>1, <1>3
  <2>3. place \in 1 .. Len(os)
    <3>1. titles \in SUBSET (1 .. Len(os))
      BY <1>2
    <3> HIDE DEF titles
    <3>2. titles # {} => Max(titles) \in titles
      BY <3>1, <1>2, MaxOf
    <3>3. 1 \in 1 .. Len(os)
      BY <1>2, <1>5
    <3>4. QED
      BY <3>1, <3>2, <3>3
  <2> HIDE DEF place
  <2>4. was \in Id
    BY <2>3, <1>2
  <2> HIDE DEF was
  <2>5. op \in Op /\ op.id = NextId /\ op.kind = "title"
    <3> DEFINE o == Operation(NextId, "title", c)
    <3>1. o \in Op /\ o.id = NextId /\ o.kind = "title"
      BY <2>2, OperationType
    <3>2. was \in 0 .. MaxOps
      BY <2>4, BoundAssumption DEF Id
    <3> HIDE DEF o
    <3>3. op = [o EXCEPT !.was = was]
      BY DEF SetTitleOp, o
    <3>4. QED
      BY <3>1, <3>2, <3>3 DEF Op, OperationRecord
  <2> HIDE DEF op
  <2>6. Makes(c, op)
    BY <2>5, <1>5 DEF Makes
  <2>7. QED
    BY <2>1, <2>6
<1>9. CASE SetStatus(c)
  <2> DEFINE other == IF Snap(c).status = "open" THEN "closed" ELSE "open"
             op == SetStatusOp(NextId, c, other)
  <2>1. Append_(c, op)
    BY <1>9 DEF SetStatus
  <2>2. NextId \in Id
    BY <2>1, <1>3
  <2>3. op \in Op /\ op.id = NextId /\ op.kind = "status"
    <3> DEFINE o == Operation(NextId, "status", c)
    <3>1. o \in Op /\ o.id = NextId /\ o.kind = "status"
      BY <2>2, OperationType
    <3>2. other \in {"open", "closed"}
      OBVIOUS
    <3> HIDE DEF o, other
    <3>3. op = [o EXCEPT !.status = other]
      BY DEF SetStatusOp, o
    <3>4. QED
      BY <3>1, <3>2, <3>3 DEF Op, OperationRecord
  <2> HIDE DEF op
  <2>4. Makes(c, op)
    BY <2>3, <1>5 DEF Makes
  <2>5. QED
    BY <2>1, <2>4
<1>10. CASE ChangeLabels(c)
  <2>1. PICK add \in LabelRequest, remove \in LabelRequest :
          Append_(c, LabelChangeOp(NextId, c, Wanted(labels, add), Unwanted(labels, remove)))
    BY <1>10 DEF ChangeLabels, labels
  <2>2. NextId \in Id
    BY <2>1, <1>3
  <2>3. add \in Seq(Label) /\ remove \in Seq(Label)
    <3>1. ASSUME NEW l \in Label
          PROVE  <<l>> \in Seq(Label) /\ <<l, l>> \in Seq(Label)
      OBVIOUS
    <3>2. <<>> \in Seq(Label)
      OBVIOUS
    <3>3. \A s \in LabelRequest : s = <<>> \/ \E l \in Label : s = <<l>> \/ s = <<l, l>>
      BY DEF LabelRequest
    <3>4. QED
      BY <3>1, <3>2, <3>3
  <2>4. ASSUME NEW s \in Seq(Label), NEW T
        PROVE  FoldLeft(AddOnce, <<>>, Among(s, T)) \in Seq(Label)
    <3> DEFINE a == Among(s, T)
    <3>1. a \in Seq(Label \cap T)
      BY AmongFacts
    <3> HIDE DEF a
    <3>2. a \in Seq(Label) /\ <<>> \in Seq(Label)
      BY <3>1
    <3>3. FoldLeft(AddOnce, <<>>, a) \in Seq(Label)
      BY <3>2, AddAll
    <3>4. QED
      BY <3>3 DEF a
  <2>5. Wanted(labels, add) \in Seq(Label) /\ Unwanted(labels, remove) \in Seq(Label)
    BY <2>3, <2>4 DEF Wanted, Unwanted
  <2>6. Makes(c, LabelChangeOp(NextId, c, Wanted(labels, add), Unwanted(labels, remove)))
    BY <2>2, <2>5, <1>5, LabelChangeType DEF Makes
  <2>7. QED
    BY <2>1, <2>6
<1>11. CASE ForceChangeLabels(c)
  <2>1. PICK l \in Label : Append_(c, LabelChangeOp(NextId, c, <<l>>, <<l>>))
    BY <1>11 DEF ForceChangeLabels
  <2>2. NextId \in Id /\ <<l>> \in Seq(Label)
    BY <2>1, <1>3
  <2>3. Makes(c, LabelChangeOp(NextId, c, <<l>>, <<l>>))
    BY <2>2, <1>5, LabelChangeType DEF Makes
  <2>4. QED
    BY <2>1, <2>3
<1>12. CASE SetMetadata(c)
  <2>1. PICK n \in DOMAIN os : Append_(c, SetMetadataOp(NextId, c, os[n].id))
    BY <1>12 DEF SetMetadata, os
  <2>2. NextId \in Id /\ n \in 1 .. Len(os)
    BY <2>1, <1>2, <1>3
  <2> DEFINE target == os[n].id
             op == SetMetadataOp(NextId, c, target)
  <2>3. target \in Id
    BY <2>2, <1>2
  <2>4. op \in Op /\ op.id = NextId /\ op.kind = "metadata" /\ op.target = target
    <3> DEFINE o == Operation(NextId, "metadata", c)
    <3>1. o \in Op /\ o.id = NextId /\ o.kind = "metadata"
      BY <2>2, OperationType
    <3>2. target \in 0 .. MaxOps
      BY <2>3, BoundAssumption DEF Id
    <3> HIDE DEF o, target
    <3>3. op = [o EXCEPT !.target = target]
      BY DEF SetMetadataOp, o
    <3>4. QED
      BY <3>1, <3>2, <3>3 DEF Op, OperationRecord
  <2> HIDE DEF op
  <2>5. Makes(c, op)
    BY <2>2, <2>4, <1>5 DEF Makes, os
  <2>6. QED
    BY <2>1, <2>5 DEF op
<1>13. CASE LaterVersion(c)
  <2>1. PICK op \in {UnknownOp(NextId, c), NoOp(NextId, c)} : Append_(c, op)
    BY <1>13 DEF LaterVersion
  <2>2. NextId \in Id
    BY <2>1, <1>3
  <2>3. Makes(c, op)
    BY <2>2, <1>5, OperationType DEF Makes, UnknownOp, NoOp
  <2>4. QED
    BY <2>1, <2>3
<1>14. QED
  BY <1>6, <1>7, <1>8, <1>9, <1>10, <1>11, <1>12, <1>13 DEF Edit

------------------------------------------------------------------------------
(* A commit more.                                                          *)

StoresPack(p, i) ==
  /\ Fits(dag, p) /\ p \in PackRecord /\ p.edit <= MaxTime
  /\ i \in Int /\ (i = Len(dag) + 1 \/ i = - (Len(dag) + 1))
  /\ dag' = Append(dag, p) /\ packId' = Append(packId, i)
  /\ reading' = Append(reading, Reading(dag', packId', Len(dag) + 1))

LEMMA StoreFits ==
  ASSUME Stored, NEW parents \in Seq(1 .. Len(dag)), parents # <<>>, NEW content \in SUBSET Nat,
         NEW t \in Nat, \A n \in DOMAIN parents : dag[parents[n]].edit < t,
         \A k \in 1 .. Len(dag) : dag[k].ops \cap content = {},
         Store(parents, content, t)
  PROVE  \E p, i : StoresPack(p, i) /\ p.parents = parents /\ p.ops = content /\ p.edit = t
<1> DEFINE p == Pack(dag, parents, content, t, FALSE)
<1>1. /\ dag \in Seq(PackRecord) /\ Len(dag) \in Nat
      /\ \A k \in 1 .. Len(dag) : dag[k].hist \subseteq 1 .. k
  BY DEF Stored, DagShape
<1>2. \A n \in DOMAIN parents : parents[n] \in 1 .. Len(dag) /\ parents[n] # 0
  BY <1>1
<1>3. /\ p.parents = parents /\ p.ops = content /\ p.edit = t /\ p.root = FALSE
      /\ p.hist = {Len(dag) + 1} \union UNION {dag[parents[n]].hist : n \in DOMAIN parents}
      /\ p = [parents |-> p.parents, ops |-> p.ops, edit |-> p.edit, root |-> p.root, hist |-> p.hist]
  <2>1. {History(dag, parents[n]) : n \in DOMAIN parents} = {dag[parents[n]].hist : n \in DOMAIN parents}
    BY <1>2 DEF History
  <2>2. QED
    BY <2>1 DEF Pack
<1> HIDE DEF p
<1>4. p.hist \in SUBSET Nat
  <2>1. \A n \in DOMAIN parents : dag[parents[n]].hist \subseteq Nat
    BY <1>1, <1>2
  <2>2. QED
    BY <2>1, <1>1, <1>3
<1>5. p.parents \in Seq(Nat)
  <2>1. parents \in Seq(Nat)
    BY <1>1
  <2>2. QED
    BY <2>1, <1>3
<1>6. p \in PackRecord
  BY <1>3, <1>4, <1>5 DEF PackRecord
<1>7. Fits(dag, p)
  BY <1>3 DEF Fits
<1>8. PICK i \in PackIds(content, t) : packId' = Append(packId, i)
  BY DEF Store
<1>9. i \in Int /\ (i = Len(dag) + 1 \/ i = - (Len(dag) + 1))
  BY <1>1 DEF PackIds
<1>10. /\ dag' = Append(dag, p) /\ t <= MaxTime
       /\ reading' = Append(reading, Reading(dag', packId', Len(dag) + 1))
  BY DEF Store, p
<1>11. StoresPack(p, i)
  BY <1>3, <1>6, <1>7, <1>8, <1>9, <1>10 DEF StoresPack
<1>12. QED
  BY <1>3, <1>11

LEMMA StoredGrows ==
  ASSUME Stored, NEW p, NEW i, StoresPack(p, i), UNCHANGED ops,
         \A o \in p.ops :
           /\ o \in 1 .. Len(ops)
           /\ ops[o].kind \in {"edit", "metadata"} => ops[o].target \in OpsAt(dag', Len(dag) + 1)
  PROVE  /\ Stored' /\ Len(dag') = Len(dag) + 1 /\ Len(dag) \in Nat /\ dag'[Len(dag) + 1] = p
         /\ \A k \in 1 .. Len(dag) : dag'[k] = dag[k]
         /\ \A k \in 0 .. Len(dag) : EditTime(dag', k) = EditTime(dag, k)
<1> DEFINE N == Len(dag)
           new == N + 1
<1>1. DagShape(dag') /\ IdShape(dag', packId')
  BY DagGrows, IdsGrow DEF Stored, StoresPack
<1>2. /\ N \in Nat /\ Len(dag') = new /\ dag'[new] = p
      /\ \A k \in 1 .. N : dag'[k] = dag[k]
      /\ \A k : k \in 1 .. new <=> k \in 1 .. N \/ k = new
  BY DEF Stored, StoresPack, DagShape
<1>3. \A k \in 1 .. N : /\ OpsAt(dag', k) = OpsAt(dag, k)
                       /\ Order(dag', packId', k) = Order(dag, packId, k)
  <2>1. DagShape(dag) /\ IdShape(dag, packId) /\ dag' = Append(dag, p) /\ packId' = Append(packId, i)
    BY DEF Stored, StoresPack
  <2>2. QED
    BY <2>1, <1>1, OrderKept
<1> HIDE DEF new
<1>4. Causal(dag', ops)
  <2>1. ASSUME NEW c \in 1 .. new, NEW o \in dag'[c].ops
        PROVE  /\ o \in 1 .. Len(ops)
               /\ ops[o].kind \in {"edit", "metadata"} => ops[o].target \in OpsAt(dag', c)
    <3>1. CASE c = new
      BY <3>1, <2>1, <1>2 DEF new
    <3>2. CASE c \in 1 .. N
      BY <3>2, <2>1, <1>2, <1>3 DEF Stored, Causal
    <3>3. QED
      BY <3>1, <3>2, <1>2
  <2>2. QED
    BY <2>1, <1>2 DEF Causal
<1>5. OpsShape(ops)
  BY DEF Stored
<1>6. Order(dag', packId', new) \in Seq(Nat)
  <2> DEFINE d == dag'
             id == packId'
             order == Order(d, id, new)
             S == OpsAt(d, new)
  <2>1. DagShape(d) /\ IdShape(d, id) /\ Causal(d, ops) /\ new \in 1 .. Len(d)
    BY <1>1, <1>2, <1>4
  <2> HIDE DEF d, id
  <2>2. S \subseteq 1 .. Len(ops) /\ order \in Seq(S)
    BY <2>1, <1>5, OrderFacts
  <2> HIDE DEF order, S
  <2>3. order \in Seq(Nat)
    <3>1. \A o \in S : o \in Nat
      BY <2>2
    <3>2. ASSUME NEW T, NEW s \in Seq(T)
          PROVE  s \in [1 .. Len(s) -> T] /\ Len(s) \in Nat
      OBVIOUS
    <3>3. order \in [1 .. Len(order) -> Nat] /\ Len(order) \in Nat
      <4>1. order \in [1 .. Len(order) -> S] /\ Len(order) \in Nat
        BY <2>2, <3>2
      <4>2. QED
        BY <3>1, <4>1
    <3>4. QED
      BY <3>3
  <2>4. QED
    BY <2>3 DEF order, d, id
<1>7. /\ reading \in Seq(ReadingRecord) /\ Len(reading) = N
      /\ reading' = Append(reading, Reading(dag', packId', new))
  BY DEF Stored, StoresPack, new
<1>8. /\ Reading(dag', packId', new) \in ReadingRecord
      /\ Reading(dag', packId', new).order = Order(dag', packId', new)
  BY <1>6 DEF Reading, ReadingRecord
<1>9. /\ reading' \in Seq(ReadingRecord) /\ Len(reading') = new
      /\ \A k \in 1 .. N : reading'[k] = reading[k]
      /\ reading'[new] = Reading(dag', packId', new)
  <2> DEFINE r == Reading(dag', packId', new)
  <2>1. r \in ReadingRecord /\ new = N + 1
    BY <1>8 DEF new
  <2> HIDE DEF r
  <2>2. reading' = Append(reading, r)
    BY <1>7 DEF r
  <2>3. QED
    BY <2>1, <2>2, <1>2, <1>7 DEF r
<1>10. \A k \in 1 .. new : reading'[k].order = Order(dag', packId', k)
  <2>1. \A k \in 1 .. N : reading[k].order = Order(dag, packId, k)
    BY DEF Stored
  <2>2. QED
    BY <2>1, <1>2, <1>3, <1>8, <1>9
<1>11. \A k \in 1 .. new : dag'[k].edit <= MaxTime
  BY <1>2 DEF Stored, StoresPack
<1>12. Stored'
  BY <1>1, <1>2, <1>4, <1>5, <1>9, <1>10, <1>11 DEF Stored
<1>13. \A k \in 0 .. N : EditTime(dag', k) = EditTime(dag, k)
  <2>1. \A k \in 0 .. N : k # 0 => k \in 1 .. N
    BY <1>2
  <2>2. QED
    BY <2>1, <1>2 DEF EditTime
<1>14. QED
  BY <1>2, <1>12, <1>13 DEF new

(* What is staged becomes what is read: the order of the staging area is   *)
(* that of the pack.                                                       *)
LEMMA CommitReads ==
  ASSUME NEW d, DagShape(d), NEW id, IdShape(d, id), NEW os, OpsShape(os), Causal(d, os),
         NEW p \in PackRecord, Fits(d, p), NEW i \in Int, i = Len(d) + 1 \/ i = - (Len(d) + 1),
         NEW b \in 1 .. Len(d), p.parents = <<b>>,
         NEW ld, NEW st, NEW vw, InMemory(d, id, os, b, ld, st, vw), StagedIn(d, os, st),
         p.ops = {st[n].id : n \in 1 .. Len(st)}
  PROVE  /\ OpsAt(Append(d, p), Len(d) + 1) = OpsAt(d, b) \union p.ops
         /\ InMemory(Append(d, p), Append(id, i), os, Len(d) + 1, ld \o st, <<>>, vw)
         /\ \A o \in p.ops :
              /\ o \in 1 .. Len(os)
              /\ os[o].kind \in {"edit", "metadata"} =>
                   os[o].target \in OpsAt(Append(d, p), Len(d) + 1)
<1> DEFINE ids == [n \in 1 .. Len(st) |-> st[n].id]
           s == ld \o st
           order == Order(d, id, b)
           new == Len(d) + 1
           S == OpsAt(d, b)
<1>1. /\ s \in Seq(Op) /\ ld \in Seq(Op) /\ st \in Seq(Op)
      /\ \A n \in 1 .. Len(s) :
           /\ s[n].id \in 1 .. Len(os) /\ s[n] = os[s[n].id]
           /\ s[n].id \in S \union {st[k].id : k \in 1 .. Len(st)}
  BY MemoryOps
<1>2. b # 0 /\ Len(d) \in Nat /\ new # 0
  BY DEF DagShape
<1>3. ld = Listed(order, os) /\ Grounded(s) /\ vw = Compile(s, NoExtra)
  BY <1>2 DEF InMemory
<1>4. \A n \in 1 .. Len(st) : st[n].id \in 1 .. Len(os) /\ os[st[n].id] = st[n]
  BY DEF StagedIn
<1>5. /\ Len(ld) \in Nat /\ Len(st) \in Nat /\ Len(s) = Len(ld) + Len(st)
      /\ \A n \in 1 .. Len(ld) : s[n] = ld[n]
      /\ \A n \in 1 .. Len(st) : s[Len(ld) + n] = st[n] /\ Len(ld) + n \in 1 .. Len(s)
  BY <1>1
<1> HIDE DEF s
<1>6. ids \in Seq(Nat) /\ Len(ids) = Len(st) /\ \A n \in 1 .. Len(st) : ids[n] = st[n].id
  <2>1. \A n \in 1 .. Len(st) : st[n].id \in Nat
    BY <1>4
  <2>2. QED
    BY <2>1, <1>5
<1>7. Ascending(ids)
  BY <1>6 DEF StagedIn, Ascending
<1>8. p.ops = Range(ids)
  <2>1. Range(ids) = {ids[n] : n \in 1 .. Len(ids)}
    BY <1>6 DEF Range
  <2>2. QED
    BY <2>1, <1>6
<1> HIDE DEF ids, order, new, S
<1>9. /\ OpsAt(Append(d, p), new) = S \union p.ops
      /\ Order(Append(d, p), Append(id, i), new) = order \o ids
  <2>1. /\ OpsAt(Append(d, p), Len(d) + 1) = OpsAt(d, b) \union p.ops
        /\ Order(Append(d, p), Append(id, i), Len(d) + 1) = Order(d, id, b) \o ids
    <3>1. OnTop(d, p, i, b, ids)
      BY <1>6, <1>7, <1>8 DEF OnTop
    <3>2. QED
      BY <3>1, OrderGrows
  <2>2. QED
    BY <2>1 DEF new, S, order
<1>10. Listed(order \o ids, os) = s
  <2>1. order \in Seq(S)
    BY OrderFacts DEF order, S
  <2>2. DOMAIN order = 1 .. Len(order) /\ Len(order) \in Nat
    BY <2>1
  <2>3. Len(ld) = Len(order) /\ \A n \in 1 .. Len(order) : ld[n] = os[order[n]]
    BY <2>2, <1>3 DEF Listed
  <2> DEFINE u == order \o ids
  <2>4. /\ DOMAIN u = 1 .. Len(s)
        /\ \A n \in 1 .. Len(order) : u[n] = order[n]
        /\ \A n \in 1 .. Len(ids) : u[Len(order) + n] = ids[n]
    <3>1. /\ DOMAIN u = 1 .. Len(order) + Len(ids)
          /\ \A n \in 1 .. Len(order) : u[n] = order[n]
          /\ \A n \in 1 .. Len(ids) : u[Len(order) + n] = ids[n]
      <4>1. ASSUME NEW a \in Seq(Nat), NEW f \in Seq(Nat)
            PROVE  /\ DOMAIN (a \o f) = 1 .. Len(a) + Len(f)
                   /\ \A n \in 1 .. Len(a) : (a \o f)[n] = a[n]
                   /\ \A n \in 1 .. Len(f) : (a \o f)[Len(a) + n] = f[n]
        OBVIOUS
      <4>2. S \subseteq Nat
        <5>1. S \subseteq 1 .. Len(os)
          BY OrderFacts DEF S
        <5>2. QED
          BY <5>1
      <4>3. order \in Seq(Nat)
        BY <2>1, <4>2, SeqMonotonic
      <4>4. QED
        BY <4>1, <4>3, <1>6
    <3>2. Len(s) = Len(order) + Len(ids)
      BY <2>3, <1>5, <1>6
    <3>3. QED
      BY <3>1, <3>2
  <2> HIDE DEF u
  <2>5. \A n \in 1 .. Len(s) : os[u[n]] = s[n]
    <3> SUFFICES ASSUME NEW n \in 1 .. Len(s)
                 PROVE  os[u[n]] = s[n]
      OBVIOUS
    <3>1. CASE n \in 1 .. Len(order)
      BY <3>1, <2>3, <2>4, <1>5
    <3>2. CASE n \notin 1 .. Len(order)
      <4> DEFINE m == n - Len(order)
      <4>1. m \in 1 .. Len(st) /\ n = Len(order) + m
        BY <3>2, <2>2, <2>3, <1>5
      <4> HIDE DEF m
      <4>2. u[n] = st[m].id /\ s[n] = st[m]
        BY <4>1, <2>3, <2>4, <1>5, <1>6
      <4>3. QED
        BY <4>1, <4>2, <1>4
    <3>3. QED
      BY <3>1, <3>2
  <2>6. Listed(u, os) = [n \in 1 .. Len(s) |-> s[n]]
    BY <2>4, <2>5 DEF Listed
  <2>7. s = [n \in 1 .. Len(s) |-> s[n]]
    BY <1>1
  <2>8. QED
    BY <2>6, <2>7 DEF u
<1>11. s \o <<>> = s
  BY <1>1
<1>12. InMemory(Append(d, p), Append(id, i), os, new, s, <<>>, vw)
  BY <1>2, <1>3, <1>9, <1>10, <1>11 DEF InMemory
<1>13. ASSUME NEW o \in p.ops
       PROVE  /\ o \in 1 .. Len(os)
              /\ os[o].kind \in {"edit", "metadata"} => os[o].target \in OpsAt(Append(d, p), new)
  <2>1. PICK n \in 1 .. Len(st) : o = st[n].id
    OBVIOUS
  <2>2. o \in 1 .. Len(os) /\ os[o] = s[Len(ld) + n] /\ Len(ld) + n \in 1 .. Len(s)
    BY <2>1, <1>4, <1>5
  <2>3. ASSUME os[o].kind \in {"edit", "metadata"}
        PROVE  os[o].target \in OpsAt(Append(d, p), new)
    <3>1. PICK m \in 1 .. Len(ld) + n - 1 : s[m].id = os[o].target
      BY <2>2, <2>3, <1>3 DEF Grounded
    <3>2. m \in 1 .. Len(s)
      BY <2>2, <1>5
    <3>3. s[m].id \in S \union p.ops
      BY <3>2, <1>1
    <3>4. QED
      BY <3>1, <3>3, <1>9
  <2>4. QED
    BY <2>2, <2>3
<1>14. QED
  BY <1>9, <1>12, <1>13 DEF new, S, s

LEMMA CommitStep ==
  ASSUME Inv, NEW c \in Clone, Commit(c)
  PROVE  Inv'
<1> DEFINE b == base[c]
           st == staging[c]
           ld == loaded[c]
           vw == view[c]
           t == clock[c] + 1
           content == {op.id : op \in Range(st)}
           new == Len(dag) + 1
<1>1. /\ st # <<>> /\ local[c] = b /\ Store(<<b>>, content, t)
      /\ clock' = [clock EXCEPT ![c] = t] /\ local' = [local EXCEPT ![c] = new]
      /\ base' = [base EXCEPT ![c] = new] /\ loaded' = [loaded EXCEPT ![c] = ld \o st]
      /\ staging' = [staging EXCEPT ![c] = <<>>]
      /\ UNCHANGED <<habit, ops, remote, view>>
  BY DEF Commit, CommitAt
<1>2. /\ Stored /\ DagShape(dag) /\ IdShape(dag, packId) /\ OpsShape(ops) /\ Causal(dag, ops)
      /\ InMemory(dag, packId, ops, b, ld, st, vw) /\ StagedIn(dag, ops, st)
      /\ st \in Seq(Op) /\ ld \in Seq(Op) /\ Len(dag) \in Nat
  BY DEF Inv, Stored, Staged, Memory, DagShape
<1>3. b \in 1 .. Len(dag)
  <2>1. b \in 0 .. Len(dag) /\ b # 0
    BY <1>1, <1>2 DEF Inv, Refs, InMemory
  <2>2. QED
    BY <2>1, <1>2
<1>4. content = {st[n].id : n \in 1 .. Len(st)}
  <2> HIDE DEF st
  <2>1. Range(st) = {st[n] : n \in 1 .. Len(st)}
    BY <1>2 DEF Range
  <2>2. QED
    BY <2>1
<1>5. /\ local \in [Clone -> 0 .. Len(dag)] /\ base \in [Clone -> 0 .. Len(dag)]
      /\ remote \in 0 .. Len(dag) /\ clock \in [Clone -> 0 .. MaxTime] /\ MaxTime \in Nat
      /\ \A e \in Clone : EditTime(dag, local[e]) <= clock[e]
  BY BoundAssumption DEF Inv, Refs, Time
<1>6. t \in Nat /\ dag[b].edit < t
  <2>1. EditTime(dag, b) <= clock[c] /\ clock[c] \in Nat
    BY <1>1, <1>5
  <2>2. EditTime(dag, b) = dag[b].edit
    BY <1>3 DEF EditTime
  <2>3. dag[b].edit \in Nat
    <3>1. dag[b] \in PackRecord
      <4> HIDE DEF b
      <4>1. QED
        BY <1>2, <1>3 DEF DagShape
    <3>2. QED
      BY <3>1 DEF PackRecord
  <2>4. QED
    BY <2>1, <2>2, <2>3
<1> HIDE DEF b, st, ld, vw, t, content, new
<1>7. content \in SUBSET Nat /\ \A k \in 1 .. Len(dag) : dag[k].ops \cap content = {}
  <2>1. \A n \in 1 .. Len(st) : st[n].id \in Nat /\ \A k \in 1 .. Len(dag) : st[n].id \notin dag[k].ops
    BY <1>2 DEF StagedIn
  <2>2. QED
    BY <2>1, <1>4
<1>8. <<b>> \in Seq(1 .. Len(dag)) /\ <<b>> # <<>> /\ \A n \in DOMAIN <<b>> : dag[<<b>>[n]].edit < t
  BY <1>3, <1>6
<1>9. PICK p, i : StoresPack(p, i) /\ p.parents = <<b>> /\ p.ops = content /\ p.edit = t
  <2> DEFINE parents == <<b>>
  <2>1. /\ parents \in Seq(1 .. Len(dag)) /\ parents # <<>>
        /\ \A n \in DOMAIN parents : dag[parents[n]].edit < t
        /\ Store(parents, content, t)
    BY <1>1, <1>8
  <2> HIDE DEF parents
  <2>2. \E p, i : StoresPack(p, i) /\ p.parents = parents /\ p.ops = content /\ p.edit = t
    <3>1. t \in Nat /\ content \in SUBSET Nat /\ Stored
      BY <1>2, <1>6, <1>7
    <3>2. \A k \in 1 .. Len(dag) : dag[k].ops \cap content = {}
      BY <1>7
    <3>3. \A P \in Seq(1 .. Len(dag)) :
            P # <<>> /\ (\A n \in DOMAIN P : dag[P[n]].edit < t) /\ Store(P, content, t) =>
              \E p, i : StoresPack(p, i) /\ p.parents = P /\ p.ops = content /\ p.edit = t
      BY ONLY <3>1, <3>2, StoreFits
    <3>4. QED
      BY <2>1, <3>3
  <2>3. QED
    BY <2>2 DEF parents
<1>10. /\ dag' = Append(dag, p) /\ packId' = Append(packId, i) /\ DagShape(Append(dag, p))
       /\ Fits(dag, p) /\ p \in PackRecord /\ i \in Int /\ (i = Len(dag) + 1 \/ i = - (Len(dag) + 1))
       /\ p.edit <= MaxTime
  BY <1>2, <1>9, DagGrows DEF StoresPack
<1>11. /\ OpsAt(Append(dag, p), new) = OpsAt(dag, b) \union p.ops
       /\ InMemory(Append(dag, p), Append(packId, i), ops, new, ld \o st, <<>>, vw)
       /\ \A o \in p.ops :
            /\ o \in 1 .. Len(ops)
            /\ ops[o].kind \in {"edit", "metadata"} => ops[o].target \in OpsAt(Append(dag, p), new)
  BY <1>2, <1>3, <1>4, <1>9, <1>10, CommitReads DEF new
<1>12. /\ Stored' /\ Len(dag') = Len(dag) + 1 /\ dag'[Len(dag) + 1] = p
       /\ \A k \in 0 .. Len(dag) : EditTime(dag', k) = EditTime(dag, k)
  BY <1>1, <1>2, <1>9, <1>10, <1>11, StoredGrows DEF new
<1>13. Refs'
  <2>1. \A k \in 0 .. Len(dag) : k \in 0 .. Len(dag')
    BY <1>2, <1>12
  <2>2. new \in 0 .. Len(dag') /\ EditTime(dag', new) = t /\ t \in 0 .. MaxTime
    BY <1>2, <1>5, <1>6, <1>9, <1>10, <1>12 DEF new, EditTime
  <2>3. /\ local' \in [Clone -> 0 .. Len(dag')] /\ base' \in [Clone -> 0 .. Len(dag')]
        /\ remote' \in 0 .. Len(dag') /\ clock' \in [Clone -> 0 .. MaxTime]
    BY <2>1, <2>2, <1>1, <1>5
  <2>4. \A e \in Clone : EditTime(dag', local'[e]) <= clock'[e]
    <3> SUFFICES ASSUME NEW e \in Clone
                 PROVE  EditTime(dag', local'[e]) <= clock'[e]
      OBVIOUS
    <3>1. CASE e = c
      <4>1. local'[e] = new /\ clock'[e] = t
        BY <3>1, <1>1, <1>5
      <4>2. QED
        BY <4>1, <2>2, <1>6
    <3>2. CASE e # c
      <4>1. local'[e] = local[e] /\ clock'[e] = clock[e]
        BY <3>2, <1>1, <1>5
      <4>2. QED
        BY <4>1, <1>5, <1>12
    <3>3. QED
      BY <3>1, <3>2
  <2>5. QED
    BY <2>3, <2>4 DEF Refs, Time
<1>14. /\ staging \in [Clone -> Seq(Op)] /\ loaded \in [Clone -> Seq(Op)]
       /\ view \in [Clone -> ViewRecord] /\ ld \o st \in Seq(Op)
       /\ staging'[c] = <<>> /\ loaded'[c] = ld \o st /\ base'[c] = new /\ view'[c] = vw
       /\ \A e \in Clone : e # c =>
            staging'[e] = staging[e] /\ loaded'[e] = loaded[e] /\ base'[e] = base[e] /\ view'[e] = view[e]
  BY <1>1, <1>2, <1>5 DEF Inv, Staged, Memory, vw
<1>15. Staged'
  <2>1. staging' \in [Clone -> Seq(Op)]
    BY <1>1, <1>14
  <2>2. ASSUME NEW e \in Clone
        PROVE  StagedIn(dag', ops, staging'[e])
    <3>1. CASE e = c
      BY <3>1, <1>14 DEF StagedIn
    <3>2. CASE e # c
      <4>1. \A n \in 1 .. Len(staging[e]) : staging[e][n].id \notin content
        BY <3>2, <1>4 DEF Inv, Staged, st
      <4>2. StagedIn(dag, ops, staging[e])
        BY DEF Inv, Staged
      <4>3. QED
        BY <3>2, <4>1, <4>2, <1>2, <1>9, <1>10, <1>14, StagedGrows
    <3>3. QED
      BY <3>1, <3>2
  <2>3. \A e, f \in Clone : e # f =>
          \A m \in 1 .. Len(staging'[e]), n \in 1 .. Len(staging'[f]) :
            staging'[e][m].id # staging'[f][n].id
    <3>1. \A e, f \in Clone : e # f =>
            \A m \in 1 .. Len(staging[e]), n \in 1 .. Len(staging[f]) :
              staging[e][m].id # staging[f][n].id
      BY DEF Inv, Staged
    <3>2. \A n \in 1 .. Len(staging'[c]) : FALSE
      BY <1>14
    <3>3. SUFFICES ASSUME NEW e \in Clone, NEW f \in Clone, e # f,
                          NEW m \in 1 .. Len(staging'[e]), NEW n \in 1 .. Len(staging'[f])
                   PROVE  staging'[e][m].id # staging'[f][n].id
      OBVIOUS
    <3>4. e # c /\ f # c
      BY <3>2
    <3>5. staging'[e] = staging[e] /\ staging'[f] = staging[f]
      BY <3>4, <1>14
    <3>6. QED
      BY <3>1, <3>3, <3>5
  <2>4. QED
    BY <2>1, <2>2, <2>3, <1>1 DEF Staged
<1>16. Memory'
  <2>1. loaded' \in [Clone -> Seq(Op)] /\ view' \in [Clone -> ViewRecord]
    BY <1>1, <1>14
  <2>2. ASSUME NEW e \in Clone
        PROVE  InMemory(dag', packId', ops, base'[e], loaded'[e], staging'[e], view'[e])
    <3>1. CASE e = c
      BY <3>1, <1>10, <1>11, <1>14
    <3>2. CASE e # c
      <4>1. base[e] \in 0 .. Len(dag)
            /\ InMemory(dag, packId, ops, base[e], loaded[e], staging[e], view[e])
        BY DEF Inv, Memory, Refs
      <4>2. QED
        BY <3>2, <4>1, <1>2, <1>10, <1>14, InMemoryGrows
    <3>3. QED
      BY <3>1, <3>2
  <2>3. QED
    BY <2>1, <2>2, <1>1 DEF Memory
<1>17. QED
  BY <1>12, <1>13, <1>15, <1>16 DEF Inv

------------------------------------------------------------------------------
(* The other steps.                                                        *)

LEMMA LaterFacts ==
  ASSUME NEW a \in Int, NEW b \in Int
  PROVE  a <= Later(a, b) /\ b <= Later(a, b) /\ (Later(a, b) = a \/ Later(a, b) = b)
BY DEF Later

LEMMA TimeType ==
  ASSUME Stored, NEW k \in 0 .. Len(dag)
  PROVE  EditTime(dag, k) \in 0 .. MaxTime /\ (k # 0 => k \in 1 .. Len(dag) /\ EditTime(dag, k) = dag[k].edit)
<1>1. Len(dag) \in Nat /\ MaxTime \in Nat
  BY BoundAssumption DEF Stored, DagShape
<1>2. CASE k = 0
  BY <1>1, <1>2 DEF EditTime
<1>3. CASE k # 0
  <2>1. k \in 1 .. Len(dag) /\ EditTime(dag, k) = dag[k].edit
    BY <1>1, <1>3 DEF EditTime
  <2>2. dag[k] \in PackRecord /\ dag[k].edit <= MaxTime
    BY <2>1 DEF Stored, DagShape
  <2>3. QED
    BY <2>1, <2>2, <1>1 DEF PackRecord
<1>4. QED
  BY <1>2, <1>3

LEMMA JoinStep ==
  ASSUME Inv, NEW c \in Clone, MergeJoin(c)
  PROVE  Inv'
<1> DEFINE parents == <<local[c], remote>>
           t == Later(clock[c], Later(Time(remote), Time(local[c]))) + 1
           new == Len(dag) + 1
<1>1. /\ Store(parents, {}, t) /\ clock' = [clock EXCEPT ![c] = t]
      /\ local' = [local EXCEPT ![c] = new]
      /\ UNCHANGED <<habit, ops, remote, instance>>
      /\ local[c] # 0 /\ remote # 0
  BY DEF MergeJoin, Diverged, CanRead
<1>2. /\ Stored /\ DagShape(dag) /\ IdShape(dag, packId) /\ Len(dag) \in Nat
  BY DEF Inv, Stored, DagShape
<1>3. /\ local \in [Clone -> 0 .. Len(dag)] /\ base \in [Clone -> 0 .. Len(dag)]
      /\ remote \in 0 .. Len(dag) /\ clock \in [Clone -> 0 .. MaxTime] /\ MaxTime \in Nat
      /\ \A e \in Clone : EditTime(dag, local[e]) <= clock[e]
  BY BoundAssumption DEF Inv, Refs, Time
<1>4. local[c] \in 1 .. Len(dag) /\ remote \in 1 .. Len(dag)
  BY <1>1, <1>2, <1>3
<1>5. t \in Nat /\ dag[local[c]].edit < t /\ dag[remote].edit < t
  <2> DEFINE a == Time(local[c])
             b == Time(remote)
             e == clock[c]
  <2>1. a \in Nat /\ b \in Nat /\ e \in Nat /\ a = dag[local[c]].edit /\ b = dag[remote].edit
    BY <1>2, <1>3, <1>4, TimeType DEF Time
  <2> HIDE DEF a, b, e
  <2>2. t = Later(e, Later(b, a)) + 1
    BY DEF a, b, e
  <2> HIDE DEF t
  <2>3. Later(b, a) \in Nat /\ b <= Later(b, a) /\ a <= Later(b, a)
    BY <2>1 DEF Later
  <2>4. Later(e, Later(b, a)) \in Nat /\ Later(b, a) <= Later(e, Later(b, a))
    BY <2>1, <2>3 DEF Later
  <2>5. QED
    BY <2>1, <2>2, <2>3, <2>4
<1>6. /\ parents \in Seq(1 .. Len(dag)) /\ parents # <<>>
      /\ \A n \in DOMAIN parents : dag[parents[n]].edit < t
  BY <1>4, <1>5
<1> HIDE DEF parents, t, new
<1>7. PICK p, i : StoresPack(p, i) /\ p.parents = parents /\ p.ops = {} /\ p.edit = t
  <2>1. {} \in SUBSET Nat /\ \A k \in 1 .. Len(dag) : dag[k].ops \cap {} = {}
    OBVIOUS
  <2>2. QED
    BY <2>1, <1>1, <1>2, <1>5, <1>6, StoreFits
<1>8. dag' = Append(dag, p) /\ packId' = Append(packId, i) /\ DagShape(Append(dag, p)) /\ p.edit <= MaxTime
  BY <1>2, <1>7, DagGrows DEF StoresPack
<1>9. /\ Stored' /\ Len(dag') = Len(dag) + 1 /\ dag'[Len(dag) + 1] = p
      /\ \A k \in 0 .. Len(dag) : EditTime(dag', k) = EditTime(dag, k)
  BY <1>1, <1>2, <1>7, StoredGrows
<1>10. Refs'
  <2>1. \A k \in 0 .. Len(dag) : k \in 0 .. Len(dag')
    BY <1>2, <1>9
  <2>2. new \in 0 .. Len(dag') /\ EditTime(dag', new) = t /\ t \in 0 .. MaxTime
    BY <1>2, <1>3, <1>5, <1>7, <1>8, <1>9 DEF new, EditTime
  <2>3. /\ local' \in [Clone -> 0 .. Len(dag')] /\ base' \in [Clone -> 0 .. Len(dag')]
        /\ remote' \in 0 .. Len(dag') /\ clock' \in [Clone -> 0 .. MaxTime]
    BY <2>1, <2>2, <1>1, <1>3 DEF instance
  <2>4. \A e \in Clone : EditTime(dag', local'[e]) <= clock'[e]
    <3> SUFFICES ASSUME NEW e \in Clone
                 PROVE  EditTime(dag', local'[e]) <= clock'[e]
      OBVIOUS
    <3>1. CASE e = c
      <4>1. local'[e] = new /\ clock'[e] = t
        BY <3>1, <1>1, <1>3
      <4>2. QED
        BY <4>1, <2>2, <1>5
    <3>2. CASE e # c
      <4>1. local'[e] = local[e] /\ clock'[e] = clock[e]
        BY <3>2, <1>1, <1>3
      <4>2. QED
        BY <4>1, <1>3, <1>9
    <3>3. QED
      BY <3>1, <3>2
  <2>5. QED
    BY <2>3, <2>4 DEF Refs, Time
<1>11. ASSUME NEW e \in Clone
       PROVE  /\ StagedIn(dag', ops, staging[e])
              /\ InMemory(dag', packId', ops, base[e], loaded[e], staging[e], view[e])
  <2>1. /\ StagedIn(dag, ops, staging[e]) /\ base[e] \in 0 .. Len(dag)
        /\ InMemory(dag, packId, ops, base[e], loaded[e], staging[e], view[e])
    BY <1>3 DEF Inv, Staged, Memory
  <2>2. StagedIn(dag', ops, staging[e])
    BY <2>1, <1>2, <1>7, <1>8, StagedGrows
  <2>3. InMemory(dag', packId', ops, base[e], loaded[e], staging[e], view[e])
    BY <2>1, <1>2, <1>8, InMemoryGrows
  <2>4. QED
    BY <2>2, <2>3
<1>12. Staged'
  BY <1>1, <1>11 DEF Inv, Staged, instance
<1>13. Memory'
  BY <1>1, <1>11 DEF Inv, Memory, instance
<1>14. QED
  BY <1>9, <1>10, <1>12, <1>13 DEF Inv

LEMMA TakeStep ==
  ASSUME Inv, NEW c \in Clone, MergeTake(c)
  PROVE  Inv'
<1>1. /\ local' = [local EXCEPT ![c] = remote]
      /\ clock' = [clock EXCEPT ![c] = Later(clock[c], Time(remote))]
      /\ UNCHANGED <<habit, ops, dag, packId, reading, remote, base, loaded, staging, view>>
  BY DEF MergeTake, instance
<1>2. /\ local \in [Clone -> 0 .. Len(dag)] /\ base \in [Clone -> 0 .. Len(dag)]
      /\ remote \in 0 .. Len(dag) /\ clock \in [Clone -> 0 .. MaxTime] /\ MaxTime \in Nat
      /\ \A e \in Clone : Time(local[e]) <= clock[e]
  BY BoundAssumption DEF Inv, Refs
<1>3. Time(remote) \in 0 .. MaxTime /\ clock[c] \in 0 .. MaxTime
  BY <1>2, TimeType DEF Inv, Time
<1> DEFINE t == Later(clock[c], Time(remote))
<1>4. t \in 0 .. MaxTime /\ Time(remote) <= t
  BY <1>2, <1>3 DEF Later
<1> HIDE DEF t
<1>5. \A e \in Clone : Time(local'[e]) <= clock'[e]
  <2> SUFFICES ASSUME NEW e \in Clone
               PROVE  Time(local'[e]) <= clock'[e]
    OBVIOUS
  <2>1. CASE e = c
    BY <2>1, <1>1, <1>2, <1>4 DEF t
  <2>2. CASE e # c
    BY <2>2, <1>1, <1>2
  <2>3. QED
    BY <2>1, <2>2
<1>6. local' \in [Clone -> 0 .. Len(dag)] /\ clock' \in [Clone -> 0 .. MaxTime]
  BY <1>1, <1>2, <1>4 DEF t
<1>7. Refs'
  BY <1>1, <1>2, <1>5, <1>6 DEF Refs, Time
<1>8. Stored' /\ Staged' /\ Memory'
  BY <1>1 DEF Inv, Stored, Staged, Memory
<1>9. QED
  BY <1>7, <1>8 DEF Inv

LEMMA PushStep ==
  ASSUME Inv, NEW c \in Clone, Push(c)
  PROVE  Inv'
<1>1. /\ remote' = local[c]
      /\ UNCHANGED <<habit, ops, dag, packId, reading, local, clock, base, loaded, staging, view>>
  BY DEF Push, store, instance
<1>2. Refs'
  BY <1>1 DEF Inv, Refs, Time
<1>3. Stored' /\ Staged' /\ Memory'
  BY <1>1 DEF Inv, Stored, Staged, Memory
<1>4. QED
  BY <1>2, <1>3 DEF Inv

LEMMA ConflictStep ==
  ASSUME Inv, NEW c \in Clone, CommitConflict(c)
  PROVE  Inv'
<1> DEFINE ld == loaded[c]
           st == staging[c]
           s == ld \o st
<1>1. /\ clock' = [clock EXCEPT ![c] = clock[c] + 1] /\ clock[c] < MaxTime - MaxCommits
      /\ view' = [view EXCEPT ![c] = Compile(s, view[c].extra)] /\ st # <<>>
      /\ UNCHANGED <<habit, ops, dag, packId, reading, local, remote, base, loaded, staging>>
  BY DEF CommitConflict
<1>2. InMemory(dag, packId, ops, base[c], ld, st, view[c]) /\ view \in [Clone -> ViewRecord]
  BY DEF Inv, Memory
<1>3. Grounded(s) /\ view[c] = Compile(s, NoExtra)
  BY <1>1, <1>2 DEF InMemory
<1> HIDE DEF ld, st, s
<1>4. Compile(s, view[c].extra) = view[c]
  <2>1. s \in Seq(Op) /\ s # <<>>
    BY <1>3 DEF Grounded
  <2>2. Compile(s, Compile(s, NoExtra).extra) = Compile(s, NoExtra)
    BY <2>1, NoExtraType, CompileAgain
  <2>3. QED
    BY <2>2, <1>3
<1>5. view' = view
  BY <1>1, <1>2, <1>4
<1>6. /\ clock \in [Clone -> 0 .. MaxTime] /\ {MaxTime, MaxCommits} \subseteq Nat
      /\ \A e \in Clone : Time(local[e]) <= clock[e] /\ Time(local[e]) \in 0 .. MaxTime
  BY BoundAssumption, TimeType DEF Inv, Refs, Time
<1>7. clock[c] + 1 \in 0 .. MaxTime
  BY <1>1, <1>6
<1>8. clock' \in [Clone -> 0 .. MaxTime] /\ \A e \in Clone : clock[e] <= clock'[e]
  BY <1>1, <1>6, <1>7
<1>9. \A e \in Clone : Time(local[e]) <= clock'[e]
  <2> SUFFICES ASSUME NEW e \in Clone
               PROVE  Time(local[e]) <= clock'[e]
    OBVIOUS
  <2>1. clock[e] \in Int /\ clock'[e] \in Int /\ Time(local[e]) \in Int
    BY <1>6, <1>8
  <2>2. QED
    BY <2>1, <1>6, <1>8
<1>10. Refs'
  BY <1>1, <1>8, <1>9 DEF Inv, Refs, Time
<1>11. Stored' /\ Staged' /\ Memory'
  BY <1>1, <1>5 DEF Inv, Stored, Staged, Memory
<1>12. QED
  BY <1>10, <1>11 DEF Inv

LEMMA ReloadStep ==
  ASSUME Inv, NEW c \in Clone, Reload(c)
  PROVE  Inv'
<1> DEFINE b == local[c]
           s == Listed(Order(dag, packId, b), ops)
           t == Later(clock[c], Time(b))
<1>1. /\ Stored /\ DagShape(dag) /\ IdShape(dag, packId) /\ OpsShape(ops) /\ Causal(dag, ops)
      /\ Len(dag) \in Nat /\ \A k \in 1 .. Len(dag) : reading[k].order = Order(dag, packId, k)
  BY DEF Inv, Stored, DagShape
<1>2. /\ local \in [Clone -> 0 .. Len(dag)] /\ base \in [Clone -> 0 .. Len(dag)]
      /\ remote \in 0 .. Len(dag) /\ clock \in [Clone -> 0 .. MaxTime] /\ MaxTime \in Nat
      /\ \A e \in Clone : Time(local[e]) <= clock[e]
  BY BoundAssumption DEF Inv, Refs
<1>3. b # 0 /\ b \in 0 .. Len(dag) /\ b \in 1 .. Len(dag)
  BY <1>1, <1>2 DEF Reload, CanRead
<1>4. Operations(b) = s
  BY <1>1, <1>3 DEF Operations, Listed
<1>5. /\ clock' = [clock EXCEPT ![c] = t] /\ base' = [base EXCEPT ![c] = b]
      /\ loaded' = [loaded EXCEPT ![c] = s] /\ staging' = [staging EXCEPT ![c] = <<>>]
      /\ view' = [view EXCEPT ![c] = Compile(s, NoExtra)]
      /\ UNCHANGED <<habit, ops, dag, packId, reading, local, remote>>
  BY <1>4 DEF Reload
<1>6. Grounded(s)
  BY <1>1, <1>3, OrderGrounded
<1>7. t \in 0 .. MaxTime /\ Time(b) <= t /\ clock[c] <= t
  <2>1. Time(b) \in 0 .. MaxTime /\ clock[c] \in 0 .. MaxTime
    BY <1>1, <1>2, <1>3, TimeType DEF Time
  <2> HIDE DEF b
  <2>2. QED
    BY <2>1, <1>2 DEF Later
<1> HIDE DEF b, s, t
<1>8. Refs'
  <2>1. /\ base' \in [Clone -> 0 .. Len(dag)] /\ clock' \in [Clone -> 0 .. MaxTime]
    BY <1>2, <1>3, <1>5, <1>7
  <2>2. \A e \in Clone : Time(local[e]) <= clock'[e]
    <3> SUFFICES ASSUME NEW e \in Clone
                 PROVE  Time(local[e]) <= clock'[e]
      OBVIOUS
    <3>1. CASE e = c
      BY <3>1, <1>2, <1>5, <1>7 DEF b
    <3>2. CASE e # c
      BY <3>2, <1>2, <1>5
    <3>3. QED
      BY <3>1, <3>2
  <2>3. QED
    BY <2>1, <2>2, <1>2, <1>5 DEF Refs, Time
<1>9. s \in Seq(Op) /\ s # <<>> /\ s \o <<>> = s
  BY <1>6 DEF Grounded
<1>10. Sound(Compile(s, NoExtra))
  BY <1>9, NoExtraType, CompiledSound
<1>11. InMemory(dag, packId, ops, b, s, <<>>, Compile(s, NoExtra))
  BY <1>3, <1>6, <1>9 DEF InMemory, s
<1>12. /\ staging \in [Clone -> Seq(Op)] /\ loaded \in [Clone -> Seq(Op)] /\ view \in [Clone -> ViewRecord]
       /\ \A e \in Clone : /\ StagedIn(dag, ops, staging[e])
                           /\ InMemory(dag, packId, ops, base[e], loaded[e], staging[e], view[e])
  BY DEF Inv, Staged, Memory
<1> DEFINE vw == Compile(s, NoExtra)
<1>13. vw \in ViewRecord
  BY <1>10 DEF Sound
<1> HIDE DEF vw
<1>14. /\ staging' \in [Clone -> Seq(Op)] /\ loaded' \in [Clone -> Seq(Op)] /\ view' \in [Clone -> ViewRecord]
       /\ staging'[c] = <<>> /\ loaded'[c] = s /\ base'[c] = b /\ view'[c] = vw
       /\ \A e \in Clone : e # c =>
            staging'[e] = staging[e] /\ loaded'[e] = loaded[e] /\ base'[e] = base[e] /\ view'[e] = view[e]
  BY <1>2, <1>5, <1>9, <1>12, <1>13 DEF vw
<1>15. Memory'
  <2>1. ASSUME NEW e \in Clone
        PROVE  InMemory(dag, packId, ops, base'[e], loaded'[e], staging'[e], view'[e])
    <3>1. CASE e = c
      BY <3>1, <1>11, <1>14 DEF vw
    <3>2. CASE e # c
      BY <3>2, <1>12, <1>14
    <3>3. QED
      BY <3>1, <3>2
  <2>2. QED
    BY <2>1, <1>5, <1>14 DEF Memory
<1>16. Staged'
  <2>1. ASSUME NEW e \in Clone
        PROVE  StagedIn(dag, ops, staging'[e])
    <3>1. CASE e = c
      BY <3>1, <1>14 DEF StagedIn
    <3>2. CASE e # c
      BY <3>2, <1>12, <1>14
    <3>3. QED
      BY <3>1, <3>2
  <2>2. \A e, f \in Clone : e # f =>
          \A m \in 1 .. Len(staging'[e]), n \in 1 .. Len(staging'[f]) :
            staging'[e][m].id # staging'[f][n].id
    <3>1. \A e, f \in Clone : e # f =>
            \A m \in 1 .. Len(staging[e]), n \in 1 .. Len(staging[f]) :
              staging[e][m].id # staging[f][n].id
      BY DEF Inv, Staged
    <3>2. \A n \in 1 .. Len(staging'[c]) : FALSE
      BY <1>14
    <3>3. SUFFICES ASSUME NEW e \in Clone, NEW f \in Clone, e # f,
                          NEW m \in 1 .. Len(staging'[e]), NEW n \in 1 .. Len(staging'[f])
                   PROVE  staging'[e][m].id # staging'[f][n].id
      OBVIOUS
    <3>4. e # c /\ f # c
      BY <3>2
    <3>5. staging'[e] = staging[e] /\ staging'[f] = staging[f]
      BY <3>4, <1>14
    <3>6. QED
      BY <3>1, <3>3, <3>5
  <2>3. QED
    BY <2>1, <2>2, <1>5, <1>14 DEF Staged
<1>17. Stored'
  BY <1>5 DEF Inv, Stored
<1>18. QED
  BY <1>8, <1>15, <1>16, <1>17 DEF Inv

------------------------------------------------------------------------------
(* The theorems.                                                           *)

LEMMA InitInv ==
  ASSUME Init
  PROVE  Inv
<1> DEFINE op == CreateOp(1, Origin)
           p == Pack(<<>>, <<>>, {1}, 1, TRUE)
<1>1. /\ ops = <<op>> /\ dag = <<p>> /\ packId = <<1>>
      /\ reading = <<[ok |-> TRUE, order |-> <<1>>]>>
      /\ local = [c \in Clone |-> IF c = Origin THEN 1 ELSE 0] /\ remote = 0 /\ base = local
      /\ loaded = [c \in Clone |-> IF c = Origin THEN ops ELSE <<>>]
      /\ staging = [c \in Clone |-> <<>>]
      /\ view = [c \in Clone |-> IF c = Origin THEN Compile(ops, NoExtra) ELSE NoView]
  BY DEF Init
<1>2. PICK ahead \in Ahead : clock = [c \in Clone |-> 1 + ahead[c]]
  BY DEF Init
<1>3. 1 \in Id /\ Origin \in Clone
  BY BoundAssumption, CloneAssumption DEF Id
<1>4. ahead \in [Clone -> 0 .. MaxTime - 1] /\ MaxTime \in Nat /\ MaxTime >= 1
  <2>1. ahead \in [Clone -> 0 .. MaxTime - 1] /\ MaxTime \in Nat
    BY BoundAssumption, CloneAssumption
  <2>2. ahead[Origin] \in 0 .. MaxTime - 1
    BY <2>1, <1>3
  <2>3. QED
    BY <2>1, <2>2
<1>5. op \in Op /\ op.id = 1 /\ op.kind = "create"
  BY <1>3, OperationType DEF CreateOp
<1>6. /\ p.parents = <<>> /\ p.ops = {1} /\ p.edit = 1 /\ p.root = TRUE /\ p.hist = {1}
      /\ p = [parents |-> <<>>, ops |-> {1}, edit |-> 1, root |-> TRUE, hist |-> {1}]
  <2>1. Len(<<>>) + 1 = 1 /\ DOMAIN <<>> = {}
    OBVIOUS
  <2>2. {Len(<<>>) + 1} \union UNION {History(<<>>, <<>>[i]) : i \in DOMAIN <<>>} = {1}
    BY <2>1
  <2>3. QED
    BY <2>2 DEF Pack
<1> HIDE DEF op, p
<1>7. p \in PackRecord
  BY <1>6 DEF PackRecord
<1>8. /\ dag \in Seq(PackRecord) /\ Len(dag) = 1 /\ dag[1] = p /\ 1 .. Len(dag) = {1}
      /\ ops \in Seq(Op) /\ Len(ops) = 1 /\ ops[1] = op /\ ops # <<>> /\ 1 .. Len(ops) = {1}
      /\ packId \in Seq(Int) /\ Len(packId) = 1 /\ packId[1] = 1
  BY <1>1, <1>5, <1>7
<1>9. DagShape(dag)
  <2>1. p.hist \subseteq 1 .. 1
    BY <1>6
  <2>2. QED
    BY <2>1, <1>6, <1>8 DEF DagShape
<1>10. IdShape(dag, packId)
  BY <1>8 DEF IdShape
<1>11. OpsShape(ops)
  BY <1>3, <1>5, <1>8 DEF OpsShape, Id
<1>12. Causal(dag, ops)
  BY <1>5, <1>6, <1>8 DEF Causal
<1>13. Order(dag, packId, 1) = <<1>>
  <2> DEFINE S == OpsAt(dag, 1)
             R == OrderOf(dag, packId, 1)
             s == <<1>>
  <2>1. S = {1}
    <3>1. History(dag, 1) = {1}
      BY <1>6, <1>8 DEF History
    <3>2. QED
      BY <3>1, <1>6, <1>8 DEF OpsAt
  <2>2. StrictOrder(S, R)
    BY <1>8, <1>9, <1>10, OrderStrict
  <2>3. Order(dag, packId, 1) = InOrder(S, R)
    BY OrderIs
  <2> DEFINE N == 1
  <2>4. N \in Nat /\ s \in [1 .. N -> S]
    BY <2>1
  <2>5. /\ \A x \in S : \E n \in 1 .. N : s[n] = x
        /\ \A m, n \in 1 .. N : m < n => <<s[m], s[n]>> \in R
    BY <2>1
  <2> HIDE DEF S, R, s, N
  <2>6. s = InOrder(S, R)
    BY <2>2, <2>4, <2>5, InOrderUnique
  <2>7. QED
    BY <2>3, <2>6 DEF s
<1>14. Stored
  <2>1. reading \in Seq(ReadingRecord) /\ Len(reading) = 1 /\ reading[1].order = <<1>>
    <3>1. [ok |-> TRUE, order |-> <<1>>] \in ReadingRecord
      BY DEF ReadingRecord
    <3>2. QED
      BY <3>1, <1>1
  <2>2. dag[1].edit <= MaxTime
    BY <1>4, <1>6, <1>8
  <2>3. QED
    BY <2>1, <2>2, <1>8, <1>9, <1>10, <1>11, <1>12, <1>13 DEF Stored
<1>15. Refs
  <2>1. \A c \in Clone : clock[c] \in 1 .. MaxTime
    BY <1>2, <1>4
  <2>2. clock \in [Clone -> 0 .. MaxTime]
    BY <2>1, <1>2
  <2>3. Time(0) = 0 /\ Time(1) = 1
    BY <1>6, <1>8 DEF Time, EditTime
  <2>4. \A c \in Clone : Time(local[c]) <= clock[c]
    BY <2>1, <2>3, <1>1
  <2>5. QED
    BY <2>2, <2>4, <1>1, <1>8 DEF Refs
<1>16. Staged
  BY <1>1 DEF Staged, StagedIn
<1>17. Listed(Order(dag, packId, 1), ops) = ops
  <2>1. Listed(<<1>>, ops) = <<op>>
    BY <1>8 DEF Listed
  <2>2. QED
    BY <2>1, <1>1, <1>13
<1>18. Grounded(ops)
  BY <1>5, <1>8 DEF Grounded
<1>19. ops \o <<>> = ops
  BY <1>8
<1>20. \A c \in Clone : InMemory(dag, packId, ops, base[c], loaded[c], staging[c], view[c])
  BY <1>1, <1>17, <1>18, <1>19 DEF InMemory
<1>21. Memory
  <2>1. Compile(ops, NoExtra) \in ViewRecord
    BY <1>8, NoExtraType, CompiledSound DEF Sound
  <2>2. NoView \in ViewRecord
    BY NoViewSound DEF Sound
  <2> HIDE DEF NoView
  <2>3. view \in [Clone -> ViewRecord]
    BY <2>1, <2>2, <1>1
  <2>4. loaded \in [Clone -> Seq(Op)]
    BY <1>1, <1>8
  <2>5. QED
    BY <2>3, <2>4, <1>20 DEF Memory
<1>22. QED
  BY <1>14, <1>15, <1>16, <1>21 DEF Inv

LEMMA NextInv ==
  ASSUME Inv, [Next]_vars
  PROVE  Inv'
<1>1. CASE UNCHANGED vars
  <2>1. UNCHANGED <<ops, dag, packId, reading, local, remote, clock, base, loaded, staging, view>>
    BY <1>1 DEF vars
  <2>2. Stored' /\ Refs' /\ Staged' /\ Memory'
    BY <2>1 DEF Inv, Stored, Refs, Time, Staged, Memory
  <2>3. QED
    BY <2>2 DEF Inv
<1>2. ASSUME NEW c \in Clone, Edit(c)
      PROVE  Inv'
  BY <1>2, EditMakes, AppendStep
<1>3. ASSUME NEW c \in Clone, CommitConflict(c)
      PROVE  Inv'
  BY <1>3, ConflictStep
<1>4. ASSUME NEW c \in Clone, Sync(c)
      PROVE  Inv'
  <2>1. CASE Commit(c)
    BY <2>1, CommitStep
  <2>2. CASE Reload(c)
    BY <2>2, ReloadStep
  <2>3. CASE Pull(c)
    BY <2>3, TakeStep, JoinStep DEF Pull
  <2>4. CASE Push(c)
    BY <2>4, PushStep
  <2>5. QED
    BY <1>4, <2>1, <2>2, <2>3, <2>4 DEF Sync
<1>5. QED
  BY <1>1, <1>2, <1>3, <1>4 DEF Next

LEMMA InvHolds == Spec => []Inv
<1>1. Init => Inv
  BY InitInv
<1>2. Inv /\ [Next]_vars => Inv'
  BY NextInv
<1>3. QED
  BY <1>1, <1>2, PTL DEF Spec

(* TypeOK.                                                                 *)
LEMMA InvTypeOK ==
  ASSUME Inv
  PROVE  TypeOK
<1>1. /\ DagShape(dag) /\ IdShape(dag, packId) /\ OpsShape(ops) /\ Causal(dag, ops)
      /\ ops \in Seq(Op) /\ Len(dag) \in Nat /\ Len(packId) = Len(dag)
      /\ \A o \in 1 .. Len(ops) : ops[o].id = o
  BY DEF Inv, Stored, DagShape, IdShape, OpsShape
<1>2. ops \in Seq(OperationRecord) /\ \A o \in DOMAIN ops : ops[o].id = o
  <2>1. Op \subseteq OperationRecord
    BY DEF Op
  <2>2. ops \in Seq(OperationRecord)
    BY <1>1, <2>1, SeqMonotonic
  <2>3. DOMAIN ops = 1 .. Len(ops)
    BY <1>1
  <2>4. QED
    BY <1>1, <2>2, <2>3
<1>3. ASSUME NEW c \in Clone
      PROVE  /\ Range(loaded[c]) \union Range(staging[c]) \subseteq Range(ops)
             /\ Loaded(c) => Valid(loaded[c] \o staging[c])
  <2> DEFINE b == base[c]
             ld == loaded[c]
             st == staging[c]
             vw == view[c]
             s == ld \o st
  <2>1. /\ InMemory(dag, packId, ops, b, ld, st, vw) /\ StagedIn(dag, ops, st)
        /\ b \in 0 .. Len(dag)
    BY DEF Inv, Staged, Memory, Refs
  <2> HIDE DEF b, ld, st, vw
  <2>2. CASE b = 0
    <3>1. ld = <<>> /\ st = <<>>
      BY <2>1, <2>2 DEF InMemory
    <3>2. QED
      BY <3>1, <2>2 DEF Range, Loaded, b, ld, st
  <2>3. CASE b # 0
    <3>1. b \in 1 .. Len(dag)
      BY <2>1, <2>3, <1>1
    <3>2. /\ s \in Seq(Op) /\ ld \in Seq(Op) /\ st \in Seq(Op)
          /\ \A n \in 1 .. Len(s) : s[n].id \in 1 .. Len(ops) /\ s[n] = ops[s[n].id]
      BY <2>1, <3>1, <1>1, MemoryOps
    <3>3. Grounded(s)
      BY <2>1, <2>3 DEF InMemory
    <3>4. Valid(s)
      <4> HIDE DEF s
      <4>1. s # <<>> /\ Head(s) = s[1] /\ Len(s) \in Nat
        BY <3>3 DEF Grounded
      <4>2. QED
        BY <3>3, <4>1 DEF Grounded, Valid
    <3>5. /\ Len(ld) \in Nat /\ Len(st) \in Nat
          /\ \A n \in 1 .. Len(ld) : n \in 1 .. Len(s) /\ s[n] = ld[n]
          /\ \A n \in 1 .. Len(st) : Len(ld) + n \in 1 .. Len(s) /\ s[Len(ld) + n] = st[n]
          /\ DOMAIN ld = 1 .. Len(ld) /\ DOMAIN st = 1 .. Len(st)
      BY <3>2
    <3> HIDE DEF s
    <3>6. \A n \in 1 .. Len(s) : s[n] \in Range(ops)
      BY <3>2, <1>1 DEF Range
    <3>7. Range(ld) \subseteq Range(ops) /\ Range(st) \subseteq Range(ops)
      <4>1. \A n \in DOMAIN ld : ld[n] \in Range(ops)
        BY <3>5, <3>6
      <4>2. \A n \in DOMAIN st : st[n] \in Range(ops)
        BY <3>5, <3>6
      <4>3. Range(ld) = {ld[n] : n \in DOMAIN ld} /\ Range(st) = {st[n] : n \in DOMAIN st}
        BY DEF Range
      <4>4. QED
        BY <4>1, <4>2, <4>3
    <3>8. QED
      BY <3>4, <3>7 DEF s, ld, st
  <2>4. QED
    BY <2>2, <2>3
<1>4. QED
  BY <1>1, <1>2, <1>3 DEF TypeOK, Inv, Refs

LEMMA InvMemoryIsHistory ==
  ASSUME Inv
  PROVE  MemoryIsHistory
<1> SUFFICES ASSUME NEW c \in Clone, Loaded(c)
             PROVE  loaded[c] = Operations(base[c])
  BY DEF MemoryIsHistory
<1>1. base[c] \in 1 .. Len(dag) /\ base[c] # 0
  <2>1. base[c] \in 0 .. Len(dag) /\ base[c] # 0 /\ Len(dag) \in Nat
    BY DEF Inv, Refs, Stored, DagShape, Loaded
  <2>2. QED
    BY <2>1
<1>2. loaded[c] = Listed(Order(dag, packId, base[c]), ops)
  BY <1>1 DEF Inv, Memory, InMemory
<1>3. reading[base[c]].order = Order(dag, packId, base[c])
  BY <1>1 DEF Inv, Stored
<1>4. QED
  BY <1>2, <1>3 DEF Operations, Listed

LEMMA InvViews ==
  ASSUME Inv, NEW c \in Clone
  PROVE  Sound(view[c]) /\ Landed(view[c])
BY InMemorySound DEF Inv, Memory

LEMMA InvLabels ==
  ASSUME Inv
  PROVE  LabelsAreLastMention
<1> SUFFICES ASSUME NEW c \in Clone
             PROVE  LET os == Snap(c).ops
                        labels == Snap(c).labels
                        Kept_(l) == \E n \in DOMAIN os :
                          /\ Contains(os[n].add, l) /\ ~ Contains(os[n].remove, l)
                          /\ \A m \in n + 1 .. Len(os) : ~ Contains(os[m].remove, l)
                    IN  /\ Range(labels) = {l \in Label : Kept_(l)}
                        /\ \A n \in 2 .. Len(labels) : labels[n - 1] < labels[n]
  BY DEF LabelsAreLastMention
<1> DEFINE os == Snap(c).ops
           labels == Snap(c).labels
<1>1. /\ os \in Seq(Op) /\ labels \in Seq(Label) /\ Ascending(labels)
      /\ \A l : Contains(labels, l) <=> KeptIn(os, l)
  BY InvViews DEF Sound, LabelsSound, ViewRecord, SnapRecord, Snap
<1> HIDE DEF os, labels
<1>2. /\ DOMAIN os = 1 .. Len(os) /\ DOMAIN labels = 1 .. Len(labels) /\ Len(labels) \in Nat
      /\ \A n \in 1 .. Len(labels) : labels[n] \in Label
  BY <1>1
<1>3. \A l : l \in Range(labels) <=> Contains(labels, l)
  BY <1>2 DEF Range, Contains
<1>4. \A l \in Range(labels) : l \in Label
  BY <1>2 DEF Range
<1>5. Range(labels) = {l \in Label : \E n \in DOMAIN os :
        /\ Contains(os[n].add, l) /\ ~ Contains(os[n].remove, l)
        /\ \A m \in n + 1 .. Len(os) : ~ Contains(os[m].remove, l)}
  BY <1>1, <1>2, <1>3, <1>4 DEF KeptIn
<1>6. \A n \in 2 .. Len(labels) : labels[n - 1] < labels[n]
  <2> SUFFICES ASSUME NEW n \in 2 .. Len(labels)
               PROVE  labels[n - 1] < labels[n]
    OBVIOUS
  <2>1. n - 1 \in 1 .. Len(labels) /\ n \in 1 .. Len(labels) /\ n - 1 < n
    BY <1>2
  <2>2. QED
    BY <2>1, <1>1 DEF Ascending
<1>7. QED
  BY <1>5, <1>6 DEF os, labels

LEMMA InvComments ==
  ASSUME Inv
  PROVE  CommentsAgree
<1> SUFFICES ASSUME NEW c \in Clone
             PROVE  LET places == Increasing({k \in DOMAIN Snap(c).timeline :
                                     Snap(c).timeline[k].kind \in {"create", "comment"}})
                    IN  /\ Len(places) = Len(Snap(c).comments)
                        /\ \A n \in DOMAIN places :
                             LET item == Snap(c).timeline[places[n]]
                             IN  /\ item.id = Snap(c).comments[n].target
                                 /\ item.message = Snap(c).comments[n].message
                                 /\ item.message = Last(item.history)
  BY DEF CommentsAgree
<1> DEFINE items == Snap(c).timeline
           comments == Snap(c).comments
           N == Len(comments)
           S == CommentPlaces(items)
           R == {r \in S \X S : r[1] < r[2]}
<1>1. /\ items \in Seq(ItemRecord) /\ comments \in Seq(CommentRecord)
      /\ \E f : Matches(f, comments, items)
  BY InvViews DEF Sound, CommentsSound, ViewRecord, SnapRecord, Snap
<1>2. PICK f : Matches(f, comments, items)
  BY <1>1
<1>3. S = {k \in DOMAIN items : items[k].kind \in {"create", "comment"}}
  BY DEF CommentPlaces, CommentKind
<1> HIDE DEF items, comments
<1>4. /\ f \in [1 .. N -> S] /\ N \in Nat
      /\ \A k \in S : \E n \in 1 .. N : f[n] = k
      /\ \A m, n \in 1 .. N : m < n => f[m] < f[n]
      /\ \A n \in 1 .. N :
           /\ items[f[n]].id = comments[n].target
           /\ items[f[n]].message = comments[n].message
           /\ items[f[n]].message = Last(items[f[n]].history)
  BY <1>1, <1>2 DEF Matches
<1>5. S \subseteq Nat
  BY <1>1 DEF CommentPlaces
<1> HIDE DEF S
<1>6. StrictOrder(S, R)
  BY <1>5 DEF StrictOrder
<1>7. \A m, n \in 1 .. N : m < n => <<f[m], f[n]>> \in R
  BY <1>4
<1> HIDE DEF R, N
<1>8. f = InOrder(S, R)
  BY <1>4, <1>6, <1>7, InOrderUnique
<1>9. Increasing(S) = f
  BY <1>8 DEF Increasing, R
<1>10. Len(f) = N /\ DOMAIN f = 1 .. N
  BY <1>4
<1>11. QED
  BY <1>3, <1>4, <1>9, <1>10 DEF items, comments, N

LEMMA InvEdits ==
  ASSUME Inv
  PROVE  EditsLand
<1> SUFFICES ASSUME NEW c \in Clone, NEW op \in Range(Snap(c).ops)
             PROVE  /\ op.kind = "edit" =>
                         \E item \in Range(Snap(c).timeline) :
                           /\ item.id = op.target /\ item.kind \in {"create", "comment"}
                           /\ Contains(item.history, op.id)
                    /\ op.kind = "metadata" => view[c].extra[op.target] # None
  BY DEF EditsLand
<1>1. view[c].snap.ops \in Seq(Op) /\ Landed(view[c])
  BY InvViews DEF Sound
<1>2. PICK n \in 1 .. Len(view[c].snap.ops) : op = view[c].snap.ops[n]
  BY <1>1 DEF Range, Snap
<1>3. Answers(op, view[c])
  BY <1>1, <1>2 DEF Landed
<1>4. QED
  BY <1>3 DEF Answers, IsComment, CommentKind, Range, Snap

(* The types hold, and every instance in memory begins with the creation   *)
(* of the bug (Bug.Validate).                                              *)
THEOREM TypesHold == Spec => []TypeOK
BY InvHolds, InvTypeOK, PTL

(* However clones commit, merge and read, the operations an instance has   *)
(* in memory are those of the commit it stands on, in the order in which   *)
(* dag.read puts them.                                                     *)
THEOREM MemoryIsWhatIsRead == Spec => []MemoryIsHistory
BY InvHolds, InvMemoryIsHistory, PTL

(* The snapshot that is kept up to date by the operation, and compiled     *)
(* again over the metadata that a failed commit left behind, is the one a  *)
(* fresh read compiles.                                                    *)
THEOREM ViewsAreFresh == Spec => []ViewIsFresh
<1>1. Inv => ViewIsFresh
  BY DEF Inv, Memory, InMemory, ViewIsFresh, Loaded
<1>2. QED
  BY <1>1, InvHolds, PTL

(* No edit of a comment and no metadata are ever read before what they are *)
(* for, whatever was merged.                                               *)
THEOREM NoEditIsLost == Spec => []EditsLand
BY InvHolds, InvEdits, PTL

(* The labels of a bug are those whose last mention adds them, on every    *)
(* clone and for every order of the operations.                            *)
THEOREM LabelsByLastMention == Spec => []LabelsAreLastMention
BY InvHolds, InvLabels, PTL

(* The list of comments and the timeline agree on every comment.           *)
THEOREM CommentsMatchTimeline == Spec => []CommentsAgree
BY InvHolds, InvComments, PTL
==============================================================================
