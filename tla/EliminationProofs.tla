------------------------- MODULE EliminationProofs --------------------------
(***************************************************************************)
(* What gf_256_gaussian_elimination computes, as a function, for systems   *)
(* of any size over any field: if it multiplies no row by zero, the system *)
(* it leaves has the same solutions as the one it was given, and its right *)
(* sides are the only one; and a row that it did multiply by zero ends     *)
(* with the symbol zero.  The loops are folds; the first part shows that   *)
(* what every iteration preserves holds at their end.                      *)
(***************************************************************************)
EXTENDS Elimination, FieldProofs

-----------------------------------------------------------------------------
(* Loops *)

\* Among numbers there is a smallest one.
LEMMA SmallestNumber ==
  ASSUME NEW T, T \subseteq Nat, T # {}
  PROVE  \E m \in T : \A k \in T : m <= k
<1>1. PICK m \in T : \A k \in T : ~ (<<k, m>> \in OpToRel(<, Nat))
  BY NatLessThanWellFounded, WFMin
<1>2. \A k \in T : ~ (k < m)
  BY <1>1 DEF OpToRel
<1> QED
  BY <1>2

\* The last of some of m iterations.
LEMMA MaxIn ==
  ASSUME NEW m \in Nat, NEW S \in SUBSET (1 .. m), S # {}
  PROVE  Max(S) \in S /\ \A y \in S : Max(S) >= y
<1> DEFINE T == {k \in Nat : \A y \in S : k >= y}
<1>1. PICK k \in T : \A l \in T : k <= l
  <2>1. m \in T
    OBVIOUS
  <2> HIDE DEF T
  <2>2. T \subseteq Nat
    BY DEF T
  <2> QED
    BY <2>1, <2>2, SmallestNumber
<1>2. k \in S
  <2> SUFFICES ASSUME k \notin S PROVE FALSE
    OBVIOUS
  <2>1. \A y \in S : k - 1 >= y
    OBVIOUS
  <2>2. k - 1 \in Nat
    <3>1. PICK y \in S : TRUE
      OBVIOUS
    <3> QED
      BY <2>1, <3>1
  <2>3. k - 1 \in T
    BY <2>1, <2>2
  <2> QED
    BY <1>1, <2>3
<1> QED
  BY <1>2 DEF Max

LEMMA MaxUpTo ==
  ASSUME NEW k \in Nat \ {0}
  PROVE  Max(1 .. k) = k
<1>1. k \in 1 .. k /\ 1 .. k # {} /\ 1 .. k \in SUBSET (1 .. k)
  OBVIOUS
<1>2. Max(1 .. k) \in 1 .. k /\ Max(1 .. k) >= k
  BY <1>1, MaxIn
<1> QED
  BY <1>2

LEMMA UpToBefore ==
  ASSUME NEW k \in Nat \ {0}
  PROVE  (1 .. k) \ {k} = 1 .. k - 1 /\ 1 .. k # {}
<1>1. \A l : l \in (1 .. k) \ {k} <=> l \in 1 .. k - 1
  OBVIOUS
<1>2. k \in 1 .. k
  OBVIOUS
<1> QED
  BY <1>1, <1>2

\* What a loop has computed after any of its iterations: F[k] is what its k-th
\* iteration does to a system of X.
FoldRule(F, base, g, U) ==
  g = [S \in SUBSET U |->
         IF S = {} THEN base ELSE F[Max(S)][g[S \ {Max(S)}]]]

\* Such a function exists, of one iteration more at a time.
LEMMA FoldExists ==
  ASSUME NEW X, NEW m \in Nat, NEW F \in [1 .. m -> [X -> X]], NEW base \in X
  PROVE  \E g \in [SUBSET (1 .. m) -> X] : FoldRule(F, base, g, 1 .. m)
<1> DEFINE Exists(k) == \E g \in [SUBSET (1 .. k) -> X] : FoldRule(F, base, g, 1 .. k)
           T == {k \in 0 .. m : ~ Exists(k)}
<1> SUFFICES ASSUME T # {} PROVE FALSE
  <2> HIDE DEF Exists
  <2>1. m \notin T => Exists(m)
    OBVIOUS
  <2> QED
    BY <2>1 DEF Exists
<1>1. PICK k \in T : \A l \in T : k <= l
  <2>1. T \subseteq Nat
    OBVIOUS
  <2> HIDE DEF T
  <2> QED
    BY <2>1, SmallestNumber
<1>2. k # 0
  <2> DEFINE g == [S \in SUBSET (1 .. 0) |-> base]
  <2>1. g \in [SUBSET (1 .. 0) -> X]
    OBVIOUS
  <2>2. \A S \in SUBSET (1 .. 0) : S = {}
    OBVIOUS
  <2>3. g = [S \in SUBSET (1 .. 0) |->
               IF S = {} THEN base ELSE F[Max(S)][g[S \ {Max(S)}]]]
    BY <2>2
  <2> HIDE DEF g
  <2>4. Exists(0)
    BY <2>1, <2>3 DEF FoldRule
  <2> QED
    BY <2>4
<1>3. k - 1 \in 0 .. m /\ k \in 1 .. m /\ k - 1 \notin T
  <2> HIDE DEF Exists
  <2> QED
    BY <1>1, <1>2
<1>4. PICK g \in [SUBSET (1 .. k - 1) -> X] : FoldRule(F, base, g, 1 .. k - 1)
  BY <1>3
<1> DEFINE Before(S) == S \ {k}
           h == [S \in SUBSET (1 .. k) |->
                   IF k \in S THEN F[k][g[Before(S)]] ELSE g[S]]
<1>5. \A S \in SUBSET (1 .. k) : /\ Before(S) \in SUBSET (1 .. k - 1)
                                 /\ k \notin S => S \in SUBSET (1 .. k - 1)
  BY <1>3
<1>6. h \in [SUBSET (1 .. k) -> X]
  BY <1>3, <1>5
<1>7. ASSUME NEW S \in SUBSET (1 .. k)
      PROVE  h[S] = IF S = {} THEN base ELSE F[Max(S)][h[S \ {Max(S)}]]
  <2>1. CASE k \in S
    <3>1. Max(S) = k
      <4>1. k \in Nat /\ S \in SUBSET (1 .. k) /\ S # {}
        BY <1>3, <2>1
      <4>2. Max(S) \in S /\ \A y \in S : Max(S) >= y
        BY <4>1, MaxIn
      <4>3. Max(S) \in 1 .. k
        BY <4>1, <4>2
      <4>4. Max(S) >= k
        BY <2>1, <4>2
      <4> QED
        BY <4>1, <4>3, <4>4
    <3>2. h[S] = F[k][g[Before(S)]]
      BY <2>1
    <3>3. h[Before(S)] = g[Before(S)]
      BY <1>5
    <3> QED
      BY <2>1, <3>1, <3>2, <3>3
  <2>2. CASE k \notin S
    <3>1. S \in SUBSET (1 .. k - 1) /\ h[S] = g[S]
      BY <1>5, <2>2
    <3>2. g[S] = IF S = {} THEN base ELSE F[Max(S)][g[S \ {Max(S)}]]
      BY <1>4, <3>1 DEF FoldRule
    <3>3. S # {} => h[S \ {Max(S)}] = g[S \ {Max(S)}]
      <4> DEFINE R == S \ {Max(S)}
      <4>1. R \in SUBSET (1 .. k) /\ k \notin R
        BY <2>2
      <4> HIDE DEF R
      <4>2. h[R] = g[R]
        BY <4>1
      <4> QED
        BY <4>2 DEF R
    <3> QED
      BY <3>1, <3>2, <3>3
  <2> QED
    BY <2>1, <2>2
<1>8. h = [S \in SUBSET (1 .. k) |-> h[S]]
  OBVIOUS
<1> HIDE DEF h
<1>9. FoldRule(F, base, h, 1 .. k)
  BY <1>7, <1>8 DEF FoldRule
<1>10. Exists(k)
  BY <1>6, <1>9
<1> QED
  BY <1>10

\* If every iteration takes P[k - 1] to P[k], the loop takes P[0] to P[m].
Keeps(X, P, m, g) ==
  /\ g[{}] \in X /\ g[{}] \in P[0]
  /\ \A k \in 1 .. m : g[1 .. k - 1] \in X => g[1 .. k] \in X
  /\ \A k \in 1 .. m : g[1 .. k - 1] \in X /\ g[1 .. k - 1] \in P[k - 1]
                         => g[1 .. k] \in P[k]

LEMMA LoopKeeps ==
  ASSUME NEW X, NEW P, NEW m \in Nat, NEW g, Keeps(X, P, m, g)
  PROVE  g[1 .. m] \in X /\ g[1 .. m] \in P[m]
<1> DEFINE T == {k \in 0 .. m : ~ (g[1 .. k] \in X /\ g[1 .. k] \in P[k])}
<1> SUFFICES ASSUME T # {} PROVE FALSE
  OBVIOUS
<1>1. PICK k \in T : \A l \in T : k <= l
  <2>1. T \subseteq Nat
    OBVIOUS
  <2> HIDE DEF T
  <2> QED
    BY <2>1, SmallestNumber
<1>2. 1 .. 0 = {}
  OBVIOUS
<1>3. k \in 1 .. m /\ k - 1 \in 0 .. m /\ k - 1 \notin T
  BY <1>1, <1>2 DEF Keeps
<1> QED
  BY <1>3 DEF Keeps

-----------------------------------------------------------------------------
(* Types *)

Indices(n) == 0 .. n - 1
Vector(n)  == [Indices(n) -> Elem]
System(n)  == [A : [Indices(n) -> Vector(n)], B : Vector(n), zeroed : SUBSET Indices(n)]

LEMMA FactorType ==
  ASSUME NEW n \in Nat, NEW t \in System(n), NEW i \in Indices(n), NEW j \in Indices(n)
  PROVE  /\ t.A[i] \in Vector(n) /\ t.A[j] \in Vector(n)
         /\ t.A[j][i] \in Elem /\ t.A[i][i] \in Elem /\ t.B[i] \in Elem /\ t.B[j] \in Elem
         /\ Inv(t.A[i][i]) \in Elem
         /\ FactorOf(t, i, j) \in Elem
<1>1. /\ t.A[i] \in Vector(n) /\ t.A[j] \in Vector(n)
      /\ t.A[j][i] \in Elem /\ t.A[i][i] \in Elem /\ t.B[i] \in Elem /\ t.B[j] \in Elem
  BY DEF System, Vector
<1> QED
  BY <1>1, FieldTypes DEF FactorOf

LEMMA RowTypes ==
  ASSUME NEW n \in Nat, NEW u \in Vector(n), NEW v \in Vector(n), NEW f \in Elem
  PROVE  /\ Scale(f, u) \in Vector(n) /\ Scale(f, u) = [c \in Indices(n) |-> Mul(u[c], f)]
         /\ Plus(u, v) \in Vector(n) /\ Plus(u, v) = [c \in Indices(n) |-> Add(u[c], v[c])]
BY FieldTypes DEF Scale, Plus, Vector

\* The inner loop of the forward reduction changes row i and row j: r is what
\* it makes of t with the factor f.
RowsReduced(n, t, i, j, f, r) ==
  /\ r \in System(n)
  /\ r.A[i] = Scale(f, t.A[i]) /\ r.B[i] = Mul(t.B[i], f)
  /\ r.A[j] = Plus(t.A[j], Scale(f, t.A[i])) /\ r.B[j] = Add(t.B[j], Mul(t.B[i], f))
  /\ \A k \in Indices(n) : k \notin {i, j} => r.A[k] = t.A[k] /\ r.B[k] = t.B[k]
  /\ r.zeroed = IF f = Zero THEN t.zeroed \cup {i} ELSE t.zeroed

LEMMA ReducedRows ==
  ASSUME NEW n \in Nat, NEW t \in System(n), NEW i \in Indices(n), NEW j \in Indices(n), i # j
  PROVE  RowsReduced(n, t, i, j, FactorOf(t, i, j), Reduced(t, i, j))
<1> DEFINE f     == FactorOf(t, i, j)
           r     == Reduced(t, i, j)
           pivot == Scale(f, t.A[i])
           rhs   == Mul(t.B[i], f)
           sum   == Plus(t.A[j], pivot)
           total == Add(t.B[j], rhs)
<1>1. /\ f \in Elem /\ t.A[i] \in Vector(n) /\ t.A[j] \in Vector(n)
      /\ t.B[i] \in Elem /\ t.B[j] \in Elem
  BY FactorType
<1>2. pivot \in Vector(n) /\ rhs \in Elem
  BY <1>1, RowTypes, FieldTypes
<1>3. sum \in Vector(n) /\ total \in Elem
  BY <1>1, <1>2, RowTypes, FieldTypes
<1>4. /\ t.A \in [Indices(n) -> Vector(n)] /\ t.B \in [Indices(n) -> Elem]
      /\ t.zeroed \subseteq Indices(n)
  BY DEF System, Vector
<1>5. /\ r.A = [t.A EXCEPT ![i] = pivot, ![j] = sum]
      /\ r.B = [t.B EXCEPT ![i] = rhs, ![j] = total]
      /\ r.zeroed = IF f = Zero THEN t.zeroed \cup {i} ELSE t.zeroed
      /\ r = [A |-> r.A, B |-> r.B, zeroed |-> r.zeroed]
  BY DEF Reduced, WithZeroed
<1> HIDE DEF f, r, pivot, rhs, sum, total
<1>6. /\ r.A \in [Indices(n) -> Vector(n)] /\ r.A[i] = pivot /\ r.A[j] = sum
      /\ \A k \in Indices(n) : k \notin {i, j} => r.A[k] = t.A[k]
  BY <1>2, <1>3, <1>4, <1>5
<1>7. /\ r.B \in [Indices(n) -> Elem] /\ r.B[i] = rhs /\ r.B[j] = total
      /\ \A k \in Indices(n) : k \notin {i, j} => r.B[k] = t.B[k]
  BY <1>2, <1>3, <1>4, <1>5
<1>8. r.zeroed \subseteq Indices(n)
  BY <1>4, <1>5
<1>9. r \in System(n)
  BY <1>5, <1>6, <1>7, <1>8 DEF System, Vector
<1> QED
  BY <1>5, <1>6, <1>7, <1>9 DEF RowsReduced, f, r, pivot, rhs, sum, total

-----------------------------------------------------------------------------
(* The forward reduction as a loop *)

RowRule(i, s, seq, g) ==
  g = [S \in SUBSET DOMAIN seq |->
         IF S = {} THEN s ELSE Reduced(g[S \ {Max(S)}], i, seq[Max(S)])]

LEMMA RowUnfold ==
  ASSUME NEW n, NEW i, NEW s
  PROVE  ReducedBelow(n, s, i) =
           (CHOOSE g : RowRule(i, s, Upward(i + 1, n - 1), g))[DOMAIN Upward(i + 1, n - 1)]
BY Zenon DEF ReducedBelow, FoldLeft, MapThenFoldSet, RowRule

\* What follows from every iteration that takes P[k - 1] to P[k], k of them
\* having been made: the inner loop.
LEMMA RowLoop ==
  ASSUME NEW n \in Nat, NEW i \in Indices(n), NEW s \in System(n),
         NEW P, s \in P[0],
         \A k \in 1 .. n - 1 - i : \A t \in System(n) :
           t \in P[k - 1] => Reduced(t, i, i + k) \in P[k]
  PROVE  ReducedBelow(n, s, i) \in System(n) /\ ReducedBelow(n, s, i) \in P[n - 1 - i]
<1> DEFINE m   == n - 1 - i
           X   == System(n)
           seq == Upward(i + 1, n - 1)
           F   == [k \in 1 .. m |-> [t \in X |-> Reduced(t, i, i + k)]]
           g   == CHOOSE q : RowRule(i, s, seq, q)
<1>1. m \in Nat /\ \A k \in 1 .. m : i + k \in Indices(n) /\ i + k # i
  BY DEF Indices
<1>2. DOMAIN seq = 1 .. m /\ \A k \in 1 .. m : seq[k] = i + k
  <2>1. i \in Int /\ n \in Int
    BY DEF Indices
  <2> QED
    BY <2>1 DEF Upward
<1>3. ASSUME NEW k \in 1 .. m, NEW t \in X PROVE Reduced(t, i, i + k) \in X
  BY <1>1, ReducedRows DEF RowsReduced
<1>4. F \in [1 .. m -> [X -> X]]
  BY <1>3
<1>5. PICK q \in [SUBSET (1 .. m) -> X] : FoldRule(F, s, q, 1 .. m)
  <2> HIDE DEF m, F
  <2> QED
    BY <1>1, <1>4, FoldExists
<1>6. ASSUME NEW S \in SUBSET (1 .. m)
      PROVE  q[S] = IF S = {} THEN s ELSE Reduced(q[S \ {Max(S)}], i, seq[Max(S)])
  <2> SUFFICES ASSUME S # {} PROVE q[S] = Reduced(q[S \ {Max(S)}], i, seq[Max(S)])
    BY <1>5 DEF FoldRule
  <2>1. Max(S) \in 1 .. m
    <3>1. Max(S) \in S
      BY <1>1, MaxIn
    <3> QED
      BY <3>1
  <2>2. q[S \ {Max(S)}] \in X
    <3> HIDE DEF X
    <3>1. S \ {Max(S)} \in SUBSET (1 .. m)
      OBVIOUS
    <3> QED
      BY <1>5, <3>1
  <2>3. q[S] = F[Max(S)][q[S \ {Max(S)}]]
    BY <1>5 DEF FoldRule
  <2>4. F[Max(S)][q[S \ {Max(S)}]] = Reduced(q[S \ {Max(S)}], i, i + Max(S))
    BY <2>1, <2>2
  <2> HIDE DEF F, seq, X
  <2> QED
    BY <1>2, <2>1, <2>3, <2>4
<1>7. RowRule(i, s, seq, g)
  <2> HIDE DEF m, seq, X, F
  <2>1. q = [S \in SUBSET (1 .. m) |-> q[S]]
    BY <1>5
  <2>2. RowRule(i, s, seq, q)
    BY <1>2, <1>6, <2>1 DEF RowRule
  <2> QED
    BY <2>2
<1>8. ReducedBelow(n, s, i) = g[1 .. m]
  <2>1. ReducedBelow(n, s, i) = g[DOMAIN seq]
    BY RowUnfold
  <2> QED
    BY <1>2, <2>1
<1>9. g[{}] = s
  <2> HIDE DEF g, seq
  <2> QED
    BY <1>7 DEF RowRule
<1>10. ASSUME NEW k \in 1 .. m PROVE g[1 .. k] = Reduced(g[1 .. k - 1], i, i + k)
  <2>1. k \in Nat \ {0} /\ 1 .. k \in SUBSET (1 .. m)
    BY <1>1
  <2>2. Max(1 .. k) = k /\ (1 .. k) \ {k} = 1 .. k - 1 /\ 1 .. k # {}
    BY <2>1, MaxUpTo, UpToBefore
  <2>3. g[1 .. k] = Reduced(g[(1 .. k) \ {Max(1 .. k)}], i, seq[Max(1 .. k)])
    <3> HIDE DEF g, seq, m
    <3> QED
      BY <1>2, <1>7, <2>1, <2>2 DEF RowRule
  <2> HIDE DEF g, seq
  <2> QED
    BY <1>2, <2>2, <2>3
<1>11. Keeps(X, P, m, g)
  <2>1. s \in X
    OBVIOUS
  <2> HIDE DEF g
  <2>2. \A k \in 1 .. m : g[1 .. k - 1] \in X => g[1 .. k] \in X
    BY <1>3, <1>10
  <2>3. \A k \in 1 .. m : g[1 .. k - 1] \in X /\ g[1 .. k - 1] \in P[k - 1]
                           => g[1 .. k] \in P[k]
    BY <1>10
  <2> QED
    BY <1>9, <2>1, <2>2, <2>3 DEF Keeps
<1>12. g[1 .. m] \in X /\ g[1 .. m] \in P[m]
  <2> HIDE DEF g, m, X
  <2> QED
    BY <1>1, <1>11, LoopKeeps
<1> QED
  BY <1>8, <1>12

LEMMA RowType ==
  ASSUME NEW n \in Nat, NEW i \in Indices(n), NEW s \in System(n)
  PROVE  ReducedBelow(n, s, i) \in System(n)
<1> DEFINE P == [k \in 0 .. n - 1 - i |-> System(n)]
<1>1. 0 \in 0 .. n - 1 - i /\ \A k \in 1 .. n - 1 - i : i + k \in Indices(n) /\ i # i + k
  BY DEF Indices
<1>2. \A k \in 1 .. n - 1 - i : \A t \in System(n) :
        t \in P[k - 1] => Reduced(t, i, i + k) \in P[k]
  <2> SUFFICES ASSUME NEW k \in 1 .. n - 1 - i, NEW t \in System(n)
               PROVE  Reduced(t, i, i + k) \in P[k]
    OBVIOUS
  <2>1. P[k] = System(n)
    OBVIOUS
  <2>2. Reduced(t, i, i + k) \in System(n)
    BY <1>1, ReducedRows DEF RowsReduced
  <2> QED
    BY <2>1, <2>2
<1>3. s \in P[0]
  BY <1>1
<1> HIDE DEF P
<1> QED
  BY <1>2, <1>3, RowLoop

ForwardRule(n, s, seq, g) ==
  g = [S \in SUBSET DOMAIN seq |->
         IF S = {} THEN s ELSE ReducedBelow(n, g[S \ {Max(S)}], seq[Max(S)])]

LEMMA ForwardUnfold ==
  ASSUME NEW n, NEW s
  PROVE  Forward(n, s) =
           (CHOOSE g : ForwardRule(n, s, Upward(0, n - 1), g))[DOMAIN Upward(0, n - 1)]
BY Zenon DEF Forward, FoldLeft, MapThenFoldSet, ForwardRule

\* The outer loop of the forward reduction.
LEMMA ForwardLoop ==
  ASSUME NEW n \in Nat, NEW s \in System(n),
         NEW P, s \in P[0],
         \A k \in 1 .. n : \A t \in System(n) :
           t \in P[k - 1] => ReducedBelow(n, t, k - 1) \in P[k]
  PROVE  Forward(n, s) \in System(n) /\ Forward(n, s) \in P[n]
<1> DEFINE X   == System(n)
           seq == Upward(0, n - 1)
           F   == [k \in 1 .. n |-> [t \in X |-> ReducedBelow(n, t, k - 1)]]
           g   == CHOOSE q : ForwardRule(n, s, seq, q)
<1>1. \A k \in 1 .. n : k - 1 \in Indices(n)
  BY DEF Indices
<1>2. DOMAIN seq = 1 .. n /\ \A k \in 1 .. n : seq[k] = k - 1
  <2>1. n \in Int
    BY DEF Indices
  <2> QED
    BY <2>1 DEF Upward
<1>3. ASSUME NEW k \in 1 .. n, NEW t \in X PROVE ReducedBelow(n, t, k - 1) \in X
  BY <1>1, RowType
<1>4. F \in [1 .. n -> [X -> X]]
  BY <1>3
<1>5. PICK q \in [SUBSET (1 .. n) -> X] : FoldRule(F, s, q, 1 .. n)
  <2> HIDE DEF F
  <2> QED
    BY <1>1, <1>4, FoldExists
<1>6. ASSUME NEW S \in SUBSET (1 .. n)
      PROVE  q[S] = IF S = {} THEN s ELSE ReducedBelow(n, q[S \ {Max(S)}], seq[Max(S)])
  <2> SUFFICES ASSUME S # {} PROVE q[S] = ReducedBelow(n, q[S \ {Max(S)}], seq[Max(S)])
    BY <1>5 DEF FoldRule
  <2>1. Max(S) \in 1 .. n
    <3>1. Max(S) \in S
      BY <1>1, MaxIn
    <3> QED
      BY <3>1
  <2>2. q[S \ {Max(S)}] \in X
    <3> HIDE DEF X
    <3>1. S \ {Max(S)} \in SUBSET (1 .. n)
      OBVIOUS
    <3> QED
      BY <1>5, <3>1
  <2>3. q[S] = F[Max(S)][q[S \ {Max(S)}]]
    BY <1>5 DEF FoldRule
  <2>4. F[Max(S)][q[S \ {Max(S)}]] = ReducedBelow(n, q[S \ {Max(S)}], Max(S) - 1)
    BY <2>1, <2>2
  <2> HIDE DEF F, seq, X
  <2> QED
    BY <1>2, <2>1, <2>3, <2>4
<1>7. ForwardRule(n, s, seq, g)
  <2> HIDE DEF seq, X, F
  <2>1. q = [S \in SUBSET (1 .. n) |-> q[S]]
    BY <1>5
  <2>2. ForwardRule(n, s, seq, q)
    BY <1>2, <1>6, <2>1 DEF ForwardRule
  <2> QED
    BY <2>2
<1>8. Forward(n, s) = g[1 .. n]
  <2>1. Forward(n, s) = g[DOMAIN seq]
    BY ForwardUnfold
  <2> QED
    BY <1>2, <2>1
<1>9. g[{}] = s
  <2> HIDE DEF g, seq
  <2> QED
    BY <1>7 DEF ForwardRule
<1>10. ASSUME NEW k \in 1 .. n PROVE g[1 .. k] = ReducedBelow(n, g[1 .. k - 1], k - 1)
  <2>1. k \in Nat \ {0} /\ 1 .. k \in SUBSET (1 .. n)
    BY <1>1
  <2>2. Max(1 .. k) = k /\ (1 .. k) \ {k} = 1 .. k - 1 /\ 1 .. k # {}
    BY <2>1, MaxUpTo, UpToBefore
  <2>3. g[1 .. k] = ReducedBelow(n, g[(1 .. k) \ {Max(1 .. k)}], seq[Max(1 .. k)])
    <3> HIDE DEF g, seq
    <3> QED
      BY <1>2, <1>7, <2>1, <2>2 DEF ForwardRule
  <2> HIDE DEF g, seq
  <2> QED
    BY <1>2, <2>2, <2>3
<1>11. Keeps(X, P, n, g)
  <2>1. s \in X
    OBVIOUS
  <2> HIDE DEF g
  <2>2. \A k \in 1 .. n : g[1 .. k - 1] \in X => g[1 .. k] \in X
    BY <1>3, <1>10
  <2>3. \A k \in 1 .. n : g[1 .. k - 1] \in X /\ g[1 .. k - 1] \in P[k - 1]
                           => g[1 .. k] \in P[k]
    BY <1>10
  <2> QED
    BY <1>9, <2>1, <2>2, <2>3 DEF Keeps
<1>12. g[1 .. n] \in X /\ g[1 .. n] \in P[n]
  <2> HIDE DEF g, X
  <2> QED
    BY <1>1, <1>11, LoopKeeps
<1> QED
  BY <1>8, <1>12

-----------------------------------------------------------------------------
(* The backward reduction as a loop *)

\* The inner loop of the backward reduction changes one entry of row j.
EntryEliminated(n, t, i, j, f, r) ==
  /\ r \in System(n)
  /\ r.zeroed = t.zeroed
  /\ t.A[j][i] = Zero => r = t
  /\ t.A[j][i] # Zero =>
       /\ r.A[j] = [t.A[j] EXCEPT ![i] = Add(t.A[j][i], Mul(t.A[i][i], f))]
       /\ r.B[j] = Add(t.B[j], Mul(t.B[i], f))
       /\ \A k \in Indices(n) : k # j => r.A[k] = t.A[k] /\ r.B[k] = t.B[k]

LEMMA EliminatedRows ==
  ASSUME NEW n \in Nat, NEW t \in System(n), NEW i \in Indices(n), NEW j \in Indices(n), i # j
  PROVE  EntryEliminated(n, t, i, j, FactorOf(t, i, j), Eliminated(t, i, j))
<1> DEFINE f == FactorOf(t, i, j)
           r == Eliminated(t, i, j)
           e == Add(t.A[j][i], Mul(t.A[i][i], f))
           v == Add(t.B[j], Mul(t.B[i], f))
<1>1. CASE t.A[j][i] = Zero
  BY <1>1 DEF Eliminated, EntryEliminated
<1>2. CASE t.A[j][i] # Zero
  <2>1. /\ f \in Elem /\ t.A[i][i] \in Elem /\ t.A[j][i] \in Elem /\ t.A[j] \in Vector(n)
        /\ t.B[i] \in Elem /\ t.B[j] \in Elem
    BY FactorType
  <2>2. Mul(t.A[i][i], f) \in Elem /\ Mul(t.B[i], f) \in Elem
    BY <2>1, FieldTypes
  <2>3. e \in Elem /\ v \in Elem
    BY <2>1, <2>2, FieldTypes
  <2>4. /\ t.A \in [Indices(n) -> Vector(n)] /\ t.B \in [Indices(n) -> Elem]
        /\ t.zeroed \subseteq Indices(n)
        /\ t = [A |-> t.A, B |-> t.B, zeroed |-> t.zeroed]
    BY DEF System, Vector
  <2>5. r = [t EXCEPT !.A[j][i] = e, !.B[j] = v]
    BY <1>2 DEF Eliminated
  <2> HIDE DEF f, r, e, v
  <2>6. r = [A      |-> [t.A EXCEPT ![j] = [t.A[j] EXCEPT ![i] = e]],
             B      |-> [t.B EXCEPT ![j] = v],
             zeroed |-> t.zeroed]
    BY <2>4, <2>5
  <2> DEFINE row == [t.A[j] EXCEPT ![i] = e]
  <2>7. row \in Vector(n)
    BY <2>1, <2>3 DEF Vector
  <2> HIDE DEF row
  <2>8. /\ r.A = [t.A EXCEPT ![j] = row] /\ r.B = [t.B EXCEPT ![j] = v]
        /\ r.zeroed = t.zeroed /\ r = [A |-> r.A, B |-> r.B, zeroed |-> r.zeroed]
    BY <2>6 DEF row
  <2>9. /\ r.A \in [Indices(n) -> Vector(n)] /\ r.B \in [Indices(n) -> Elem]
        /\ r.A[j] = row /\ r.B[j] = v
        /\ \A k \in Indices(n) : k # j => r.A[k] = t.A[k] /\ r.B[k] = t.B[k]
    BY <2>3, <2>4, <2>7, <2>8
  <2>10. r \in System(n)
    BY <2>4, <2>8, <2>9 DEF System, Vector
  <2> QED
    BY <1>2, <2>8, <2>9, <2>10 DEF EntryEliminated, f, r, e, v, row
<1> QED
  BY <1>1, <1>2

\* Row i is divided by its pivot.
RowNormalised(n, t, i, r) ==
  /\ r \in System(n)
  /\ r.A[i] = [t.A[i] EXCEPT ![i] = Mul(t.A[i][i], Inv(t.A[i][i]))]
  /\ r.B[i] = Mul(t.B[i], Inv(t.A[i][i]))
  /\ \A k \in Indices(n) : k # i => r.A[k] = t.A[k] /\ r.B[k] = t.B[k]
  /\ r.zeroed = IF t.A[i][i] = Zero THEN t.zeroed \cup {i} ELSE t.zeroed

LEMMA NormalisedRows ==
  ASSUME NEW n \in Nat, NEW t \in System(n), NEW i \in Indices(n)
  PROVE  RowNormalised(n, t, i, Normalised(t, i))
<1> DEFINE r == Normalised(t, i)
           e == Mul(t.A[i][i], Inv(t.A[i][i]))
           v == Mul(t.B[i], Inv(t.A[i][i]))
           z == IF t.A[i][i] = Zero THEN t.zeroed \cup {i} ELSE t.zeroed
<1>1. /\ t.A[i][i] \in Elem /\ Inv(t.A[i][i]) \in Elem /\ t.A[i] \in Vector(n)
      /\ t.B[i] \in Elem
  BY FactorType
<1>2. e \in Elem /\ v \in Elem
  BY <1>1, FieldTypes
<1>3. /\ t.A \in [Indices(n) -> Vector(n)] /\ t.B \in [Indices(n) -> Elem]
      /\ t.zeroed \subseteq Indices(n)
      /\ t = [A |-> t.A, B |-> t.B, zeroed |-> t.zeroed]
  BY DEF System, Vector
<1>4. r = [t EXCEPT !.A[i][i] = e, !.B[i] = v, !.zeroed = z]
  BY DEF Normalised, WithZeroed
<1>5. z \subseteq Indices(n)
  BY <1>3
<1> HIDE DEF r, e, v, z
<1> DEFINE row == [t.A[i] EXCEPT ![i] = e]
<1>6. row \in Vector(n)
  BY <1>1, <1>2 DEF Vector
<1>7. r = [A |-> [t.A EXCEPT ![i] = row], B |-> [t.B EXCEPT ![i] = v], zeroed |-> z]
  BY <1>3, <1>4
<1> HIDE DEF row
<1>8. /\ r.A = [t.A EXCEPT ![i] = row] /\ r.B = [t.B EXCEPT ![i] = v]
      /\ r.zeroed = z /\ r = [A |-> r.A, B |-> r.B, zeroed |-> r.zeroed]
  BY <1>7
<1>9. /\ r.A \in [Indices(n) -> Vector(n)] /\ r.B \in [Indices(n) -> Elem]
      /\ r.A[i] = row /\ r.B[i] = v
      /\ \A k \in Indices(n) : k # i => r.A[k] = t.A[k] /\ r.B[k] = t.B[k]
  BY <1>2, <1>3, <1>6, <1>8
<1>10. r \in System(n)
  BY <1>5, <1>8, <1>9 DEF System, Vector
<1> QED
  BY <1>8, <1>9, <1>10 DEF RowNormalised, r, e, v, z, row

AboveRule(i, s, seq, g) ==
  g = [S \in SUBSET DOMAIN seq |->
         IF S = {} THEN s ELSE Eliminated(g[S \ {Max(S)}], i, seq[Max(S)])]

LEMMA AboveUnfold ==
  ASSUME NEW i, NEW s
  PROVE  EliminatedAbove(s, i) =
           (CHOOSE g : AboveRule(i, s, Downward(i - 1, 0), g))[DOMAIN Downward(i - 1, 0)]
BY Zenon DEF EliminatedAbove, FoldLeft, MapThenFoldSet, AboveRule

\* The inner loop of the backward reduction, from row i - 1 up.
LEMMA AboveLoop ==
  ASSUME NEW n \in Nat, NEW i \in Indices(n), NEW s \in System(n),
         NEW P, s \in P[0],
         \A k \in 1 .. i : \A t \in System(n) :
           t \in P[k - 1] => Eliminated(t, i, i - k) \in P[k]
  PROVE  EliminatedAbove(s, i) \in System(n) /\ EliminatedAbove(s, i) \in P[i]
<1> DEFINE m   == i
           X   == System(n)
           seq == Downward(i - 1, 0)
           F   == [k \in 1 .. m |-> [t \in X |-> Eliminated(t, i, i - k)]]
           g   == CHOOSE q : AboveRule(i, s, seq, q)
<1>1. m \in Nat /\ \A k \in 1 .. m : i - k \in Indices(n) /\ i - k # i
  BY DEF Indices
<1>2. DOMAIN seq = 1 .. m /\ \A k \in 1 .. m : seq[k] = i - k
  <2>1. n \in Int /\ i \in Int
    BY DEF Indices
  <2> QED
    BY <2>1 DEF Downward
<1>3. ASSUME NEW k \in 1 .. m, NEW t \in X PROVE Eliminated(t, i, i - k) \in X
  BY <1>1, EliminatedRows DEF EntryEliminated
<1>4. F \in [1 .. m -> [X -> X]]
  BY <1>3
<1>5. PICK q \in [SUBSET (1 .. m) -> X] : FoldRule(F, s, q, 1 .. m)
  <2> HIDE DEF m, F
  <2> QED
    BY <1>1, <1>4, FoldExists
<1>6. ASSUME NEW S \in SUBSET (1 .. m)
      PROVE  q[S] = IF S = {} THEN s ELSE Eliminated(q[S \ {Max(S)}], i, seq[Max(S)])
  <2> SUFFICES ASSUME S # {} PROVE q[S] = Eliminated(q[S \ {Max(S)}], i, seq[Max(S)])
    BY <1>5 DEF FoldRule
  <2>1. Max(S) \in 1 .. m
    <3>1. Max(S) \in S
      BY <1>1, MaxIn
    <3> QED
      BY <3>1
  <2>2. q[S \ {Max(S)}] \in X
    <3> HIDE DEF X
    <3>1. S \ {Max(S)} \in SUBSET (1 .. m)
      OBVIOUS
    <3> QED
      BY <1>5, <3>1
  <2>3. q[S] = F[Max(S)][q[S \ {Max(S)}]]
    BY <1>5 DEF FoldRule
  <2>4. F[Max(S)][q[S \ {Max(S)}]] = Eliminated(q[S \ {Max(S)}], i, i - Max(S))
    BY <2>1, <2>2
  <2> HIDE DEF F, seq, X
  <2> QED
    BY <1>2, <2>1, <2>3, <2>4
<1>7. AboveRule(i, s, seq, g)
  <2> HIDE DEF m, seq, X, F
  <2>1. q = [S \in SUBSET (1 .. m) |-> q[S]]
    BY <1>5
  <2>2. AboveRule(i, s, seq, q)
    BY <1>2, <1>6, <2>1 DEF AboveRule
  <2> QED
    BY <2>2
<1>8. EliminatedAbove(s, i) = g[1 .. m]
  <2>1. EliminatedAbove(s, i) = g[DOMAIN seq]
    BY AboveUnfold
  <2> QED
    BY <1>2, <2>1
<1>9. g[{}] = s
  <2> HIDE DEF g, seq
  <2> QED
    BY <1>7 DEF AboveRule
<1>10. ASSUME NEW k \in 1 .. m PROVE g[1 .. k] = Eliminated(g[1 .. k - 1], i, i - k)
  <2>1. k \in Nat \ {0} /\ 1 .. k \in SUBSET (1 .. m)
    BY <1>1
  <2>2. Max(1 .. k) = k /\ (1 .. k) \ {k} = 1 .. k - 1 /\ 1 .. k # {}
    BY <2>1, MaxUpTo, UpToBefore
  <2>3. g[1 .. k] = Eliminated(g[(1 .. k) \ {Max(1 .. k)}], i, seq[Max(1 .. k)])
    <3> HIDE DEF g, seq, m
    <3> QED
      BY <1>2, <1>7, <2>1, <2>2 DEF AboveRule
  <2> HIDE DEF g, seq
  <2> QED
    BY <1>2, <2>2, <2>3
<1>11. Keeps(X, P, m, g)
  <2>1. s \in X
    OBVIOUS
  <2> HIDE DEF g
  <2>2. \A k \in 1 .. m : g[1 .. k - 1] \in X => g[1 .. k] \in X
    BY <1>3, <1>10
  <2>3. \A k \in 1 .. m : g[1 .. k - 1] \in X /\ g[1 .. k - 1] \in P[k - 1]
                           => g[1 .. k] \in P[k]
    BY <1>10
  <2> QED
    BY <1>9, <2>1, <2>2, <2>3 DEF Keeps
<1>12. g[1 .. m] \in X /\ g[1 .. m] \in P[m]
  <2> HIDE DEF g, m, X
  <2> QED
    BY <1>1, <1>11, LoopKeeps
<1> QED
  BY <1>8, <1>12

LEMMA AboveType ==
  ASSUME NEW n \in Nat, NEW i \in Indices(n), NEW s \in System(n)
  PROVE  EliminatedAbove(s, i) \in System(n)
<1> DEFINE P == [k \in 0 .. i |-> System(n)]
<1>1. 0 \in 0 .. i /\ \A k \in 1 .. i : i - k \in Indices(n) /\ i # i - k
  BY DEF Indices
<1>2. \A k \in 1 .. i : \A t \in System(n) :
        t \in P[k - 1] => Eliminated(t, i, i - k) \in P[k]
  <2> SUFFICES ASSUME NEW k \in 1 .. i, NEW t \in System(n)
               PROVE  Eliminated(t, i, i - k) \in P[k]
    OBVIOUS
  <2>1. P[k] = System(n)
    OBVIOUS
  <2>2. Eliminated(t, i, i - k) \in System(n)
    BY <1>1, EliminatedRows DEF EntryEliminated
  <2> QED
    BY <2>1, <2>2
<1>3. s \in P[0]
  BY <1>1
<1> HIDE DEF P
<1> QED
  BY <1>2, <1>3, AboveLoop

BackwardRule(s, seq, g) ==
  g = [S \in SUBSET DOMAIN seq |->
         IF S = {} THEN s
         ELSE Normalised(EliminatedAbove(g[S \ {Max(S)}], seq[Max(S)]), seq[Max(S)])]

LEMMA BackwardUnfold ==
  ASSUME NEW n, NEW s
  PROVE  Backward(n, s) =
           (CHOOSE g : BackwardRule(s, Downward(n - 1, 0), g))[DOMAIN Downward(n - 1, 0)]
BY Zenon DEF Backward, FoldLeft, MapThenFoldSet, BackwardRule

\* The outer loop of the backward reduction, from the last row up.
LEMMA BackwardLoop ==
  ASSUME NEW n \in Nat, NEW s \in System(n),
         NEW P, s \in P[0],
         \A k \in 1 .. n : \A t \in System(n) :
           t \in P[k - 1] => Normalised(EliminatedAbove(t, n - k), n - k) \in P[k]
  PROVE  Backward(n, s) \in System(n) /\ Backward(n, s) \in P[n]
<1> DEFINE Step(t, r) == Normalised(EliminatedAbove(t, r), r)
           X   == System(n)
           seq == Downward(n - 1, 0)
           F   == [k \in 1 .. n |-> [t \in X |-> Step(t, n - k)]]
           g   == CHOOSE q : BackwardRule(s, seq, q)
<1>1. \A k \in 1 .. n : n - k \in Indices(n)
  BY DEF Indices
<1>2. DOMAIN seq = 1 .. n /\ \A k \in 1 .. n : seq[k] = n - k
  <2>1. n \in Int
    BY DEF Indices
  <2> QED
    BY <2>1 DEF Downward
<1>3. ASSUME NEW k \in 1 .. n, NEW t \in X PROVE Step(t, n - k) \in X
  BY <1>1, AboveType, NormalisedRows DEF RowNormalised
<1>4. F \in [1 .. n -> [X -> X]]
  BY <1>3
<1>5. PICK q \in [SUBSET (1 .. n) -> X] : FoldRule(F, s, q, 1 .. n)
  <2> HIDE DEF F
  <2> QED
    BY <1>1, <1>4, FoldExists
<1>6. ASSUME NEW S \in SUBSET (1 .. n)
      PROVE  q[S] = IF S = {} THEN s ELSE Step(q[S \ {Max(S)}], seq[Max(S)])
  <2> SUFFICES ASSUME S # {} PROVE q[S] = Step(q[S \ {Max(S)}], seq[Max(S)])
    BY <1>5 DEF FoldRule
  <2>1. Max(S) \in 1 .. n
    <3>1. Max(S) \in S
      BY <1>1, MaxIn
    <3> QED
      BY <3>1
  <2>2. q[S \ {Max(S)}] \in X
    <3> HIDE DEF X
    <3>1. S \ {Max(S)} \in SUBSET (1 .. n)
      OBVIOUS
    <3> QED
      BY <1>5, <3>1
  <2>3. q[S] = F[Max(S)][q[S \ {Max(S)}]]
    BY <1>5 DEF FoldRule
  <2>4. F[Max(S)][q[S \ {Max(S)}]] = Step(q[S \ {Max(S)}], n - Max(S))
    BY <2>1, <2>2
  <2> HIDE DEF F, seq, X
  <2> QED
    BY <1>2, <2>1, <2>3, <2>4
<1>7. BackwardRule(s, seq, g)
  <2> HIDE DEF seq, X, F
  <2>1. q = [S \in SUBSET (1 .. n) |-> q[S]]
    BY <1>5
  <2>2. BackwardRule(s, seq, q)
    BY <1>2, <1>6, <2>1 DEF BackwardRule
  <2> QED
    BY <2>2
<1>8. Backward(n, s) = g[1 .. n]
  <2>1. Backward(n, s) = g[DOMAIN seq]
    BY BackwardUnfold
  <2> QED
    BY <1>2, <2>1
<1>9. g[{}] = s
  <2> HIDE DEF g, seq
  <2> QED
    BY <1>7 DEF BackwardRule
<1>10. ASSUME NEW k \in 1 .. n PROVE g[1 .. k] = Step(g[1 .. k - 1], n - k)
  <2>1. k \in Nat \ {0} /\ 1 .. k \in SUBSET (1 .. n)
    BY <1>1
  <2>2. Max(1 .. k) = k /\ (1 .. k) \ {k} = 1 .. k - 1 /\ 1 .. k # {}
    BY <2>1, MaxUpTo, UpToBefore
  <2>3. g[1 .. k] = Step(g[(1 .. k) \ {Max(1 .. k)}], seq[Max(1 .. k)])
    <3> HIDE DEF g, seq
    <3> QED
      BY <1>2, <1>7, <2>1, <2>2 DEF BackwardRule
  <2> HIDE DEF g, seq
  <2> QED
    BY <1>2, <2>2, <2>3
<1>11. Keeps(X, P, n, g)
  <2>1. s \in X
    OBVIOUS
  <2> HIDE DEF g
  <2>2. \A k \in 1 .. n : g[1 .. k - 1] \in X => g[1 .. k] \in X
    BY <1>3, <1>10
  <2>3. \A k \in 1 .. n : g[1 .. k - 1] \in X /\ g[1 .. k - 1] \in P[k - 1]
                           => g[1 .. k] \in P[k]
    BY <1>10
  <2> QED
    BY <1>9, <2>1, <2>2, <2>3 DEF Keeps
<1>12. g[1 .. n] \in X /\ g[1 .. n] \in P[n]
  <2> HIDE DEF g, X
  <2> QED
    BY <1>1, <1>11, LoopKeeps
<1> QED
  BY <1>8, <1>12

-----------------------------------------------------------------------------
(* The systems a loop goes through *)

\* m iterations take s to r, and the first k of them take it to t.
Leads(X, F, m, s, r, k, t) ==
  \E q \in [0 .. m -> X] :
    /\ q[0] = s /\ q[m] = r
    /\ \A l \in 1 .. m : q[l] = F[l][q[l - 1]]
    /\ q[k] = t

\* The systems that k iterations can take s to: there is one.
Reach(X, F, s, m) ==
  [k \in 0 .. m |->
     {t \in X : \E q \in [0 .. k -> X] :
                  /\ q[0] = s /\ q[k] = t
                  /\ \A l \in 1 .. k : q[l] = F[l][q[l - 1]]}]

LEMMA ReachSteps ==
  ASSUME NEW X, NEW m \in Nat, NEW F \in [1 .. m -> [X -> X]], NEW s \in X
  PROVE  /\ s \in Reach(X, F, s, m)[0]
         /\ \A k \in 1 .. m : \A t \in X :
              t \in Reach(X, F, s, m)[k - 1] => F[k][t] \in Reach(X, F, s, m)[k]
<1>1. s \in Reach(X, F, s, m)[0]
  <2> DEFINE q == [k \in 0 .. 0 |-> s]
  <2>1. /\ q \in [0 .. 0 -> X] /\ q[0] = s
        /\ \A l \in 1 .. 0 : q[l] = F[l][q[l - 1]]
    OBVIOUS
  <2> HIDE DEF q
  <2>2. 0 \in 0 .. m
    OBVIOUS
  <2> QED
    BY <2>1, <2>2 DEF Reach
<1>2. ASSUME NEW k \in 1 .. m, NEW t \in X, t \in Reach(X, F, s, m)[k - 1]
      PROVE  F[k][t] \in Reach(X, F, s, m)[k]
  <2>1. k \in 0 .. m /\ k - 1 \in 0 .. m /\ F[k][t] \in X
    OBVIOUS
  <2>2. PICK q \in [0 .. k - 1 -> X] :
          /\ q[0] = s /\ q[k - 1] = t
          /\ \A l \in 1 .. k - 1 : q[l] = F[l][q[l - 1]]
    BY <1>2, <2>1 DEF Reach
  <2> DEFINE p == [l \in 0 .. k |-> IF l = k THEN F[k][t] ELSE q[l]]
  <2>3. p \in [0 .. k -> X] /\ p[0] = s /\ p[k] = F[k][t]
    BY <2>1, <2>2
  <2>4. \A l \in 0 .. k - 1 : p[l] = q[l]
    OBVIOUS
  <2>5. \A l \in 1 .. k : p[l] = F[l][p[l - 1]]
    BY <2>2, <2>3, <2>4
  <2> HIDE DEF p
  <2> QED
    BY <2>1, <2>3, <2>5 DEF Reach
<1> QED
  BY <1>1, <1>2

LEMMA LeadsFrom ==
  ASSUME NEW X, NEW m \in Nat, NEW F, NEW s, NEW r \in Reach(X, F, s, m)[m]
  PROVE  Leads(X, F, m, s, r, 0, s)
<1>1. PICK q \in [0 .. m -> X] : /\ q[0] = s /\ q[m] = r
                                 /\ \A l \in 1 .. m : q[l] = F[l][q[l - 1]]
  BY DEF Reach
<1> QED
  BY <1>1 DEF Leads

LEMMA LeadsOn ==
  ASSUME NEW X, NEW m \in Nat, NEW F, NEW s, NEW r, NEW k \in 0 .. m - 1, NEW t,
         Leads(X, F, m, s, r, k, t)
  PROVE  t \in X /\ F[k + 1][t] \in X /\ Leads(X, F, m, s, r, k + 1, F[k + 1][t])
<1>1. PICK q \in [0 .. m -> X] : /\ q[0] = s /\ q[m] = r
                                 /\ \A l \in 1 .. m : q[l] = F[l][q[l - 1]]
                                 /\ q[k] = t
  BY DEF Leads
<1>2. k + 1 \in 1 .. m /\ k + 1 \in 0 .. m /\ k \in 0 .. m /\ (k + 1) - 1 = k
  OBVIOUS
<1>3. q[k + 1] = F[k + 1][t] /\ q[k] \in X /\ q[k + 1] \in X
  BY <1>1, <1>2
<1> QED
  BY <1>1, <1>3 DEF Leads

LEMMA LeadsTo ==
  ASSUME NEW X, NEW m \in Nat, NEW F, NEW s, NEW r, NEW t, Leads(X, F, m, s, r, m, t)
  PROVE  t = r /\ t \in X
BY DEF Leads

\* The four loops.
RowSteps(n, i)   == [k \in 1 .. n - 1 - i |-> [t \in System(n) |-> Reduced(t, i, i + k)]]
ForwardSteps(n)  == [k \in 1 .. n |-> [t \in System(n) |-> ReducedBelow(n, t, k - 1)]]
AboveSteps(n, i) == [k \in 1 .. i |-> [t \in System(n) |-> Eliminated(t, i, i - k)]]
BackwardSteps(n) ==
  [k \in 1 .. n |-> [t \in System(n) |-> Normalised(EliminatedAbove(t, n - k), n - k)]]

LEMMA RowLeads ==
  ASSUME NEW n \in Nat, NEW i \in Indices(n), NEW s \in System(n)
  PROVE  Leads(System(n), RowSteps(n, i), n - 1 - i, s, ReducedBelow(n, s, i), 0, s)
<1> DEFINE m == n - 1 - i
           X == System(n)
           F == RowSteps(n, i)
           P == Reach(X, F, s, m)
<1>1. m \in Nat /\ \A k \in 1 .. m : i + k \in Indices(n) /\ i + k # i
  BY DEF Indices
<1>2. ASSUME NEW k \in 1 .. m, NEW t \in X
      PROVE  Reduced(t, i, i + k) \in X /\ F[k][t] = Reduced(t, i, i + k)
  <2>1. Reduced(t, i, i + k) \in X
    BY <1>1, ReducedRows DEF RowsReduced
  <2> QED
    BY <2>1 DEF RowSteps
<1>3. F \in [1 .. m -> [X -> X]]
  BY <1>2 DEF RowSteps
<1> HIDE DEF m, X, F
<1>4. s \in X
  BY DEF X
<1>5. s \in P[0] /\ \A k \in 1 .. m : \A t \in X : t \in P[k - 1] => F[k][t] \in P[k]
  BY <1>1, <1>3, <1>4, ReachSteps
<1> HIDE DEF P
<1>6. ReducedBelow(n, s, i) \in P[m]
  BY <1>2, <1>5, RowLoop DEF m, X
<1> QED
  BY <1>1, <1>6, LeadsFrom DEF P, m, X, F

LEMMA ForwardLeads ==
  ASSUME NEW n \in Nat, NEW s \in System(n)
  PROVE  Leads(System(n), ForwardSteps(n), n, s, Forward(n, s), 0, s)
<1> DEFINE X == System(n)
           F == ForwardSteps(n)
           P == Reach(X, F, s, n)
<1>1. \A k \in 1 .. n : k - 1 \in Indices(n)
  BY DEF Indices
<1>2. ASSUME NEW k \in 1 .. n, NEW t \in X
      PROVE  ReducedBelow(n, t, k - 1) \in X /\ F[k][t] = ReducedBelow(n, t, k - 1)
  <2>1. ReducedBelow(n, t, k - 1) \in X
    BY <1>1, RowType
  <2> QED
    BY <2>1 DEF ForwardSteps
<1>3. F \in [1 .. n -> [X -> X]]
  BY <1>2 DEF ForwardSteps
<1> HIDE DEF X, F
<1>4. s \in X
  BY DEF X
<1>5. s \in P[0] /\ \A k \in 1 .. n : \A t \in X : t \in P[k - 1] => F[k][t] \in P[k]
  BY <1>3, <1>4, ReachSteps
<1> HIDE DEF P
<1>6. Forward(n, s) \in P[n]
  BY <1>2, <1>5, ForwardLoop DEF X
<1> QED
  BY <1>6, LeadsFrom DEF P, X, F

LEMMA AboveLeads ==
  ASSUME NEW n \in Nat, NEW i \in Indices(n), NEW s \in System(n)
  PROVE  Leads(System(n), AboveSteps(n, i), i, s, EliminatedAbove(s, i), 0, s)
<1> DEFINE X == System(n)
           F == AboveSteps(n, i)
           P == Reach(X, F, s, i)
<1>1. i \in Nat /\ \A k \in 1 .. i : i - k \in Indices(n) /\ i - k # i
  BY DEF Indices
<1>2. ASSUME NEW k \in 1 .. i, NEW t \in X
      PROVE  Eliminated(t, i, i - k) \in X /\ F[k][t] = Eliminated(t, i, i - k)
  <2>1. Eliminated(t, i, i - k) \in X
    BY <1>1, EliminatedRows DEF EntryEliminated
  <2> QED
    BY <2>1 DEF AboveSteps
<1>3. F \in [1 .. i -> [X -> X]]
  BY <1>2 DEF AboveSteps
<1> HIDE DEF X, F
<1>4. s \in X
  BY DEF X
<1>5. s \in P[0] /\ \A k \in 1 .. i : \A t \in X : t \in P[k - 1] => F[k][t] \in P[k]
  BY <1>1, <1>3, <1>4, ReachSteps
<1> HIDE DEF P
<1>6. EliminatedAbove(s, i) \in P[i]
  BY <1>2, <1>5, AboveLoop DEF X
<1> QED
  BY <1>1, <1>6, LeadsFrom DEF P, X, F

LEMMA BackwardLeads ==
  ASSUME NEW n \in Nat, NEW s \in System(n)
  PROVE  Leads(System(n), BackwardSteps(n), n, s, Backward(n, s), 0, s)
<1> DEFINE X       == System(n)
           F       == BackwardSteps(n)
           P       == Reach(X, F, s, n)
           Step(t, k) == Normalised(EliminatedAbove(t, n - k), n - k)
<1>1. \A k \in 1 .. n : n - k \in Indices(n)
  BY DEF Indices
<1>2. ASSUME NEW k \in 1 .. n, NEW t \in X
      PROVE  Step(t, k) \in X /\ F[k][t] = Step(t, k)
  <2>1. Step(t, k) \in X
    BY <1>1, AboveType, NormalisedRows DEF RowNormalised
  <2> QED
    BY <2>1 DEF BackwardSteps
<1>3. F \in [1 .. n -> [X -> X]]
  BY <1>2 DEF BackwardSteps
<1> HIDE DEF X, F
<1>4. s \in X
  BY DEF X
<1>5. s \in P[0] /\ \A k \in 1 .. n : \A t \in X : t \in P[k - 1] => F[k][t] \in P[k]
  BY <1>3, <1>4, ReachSteps
<1> HIDE DEF P
<1>6. Backward(n, s) \in P[n]
  BY <1>2, <1>5, BackwardLoop DEF X
<1> QED
  BY <1>6, LeadsFrom DEF P, X, F

-----------------------------------------------------------------------------
(* Rows that were multiplied by zero *)

Blank(n, t, r) == t.B[r] = Zero /\ \A c \in Indices(n) : t.A[r][c] = Zero

\* During the forward reduction they are blank and above row m.
ZeroedBlank(n, t, m) == \A r \in t.zeroed : r < m /\ Blank(n, t, r)

\* During the backward reduction those above row m still are, and all of them
\* have the symbol zero.
ZeroedLost(n, t, m) ==
  \A r \in t.zeroed : t.B[r] = Zero /\ (r < m => Blank(n, t, r))

LEMMA ReducedBlank ==
  ASSUME NEW n \in Nat, NEW t \in System(n), NEW i \in Indices(n), NEW j \in Indices(n), i < j,
         ZeroedBlank(n, t, i + 1)
  PROVE  ZeroedBlank(n, Reduced(t, i, j), i + 1)
<1> DEFINE f == FactorOf(t, i, j)
           r == Reduced(t, i, j)
<1>1. i # j /\ i \in Int /\ j \in Int
  BY DEF Indices
<1>2. RowsReduced(n, t, i, j, f, r)
  BY <1>1, ReducedRows
<1>3. /\ f \in Elem /\ t.A[i] \in Vector(n) /\ t.B[i] \in Elem
      /\ \A c \in Indices(n) : t.A[i][c] \in Elem
  <2>1. f \in Elem /\ t.A[i] \in Vector(n) /\ t.B[i] \in Elem
    BY FactorType
  <2> QED
    BY <2>1 DEF Vector
<1> HIDE DEF f, r
<1>4. \A c \in Indices(n) : Scale(f, t.A[i])[c] = Mul(t.A[i][c], f)
  <2>1. Scale(f, t.A[i]) = [c \in Indices(n) |-> Mul(t.A[i][c], f)]
    BY <1>3, RowTypes
  <2> QED
    BY <2>1
<1>5. ASSUME NEW k \in r.zeroed PROVE k < i + 1 /\ Blank(n, r, k)
  <2>1. k \in Indices(n) /\ t.zeroed \subseteq Indices(n)
    BY <1>2, <1>5 DEF RowsReduced, System
  <2>2. CASE k = i
    <3>1. r.B[i] = Mul(t.B[i], f) /\ \A c \in Indices(n) : r.A[i][c] = Mul(t.A[i][c], f)
      BY <1>2, <1>4 DEF RowsReduced
    <3>2. f = Zero \/ (t.B[i] = Zero /\ \A c \in Indices(n) : t.A[i][c] = Zero)
      BY <1>2, <2>2 DEF RowsReduced, ZeroedBlank, Blank
    <3>3. CASE f = Zero
      BY <1>1, <1>3, <2>2, <3>1, <3>3, ZeroLaws DEF Blank
    <3>4. CASE t.B[i] = Zero /\ \A c \in Indices(n) : t.A[i][c] = Zero
      BY <1>1, <1>3, <2>2, <3>1, <3>4, ZeroLaws DEF Blank
    <3> QED
      BY <3>2, <3>3, <3>4
  <2>3. CASE k # i
    <3>1. k \in t.zeroed
      BY <1>2, <2>3 DEF RowsReduced
    <3>2. k < i + 1 /\ Blank(n, t, k)
      BY <3>1 DEF ZeroedBlank
    <3>3. k # j
      BY <1>1, <3>2
    <3>4. r.A[k] = t.A[k] /\ r.B[k] = t.B[k]
      BY <1>2, <2>1, <2>3, <3>3 DEF RowsReduced
    <3> QED
      BY <3>2, <3>4 DEF Blank
  <2> QED
    BY <2>2, <2>3
<1>6. ZeroedBlank(n, r, i + 1)
  BY <1>5 DEF ZeroedBlank
<1> QED
  BY <1>6 DEF r

LEMMA RowBlank ==
  ASSUME NEW n \in Nat, NEW i \in Indices(n), NEW s \in System(n), ZeroedBlank(n, s, i)
  PROVE  ZeroedBlank(n, ReducedBelow(n, s, i), i + 1)
<1> DEFINE m == n - 1 - i
           P == [k \in 0 .. m |-> {t \in System(n) : ZeroedBlank(n, t, i + 1)}]
<1>1. i \in Int /\ m \in Nat /\ 0 \in 0 .. m /\ m \in 0 .. m
      /\ \A k \in 1 .. m : /\ i + k \in Indices(n) /\ i < i + k
                           /\ k \in 0 .. m /\ k - 1 \in 0 .. m
  BY DEF Indices
<1>2. s \in P[0]
  <2>1. \A r \in s.zeroed : r \in Int
    BY DEF System, Indices
  <2>2. ZeroedBlank(n, s, i + 1)
    BY <1>1, <2>1 DEF ZeroedBlank
  <2> QED
    BY <1>1, <2>2
<1>3. \A k \in 1 .. m : \A t \in System(n) : t \in P[k - 1] => Reduced(t, i, i + k) \in P[k]
  <2> SUFFICES ASSUME NEW k \in 1 .. m, NEW t \in System(n), t \in P[k - 1]
               PROVE  Reduced(t, i, i + k) \in P[k]
    OBVIOUS
  <2>1. ZeroedBlank(n, t, i + 1)
    BY <1>1
  <2>2. ZeroedBlank(n, Reduced(t, i, i + k), i + 1)
    BY <1>1, <2>1, ReducedBlank
  <2>3. Reduced(t, i, i + k) \in System(n)
    <3>1. i + k \in Indices(n) /\ i # i + k
      BY <1>1
    <3> QED
      BY <3>1, ReducedRows DEF RowsReduced
  <2> QED
    BY <1>1, <2>2, <2>3
<1>4. ReducedBelow(n, s, i) \in P[m]
  <2> HIDE DEF P
  <2> QED
    BY <1>2, <1>3, RowLoop
<1> QED
  BY <1>1, <1>4

LEMMA ForwardBlank ==
  ASSUME NEW n \in Nat, NEW s \in System(n), s.zeroed = {}
  PROVE  Forward(n, s) \in System(n) /\ ZeroedBlank(n, Forward(n, s), n)
<1> DEFINE P == [k \in 0 .. n |-> {t \in System(n) : ZeroedBlank(n, t, k)}]
<1>1. \A k \in 1 .. n :
        k \in 0 .. n /\ k - 1 \in 0 .. n /\ k - 1 \in Indices(n) /\ (k - 1) + 1 = k
  BY DEF Indices
<1>2. s \in P[0]
  BY DEF ZeroedBlank
<1>3. \A k \in 1 .. n : \A t \in System(n) : t \in P[k - 1] => ReducedBelow(n, t, k - 1) \in P[k]
  <2> SUFFICES ASSUME NEW k \in 1 .. n, NEW t \in System(n), t \in P[k - 1]
               PROVE  ReducedBelow(n, t, k - 1) \in P[k]
    OBVIOUS
  <2>1. ZeroedBlank(n, t, k - 1)
    BY <1>1
  <2>2. ZeroedBlank(n, ReducedBelow(n, t, k - 1), (k - 1) + 1)
    BY <1>1, <2>1, RowBlank
  <2>3. ReducedBelow(n, t, k - 1) \in System(n)
    BY <1>1, RowType
  <2> QED
    BY <1>1, <2>2, <2>3
<1>4. Forward(n, s) \in System(n) /\ Forward(n, s) \in P[n]
  <2> HIDE DEF P
  <2> QED
    BY <1>2, <1>3, ForwardLoop
<1> QED
  BY <1>4

LEMMA EliminatedLost ==
  ASSUME NEW n \in Nat, NEW t \in System(n), NEW i \in Indices(n), NEW j \in Indices(n), j < i,
         ZeroedLost(n, t, i + 1)
  PROVE  ZeroedLost(n, Eliminated(t, i, j), i + 1)
<1> DEFINE f == FactorOf(t, i, j)
           r == Eliminated(t, i, j)
<1>1. i # j /\ i \in Int /\ j \in Int /\ j < i + 1
  BY DEF Indices
<1>2. EntryEliminated(n, t, i, j, f, r)
  BY <1>1, EliminatedRows
<1> HIDE DEF f, r
<1>3. CASE t.A[j][i] = Zero
  BY <1>2, <1>3 DEF EntryEliminated, r
<1>4. CASE t.A[j][i] # Zero
  <2>1. ASSUME NEW k \in r.zeroed PROVE r.B[k] = Zero /\ (k < i + 1 => Blank(n, r, k))
    <3>1. k \in t.zeroed /\ k \in Indices(n)
      BY <1>2 DEF EntryEliminated, System
    <3>2. t.B[k] = Zero /\ (k < i + 1 => Blank(n, t, k))
      BY <3>1 DEF ZeroedLost
    <3>3. k # j
      BY <1>1, <1>4, <3>2 DEF Blank
    <3>4. r.A[k] = t.A[k] /\ r.B[k] = t.B[k]
      BY <1>2, <1>4, <3>1, <3>3 DEF EntryEliminated
    <3> QED
      BY <3>2, <3>4 DEF Blank
  <2>2. ZeroedLost(n, r, i + 1)
    BY <2>1 DEF ZeroedLost
  <2> QED
    BY <2>2 DEF r
<1> QED
  BY <1>3, <1>4

LEMMA AboveLost ==
  ASSUME NEW n \in Nat, NEW i \in Indices(n), NEW s \in System(n), ZeroedLost(n, s, i + 1)
  PROVE  ZeroedLost(n, EliminatedAbove(s, i), i + 1)
<1> DEFINE P == [k \in 0 .. i |-> {t \in System(n) : ZeroedLost(n, t, i + 1)}]
<1>1. 0 \in 0 .. i /\ i \in 0 .. i
      /\ \A k \in 1 .. i : /\ i - k \in Indices(n) /\ i - k < i /\ i # i - k
                           /\ k \in 0 .. i /\ k - 1 \in 0 .. i
  BY DEF Indices
<1>2. s \in P[0]
  BY <1>1
<1>3. \A k \in 1 .. i : \A t \in System(n) : t \in P[k - 1] => Eliminated(t, i, i - k) \in P[k]
  <2> SUFFICES ASSUME NEW k \in 1 .. i, NEW t \in System(n), t \in P[k - 1]
               PROVE  Eliminated(t, i, i - k) \in P[k]
    OBVIOUS
  <2>1. ZeroedLost(n, t, i + 1)
    BY <1>1
  <2>2. ZeroedLost(n, Eliminated(t, i, i - k), i + 1)
    BY <1>1, <2>1, EliminatedLost
  <2>3. Eliminated(t, i, i - k) \in System(n)
    BY <1>1, EliminatedRows DEF EntryEliminated
  <2> QED
    BY <1>1, <2>2, <2>3
<1>4. EliminatedAbove(s, i) \in P[i]
  <2> HIDE DEF P
  <2> QED
    BY <1>2, <1>3, AboveLoop
<1> QED
  BY <1>1, <1>4

LEMMA NormalisedLost ==
  ASSUME NEW n \in Nat, NEW t \in System(n), NEW i \in Indices(n), ZeroedLost(n, t, i + 1)
  PROVE  ZeroedLost(n, Normalised(t, i), i)
<1> DEFINE r == Normalised(t, i)
<1>1. RowNormalised(n, t, i, r)
  BY NormalisedRows
<1> HIDE DEF r
<1>2. t.A[i][i] \in Elem /\ t.B[i] \in Elem /\ Inv(t.A[i][i]) \in Elem
  BY FactorType
<1>3. Inv(Zero) = Zero
  BY ByteFieldAssumption DEF FieldAssumption
<1>4. ASSUME NEW k \in r.zeroed PROVE r.B[k] = Zero /\ (k < i => Blank(n, r, k))
  <2>1. k \in Indices(n) /\ k \in Int /\ i \in Int
    BY <1>1 DEF RowNormalised, System, Indices
  <2>2. CASE k = i
    <3>1. r.B[i] = Mul(t.B[i], Inv(t.A[i][i]))
      BY <1>1 DEF RowNormalised
    <3>2. Inv(t.A[i][i]) = Zero \/ t.B[i] = Zero
      BY <1>1, <1>3, <2>1, <2>2 DEF RowNormalised, ZeroedLost
    <3>3. r.B[i] = Zero
      BY <1>2, <3>1, <3>2, ZeroLaws
    <3> QED
      BY <2>1, <2>2, <3>3
  <2>3. CASE k # i
    <3>1. k \in t.zeroed /\ r.A[k] = t.A[k] /\ r.B[k] = t.B[k]
      BY <1>1, <2>1, <2>3 DEF RowNormalised
    <3>2. t.B[k] = Zero /\ (k < i + 1 => Blank(n, t, k))
      BY <3>1 DEF ZeroedLost
    <3> QED
      BY <2>1, <3>1, <3>2 DEF Blank
  <2> QED
    BY <2>2, <2>3
<1>5. ZeroedLost(n, r, i)
  BY <1>4 DEF ZeroedLost
<1> QED
  BY <1>5 DEF r

LEMMA BackwardLost ==
  ASSUME NEW n \in Nat, NEW s \in System(n), ZeroedLost(n, s, n)
  PROVE  Backward(n, s) \in System(n) /\ ZeroedLost(n, Backward(n, s), 0)
<1> DEFINE P == [k \in 0 .. n |-> {t \in System(n) : ZeroedLost(n, t, n - k)}]
<1>1. /\ 0 \in 0 .. n /\ n \in 0 .. n /\ n - 0 = n /\ n - n = 0
      /\ \A k \in 1 .. n : /\ k \in 0 .. n /\ k - 1 \in 0 .. n /\ n - k \in Indices(n)
                           /\ (n - k) + 1 = n - (k - 1)
  BY DEF Indices
<1>2. s \in P[0]
  BY <1>1
<1>3. \A k \in 1 .. n : \A t \in System(n) :
        t \in P[k - 1] => Normalised(EliminatedAbove(t, n - k), n - k) \in P[k]
  <2> SUFFICES ASSUME NEW k \in 1 .. n, NEW t \in System(n), t \in P[k - 1]
               PROVE  Normalised(EliminatedAbove(t, n - k), n - k) \in P[k]
    OBVIOUS
  <2> DEFINE u == EliminatedAbove(t, n - k)
  <2>1. ZeroedLost(n, t, (n - k) + 1)
    BY <1>1
  <2>2. u \in System(n) /\ ZeroedLost(n, u, (n - k) + 1)
    BY <1>1, <2>1, AboveLost, AboveType
  <2> HIDE DEF u
  <2>3. Normalised(u, n - k) \in System(n) /\ ZeroedLost(n, Normalised(u, n - k), n - k)
    BY <1>1, <2>2, NormalisedLost, NormalisedRows DEF RowNormalised
  <2> QED
    BY <1>1, <2>3 DEF u
<1>4. Backward(n, s) \in System(n) /\ Backward(n, s) \in P[n]
  <2> HIDE DEF P
  <2> QED
    BY <1>2, <1>3, BackwardLoop
<1> QED
  BY <1>1, <1>4

\* A row that gf_256_gaussian_elimination multiplied by zero, in whichever of
\* its loops, has the symbol zero when the function returns.
THEOREM ZeroedRowsEndZero ==
  ASSUME NEW n \in Nat, NEW A \in [Indices(n) -> Vector(n)], NEW B \in Vector(n)
  PROVE  /\ HalfReduced(n, A, B) \in System(n) /\ Resolved(n, A, B) \in System(n)
         /\ \A r \in Resolved(n, A, B).zeroed : Resolved(n, A, B).B[r] = Zero
<1> DEFINE s == [A |-> A, B |-> B, zeroed |-> {}]
           t == Forward(n, s)
<1>1. s \in System(n) /\ s.zeroed = {}
  BY DEF System
<1>2. t \in System(n) /\ ZeroedBlank(n, t, n)
  <2> HIDE DEF s
  <2> QED
    BY <1>1, ForwardBlank
<1>3. ZeroedLost(n, t, n)
  <2> HIDE DEF t
  <2> QED
    BY <1>2 DEF ZeroedBlank, ZeroedLost, Blank
<1> HIDE DEF t
<1>4. Backward(n, t) \in System(n) /\ ZeroedLost(n, Backward(n, t), 0)
  BY <1>2, <1>3, BackwardLost
<1>5. HalfReduced(n, A, B) = t /\ Resolved(n, A, B) = Backward(n, t)
  BY DEF HalfReduced, Resolved, t
<1> QED
  BY <1>2, <1>4, <1>5 DEF ZeroedLost

-----------------------------------------------------------------------------
(* Solutions *)

UnitVector(n, r) == [c \in Indices(n) |-> IF c = r THEN One ELSE Zero]

\* L is the left side of equations as a function of their coefficients, the
\* unknowns having some values: it is linear.
Linear(n, L) ==
  /\ L \in [Vector(n) -> Elem]
  /\ \A u \in Vector(n) :
       /\ \A f \in Elem : L[Scale(f, u)] = Mul(L[u], f)
       /\ \A v \in Vector(n) : L[Plus(u, v)] = Add(L[u], L[v])

\* These values solve the system t.
Solves(n, L, t) == \A r \in Indices(n) : L[t.A[r]] = t.B[r]

\* Until a row is multiplied by zero the system has the solutions it had.
SameSolutions(n, L, s, t) ==
  t.zeroed = {} => (Solves(n, L, t) <=> Solves(n, L, s))

\* The columns before i are zero below the pivot, column i down to row j.
Triangular(n, t, i, j) ==
  t.zeroed = {} =>
    \A r, c \in Indices(n) : c < r /\ (c < i \/ (c = i /\ r < j)) => t.A[r][c] = Zero

\* The rows from m on are those of the unit matrix, and those above it have
\* entries only between the diagonal and column m.
Diagonal(n, t, m) ==
  t.zeroed = {} =>
    \A r \in Indices(n) :
      /\ r >= m => t.A[r] = UnitVector(n, r)
      /\ r < m => \A c \in Indices(n) : c < r \/ c >= m => t.A[r][c] = Zero

\* Column i is zero above the pivot and below row j.
ColumnClear(n, t, i, j) ==
  t.zeroed = {} /\ t.A[i][i] # Zero =>
    \A r \in Indices(n) : j < r /\ r < i => t.A[r][i] = Zero

LEMMA ReducedSolutions ==
  ASSUME NEW n \in Nat, NEW L, Linear(n, L), NEW s,
         NEW t \in System(n), NEW i \in Indices(n), NEW j \in Indices(n), i # j,
         SameSolutions(n, L, s, t)
  PROVE  SameSolutions(n, L, s, Reduced(t, i, j))
<1> DEFINE f == FactorOf(t, i, j)
           r == Reduced(t, i, j)
           p == Scale(f, t.A[i])
<1>1. RowsReduced(n, t, i, j, f, r)
  BY ReducedRows
<1>2. /\ f \in Elem /\ t.A[i] \in Vector(n) /\ t.A[j] \in Vector(n)
      /\ t.B[i] \in Elem /\ t.B[j] \in Elem
  BY FactorType
<1>3. p \in Vector(n)
  BY <1>2, RowTypes
<1> HIDE DEF f
<1>4. /\ L[t.A[i]] \in Elem /\ L[t.A[j]] \in Elem
      /\ L[p] = Mul(L[t.A[i]], f) /\ L[Plus(t.A[j], p)] = Add(L[t.A[j]], L[p])
  <2> HIDE DEF p
  <2>1. L[t.A[i]] \in Elem /\ L[t.A[j]] \in Elem /\ L[Plus(t.A[j], p)] = Add(L[t.A[j]], L[p])
    BY <1>2, <1>3 DEF Linear
  <2>2. L[p] = Mul(L[t.A[i]], f)
    BY <1>2 DEF Linear, p
  <2> QED
    BY <2>1, <2>2
<1>5. Mul(L[t.A[i]], f) \in Elem /\ Mul(t.B[i], f) \in Elem
  BY <1>2, <1>4, FieldTypes
<1> HIDE DEF r
<1>6. ASSUME r.zeroed = {} PROVE f # Zero /\ t.zeroed = {}
  BY <1>1, <1>6 DEF RowsReduced
<1>7. ASSUME f # Zero PROVE L[r.A[i]] = r.B[i] <=> L[t.A[i]] = t.B[i]
  <2>1. L[r.A[i]] = Mul(L[t.A[i]], f) /\ r.B[i] = Mul(t.B[i], f)
    BY <1>1, <1>4 DEF RowsReduced
  <2>2. Mul(L[t.A[i]], f) = Mul(t.B[i], f) => L[t.A[i]] = t.B[i]
    BY <1>2, <1>4, <1>7, MulCancels
  <2> QED
    BY <2>1, <2>2
<1>8. ASSUME L[t.A[i]] = t.B[i] PROVE L[r.A[j]] = r.B[j] <=> L[t.A[j]] = t.B[j]
  <2>1. /\ L[r.A[j]] = Add(L[t.A[j]], Mul(t.B[i], f))
        /\ r.B[j] = Add(t.B[j], Mul(t.B[i], f))
    BY <1>1, <1>4, <1>8 DEF RowsReduced
  <2>2. Add(L[t.A[j]], Mul(t.B[i], f)) = Add(t.B[j], Mul(t.B[i], f)) => L[t.A[j]] = t.B[j]
    BY <1>2, <1>4, <1>5, AddCancels
  <2> QED
    BY <2>1, <2>2
<1>9. \A k \in Indices(n) : k \notin {i, j} => (L[r.A[k]] = r.B[k] <=> L[t.A[k]] = t.B[k])
  BY <1>1 DEF RowsReduced
<1>10. ASSUME r.zeroed = {} PROVE Solves(n, L, r) <=> Solves(n, L, t)
  <2>1. L[r.A[i]] = r.B[i] <=> L[t.A[i]] = t.B[i]
    BY <1>6, <1>7, <1>10
  <2>2. ASSUME Solves(n, L, r) PROVE Solves(n, L, t)
    BY <1>8, <1>9, <2>1, <2>2 DEF Solves
  <2>3. ASSUME Solves(n, L, t) PROVE Solves(n, L, r)
    BY <1>8, <1>9, <2>1, <2>3 DEF Solves
  <2> QED
    BY <2>2, <2>3
<1>11. SameSolutions(n, L, s, r)
  BY <1>6, <1>10 DEF SameSolutions
<1> QED
  BY <1>11 DEF r

LEMMA ReducedTriangular ==
  ASSUME NEW n \in Nat, NEW t \in System(n), NEW i \in Indices(n), NEW j \in Indices(n), i < j,
         Triangular(n, t, i, j)
  PROVE  Triangular(n, Reduced(t, i, j), i, j + 1)
<1> DEFINE f == FactorOf(t, i, j)
           r == Reduced(t, i, j)
<1>1. i # j /\ i \in Int /\ j \in Int
  BY DEF Indices
<1>2. RowsReduced(n, t, i, j, f, r)
  BY <1>1, ReducedRows
<1>3. /\ f \in Elem /\ t.A[i] \in Vector(n) /\ t.A[j] \in Vector(n)
      /\ t.A[i][i] \in Elem /\ t.A[j][i] \in Elem
  BY FactorType
<1>4. f # Zero => Add(t.A[j][i], Mul(t.A[i][i], f)) = Zero
  BY <1>3, PivotProduct DEF FactorOf
<1> HIDE DEF f, r
<1>5. \A c \in Indices(n) : /\ t.A[i][c] \in Elem /\ t.A[j][c] \in Elem
                        /\ r.A[i][c] = Mul(t.A[i][c], f)
                        /\ r.A[j][c] = Add(t.A[j][c], Mul(t.A[i][c], f))
  <2> DEFINE p == Scale(f, t.A[i])
  <2>1. p \in Vector(n) /\ p = [c \in Indices(n) |-> Mul(t.A[i][c], f)]
    BY <1>3, RowTypes
  <2>2. r.A[i] = p /\ r.A[j] = Plus(t.A[j], p)
    BY <1>2 DEF RowsReduced
  <2> HIDE DEF p
  <2>3. Plus(t.A[j], p) = [c \in Indices(n) |-> Add(t.A[j][c], p[c])]
    BY <1>3, <2>1, RowTypes
  <2> QED
    BY <1>3, <2>1, <2>2, <2>3 DEF Vector
<1>6. ASSUME r.zeroed = {}, NEW k \in Indices(n), NEW c \in Indices(n),
             c < k, c < i \/ (c = i /\ k < j + 1)
      PROVE  r.A[k][c] = Zero
  <2>1. f # Zero /\ t.zeroed = {}
    BY <1>2, <1>6 DEF RowsReduced
  <2>2. k \in Int /\ c \in Int
    BY DEF Indices
  <2>3. \A l, d \in Indices(n) : d < l /\ (d < i \/ (d = i /\ l < j)) => t.A[l][d] = Zero
    BY <2>1 DEF Triangular
  <2>4. CASE k = i
    <3>1. c < i /\ t.A[i][c] = Zero
      BY <1>1, <1>6, <2>2, <2>3, <2>4
    <3>2. r.A[i][c] = Mul(Zero, f)
      BY <1>5, <3>1
    <3> QED
      BY <1>3, <2>4, <3>2, ZeroLaws
  <2>5. CASE k = j
    <3>1. CASE c < i
      <4>1. t.A[i][c] = Zero /\ t.A[j][c] = Zero
        BY <1>1, <2>2, <2>3, <3>1
      <4>2. r.A[j][c] = Add(Zero, Mul(Zero, f))
        BY <1>5, <4>1
      <4>3. Mul(Zero, f) = Zero /\ Add(Zero, Zero) = Zero
        BY <1>3, ZeroLaws
      <4> QED
        BY <2>5, <4>2, <4>3
    <3>2. CASE c = i
      BY <1>4, <1>5, <2>1, <2>5, <3>2
    <3> QED
      BY <1>6, <3>1, <3>2
  <2>6. CASE k \notin {i, j}
    <3>1. r.A[k] = t.A[k]
      BY <1>2, <2>6 DEF RowsReduced
    <3>2. c < i \/ (c = i /\ k < j)
      BY <1>1, <1>6, <2>2, <2>6
    <3> QED
      BY <1>6, <2>3, <3>1, <3>2
  <2> QED
    BY <2>4, <2>5, <2>6
<1>7. Triangular(n, r, i, j + 1)
  BY <1>6 DEF Triangular
<1> QED
  BY <1>7 DEF r

LEMMA RowSolutions ==
  ASSUME NEW n \in Nat, NEW L, Linear(n, L), NEW s,
         NEW i \in Indices(n), NEW t \in System(n),
         SameSolutions(n, L, s, t), Triangular(n, t, i, i + 1)
  PROVE  /\ SameSolutions(n, L, s, ReducedBelow(n, t, i))
         /\ Triangular(n, ReducedBelow(n, t, i), i + 1, i + 2)
<1> DEFINE m == n - 1 - i
           P == [k \in 0 .. m |-> {u \in System(n) : /\ SameSolutions(n, L, s, u)
                                                     /\ Triangular(n, u, i, i + k + 1)}]
<1>1. /\ i \in Int /\ m \in Nat /\ 0 \in 0 .. m /\ m \in 0 .. m
      /\ i + 0 + 1 = i + 1 /\ i + m + 1 = n
      /\ \A k \in 1 .. m : /\ i + k \in Indices(n) /\ i < i + k /\ i # i + k
                           /\ k \in 0 .. m /\ k - 1 \in 0 .. m
                           /\ i + (k - 1) + 1 = i + k
  BY DEF Indices
<1>2. t \in P[0]
  BY <1>1
<1>3. \A k \in 1 .. m : \A u \in System(n) : u \in P[k - 1] => Reduced(u, i, i + k) \in P[k]
  <2> SUFFICES ASSUME NEW k \in 1 .. m, NEW u \in System(n), u \in P[k - 1]
               PROVE  Reduced(u, i, i + k) \in P[k]
    OBVIOUS
  <2>1. SameSolutions(n, L, s, u) /\ Triangular(n, u, i, i + k)
    BY <1>1
  <2>2. SameSolutions(n, L, s, Reduced(u, i, i + k))
    BY <1>1, <2>1, ReducedSolutions
  <2>3. Triangular(n, Reduced(u, i, i + k), i, i + k + 1)
    BY <1>1, <2>1, ReducedTriangular
  <2>4. Reduced(u, i, i + k) \in System(n)
    <3>1. i + k \in Indices(n) /\ i # i + k
      BY <1>1
    <3> QED
      BY <3>1, ReducedRows DEF RowsReduced
  <2> QED
    BY <1>1, <2>2, <2>3, <2>4
<1>4. ReducedBelow(n, t, i) \in P[m]
  <2> HIDE DEF P
  <2> QED
    BY <1>2, <1>3, RowLoop
<1>5. /\ SameSolutions(n, L, s, ReducedBelow(n, t, i))
      /\ Triangular(n, ReducedBelow(n, t, i), i, n)
  BY <1>1, <1>4
<1>6. \A r, c \in Indices(n) : c < r /\ (c < i + 1 \/ (c = i + 1 /\ r < i + 2)) =>
                             c < r /\ (c < i \/ (c = i /\ r < n))
  BY <1>1 DEF Indices
<1> QED
  BY <1>5, <1>6 DEF Triangular

LEMMA ForwardSolutions ==
  ASSUME NEW n \in Nat, NEW L, Linear(n, L), NEW s \in System(n)
  PROVE  SameSolutions(n, L, s, Forward(n, s)) /\ Diagonal(n, Forward(n, s), n)
<1> DEFINE P == [k \in 0 .. n |-> {t \in System(n) : /\ SameSolutions(n, L, s, t)
                                                     /\ Triangular(n, t, k, k + 1)}]
<1>1. /\ 0 \in 0 .. n /\ n \in 0 .. n
      /\ \A k \in 1 .. n : /\ k \in 0 .. n /\ k - 1 \in 0 .. n /\ k - 1 \in Indices(n)
                           /\ (k - 1) + 1 = k /\ (k - 1) + 2 = k + 1
  BY DEF Indices
<1>2. s \in P[0]
  <2>1. Triangular(n, s, 0, 0 + 1)
    BY DEF Triangular, Indices
  <2>2. SameSolutions(n, L, s, s)
    BY DEF SameSolutions
  <2> QED
    BY <1>1, <2>1, <2>2
<1>3. \A k \in 1 .. n : \A t \in System(n) : t \in P[k - 1] => ReducedBelow(n, t, k - 1) \in P[k]
  <2> SUFFICES ASSUME NEW k \in 1 .. n, NEW t \in System(n), t \in P[k - 1]
               PROVE  ReducedBelow(n, t, k - 1) \in P[k]
    OBVIOUS
  <2>1. SameSolutions(n, L, s, t) /\ Triangular(n, t, k - 1, (k - 1) + 1)
    BY <1>1
  <2>2. /\ SameSolutions(n, L, s, ReducedBelow(n, t, k - 1))
        /\ Triangular(n, ReducedBelow(n, t, k - 1), (k - 1) + 1, (k - 1) + 2)
    BY <1>1, <2>1, RowSolutions
  <2>3. ReducedBelow(n, t, k - 1) \in System(n)
    BY <1>1, RowType
  <2> QED
    BY <1>1, <2>2, <2>3
<1>4. Forward(n, s) \in P[n]
  <2> HIDE DEF P
  <2> QED
    BY <1>2, <1>3, ForwardLoop
<1>5. SameSolutions(n, L, s, Forward(n, s)) /\ Triangular(n, Forward(n, s), n, n + 1)
  BY <1>1, <1>4
<1>6. \A r \in Indices(n) : r \in Int /\ r < n
  BY DEF Indices
<1> QED
  BY <1>5, <1>6 DEF Triangular, Diagonal

\* With its pivot the only entry of row i, the one entry that the code computes
\* makes up the whole multiple of that row.
LEMMA EliminatedSolutions ==
  ASSUME NEW n \in Nat, NEW L, Linear(n, L), NEW s,
         NEW t \in System(n), NEW i \in Indices(n), NEW j \in Indices(n), j < i,
         SameSolutions(n, L, s, t), Diagonal(n, t, i + 1)
  PROVE  SameSolutions(n, L, s, Eliminated(t, i, j))
<1> DEFINE f == FactorOf(t, i, j)
           r == Eliminated(t, i, j)
           p == Scale(f, t.A[i])
<1>1. i # j /\ i \in Int /\ j \in Int
  BY DEF Indices
<1>2. EntryEliminated(n, t, i, j, f, r)
  BY <1>1, EliminatedRows
<1>3. /\ f \in Elem /\ t.A[i] \in Vector(n) /\ t.A[j] \in Vector(n)
      /\ t.A[i][i] \in Elem /\ t.A[j][i] \in Elem /\ t.B[i] \in Elem /\ t.B[j] \in Elem
  BY FactorType
<1> HIDE DEF f, r
<1>4. p \in Vector(n) /\ p = [c \in Indices(n) |-> Mul(t.A[i][c], f)]
  <2>1. f \in Elem /\ t.A[i] \in Vector(n)
    BY <1>3
  <2> QED
    BY <2>1, RowTypes
<1>5. CASE t.A[j][i] = Zero
  BY <1>2, <1>5 DEF EntryEliminated, r
<1>6. CASE t.A[j][i] # Zero /\ r.zeroed = {}
  <2>1. t.zeroed = {}
    BY <1>2, <1>6 DEF EntryEliminated
  <2>2. \A c \in Indices(n) : c # i => t.A[i][c] = Zero
    <3>1. \A c \in Indices(n) : c < i \/ c >= i + 1 => t.A[i][c] = Zero
      BY <1>1, <2>1 DEF Diagonal
    <3> QED
      BY <1>1, <3>1 DEF Indices
  <2>3. r.A[j] = Plus(t.A[j], p)
    <3>1. r.A[j] = [t.A[j] EXCEPT ![i] = Add(t.A[j][i], Mul(t.A[i][i], f))]
      BY <1>2, <1>6 DEF EntryEliminated
    <3>2. Plus(t.A[j], p) = [c \in Indices(n) |-> Add(t.A[j][c], p[c])]
      <4> HIDE DEF p
      <4> QED
        BY <1>3, <1>4, RowTypes
    <3>3. ASSUME NEW c \in Indices(n), c # i PROVE Add(t.A[j][c], p[c]) = t.A[j][c]
      <4>1. p[c] = Mul(Zero, f) /\ t.A[j][c] \in Elem
        BY <1>3, <1>4, <2>2, <3>3 DEF Vector
      <4>2. Mul(Zero, f) = Zero
        BY <1>3, ZeroLaws
      <4> QED
        BY <4>1, <4>2, ZeroLaws
    <3>4. p[i] = Mul(t.A[i][i], f)
      BY <1>4
    <3> HIDE DEF p
    <3> QED
      BY <1>3, <3>1, <3>2, <3>3, <3>4 DEF Vector
  <2>4. /\ L[t.A[i]] \in Elem /\ L[t.A[j]] \in Elem
        /\ L[r.A[j]] = Add(L[t.A[j]], Mul(L[t.A[i]], f))
    <3>1. L[p] = Mul(L[t.A[i]], f)
      BY <1>3 DEF Linear
    <3> HIDE DEF p
    <3>2. L[Plus(t.A[j], p)] = Add(L[t.A[j]], L[p])
      BY <1>3, <1>4 DEF Linear
    <3> QED
      BY <1>3, <2>3, <3>1, <3>2 DEF Linear
  <2>5. Mul(t.B[i], f) \in Elem /\ r.B[j] = Add(t.B[j], Mul(t.B[i], f))
    BY <1>2, <1>3, <1>6, FieldTypes DEF EntryEliminated
  <2>6. \A k \in Indices(n) : k # j => (L[r.A[k]] = r.B[k] <=> L[t.A[k]] = t.B[k])
    BY <1>2, <1>6 DEF EntryEliminated
  <2>7. ASSUME L[t.A[i]] = t.B[i] PROVE L[r.A[j]] = r.B[j] <=> L[t.A[j]] = t.B[j]
    <3>1. Add(L[t.A[j]], Mul(t.B[i], f)) = Add(t.B[j], Mul(t.B[i], f)) => L[t.A[j]] = t.B[j]
      BY <1>3, <2>4, <2>5, AddCancels
    <3> QED
      BY <2>4, <2>5, <2>7, <3>1
  <2>8. ASSUME Solves(n, L, r) PROVE Solves(n, L, t)
    BY <1>1, <2>6, <2>7, <2>8 DEF Solves
  <2>9. ASSUME Solves(n, L, t) PROVE Solves(n, L, r)
    BY <1>1, <2>6, <2>7, <2>9 DEF Solves
  <2>10. SameSolutions(n, L, s, r)
    BY <2>1, <2>8, <2>9 DEF SameSolutions
  <2> QED
    BY <2>10 DEF r
<1>7. CASE r.zeroed # {}
  BY <1>7 DEF SameSolutions, r
<1> QED
  BY <1>5, <1>6, <1>7

LEMMA EliminatedDiagonal ==
  ASSUME NEW n \in Nat, NEW t \in System(n), NEW i \in Indices(n), NEW j \in Indices(n), j < i,
         Diagonal(n, t, i + 1), ColumnClear(n, t, i, j)
  PROVE  /\ Diagonal(n, Eliminated(t, i, j), i + 1)
         /\ ColumnClear(n, Eliminated(t, i, j), i, j - 1)
<1> DEFINE f == FactorOf(t, i, j)
           r == Eliminated(t, i, j)
<1>1. i # j /\ i \in Int /\ j \in Int /\ \A k \in Indices(n) : k \in Int
  BY DEF Indices
<1>2. EntryEliminated(n, t, i, j, f, r)
  BY <1>1, EliminatedRows
<1>3. /\ t.A[i] \in Vector(n) /\ t.A[j] \in Vector(n)
      /\ t.A[i][i] \in Elem /\ t.A[j][i] \in Elem
  BY FactorType
<1>4. t.A[i][i] # Zero => Add(t.A[j][i], Mul(t.A[i][i], f)) = Zero
  BY <1>3, PivotProduct DEF FactorOf
<1> HIDE DEF f, r
<1>5. /\ r.zeroed = t.zeroed
      /\ \A k \in Indices(n) : k # j => r.A[k] = t.A[k]
      /\ \A c \in Indices(n) : c # i => r.A[j][c] = t.A[j][c]
      /\ t.A[i][i] # Zero => r.A[j][i] = Zero
  <2>1. CASE t.A[j][i] = Zero
    BY <1>2, <2>1 DEF EntryEliminated
  <2>2. CASE t.A[j][i] # Zero
    <3>1. /\ r.zeroed = t.zeroed
          /\ \A k \in Indices(n) : k # j => r.A[k] = t.A[k]
          /\ r.A[j] = [t.A[j] EXCEPT ![i] = Add(t.A[j][i], Mul(t.A[i][i], f))]
      BY <1>2, <2>2 DEF EntryEliminated
    <3> QED
      BY <1>3, <1>4, <3>1 DEF Vector
  <2> QED
    BY <2>1, <2>2
<1>6. Diagonal(n, r, i + 1)
  <2> SUFFICES ASSUME r.zeroed = {}, NEW k \in Indices(n)
               PROVE  /\ k >= i + 1 => r.A[k] = UnitVector(n, k)
                      /\ k < i + 1 => \A c \in Indices(n) : c < k \/ c >= i + 1 => r.A[k][c] = Zero
    BY DEF Diagonal
  <2>1. /\ k >= i + 1 => t.A[k] = UnitVector(n, k)
        /\ k < i + 1 => \A c \in Indices(n) : c < k \/ c >= i + 1 => t.A[k][c] = Zero
    BY <1>5 DEF Diagonal
  <2>2. CASE k # j
    BY <1>5, <2>1, <2>2
  <2>3. CASE k = j
    BY <1>1, <1>5, <2>1, <2>3
  <2> QED
    BY <2>2, <2>3
<1>7. ColumnClear(n, r, i, j - 1)
  <2> SUFFICES ASSUME r.zeroed = {}, r.A[i][i] # Zero, NEW k \in Indices(n), j - 1 < k, k < i
               PROVE  r.A[k][i] = Zero
    BY DEF ColumnClear
  <2>1. t.zeroed = {} /\ t.A[i][i] # Zero
    BY <1>1, <1>5
  <2>2. CASE k = j
    BY <1>5, <2>1, <2>2
  <2>3. CASE k # j
    <3>1. j < k
      BY <1>1, <2>3
    <3>2. t.A[k][i] = Zero
      BY <2>1, <3>1 DEF ColumnClear
    <3> QED
      BY <1>5, <2>3, <3>2
  <2> QED
    BY <2>2, <2>3
<1> QED
  BY <1>6, <1>7 DEF r

LEMMA AboveSolutions ==
  ASSUME NEW n \in Nat, NEW L, Linear(n, L), NEW s,
         NEW i \in Indices(n), NEW t \in System(n),
         SameSolutions(n, L, s, t), Diagonal(n, t, i + 1)
  PROVE  LET u == EliminatedAbove(t, i)
         IN  /\ SameSolutions(n, L, s, u)
             /\ Diagonal(n, u, i + 1) /\ ColumnClear(n, u, i, -1)
<1> DEFINE P == [k \in 0 .. i |-> {u \in System(n) : /\ SameSolutions(n, L, s, u)
                                                     /\ Diagonal(n, u, i + 1)
                                                     /\ ColumnClear(n, u, i, i - k - 1)}]
<1>1. /\ i \in Int /\ 0 \in 0 .. i /\ i \in 0 .. i
      /\ i - 0 - 1 = i - 1 /\ i - i - 1 = -1
      /\ \A k \in 1 .. i : /\ i - k \in Indices(n) /\ i - k < i /\ i # i - k
                           /\ k \in 0 .. i /\ k - 1 \in 0 .. i
                           /\ i - (k - 1) - 1 = i - k
  BY DEF Indices
<1>2. t \in P[0]
  <2>1. ColumnClear(n, t, i, i - 1)
    BY <1>1 DEF ColumnClear, Indices
  <2> QED
    BY <1>1, <2>1
<1>3. \A k \in 1 .. i : \A u \in System(n) : u \in P[k - 1] => Eliminated(u, i, i - k) \in P[k]
  <2> SUFFICES ASSUME NEW k \in 1 .. i, NEW u \in System(n), u \in P[k - 1]
               PROVE  Eliminated(u, i, i - k) \in P[k]
    OBVIOUS
  <2>1. /\ SameSolutions(n, L, s, u) /\ Diagonal(n, u, i + 1)
        /\ ColumnClear(n, u, i, i - k)
    BY <1>1
  <2>2. SameSolutions(n, L, s, Eliminated(u, i, i - k))
    BY <1>1, <2>1, EliminatedSolutions
  <2>3. /\ Diagonal(n, Eliminated(u, i, i - k), i + 1)
        /\ ColumnClear(n, Eliminated(u, i, i - k), i, i - k - 1)
    BY <1>1, <2>1, EliminatedDiagonal
  <2>4. Eliminated(u, i, i - k) \in System(n)
    BY <1>1, EliminatedRows DEF EntryEliminated
  <2> QED
    BY <1>1, <2>2, <2>3, <2>4
<1>4. EliminatedAbove(t, i) \in P[i]
  <2> HIDE DEF P
  <2> QED
    BY <1>2, <1>3, AboveLoop
<1> QED
  BY <1>1, <1>4

LEMMA NormalisedSolutions ==
  ASSUME NEW n \in Nat, NEW L, Linear(n, L), NEW s,
         NEW t \in System(n), NEW i \in Indices(n),
         SameSolutions(n, L, s, t), Diagonal(n, t, i + 1), ColumnClear(n, t, i, -1)
  PROVE  /\ SameSolutions(n, L, s, Normalised(t, i))
         /\ Diagonal(n, Normalised(t, i), i)
<1> DEFINE r == Normalised(t, i)
           p == t.A[i][i]
           f == Inv(p)
<1>1. RowNormalised(n, t, i, r)
  BY NormalisedRows
<1>2. i \in Int /\ \A k \in Indices(n) : k \in Int /\ -1 < k
  BY DEF Indices
<1>3. t.A[i] \in Vector(n) /\ p \in Elem /\ f \in Elem /\ t.B[i] \in Elem
  BY FactorType
<1> HIDE DEF r
<1>4. CASE r.zeroed # {}
  BY <1>4 DEF SameSolutions, Diagonal, r
<1>5. CASE r.zeroed = {}
  <2>1. t.zeroed = {} /\ p # Zero
    BY <1>1, <1>5 DEF RowNormalised
  <2>2. f # Zero /\ Mul(p, f) = One
    BY <1>3, <2>1, InverseNotZero
  <2>3. \A c \in Indices(n) : c # i => t.A[i][c] = Zero
    <3>1. \A c \in Indices(n) : c < i \/ c >= i + 1 => t.A[i][c] = Zero
      BY <1>2, <2>1 DEF Diagonal
    <3> QED
      BY <1>2, <3>1
  <2>4. /\ r.A[i] = [t.A[i] EXCEPT ![i] = One] /\ r.B[i] = Mul(t.B[i], f)
        /\ \A k \in Indices(n) : k # i => r.A[k] = t.A[k] /\ r.B[k] = t.B[k]
    BY <1>1, <2>2 DEF RowNormalised
  <2>5. r.A[i] = UnitVector(n, i)
    BY <1>3, <2>3, <2>4 DEF Vector, UnitVector
  <2>6. Scale(f, t.A[i]) = UnitVector(n, i)
    <3>1. Scale(f, t.A[i]) = [c \in Indices(n) |-> Mul(t.A[i][c], f)]
      BY <1>3, RowTypes
    <3>2. \A c \in Indices(n) : c # i => Mul(t.A[i][c], f) = Zero
      BY <1>3, <2>3, ZeroLaws
    <3> QED
      BY <2>2, <3>1, <3>2 DEF UnitVector
  <2>7. L[r.A[i]] = Mul(L[t.A[i]], f) /\ L[t.A[i]] \in Elem
    BY <1>3, <2>5, <2>6 DEF Linear
  <2>8. L[r.A[i]] = r.B[i] <=> L[t.A[i]] = t.B[i]
    <3>1. Mul(L[t.A[i]], f) = Mul(t.B[i], f) => L[t.A[i]] = t.B[i]
      BY <1>3, <2>2, <2>7, MulCancels
    <3> QED
      BY <2>4, <2>7, <3>1
  <2>9. \A k \in Indices(n) : L[r.A[k]] = r.B[k] <=> L[t.A[k]] = t.B[k]
    BY <2>4, <2>8
  <2>10. SameSolutions(n, L, s, r)
    BY <2>1, <2>9 DEF SameSolutions, Solves
  <2>11. ASSUME NEW k \in Indices(n)
         PROVE  /\ k >= i => r.A[k] = UnitVector(n, k)
                /\ k < i => \A c \in Indices(n) : c < k \/ c >= i => r.A[k][c] = Zero
    <3>1. /\ k >= i + 1 => t.A[k] = UnitVector(n, k)
          /\ k < i + 1 => \A c \in Indices(n) : c < k \/ c >= i + 1 => t.A[k][c] = Zero
      BY <2>1 DEF Diagonal
    <3>2. k < i => t.A[k][i] = Zero
      BY <1>2, <2>1 DEF ColumnClear
    <3>3. k > i => k >= i + 1
      BY <1>2
    <3>4. CASE k >= i
      BY <1>2, <2>4, <2>5, <3>1, <3>3, <3>4
    <3>5. CASE k < i
      <4>1. r.A[k] = t.A[k] /\ k < i + 1
        BY <1>2, <2>4, <3>5
      <4>2. \A c \in Indices(n) : c >= i => c = i \/ c >= i + 1
        BY <1>2
      <4> QED
        BY <1>2, <3>1, <3>2, <3>5, <4>1, <4>2
    <3> QED
      BY <1>2, <3>4, <3>5
  <2>12. Diagonal(n, r, i)
    BY <2>11 DEF Diagonal
  <2> QED
    BY <2>10, <2>12 DEF r
<1> QED
  BY <1>4, <1>5

LEMMA BackwardSolutions ==
  ASSUME NEW n \in Nat, NEW L, Linear(n, L), NEW s, NEW t \in System(n),
         SameSolutions(n, L, s, t), Diagonal(n, t, n)
  PROVE  SameSolutions(n, L, s, Backward(n, t)) /\ Diagonal(n, Backward(n, t), 0)
<1> DEFINE P == [k \in 0 .. n |-> {u \in System(n) : /\ SameSolutions(n, L, s, u)
                                                     /\ Diagonal(n, u, n - k)}]
<1>1. /\ 0 \in 0 .. n /\ n \in 0 .. n /\ n - 0 = n /\ n - n = 0
      /\ \A k \in 1 .. n : /\ k \in 0 .. n /\ k - 1 \in 0 .. n /\ n - k \in Indices(n)
                           /\ n - (k - 1) = (n - k) + 1
  BY DEF Indices
<1>2. t \in P[0]
  BY <1>1
<1>3. \A k \in 1 .. n : \A u \in System(n) :
        u \in P[k - 1] => Normalised(EliminatedAbove(u, n - k), n - k) \in P[k]
  <2> SUFFICES ASSUME NEW k \in 1 .. n, NEW u \in System(n), u \in P[k - 1]
               PROVE  Normalised(EliminatedAbove(u, n - k), n - k) \in P[k]
    OBVIOUS
  <2> DEFINE v == EliminatedAbove(u, n - k)
  <2>1. SameSolutions(n, L, s, u) /\ Diagonal(n, u, (n - k) + 1)
    BY <1>1
  <2>2. /\ SameSolutions(n, L, s, v)
        /\ Diagonal(n, v, (n - k) + 1) /\ ColumnClear(n, v, n - k, -1)
    BY <1>1, <2>1, AboveSolutions
  <2>3. v \in System(n)
    BY <1>1, AboveType
  <2> HIDE DEF v
  <2>4. SameSolutions(n, L, s, Normalised(v, n - k)) /\ Diagonal(n, Normalised(v, n - k), n - k)
    BY <1>1, <2>2, <2>3, NormalisedSolutions
  <2>5. Normalised(v, n - k) \in System(n)
    BY <1>1, <2>3, NormalisedRows DEF RowNormalised
  <2> QED
    BY <1>1, <2>4, <2>5 DEF v
<1>4. Backward(n, t) \in P[n]
  <2> HIDE DEF P
  <2> QED
    BY <1>2, <1>3, BackwardLoop
<1> QED
  BY <1>1, <1>4

\* When gf_256_gaussian_elimination multiplies no row by zero, values solve the
\* system that it was given just if they are those that it returns.
THEOREM ResolvedSolves ==
  ASSUME NEW n \in Nat, NEW A \in [Indices(n) -> Vector(n)], NEW B \in Vector(n),
         NEW L, Linear(n, L), Resolved(n, A, B).zeroed = {}
  PROVE  (\A r \in Indices(n) : L[A[r]] = B[r])
           <=> (\A r \in Indices(n) : L[UnitVector(n, r)] = Resolved(n, A, B).B[r])
<1> DEFINE s == [A |-> A, B |-> B, zeroed |-> {}]
           t == Forward(n, s)
           u == Backward(n, t)
<1>1. s \in System(n) /\ s.A = A /\ s.B = B /\ s.zeroed = {}
  BY DEF System
<1>2. u = Resolved(n, A, B)
  BY DEF HalfReduced, Resolved
<1> HIDE DEF s
<1>3. t \in System(n) /\ SameSolutions(n, L, s, t) /\ Diagonal(n, t, n)
  BY <1>1, ForwardBlank, ForwardSolutions
<1> HIDE DEF t
<1>4. SameSolutions(n, L, s, u) /\ Diagonal(n, u, 0)
  BY <1>3, BackwardSolutions
<1> HIDE DEF u
<1>5. Solves(n, L, u) <=> Solves(n, L, s)
  BY <1>2, <1>4 DEF SameSolutions
<1>6. \A r \in Indices(n) : u.A[r] = UnitVector(n, r)
  BY <1>2, <1>4 DEF Diagonal, Indices
<1> QED
  BY <1>1, <1>2, <1>5, <1>6 DEF Solves

-----------------------------------------------------------------------------
(* Left sides *)

\* The left side of an equation as a function of its coefficients, the unknowns
\* having the values y.
LeftSide(n, y) == [row \in Vector(n) |-> SumOf([c \in Indices(n) |-> Mul(row[c], y[c])])]

LEMMA IndicesFinite ==
  ASSUME NEW n \in Nat
  PROVE  IsFiniteSet(Indices(n))
<1>1. 0 \in Int /\ n - 1 \in Int
  OBVIOUS
<1> QED
  BY <1>1, FS_Interval DEF Indices

LEMMA LeftSideSum ==
  ASSUME NEW n \in Nat, NEW y \in Vector(n), NEW row \in Vector(n)
  PROVE  LET f == [c \in Indices(n) |-> Mul(row[c], y[c])]
         IN  LeftSide(n, y)[row] = Total(f, Indices(n)) /\ \A c \in Indices(n) : f[c] \in Elem
<1> DEFINE f == [c \in Indices(n) |-> Mul(row[c], y[c])]
<1>1. f = [c \in Indices(n) |-> f[c]]
  OBVIOUS
<1>2. LeftSide(n, y)[row] = SumOf(f)
  BY DEF LeftSide
<1>3. \A c \in Indices(n) : row[c] \in Elem /\ y[c] \in Elem
  BY DEF Vector
<1>4. \A c \in Indices(n) : f[c] \in Elem
  BY <1>3, MulType
<1> HIDE DEF f
<1>5. SumOf(f) = Total(f, Indices(n))
  BY <1>1, SumIsTotal
<1> QED
  BY <1>2, <1>4, <1>5 DEF f

\* Multiplying an equation, or adding another one, does the same to its left side.
LEMMA LeftSideLinear ==
  ASSUME NEW n \in Nat, NEW y \in Vector(n)
  PROVE  Linear(n, LeftSide(n, y))
<1> DEFINE L == LeftSide(n, y)
           P(u) == [c \in Indices(n) |-> Mul(u[c], y[c])]
<1>1. \A u \in Vector(n) :
        L[u] = Total(P(u), Indices(n)) /\ \A c \in Indices(n) : P(u)[c] \in Elem
  BY LeftSideSum
<1>2. IsFiniteSet(Indices(n))
  BY IndicesFinite
<1>3. L \in [Vector(n) -> Elem]
  <2>1. L = [u \in Vector(n) |-> L[u]]
    BY DEF LeftSide
  <2>2. ASSUME NEW u \in Vector(n) PROVE L[u] \in Elem
    <3> HIDE DEF L, P
    <3> QED
      BY <1>1, <1>2, TotalType
  <2> HIDE DEF L
  <2> QED
    BY <2>1, <2>2
<1>4. ASSUME NEW u \in Vector(n), NEW f \in Elem
      PROVE  L[Scale(f, u)] = Mul(L[u], f)
  <2> DEFINE v == Scale(f, u)
  <2>1. v \in Vector(n) /\ v = [c \in Indices(n) |-> Mul(u[c], f)]
    BY RowTypes
  <2>2. ASSUME NEW c \in Indices(n) PROVE P(v)[c] = Mul(P(u)[c], f)
    <3>1. u[c] \in Elem /\ y[c] \in Elem /\ v[c] = Mul(u[c], f)
      BY <2>1 DEF Vector
    <3>2. Mul(Mul(u[c], f), y[c]) = Mul(Mul(u[c], y[c]), f)
      BY <3>1, MulExchange
    <3> HIDE DEF v
    <3> QED
      BY <3>1, <3>2
  <2> HIDE DEF L, P, v
  <2>3. Total(P(v), Indices(n)) = Mul(Total(P(u), Indices(n)), f)
    BY <1>1, <1>2, <2>2, TotalScaled
  <2> QED
    BY <1>1, <2>1, <2>3 DEF v
<1>5. ASSUME NEW u \in Vector(n), NEW v \in Vector(n)
      PROVE  L[Plus(u, v)] = Add(L[u], L[v])
  <2> DEFINE w == Plus(u, v)
  <2>1. w \in Vector(n) /\ w = [c \in Indices(n) |-> Add(u[c], v[c])]
    BY ZeroType, RowTypes
  <2>2. ASSUME NEW c \in Indices(n) PROVE P(w)[c] = Add(P(u)[c], P(v)[c])
    <3>1. u[c] \in Elem /\ v[c] \in Elem /\ y[c] \in Elem /\ w[c] = Add(u[c], v[c])
      BY <2>1 DEF Vector
    <3> HIDE DEF w
    <3> QED
      BY <3>1, MulDistributes
  <2> HIDE DEF L, P, w
  <2>3. Total(P(w), Indices(n)) = Add(Total(P(u), Indices(n)), Total(P(v), Indices(n)))
    BY <1>1, <1>2, <2>2, TotalAdded
  <2> QED
    BY <1>1, <2>1, <2>3 DEF w
<1> HIDE DEF L
<1>6. Linear(n, L)
  BY <1>3, <1>4, <1>5 DEF Linear
<1> QED
  BY <1>6 DEF L

\* The equation of one unknown alone.
LEMMA LeftSideOfUnit ==
  ASSUME NEW n \in Nat, NEW y \in Vector(n), NEW r \in Indices(n)
  PROVE  LeftSide(n, y)[UnitVector(n, r)] = y[r]
<1> DEFINE f == [c \in Indices(n) |-> Mul(UnitVector(n, r)[c], y[c])]
<1>1. UnitVector(n, r) \in Vector(n)
  BY ZeroType, ByteFieldAssumption DEF UnitVector, Vector, FieldAssumption
<1>2. LeftSide(n, y)[UnitVector(n, r)] = Total(f, Indices(n))
  BY <1>1, LeftSideSum
<1>3. \A c \in Indices(n) : c # r => f[c] = Zero
  BY ZeroLaws DEF UnitVector, Vector
<1>4. f[r] = y[r] /\ y[r] \in Elem
  BY ByteFieldAssumption DEF UnitVector, Vector, FieldAssumption
<1>5. IsFiniteSet(Indices(n))
  BY IndicesFinite
<1> HIDE DEF f
<1>6. Total(f, Indices(n)) = f[r]
  BY <1>3, <1>4, <1>5, TotalSingle
<1> QED
  BY <1>2, <1>4, <1>6

\* The right sides that the elimination returns are the one solution of the
\* system, if it multiplied no row by zero.
LEMMA OneSolution ==
  ASSUME NEW n \in Nat, NEW M \in [Indices(n) -> Vector(n)], NEW B \in Vector(n),
         Resolved(n, M, B).zeroed = {}, NEW y \in Vector(n)
  PROVE  (\A r \in Indices(n) : LeftSide(n, y)[M[r]] = B[r]) <=> y = Resolved(n, M, B).B
<1> DEFINE x == Resolved(n, M, B).B
<1>1. x \in Vector(n)
  BY ZeroedRowsEndZero DEF System
<1>2. Linear(n, LeftSide(n, y))
  BY LeftSideLinear
<1>3. (\A r \in Indices(n) : LeftSide(n, y)[M[r]] = B[r])
        <=> (\A r \in Indices(n) : LeftSide(n, y)[UnitVector(n, r)] = x[r])
  BY <1>2, ResolvedSolves
<1>4. \A r \in Indices(n) : LeftSide(n, y)[UnitVector(n, r)] = y[r]
  BY LeftSideOfUnit
<1>5. (\A r \in Indices(n) : y[r] = x[r]) <=> y = x
  <2> HIDE DEF x
  <2> QED
    BY <1>1 DEF Vector
<1> QED
  BY <1>3, <1>4, <1>5

-----------------------------------------------------------------------------
(* Systems of one equation and of two *)

\* There is nothing below the last row and nothing above the first one.
LEMMA NothingBelow ==
  ASSUME NEW n \in Nat, NEW s \in System(n), n >= 1
  PROVE  ReducedBelow(n, s, n - 1) = s
<1>1. n - 1 \in Indices(n) /\ n - 1 - (n - 1) = 0
  BY DEF Indices
<1>2. Leads(System(n), RowSteps(n, n - 1), 0, s, ReducedBelow(n, s, n - 1), 0, s)
  BY <1>1, RowLeads
<1> QED
  BY <1>2, LeadsTo

LEMMA NothingAbove ==
  ASSUME NEW n \in Nat, NEW s \in System(n), n >= 1
  PROVE  EliminatedAbove(s, 0) = s
<1>1. 0 \in Indices(n)
  BY DEF Indices
<1>2. Leads(System(n), AboveSteps(n, 0), 0, s, EliminatedAbove(s, 0), 0, s)
  BY <1>1, AboveLeads
<1> QED
  BY <1>2, LeadsTo

\* With one equation the row is divided by its entry, and that is all.
LEMMA OneEquation ==
  ASSUME NEW s \in System(1)
  PROVE  Backward(1, Forward(1, s)) = Normalised(s, 0)
<1>1. 0 \in 0 .. 1 - 1 /\ 0 + 1 = 1 /\ 1 \in 1 .. 1 /\ 1 - 1 = 0 /\ 1 >= 1
  OBVIOUS
<1>2. Forward(1, s) = s
  <2>1. Leads(System(1), ForwardSteps(1), 1, s, Forward(1, s), 0, s)
    BY ForwardLeads
  <2>2. Leads(System(1), ForwardSteps(1), 1, s, Forward(1, s), 1, ForwardSteps(1)[1][s])
    BY <1>1, <2>1, LeadsOn
  <2>3. ForwardSteps(1)[1][s] = Forward(1, s)
    BY <2>2, LeadsTo
  <2>4. ForwardSteps(1)[1][s] = ReducedBelow(1, s, 0)
    BY <1>1 DEF ForwardSteps
  <2>5. ReducedBelow(1, s, 0) = s
    BY <1>1, NothingBelow
  <2> QED
    BY <2>3, <2>4, <2>5
<1>3. Backward(1, s) = Normalised(s, 0)
  <2>1. Leads(System(1), BackwardSteps(1), 1, s, Backward(1, s), 0, s)
    BY BackwardLeads
  <2>2. Leads(System(1), BackwardSteps(1), 1, s, Backward(1, s), 1, BackwardSteps(1)[1][s])
    BY <1>1, <2>1, LeadsOn
  <2>3. BackwardSteps(1)[1][s] = Backward(1, s)
    BY <2>2, LeadsTo
  <2>4. BackwardSteps(1)[1][s] = Normalised(EliminatedAbove(s, 0), 0)
    BY <1>1 DEF BackwardSteps
  <2>5. EliminatedAbove(s, 0) = s
    BY <1>1, NothingAbove
  <2> QED
    BY <2>3, <2>4, <2>5
<1> QED
  BY <1>2, <1>3

\* With two there is one step forward and one back, and each row is divided.
LEMMA TwoEquations ==
  ASSUME NEW s \in System(2)
  PROVE  /\ Forward(2, s) = Reduced(s, 0, 1)
         /\ Forward(2, s) \in System(2)
         /\ Backward(2, Forward(2, s))
              = Normalised(Normalised(Eliminated(Forward(2, s), 1, 0), 1), 0)
<1>1. /\ 0 \in 0 .. 2 - 1 /\ 1 \in 0 .. 2 - 1 /\ 0 + 1 = 1 /\ 1 + 1 = 2
      /\ 1 \in 1 .. 2 /\ 2 \in 1 .. 2 /\ 1 - 1 = 0 /\ 2 - 1 = 1 /\ 2 - 2 = 0
      /\ 2 \in Nat /\ 2 >= 1
  OBVIOUS
<1>2. Indices(2) = {0, 1}
  BY DEF Indices
<1> DEFINE r == Reduced(s, 0, 1)
<1>3. r \in System(2)
  <2>1. 0 \in Indices(2) /\ 1 \in Indices(2) /\ 0 # 1
    BY <1>2
  <2>2. RowsReduced(2, s, 0, 1, FactorOf(s, 0, 1), r)
    BY <1>1, <2>1, ReducedRows
  <2> QED
    BY <2>2 DEF RowsReduced
<1>4. ReducedBelow(2, s, 0) = r
  <2>1. 2 - 1 - 0 = 1 /\ 0 \in 0 .. 1 - 1 /\ 1 \in 1 .. 1 /\ 1 \in 1 .. 2 - 1 - 0
    OBVIOUS
  <2>2. Leads(System(2), RowSteps(2, 0), 1, s, ReducedBelow(2, s, 0), 0, s)
    BY <1>1, <1>2, <2>1, RowLeads
  <2>3. Leads(System(2), RowSteps(2, 0), 1, s, ReducedBelow(2, s, 0), 1, RowSteps(2, 0)[1][s])
    BY <1>1, <2>1, <2>2, LeadsOn
  <2>4. RowSteps(2, 0)[1][s] = ReducedBelow(2, s, 0)
    BY <2>3, LeadsTo
  <2>5. RowSteps(2, 0)[1][s] = r
    BY <1>1, <2>1 DEF RowSteps
  <2> QED
    BY <2>4, <2>5
<1> HIDE DEF r
<1>5. Forward(2, s) = r
  <2> DEFINE F == ForwardSteps(2)
             e == Forward(2, s)
  <2>1. Leads(System(2), F, 2, s, e, 0, s)
    BY <1>1, ForwardLeads
  <2>2. F[1][s] = r
    BY <1>1, <1>4 DEF ForwardSteps
  <2>3. F[2][r] = ReducedBelow(2, r, 1)
    BY <1>1, <1>3 DEF ForwardSteps
  <2>4. ReducedBelow(2, r, 1) = r
    BY <1>1, <1>3, NothingBelow
  <2> HIDE DEF F, e
  <2>5. Leads(System(2), F, 2, s, e, 1, r)
    BY <1>1, <2>1, <2>2, LeadsOn
  <2>6. Leads(System(2), F, 2, s, e, 2, r)
    BY <1>1, <2>3, <2>4, <2>5, LeadsOn
  <2>7. r = e
    BY <2>6, LeadsTo
  <2> QED
    BY <2>7 DEF e
<1>6. Backward(2, r) = Normalised(Normalised(Eliminated(r, 1, 0), 1), 0)
  <2> DEFINE F == BackwardSteps(2)
             e == Backward(2, r)
             u == Eliminated(r, 1, 0)
             v == Normalised(u, 1)
             w == Normalised(v, 0)
  <2>1. Leads(System(2), F, 2, r, e, 0, r)
    BY <1>1, <1>3, BackwardLeads
  <2>2. u \in System(2)
    <3>1. 0 \in Indices(2) /\ 1 \in Indices(2) /\ 1 # 0
      BY <1>2
    <3>2. EntryEliminated(2, r, 1, 0, FactorOf(r, 1, 0), u)
      BY <1>1, <1>3, <3>1, EliminatedRows
    <3> QED
      BY <3>2 DEF EntryEliminated
  <2>3. EliminatedAbove(r, 1) = u
    <3>1. 0 \in 0 .. 1 - 1 /\ 1 \in 1 .. 1
      OBVIOUS
    <3>2. Leads(System(2), AboveSteps(2, 1), 1, r, EliminatedAbove(r, 1), 0, r)
      BY <1>1, <1>2, <1>3, AboveLeads
    <3>3. Leads(System(2), AboveSteps(2, 1), 1, r, EliminatedAbove(r, 1), 1,
                AboveSteps(2, 1)[1][r])
      BY <1>1, <3>1, <3>2, LeadsOn
    <3>4. AboveSteps(2, 1)[1][r] = EliminatedAbove(r, 1)
      BY <3>3, LeadsTo
    <3>5. AboveSteps(2, 1)[1][r] = u
      BY <1>1, <1>3, <3>1 DEF AboveSteps
    <3> QED
      BY <3>4, <3>5
  <2> HIDE DEF u
  <2>4. v \in System(2)
    BY <1>2, <2>2, NormalisedRows DEF RowNormalised
  <2>5. F[1][r] = v
    BY <1>1, <1>3, <2>3 DEF BackwardSteps
  <2> HIDE DEF v
  <2>6. F[2][v] = Normalised(EliminatedAbove(v, 0), 0)
    BY <1>1, <2>4 DEF BackwardSteps
  <2>7. EliminatedAbove(v, 0) = v
    BY <1>1, <2>4, NothingAbove
  <2>8. F[2][v] = w
    BY <2>6, <2>7
  <2> HIDE DEF F, e, w
  <2>9. Leads(System(2), F, 2, r, e, 1, v)
    BY <1>1, <2>1, <2>5, LeadsOn
  <2>10. Leads(System(2), F, 2, r, e, 2, w)
    BY <1>1, <2>8, <2>9, LeadsOn
  <2>11. w = e
    BY <2>10, LeadsTo
  <2> QED
    BY <2>11 DEF e, w, v, u
<1> QED
  BY <1>3, <1>5, <1>6 DEF r

\* M has one row or two, and the elimination finds no zero in it to multiply by.
NoZeroMet(n, M) ==
  \/ n = 1 /\ M[0][0] # Zero
  \/ /\ n = 2
     /\ M[0][0] # Zero /\ M[1][0] # Zero
     /\ Mul(M[0][0], M[1][1]) # Mul(M[0][1], M[1][0])

\* The determinant is what is left at the second pivot.
LEMMA PivotLeft ==
  ASSUME NEW p \in Elem, NEW q \in Elem, NEW a \in Elem, NEW c \in Elem,
         p # Zero, Mul(p, c) # Mul(q, a)
  PROVE  Add(c, Mul(q, Mul(a, Inv(p)))) # Zero
<1> DEFINE m == Mul(q, Mul(a, Inv(p)))
<1> SUFFICES ASSUME Add(c, m) = Zero PROVE FALSE
  OBVIOUS
<1>1. Inv(p) \in Elem /\ Mul(a, Inv(p)) \in Elem /\ Mul(q, a) \in Elem
  BY FieldTypes
<1>2. m \in Elem
  BY <1>1, FieldTypes
<1>3. m = Mul(Mul(q, a), Inv(p))
  BY <1>1, ByteFieldAssumption DEF FieldAssumption
<1>4. Mul(m, p) = Mul(q, a)
  <2>1. Mul(Mul(Mul(q, a), Inv(p)), p) = Mul(Mul(Mul(q, a), p), Inv(p))
    BY <1>1, MulExchange
  <2>2. Mul(Mul(Mul(q, a), p), Inv(p)) = Mul(Mul(q, a), Mul(p, Inv(p)))
    BY <1>1, ByteFieldAssumption DEF FieldAssumption
  <2>3. Mul(p, Inv(p)) = One /\ Mul(Mul(q, a), One) = Mul(q, a)
    BY <1>1, InverseNotZero, ByteFieldAssumption DEF FieldAssumption
  <2> QED
    BY <1>3, <2>1, <2>2, <2>3
<1> HIDE DEF m
<1>5. c = m
  <2>1. Add(m, m) = Zero
    BY <1>2, ZeroLaws
  <2> QED
    BY <1>2, <2>1, AddCancels
<1>6. Mul(c, p) = Mul(p, c)
  BY ByteFieldAssumption DEF FieldAssumption
<1> QED
  BY <1>4, <1>5, <1>6

LEMMA ProductNotZero ==
  ASSUME NEW u \in Elem, NEW v \in Elem, u # Zero, v # Zero
  PROVE  Mul(u, v) # Zero
<1>1. Mul(Zero, v) = Zero
  BY ZeroLaws
<1> QED
  BY <1>1, ZeroLaws, MulCancels

\* With one unknown or two the code solves such a system: no row is multiplied by
\* zero, whatever stands on the right sides.
THEOREM SmallSystemsSolved ==
  ASSUME NEW n \in Nat, NEW M \in [Indices(n) -> Vector(n)], NEW y \in Vector(n),
         NoZeroMet(n, M)
  PROVE  Resolved(n, M, y).zeroed = {}
<1> DEFINE s == [A |-> M, B |-> y, zeroed |-> {}]
<1>1. s \in System(n) /\ s.A = M /\ s.zeroed = {}
  BY DEF System
<1>2. Resolved(n, M, y) = Backward(n, Forward(n, s))
  BY DEF Resolved, HalfReduced
<1> HIDE DEF s
<1>3. CASE n = 1 /\ M[0][0] # Zero
  <2>1. Resolved(n, M, y) = Normalised(s, 0)
    BY <1>1, <1>2, <1>3, OneEquation
  <2>2. 0 \in Indices(n)
    BY <1>3 DEF Indices
  <2>3. RowNormalised(n, s, 0, Normalised(s, 0))
    BY <1>1, <2>2, NormalisedRows
  <2> QED
    BY <1>1, <1>3, <2>1, <2>3 DEF RowNormalised
<1>4. CASE /\ n = 2
           /\ M[0][0] # Zero /\ M[1][0] # Zero
           /\ Mul(M[0][0], M[1][1]) # Mul(M[0][1], M[1][0])
  <2> DEFINE f == FactorOf(s, 0, 1)
             r == Forward(2, s)
             u == Eliminated(r, 1, 0)
             v == Normalised(u, 1)
             w == Normalised(v, 0)
  <2>1. Indices(n) = {0, 1} /\ 0 # 1
    BY <1>4 DEF Indices
  <2>2. /\ r = Reduced(s, 0, 1) /\ r \in System(n)
        /\ Resolved(n, M, y) = w
    BY <1>1, <1>2, <1>4, TwoEquations
  <2>3. /\ M[0] \in Vector(n) /\ M[1] \in Vector(n)
        /\ M[0][0] \in Elem /\ M[0][1] \in Elem /\ M[1][0] \in Elem /\ M[1][1] \in Elem
    BY <2>1 DEF Vector
  <2>4. f \in Elem /\ f # Zero /\ f = Mul(M[1][0], Inv(M[0][0]))
    <3>1. Inv(M[0][0]) \in Elem /\ Inv(M[0][0]) # Zero
      BY <1>4, <2>3, FieldTypes, InverseNotZero
    <3>2. f = Mul(M[1][0], Inv(M[0][0]))
      BY <1>1 DEF FactorOf
    <3> HIDE DEF f
    <3> QED
      BY <1>4, <2>3, <3>1, <3>2, FieldTypes, ProductNotZero
  <2>5. RowsReduced(n, s, 0, 1, f, r)
    BY <1>1, <2>1, <2>2, ReducedRows
  <2> HIDE DEF f, r
  <2>6. r.zeroed = {} /\ r.A[0][0] # Zero /\ r.A[1][1] # Zero
    <3>1. /\ r.zeroed = {} /\ r.A[0] = Scale(f, M[0])
          /\ r.A[1] = Plus(M[1], Scale(f, M[0]))
      BY <1>1, <2>4, <2>5 DEF RowsReduced
    <3>2. /\ Scale(f, M[0]) \in Vector(n)
          /\ Scale(f, M[0])[0] = Mul(M[0][0], f) /\ Scale(f, M[0])[1] = Mul(M[0][1], f)
      <4>1. /\ Scale(f, M[0]) \in Vector(n)
            /\ Scale(f, M[0]) = [k \in Indices(n) |-> Mul(M[0][k], f)]
        <5>1. DOMAIN M[0] = Indices(n) /\ \A k \in Indices(n) : M[0][k] \in Elem
          BY <2>3 DEF Vector
        <5>2. Scale(f, M[0]) = [k \in Indices(n) |-> Mul(M[0][k], f)]
          BY <5>1 DEF Scale
        <5>3. \A k \in Indices(n) : Mul(M[0][k], f) \in Elem
          BY <2>4, <5>1, MulType
        <5> QED
          BY <5>2, <5>3 DEF Vector
      <4>2. 0 \in Indices(n) /\ 1 \in Indices(n)
        BY <2>1
      <4> QED
        BY <4>1, <4>2
    <3>3. Plus(M[1], Scale(f, M[0]))[1] = Add(M[1][1], Scale(f, M[0])[1])
      BY <2>1, <2>3, <3>2, RowTypes
    <3>4. Mul(M[0][0], f) # Zero
      BY <1>4, <2>3, <2>4, ProductNotZero
    <3>5. Add(M[1][1], Mul(M[0][1], f)) # Zero
      BY <1>4, <2>3, <2>4, PivotLeft
    <3> QED
      BY <3>1, <3>2, <3>3, <3>4, <3>5
  <2>7. EntryEliminated(n, r, 1, 0, FactorOf(r, 1, 0), u)
    BY <2>1, <2>2, EliminatedRows
  <2> HIDE DEF u
  <2>8. u \in System(n) /\ u.zeroed = {} /\ u.A[0][0] # Zero /\ u.A[1][1] # Zero
    <3>1. u \in System(n) /\ u.zeroed = {}
      BY <2>6, <2>7 DEF EntryEliminated
    <3>2. CASE r.A[0][1] = Zero
      BY <2>6, <2>7, <3>1, <3>2 DEF EntryEliminated
    <3>3. CASE r.A[0][1] # Zero
      <4> DEFINE e == Add(r.A[0][1], Mul(r.A[1][1], FactorOf(r, 1, 0)))
      <4>1. u.A[0] = [r.A[0] EXCEPT ![1] = e] /\ u.A[1] = r.A[1]
        BY <2>1, <2>7, <3>3 DEF EntryEliminated
      <4>2. r.A[0] \in [Indices(n) -> Elem]
        BY <2>1, <2>2 DEF System, Vector
      <4> HIDE DEF e
      <4>3. u.A[0][0] = r.A[0][0]
        BY <2>1, <4>1, <4>2
      <4> QED
        BY <2>6, <3>1, <4>1, <4>3
    <3> QED
      BY <3>2, <3>3
  <2>9. RowNormalised(n, u, 1, v)
    BY <2>1, <2>8, NormalisedRows
  <2> HIDE DEF v
  <2>10. v \in System(n) /\ v.zeroed = {} /\ v.A[0][0] # Zero
    BY <2>1, <2>8, <2>9 DEF RowNormalised
  <2>11. RowNormalised(n, v, 0, w)
    BY <2>1, <2>10, NormalisedRows
  <2> QED
    BY <2>2, <2>10, <2>11 DEF RowNormalised
<1> QED
  BY <1>3, <1>4 DEF NoZeroMet
=============================================================================
