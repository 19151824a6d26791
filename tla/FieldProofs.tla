---------------------------- MODULE FieldProofs -----------------------------
(***************************************************************************)
(* Computing in the field of ByteField: what follows from its laws, and    *)
(* sums of any length.  SumOf takes the members of a set one after the     *)
(* other, and what holds of such sums is proved by looking at a smallest   *)
(* set of which it would not hold.  The last part shows that the bytes     *)
(* with the tables of the program have those laws.                         *)
(***************************************************************************)
EXTENDS ByteField, TableField, FiniteSetTheorems, WellFoundedInduction, TLAPS

-----------------------------------------------------------------------------
(* The field *)

LEMMA FieldTypes ==
  ASSUME NEW u \in Elem, NEW v \in Elem
  PROVE  Add(u, v) \in Elem /\ Mul(u, v) \in Elem /\ Inv(u) \in Elem
BY ByteFieldAssumption DEF FieldAssumption

LEMMA MulType ==
  ASSUME NEW u \in Elem, NEW v \in Elem
  PROVE  Mul(u, v) \in Elem
BY ByteFieldAssumption DEF FieldAssumption

LEMMA ZeroLaws ==
  ASSUME NEW u \in Elem
  PROVE  /\ Zero \in Elem
         /\ Mul(u, Zero) = Zero /\ Mul(Zero, u) = Zero
         /\ Add(u, Zero) = u /\ Add(Zero, u) = u /\ Add(u, u) = Zero
BY ByteFieldAssumption DEF FieldAssumption

LEMMA AddCancels ==
  ASSUME NEW u \in Elem, NEW v \in Elem, NEW w \in Elem, Add(u, w) = Add(v, w)
  PROVE  u = v
<1>1. Add(Add(u, w), w) = Add(u, Add(w, w)) /\ Add(Add(v, w), w) = Add(v, Add(w, w))
  BY ByteFieldAssumption DEF FieldAssumption
<1>2. Add(w, w) = Zero /\ Add(u, Zero) = u /\ Add(v, Zero) = v
  BY ZeroLaws
<1> QED
  BY <1>1, <1>2

LEMMA MulCancels ==
  ASSUME NEW u \in Elem, NEW v \in Elem, NEW f \in Elem, f # Zero, Mul(u, f) = Mul(v, f)
  PROVE  u = v
<1>1. Inv(f) \in Elem /\ Mul(f, Inv(f)) = One /\ Mul(u, One) = u /\ Mul(v, One) = v
  BY ByteFieldAssumption DEF FieldAssumption
<1>2. /\ Mul(Mul(u, f), Inv(f)) = Mul(u, Mul(f, Inv(f)))
      /\ Mul(Mul(v, f), Inv(f)) = Mul(v, Mul(f, Inv(f)))
  BY <1>1, ByteFieldAssumption DEF FieldAssumption
<1> QED
  BY <1>1, <1>2

LEMMA InverseNotZero ==
  ASSUME NEW p \in Elem, p # Zero
  PROVE  Inv(p) # Zero /\ Mul(p, Inv(p)) = One
<1>1. Mul(p, Inv(p)) = One /\ Mul(p, Zero) = Zero /\ One # Zero
  BY ByteFieldAssumption DEF FieldAssumption
<1> QED
  BY <1>1

\* The multiple of the pivot that is added to an entry makes it zero, and it is
\* not zero itself unless the entry or the pivot was.
LEMMA PivotProduct ==
  ASSUME NEW a \in Elem, NEW p \in Elem
  PROVE  /\ p # Zero => Add(a, Mul(p, Mul(a, Inv(p)))) = Zero
         /\ Mul(a, Inv(p)) # Zero => p # Zero
<1>1. Inv(p) \in Elem /\ Mul(a, Inv(p)) \in Elem
  BY FieldTypes
<1>2. ASSUME p # Zero PROVE Mul(p, Mul(a, Inv(p))) = a
  <2>1. /\ Mul(p, Mul(a, Inv(p))) = Mul(Mul(a, Inv(p)), p)
        /\ Mul(Mul(a, Inv(p)), p) = Mul(a, Mul(Inv(p), p))
        /\ Mul(Inv(p), p) = Mul(p, Inv(p))
        /\ Mul(a, One) = a
    BY <1>1, ByteFieldAssumption DEF FieldAssumption
  <2>2. Mul(p, Inv(p)) = One
    BY <1>2, InverseNotZero
  <2> QED
    BY <2>1, <2>2
<1>3. Add(a, a) = Zero
  BY ZeroLaws
<1>4. p = Zero => Mul(a, Inv(p)) = Zero
  <2>1. Inv(Zero) = Zero
    BY ByteFieldAssumption DEF FieldAssumption
  <2>2. Mul(a, Zero) = Zero
    BY ZeroLaws
  <2> QED
    BY <2>1, <2>2
<1> QED
  BY <1>2, <1>3, <1>4

LEMMA MulDistributes ==
  ASSUME NEW u \in Elem, NEW v \in Elem, NEW w \in Elem
  PROVE  Mul(Add(u, v), w) = Add(Mul(u, w), Mul(v, w))
BY ByteFieldAssumption DEF FieldAssumption

LEMMA MulExchange ==
  ASSUME NEW u \in Elem, NEW v \in Elem, NEW w \in Elem
  PROVE  Mul(Mul(u, v), w) = Mul(Mul(u, w), v)
<1>1. /\ Mul(Mul(u, v), w) = Mul(u, Mul(v, w))
      /\ Mul(Mul(u, w), v) = Mul(u, Mul(w, v))
  BY ByteFieldAssumption DEF FieldAssumption
<1>2. Mul(v, w) = Mul(w, v)
  BY ByteFieldAssumption DEF FieldAssumption
<1> QED
  BY <1>1, <1>2

-----------------------------------------------------------------------------
(* Sums *)

\* Among sets there is one that has no other one of them as a subset.
LEMMA SmallestSet ==
  ASSUME NEW D, IsFiniteSet(D), NEW T, T \subseteq SUBSET D, T # {}
  PROVE  \E S \in T : \A R \in T : R \subseteq S => R = S
<1> DEFINE Order == StrictSubsetOrdering(D)
<1>1. IsWellFoundedOn(Order, SUBSET D)
  BY FS_StrictSubsetOrderingWellFounded, FS_FiniteSubsetsOfFinite
<1>2. PICK S \in T : \A R \in T : <<R, S>> \notin Order
  <2> HIDE DEF Order
  <2> QED
    BY <1>1, WFMin
<1>3. ASSUME NEW R \in T, R \subseteq S, R # S PROVE FALSE
  <2>1. <<R, S>> \in Order
    BY <1>3 DEF StrictSubsetOrdering
  <2> QED
    BY <1>2, <2>1
<1> QED
  BY <1>2, <1>3

\* The element that a sum takes first, and the sums of all subsets of U.
Pick(S) == CHOOSE s \in S : TRUE

Rule(f, g, U) ==
  g = [S \in SUBSET U |->
         IF S = {} THEN Zero ELSE Add(f[Pick(S)], g[S \ {Pick(S)}])]

\* SumOf looks up its sum among those of all subsets.
LEMMA SumUnfold ==
  ASSUME NEW f
  PROVE  SumOf(f) = (CHOOSE g : Rule(f, g, DOMAIN f))[DOMAIN f]
BY Zenon DEF SumOf, MapThenFoldSet, Rule, Pick

LEMMA PickIn ==
  ASSUME NEW S, S # {}
  PROVE  Pick(S) \in S
BY DEF Pick

\* Two functions that agree on U have the same sums there.
LEMMA RuleUnique ==
  ASSUME NEW U, IsFiniteSet(U), NEW V, U \subseteq V,
         NEW f, NEW e, \A s \in U : f[s] = e[s],
         NEW g, NEW h, Rule(f, g, U), Rule(e, h, V)
  PROVE  \A S \in SUBSET U : g[S] = h[S]
<1> DEFINE T == {S \in SUBSET U : g[S] # h[S]}
<1> SUFFICES ASSUME T # {} PROVE FALSE
  OBVIOUS
<1>1. PICK S \in T : \A R \in T : R \subseteq S => R = S
  <2>1. T \subseteq SUBSET U
    OBVIOUS
  <2> HIDE DEF T
  <2> QED
    BY <2>1, SmallestSet
<1>2. S \in SUBSET U /\ S \in SUBSET V
  OBVIOUS
<1>3. /\ g[S] = IF S = {} THEN Zero ELSE Add(f[Pick(S)], g[S \ {Pick(S)}])
      /\ h[S] = IF S = {} THEN Zero ELSE Add(e[Pick(S)], h[S \ {Pick(S)}])
  <2>1. g[S] = IF S = {} THEN Zero ELSE Add(f[Pick(S)], g[S \ {Pick(S)}])
    BY <1>2 DEF Rule
  <2>2. h[S] = IF S = {} THEN Zero ELSE Add(e[Pick(S)], h[S \ {Pick(S)}])
    BY <1>2 DEF Rule
  <2> QED
    BY <2>1, <2>2
<1>4. CASE S = {}
  BY <1>3, <1>4
<1>5. CASE S # {}
  <2>1. Pick(S) \in S
    BY <1>5, PickIn
  <2>2. S \ {Pick(S)} \notin T
    BY <1>1, <2>1
  <2>3. g[S \ {Pick(S)}] = h[S \ {Pick(S)}]
    BY <1>2, <2>2
  <2>4. f[Pick(S)] = e[Pick(S)]
    BY <1>2, <2>1
  <2> QED
    BY <1>3, <1>5, <2>3, <2>4
<1> QED
  BY <1>4, <1>5

\* The sums of all subsets exist: what CHOOSE picks follows the rule.
LEMMA RuleExists ==
  ASSUME NEW U, IsFiniteSet(U), NEW f
  PROVE  \E g : Rule(f, g, U)
<1> DEFINE T == {V \in SUBSET U : \A g : ~ Rule(f, g, V)}
<1> SUFFICES ASSUME T # {} PROVE FALSE
  OBVIOUS
<1>1. PICK V \in T : \A R \in T : R \subseteq V => R = V
  <2>1. T \subseteq SUBSET U
    OBVIOUS
  <2> HIDE DEF T
  <2> QED
    BY <2>1, SmallestSet
<1> DEFINE G(R) == CHOOSE g : Rule(f, g, R)
           Of(S) == IF S = {} THEN Zero
                    ELSE Add(f[Pick(S)], G(S \ {Pick(S)})[S \ {Pick(S)}])
           h == [S \in SUBSET V |-> Of(S)]
<1>2. ASSUME NEW R, R \subseteq V, R # V
      PROVE  Rule(f, G(R), R)
  <2>1. R \notin T
    BY <1>1, <1>2
  <2>2. \E g : Rule(f, g, R)
    BY <1>2, <2>1
  <2> QED
    BY <2>2
<1>3. ASSUME NEW R, R \subseteq V, R # V
      PROVE  h[R] = G(R)[R]
  <2>1. Rule(f, G(R), R) /\ h[R] = Of(R) /\ R \in SUBSET R
    BY <1>2, <1>3
  <2>2. G(R)[R] = IF R = {} THEN Zero ELSE Add(f[Pick(R)], G(R)[R \ {Pick(R)}])
    <3> HIDE DEF G, h
    <3> QED
      BY <2>1 DEF Rule
  <2>3. CASE R = {}
    BY <2>1, <2>2, <2>3
  <2>4. CASE R # {}
    <3> DEFINE R2 == R \ {Pick(R)}
    <3>1. R2 \subseteq V /\ R2 # V /\ R2 \subseteq R
      BY <1>3
    <3>2. Rule(f, G(R2), R2)
      BY <1>2, <3>1
    <3>3. IsFiniteSet(R2)
      BY <3>1, FS_Subset
    <3>4. G(R2)[R2] = G(R)[R2]
      <4> HIDE DEF G, R2
      <4> QED
        BY <2>1, <3>1, <3>2, <3>3, RuleUnique
    <3> QED
      BY <2>1, <2>2, <2>4, <3>4
  <2> QED
    BY <2>3, <2>4
<1>4. ASSUME NEW S \in SUBSET V
      PROVE  h[S] = IF S = {} THEN Zero ELSE Add(f[Pick(S)], h[S \ {Pick(S)}])
  <2>1. CASE S = {}
    BY <2>1
  <2>2. CASE S # {}
    <3>1. Pick(S) \in S
      BY <2>2, PickIn
    <3>2. S \ {Pick(S)} \subseteq V /\ S \ {Pick(S)} # V
      BY <3>1
    <3>3. h[S \ {Pick(S)}] = G(S \ {Pick(S)})[S \ {Pick(S)}]
      BY <1>3, <3>2
    <3> QED
      BY <2>2, <3>3
  <2> QED
    BY <2>1, <2>2
<1>5. h = [S \in SUBSET V |-> h[S]]
  OBVIOUS
<1> HIDE DEF h
<1>6. Rule(f, h, V)
  BY <1>4, <1>5 DEF Rule
<1> QED
  BY <1>6

-----------------------------------------------------------------------------
\* The sum of the values of f on S.
Total(f, S) == SumOf([s \in S |-> f[s]])

\* A sum is that of the first member and of the others.
LEMMA TotalRule ==
  ASSUME NEW S, IsFiniteSet(S), NEW f
  PROVE  Total(f, S) =
           IF S = {} THEN Zero ELSE Add(f[Pick(S)], Total(f, S \ {Pick(S)}))
<1> DEFINE R  == S \ {Pick(S)}
           fs == [s \in S |-> f[s]]
           fr == [s \in R |-> f[s]]
           g  == CHOOSE q : Rule(fs, q, S)
           h  == CHOOSE q : Rule(fr, q, R)
<1>1. IsFiniteSet(R) /\ R \subseteq S /\ DOMAIN fs = S /\ DOMAIN fr = R
  BY FS_Subset
<1>2. Total(f, S) = g[S]
  <2>1. SumOf(fs) = (CHOOSE q : Rule(fs, q, DOMAIN fs))[DOMAIN fs]
    <3> HIDE DEF fs
    <3> QED
      BY SumUnfold
  <2> HIDE DEF Total
  <2>2. Total(f, S) = SumOf(fs)
    BY DEF Total
  <2> QED
    BY <1>1, <2>1, <2>2
<1>3. Total(f, R) = h[R]
  <2>1. SumOf(fr) = (CHOOSE q : Rule(fr, q, DOMAIN fr))[DOMAIN fr]
    <3> HIDE DEF fr
    <3> QED
      BY SumUnfold
  <2> HIDE DEF R
  <2>2. Total(f, R) = SumOf(fr)
    BY DEF Total
  <2> QED
    BY <1>1, <2>1, <2>2
<1>4. Rule(fs, g, S)
  <2>1. \E q : Rule(fs, q, S)
    <3> HIDE DEF fs
    <3> QED
      BY RuleExists
  <2> QED
    BY <2>1
<1>5. Rule(fr, h, R)
  <2>1. \E q : Rule(fr, q, R)
    <3> HIDE DEF fr, R
    <3> QED
      BY <1>1, RuleExists
  <2> QED
    BY <2>1
<1>6. g[R] = h[R]
  <2>1. \A s \in R : fr[s] = fs[s]
    OBVIOUS
  <2> HIDE DEF fr, fs, g, h, R
  <2>2. \A Q \in SUBSET R : h[Q] = g[Q]
    BY <1>1, <1>4, <1>5, <2>1, RuleUnique
  <2>3. R \in SUBSET R
    OBVIOUS
  <2> QED
    BY <2>2, <2>3
<1>7. CASE S = {}
  BY <1>2, <1>4, <1>7 DEF Rule
<1>8. CASE S # {}
  <2>1. g[S] = Add(fs[Pick(S)], g[R]) /\ fs[Pick(S)] = f[Pick(S)]
    <3>1. fs[Pick(S)] = f[Pick(S)]
      BY <1>8, PickIn
    <3> HIDE DEF g, fs
    <3>2. g[S] = Add(fs[Pick(S)], g[R])
      BY <1>4, <1>8 DEF Rule
    <3> QED
      BY <3>1, <3>2
  <2> HIDE DEF fs, fr, g, h, R
  <2>2. Total(f, S) = Add(f[Pick(S)], Total(f, R))
    BY <1>2, <1>3, <1>6, <2>1
  <2> QED
    BY <1>8, <2>2 DEF R
<1> QED
  BY <1>7, <1>8

LEMMA TotalPick ==
  ASSUME NEW S, IsFiniteSet(S), NEW f, S # {}
  PROVE  Total(f, S) = Add(f[Pick(S)], Total(f, S \ {Pick(S)}))
BY TotalRule, Zenon

LEMMA TotalEmpty ==
  ASSUME NEW f
  PROVE  Total(f, {}) = Zero
BY TotalRule, FS_EmptySet

LEMMA ZeroType == Zero \in Elem
BY ByteFieldAssumption DEF FieldAssumption

LEMMA AddType ==
  ASSUME NEW u \in Elem, NEW v \in Elem
  PROVE  Add(u, v) \in Elem
BY ByteFieldAssumption DEF FieldAssumption

LEMMA AddExchange ==
  ASSUME NEW u \in Elem, NEW v \in Elem, NEW w \in Elem
  PROVE  Add(u, Add(v, w)) = Add(v, Add(u, w))
<1>1. /\ Add(Add(u, v), w) = Add(u, Add(v, w))
      /\ Add(Add(v, u), w) = Add(v, Add(u, w))
  BY ByteFieldAssumption DEF FieldAssumption
<1>2. Add(u, v) = Add(v, u)
  BY ByteFieldAssumption DEF FieldAssumption
<1> QED
  BY <1>1, <1>2

\* A sum of elements is an element.
LEMMA TotalType ==
  ASSUME NEW U, IsFiniteSet(U), NEW f, \A s \in U : f[s] \in Elem
  PROVE  Total(f, U) \in Elem
<1> DEFINE T == {S \in SUBSET U : Total(f, S) \notin Elem}
<1> SUFFICES ASSUME T # {} PROVE FALSE
  OBVIOUS
<1>1. PICK S \in T : \A R \in T : R \subseteq S => R = S
  <2>1. T \subseteq SUBSET U
    OBVIOUS
  <2> HIDE DEF T
  <2> QED
    BY <2>1, SmallestSet
<1>2. IsFiniteSet(S)
  BY FS_Subset
<1>3. S # {}
  BY TotalEmpty, ZeroType
<1>4. Pick(S) \in S
  BY <1>3, PickIn
<1>5. Total(f, S \ {Pick(S)}) \in Elem
  BY <1>1, <1>4
<1>6. f[Pick(S)] \in Elem
  BY <1>4
<1>7. Total(f, S) = Add(f[Pick(S)], Total(f, S \ {Pick(S)}))
  BY <1>2, <1>3, TotalPick
<1> QED
  <2>1. Total(f, S) \in Elem
    BY <1>5, <1>6, <1>7, AddType
  <2> QED
    BY <2>1

\* Any element may be taken out of a sum first.
LEMMA TotalRemove ==
  ASSUME NEW U, IsFiniteSet(U), NEW f, \A s \in U : f[s] \in Elem,
         NEW x \in U
  PROVE  Total(f, U) = Add(f[x], Total(f, U \ {x}))
<1> DEFINE T == {S \in SUBSET U : \E y \in S : Total(f, S) # Add(f[y], Total(f, S \ {y}))}
<1> SUFFICES ASSUME T # {} PROVE FALSE
  OBVIOUS
<1>1. PICK S \in T : \A R \in T : R \subseteq S => R = S
  <2>1. T \subseteq SUBSET U
    OBVIOUS
  <2> HIDE DEF T
  <2> QED
    BY <2>1, SmallestSet
<1>2. PICK y \in S : Total(f, S) # Add(f[y], Total(f, S \ {y}))
  OBVIOUS
<1>3. IsFiniteSet(S)
  BY FS_Subset
<1> DEFINE p == Pick(S)
<1>4. p \in S
  BY PickIn
<1>5. Total(f, S) = Add(f[p], Total(f, S \ {p}))
  BY <1>3, TotalPick
<1>6. p # y
  BY <1>2, <1>5
<1>7. Total(f, S \ {p}) = Add(f[y], Total(f, (S \ {p}) \ {y}))
  <2>1. S \ {p} \notin T /\ S \ {p} \in SUBSET U /\ y \in S \ {p}
    BY <1>1, <1>4, <1>6
  <2> HIDE DEF p
  <2> QED
    BY <2>1
<1>8. Total(f, S \ {y}) = Add(f[p], Total(f, (S \ {y}) \ {p}))
  <2>1. S \ {y} \notin T /\ S \ {y} \in SUBSET U /\ p \in S \ {y}
    BY <1>1, <1>4, <1>6
  <2> HIDE DEF p
  <2> QED
    BY <2>1
<1>9. (S \ {p}) \ {y} = (S \ {y}) \ {p}
  OBVIOUS
<1>10. Total(f, (S \ {y}) \ {p}) \in Elem
  <2>1. IsFiniteSet((S \ {y}) \ {p})
    BY <1>3, FS_Subset
  <2>2. \A s \in (S \ {y}) \ {p} : f[s] \in Elem
    OBVIOUS
  <2> HIDE DEF p
  <2> QED
    BY <2>1, <2>2, TotalType
<1>11. f[p] \in Elem /\ f[y] \in Elem
  BY <1>4
<1> HIDE DEF p
<1> QED
  <2> DEFINE r == Total(f, (S \ {y}) \ {p})
  <2>1. Total(f, S) = Add(f[p], Add(f[y], r)) /\ Total(f, S \ {y}) = Add(f[p], r)
    BY <1>5, <1>7, <1>8, <1>9
  <2>2. Add(f[p], Add(f[y], r)) = Add(f[y], Add(f[p], r))
    BY <1>10, <1>11, AddExchange
  <2> QED
    BY <1>2, <2>1, <2>2

LEMMA AddAssociates ==
  ASSUME NEW u \in Elem, NEW v \in Elem, NEW w \in Elem
  PROVE  Add(Add(u, v), w) = Add(u, Add(v, w))
BY ByteFieldAssumption DEF FieldAssumption

\* A sum can be taken in two parts.
LEMMA TotalSplit ==
  ASSUME NEW U, IsFiniteSet(U), NEW f, \A s \in U : f[s] \in Elem,
         NEW W
  PROVE  Total(f, U) = Add(Total(f, U \cap W), Total(f, U \ W))
<1> DEFINE T == {S \in SUBSET U : Total(f, S) # Add(Total(f, S \cap W), Total(f, S \ W))}
<1> SUFFICES ASSUME T # {} PROVE FALSE
  OBVIOUS
<1>1. PICK S \in T : \A R \in T : R \subseteq S => R = S
  <2>1. T \subseteq SUBSET U
    OBVIOUS
  <2> HIDE DEF T
  <2> QED
    BY <2>1, SmallestSet
<1>2. IsFiniteSet(S) /\ IsFiniteSet(S \cap W) /\ IsFiniteSet(S \ W)
  <2>1. IsFiniteSet(S)
    BY FS_Subset
  <2>2. S \cap W \in SUBSET S /\ S \ W \in SUBSET S
    OBVIOUS
  <2> QED
    BY <2>1, <2>2, FS_Subset
<1>3. S # {}
  <2>1. ASSUME S = {} PROVE FALSE
    <3>1. S \cap W = {} /\ S \ W = {}
      BY <2>1
    <3>2. Total(f, S) = Zero /\ Total(f, S \cap W) = Zero /\ Total(f, S \ W) = Zero
      BY <2>1, <3>1, TotalEmpty
    <3>3. Add(Zero, Zero) = Zero
      BY ByteFieldAssumption DEF FieldAssumption
    <3> QED
      BY <3>2, <3>3
  <2> QED
    BY <2>1
<1>4. PICK p \in S : TRUE
  BY <1>3
<1> DEFINE R == S \ {p}
           u == Total(f, R \cap W)
           v == Total(f, R \ W)
<1>5. Total(f, R) = Add(u, v)
  <2>1. R \notin T /\ R \in SUBSET U
    BY <1>1, <1>4
  <2> QED
    BY <2>1
<1>6. Total(f, S) = Add(f[p], Total(f, R))
  <2>1. \A s \in S : f[s] \in Elem
    OBVIOUS
  <2> QED
    BY <1>2, <1>4, <2>1, TotalRemove
<1>7. f[p] \in Elem /\ u \in Elem /\ v \in Elem
  <2>1. R \cap W \in SUBSET S /\ R \ W \in SUBSET S
    OBVIOUS
  <2>2. IsFiniteSet(R \cap W) /\ IsFiniteSet(R \ W)
    BY <1>2, <2>1, FS_Subset
  <2>3. (\A s \in R \cap W : f[s] \in Elem) /\ (\A s \in R \ W : f[s] \in Elem)
    OBVIOUS
  <2>4. f[p] \in Elem
    BY <1>4
  <2> HIDE DEF R
  <2> QED
    BY <2>2, <2>3, <2>4, TotalType
<1>8. CASE p \in W
  <2>1. (S \cap W) \ {p} = R \cap W /\ S \ W = R \ W /\ p \in S \cap W
    BY <1>4, <1>8
  <2>2. Total(f, S \cap W) = Add(f[p], Total(f, (S \cap W) \ {p}))
    <3>1. \A s \in S \cap W : f[s] \in Elem
      OBVIOUS
    <3> QED
      BY <1>2, <2>1, <3>1, TotalRemove
  <2>3. Total(f, S \cap W) = Add(f[p], u) /\ Total(f, S \ W) = v
    BY <2>1, <2>2
  <2>4. Add(Add(f[p], u), v) = Add(f[p], Add(u, v))
    BY <1>7, AddAssociates
  <2> QED
    BY <1>1, <1>5, <1>6, <2>3, <2>4
<1>9. CASE p \notin W
  <2>1. (S \ W) \ {p} = R \ W /\ S \cap W = R \cap W /\ p \in S \ W
    BY <1>4, <1>9
  <2>2. Total(f, S \ W) = Add(f[p], Total(f, (S \ W) \ {p}))
    <3>1. \A s \in S \ W : f[s] \in Elem
      OBVIOUS
    <3> QED
      BY <1>2, <2>1, <3>1, TotalRemove
  <2>3. Total(f, S \cap W) = u /\ Total(f, S \ W) = Add(f[p], v)
    BY <2>1, <2>2
  <2>4. Add(u, Add(f[p], v)) = Add(f[p], Add(u, v))
    BY <1>7, AddExchange
  <2> QED
    BY <1>1, <1>5, <1>6, <2>3, <2>4
<1> QED
  BY <1>8, <1>9

\* Counting the elements of U by e, each once, does not change a sum.
LEMMA TotalReindex ==
  ASSUME NEW U, IsFiniteSet(U), NEW V, IsFiniteSet(V),
         NEW f, NEW g, NEW e,
         \A s \in U : e[s] \in V /\ f[s] = g[e[s]] /\ g[e[s]] \in Elem,
         \A s, t \in U : e[s] = e[t] => s = t
  PROVE  Total(f, U) = Total(g, {e[s] : s \in U})
<1> DEFINE Image(S) == {e[s] : s \in S}
           T == {S \in SUBSET U : Total(f, S) # Total(g, Image(S))}
<1> SUFFICES ASSUME T # {} PROVE FALSE
  OBVIOUS
<1>1. PICK S \in T : \A R \in T : R \subseteq S => R = S
  <2>1. T \subseteq SUBSET U
    OBVIOUS
  <2> HIDE DEF T
  <2> QED
    BY <2>1, SmallestSet
<1>2. IsFiniteSet(S) /\ IsFiniteSet(Image(S))
  <2>1. Image(S) \in SUBSET V
    OBVIOUS
  <2>2. IsFiniteSet(Image(S))
    <3> HIDE DEF Image
    <3> QED
      BY <2>1, FS_Subset
  <2>3. IsFiniteSet(S)
    BY FS_Subset
  <2> QED
    BY <2>2, <2>3
<1>3. S # {}
  <2>1. ASSUME S = {} PROVE FALSE
    <3>1. Image(S) = {}
      BY <2>1
    <3>2. Total(f, S) = Zero /\ Total(g, Image(S)) = Zero
      <4> HIDE DEF Image
      <4> QED
        BY <2>1, <3>1, TotalEmpty
    <3> QED
      BY <3>2
  <2> QED
    BY <2>1
<1>4. PICK p \in S : TRUE
  BY <1>3
<1>5. Total(f, S \ {p}) = Total(g, Image(S \ {p}))
  <2>1. S \ {p} \notin T /\ S \ {p} \in SUBSET U
    BY <1>1, <1>4
  <2> QED
    BY <2>1
<1>6. Image(S \ {p}) = Image(S) \ {e[p]} /\ e[p] \in Image(S)
  BY <1>4
<1>7. Total(f, S) = Add(f[p], Total(f, S \ {p}))
  <2>1. \A s \in S : f[s] \in Elem
    OBVIOUS
  <2> QED
    BY <1>2, <1>4, <2>1, TotalRemove
<1>8. Total(g, Image(S)) = Add(g[e[p]], Total(g, Image(S) \ {e[p]}))
  <2>1. \A s \in Image(S) : g[s] \in Elem
    OBVIOUS
  <2> HIDE DEF Image
  <2> QED
    BY <1>2, <1>6, <2>1, TotalRemove
<1>9. f[p] = g[e[p]]
  BY <1>4
<1> QED
  <2> HIDE DEF Image
  <2>1. Total(f, S) = Total(g, Image(S))
    BY <1>5, <1>6, <1>7, <1>8, <1>9
  <2> QED
    BY <2>1 DEF Image

LEMMA SumIsTotal ==
  ASSUME NEW S, NEW f, f = [s \in S |-> f[s]]
  PROVE  SumOf(f) = Total(f, S)
BY DEF Total

LEMMA SumType ==
  ASSUME NEW S, IsFiniteSet(S), NEW f \in [S -> Elem]
  PROVE  SumOf(f) \in Elem
<1>1. SumOf(f) = Total(f, S)
  BY SumIsTotal
<1> QED
  BY <1>1, TotalType

\* A sum of products is an element.
LEMMA ProductsType ==
  ASSUME NEW S, IsFiniteSet(S), NEW f, NEW g,
         \A s \in S : f[s] \in Elem /\ g[s] \in Elem
  PROVE  SumOf([s \in S |-> Mul(f[s], g[s])]) \in Elem
<1>1. [s \in S |-> Mul(f[s], g[s])] \in [S -> Elem]
  BY MulType
<1> QED
  BY <1>1, SumType

\* A factor of every member is a factor of the sum.
LEMMA TotalScaled ==
  ASSUME NEW U, IsFiniteSet(U), NEW f, \A s \in U : f[s] \in Elem,
         NEW w \in Elem, NEW g, \A s \in U : g[s] = Mul(f[s], w)
  PROVE  Total(g, U) = Mul(Total(f, U), w)
<1> DEFINE T == {S \in SUBSET U : Total(g, S) # Mul(Total(f, S), w)}
<1> SUFFICES ASSUME T # {} PROVE FALSE
  OBVIOUS
<1>1. PICK S \in T : \A R \in T : R \subseteq S => R = S
  <2>1. T \subseteq SUBSET U
    OBVIOUS
  <2> HIDE DEF T
  <2> QED
    BY <2>1, SmallestSet
<1>2. IsFiniteSet(S)
  BY FS_Subset
<1>3. S # {}
  <2>1. Total(g, {}) = Zero /\ Total(f, {}) = Zero
    BY TotalEmpty
  <2>2. Mul(Zero, w) = Zero
    BY ZeroLaws
  <2> QED
    BY <2>1, <2>2
<1> DEFINE p == Pick(S)
           R == S \ {p}
<1>4. p \in S
  BY <1>3, PickIn
<1>5. Total(g, R) = Mul(Total(f, R), w)
  BY <1>1, <1>4
<1>6. Total(f, S) = Add(f[p], Total(f, R)) /\ Total(g, S) = Add(g[p], Total(g, R))
  BY <1>2, <1>3, TotalPick
<1>7. f[p] \in Elem /\ g[p] = Mul(f[p], w)
  BY <1>4
<1>8. Total(f, R) \in Elem
  <2>1. IsFiniteSet(R) /\ \A s \in R : f[s] \in Elem
    BY <1>2, FS_Subset
  <2> HIDE DEF R
  <2> QED
    BY <2>1, TotalType
<1>9. Total(g, S) # Mul(Total(f, S), w)
  BY <1>1
<1> HIDE DEF p, R
<1>10. Mul(Add(f[p], Total(f, R)), w) = Add(Mul(f[p], w), Mul(Total(f, R), w))
  BY <1>7, <1>8, MulDistributes
<1> QED
  BY <1>5, <1>6, <1>7, <1>9, <1>10

\* The sum of sums, member by member.
LEMMA TotalAdded ==
  ASSUME NEW U, IsFiniteSet(U), NEW f, NEW g, NEW h,
         \A s \in U : f[s] \in Elem /\ g[s] \in Elem /\ h[s] = Add(f[s], g[s])
  PROVE  Total(h, U) = Add(Total(f, U), Total(g, U))
<1> DEFINE T == {S \in SUBSET U : Total(h, S) # Add(Total(f, S), Total(g, S))}
<1> SUFFICES ASSUME T # {} PROVE FALSE
  OBVIOUS
<1>1. PICK S \in T : \A R \in T : R \subseteq S => R = S
  <2>1. T \subseteq SUBSET U
    OBVIOUS
  <2> HIDE DEF T
  <2> QED
    BY <2>1, SmallestSet
<1>2. IsFiniteSet(S)
  BY FS_Subset
<1>3. S # {}
  <2>1. Total(f, {}) = Zero /\ Total(g, {}) = Zero /\ Total(h, {}) = Zero
    BY TotalEmpty
  <2>2. Add(Zero, Zero) = Zero
    BY ZeroType, ZeroLaws
  <2> QED
    BY <2>1, <2>2
<1> DEFINE p == Pick(S)
           R == S \ {p}
<1>4. p \in S
  BY <1>3, PickIn
<1>5. Total(h, R) = Add(Total(f, R), Total(g, R))
  BY <1>1, <1>4
<1>6. /\ Total(f, S) = Add(f[p], Total(f, R))
      /\ Total(g, S) = Add(g[p], Total(g, R))
      /\ Total(h, S) = Add(h[p], Total(h, R))
  BY <1>2, <1>3, TotalPick
<1>7. f[p] \in Elem /\ g[p] \in Elem /\ h[p] = Add(f[p], g[p])
  BY <1>4
<1>8. Total(f, R) \in Elem /\ Total(g, R) \in Elem
  <2>1. IsFiniteSet(R) /\ (\A s \in R : f[s] \in Elem) /\ (\A s \in R : g[s] \in Elem)
    BY <1>2, FS_Subset
  <2> HIDE DEF R
  <2> QED
    BY <2>1, TotalType
<1>9. Total(h, S) # Add(Total(f, S), Total(g, S))
  BY <1>1
<1> HIDE DEF p, R
<1> DEFINE x == Total(f, R)
           y == Total(g, R)
<1>10. x \in Elem /\ y \in Elem /\ Add(x, y) \in Elem /\ Add(g[p], y) \in Elem
  BY <1>7, <1>8, AddType
<1>11. Add(Add(f[p], g[p]), Add(x, y)) = Add(Add(f[p], x), Add(g[p], y))
  <2> HIDE DEF x, y
  <2>1. Add(Add(f[p], g[p]), Add(x, y)) = Add(f[p], Add(g[p], Add(x, y)))
    BY <1>7, <1>10, AddAssociates
  <2>2. Add(g[p], Add(x, y)) = Add(x, Add(g[p], y))
    BY <1>7, <1>10, AddExchange
  <2>3. Add(Add(f[p], x), Add(g[p], y)) = Add(f[p], Add(x, Add(g[p], y)))
    BY <1>7, <1>10, AddAssociates
  <2> QED
    BY <2>1, <2>2, <2>3
<1> QED
  BY <1>5, <1>6, <1>7, <1>9, <1>11

\* A sum of zeros but for one member.
LEMMA TotalSingle ==
  ASSUME NEW U, IsFiniteSet(U), NEW f, NEW x \in U, f[x] \in Elem,
         \A s \in U : s # x => f[s] = Zero
  PROVE  Total(f, U) = f[x]
<1>1. \A s \in U : f[s] \in Elem
  BY ZeroType
<1>2. Total(f, U) = Add(f[x], Total(f, U \ {x}))
  BY <1>1, TotalRemove
<1>3. Total(f, U \ {x}) = Zero
  <2> DEFINE R == U \ {x}
  <2>1. IsFiniteSet(R)
    BY FS_Subset
  <2>2. \A s \in R : f[s] \in Elem /\ f[s] = Zero
    BY <1>1
  <2> HIDE DEF R
  <2>3. Total(f, R) \in Elem
    BY <2>1, <2>2, TotalType
  <2>4. \A s \in R : f[s] = Mul(f[s], Zero)
    BY <2>2, ZeroLaws
  <2>5. Total(f, R) = Mul(Total(f, R), Zero)
    BY <2>1, <2>2, <2>4, ZeroType, TotalScaled
  <2>6. Mul(Total(f, R), Zero) = Zero
    BY <2>3, ZeroLaws
  <2> QED
    BY <2>5, <2>6 DEF R
<1> QED
  BY <1>2, <1>3, ZeroLaws

-----------------------------------------------------------------------------
(***************************************************************************)
(* The tables.  The bytes of gf256_tables.h are a field: all that the rest *)
(* of the proofs asks of one.  Multiplication by 2 is described bit by     *)
(* bit; a product is a chain of such doublings, through which everything   *)
(* that adds up and commutes with doubling can be pulled.  That there are  *)
(* inverses comes from squaring, which is additive and returns to every    *)
(* byte after eight times.                                                 *)
(***************************************************************************)

\* The laws of ByteField, of the bytes.
Table == INSTANCE ByteField WITH
  Elem <- GF256, Zero <- {}, One <- {0},
  Add <- AddGF256, Mul <- MulGF256, Inv <- InvGF256

LEMMA ByteEqual ==
  ASSUME NEW a \in GF256, NEW c \in GF256,
         0 \in a <=> 0 \in c,
         1 \in a <=> 1 \in c,
         2 \in a <=> 2 \in c,
         3 \in a <=> 3 \in c,
         4 \in a <=> 4 \in c,
         5 \in a <=> 5 \in c,
         6 \in a <=> 6 \in c,
         7 \in a <=> 7 \in c
  PROVE  a = c
<1>1. 0 .. 7 = {0, 1, 2, 3, 4, 5, 6, 7}
  OBVIOUS
<1>2. ASSUME NEW k PROVE k \in a <=> k \in c
  <2>1. k \in a \/ k \in c => k \in {0, 1, 2, 3, 4, 5, 6, 7}
    BY <1>1 DEF GF256
  <2> QED
    BY <2>1
<1> QED
  BY <1>2

LEMMA AddBits ==
  ASSUME NEW a \in GF256, NEW c \in GF256
  PROVE  /\ AddGF256(a, c) \in GF256
         /\ \A k : k \in AddGF256(a, c) <=> ~ (k \in a <=> k \in c)
BY DEF GF256, AddGF256

LEMMA AddLaws ==
  ASSUME NEW a \in GF256, NEW c \in GF256, NEW e \in GF256
  PROVE  /\ AddGF256(a, a) = {} /\ AddGF256({}, a) = a /\ AddGF256(a, {}) = a
         /\ AddGF256(a, c) = AddGF256(c, a)
         /\ AddGF256(AddGF256(a, c), e) = AddGF256(a, AddGF256(c, e))
<1>1. AddGF256(a, a) = {} /\ AddGF256({}, a) = a /\ AddGF256(a, {}) = a
  BY DEF AddGF256
<1>2. AddGF256(a, c) = AddGF256(c, a)
  BY DEF AddGF256
<1>3. AddGF256(AddGF256(a, c), e) = AddGF256(a, AddGF256(c, e))
  BY DEF AddGF256
<1> QED
  BY <1>1, <1>2, <1>3

\* {} and {0} are bytes.
LEMMA ByteConstants == {} \in GF256 /\ {0} \in GF256
BY DEF GF256

LEMMA DoubledBits ==
  ASSUME NEW a \in GF256
  PROVE  /\ Doubled(a) \in GF256
         /\ 0 \in Doubled(a) <=> 7 \in a
         /\ 1 \in Doubled(a) <=> 0 \in a
         /\ 2 \in Doubled(a) <=> ~ (1 \in a <=> 7 \in a)
         /\ 3 \in Doubled(a) <=> ~ (2 \in a <=> 7 \in a)
         /\ 4 \in Doubled(a) <=> ~ (3 \in a <=> 7 \in a)
         /\ 5 \in Doubled(a) <=> 4 \in a
         /\ 6 \in Doubled(a) <=> 5 \in a
         /\ 7 \in Doubled(a) <=> 6 \in a
<1> DEFINE up   == {k + 1 : k \in a \ {7}}
           over == IF 7 \in a THEN {0, 2, 3, 4} ELSE {}
<1>1. up \in GF256
  BY DEF GF256
<1>2. over \in GF256
  BY DEF GF256
<1>3. /\ ~ (0 \in up)
      /\ 1 \in up <=> 0 \in a
      /\ 2 \in up <=> 1 \in a
      /\ 3 \in up <=> 2 \in a
      /\ 4 \in up <=> 3 \in a
      /\ 5 \in up <=> 4 \in a
      /\ 6 \in up <=> 5 \in a
      /\ 7 \in up <=> 6 \in a
  BY DEF GF256
<1>4. /\ 0 \in over <=> 7 \in a
      /\ ~ (1 \in over)
      /\ 2 \in over <=> 7 \in a
      /\ 3 \in over <=> 7 \in a
      /\ 4 \in over <=> 7 \in a
      /\ ~ (5 \in over)
      /\ ~ (6 \in over)
      /\ ~ (7 \in over)
  OBVIOUS
<1>5. Doubled(a) = AddGF256(up, over)
  BY DEF Doubled
<1> HIDE DEF up, over
<1> QED
  BY <1>1, <1>2, <1>3, <1>4, <1>5, AddBits

LEMMA DoubledAdds ==
  ASSUME NEW a \in GF256, NEW c \in GF256
  PROVE  Doubled(AddGF256(a, c)) = AddGF256(Doubled(a), Doubled(c))
<1> DEFINE s == AddGF256(a, c)
           d == Doubled(s)
           e == AddGF256(Doubled(a), Doubled(c))
<1>1. s \in GF256 /\ \A k : k \in s <=> ~ (k \in a <=> k \in c)
  BY AddBits
<1>2. Doubled(a) \in GF256 /\ Doubled(c) \in GF256
  BY DoubledBits
<1>3. e \in GF256 /\ \A k : k \in e <=> ~ (k \in Doubled(a) <=> k \in Doubled(c))
  BY <1>2, AddBits
<1> HIDE DEF s, e
<1>4. d \in GF256
  BY <1>1, DoubledBits
<1>5. /\ 0 \in d <=> 0 \in e
      /\ 1 \in d <=> 1 \in e
      /\ 2 \in d <=> 2 \in e
      /\ 3 \in d <=> 3 \in e
      /\ 4 \in d <=> 4 \in e
      /\ 5 \in d <=> 5 \in e
      /\ 6 \in d <=> 6 \in e
      /\ 7 \in d <=> 7 \in e
  BY <1>1, <1>3, DoubledBits
<1> HIDE DEF d
<1>6. d = e
  BY <1>3, <1>4, <1>5, ByteEqual
<1> QED
  BY <1>6 DEF d, e, s

LEMMA DoubledZero == Doubled({}) = {}
<1> DEFINE d == Doubled({})
<1>1. d \in GF256
  BY ByteConstants, DoubledBits
<1>2. /\ ~ (0 \in d) /\ ~ (1 \in d) /\ ~ (2 \in d) /\ ~ (3 \in d)
      /\ ~ (4 \in d) /\ ~ (5 \in d) /\ ~ (6 \in d) /\ ~ (7 \in d)
  BY ByteConstants, DoubledBits
<1> HIDE DEF d
<1>3. d = {}
  BY <1>1, <1>2, ByteConstants, ByteEqual
<1> QED
  BY <1>3 DEF d

\* One step of a product, and eight of them.
Onward(p, t) == AddGF256(Doubled(p), t)

Chain(f) ==
  Onward(Onward(Onward(Onward(Onward(Onward(Onward(f[7], f[6]), f[5]), f[4]), f[3]), f[2]),
                f[1]), f[0])

Digits == [0 .. 7 -> GF256]

\* What a product adds for the bits of c.
Terms(a, c) == [k \in 0 .. 7 |-> IF k \in c THEN a ELSE {}]

LEMMA MulIsChain ==
  ASSUME NEW a \in GF256, NEW c \in GF256
  PROVE  MulGF256(a, c) = Chain(Terms(a, c)) /\ Terms(a, c) \in Digits
BY ByteConstants DEF MulGF256, Chain, Terms, Onward, Digits

LEMMA OnwardType ==
  ASSUME NEW p \in GF256, NEW t \in GF256
  PROVE  Onward(p, t) \in GF256
BY AddBits, DoubledBits DEF Onward

LEMMA OnwardAdds ==
  ASSUME NEW p \in GF256, NEW t \in GF256, NEW q \in GF256, NEW u \in GF256
  PROVE  Onward(AddGF256(p, q), AddGF256(t, u)) = AddGF256(Onward(p, t), Onward(q, u))
<1> DEFINE dp == Doubled(p)
           dq == Doubled(q)
<1>1. dp \in GF256 /\ dq \in GF256 /\ Doubled(AddGF256(p, q)) = AddGF256(dp, dq)
  BY DoubledBits, DoubledAdds
<1> HIDE DEF dp, dq
<1>2. AddGF256(AddGF256(dp, dq), AddGF256(t, u)) = AddGF256(AddGF256(dp, t), AddGF256(dq, u))
  BY DEF AddGF256
<1> QED
  BY <1>1, <1>2 DEF Onward, dp, dq

\* The bytes that a chain comes through.
Steps(f) ==
  {p \in Digits : /\ p[7] = f[7] /\ p[0] = Chain(f)
                  /\ \A k \in 0 .. 6 : p[k] = Onward(p[k + 1], f[k])}

LEMMA ChainSteps ==
  ASSUME NEW f \in Digits
  PROVE  \E p : p \in Steps(f)
<1> DEFINE p7 == f[7]
           p6 == Onward(p7, f[6])
           p5 == Onward(p6, f[5])
           p4 == Onward(p5, f[4])
           p3 == Onward(p4, f[3])
           p2 == Onward(p3, f[2])
           p1 == Onward(p2, f[1])
           p0 == Onward(p1, f[0])
<1>1. \A k \in 0 .. 7 : f[k] \in GF256
  BY DEF Digits
<1>2. p7 \in GF256
  BY <1>1
<1>3. p0 = Chain(f)
  BY DEF Chain
<1>4. p6 \in GF256
  <2> HIDE DEF p7
  <2> QED
    BY <1>1, <1>2, OnwardType
<1>5. p5 \in GF256
  <2> HIDE DEF p6
  <2> QED
    BY <1>1, <1>4, OnwardType
<1>6. p4 \in GF256
  <2> HIDE DEF p5
  <2> QED
    BY <1>1, <1>5, OnwardType
<1>7. p3 \in GF256
  <2> HIDE DEF p4
  <2> QED
    BY <1>1, <1>6, OnwardType
<1>8. p2 \in GF256
  <2> HIDE DEF p3
  <2> QED
    BY <1>1, <1>7, OnwardType
<1>9. p1 \in GF256
  <2> HIDE DEF p2
  <2> QED
    BY <1>1, <1>8, OnwardType
<1>10. p0 \in GF256
  <2> HIDE DEF p1
  <2> QED
    BY <1>1, <1>9, OnwardType
<1> DEFINE p == [k \in 0 .. 7 |-> IF k = 0 THEN p0 ELSE
             IF k = 1 THEN p1 ELSE
             IF k = 2 THEN p2 ELSE
             IF k = 3 THEN p3 ELSE
             IF k = 4 THEN p4 ELSE
             IF k = 5 THEN p5 ELSE
             IF k = 6 THEN p6 ELSE p7]
<1>11. /\ p[0] = p0 /\ p[1] = p1 /\ p[2] = p2 /\ p[3] = p3
       /\ p[4] = p4 /\ p[5] = p5 /\ p[6] = p6 /\ p[7] = p7
  <2> HIDE DEF p0, p1, p2, p3, p4, p5, p6, p7
  <2> QED
    OBVIOUS
<1>12. p \in Digits
  <2> HIDE DEF p0, p1, p2, p3, p4, p5, p6, p7
  <2> QED
    BY <1>2, <1>4, <1>5, <1>6, <1>7, <1>8, <1>9, <1>10 DEF Digits
<1>13. p7 = f[7]
  OBVIOUS
<1>14. /\ p6 = Onward(p7, f[6])
       /\ p5 = Onward(p6, f[5])
       /\ p4 = Onward(p5, f[4])
       /\ p3 = Onward(p4, f[3])
       /\ p2 = Onward(p3, f[2])
       /\ p1 = Onward(p2, f[1])
       /\ p0 = Onward(p1, f[0])
  OBVIOUS
<1> HIDE DEF p, p0, p1, p2, p3, p4, p5, p6, p7
<1>15. ASSUME NEW k \in 0 .. 6 PROVE p[k] = Onward(p[k + 1], f[k])
  <2>1. k \in {0, 1, 2, 3, 4, 5, 6}
    OBVIOUS
  <2> QED
    BY <1>11, <1>14, <2>1
<1> QED
  BY <1>3, <1>11, <1>12, <1>13, <1>15 DEF Steps

LEMMA ChainType ==
  ASSUME NEW f \in Digits
  PROVE  Chain(f) \in GF256
<1>1. PICK p : p \in Steps(f)
  BY ChainSteps
<1> QED
  BY <1>1 DEF Steps, Digits

\* Chains are added term by term.
LEMMA ChainAdds ==
  ASSUME NEW f \in Digits, NEW g \in Digits, NEW h \in Digits,
         \A k \in 0 .. 7 : h[k] = AddGF256(f[k], g[k])
  PROVE  Chain(h) = AddGF256(Chain(f), Chain(g))
<1>1. PICK p : p \in Steps(f)
  BY ChainSteps
<1>2. PICK q : q \in Steps(g)
  BY ChainSteps
<1>3. PICK r : r \in Steps(h)
  BY ChainSteps
<1> DEFINE Sums(k) == r[k] = AddGF256(p[k], q[k])
<1>4. Sums(7)
  BY <1>1, <1>2, <1>3 DEF Steps
<1>5. ASSUME NEW k \in 0 .. 6, Sums(k + 1) PROVE Sums(k)
  <2>1. /\ p[k] = Onward(p[k + 1], f[k])
        /\ q[k] = Onward(q[k + 1], g[k])
        /\ r[k] = Onward(r[k + 1], h[k])
    BY <1>1, <1>2, <1>3 DEF Steps
  <2>2. p[k + 1] \in GF256 /\ q[k + 1] \in GF256 /\ f[k] \in GF256 /\ g[k] \in GF256
    BY <1>1, <1>2 DEF Steps, Digits
  <2>3. Onward(AddGF256(p[k + 1], q[k + 1]), AddGF256(f[k], g[k]))
          = AddGF256(Onward(p[k + 1], f[k]), Onward(q[k + 1], g[k]))
    BY <2>2, OnwardAdds
  <2>4. h[k] = AddGF256(f[k], g[k])
    OBVIOUS
  <2> QED
    BY <1>5, <2>1, <2>3, <2>4
<1>6. Sums(0)
  <2> HIDE DEF Sums
  <2>1. Sums(6) /\ Sums(5) /\ Sums(4) /\ Sums(3)
    <3>1. Sums(6)
      BY <1>4, <1>5
    <3>2. Sums(5)
      BY <1>5, <3>1
    <3>3. Sums(4)
      BY <1>5, <3>2
    <3> QED
      BY <1>5, <3>1, <3>2, <3>3
  <2>2. Sums(2)
    BY <1>5, <2>1
  <2>3. Sums(1)
    BY <1>5, <2>2
  <2> QED
    BY <1>5, <2>3
<1> QED
  BY <1>1, <1>2, <1>3, <1>6 DEF Steps

\* What adds up and commutes with doubling.
Pulled(P) ==
  /\ P \in [GF256 -> GF256]
  /\ \A a, c \in GF256 : P[AddGF256(a, c)] = AddGF256(P[a], P[c])
  /\ \A a \in GF256 : P[Doubled(a)] = Doubled(P[a])

\* It can be pulled through a chain.
LEMMA ChainPulled ==
  ASSUME NEW f \in Digits, NEW P, Pulled(P), NEW g \in Digits,
         \A k \in 0 .. 7 : g[k] = P[f[k]]
  PROVE  P[Chain(f)] = Chain(g)
<1>1. PICK p : p \in Steps(f)
  BY ChainSteps
<1>2. PICK q : q \in Steps(g)
  BY ChainSteps
<1> DEFINE Maps(k) == q[k] = P[p[k]]
<1>3. Maps(7)
  BY <1>1, <1>2 DEF Steps
<1>4. ASSUME NEW k \in 0 .. 6, Maps(k + 1) PROVE Maps(k)
  <2>1. p[k] = Onward(p[k + 1], f[k]) /\ q[k] = Onward(q[k + 1], g[k])
    BY <1>1, <1>2 DEF Steps
  <2>2. p[k + 1] \in GF256 /\ f[k] \in GF256
    BY <1>1 DEF Steps, Digits
  <2>3. P[Onward(p[k + 1], f[k])] = Onward(P[p[k + 1]], P[f[k]])
    BY <2>2, DoubledBits DEF Pulled, Onward
  <2>4. g[k] = P[f[k]]
    OBVIOUS
  <2> QED
    BY <1>4, <2>1, <2>3, <2>4
<1>5. Maps(0)
  <2> HIDE DEF Maps
  <2>1. Maps(6) /\ Maps(5) /\ Maps(4) /\ Maps(3)
    <3>1. Maps(6)
      BY <1>3, <1>4
    <3>2. Maps(5)
      BY <1>4, <3>1
    <3>3. Maps(4)
      BY <1>4, <3>2
    <3> QED
      BY <1>4, <3>1, <3>2, <3>3
  <2>2. Maps(2)
    BY <1>4, <2>1
  <2>3. Maps(1)
    BY <1>4, <2>2
  <2> QED
    BY <1>4, <2>3
<1> QED
  BY <1>1, <1>2, <1>5 DEF Steps

-----------------------------------------------------------------------------
(* Multiplication *)

LEMMA MulTypeGF ==
  ASSUME NEW a \in GF256, NEW c \in GF256
  PROVE  MulGF256(a, c) \in GF256
BY MulIsChain, ChainType

LEMMA MulDistributesGF ==
  ASSUME NEW a \in GF256, NEW c \in GF256, NEW e \in GF256
  PROVE  MulGF256(AddGF256(a, c), e) = AddGF256(MulGF256(a, e), MulGF256(c, e))
<1> DEFINE s == AddGF256(a, c)
<1>1. s \in GF256
  BY AddBits
<1>2. \A k \in 0 .. 7 : Terms(s, e)[k] = AddGF256(Terms(a, e)[k], Terms(c, e)[k])
  BY ByteConstants, AddLaws DEF Terms
<1> HIDE DEF s
<1>3. /\ MulGF256(s, e) = Chain(Terms(s, e)) /\ Terms(s, e) \in Digits
      /\ MulGF256(a, e) = Chain(Terms(a, e)) /\ Terms(a, e) \in Digits
      /\ MulGF256(c, e) = Chain(Terms(c, e)) /\ Terms(c, e) \in Digits
  BY <1>1, MulIsChain
<1>4. MulGF256(s, e) = AddGF256(MulGF256(a, e), MulGF256(c, e))
  BY <1>2, <1>3, ChainAdds
<1> QED
  BY <1>4 DEF s

LEMMA MulZeroGF ==
  ASSUME NEW c \in GF256
  PROVE  MulGF256({}, c) = {}
<1>1. AddGF256({}, {}) = {}
  BY DEF AddGF256
<1>2. MulGF256(AddGF256({}, {}), c) = AddGF256(MulGF256({}, c), MulGF256({}, c))
  BY ByteConstants, MulDistributesGF
<1>3. MulGF256({}, c) \in GF256
  BY ByteConstants, MulTypeGF
<1> QED
  BY <1>1, <1>2, <1>3, AddLaws

LEMMA MulDoubled ==
  ASSUME NEW a \in GF256, NEW c \in GF256
  PROVE  MulGF256(Doubled(a), c) = Doubled(MulGF256(a, c))
<1> DEFINE P == [u \in GF256 |-> Doubled(u)]
           d == Doubled(a)
<1>1. Pulled(P)
  BY AddBits, DoubledBits, DoubledAdds DEF Pulled
<1>2. d \in GF256
  BY DoubledBits
<1>3. \A k \in 0 .. 7 : Terms(d, c)[k] = P[Terms(a, c)[k]]
  BY ByteConstants, DoubledZero DEF Terms
<1>4. \A u \in GF256 : P[u] = Doubled(u)
  OBVIOUS
<1> HIDE DEF P, d
<1>5. /\ MulGF256(d, c) = Chain(Terms(d, c)) /\ Terms(d, c) \in Digits
      /\ MulGF256(a, c) = Chain(Terms(a, c)) /\ Terms(a, c) \in Digits
  BY <1>2, MulIsChain
<1>6. P[Chain(Terms(a, c))] = Chain(Terms(d, c))
  BY <1>1, <1>3, <1>5, ChainPulled
<1>7. MulGF256(a, c) \in GF256
  BY MulTypeGF
<1> QED
  BY <1>4, <1>5, <1>6, <1>7 DEF d

\* The factors of a product may be taken in either order.
LEMMA MulExchanged ==
  ASSUME NEW a \in GF256, NEW c \in GF256, NEW e \in GF256
  PROVE  MulGF256(MulGF256(e, c), a) = MulGF256(MulGF256(e, a), c)
<1> DEFINE P == [u \in GF256 |-> MulGF256(u, a)]
           d == MulGF256(e, a)
<1>1. \A u \in GF256 : P[u] = MulGF256(u, a) /\ P[u] \in GF256
  BY MulTypeGF
<1>2. Pulled(P)
  <2>1. P \in [GF256 -> GF256]
    BY MulTypeGF
  <2> HIDE DEF P
  <2>2. ASSUME NEW u \in GF256, NEW v \in GF256
        PROVE  P[AddGF256(u, v)] = AddGF256(P[u], P[v])
    <3>1. AddGF256(u, v) \in GF256
      BY AddBits
    <3>2. MulGF256(AddGF256(u, v), a) = AddGF256(MulGF256(u, a), MulGF256(v, a))
      BY MulDistributesGF
    <3> QED
      BY <1>1, <3>1, <3>2
  <2>3. ASSUME NEW u \in GF256
        PROVE  P[Doubled(u)] = Doubled(P[u])
    <3>1. Doubled(u) \in GF256
      BY DoubledBits
    <3>2. MulGF256(Doubled(u), a) = Doubled(MulGF256(u, a))
      BY MulDoubled
    <3> QED
      BY <1>1, <3>1, <3>2
  <2> QED
    BY <2>1, <2>2, <2>3 DEF Pulled
<1>3. d \in GF256
  BY MulTypeGF
<1>4. \A k \in 0 .. 7 : Terms(d, c)[k] = P[Terms(e, c)[k]]
  BY ByteConstants, MulZeroGF DEF Terms
<1> HIDE DEF P, d
<1>5. /\ MulGF256(d, c) = Chain(Terms(d, c)) /\ Terms(d, c) \in Digits
      /\ MulGF256(e, c) = Chain(Terms(e, c)) /\ Terms(e, c) \in Digits
  BY <1>3, MulIsChain
<1>6. P[Chain(Terms(e, c))] = Chain(Terms(d, c))
  BY <1>2, <1>4, <1>5, ChainPulled
<1>7. MulGF256(e, c) \in GF256
  BY MulTypeGF
<1> QED
  BY <1>1, <1>5, <1>6, <1>7 DEF d

\* Bit by bit, what one step of a chain makes.
LEMMA OnwardBits ==
  ASSUME NEW p \in GF256, NEW t \in GF256
  PROVE  /\ 0 \in Onward(p, t) <=> (0 \in t <=> ~ (7 \in p))
         /\ 1 \in Onward(p, t) <=> (1 \in t <=> ~ (0 \in p))
         /\ 2 \in Onward(p, t) <=> (2 \in t <=> ~ (~ (1 \in p <=> 7 \in p)))
         /\ 3 \in Onward(p, t) <=> (3 \in t <=> ~ (~ (2 \in p <=> 7 \in p)))
         /\ 4 \in Onward(p, t) <=> (4 \in t <=> ~ (~ (3 \in p <=> 7 \in p)))
         /\ 5 \in Onward(p, t) <=> (5 \in t <=> ~ (4 \in p))
         /\ 6 \in Onward(p, t) <=> (6 \in t <=> ~ (5 \in p))
         /\ 7 \in Onward(p, t) <=> (7 \in t <=> ~ (6 \in p))
<1>1. Doubled(p) \in GF256
  BY DoubledBits
<1>2. \A k : k \in Onward(p, t) <=> ~ (k \in Doubled(p) <=> k \in t)
  BY <1>1, AddBits DEF Onward
<1> QED
  BY <1>2, DoubledBits

LEMMA MulOneGF ==
  ASSUME NEW c \in GF256
  PROVE  MulGF256({0}, c) = c
<1> DEFINE f == Terms({0}, c)
<1>1. f \in Digits /\ MulGF256({0}, c) = Chain(f)
  BY ByteConstants, MulIsChain
<1>2. \A k \in 0 .. 7 : /\ 0 \in f[k] <=> k \in c
                        /\ \A j \in 1 .. 7 : ~ (j \in f[k])
  BY DEF Terms
<1> HIDE DEF f
<1>3. PICK p : p \in Steps(f)
  BY <1>1, ChainSteps
<1>4. \A k \in 0 .. 7 : p[k] \in GF256 /\ f[k] \in GF256
  BY <1>1, <1>3 DEF Steps, Digits
<1> DEFINE Shifted(k) == \A j \in 0 .. 7 : j \in p[k] <=> k + j \in c
<1>5. Shifted(7)
  <2>1. \A j \in 1 .. 7 : ~ (7 + j \in c)
    BY DEF GF256
  <2> QED
    BY <1>2, <1>3, <2>1 DEF Steps
<1>6. ASSUME NEW k \in 0 .. 6, Shifted(k + 1) PROVE Shifted(k)
  <2>1. p[k] = Onward(p[k + 1], f[k]) /\ p[k + 1] \in GF256 /\ f[k] \in GF256
    BY <1>3, <1>4 DEF Steps
  <2>2. ~ (7 \in p[k + 1])
    <3>1. ~ (k + 1 + 7 \in c)
      BY DEF GF256
    <3> QED
      BY <1>6, <3>1
  <2>3. /\ 0 \in p[k] <=> 0 \in f[k]
        /\ \A j \in 1 .. 7 : j \in p[k] <=> j - 1 \in p[k + 1]
    <3>1. ~ (1 \in f[k]) /\ ~ (2 \in f[k]) /\ ~ (3 \in f[k]) /\ ~ (4 \in f[k])
          /\ ~ (5 \in f[k]) /\ ~ (6 \in f[k]) /\ ~ (7 \in f[k])
      BY <1>2
    <3>2. /\ 0 \in p[k] <=> 0 \in f[k]
          /\ 1 \in p[k] <=> 0 \in p[k + 1]
          /\ 2 \in p[k] <=> 1 \in p[k + 1]
          /\ 3 \in p[k] <=> 2 \in p[k + 1]
          /\ 4 \in p[k] <=> 3 \in p[k + 1]
          /\ 5 \in p[k] <=> 4 \in p[k + 1]
          /\ 6 \in p[k] <=> 5 \in p[k + 1]
          /\ 7 \in p[k] <=> 6 \in p[k + 1]
      BY <2>1, <2>2, <3>1, OnwardBits
    <3>3. ASSUME NEW j \in 1 .. 7 PROVE j \in p[k] <=> j - 1 \in p[k + 1]
      <4>1. j \in {1, 2, 3, 4, 5, 6, 7}
        OBVIOUS
      <4> QED
        BY <3>2, <4>1
    <3> QED
      BY <3>2, <3>3
  <2>4. ASSUME NEW j \in 1 .. 7 PROVE j - 1 \in p[k + 1] <=> k + j \in c
    <3>1. j - 1 \in 0 .. 7 /\ k + 1 + (j - 1) = k + j
      OBVIOUS
    <3> QED
      BY <1>6, <3>1
  <2>5. 0 \in p[k] <=> k \in c
    BY <1>2, <2>3
  <2>6. \A j \in 0 .. 7 : j = 0 \/ j \in 1 .. 7
    OBVIOUS
  <2> QED
    BY <2>3, <2>4, <2>5, <2>6
<1>7. Shifted(0)
  <2> HIDE DEF Shifted
  <2>1. Shifted(6) /\ Shifted(5) /\ Shifted(4) /\ Shifted(3)
    <3>1. Shifted(6)
      BY <1>5, <1>6
    <3>2. Shifted(5)
      BY <1>6, <3>1
    <3>3. Shifted(4)
      BY <1>6, <3>2
    <3> QED
      BY <1>6, <3>1, <3>2, <3>3
  <2>2. Shifted(2)
    BY <1>6, <2>1
  <2>3. Shifted(1)
    BY <1>6, <2>2
  <2> QED
    BY <1>6, <2>3
<1>8. p[0] \in GF256 /\ p[0] = Chain(f)
  BY <1>3, <1>4 DEF Steps
<1>9. p[0] = c
  BY <1>7, <1>8, ByteEqual
<1> QED
  BY <1>1, <1>8, <1>9

\* One can be either factor, and so can any byte.
LEMMA MulCommutes ==
  ASSUME NEW a \in GF256, NEW c \in GF256
  PROVE  MulGF256(a, c) = MulGF256(c, a)
<1>1. MulGF256(MulGF256({0}, c), a) = MulGF256(MulGF256({0}, a), c)
  BY ByteConstants, MulExchanged
<1> QED
  BY <1>1, MulOneGF

LEMMA MulAssociates ==
  ASSUME NEW a \in GF256, NEW c \in GF256, NEW e \in GF256
  PROVE  MulGF256(MulGF256(a, c), e) = MulGF256(a, MulGF256(c, e))
<1>1. MulGF256(MulGF256(c, a), e) = MulGF256(MulGF256(c, e), a)
  BY MulExchanged
<1>2. MulGF256(c, a) = MulGF256(a, c)
  BY MulCommutes
<1>3. MulGF256(c, e) \in GF256
  BY MulTypeGF
<1>4. MulGF256(MulGF256(c, e), a) = MulGF256(a, MulGF256(c, e))
  BY <1>3, MulCommutes
<1> QED
  BY <1>1, <1>2, <1>4

-----------------------------------------------------------------------------
(* Squares and inverses *)

Square(a) == MulGF256(a, a)

LEMMA SquareType ==
  ASSUME NEW a \in GF256
  PROVE  Square(a) \in GF256
BY MulTypeGF DEF Square

\* Two is zero: the mixed products of a square cancel.
LEMMA SquareAdds ==
  ASSUME NEW a \in GF256, NEW c \in GF256
  PROVE  Square(AddGF256(a, c)) = AddGF256(Square(a), Square(c))
<1> DEFINE s  == AddGF256(a, c)
           aa == MulGF256(a, a)
           ac == MulGF256(a, c)
           cc == MulGF256(c, c)
<1>1. s \in GF256
  BY AddBits
<1>2. aa \in GF256 /\ ac \in GF256 /\ cc \in GF256
  BY MulTypeGF
<1>3. MulGF256(s, a) = AddGF256(aa, MulGF256(c, a))
  BY MulDistributesGF
<1>4. MulGF256(s, c) = AddGF256(ac, cc)
  BY MulDistributesGF
<1>5. MulGF256(c, a) = ac
  BY MulCommutes
<1>6. MulGF256(s, s) = AddGF256(MulGF256(a, s), MulGF256(c, s))
  <2> DEFINE z == s
  <2>1. z \in GF256
    BY <1>1
  <2> HIDE DEF z
  <2>2. MulGF256(AddGF256(a, c), z) = AddGF256(MulGF256(a, z), MulGF256(c, z))
    BY <2>1, MulDistributesGF
  <2> QED
    BY <2>2 DEF z
<1> HIDE DEF s, aa, ac, cc
<1>7. MulGF256(a, s) = AddGF256(aa, ac) /\ MulGF256(c, s) = AddGF256(ac, cc)
  BY <1>1, <1>3, <1>4, <1>5, MulCommutes
<1>8. AddGF256(AddGF256(aa, ac), AddGF256(ac, cc)) = AddGF256(aa, cc)
  BY DEF AddGF256
<1> QED
  BY <1>6, <1>7, <1>8 DEF Square, s, aa, cc

LEMMA SquareDoubled ==
  ASSUME NEW a \in GF256
  PROVE  Square(Doubled(a)) = Doubled(Doubled(Square(a)))
<1> DEFINE d == Doubled(a)
<1>1. d \in GF256
  BY DoubledBits
<1> HIDE DEF d
<1>2. MulGF256(d, d) = Doubled(MulGF256(a, d))
  <2>1. MulGF256(Doubled(a), d) = Doubled(MulGF256(a, d))
    BY <1>1, MulDoubled
  <2> QED
    BY <2>1 DEF d
<1>3. MulGF256(a, d) = Doubled(MulGF256(a, a))
  <2>1. MulGF256(d, a) = Doubled(MulGF256(a, a))
    BY MulDoubled DEF d
  <2> QED
    BY <1>1, <2>1, MulCommutes
<1> QED
  BY <1>2, <1>3 DEF Square, d

LEMMA SquareTimes ==
  ASSUME NEW a \in GF256, NEW c \in GF256
  PROVE  Square(MulGF256(a, c)) = MulGF256(Square(a), Square(c))
<1> DEFINE ac == MulGF256(a, c)
           cc == MulGF256(c, c)
<1>1. ac \in GF256 /\ cc \in GF256
  BY MulTypeGF
<1>2. MulGF256(a, MulGF256(c, ac)) = MulGF256(ac, ac)
  BY <1>1, MulAssociates
<1>3. MulGF256(c, ac) = MulGF256(ac, c)
  BY <1>1, MulCommutes
<1>4. MulGF256(ac, c) = MulGF256(a, cc)
  BY MulAssociates
<1>5. MulGF256(MulGF256(a, a), cc) = MulGF256(a, MulGF256(a, cc))
  BY <1>1, MulAssociates
<1> QED
  BY <1>2, <1>3, <1>4, <1>5 DEF Square

\* The square, bit by bit.
Squared(a) ==
  {k \in 0 .. 7 :
     \/ k = 0 /\ ~ (0 \in a <=> (4 \in a <=> (6 \in a <=> 7 \in a)))
     \/ k = 1 /\ 7 \in a
     \/ k = 2 /\ ~ (1 \in a <=> (4 \in a <=> (5 \in a <=> 6 \in a)))
     \/ k = 3 /\ ~ (4 \in a <=> 6 \in a)
     \/ k = 4 /\ ~ (2 \in a <=> (4 \in a <=> (5 \in a <=> 7 \in a)))
     \/ k = 5 /\ 5 \in a
     \/ k = 6 /\ (3 \in a <=> (5 \in a <=> 6 \in a))
     \/ k = 7 /\ 6 \in a}

LEMMA SquaredBits ==
  ASSUME NEW a \in GF256
  PROVE  /\ Squared(a) \in GF256
         /\ 0 \in Squared(a) <=> ~ (0 \in a <=> (4 \in a <=> (6 \in a <=> 7 \in a)))
         /\ 1 \in Squared(a) <=> 7 \in a
         /\ 2 \in Squared(a) <=> ~ (1 \in a <=> (4 \in a <=> (5 \in a <=> 6 \in a)))
         /\ 3 \in Squared(a) <=> ~ (4 \in a <=> 6 \in a)
         /\ 4 \in Squared(a) <=> ~ (2 \in a <=> (4 \in a <=> (5 \in a <=> 7 \in a)))
         /\ 5 \in Squared(a) <=> 5 \in a
         /\ 6 \in Squared(a) <=> (3 \in a <=> (5 \in a <=> 6 \in a))
         /\ 7 \in Squared(a) <=> 6 \in a
BY DEF Squared, GF256

LEMMA SquaredAdds ==
  ASSUME NEW a \in GF256, NEW c \in GF256
  PROVE  Squared(AddGF256(a, c)) = AddGF256(Squared(a), Squared(c))
<1> DEFINE s == AddGF256(a, c)
           d == Squared(s)
           u == Squared(a)
           v == Squared(c)
           e == AddGF256(u, v)
<1>1. s \in GF256 /\ \A k : k \in s <=> ~ (k \in a <=> k \in c)
  BY AddBits
<1>2. u \in GF256 /\ v \in GF256
  BY SquaredBits
<1>3. e \in GF256 /\ \A k : k \in e <=> ~ (k \in u <=> k \in v)
  BY <1>2, AddBits
<1> HIDE DEF s, e
<1>4. d \in GF256
  BY <1>1, SquaredBits
<1>5. /\ 0 \in d <=> 0 \in e
      /\ 1 \in d <=> 1 \in e
      /\ 2 \in d <=> 2 \in e
      /\ 3 \in d <=> 3 \in e
      /\ 4 \in d <=> 4 \in e
      /\ 5 \in d <=> 5 \in e
      /\ 6 \in d <=> 6 \in e
      /\ 7 \in d <=> 7 \in e
  BY <1>1, <1>3, SquaredBits
<1> HIDE DEF d, u, v
<1>6. d = e
  BY <1>3, <1>4, <1>5, ByteEqual
<1> QED
  BY <1>6 DEF d, e, s, u, v

LEMMA SquaredDoubled ==
  ASSUME NEW a \in GF256
  PROVE  Squared(Doubled(a)) = Doubled(Doubled(Squared(a)))
<1> DEFINE d == Doubled(a)
           l == Squared(d)
           q == Squared(a)
           h == Doubled(q)
           r == Doubled(h)
<1>1. d \in GF256
  BY DoubledBits
<1>2. q \in GF256
  BY SquaredBits
<1> HIDE DEF q
<1>3. h \in GF256
  BY <1>2, DoubledBits
<1> HIDE DEF h
<1>4. r \in GF256
  BY <1>3, DoubledBits
<1> HIDE DEF d
<1>5. l \in GF256
  BY <1>1, SquaredBits
<1>6. /\ 0 \in r <=> 6 \in q
      /\ 1 \in r <=> 7 \in q
      /\ 2 \in r <=> ~ (0 \in q <=> 6 \in q)
      /\ 3 \in r <=> (1 \in q <=> (6 \in q <=> 7 \in q))
      /\ 4 \in r <=> ~ (2 \in q <=> ~ (6 \in q <=> 7 \in q))
      /\ 5 \in r <=> ~ (3 \in q <=> 7 \in q)
      /\ 6 \in r <=> 4 \in q
      /\ 7 \in r <=> 5 \in q
  <2>1. /\ 0 \in h <=> 7 \in q
        /\ 1 \in h <=> 0 \in q
        /\ 2 \in h <=> ~ (1 \in q <=> 7 \in q)
        /\ 3 \in h <=> ~ (2 \in q <=> 7 \in q)
        /\ 4 \in h <=> ~ (3 \in q <=> 7 \in q)
        /\ 5 \in h <=> 4 \in q
        /\ 6 \in h <=> 5 \in q
        /\ 7 \in h <=> 6 \in q
    BY <1>2, DoubledBits DEF h
  <2> QED
    BY <1>3, <2>1, DoubledBits
<1>7. /\ 0 \in l <=> 0 \in r
      /\ 1 \in l <=> 1 \in r
      /\ 2 \in l <=> 2 \in r
      /\ 3 \in l <=> 3 \in r
      /\ 4 \in l <=> 4 \in r
      /\ 5 \in l <=> 5 \in r
      /\ 6 \in l <=> 6 \in r
      /\ 7 \in l <=> 7 \in r
  <2>1. /\ 0 \in d <=> 7 \in a
        /\ 1 \in d <=> 0 \in a
        /\ 2 \in d <=> ~ (1 \in a <=> 7 \in a)
        /\ 3 \in d <=> ~ (2 \in a <=> 7 \in a)
        /\ 4 \in d <=> ~ (3 \in a <=> 7 \in a)
        /\ 5 \in d <=> 4 \in a
        /\ 6 \in d <=> 5 \in a
        /\ 7 \in d <=> 6 \in a
    BY DoubledBits DEF d
  <2>2. /\ 0 \in l <=> ~ (0 \in d <=> (4 \in d <=> (6 \in d <=> 7 \in d)))
        /\ 1 \in l <=> 7 \in d
        /\ 2 \in l <=> ~ (1 \in d <=> (4 \in d <=> (5 \in d <=> 6 \in d)))
        /\ 3 \in l <=> ~ (4 \in d <=> 6 \in d)
        /\ 4 \in l <=> ~ (2 \in d <=> (4 \in d <=> (5 \in d <=> 7 \in d)))
        /\ 5 \in l <=> 5 \in d
        /\ 6 \in l <=> (3 \in d <=> (5 \in d <=> 6 \in d))
        /\ 7 \in l <=> 6 \in d
    BY <1>1, SquaredBits
  <2>3. /\ 0 \in q <=> ~ (0 \in a <=> (4 \in a <=> (6 \in a <=> 7 \in a)))
        /\ 1 \in q <=> 7 \in a
        /\ 2 \in q <=> ~ (1 \in a <=> (4 \in a <=> (5 \in a <=> 6 \in a)))
        /\ 3 \in q <=> ~ (4 \in a <=> 6 \in a)
        /\ 4 \in q <=> ~ (2 \in a <=> (4 \in a <=> (5 \in a <=> 7 \in a)))
        /\ 5 \in q <=> 5 \in a
        /\ 6 \in q <=> (3 \in a <=> (5 \in a <=> 6 \in a))
        /\ 7 \in q <=> 6 \in a
    BY SquaredBits DEF q
  <2> HIDE DEF l, r
  <2> QED
    BY <1>6, <2>1, <2>2, <2>3
<1> HIDE DEF l, r
<1>8. l = r
  BY <1>4, <1>5, <1>7, ByteEqual
<1> QED
  BY <1>8 DEF l, d, r, h, q

\* {} and {0} are their own squares.
LEMMA SquaredConstants ==
  /\ Square({}) = {} /\ Square({0}) = {0}
  /\ Squared({}) = {} /\ Squared({0}) = {0}
<1>1. Square({}) = {}
  BY ByteConstants, MulZeroGF DEF Square
<1>2. Square({0}) = {0}
  BY ByteConstants, MulOneGF DEF Square
<1>3. Squared({}) = {}
  BY DEF Squared
<1>4. Squared({0}) = {0}
  BY DEF Squared
<1> QED
  BY <1>1, <1>2, <1>3, <1>4

\* Every byte is a chain of zeros and ones, through which both go alike.
LEMMA SquareIsSquared ==
  ASSUME NEW a \in GF256
  PROVE  Square(a) = Squared(a)
<1> DEFINE f == Terms({0}, a)
<1>1. f \in Digits /\ Chain(f) = a
  BY ByteConstants, MulIsChain, MulOneGF
<1>2. \A k \in 0 .. 7 : f[k] = {} \/ f[k] = {0}
  BY DEF Terms
<1> HIDE DEF f
<1>3. PICK p : p \in Steps(f)
  BY <1>1, ChainSteps
<1> DEFINE Same(k) == Square(p[k]) = Squared(p[k])
<1>4. \A k \in 0 .. 7 : Square(f[k]) = Squared(f[k])
  BY <1>2, SquaredConstants
<1>5. Same(7)
  BY <1>3, <1>4 DEF Steps
<1>6. ASSUME NEW k \in 0 .. 6, Same(k + 1) PROVE Same(k)
  <2> DEFINE u == p[k + 1]
             t == f[k]
  <2>1. p[k] = AddGF256(Doubled(u), t)
    BY <1>3 DEF Steps, Onward
  <2>2. u \in GF256 /\ t \in GF256
    BY <1>1, <1>3 DEF Steps, Digits
  <2>3. Square(u) = Squared(u) /\ Square(t) = Squared(t)
    BY <1>4, <1>6
  <2> HIDE DEF u, t
  <2>4. Doubled(u) \in GF256
    BY <2>2, DoubledBits
  <2>5. /\ Square(p[k]) = AddGF256(Square(Doubled(u)), Square(t))
        /\ Squared(p[k]) = AddGF256(Squared(Doubled(u)), Squared(t))
    BY <2>1, <2>2, <2>4, SquareAdds, SquaredAdds
  <2>6. Square(Doubled(u)) = Squared(Doubled(u))
    BY <2>2, <2>3, SquareDoubled, SquaredDoubled
  <2> QED
    BY <2>3, <2>5, <2>6
<1>7. Same(0)
  <2> HIDE DEF Same
  <2>1. Same(6) /\ Same(5) /\ Same(4) /\ Same(3)
    <3>1. Same(6)
      BY <1>5, <1>6
    <3>2. Same(5)
      BY <1>6, <3>1
    <3>3. Same(4)
      BY <1>6, <3>2
    <3> QED
      BY <1>6, <3>1, <3>2, <3>3
  <2>2. Same(2)
    BY <1>6, <2>1
  <2>3. Same(1)
    BY <1>6, <2>2
  <2> QED
    BY <1>6, <2>3
<1> QED
  BY <1>1, <1>3, <1>7 DEF Steps

\* Only 0 and 1 are their own squares.
LEMMA OwnSquare ==
  ASSUME NEW a \in GF256, Square(a) = a
  PROVE  a = {} \/ a = {0}
<1> DEFINE q == Squared(a)
<1>1. q = a
  BY SquareIsSquared
<1>2. /\ 0 \in q <=> ~ (0 \in a <=> (4 \in a <=> (6 \in a <=> 7 \in a)))
      /\ 1 \in q <=> 7 \in a
      /\ 2 \in q <=> ~ (1 \in a <=> (4 \in a <=> (5 \in a <=> 6 \in a)))
      /\ 3 \in q <=> ~ (4 \in a <=> 6 \in a)
      /\ 4 \in q <=> ~ (2 \in a <=> (4 \in a <=> (5 \in a <=> 7 \in a)))
      /\ 5 \in q <=> 5 \in a
      /\ 6 \in q <=> (3 \in a <=> (5 \in a <=> 6 \in a))
      /\ 7 \in q <=> 6 \in a
  BY SquaredBits
<1> HIDE DEF q
<1>3. /\ ~ (1 \in a) /\ ~ (2 \in a) /\ ~ (3 \in a) /\ ~ (4 \in a)
      /\ ~ (5 \in a) /\ ~ (6 \in a) /\ ~ (7 \in a)
  BY <1>1, <1>2
<1>4. CASE 0 \in a
  BY <1>3, <1>4, ByteConstants, ByteEqual
<1>5. CASE ~ (0 \in a)
  BY <1>3, <1>5, ByteConstants, ByteEqual
<1> QED
  BY <1>4, <1>5

\* Squared eight times, every byte is back.
LEMMA EightSquares ==
  ASSUME NEW a \in GF256, NEW s \in [0 .. 8 -> GF256], s[0] = a,
         \A k \in 0 .. 7 : s[k + 1] = Square(s[k])
  PROVE  s[8] = a
<1>1. ASSUME NEW k \in 0 .. 7
      PROVE  /\ 0 \in s[k + 1] <=> ~ (0 \in s[k] <=> (4 \in s[k] <=> (6 \in s[k] <=> 7 \in s[k])))
             /\ 1 \in s[k + 1] <=> 7 \in s[k]
             /\ 2 \in s[k + 1] <=> ~ (1 \in s[k] <=> (4 \in s[k] <=> (5 \in s[k] <=> 6 \in s[k])))
             /\ 3 \in s[k + 1] <=> ~ (4 \in s[k] <=> 6 \in s[k])
             /\ 4 \in s[k + 1] <=> ~ (2 \in s[k] <=> (4 \in s[k] <=> (5 \in s[k] <=> 7 \in s[k])))
             /\ 5 \in s[k + 1] <=> 5 \in s[k]
             /\ 6 \in s[k + 1] <=> (3 \in s[k] <=> (5 \in s[k] <=> 6 \in s[k]))
             /\ 7 \in s[k + 1] <=> 6 \in s[k]
  <2>1. s[k] \in GF256 /\ s[k + 1] = Squared(s[k])
    BY SquareIsSquared
  <2> QED
    BY <2>1, SquaredBits
<1>2. /\ 0 \in s[2] <=> ~ (0 \in s[0] <=> (2 \in s[0] <=> (3 \in s[0] <=> 6 \in s[0])))
      /\ 1 \in s[2] <=> 6 \in s[0]
      /\ 2 \in s[2] <=> (2 \in s[0] <=> (3 \in s[0] <=> (4 \in s[0] <=> (5 \in s[0] <=> 6 \in s[0]))))
      /\ 3 \in s[2] <=> (2 \in s[0] <=> (3 \in s[0] <=> (4 \in s[0] <=> (6 \in s[0] <=> 7 \in s[0]))))
      /\ 4 \in s[2] <=> ~ (1 \in s[0] <=> (2 \in s[0] <=> (5 \in s[0] <=> 7 \in s[0])))
      /\ 5 \in s[2] <=> 5 \in s[0]
      /\ 6 \in s[2] <=> ~ (3 \in s[0] <=> 4 \in s[0])
      /\ 7 \in s[2] <=> (3 \in s[0] <=> (5 \in s[0] <=> 6 \in s[0]))
  BY <1>1
<1>3. /\ 0 \in s[4] <=> ~ (0 \in s[2] <=> (2 \in s[2] <=> (3 \in s[2] <=> 6 \in s[2])))
      /\ 1 \in s[4] <=> 6 \in s[2]
      /\ 2 \in s[4] <=> (2 \in s[2] <=> (3 \in s[2] <=> (4 \in s[2] <=> (5 \in s[2] <=> 6 \in s[2]))))
      /\ 3 \in s[4] <=> (2 \in s[2] <=> (3 \in s[2] <=> (4 \in s[2] <=> (6 \in s[2] <=> 7 \in s[2]))))
      /\ 4 \in s[4] <=> ~ (1 \in s[2] <=> (2 \in s[2] <=> (5 \in s[2] <=> 7 \in s[2])))
      /\ 5 \in s[4] <=> 5 \in s[2]
      /\ 6 \in s[4] <=> ~ (3 \in s[2] <=> 4 \in s[2])
      /\ 7 \in s[4] <=> (3 \in s[2] <=> (5 \in s[2] <=> 6 \in s[2]))
  BY <1>1
<1>4. /\ 0 \in s[6] <=> ~ (0 \in s[4] <=> (2 \in s[4] <=> (3 \in s[4] <=> 6 \in s[4])))
      /\ 1 \in s[6] <=> 6 \in s[4]
      /\ 2 \in s[6] <=> (2 \in s[4] <=> (3 \in s[4] <=> (4 \in s[4] <=> (5 \in s[4] <=> 6 \in s[4]))))
      /\ 3 \in s[6] <=> (2 \in s[4] <=> (3 \in s[4] <=> (4 \in s[4] <=> (6 \in s[4] <=> 7 \in s[4]))))
      /\ 4 \in s[6] <=> ~ (1 \in s[4] <=> (2 \in s[4] <=> (5 \in s[4] <=> 7 \in s[4])))
      /\ 5 \in s[6] <=> 5 \in s[4]
      /\ 6 \in s[6] <=> ~ (3 \in s[4] <=> 4 \in s[4])
      /\ 7 \in s[6] <=> (3 \in s[4] <=> (5 \in s[4] <=> 6 \in s[4]))
  BY <1>1
<1>5. /\ 0 \in s[8] <=> ~ (0 \in s[6] <=> (2 \in s[6] <=> (3 \in s[6] <=> 6 \in s[6])))
      /\ 1 \in s[8] <=> 6 \in s[6]
      /\ 2 \in s[8] <=> (2 \in s[6] <=> (3 \in s[6] <=> (4 \in s[6] <=> (5 \in s[6] <=> 6 \in s[6]))))
      /\ 3 \in s[8] <=> (2 \in s[6] <=> (3 \in s[6] <=> (4 \in s[6] <=> (6 \in s[6] <=> 7 \in s[6]))))
      /\ 4 \in s[8] <=> ~ (1 \in s[6] <=> (2 \in s[6] <=> (5 \in s[6] <=> 7 \in s[6])))
      /\ 5 \in s[8] <=> 5 \in s[6]
      /\ 6 \in s[8] <=> ~ (3 \in s[6] <=> 4 \in s[6])
      /\ 7 \in s[8] <=> (3 \in s[6] <=> (5 \in s[6] <=> 6 \in s[6]))
  BY <1>1
<1>6. /\ 0 \in s[4] <=> ~ (0 \in s[0] <=> (2 \in s[0] <=> (4 \in s[0] <=> (5 \in s[0] <=> (6 \in s[0] <=> 7 \in s[0])))))
      /\ 1 \in s[4] <=> ~ (3 \in s[0] <=> 4 \in s[0])
      /\ 2 \in s[4] <=> (1 \in s[0] <=> (2 \in s[0] <=> (3 \in s[0] <=> (4 \in s[0] <=> 5 \in s[0]))))
      /\ 3 \in s[4] <=> (1 \in s[0] <=> (2 \in s[0] <=> (4 \in s[0] <=> (5 \in s[0] <=> 6 \in s[0]))))
      /\ 4 \in s[4] <=> ~ (2 \in s[0] <=> (4 \in s[0] <=> (5 \in s[0] <=> 6 \in s[0])))
      /\ 5 \in s[4] <=> 5 \in s[0]
      /\ 6 \in s[4] <=> (1 \in s[0] <=> (3 \in s[0] <=> (4 \in s[0] <=> (5 \in s[0] <=> 6 \in s[0]))))
      /\ 7 \in s[4] <=> ~ (2 \in s[0] <=> (5 \in s[0] <=> (6 \in s[0] <=> 7 \in s[0])))
  BY <1>2, <1>3
<1>7. /\ 0 \in s[8] <=> ~ (0 \in s[4] <=> (2 \in s[4] <=> (4 \in s[4] <=> (5 \in s[4] <=> (6 \in s[4] <=> 7 \in s[4])))))
      /\ 1 \in s[8] <=> ~ (3 \in s[4] <=> 4 \in s[4])
      /\ 2 \in s[8] <=> (1 \in s[4] <=> (2 \in s[4] <=> (3 \in s[4] <=> (4 \in s[4] <=> 5 \in s[4]))))
      /\ 3 \in s[8] <=> (1 \in s[4] <=> (2 \in s[4] <=> (4 \in s[4] <=> (5 \in s[4] <=> 6 \in s[4]))))
      /\ 4 \in s[8] <=> ~ (2 \in s[4] <=> (4 \in s[4] <=> (5 \in s[4] <=> 6 \in s[4])))
      /\ 5 \in s[8] <=> 5 \in s[4]
      /\ 6 \in s[8] <=> (1 \in s[4] <=> (3 \in s[4] <=> (4 \in s[4] <=> (5 \in s[4] <=> 6 \in s[4]))))
      /\ 7 \in s[8] <=> ~ (2 \in s[4] <=> (5 \in s[4] <=> (6 \in s[4] <=> 7 \in s[4])))
  BY <1>4, <1>5
<1>8. s[8] \in GF256
  OBVIOUS
<1>9. s[8] = s[0]
  BY <1>6, <1>7, <1>8, ByteEqual
<1> QED
  BY <1>9

\* s and w are a step of collecting the squares of a, from the seventh down: w
\* is their product so far, and s the last of them.
Collects(a, s, w) == MulGF256(s, Square(w)) = MulGF256(a, w) /\ MulGF256(s, w) = a

LEMMA CollectFirst ==
  ASSUME NEW a \in GF256, NEW s \in GF256, Square(s) = a
  PROVE  Collects(a, s, s)
<1>1. MulGF256(s, a) = MulGF256(a, s)
  BY MulCommutes
<1> QED
  BY <1>1 DEF Collects, Square

LEMMA CollectNext ==
  ASSUME NEW a \in GF256, NEW s \in GF256, NEW w \in GF256, Collects(a, Square(s), w)
  PROVE  MulGF256(s, w) \in GF256 /\ Collects(a, s, MulGF256(s, w))
<1> DEFINE t == Square(s)
           v == Square(w)
           m == MulGF256(s, w)
<1>1. t \in GF256 /\ v \in GF256
  BY SquareType
<1>2. m \in GF256
  BY MulTypeGF
<1>3. MulGF256(t, v) = MulGF256(a, w) /\ MulGF256(t, w) = a
  BY DEF Collects
<1>4. Square(m) = MulGF256(t, v)
  BY SquareTimes
<1>5. MulGF256(s, MulGF256(a, w)) = MulGF256(a, m)
  <2>1. MulGF256(s, MulGF256(a, w)) = MulGF256(MulGF256(s, a), w)
    BY MulAssociates
  <2>2. MulGF256(a, MulGF256(s, w)) = MulGF256(MulGF256(a, s), w)
    BY MulAssociates
  <2>3. MulGF256(s, a) = MulGF256(a, s)
    BY MulCommutes
  <2> QED
    BY <2>1, <2>2, <2>3
<1>6. MulGF256(s, m) = MulGF256(t, w)
  BY MulAssociates DEF Square
<1> HIDE DEF t, v, m
<1>7. Collects(a, s, m)
  BY <1>3, <1>4, <1>5, <1>6 DEF Collects
<1> QED
  BY <1>2, <1>7 DEF m

\* The product of all the squares of a is its own square, so it is 1, and a is
\* one of its factors.
LEMMA InverseExists ==
  ASSUME NEW a \in GF256, a # {}
  PROVE  \E c \in GF256 : MulGF256(a, c) = {0}
<1> DEFINE s1 == Square(a)
           s2 == Square(s1)
           s3 == Square(s2)
           s4 == Square(s3)
           s5 == Square(s4)
           s6 == Square(s5)
           s7 == Square(s6)
           s8 == Square(s7)
<1>1. s1 \in GF256
  BY SquareType
<1> HIDE DEF s1
<1>2. s2 \in GF256
  BY <1>1, SquareType
<1> HIDE DEF s2
<1>3. s3 \in GF256
  BY <1>2, SquareType
<1> HIDE DEF s3
<1>4. s4 \in GF256
  BY <1>3, SquareType
<1> HIDE DEF s4
<1>5. s5 \in GF256
  BY <1>4, SquareType
<1> HIDE DEF s5
<1>6. s6 \in GF256
  BY <1>5, SquareType
<1> HIDE DEF s6
<1>7. s7 \in GF256
  BY <1>6, SquareType
<1> HIDE DEF s7
<1>8. s8 \in GF256
  BY <1>7, SquareType
<1> HIDE DEF s8
<1>9. s8 = a
  <2> DEFINE s == [k \in 0 .. 8 |-> IF k = 0 THEN a ELSE
               IF k = 1 THEN s1 ELSE
               IF k = 2 THEN s2 ELSE
               IF k = 3 THEN s3 ELSE
               IF k = 4 THEN s4 ELSE
               IF k = 5 THEN s5 ELSE
               IF k = 6 THEN s6 ELSE
               IF k = 7 THEN s7 ELSE s8]
  <2>1. s \in [0 .. 8 -> GF256]
    BY <1>1, <1>2, <1>3, <1>4, <1>5, <1>6, <1>7, <1>8
  <2>2. /\ s[0] = a /\ s[1] = s1 /\ s[2] = s2 /\ s[3] = s3 /\ s[4] = s4
        /\ s[5] = s5 /\ s[6] = s6 /\ s[7] = s7 /\ s[8] = s8
    OBVIOUS
  <2> HIDE DEF s
  <2>3. ASSUME NEW k \in 0 .. 7 PROVE s[k + 1] = Square(s[k])
    <3>1. k \in {0, 1, 2, 3, 4, 5, 6, 7}
      OBVIOUS
    <3> QED
      BY <2>2, <3>1 DEF s1, s2, s3, s4, s5, s6, s7, s8
  <2> QED
    BY <2>1, <2>2, <2>3, EightSquares
<1>10. Collects(a, s7, s7)
  BY <1>7, <1>9, CollectFirst DEF s8
<1>11. PICK w \in GF256 : Collects(a, s6, w)
  BY <1>6, <1>7, <1>10, CollectNext DEF s7
<1>12. PICK w5 \in GF256 : Collects(a, s5, w5)
  BY <1>5, <1>11, CollectNext DEF s6
<1>13. PICK w4 \in GF256 : Collects(a, s4, w4)
  BY <1>4, <1>12, CollectNext DEF s5
<1>14. PICK w3 \in GF256 : Collects(a, s3, w3)
  BY <1>3, <1>13, CollectNext DEF s4
<1>15. PICK w2 \in GF256 : Collects(a, s2, w2)
  BY <1>2, <1>14, CollectNext DEF s3
<1>16. PICK w1 \in GF256 : Collects(a, s1, w1)
  BY <1>1, <1>15, CollectNext DEF s2
<1> DEFINE e == MulGF256(a, w1)
<1>17. e \in GF256
  BY MulTypeGF
<1>18. Square(e) = e
  <2>1. Square(e) = MulGF256(s1, Square(w1))
    BY SquareTimes DEF s1
  <2> QED
    BY <1>16, <2>1 DEF Collects
<1>19. MulGF256(a, e) = a
  <2>1. MulGF256(a, e) = MulGF256(s1, w1)
    BY MulAssociates DEF s1, Square
  <2> QED
    BY <1>16, <2>1 DEF Collects
<1> HIDE DEF e
<1>20. e # {}
  <2>1. MulGF256(a, {}) = {}
    BY ByteConstants, MulZeroGF, MulCommutes
  <2> QED
    BY <1>19, <2>1
<1>21. e = {0}
  BY <1>17, <1>18, <1>20, OwnSquare
<1> QED
  BY <1>21 DEF e

LEMMA InverseGF ==
  ASSUME NEW a \in GF256
  PROVE  /\ InvGF256(a) \in GF256
         /\ a # {} => MulGF256(a, InvGF256(a)) = {0}
         /\ a = {} => InvGF256(a) = {}
<1>1. CASE a = {}
  BY <1>1, ByteConstants DEF InvGF256
<1>2. CASE a # {}
  <2>1. \E c \in GF256 : MulGF256(a, c) = {0}
    BY <1>2, InverseExists
  <2> QED
    BY <1>2, <2>1 DEF InvGF256
<1> QED
  BY <1>1, <1>2

-----------------------------------------------------------------------------
\* The bytes with the tables of gf256_tables.h are a field: what every other
\* theorem about symbols assumes is so of the symbols of the program, where
\* addition is the exclusive or, the row of 2 of gf256_mul_table is Doubled, and
\* gf256_inv_table is InvGF256.
THEOREM TablesFormField == Table!FieldAssumption
<1>1. {} \in GF256 /\ {0} \in GF256 /\ {0} # {}
  BY ByteConstants
<1>2. ASSUME NEW a \in GF256
      PROVE  /\ AddGF256(a, a) = {} /\ AddGF256({}, a) = a /\ AddGF256(a, {}) = a
             /\ MulGF256(a, {0}) = a /\ MulGF256({0}, a) = a
             /\ MulGF256(a, {}) = {} /\ MulGF256({}, a) = {}
             /\ InvGF256(a) \in GF256
             /\ a # {} => MulGF256(a, InvGF256(a)) = {0}
  <2>1. AddGF256(a, a) = {} /\ AddGF256({}, a) = a /\ AddGF256(a, {}) = a
    BY AddLaws
  <2>2. MulGF256({0}, a) = a /\ MulGF256({}, a) = {}
    BY MulOneGF, MulZeroGF
  <2>3. MulGF256(a, {0}) = MulGF256({0}, a) /\ MulGF256(a, {}) = MulGF256({}, a)
    BY <1>1, MulCommutes
  <2>4. InvGF256(a) \in GF256 /\ (a # {} => MulGF256(a, InvGF256(a)) = {0})
    BY InverseGF
  <2> QED
    BY <2>1, <2>2, <2>3, <2>4
<1>3. InvGF256({}) = {}
  BY DEF InvGF256
<1>4. ASSUME NEW a \in GF256, NEW c \in GF256
      PROVE  /\ AddGF256(a, c) \in GF256 /\ MulGF256(a, c) \in GF256
             /\ AddGF256(a, c) = AddGF256(c, a) /\ MulGF256(a, c) = MulGF256(c, a)
  <2>1. AddGF256(a, c) \in GF256 /\ MulGF256(a, c) \in GF256
    BY AddBits, MulTypeGF
  <2>2. AddGF256(a, c) = AddGF256(c, a) /\ MulGF256(a, c) = MulGF256(c, a)
    BY AddLaws, MulCommutes
  <2> QED
    BY <2>1, <2>2
<1>5. ASSUME NEW a \in GF256, NEW c \in GF256, NEW d \in GF256
      PROVE  /\ AddGF256(AddGF256(a, c), d) = AddGF256(a, AddGF256(c, d))
             /\ MulGF256(MulGF256(a, c), d) = MulGF256(a, MulGF256(c, d))
             /\ MulGF256(AddGF256(a, c), d) = AddGF256(MulGF256(a, d), MulGF256(c, d))
  <2>1. AddGF256(AddGF256(a, c), d) = AddGF256(a, AddGF256(c, d))
    BY AddLaws
  <2>2. MulGF256(MulGF256(a, c), d) = MulGF256(a, MulGF256(c, d))
    BY MulAssociates
  <2>3. MulGF256(AddGF256(a, c), d) = AddGF256(MulGF256(a, d), MulGF256(c, d))
    BY MulDistributesGF
  <2> QED
    BY <2>1, <2>2, <2>3
<1> QED
  BY <1>1, <1>2, <1>3, <1>4, <1>5 DEF Table!FieldAssumption
=============================================================================
