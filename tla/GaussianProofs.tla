--------------------------- MODULE GaussianProofs ---------------------------
(***************************************************************************)
(* Proofs about Gaussian for every number of equations and every field of  *)
(* characteristic 2.                                                       *)
(*                                                                         *)
(* While no row was multiplied by zero the matrix goes through the shapes  *)
(* of the textbook algorithm: the forward reduction clears the columns     *)
(* below the pivots, the backward reduction leaves unit rows behind it.    *)
(* The lost symbols solve every equation all along, so a unit row gives    *)
(* its symbol.  A row that was multiplied by zero is a row of zeros until  *)
(* it is normalised.                                                       *)
(***************************************************************************)
EXTENDS Gaussian, EliminationProofs, TLAPS

\* Where the loops are.
LoopInv ==
  /\ phase = "forward" => j > i
  /\ phase = "allocate" => i = N - 1
  /\ phase = "backward" => j < i

InForward == phase \in {"forward", "allocate", "failed"}

\* The lost symbols solve every equation.
Consistent == \A r \in Idx : Lhs(A[r], x) = B[r]

KeepInv == InForward \/ zeroed = {} => Consistent

\* The columns before i are clear below the diagonal, column i down to row j.
ColumnsInv ==
  zeroed = {} /\ phase = "forward" =>
    /\ \A r, c \in Idx : c < i /\ c < r => A[r][c] = Zero
    /\ \A r \in Idx : i < r /\ r < j => A[r][i] = Zero

TriangleInv ==
  zeroed = {} /\ phase \in {"allocate", "backward"} =>
    \A r, c \in Idx : c < r => A[r][c] = Zero

\* The rows after i are unit rows, the columns after i are clear above the
\* diagonal, and column i is clear up to row j unless its pivot is zero.
UnitsInv ==
  zeroed = {} /\ phase = "backward" =>
    /\ \A r \in Idx : r > i => A[r] = Unit(r)
    /\ \A r, c \in Idx : c > i /\ r <= i => A[r][c] = Zero
    /\ A[i][i] # Zero => \A r \in Idx : j < r /\ r < i => A[r][i] = Zero

DoneInv == zeroed = {} /\ phase = "done" => \A r \in Idx : A[r] = Unit(r)

ZeroInv ==
  \A r \in zeroed :
    /\ B[r] = Zero
    /\ phase \in {"forward", "allocate"} => r <= i
    /\ phase # "done" /\ r <= i => \A c \in Idx : A[r][c] = Zero

GaussInv ==
  /\ TypeOK /\ LoopInv /\ KeepInv /\ ColumnsInv /\ TriangleInv /\ UnitsInv
  /\ DoneInv /\ ZeroInv

-----------------------------------------------------------------------------
(* The field and its vectors *)

\* The left side is linear in the coefficients, and of a unit row it is an unknown.
LhsLaws ==
  \A y \in Row :
    /\ \A r \in Idx : Lhs(Unit(r), y) = y[r]
    /\ \A row \in Row :
         /\ Lhs(row, y) \in Elem
         /\ \A f \in Elem : Lhs(Scale(f, row), y) = Mul(Lhs(row, y), f)
         /\ \A add \in Row : Lhs(Plus(row, add), y) = Add(Lhs(row, y), Lhs(add, y))

LEMMA LhsObeysLaws == LhsLaws
<1> SUFFICES ASSUME NEW y \in Row
             PROVE  /\ \A r \in Idx : Lhs(Unit(r), y) = y[r]
                    /\ \A row \in Row :
                         /\ Lhs(row, y) \in Elem
                         /\ \A f \in Elem : Lhs(Scale(f, row), y) = Mul(Lhs(row, y), f)
                         /\ \A add \in Row : Lhs(Plus(row, add), y) = Add(Lhs(row, y), Lhs(add, y))
  BY DEF LhsLaws
<1> DEFINE L == LeftSide(N, y)
<1>1. N \in Nat /\ Indices(N) = Idx /\ Vector(N) = Row
  BY GaussianAssumption DEF SizeAssumption, Indices, Vector, Idx, Row
<1>2. \A row \in Row : L[row] = Lhs(row, y)
  BY <1>1 DEF LeftSide, Lhs
<1>3. Linear(N, L)
  BY <1>1, LeftSideLinear
<1>4. ASSUME NEW r \in Idx PROVE Unit(r) \in Row /\ L[Unit(r)] = y[r]
  <2>1. UnitVector(N, r) = Unit(r)
    BY <1>1 DEF UnitVector, Unit
  <2>2. UnitVector(N, r) \in Row
    BY <1>1, ByteFieldAssumption DEF UnitVector, Row, FieldAssumption
  <2> QED
    BY <1>1, <2>1, <2>2, LeftSideOfUnit
<1>5. \A row \in Row : \A f \in Elem : Scale(f, row) \in Row
  BY <1>1, RowTypes
<1>6. \A row, add \in Row : Plus(row, add) \in Row
  BY <1>1, ZeroType, RowTypes
<1> HIDE DEF L
<1>7. \A r \in Idx : Lhs(Unit(r), y) = y[r]
  BY <1>2, <1>4
<1>8. ASSUME NEW row \in Row
      PROVE  /\ Lhs(row, y) \in Elem
             /\ \A f \in Elem : Lhs(Scale(f, row), y) = Mul(Lhs(row, y), f)
             /\ \A add \in Row : Lhs(Plus(row, add), y) = Add(Lhs(row, y), Lhs(add, y))
  <2>1. L[row] \in Elem
    BY <1>1, <1>3 DEF Linear
  <2>2. \A f \in Elem : L[Scale(f, row)] = Mul(L[row], f)
    BY <1>1, <1>3 DEF Linear
  <2>3. \A add \in Row : L[Plus(row, add)] = Add(L[row], L[add])
    BY <1>1, <1>3 DEF Linear
  <2> QED
    BY <1>2, <1>5, <1>6, <2>1, <2>2, <2>3
<1> QED
  BY <1>7, <1>8

LEMMA FieldFacts == SizeAssumption /\ FieldAssumption /\ LhsLaws
BY GaussianAssumption, ByteFieldAssumption, LhsObeysLaws

LEMMA ZeroTerms ==
  ASSUME NEW a \in Elem
  PROVE  /\ Mul(Zero, a) = Zero /\ Mul(a, Zero) = Zero
         /\ Add(a, Zero) = a /\ Add(Zero, a) = a /\ Add(a, a) = Zero
BY FieldFacts DEF FieldAssumption

LEMMA ScaleType ==
  ASSUME NEW f \in Elem, NEW row \in Row
  PROVE  /\ Scale(f, row) \in Row
         /\ \A c \in Idx : Scale(f, row)[c] = Mul(row[c], f)
BY FieldFacts DEF Scale, Row, FieldAssumption

LEMMA PlusType ==
  ASSUME NEW row \in Row, NEW add \in Row
  PROVE  /\ Plus(row, add) \in Row
         /\ \A c \in Idx : Plus(row, add)[c] = Add(row[c], add[c])
BY FieldFacts DEF Plus, Row, FieldAssumption

LEMMA UnitType ==
  ASSUME NEW r \in Idx
  PROVE  Unit(r) \in Row
BY FieldFacts DEF Unit, Row, FieldAssumption

\* The factor that clears q under the pivot p turns p into q.
LEMMA FactorRestores ==
  ASSUME NEW p \in Elem, NEW q \in Elem, p # Zero
  PROVE  Mul(p, Mul(q, Inv(p))) = q
<1>1. Inv(p) \in Elem /\ Mul(q, Inv(p)) \in Elem
  BY FieldFacts DEF FieldAssumption
<1>2. Mul(p, Mul(q, Inv(p))) = Mul(Mul(q, Inv(p)), p)
  BY <1>1, FieldFacts DEF FieldAssumption
<1>3. Mul(Mul(q, Inv(p)), p) = Mul(q, Mul(Inv(p), p))
  BY <1>1, FieldFacts DEF FieldAssumption
<1>4. Mul(Inv(p), p) = One
  BY <1>1, FieldFacts DEF FieldAssumption
<1>5. Mul(q, One) = q
  BY FieldFacts DEF FieldAssumption
<1> QED
  BY <1>2, <1>3, <1>4, <1>5

LEMMA PivotRowTypes ==
  ASSUME TypeOK, NEW r \in Idx
  PROVE  /\ Factor(r) \in Elem
         /\ A[r] \in Row /\ B[r] \in Elem /\ \A c \in Idx : A[r][c] \in Elem
         /\ A[i][i] = Zero => Factor(r) = Zero
         /\ A[i][i] # Zero => Mul(A[i][i], Factor(r)) = A[r][i]
<1>1. A[r] \in Row /\ A[i] \in Row /\ i \in Idx /\ B[r] \in Elem
  BY DEF TypeOK, Row
<1>2. A[r][i] \in Elem /\ A[i][i] \in Elem /\ \A c \in Idx : A[r][c] \in Elem
  BY <1>1 DEF Row
<1>3. Factor(r) \in Elem
  BY <1>2, FieldFacts DEF Factor, FieldAssumption
<1>4. A[i][i] = Zero => Factor(r) = Zero
  BY <1>2, FieldFacts DEF Factor, FieldAssumption
<1>5. A[i][i] # Zero => Mul(A[i][i], Factor(r)) = A[r][i]
  BY <1>2, FactorRestores DEF Factor
<1> QED
  BY <1>1, <1>2, <1>3, <1>4, <1>5

LEMMA LoopBounds ==
  ASSUME TypeOK, LoopInv
  PROVE  /\ N \in Nat \ {0} /\ i \in Int /\ 0 <= i /\ i < N /\ i \in Idx
         /\ j \in Int /\ -1 <= j /\ j <= N
         /\ phase = "forward" /\ j < N => j \in Idx /\ j # i
         /\ phase = "backward" /\ j >= 0 => j \in Idx /\ j # i
BY FieldFacts DEF TypeOK, LoopInv, Idx, SizeAssumption

-----------------------------------------------------------------------------
(* What the steps do to the rows *)

LEMMA ReduceEffect ==
  ASSUME TypeOK, LoopInv, Reduce
  PROVE  /\ j \in Idx /\ i # j
         /\ A' \in [Idx -> Row] /\ B' \in Row
         /\ A'[i] = Scale(Factor(j), A[i])
         /\ A'[j] = Plus(A[j], Scale(Factor(j), A[i]))
         /\ B'[i] = Mul(B[i], Factor(j))
         /\ B'[j] = Add(B[j], Mul(B[i], Factor(j)))
         /\ \A r \in Idx : r # i /\ r # j => A'[r] = A[r] /\ B'[r] = B[r]
<1>1. i \in Idx /\ j \in Idx /\ i # j
  BY LoopBounds DEF Reduce
<1>2. Scale(Factor(j), A[i]) \in Row
  BY <1>1, PivotRowTypes, ScaleType
<1>3. Plus(A[j], Scale(Factor(j), A[i])) \in Row
  BY <1>1, <1>2, PivotRowTypes, PlusType
<1>4. Mul(B[i], Factor(j)) \in Elem /\ Add(B[j], Mul(B[i], Factor(j))) \in Elem
  BY <1>1, PivotRowTypes, FieldFacts DEF FieldAssumption
<1>5. /\ A' = [A EXCEPT ![i] = Scale(Factor(j), A[i]),
                        ![j] = Plus(A[j], Scale(Factor(j), A[i]))]
      /\ B' = [B EXCEPT ![i] = Mul(B[i], Factor(j)),
                        ![j] = Add(B[j], Mul(B[i], Factor(j)))]
  BY DEF Reduce, ScaledRhs
<1> QED
  BY <1>1, <1>2, <1>3, <1>4, <1>5 DEF TypeOK, Row

LEMMA EliminateEffect ==
  ASSUME TypeOK, LoopInv, Eliminate, A[j][i] # Zero
  PROVE  /\ j \in Idx /\ i # j
         /\ A' \in [Idx -> Row] /\ B' \in Row
         /\ A'[j][i] = Add(A[j][i], Mul(A[i][i], Factor(j)))
         /\ \A c \in Idx : c # i => A'[j][c] = A[j][c]
         /\ B'[j] = Add(B[j], Mul(B[i], Factor(j)))
         /\ \A r \in Idx : r # j => A'[r] = A[r] /\ B'[r] = B[r]
<1>1. i \in Idx /\ j \in Idx /\ i # j
  BY LoopBounds DEF Eliminate
<1>2. /\ Add(A[j][i], Mul(A[i][i], Factor(j))) \in Elem
      /\ Add(B[j], Mul(B[i], Factor(j))) \in Elem
  BY <1>1, PivotRowTypes, FieldFacts DEF FieldAssumption
<1>3. /\ A' = [A EXCEPT ![j][i] = Add(A[j][i], Mul(A[i][i], Factor(j)))]
      /\ B' = [B EXCEPT ![j] = Add(B[j], Mul(B[i], Factor(j)))]
  BY DEF Eliminate
<1> QED
  BY <1>1, <1>2, <1>3 DEF TypeOK, Row

LEMMA NormaliseEffect ==
  ASSUME TypeOK, LoopInv, Normalise
  PROVE  /\ i \in Idx
         /\ A' \in [Idx -> Row] /\ B' \in Row
         /\ A'[i][i] = Mul(A[i][i], Inv(A[i][i]))
         /\ \A c \in Idx : c # i => A'[i][c] = A[i][c]
         /\ B'[i] = Mul(B[i], Inv(A[i][i]))
         /\ \A r \in Idx : r # i => A'[r] = A[r] /\ B'[r] = B[r]
<1>1. i \in Idx
  BY LoopBounds
<1>2. /\ Mul(A[i][i], Inv(A[i][i])) \in Elem
      /\ Mul(B[i], Inv(A[i][i])) \in Elem
  BY <1>1, PivotRowTypes, FieldFacts DEF FieldAssumption
<1>3. /\ A' = [A EXCEPT ![i][i] = Mul(A[i][i], Inv(A[i][i]))]
      /\ B' = [B EXCEPT ![i] = Mul(B[i], Inv(A[i][i]))]
  BY DEF Normalise, PivotInverse
<1> QED
  BY <1>1, <1>2, <1>3 DEF TypeOK, Row

\* The left sides of the two kinds of changed rows.
LEMMA LhsFacts ==
  ASSUME NEW row \in Row, NEW add \in Row, NEW f \in Elem, x \in Unknowns
  PROVE  /\ Lhs(Scale(f, row), x) = Mul(Lhs(row, x), f)
         /\ Lhs(Plus(row, add), x) = Add(Lhs(row, x), Lhs(add, x))
         /\ \A r \in Idx : Lhs(Unit(r), x) = x[r]
BY FieldFacts DEF SizeAssumption, LhsLaws

-----------------------------------------------------------------------------
(* The steps *)

LEMMA TypeStep ==
  ASSUME TypeOK, LoopInv, [Next]_vars
  PROVE  TypeOK' /\ LoopInv'
<1> USE DEF LoopInv
<1>1. CASE Reduce
  <2>1. A' \in [Idx -> Row] /\ B' \in Row
    BY <1>1, ReduceEffect
  <2>2. i' \in Idx /\ j' \in -1 .. N /\ j' > i'
    BY <1>1, LoopBounds DEF Reduce
  <2> QED
    BY <1>1, <2>1, <2>2 DEF Reduce, TypeOK
<1>2. CASE NextPivot
  <2>1. i' \in Idx /\ j' \in -1 .. N
    BY <1>2, LoopBounds DEF NextPivot, Idx
  <2>2. LoopInv'
    BY <1>2, LoopBounds DEF NextPivot
  <2> QED
    BY <1>2, <2>1, <2>2 DEF NextPivot, TypeOK
<1>3. CASE Allocate
  <2>1. i' \in Idx /\ j' \in -1 .. N /\ j' < i'
    BY <1>3, LoopBounds DEF Allocate, Idx
  <2> QED
    BY <1>3, <2>1 DEF Allocate, TypeOK
<1>4. CASE AllocateFails
  BY <1>4 DEF AllocateFails, TypeOK
<1>5. CASE Eliminate
  <2>1. A' \in [Idx -> Row] /\ B' \in Row
    BY <1>5, EliminateEffect DEF Eliminate, TypeOK
  <2>2. j' \in -1 .. N /\ j' < i
    BY <1>5, LoopBounds DEF Eliminate
  <2> QED
    BY <1>5, <2>1, <2>2 DEF Eliminate, TypeOK
<1>6. CASE Normalise
  <2>1. A' \in [Idx -> Row] /\ B' \in Row
    BY <1>6, NormaliseEffect
  <2>2. i' \in Idx /\ j' \in -1 .. N
    BY <1>6, LoopBounds DEF Normalise, Idx
  <2>3. LoopInv'
    BY <1>6, LoopBounds DEF Normalise
  <2>4. zeroed' \in SUBSET Idx
    BY <1>6, LoopBounds DEF Normalise, TypeOK
  <2> QED
    BY <1>6, <2>1, <2>2, <2>3, <2>4 DEF Normalise, TypeOK
<1>7. CASE Returned \/ UNCHANGED vars
  BY <1>7 DEF Returned, vars, TypeOK
<1> QED
  BY <1>1, <1>2, <1>3, <1>4, <1>5, <1>6, <1>7 DEF Next

\* Rows are only ever multiplied and added together with their right sides; in
\* the backward reduction this takes the columns before and after i to be
\* clear in row i.
LEMMA KeepStep ==
  ASSUME GaussInv, [Next]_vars
  PROVE  KeepInv'
<1> USE DEF GaussInv
<1>1. TypeOK /\ LoopInv /\ x \in Unknowns /\ x' = x
  BY DEF TypeOK, Next, Reduce, NextPivot, Allocate, AllocateFails, Eliminate,
         Normalise, Returned, vars
<1>2. CASE Reduce
  <2>1. Consistent /\ phase = "forward"
    BY <1>2 DEF KeepInv, InForward, Reduce
  <2>2. Factor(j) \in Elem /\ A[i] \in Row /\ A[j] \in Row /\ i \in Idx /\ j \in Idx
    BY <1>1, <1>2, ReduceEffect, PivotRowTypes, LoopBounds
  <2>3. Lhs(A'[i], x) = B'[i]
    BY <1>1, <1>2, <2>1, <2>2, ReduceEffect, LhsFacts DEF Consistent
  <2>4. Lhs(A'[j], x) = B'[j]
    <3>1. Scale(Factor(j), A[i]) \in Row
      BY <2>2, ScaleType
    <3>2. Lhs(Plus(A[j], Scale(Factor(j), A[i])), x) =
            Add(Lhs(A[j], x), Lhs(Scale(Factor(j), A[i]), x))
      BY <1>1, <2>2, <3>1, LhsFacts
    <3>3. Lhs(Scale(Factor(j), A[i]), x) = Mul(Lhs(A[i], x), Factor(j))
      BY <1>1, <2>2, LhsFacts
    <3> QED
      BY <1>1, <1>2, <2>1, <2>2, <3>2, <3>3, ReduceEffect DEF Consistent
  <2>5. \A r \in Idx : r # i /\ r # j => Lhs(A'[r], x) = B'[r]
    BY <1>1, <1>2, <2>1, ReduceEffect DEF Consistent
  <2> QED
    BY <1>1, <2>3, <2>4, <2>5 DEF KeepInv, Consistent
<1>3. CASE NextPivot \/ Allocate \/ AllocateFails \/ Returned \/ UNCHANGED vars
  BY <1>1, <1>3
  DEF NextPivot, Allocate, AllocateFails, Returned, vars, KeepInv, InForward, Consistent
<1>4. CASE Eliminate
  <2> SUFFICES ASSUME zeroed = {}
               PROVE  Consistent'
    BY <1>4 DEF KeepInv, InForward, Eliminate
  <2>1. Consistent
    BY DEF KeepInv
  <2>2. CASE A[j][i] = Zero
    BY <1>1, <1>4, <2>1, <2>2 DEF Eliminate, Consistent
  <2>3. CASE A[j][i] # Zero
    <3>1. i \in Idx /\ j \in Idx /\ i # j /\ phase = "backward"
      BY <1>1, <1>4, <2>3, EliminateEffect, LoopBounds DEF Eliminate
    <3>2. /\ Factor(j) \in Elem /\ A[i] \in Row /\ A[j] \in Row
          /\ \A c \in Idx : A[j][c] \in Elem
      BY <1>1, <3>1, PivotRowTypes
    <3>3. \A c \in Idx : c # i => A[i][c] = Zero
      BY <1>1, <3>1, LoopBounds DEF TriangleInv, UnitsInv, Idx
    <3>4. Scale(Factor(j), A[i]) \in Row
      BY <3>2, ScaleType
    <3>5. ASSUME NEW c \in Idx
          PROVE  A'[j][c] = Plus(A[j], Scale(Factor(j), A[i]))[c]
      <4>1. Plus(A[j], Scale(Factor(j), A[i]))[c] = Add(A[j][c], Mul(A[i][c], Factor(j)))
        BY <3>2, <3>4, ScaleType, PlusType
      <4>2. CASE c = i
        BY <1>1, <1>4, <2>3, <4>1, <4>2, EliminateEffect
      <4>3. CASE c # i
        <5>1. A[i][c] = Zero /\ A[j][c] \in Elem
          BY <3>2, <3>3, <4>3
        <5>2. Mul(A[i][c], Factor(j)) = Zero /\ Add(A[j][c], Zero) = A[j][c]
          BY <3>2, <5>1, ZeroTerms
        <5> QED
          BY <1>1, <1>4, <2>3, <4>1, <4>3, <5>2, EliminateEffect
      <4> QED
        BY <4>2, <4>3
    <3>6. A'[j] = Plus(A[j], Scale(Factor(j), A[i]))
      <4>1. A'[j] \in Row /\ Plus(A[j], Scale(Factor(j), A[i])) \in Row
        BY <1>1, <1>4, <2>3, <3>1, <3>2, <3>4, EliminateEffect, PlusType
      <4> QED
        BY <3>5, <4>1 DEF Row
    <3>7. Lhs(A'[j], x) = Add(Lhs(A[j], x), Mul(Lhs(A[i], x), Factor(j)))
      BY <1>1, <3>2, <3>4, <3>6, LhsFacts
    <3>8. Lhs(A'[j], x) = B'[j]
      BY <1>1, <1>4, <2>1, <2>3, <3>1, <3>7, EliminateEffect DEF Consistent
    <3> QED
      BY <1>1, <1>4, <2>1, <2>3, <3>8, EliminateEffect DEF Consistent
  <2> QED
    BY <2>2, <2>3
<1>5. CASE Normalise
  <2> SUFFICES ASSUME zeroed = {}
               PROVE  Consistent'
    BY <1>5 DEF KeepInv, InForward, Normalise
  <2>1. Consistent /\ i \in Idx /\ A[i] \in Row /\ A[i][i] \in Elem
    BY <1>1, LoopBounds, PivotRowTypes DEF KeepInv
  <2>2. Inv(A[i][i]) \in Elem
    BY <2>1, FieldFacts DEF FieldAssumption
  <2>3. \A c \in Idx : c # i => A[i][c] = Zero
    BY <1>1, <1>5, LoopBounds DEF TriangleInv, UnitsInv, Idx, Normalise
  <2>4. ASSUME NEW c \in Idx
        PROVE  A'[i][c] = Scale(Inv(A[i][i]), A[i])[c]
    <3>1. Scale(Inv(A[i][i]), A[i])[c] = Mul(A[i][c], Inv(A[i][i]))
      BY <2>1, <2>2, ScaleType
    <3>2. c # i => Mul(A[i][c], Inv(A[i][i])) = Zero
      BY <2>2, <2>3, ZeroTerms
    <3> QED
      BY <1>1, <1>5, <2>3, <3>1, <3>2, NormaliseEffect
  <2>5. A'[i] = Scale(Inv(A[i][i]), A[i])
    <3>1. A'[i] \in Row /\ Scale(Inv(A[i][i]), A[i]) \in Row
      BY <1>1, <1>5, <2>1, <2>2, NormaliseEffect, ScaleType
    <3> QED
      BY <2>4, <3>1 DEF Row
  <2>6. Lhs(A'[i], x) = Mul(Lhs(A[i], x), Inv(A[i][i]))
    BY <1>1, <2>1, <2>2, <2>5, LhsFacts
  <2>7. Lhs(A'[i], x) = B'[i]
    BY <1>1, <1>5, <2>1, <2>6, NormaliseEffect DEF Consistent
  <2> QED
    BY <1>1, <1>5, <2>1, <2>7, NormaliseEffect DEF Consistent
<1> QED
  BY <1>2, <1>3, <1>4, <1>5 DEF Next

\* Subtracting the pivot row clears the entry below the pivot and leaves the
\* entries before it clear.
LEMMA ShapeStep ==
  ASSUME GaussInv, [Next]_vars
  PROVE  ColumnsInv' /\ TriangleInv'
<1> USE DEF GaussInv
<1>1. TypeOK /\ LoopInv
  OBVIOUS
<1>2. CASE Reduce
  <2> SUFFICES ASSUME zeroed' = {}
               PROVE  ColumnsInv'
    BY <1>2 DEF TriangleInv, ColumnsInv, Reduce
  <2>1. /\ phase = "forward" /\ zeroed = {} /\ Factor(j) # Zero
        /\ i' = i /\ j' = j + 1
    BY <1>2 DEF Reduce
  <2>2. /\ i \in Idx /\ j \in Idx /\ i < j /\ A[i] \in Row /\ A[j] \in Row
        /\ \A c \in Idx : A[i][c] \in Elem /\ A[j][c] \in Elem
        /\ Factor(j) \in Elem
    BY <1>1, <1>2, ReduceEffect, LoopBounds, PivotRowTypes DEF Reduce, LoopInv
  <2>3. /\ A'[i] = Scale(Factor(j), A[i])
        /\ A'[j] = Plus(A[j], A'[i])
        /\ \A r \in Idx : r # i /\ r # j => A'[r] = A[r]
    BY <1>1, <1>2, ReduceEffect
  <2>4. \A c \in Idx : /\ A'[i][c] = Mul(A[i][c], Factor(j))
                        /\ A'[j][c] = Add(A[j][c], A'[i][c])
    BY <2>2, <2>3, ScaleType, PlusType
  <2>5. A'[i][i] = A[j][i] /\ A'[j][i] = Zero
    <3>1. A[i][i] # Zero
      BY <1>1, <2>1, <2>2, PivotRowTypes
    <3>2. A'[i][i] = A[j][i]
      BY <1>1, <2>2, <2>4, <3>1, PivotRowTypes
    <3> QED
      BY <2>2, <2>4, <3>2, ZeroTerms
  <2>6. ASSUME NEW c \in Idx, c < i
        PROVE  A'[i][c] = Zero /\ A'[j][c] = Zero
    <3>1. A[i][c] = Zero /\ A[j][c] = Zero
      BY <2>1, <2>2, <2>6 DEF ColumnsInv, Idx
    <3>2. Zero \in Elem
      BY FieldFacts DEF FieldAssumption
    <3> QED
      BY <2>2, <2>4, <3>1, <3>2, ZeroTerms
  <2>7. ASSUME NEW r \in Idx, NEW c \in Idx, c < i, c < r
        PROVE  A'[r][c] = Zero
    BY <2>1, <2>3, <2>6, <2>7 DEF ColumnsInv
  <2>8. ASSUME NEW r \in Idx, i < r, r < j + 1
        PROVE  A'[r][i] = Zero
    <3>1. CASE r = j
      BY <2>5, <3>1
    <3>2. CASE r # j
      <4>1. r < j /\ r # i
        BY <1>1, <2>8, <3>2, LoopBounds DEF Idx
      <4> QED
        BY <2>1, <2>3, <2>8, <3>2, <4>1 DEF ColumnsInv
    <3> QED
      BY <3>1, <3>2
  <2> QED
    BY <2>1, <2>7, <2>8 DEF ColumnsInv
<1>3. CASE NextPivot
  <2> SUFFICES ASSUME zeroed = {}
               PROVE  ColumnsInv' /\ TriangleInv'
    BY <1>3 DEF NextPivot, ColumnsInv, TriangleInv
  <2>1. /\ phase = "forward" /\ j >= N /\ A' = A /\ N \in Nat /\ i \in Int
        /\ Idx = 0 .. N - 1 /\ j \in Int
    BY <1>1, <1>3, LoopBounds DEF NextPivot, Idx
  <2>2. \A r, c \in Idx : c < i + 1 /\ c < r => A[r][c] = Zero
    <3> SUFFICES ASSUME NEW r \in Idx, NEW c \in Idx, c < i + 1, c < r
                 PROVE  A[r][c] = Zero
      OBVIOUS
    <3>1. CASE c < i
      BY <2>1, <3>1 DEF ColumnsInv
    <3>2. CASE ~(c < i)
      <4>1. c = i /\ i < r /\ r < j
        BY <2>1, <3>2
      <4> QED
        BY <2>1, <4>1 DEF ColumnsInv
    <3> QED
      BY <3>1, <3>2
  <2>3. CASE i + 1 < N
    <3>1. phase' = "forward" /\ i' = i + 1 /\ j' = i + 2
      BY <1>3, <2>1, <2>3 DEF NextPivot
    <3>2. ~ \E r \in Idx : i + 1 < r /\ r < i + 2
      BY <2>1
    <3> QED
      BY <2>1, <2>2, <3>1, <3>2 DEF ColumnsInv, TriangleInv
  <2>4. CASE ~(i + 1 < N)
    <3>1. phase' = "allocate" /\ \A r, c \in Idx : c < r => c < i + 1
      BY <1>3, <2>1, <2>4 DEF NextPivot
    <3> QED
      BY <2>1, <2>2, <3>1 DEF ColumnsInv, TriangleInv
  <2> QED
    BY <2>3, <2>4
<1>4. CASE Allocate \/ AllocateFails \/ Returned \/ UNCHANGED vars
  BY <1>4 DEF Allocate, AllocateFails, Returned, vars, ColumnsInv, TriangleInv
<1>5. CASE Eliminate
  <2> SUFFICES ASSUME zeroed = {}, A[j][i] # Zero
               PROVE  TriangleInv'
    BY <1>5 DEF Eliminate, ColumnsInv, TriangleInv
  <2>1. /\ phase = "backward" /\ j < i /\ j \in Idx /\ i \in Idx
        /\ \A r \in Idx : r # j => A'[r] = A[r]
        /\ \A c \in Idx : c # i => A'[j][c] = A[j][c]
    BY <1>1, <1>5, EliminateEffect, LoopBounds DEF Eliminate, LoopInv
  <2>2. ASSUME NEW r \in Idx, NEW c \in Idx, c < r
        PROVE  A'[r][c] = Zero
    <3>1. A[r][c] = Zero
      BY <2>1, <2>2 DEF TriangleInv
    <3>2. r = j => c # i
      BY <2>1, <2>2 DEF Idx
    <3> QED
      BY <2>1, <3>1, <3>2
  <2> QED
    BY <2>2 DEF TriangleInv
<1>6. CASE Normalise
  <2> SUFFICES ASSUME zeroed' = {}
               PROVE  TriangleInv'
    BY <1>6 DEF Normalise, ColumnsInv, TriangleInv
  <2>1. /\ phase = "backward" /\ zeroed = {} /\ i \in Idx
        /\ \A r \in Idx : r # i => A'[r] = A[r]
        /\ \A c \in Idx : c # i => A'[i][c] = A[i][c]
    BY <1>1, <1>6, NormaliseEffect DEF Normalise
  <2>2. ASSUME NEW r \in Idx, NEW c \in Idx, c < r
        PROVE  A'[r][c] = Zero
    <3>1. A[r][c] = Zero
      BY <2>1, <2>2 DEF TriangleInv
    <3>2. r = i => c # i
      BY <2>2 DEF Idx
    <3> QED
      BY <2>1, <3>1, <3>2
  <2> QED
    BY <2>2 DEF TriangleInv
<1> QED
  BY <1>2, <1>3, <1>4, <1>5, <1>6 DEF Next

\* An entry above a pivot that is not zero is cleared, and dividing by the
\* pivot then leaves a unit row.
LEMMA UnitsStep ==
  ASSUME GaussInv, [Next]_vars
  PROVE  UnitsInv' /\ DoneInv'
<1> USE DEF GaussInv
<1>1. TypeOK /\ LoopInv
  OBVIOUS
<1>2. CASE Reduce \/ NextPivot \/ AllocateFails \/ Returned \/ UNCHANGED vars
  BY <1>2
  DEF Reduce, NextPivot, AllocateFails, Returned, vars, UnitsInv, DoneInv
<1>3. CASE Allocate
  <2>1. phase' = "backward" /\ i' = N - 1 /\ j' = N - 2
    BY <1>3 DEF Allocate
  <2>2. \A r \in Idx : ~(r > N - 1) /\ ~(N - 2 < r /\ r < N - 1)
    BY <1>1, LoopBounds DEF Idx
  <2> QED
    BY <2>1, <2>2 DEF UnitsInv, DoneInv
<1>4. CASE Eliminate
  <2> SUFFICES ASSUME zeroed = {}
               PROVE  UnitsInv'
    BY <1>4 DEF Eliminate, UnitsInv, DoneInv
  <2>1. /\ phase = "backward" /\ phase' = phase /\ i' = i /\ j' = j - 1
        /\ i \in Idx /\ j \in Idx /\ j < i
    BY <1>1, <1>4, LoopBounds DEF Eliminate, LoopInv
  <2>2. CASE A[j][i] = Zero
    <3>1. A' = A
      BY <1>4, <2>2 DEF Eliminate
    <3>2. \A r \in Idx : j - 1 < r => r = j \/ j < r
      BY <2>1 DEF Idx
    <3> QED
      BY <2>1, <2>2, <3>1, <3>2 DEF UnitsInv
  <2>3. CASE A[j][i] # Zero
    <3>1. /\ \A r \in Idx : r # j => A'[r] = A[r]
          /\ \A c \in Idx : c # i => A'[j][c] = A[j][c]
          /\ A'[j][i] = Add(A[j][i], Mul(A[i][i], Factor(j)))
      BY <1>1, <1>4, <2>3, EliminateEffect
    <3>2. A[i][i] # Zero => A'[j][i] = Zero
      BY <1>1, <2>1, <3>1, PivotRowTypes, ZeroTerms
    <3>3. \A r \in Idx : r > i => A'[r] = Unit(r)
      BY <2>1, <3>1 DEF UnitsInv, Idx
    <3>4. ASSUME NEW r \in Idx, NEW c \in Idx, c > i, r <= i
          PROVE  A'[r][c] = Zero
      <4>1. A[r][c] = Zero /\ c # i
        BY <2>1, <3>4 DEF UnitsInv, Idx
      <4> QED
        BY <3>1, <4>1
    <3>5. ASSUME A[i][i] # Zero, NEW r \in Idx, j - 1 < r, r < i
          PROVE  A'[r][i] = Zero
      <4>1. r = j \/ (r # j /\ j < r)
        BY <2>1, <3>5 DEF Idx
      <4> QED
        BY <2>1, <3>1, <3>2, <3>5, <4>1 DEF UnitsInv
    <3>6. A'[i][i] = A[i][i]
      BY <1>1, <1>4, <2>1, <2>3, <3>1, EliminateEffect
    <3> QED
      BY <2>1, <3>3, <3>4, <3>5, <3>6 DEF UnitsInv
  <2> QED
    BY <2>2, <2>3
<1>5. CASE Normalise
  <2> SUFFICES ASSUME zeroed' = {}
               PROVE  UnitsInv' /\ DoneInv'
    BY DEF UnitsInv, DoneInv
  <2>1. /\ phase = "backward" /\ zeroed = {} /\ A[i][i] # Zero /\ j < 0
        /\ i \in Idx /\ A[i][i] \in Elem
    BY <1>1, <1>5, LoopBounds, PivotRowTypes DEF Normalise
  <2>2. /\ A' \in [Idx -> Row]
        /\ \A r \in Idx : r # i => A'[r] = A[r]
        /\ \A c \in Idx : c # i => A'[i][c] = A[i][c]
        /\ A'[i][i] = One
    BY <1>1, <1>5, <2>1, NormaliseEffect, FieldFacts DEF FieldAssumption
  <2>3. \A c \in Idx : c # i => A'[i][c] = Zero
    BY <2>1, <2>2 DEF TriangleInv, UnitsInv, Idx
  <2>4. A'[i] = Unit(i)
    <3>1. A'[i] \in Row /\ Unit(i) \in Row
      BY <2>1, <2>2, UnitType
    <3>2. \A c \in Idx : A'[i][c] = Unit(i)[c]
      BY <2>2, <2>3 DEF Unit
    <3> QED
      BY <3>1, <3>2 DEF Row
  <2>5. \A r \in Idx : r >= i => A'[r] = Unit(r)
    BY <2>1, <2>2, <2>4 DEF UnitsInv, Idx
  <2>6. ASSUME NEW r \in Idx, NEW c \in Idx, c >= i, r < i
        PROVE  A'[r][c] = Zero
    <3>1. A'[r] = A[r]
      BY <2>1, <2>2, <2>6 DEF Idx
    <3>2. CASE c = i
      <4>1. j < r
        BY <1>1, <2>1, LoopBounds DEF Idx
      <4> QED
        BY <2>1, <2>6, <3>1, <3>2, <4>1 DEF UnitsInv
    <3>3. CASE c # i
      <4>1. c > i /\ r <= i
        BY <2>1, <2>6, <3>3 DEF Idx
      <4> QED
        BY <2>1, <3>1, <4>1 DEF UnitsInv
    <3> QED
      BY <3>2, <3>3
  <2>7. CASE i > 0
    <3>1. phase' = "backward" /\ i' = i - 1 /\ j' = i - 2
      BY <1>5, <2>1, <2>7 DEF Normalise
    <3>2. i \in Int /\ \A r \in Idx : r \in Int
      BY <2>1 DEF Idx
    <3>3. ASSUME NEW r \in Idx, r > i'
          PROVE  A'[r] = Unit(r)
      <4>1. r >= i
        BY <3>1, <3>2, <3>3
      <4> QED
        BY <2>5, <4>1
    <3>4. ASSUME NEW r \in Idx, NEW c \in Idx, c > i', r <= i'
          PROVE  A'[r][c] = Zero
      <4>1. c >= i /\ r < i
        BY <3>1, <3>2, <3>4
      <4> QED
        BY <2>6, <4>1
    <3>5. ASSUME NEW r \in Idx, j' < r, r < i'
          PROVE  FALSE
      BY <3>1, <3>2, <3>5
    <3>6. UnitsInv'
      BY <3>3, <3>4, <3>5 DEF UnitsInv
    <3> QED
      BY <3>1, <3>6 DEF DoneInv
  <2>8. CASE ~(i > 0)
    <3>1. phase' = "done" /\ \A r \in Idx : r >= i
      BY <1>5, <2>1, <2>8 DEF Normalise, Idx
    <3> QED
      BY <2>5, <3>1 DEF UnitsInv, DoneInv
  <2> QED
    BY <2>7, <2>8
<1> QED
  BY <1>2, <1>3, <1>4, <1>5 DEF Next

\* Once multiplied by zero a row and its right side are zero, and no later step
\* adds anything to them.
LEMMA ZeroStep ==
  ASSUME GaussInv, [Next]_vars
  PROVE  ZeroInv'
<1> USE DEF GaussInv
<1>1. TypeOK /\ LoopInv /\ zeroed \subseteq Idx
  BY DEF TypeOK
<1>2. CASE Reduce
  <2>1. /\ phase = "forward" /\ phase' = phase /\ i' = i
        /\ i \in Idx /\ j \in Idx /\ i < j
    BY <1>1, <1>2, LoopBounds DEF Reduce, LoopInv
  <2>2. /\ Factor(j) \in Elem /\ B[i] \in Elem /\ A[i] \in Row
        /\ \A c \in Idx : A[i][c] \in Elem
    BY <1>1, <2>1, PivotRowTypes
  <2>3. /\ A'[i] = Scale(Factor(j), A[i]) /\ B'[i] = Mul(B[i], Factor(j))
        /\ \A r \in Idx : r # i /\ r # j => A'[r] = A[r] /\ B'[r] = B[r]
    BY <1>1, <1>2, ReduceEffect
  <2>4. \A c \in Idx : A'[i][c] = Mul(A[i][c], Factor(j))
    BY <2>2, <2>3, ScaleType
  <2>5. ASSUME i \in zeroed'
        PROVE  B'[i] = Zero /\ \A c \in Idx : A'[i][c] = Zero
    <3>1. CASE Factor(j) = Zero
      BY <2>2, <2>3, <2>4, <3>1, ZeroTerms
    <3>2. CASE Factor(j) # Zero
      <4>1. i \in zeroed
        BY <1>2, <2>5, <3>2 DEF Reduce
      <4>2. B[i] = Zero /\ \A c \in Idx : A[i][c] = Zero
        BY <2>1, <4>1 DEF ZeroInv, Idx
      <4> QED
        BY <2>2, <2>3, <2>4, <4>2, ZeroTerms
    <3> QED
      BY <3>1, <3>2
  <2>6. ASSUME NEW r \in zeroed', r # i
        PROVE  r \in zeroed /\ r \in Idx /\ r < i /\ A'[r] = A[r] /\ B'[r] = B[r]
    <3>1. r \in zeroed /\ r \in Idx /\ r <= i
      BY <1>1, <1>2, <2>1, <2>6 DEF Reduce, ZeroInv
    <3>2. r < i /\ r # j
      BY <2>1, <2>6, <3>1 DEF Idx
    <3> QED
      BY <2>3, <2>6, <3>1, <3>2
  <2> QED
    BY <2>1, <2>5, <2>6 DEF ZeroInv, Idx
<1>3. CASE NextPivot
  <2>1. /\ phase = "forward" /\ A' = A /\ B' = B /\ zeroed' = zeroed
        /\ i' >= i /\ i \in Int /\ i' \in Int
        /\ phase' \in {"forward", "allocate"}
    BY <1>1, <1>3, LoopBounds DEF NextPivot
  <2>2. \A r \in zeroed : r \in Int /\ r <= i
    BY <1>1, <2>1, LoopBounds DEF ZeroInv, Idx
  <2> QED
    BY <2>1, <2>2 DEF ZeroInv
<1>4. CASE Allocate
  BY <1>1, <1>4 DEF Allocate, ZeroInv, LoopInv
<1>5. CASE AllocateFails \/ Returned \/ UNCHANGED vars
  BY <1>5 DEF AllocateFails, Returned, vars, ZeroInv
<1>6. CASE Eliminate
  <2>1. /\ phase = "backward" /\ phase' = phase /\ i' = i /\ zeroed' = zeroed
        /\ j \in Idx /\ j < i
    BY <1>1, <1>6, LoopBounds DEF Eliminate, LoopInv
  <2>2. CASE A[j][i] = Zero
    BY <1>6, <2>1, <2>2 DEF Eliminate, ZeroInv
  <2>3. CASE A[j][i] # Zero
    <3>1. \A r \in Idx : r # j => A'[r] = A[r] /\ B'[r] = B[r]
      BY <1>1, <1>6, <2>3, EliminateEffect
    <3>2. j \notin zeroed
      BY <1>1, <2>1, <2>3, LoopBounds DEF ZeroInv, Idx
    <3> QED
      BY <1>1, <2>1, <3>1, <3>2 DEF ZeroInv
  <2> QED
    BY <2>2, <2>3
<1>7. CASE Normalise
  <2>1. /\ phase = "backward" /\ i \in Idx /\ B[i] \in Elem /\ A[i][i] \in Elem
        /\ B'[i] = Mul(B[i], Inv(A[i][i]))
        /\ \A r \in Idx : r # i => A'[r] = A[r] /\ B'[r] = B[r]
    BY <1>1, <1>7, NormaliseEffect, PivotRowTypes DEF Normalise
  <2>2. ASSUME i \in zeroed'
        PROVE  B'[i] = Zero
    <3>1. CASE A[i][i] = Zero
      BY <2>1, <3>1, ZeroTerms, FieldFacts DEF FieldAssumption
    <3>2. CASE A[i][i] # Zero
      <4>1. i \in zeroed
        BY <1>7, <2>2, <3>2 DEF Normalise
      <4>2. A[i][i] = Zero
        BY <2>1, <4>1 DEF ZeroInv, Idx
      <4> QED
        BY <3>2, <4>2
    <3> QED
      BY <3>1, <3>2
  <2>3. ASSUME NEW r \in zeroed', r # i
        PROVE  /\ r \in zeroed /\ B'[r] = Zero
               /\ r < i => \A c \in Idx : A'[r][c] = Zero
    <3>1. r \in zeroed /\ r \in Idx
      BY <1>1, <1>7, <2>3 DEF Normalise
    <3> QED
      BY <2>1, <2>3, <3>1 DEF ZeroInv, Idx
  <2>4. phase' = "done" \/ (phase' = "backward" /\ i' = i - 1)
    BY <1>7, <2>1 DEF Normalise
  <2>5. \A r \in zeroed' : r = i \/ r < i \/ r > i
    BY <1>1, <1>7, <2>1 DEF Normalise, Idx
  <2>6. ASSUME NEW r \in zeroed', phase' # "done", r <= i'
        PROVE  r < i /\ r # i
    <3>1. r \in Int /\ i \in Int
      BY <1>1, <1>7, <2>1 DEF Normalise, Idx
    <3> QED
      BY <2>4, <2>6, <3>1
  <2> QED
    BY <2>2, <2>3, <2>4, <2>6 DEF ZeroInv
<1> QED
  BY <1>2, <1>3, <1>4, <1>5, <1>6, <1>7 DEF Next

LEMMA InitGauss ==
  ASSUME Init
  PROVE  GaussInv
<1>1. A \in [Idx -> Row] /\ x \in Row
  BY FieldFacts DEF Init, SizeAssumption
<1>2. B \in Row
  BY <1>1, FieldFacts DEF Init, LhsLaws, Row
<1>3. i \in Idx /\ j \in -1 .. N
  BY FieldFacts DEF Init, SizeAssumption, Idx
<1>4. TypeOK
  BY <1>1, <1>2, <1>3 DEF Init, TypeOK
<1>5. LoopInv /\ KeepInv /\ TriangleInv /\ UnitsInv /\ DoneInv /\ ZeroInv
  BY DEF Init, LoopInv, KeepInv, Consistent, TriangleInv, UnitsInv, DoneInv, ZeroInv
<1>6. ColumnsInv
  <2>1. \A r \in Idx : ~(r < 0) /\ ~(0 < r /\ r < 1)
    BY DEF Idx
  <2> QED
    BY <2>1 DEF Init, ColumnsInv
<1> QED
  BY <1>4, <1>5, <1>6 DEF GaussInv

-----------------------------------------------------------------------------
(* The loops and the function of Elimination *)

Given  == [A |-> given, B |-> [r \in Idx |-> Lhs(given[r], x)], zeroed |-> {}]
Cur    == [A |-> A, B |-> B, zeroed |-> zeroed]
Half   == Forward(N, Given)
Result == Backward(N, Half)

\* The function got to R when it came to row i, and from there to its matrix.
ForwardAt(R) ==
  /\ R \in System(N)
  /\ Leads(System(N), ForwardSteps(N), N, Given, Half, i, R)
  /\ Leads(System(N), RowSteps(N, i), N - 1 - i, R, ReducedBelow(N, R, i), j - i - 1, Cur)

BackwardAt(R) ==
  /\ R \in System(N)
  /\ Leads(System(N), BackwardSteps(N), N, Half, Result, N - 1 - i, R)
  /\ Leads(System(N), AboveSteps(N, i), i, R, EliminatedAbove(R, i), i - 1 - j, Cur)

FunctionInv ==
  /\ phase = "forward" => \E R \in System(N) : ForwardAt(R)
  /\ phase \in {"allocate", "failed"} => Cur = Half
  /\ phase = "backward" => \E R \in System(N) : BackwardAt(R)
  /\ phase = "done" => Cur = Result

LEMMA SameTypes == Indices(N) = Idx /\ Vector(N) = Row
BY DEF Indices, Vector, Idx, Row

LEMMA CurType ==
  ASSUME TypeOK
  PROVE  Cur \in System(N)
BY SameTypes DEF TypeOK, System, Cur

LEMMA GivenType ==
  ASSUME TypeOK
  PROVE  Given \in System(N) /\ Half \in System(N)
<1>1. given \in [Idx -> Row] /\ x \in Row
  BY FieldFacts DEF TypeOK, SizeAssumption
<1>2. [r \in Idx |-> Lhs(given[r], x)] \in Row
  BY <1>1, FieldFacts DEF LhsLaws, Row
<1>3. Given \in System(N)
  BY <1>1, <1>2, SameTypes DEF Given, System
<1>4. Leads(System(N), ForwardSteps(N), N, Given, Half, 0, Given)
  BY <1>3, FieldFacts, ForwardLeads DEF SizeAssumption, Half
<1> QED
  BY <1>3, <1>4, FieldFacts DEF Leads, SizeAssumption

\* What the steps do is what the iterations of the function do.
LEMMA ReduceIs ==
  ASSUME TypeOK, LoopInv, Reduce
  PROVE  Cur' = Reduced(Cur, i, j)
<1>1. i \in Idx /\ j \in Idx /\ i # j
  BY LoopBounds DEF Reduce
<1>2. FactorOf(Cur, i, j) = Factor(j) /\ Cur.A = A /\ Cur.B = B /\ Cur.zeroed = zeroed
  BY DEF Factor, FactorOf, Cur
<1>3. Reduced(Cur, i, j) =
        [A |-> [A EXCEPT ![i] = Scale(Factor(j), A[i]),
                         ![j] = Plus(A[j], Scale(Factor(j), A[i]))],
         B |-> [B EXCEPT ![i] = Mul(B[i], Factor(j)),
                         ![j] = Add(B[j], Mul(B[i], Factor(j)))],
         zeroed |-> IF Factor(j) = Zero THEN zeroed \cup {i} ELSE zeroed]
  <2>1. A \in [Idx -> Row] /\ B \in [Idx -> Elem]
    BY DEF TypeOK, Row
  <2> QED
    BY <1>1, <1>2, <2>1 DEF Reduced, WithZeroed
<1>4. /\ A' = [A EXCEPT ![i] = Scale(Factor(j), A[i]),
                        ![j] = Plus(A[j], Scale(Factor(j), A[i]))]
      /\ B' = [B EXCEPT ![i] = Mul(B[i], Factor(j)),
                        ![j] = Add(B[j], Mul(B[i], Factor(j)))]
      /\ zeroed' = IF Factor(j) = Zero THEN zeroed \cup {i} ELSE zeroed
  BY DEF Reduce, ScaledRhs
<1>5. Cur' = [A |-> A', B |-> B', zeroed |-> zeroed']
  BY DEF Cur
<1> QED
  BY <1>3, <1>4, <1>5

LEMMA EliminateIs ==
  ASSUME TypeOK, LoopInv, Eliminate
  PROVE  Cur' = Eliminated(Cur, i, j)
<1> DEFINE t == Cur
<1>1. i \in Idx /\ j \in Idx /\ i # j /\ zeroed' = zeroed
  BY LoopBounds DEF Eliminate
<1>2. FactorOf(t, i, j) = Factor(j) /\ t.A = A /\ t.B = B /\ t.zeroed = zeroed
  BY DEF Factor, FactorOf, Cur
<1>3. Cur' = [A |-> A', B |-> B', zeroed |-> zeroed']
  BY DEF Cur
<1>4. CASE A[j][i] = Zero
  <2>1. A' = A /\ B' = B
    BY <1>4 DEF Eliminate
  <2>2. Cur' = t
    BY <1>1, <1>3, <2>1 DEF Cur
  <2>3. Eliminated(t, i, j) = t
    BY <1>2, <1>4 DEF Eliminated
  <2> QED
    BY <2>2, <2>3
<1>5. CASE A[j][i] # Zero
  <2> DEFINE f == Factor(j)
             e == Add(A[j][i], Mul(A[i][i], f))
             v == Add(B[j], Mul(B[i], f))
             r == Eliminated(t, i, j)
  <2>1. /\ t.A \in [Idx -> Row] /\ t.A[j] \in [Idx -> Elem] /\ t.B \in [Idx -> Elem]
        /\ t = [A |-> t.A, B |-> t.B, zeroed |-> t.zeroed]
    BY <1>1 DEF TypeOK, Row, Cur
  <2>2. A' = [A EXCEPT ![j] = [A[j] EXCEPT ![i] = e]] /\ B' = [B EXCEPT ![j] = v]
    BY <1>1, <1>2, <1>5, <2>1 DEF Eliminate
  <2> HIDE DEF t
  <2>3. r = [t EXCEPT !.A[j][i] = e, !.B[j] = v]
    BY <1>2, <1>5, <2>1 DEF Eliminated
  <2> HIDE DEF f, e, v, r
  <2>4. r = [A      |-> [t.A EXCEPT ![j] = [t.A[j] EXCEPT ![i] = e]],
             B      |-> [t.B EXCEPT ![j] = v],
             zeroed |-> t.zeroed]
    BY <2>1, <2>3
  <2>5. Cur' = r
    BY <1>1, <1>2, <1>3, <2>2, <2>4
  <2> QED
    BY <2>5 DEF r, t
<1> QED
  BY <1>4, <1>5

LEMMA NormaliseIs ==
  ASSUME TypeOK, LoopInv, Normalise
  PROVE  Cur' = Normalised(Cur, i)
<1> DEFINE t == Cur
           e == Mul(A[i][i], Inv(A[i][i]))
           v == Mul(B[i], Inv(A[i][i]))
           z == IF A[i][i] = Zero THEN zeroed \cup {i} ELSE zeroed
           r == Normalised(t, i)
<1>1. i \in Idx
  BY LoopBounds
<1>2. /\ t.A = A /\ t.B = B /\ t.zeroed = zeroed
      /\ Cur' = [A |-> A', B |-> B', zeroed |-> zeroed']
  BY DEF Cur
<1>3. /\ t.A \in [Idx -> Row] /\ t.A[i] \in [Idx -> Elem] /\ t.B \in [Idx -> Elem]
      /\ t = [A |-> t.A, B |-> t.B, zeroed |-> t.zeroed]
  BY <1>1 DEF TypeOK, Row, Cur
<1>4. /\ A' = [A EXCEPT ![i] = [A[i] EXCEPT ![i] = e]] /\ B' = [B EXCEPT ![i] = v]
      /\ zeroed' = z
  BY <1>1, <1>2, <1>3 DEF Normalise, PivotInverse
<1> HIDE DEF t
<1>5. r = [t EXCEPT !.A[i][i] = e, !.B[i] = v, !.zeroed = z]
  BY <1>1, <1>2, <1>3 DEF Normalised, WithZeroed
<1> HIDE DEF e, v, z, r
<1>6. r = [A |-> [t.A EXCEPT ![i] = [t.A[i] EXCEPT ![i] = e]],
           B |-> [t.B EXCEPT ![i] = v], zeroed |-> z]
  BY <1>3, <1>5
<1>7. Cur' = r
  BY <1>2, <1>4, <1>6
<1> QED
  BY <1>7 DEF r, t

\* One more iteration of an inner loop, the end of one, and the start of one.
LEMMA FunctionStep ==
  ASSUME GaussInv, FunctionInv, [Next]_vars
  PROVE  FunctionInv'
<1>1. TypeOK /\ LoopInv /\ Cur \in System(N) /\ N \in Nat /\ i \in Indices(N)
  BY LoopBounds, CurType, SameTypes DEF GaussInv
<1>2. (given' = given /\ x' = x) => /\ Given' = Given /\ Half' = Half /\ Result' = Result
  BY DEF Given, Half, Result
<1>3. given' = given /\ x' = x
  BY DEF Next, Reduce, NextPivot, Allocate, AllocateFails, Eliminate, Normalise, Returned, vars
<1>4. Given' = Given /\ Half' = Half /\ Result' = Result
  BY <1>2, <1>3
<1>5. CASE Reduce
  <2>1. /\ phase = "forward" /\ phase' = "forward" /\ i' = i /\ j' = j + 1
        /\ j \in Indices(N) /\ i \in Int /\ j \in Int /\ j > i /\ j < N
    BY <1>1, <1>5, LoopBounds, SameTypes DEF Reduce, LoopInv
  <2>2. PICK R \in System(N) : ForwardAt(R)
    BY <2>1 DEF FunctionInv
  <2>3. j - i - 1 \in 0 .. (N - 1 - i) - 1 /\ (j - i - 1) + 1 = j - i /\ N - 1 - i \in Nat
    BY <1>1, <2>1
  <2>4. Leads(System(N), RowSteps(N, i), N - 1 - i, R, ReducedBelow(N, R, i), j - i,
              RowSteps(N, i)[j - i][Cur])
    BY <2>2, <2>3, LeadsOn DEF ForwardAt
  <2>5. RowSteps(N, i)[j - i][Cur] = Cur'
    <3>1. j - i \in 1 .. N - 1 - i /\ i + (j - i) = j
      BY <1>1, <2>1
    <3>2. RowSteps(N, i)[j - i][Cur] = Reduced(Cur, i, i + (j - i))
      BY <1>1, <3>1 DEF RowSteps
    <3> QED
      BY <1>1, <1>5, <3>1, <3>2, ReduceIs
  <2>6. (j + 1) - i - 1 = j - i
    BY <2>1
  <2>7. ForwardAt(R)'
    BY <1>4, <2>1, <2>2, <2>4, <2>5, <2>6 DEF ForwardAt
  <2> QED
    BY <2>1, <2>7 DEF FunctionInv
<1>6. CASE NextPivot
  <2>1. /\ phase = "forward" /\ j = N /\ Cur' = Cur /\ i \in 0 .. N - 1
    BY <1>1, <1>6, LoopBounds DEF NextPivot, LoopInv, Cur, Indices
  <2>2. PICK R \in System(N) : ForwardAt(R)
    BY <2>1 DEF FunctionInv
  <2>3. Cur = ReducedBelow(N, R, i)
    <3>1. j - i - 1 = N - 1 - i /\ N - 1 - i \in Nat
      BY <1>1, <2>1
    <3> QED
      BY <2>2, <3>1, LeadsTo DEF ForwardAt
  <2>4. ForwardSteps(N)[i + 1][R] = Cur
    <3>1. i + 1 \in 1 .. N /\ (i + 1) - 1 = i
      BY <1>1, <2>1
    <3>2. ForwardSteps(N)[i + 1][R] = ReducedBelow(N, R, (i + 1) - 1)
      BY <2>2, <3>1 DEF ForwardSteps, ForwardAt
    <3> QED
      BY <2>3, <3>1, <3>2
  <2>5. Leads(System(N), ForwardSteps(N), N, Given, Half, i + 1, Cur)
    BY <1>1, <2>1, <2>2, <2>4, LeadsOn DEF ForwardAt
  <2>6. CASE i + 1 < N
    <3>1. phase' = "forward" /\ i' = i + 1 /\ j' = i + 2
      BY <1>6, <2>1, <2>6 DEF NextPivot
    <3>2. i + 1 \in Indices(N) /\ (i + 2) - (i + 1) - 1 = 0
      BY <1>1, <2>1, <2>6 DEF Indices
    <3>3. Leads(System(N), RowSteps(N, i + 1), N - 1 - (i + 1), Cur,
                ReducedBelow(N, Cur, i + 1), 0, Cur)
      BY <1>1, <3>2, RowLeads
    <3>4. ForwardAt(Cur)'
      BY <1>1, <1>4, <2>1, <2>5, <3>1, <3>2, <3>3 DEF ForwardAt
    <3> QED
      BY <1>1, <2>1, <3>1, <3>4 DEF FunctionInv
  <2>7. CASE ~(i + 1 < N)
    <3>1. phase' = "allocate" /\ i + 1 = N
      BY <1>1, <1>6, <2>1, <2>7 DEF NextPivot
    <3>2. Cur = Half
      BY <1>1, <2>5, <3>1, LeadsTo
    <3> QED
      BY <1>4, <2>1, <3>1, <3>2 DEF FunctionInv
  <2> QED
    BY <2>6, <2>7
<1>7. CASE Allocate
  <2>1. /\ phase = "allocate" /\ phase' = "backward" /\ i' = N - 1 /\ j' = N - 2
        /\ Cur' = Cur /\ Cur = Half
    BY <1>7 DEF Allocate, Cur, FunctionInv
  <2>2. N - 1 \in Indices(N) /\ (N - 1) - 1 - (N - 2) = 0 /\ N - 1 - (N - 1) = 0
    BY LoopBounds, <1>1 DEF Indices
  <2>3. Leads(System(N), BackwardSteps(N), N, Half, Result, 0, Half)
    BY <1>1, <2>1, BackwardLeads DEF Result
  <2>4. Leads(System(N), AboveSteps(N, N - 1), N - 1, Cur, EliminatedAbove(Cur, N - 1), 0, Cur)
    BY <1>1, <2>2, AboveLeads
  <2>5. BackwardAt(Cur)'
    BY <1>1, <1>4, <2>1, <2>2, <2>3, <2>4 DEF BackwardAt
  <2> QED
    BY <1>1, <2>1, <2>5 DEF FunctionInv
<1>8. CASE AllocateFails
  <2>1. phase = "allocate" /\ phase' = "failed" /\ Cur' = Cur
    BY <1>8 DEF AllocateFails, Cur
  <2> QED
    BY <1>4, <2>1 DEF FunctionInv
<1>9. CASE Eliminate
  <2>1. /\ phase = "backward" /\ phase' = "backward" /\ i' = i /\ j' = j - 1
        /\ i \in Int /\ j \in Int /\ 0 <= j /\ j < i
    BY <1>1, <1>9, LoopBounds DEF Eliminate, LoopInv
  <2>2. PICK R \in System(N) : BackwardAt(R)
    BY <2>1 DEF FunctionInv
  <2>3. i - 1 - j \in 0 .. i - 1 /\ (i - 1 - j) + 1 = i - j /\ i \in Nat
    BY <2>1
  <2>4. Leads(System(N), AboveSteps(N, i), i, R, EliminatedAbove(R, i), i - j,
              AboveSteps(N, i)[i - j][Cur])
    BY <2>2, <2>3, LeadsOn DEF BackwardAt
  <2>5. AboveSteps(N, i)[i - j][Cur] = Cur'
    <3>1. i - j \in 1 .. i /\ i - (i - j) = j
      BY <2>1
    <3>2. AboveSteps(N, i)[i - j][Cur] = Eliminated(Cur, i, i - (i - j))
      BY <1>1, <3>1 DEF AboveSteps
    <3> QED
      BY <1>1, <1>9, <3>1, <3>2, EliminateIs
  <2>6. i - 1 - (j - 1) = i - j
    BY <2>1
  <2>7. BackwardAt(R)'
    BY <1>4, <2>1, <2>2, <2>4, <2>5, <2>6 DEF BackwardAt
  <2> QED
    BY <2>1, <2>7 DEF FunctionInv
<1>10. CASE Normalise
  <2>1. phase = "backward" /\ j = -1 /\ i \in 0 .. N - 1
    BY <1>1, <1>10, LoopBounds DEF Normalise, Indices
  <2>2. PICK R \in System(N) : BackwardAt(R)
    BY <2>1 DEF FunctionInv
  <2>3. Cur = EliminatedAbove(R, i)
    <3>1. i - 1 - j = i /\ i \in Nat
      BY <2>1
    <3> QED
      BY <2>2, <3>1, LeadsTo DEF BackwardAt
  <2>4. Cur' = Normalised(EliminatedAbove(R, i), i)
    BY <1>1, <1>10, <2>3, NormaliseIs
  <2>5. BackwardSteps(N)[N - i][R] = Cur'
    <3>1. N - i \in 1 .. N /\ N - (N - i) = i
      BY <1>1, <2>1
    <3>2. BackwardSteps(N)[N - i][R] =
            Normalised(EliminatedAbove(R, N - (N - i)), N - (N - i))
      BY <2>2, <3>1 DEF BackwardSteps, BackwardAt
    <3> QED
      BY <2>4, <3>1, <3>2
  <2>6. /\ Leads(System(N), BackwardSteps(N), N, Half, Result, N - i, Cur')
        /\ Cur' \in System(N)
    <3>1. N - 1 - i \in 0 .. N - 1 /\ (N - 1 - i) + 1 = N - i
      BY <1>1, <2>1
    <3>2. Leads(System(N), BackwardSteps(N), N, Half, Result, N - 1 - i, R)
      BY <2>2 DEF BackwardAt
    <3> QED
      BY <1>1, <2>5, <3>1, <3>2, LeadsOn
  <2>7. CASE i > 0
    <3>1. phase' = "backward" /\ i' = i - 1 /\ j' = i - 2
      BY <1>10, <2>7 DEF Normalise
    <3>2. i - 1 \in Indices(N) /\ (i - 1) - 1 - (i - 2) = 0 /\ N - 1 - (i - 1) = N - i
      BY <1>1, <2>1, <2>7 DEF Indices
    <3>3. Leads(System(N), AboveSteps(N, i - 1), i - 1, Cur',
                EliminatedAbove(Cur', i - 1), 0, Cur')
      BY <1>1, <2>6, <3>2, AboveLeads
    <3>4. BackwardAt(Cur)'
      BY <1>4, <2>6, <3>1, <3>2, <3>3 DEF BackwardAt
    <3> QED
      BY <2>6, <3>1, <3>4 DEF FunctionInv
  <2>8. CASE ~(i > 0)
    <3>1. phase' = "done" /\ N - i = N
      BY <1>1, <1>10, <2>1, <2>8 DEF Normalise
    <3>2. Cur' = Result
      BY <1>1, <2>6, <3>1, LeadsTo
    <3> QED
      BY <1>4, <3>1, <3>2 DEF FunctionInv
  <2> QED
    BY <2>7, <2>8
<1>11. CASE Returned \/ UNCHANGED vars
  <2>1. phase' = phase /\ i' = i /\ j' = j /\ Cur' = Cur
    BY <1>11 DEF Returned, vars, Cur
  <2>2. \A R \in System(N) : (ForwardAt(R) => ForwardAt(R)') /\ (BackwardAt(R) => BackwardAt(R)')
    BY <1>4, <2>1 DEF ForwardAt, BackwardAt
  <2> QED
    BY <1>4, <2>1, <2>2 DEF FunctionInv
<1> QED
  BY <1>5, <1>6, <1>7, <1>8, <1>9, <1>10, <1>11 DEF Next

LEMMA InitFunction ==
  ASSUME Init
  PROVE  FunctionInv
<1>1. TypeOK
  BY InitGauss DEF GaussInv
<1>2. /\ phase = "forward" /\ i = 0 /\ j = 1 /\ Cur = Given /\ N \in Nat
      /\ 0 \in Indices(N) /\ j - i - 1 = 0
  BY FieldFacts DEF Init, Cur, Given, SizeAssumption, Indices
<1>3. Given \in System(N)
  BY <1>1, GivenType
<1>4. Leads(System(N), ForwardSteps(N), N, Given, Half, 0, Given)
  BY <1>2, <1>3, ForwardLeads DEF Half
<1>5. Leads(System(N), RowSteps(N, 0), N - 1 - 0, Given, ReducedBelow(N, Given, 0), 0, Given)
  BY <1>2, <1>3, RowLeads
<1>6. ForwardAt(Given)
  BY <1>2, <1>3, <1>4, <1>5 DEF ForwardAt
<1> QED
  BY <1>2, <1>3, <1>6 DEF FunctionInv

-----------------------------------------------------------------------------
(* Theorems *)

\* The shapes of the matrix hold in every reachable state.
THEOREM GaussInvariant == Spec => []GaussInv
<1>1. Init => GaussInv
  BY InitGauss
<1>2. GaussInv /\ [Next]_vars => GaussInv'
  BY TypeStep, KeepStep, ShapeStep, UnitsStep, ZeroStep DEF GaussInv
<1> QED
  BY <1>1, <1>2, PTL DEF Spec

\* Every entry stays in the field and every index inside the matrix.
THEOREM GaussTypes == Spec => []TypeOK
<1>1. GaussInv => TypeOK
  BY DEF GaussInv
<1> QED
  BY <1>1, GaussInvariant, PTL

\* The forward reduction keeps the lost symbols among the solutions, zero
\* pivots and zero factors included.
THEOREM SolutionsKept == Spec => []SolutionKept
<1>1. GaussInv => SolutionKept
  BY DEF GaussInv, KeepInv, InForward, Consistent, SolutionKept
<1> QED
  BY <1>1, GaussInvariant, PTL

\* If no row was multiplied by zero the function returns the lost symbols,
\* whatever the number of equations and whatever the field.
THEOREM EliminationSolves == Spec => []Solved
<1>1. GaussInv => Solved
  <2> SUFFICES ASSUME GaussInv, phase = "done", zeroed = {}
               PROVE  B = x
    BY DEF Solved
  <2>1. x \in Unknowns /\ x \in Row /\ B \in Row
    BY FieldFacts DEF GaussInv, TypeOK, SizeAssumption
  <2>2. \A r \in Idx : A[r] = Unit(r) /\ Lhs(A[r], x) = B[r]
    BY DEF GaussInv, DoneInv, KeepInv, Consistent
  <2>3. \A r \in Idx : B[r] = x[r]
    BY <2>1, <2>2, FieldFacts DEF LhsLaws
  <2> QED
    BY <2>1, <2>3 DEF Row
<1> QED
  BY <1>1, GaussInvariant, PTL

\* A symbol whose equation was multiplied by zero is returned as zero.
THEOREM ZeroedRowsStayLost == Spec => []ZeroedStaysLost
<1>1. GaussInv => ZeroedStaysLost
  BY DEF GaussInv, ZeroInv, ZeroedStaysLost
<1> QED
  BY <1>1, GaussInvariant, PTL

\* The nested loops of gf_256_gaussian_elimination compute the function that
\* Decoder takes for a call of it, for every number of equations, if they end
\* and if there is no memory for the second one: what is proved of the
\* function holds of the code's loops.
THEOREM LoopsComputeFunction == Spec => []AsFunction
<1>1. Init => FunctionInv
  BY InitFunction
<1>2. GaussInv /\ FunctionInv /\ [Next]_vars => FunctionInv'
  BY FunctionStep
<1>3. Spec => []FunctionInv
  BY <1>1, <1>2, GaussInvariant, PTL DEF Spec
<1>4. FunctionInv => AsFunction
  <2>1. Resolved(N, Given.A, Given.B) = Result /\ HalfReduced(N, Given.A, Given.B) = Half
    BY DEF Resolved, HalfReduced, Result, Half, Given
  <2>2. Given.A = given /\ Given.B = [r \in Idx |-> Lhs(given[r], x)]
    BY DEF Given
  <2>3. Cur.A = A /\ Cur.B = B /\ Cur.zeroed = zeroed
    BY DEF Cur
  <2> QED
    BY <2>1, <2>2, <2>3 DEF FunctionInv, AsFunction
<1> QED
  BY <1>3, <1>4, PTL
=============================================================================
