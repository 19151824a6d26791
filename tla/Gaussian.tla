------------------------------ MODULE Gaussian ------------------------------
(***************************************************************************)
(* gf_256_gaussian_elimination of system.c, one step per iteration of its  *)
(* inner loops.  Elimination has the vector operations, and the function   *)
(* that these steps compute.                                               *)
(***************************************************************************)
EXTENDS Elimination

CONSTANTS
  N,           \* system_size, the number of equations and of unknowns
  Matrices,    \* the matrices A the function is called with
  Unknowns     \* the symbols that were lost

Idx     == 0 .. N - 1
Row     == [Idx -> Elem]
Unit(r) == [c \in Idx |-> IF c = r THEN One ELSE Zero]

\* nb_unk is not 0 when the function is called.
SizeAssumption ==
  /\ N \in Nat \ {0}
  /\ Matrices \subseteq [Idx -> Row]
  /\ Unknowns \subseteq Row

ASSUME GaussianAssumption == SizeAssumption

\* The left side of the equation with these coefficients.
Lhs(row, y) == SumOf([c \in Idx |-> Mul(row[c], y[c])])

VARIABLES
  phase,      \* the part of the function being executed
  i, j,       \* its loop variables
  A, B,       \* its arguments
  given,      \* the matrix it is given
  x,          \* the lost symbols, which solve the system it is given
  singular,   \* the system it is given has other solutions as well
  zeroed      \* the rows it multiplied by zero

vars == <<phase, i, j, A, B, given, x, singular, zeroed>>

Init ==
  /\ phase = "forward"
  /\ i = 0 /\ j = 1
  /\ A \in Matrices
  /\ given = A
  /\ x \in Unknowns
  /\ B = [r \in Idx |-> Lhs(A[r], x)]
  /\ singular =
       \E y \in Row : y # x /\ \A r \in Idx : Lhs(A[r], y) = B[r]
  /\ zeroed = {}

-----------------------------------------------------------------------------

\* The multiple of row i that is added to row r.
FactorUpsideDown(r) == Mul(A[i][i], Inv(A[r][i]))
Factor(r)           == Mul(A[r][i], Inv(A[i][i]))

\* What the pivot row's right side becomes.
UnscaledRhs(f)  == B[i]
PlainProduct(f) == B[i] * f
ScaledRhs(f)    == Mul(B[i], f)

\* Row i is multiplied in place and then added to row j: it keeps the factor.
Reduce ==
  /\ phase = "forward"
  /\ j < N
  /\ LET f == Factor(j)
         pivot == Scale(f, A[i])
     IN  /\ A' = [A EXCEPT ![i] = pivot, ![j] = Plus(A[j], pivot)]
         /\ B' = [B EXCEPT ![i] = ScaledRhs(f), ![j] = Add(B[j], ScaledRhs(f))]
         /\ zeroed' = IF f = Zero THEN zeroed \cup {i} ELSE zeroed
  /\ j' = j + 1
  /\ UNCHANGED <<phase, i, given, x, singular>>

NextPivot ==
  /\ phase = "forward"
  /\ j >= N
  /\ IF i + 1 < N
     THEN i' = i + 1 /\ j' = i + 2 /\ UNCHANGED phase
     ELSE phase' = "allocate" /\ UNCHANGED <<i, j>>
  /\ UNCHANGED <<A, B, given, x, singular, zeroed>>

Allocate ==
  /\ phase = "allocate"
  /\ phase' = "backward"
  /\ i' = N - 1 /\ j' = N - 2
  /\ UNCHANGED <<A, B, given, x, singular, zeroed>>

\* The function returns -1 and leaves A and B half reduced.
AllocateFails ==
  /\ phase = "allocate"
  /\ phase' = "failed"
  /\ UNCHANGED <<i, j, A, B, given, x, singular, zeroed>>

\* Only the entry above the pivot is computed; the rest of row j keeps its
\* values, as if row i held nothing else.
Eliminate ==
  /\ phase = "backward"
  /\ j >= 0
  /\ IF A[j][i] # Zero
     THEN LET f == Factor(j)
          IN  /\ A' = [A EXCEPT ![j][i] = Add(@, Mul(A[i][i], f))]
              /\ B' = [B EXCEPT ![j] = Add(@, Mul(B[i], f))]
     ELSE UNCHANGED <<A, B>>
  /\ j' = j - 1
  /\ UNCHANGED <<phase, i, given, x, singular, zeroed>>

KeepZeroPivot == IF A[i][i] = Zero THEN One ELSE Inv(A[i][i])
PivotInverse  == Inv(A[i][i])

Normalise ==
  /\ phase = "backward"
  /\ j < 0
  /\ A' = [A EXCEPT ![i][i] = Mul(@, PivotInverse)]
  /\ B' = [B EXCEPT ![i] = Mul(@, PivotInverse)]
  /\ zeroed' = IF A[i][i] = Zero THEN zeroed \cup {i} ELSE zeroed
  /\ IF i > 0
     THEN i' = i - 1 /\ j' = i - 2 /\ UNCHANGED phase
     ELSE phase' = "done" /\ UNCHANGED <<i, j>>
  /\ UNCHANGED <<given, x, singular>>

\* The function has returned; any other state without a step is a deadlock.
Returned == phase \in {"done", "failed"} /\ UNCHANGED vars

Next ==
  \/ Reduce \/ NextPivot \/ Allocate \/ AllocateFails \/ Eliminate \/ Normalise
  \/ Returned

Spec == Init /\ [][Next]_vars

-----------------------------------------------------------------------------

\* Types of the variables and the bounds of the loops.
TypeOK ==
  /\ phase \in {"forward", "allocate", "backward", "done", "failed"}
  /\ i \in Idx
  /\ j \in -1 .. N
  /\ A \in [Idx -> Row]
  /\ B \in Row
  /\ given \in Matrices /\ x \in Unknowns
  /\ singular \in BOOLEAN
  /\ zeroed \in SUBSET Idx

\* Until the backward reduction the lost symbols solve every equation, even
\* when a pivot or a factor is zero: the function may lose equations there but
\* never makes one up.
SolutionKept ==
  phase \in {"forward", "allocate", "failed"} =>
    \A r \in Idx : Lhs(A[r], x) = B[r]

\* If no row was ever multiplied by zero, B holds the lost symbols.
Solved == phase = "done" /\ zeroed = {} => B = x

\* A row that was multiplied by zero ends up with the zero symbol, the value
\* that means "lost", whatever was done to the other rows.
ZeroedStaysLost == phase = "done" => \A r \in zeroed : B[r] = Zero

\* The loops compute the function of Elimination, which Decoder calls: after
\* both reductions, and after the first when there is no memory for the second.
AsFunction ==
  LET rhs     == [r \in Idx |-> Lhs(given[r], x)]
      Left(s) == A = s.A /\ B = s.B /\ zeroed = s.zeroed
  IN  /\ phase = "done"   => Left(Resolved(N, given, rhs))
      /\ phase = "failed" => Left(HalfReduced(N, given, rhs))

\* system.h:67 says "Resolve the linear system Ax=b in a Galois Field 256. The
\* result is stored in the independent terms after the resolution".
Resolves == phase = "done" /\ ~singular => B = x
=============================================================================
