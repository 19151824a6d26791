---------------------------- MODULE Elimination -----------------------------
(***************************************************************************)
(* gf_256_gaussian_elimination of system.c as a function of its arguments, *)
(* for the modules that call it: Gaussian takes the same loops step by     *)
(* step.  A system is a record of the matrix A, the right sides B and the  *)
(* rows that were multiplied by zero, with n equations and unknowns.       *)
(***************************************************************************)
EXTENDS Integers, Sequences, SequencesExt, ByteField

\* The values of a loop variable that goes up, or down.
Upward(from, to)   == [k \in 1 .. to - from + 1 |-> from + k - 1]
Downward(from, to) == [k \in 1 .. from - to + 1 |-> from - k + 1]

\* gf_256_mul_vector and gf_256_full_add_vector.
Scale(f, row)  == [c \in DOMAIN row |-> Mul(row[c], f)]
Plus(row, add) == [c \in DOMAIN row |-> Add(row[c], add[c])]

FactorOf(s, i, j) == Mul(s.A[j][i], Inv(s.A[i][i]))

WithZeroed(s, f, i) == IF f = Zero THEN s.zeroed \cup {i} ELSE s.zeroed

\* One iteration of the inner loop of the forward reduction.
Reduced(s, i, j) ==
  LET f     == FactorOf(s, i, j)
      pivot == Scale(f, s.A[i])
      rhs   == Mul(s.B[i], f)
  IN  [A      |-> [s.A EXCEPT ![i] = pivot, ![j] = Plus(@, pivot)],
       B      |-> [s.B EXCEPT ![i] = rhs, ![j] = Add(@, rhs)],
       zeroed |-> WithZeroed(s, f, i)]

ReducedBelow(n, s, i) ==
  FoldLeft(LAMBDA t, j : Reduced(t, i, j), s, Upward(i + 1, n - 1))

Forward(n, s) ==
  FoldLeft(LAMBDA t, i : ReducedBelow(n, t, i), s, Upward(0, n - 1))

\* One iteration of the inner loop of the backward reduction.
Eliminated(s, i, j) ==
  IF s.A[j][i] = Zero THEN s
  ELSE LET f == FactorOf(s, i, j)
       IN  [s EXCEPT !.A[j][i] = Add(@, Mul(s.A[i][i], f)),
                     !.B[j]    = Add(@, Mul(s.B[i], f))]

EliminatedAbove(s, i) ==
  FoldLeft(LAMBDA t, j : Eliminated(t, i, j), s, Downward(i - 1, 0))

\* A row whose pivot is zero is left alone.
NormalisedIfPossible(s, i) ==
  IF s.A[i][i] = Zero THEN [s EXCEPT !.zeroed = @ \cup {i}]
  ELSE [s EXCEPT !.A[i][i] = Mul(@, Inv(s.A[i][i])),
                 !.B[i]    = Mul(@, Inv(s.A[i][i]))]

\* The row is divided by its pivot, whatever the pivot is.
Normalised(s, i) ==
  [s EXCEPT !.A[i][i] = Mul(@, Inv(s.A[i][i])),
            !.B[i]    = Mul(@, Inv(s.A[i][i])),
            !.zeroed  = WithZeroed(s, s.A[i][i], i)]

Backward(n, s) ==
  FoldLeft(LAMBDA t, i : Normalised(EliminatedAbove(t, i), i), s, Downward(n - 1, 0))

\* What the function leaves behind: if the malloc of temp fails, and otherwise.
HalfReduced(n, A, B) == Forward(n, [A |-> A, B |-> B, zeroed |-> {}])
Resolved(n, A, B)    == Backward(n, HalfReduced(n, A, B))
=============================================================================
