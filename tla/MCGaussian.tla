----------------------------- MODULE MCGaussian -----------------------------
(***************************************************************************)
(* Instances of Gaussian over the field with four elements.                *)
(***************************************************************************)
EXTENDS Gaussian, SmallField

\* Two equations that have one solution, the first pivot not zero, so that a factor
\* is zero only where the entry below that pivot is.
PivotsNotZero ==
  {m \in [Idx -> Row] :
     m[0][0] # 0 /\ MulGF4(m[0][0], m[1][1]) # MulGF4(m[0][1], m[1][0])}
AllUnknowns == Row

\* Three equations, the first from one of four rows: all entries, a zero at the
\* pivot, a zero elsewhere, nothing but the pivot.
FirstRows == {<<1, 2, 3>>, <<0, 1, 2>>, <<3, 0, 1>>, <<2, 0, 0>>}
SomeMatrices ==
  {m \in [Idx -> Row] : \E f \in FirstRows : \A c \in Idx : m[0][c] = f[c + 1]}
SomeUnknowns == {[c \in Idx |-> <<1, 2, 3>>[c + 1]], [c \in Idx |-> <<3, 0, 2>>[c + 1]]}
=============================================================================
