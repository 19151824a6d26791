----------------------------- MODULE ByteField ------------------------------
(***************************************************************************)
(* The bytes 0 .. 255 with the exclusive or and the tables gf256_mul_table *)
(* and gf256_inv_table: a field of characteristic 2.  Every module that    *)
(* computes with symbols is written for any such field, so that TLC can    *)
(* use a smaller one.  The operations treat each byte of a symbol like     *)
(* every other one, so a symbol is one element.                            *)
(***************************************************************************)
EXTENDS Folds

CONSTANTS Elem, Zero, One, Add(_, _), Mul(_, _), Inv(_)

\* The inverse of 0 in the table is 0.
FieldAssumption ==
  /\ Zero \in Elem /\ One \in Elem
  /\ One # Zero
  /\ \A a \in Elem :
       /\ Add(a, a) = Zero /\ Add(Zero, a) = a /\ Add(a, Zero) = a
       /\ Mul(a, One) = a /\ Mul(One, a) = a
       /\ Mul(a, Zero) = Zero /\ Mul(Zero, a) = Zero
       /\ Inv(a) \in Elem
       /\ a # Zero => Mul(a, Inv(a)) = One
  /\ Inv(Zero) = Zero
  /\ \A a, c \in Elem :
       /\ Add(a, c) \in Elem /\ Mul(a, c) \in Elem
       /\ Add(a, c) = Add(c, a) /\ Mul(a, c) = Mul(c, a)
  /\ \A a, c, d \in Elem :
       /\ Add(Add(a, c), d) = Add(a, Add(c, d))
       /\ Mul(Mul(a, c), d) = Mul(a, Mul(c, d))
       /\ Mul(Add(a, c), d) = Add(Mul(a, d), Mul(c, d))

ASSUME ByteFieldAssumption == FieldAssumption

\* The sum of the values of f.
SumOf(f) ==
  MapThenFoldSet(Add, Zero, LAMBDA s : f[s], LAMBDA T : CHOOSE s \in T : TRUE, DOMAIN f)
=============================================================================
