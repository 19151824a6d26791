----------------------------- MODULE TableField -----------------------------
(***************************************************************************)
(* The field that gf256_tables.h tabulates: bytes are polynomials over two *)
(* elements, added by the exclusive or, and multiplied modulo the          *)
(* polynomial x^8 + x^4 + x^3 + x^2 + 1.  A byte is the set of its bits    *)
(* that are 1.                                                             *)
(***************************************************************************)
EXTENDS Integers

GF256 == SUBSET (0 .. 7)

AddGF256(a, c) == (a \ c) \cup (c \ a)

\* The row of gf256_mul_table for 2, the polynomial x.
Doubled(a) == AddGF256({k + 1 : k \in a \ {7}}, IF 7 \in a THEN {0, 2, 3, 4} ELSE {})

\* The product is doubled for each bit of c, from the highest on, and a is added
\* where the bit is 1.
MulGF256(a, c) ==
  LET Term(k)    == IF k \in c THEN a ELSE {}
      Next(p, k) == AddGF256(Doubled(p), Term(k))
  IN  Next(Next(Next(Next(Next(Next(Next(Term(7), 6), 5), 4), 3), 2), 1), 0)

\* gf256_inv_table has 0 for 0.
InvGF256(a) == IF a = {} THEN {} ELSE CHOOSE c \in GF256 : MulGF256(a, c) = {0}
=============================================================================
