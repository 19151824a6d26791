----------------------------- MODULE SmallField -----------------------------
(***************************************************************************)
(* The field with four elements, for TLC: the smallest of characteristic 2 *)
(* with an element that is neither 0 nor 1.  Its elements 0, 1, 2, 3 are   *)
(* added as bit vectors; 1, 2, 3 are the powers 0, 1, 2 of the element 2.  *)
(***************************************************************************)
EXTENDS Integers

GF4 == 0 .. 3

AddGF4(a, b) == ((a + b) % 2) + 2 * (((a \div 2) + (b \div 2)) % 2)

MulGF4(a, b) == IF a = 0 \/ b = 0 THEN 0 ELSE 1 + ((a + b - 2) % 3)

InvGF4(a) == IF a = 0 THEN 0 ELSE 1 + ((4 - a) % 3)
=============================================================================
