------------------------------- MODULE TinyMT -------------------------------
(***************************************************************************)
(* The generator of tinymt32.c.  A uint32_t is the set of its bits that    *)
(* are 1, 0 being the lowest.  The array status is a sequence of four      *)
(* words, so status[k] of the code is the element k + 1; mat1, mat2 and    *)
(* tmat have the values processBlocks gives them.                          *)
(***************************************************************************)
EXTENDS Integers, Sequences, Folds

Bits == 0 .. 31
Word == SUBSET Bits

\* The word with these halves, and the one with a small value.
Halves(high, low) ==
  {k \in Bits : (IF k < 16 THEN low \div 2^k ELSE high \div 2^(k - 16)) % 2 = 1}
Small(n) == Halves(0, n)

Xor(a, b)        == (a \ b) \cup (b \ a)
ShiftLeft(a, n)  == {k \in Bits : k - n \in a}
ShiftRight(a, n) == {k \in Bits : k + n \in a}

\* Addition and multiplication modulo 2^32: a carry comes from a place where
\* both have a 1 and goes through places where one of them has.
CarryInto(a, b, k) ==
  \E from \in a \cap b : from < k /\ from + 1 .. k - 1 \subseteq a \cup b

Plus(a, b) == {k \in Bits : (k \in Xor(a, b)) # CarryInto(a, b, k)}

Times(a, b) ==
  MapThenFoldSet(Plus, {}, LAMBDA k : ShiftLeft(a, k),
                 LAMBDA S : CHOOSE k \in S : TRUE, b)

\* The low byte, which is all gen_coefs keeps.
LowByte(a) ==
  MapThenFoldSet(+, 0, LAMBDA k : 2^k, LAMBDA S : CHOOSE k \in S : TRUE, a \cap 0 .. 7)

mat1 == Halves(\h8f70, \h11ee)
mat2 == Halves(\hfc78, \hff1f)
tmat == Halves(\h3793, \hfdff)

\* -(y & 1) & a: the word a if y is odd.
IfOdd(y, a) == IF 0 \in y THEN a ELSE {}

\* TINYMT32_MASK leaves out the highest bit.
Masked(a) == a \ {31}

State == Word \X Word \X Word \X Word

\* The state that next_state maps to itself.
AllZero(s) == Masked(s[1]) = {} /\ s[2] = {} /\ s[3] = {} /\ s[4] = {}

-----------------------------------------------------------------------------

SeedState(seed) == <<seed, mat1, mat2, tmat>>

\* 1812433253
Multiplier == Halves(\h6c07, \h8965)

\* One iteration of the loop of tinymt32_init.
Mixed(s, i) ==
  LET previous == s[((i - 1) % 4) + 1]
      product  == Times(Multiplier, Xor(previous, ShiftRight(previous, 30)))
  IN  [s EXCEPT ![(i % 4) + 1] = Xor(@, Plus(Small(i), product))]

\* period_certification; the letters are 'T', 'I', 'N', 'Y'.
Certified(s) ==
  IF AllZero(s) THEN <<Small(84), Small(73), Small(78), Small(89)>> ELSE s

\* tinymt32_next_state
NewX(s) == LET x == Xor(Xor(Masked(s[1]), s[2]), s[3]) IN Xor(x, ShiftLeft(x, 1))
NewY(s) == Xor(s[4], Xor(ShiftRight(s[4], 1), NewX(s)))

NextState(s) ==
  << s[2],
     Xor(s[3], IfOdd(NewY(s), mat1)),
     Xor(Xor(NewX(s), ShiftLeft(NewY(s), 10)), IfOdd(NewY(s), mat2)),
     NewY(s) >>

\* t1 as the exclusive or of the two words, which is what a build with
\* LINEARITY_CHECK computes.
TemperedLinearly(s) ==
  LET t1 == Xor(s[1], ShiftRight(s[3], 8))
  IN  Xor(Xor(s[4], t1), IfOdd(t1, tmat))

\* tinymt32_temper
Tempered(s) ==
  LET t1 == Plus(s[1], ShiftRight(s[3], 8))
  IN  Xor(Xor(s[4], t1), IfOdd(t1, tmat))
=============================================================================
