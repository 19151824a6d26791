------------------------- MODULE CoefficientsProofs -------------------------
(***************************************************************************)
(* No seed brings the generator into the state of zeros, in which it would *)
(* stay and make every coefficient equal: next_state maps no other state   *)
(* to that one, and tinymt32_init replaces it before its first step.  The  *)
(* matrix stays inside the memory allocated for it and takes its           *)
(* coefficients from one sequence.                                         *)
(***************************************************************************)
EXTENDS Coefficients, TLAPS

\* A word that equals itself shifted by one place to the left is zero: each bit
\* is the one below it, and the lowest has none.
LEMMA LeftChain ==
  ASSUME NEW x \in Word, Xor(x, ShiftLeft(x, 1)) = {}
  PROVE  x = {}
<1>1. \A k \in Bits : k \in x <=> k - 1 \in x
  BY DEF Xor, ShiftLeft, Word
<1>2. -1 \notin x
  BY DEF Word, Bits
<1>3. 0 \notin x /\ 1 \notin x /\ 2 \notin x /\ 3 \notin x /\ 4 \notin x /\ 5 \notin x
      /\ 6 \notin x /\ 7 \notin x /\ 8 \notin x /\ 9 \notin x /\ 10 \notin x
  BY <1>1, <1>2 DEF Bits
<1>4. 11 \notin x /\ 12 \notin x /\ 13 \notin x /\ 14 \notin x /\ 15 \notin x
      /\ 16 \notin x /\ 17 \notin x /\ 18 \notin x /\ 19 \notin x /\ 20 \notin x
  BY <1>1, <1>3 DEF Bits
<1>5. 21 \notin x /\ 22 \notin x /\ 23 \notin x /\ 24 \notin x /\ 25 \notin x
      /\ 26 \notin x /\ 27 \notin x /\ 28 \notin x /\ 29 \notin x /\ 30 \notin x
      /\ 31 \notin x
  BY <1>1, <1>4 DEF Bits
<1> QED
  BY <1>3, <1>4, <1>5 DEF Word, Bits

\* The same to the right, from the highest bit down.
LEMMA RightChain ==
  ASSUME NEW y \in Word, Xor(y, ShiftRight(y, 1)) = {}
  PROVE  y = {}
<1>1. \A k \in Bits : k \in y <=> k + 1 \in y
  BY DEF Xor, ShiftRight, Word
<1>2. 32 \notin y
  BY DEF Word, Bits
<1>3. 31 \notin y /\ 30 \notin y /\ 29 \notin y /\ 28 \notin y /\ 27 \notin y
      /\ 26 \notin y /\ 25 \notin y /\ 24 \notin y /\ 23 \notin y /\ 22 \notin y
  BY <1>1, <1>2 DEF Bits
<1>4. 21 \notin y /\ 20 \notin y /\ 19 \notin y /\ 18 \notin y /\ 17 \notin y
      /\ 16 \notin y /\ 15 \notin y /\ 14 \notin y /\ 13 \notin y /\ 12 \notin y
  BY <1>1, <1>3 DEF Bits
<1>5. 11 \notin y /\ 10 \notin y /\ 9 \notin y /\ 8 \notin y /\ 7 \notin y
      /\ 6 \notin y /\ 5 \notin y /\ 4 \notin y /\ 3 \notin y /\ 2 \notin y
      /\ 1 \notin y /\ 0 \notin y
  BY <1>1, <1>4 DEF Bits
<1> QED
  BY <1>3, <1>4, <1>5 DEF Word, Bits

LEMMA WordTypes ==
  ASSUME NEW a \in Word, NEW c \in Word, NEW n \in Nat
  PROVE  /\ Xor(a, c) \in Word /\ Plus(a, c) \in Word
         /\ ShiftLeft(a, n) \in Word /\ ShiftRight(a, n) \in Word
         /\ IfOdd(a, c) \in Word /\ Masked(a) \in Word
  BY DEF Word, Xor, Plus, ShiftLeft, ShiftRight, IfOdd, Masked

LEMMA ConstantTypes ==
  /\ mat1 \in Word /\ mat2 \in Word /\ tmat \in Word
  /\ \A n : Small(n) \in Word
  BY DEF mat1, mat2, tmat, Small, Halves, Word

LEMMA NextStateTypes ==
  ASSUME NEW s \in State
  PROVE  NextState(s) \in State /\ NewX(s) \in Word /\ NewY(s) \in Word
<1>1. s[1] \in Word /\ s[2] \in Word /\ s[3] \in Word /\ s[4] \in Word
  BY DEF State
<1>2. NewX(s) \in Word
  <2> DEFINE x == Xor(Xor(Masked(s[1]), s[2]), s[3])
  <2>1. x \in Word
    BY <1>1, WordTypes
  <2> QED
    BY <2>1, WordTypes DEF NewX
<1>3. NewY(s) \in Word
  BY <1>1, <1>2 DEF NewY, Word, Xor, ShiftRight
<1>4. /\ Xor(s[3], IfOdd(NewY(s), mat1)) \in Word
      /\ Xor(Xor(NewX(s), ShiftLeft(NewY(s), 10)), IfOdd(NewY(s), mat2)) \in Word
  BY <1>1, <1>2, <1>3, ConstantTypes DEF Word, Xor, ShiftLeft, IfOdd
<1> QED
  BY <1>1, <1>2, <1>3, <1>4 DEF NextState, State

\* tinymt32_next_state is injective at zero: only the state of zeros leads
\* there.
LEMMA NextStateNotZero ==
  ASSUME NEW s \in State, AllZero(NextState(s))
  PROVE  AllZero(s)
<1> DEFINE x == Xor(Xor(Masked(s[1]), s[2]), s[3])
<1>1. s[1] \in Word /\ s[2] \in Word /\ s[3] \in Word /\ s[4] \in Word
  BY DEF State
<1>2. /\ Masked(s[2]) = {}
      /\ Xor(s[3], IfOdd(NewY(s), mat1)) = {}
      /\ Xor(Xor(NewX(s), ShiftLeft(NewY(s), 10)), IfOdd(NewY(s), mat2)) = {}
      /\ NewY(s) = {}
  BY DEF AllZero, NextState
<1>3. s[3] = {}
  BY <1>2 DEF Xor, IfOdd
<1>4. NewX(s) = {}
  BY <1>2 DEF Xor, IfOdd, ShiftLeft
<1>5. x \in Word
  BY <1>1, WordTypes
<1>6. Xor(x, ShiftLeft(x, 1)) = {}
  BY <1>4 DEF NewX
<1>7. x = {}
  BY <1>5, <1>6, LeftChain
<1>8. Xor(Masked(s[1]), s[2]) = {}
  BY <1>3, <1>7 DEF Xor
<1>9. s[2] = {} /\ Masked(s[1]) = {}
  BY <1>2, <1>8 DEF Xor, Masked
<1>10. Xor(s[4], ShiftRight(s[4], 1)) = {}
  BY <1>2, <1>4 DEF NewY, Xor
<1>11. s[4] = {}
  BY <1>1, <1>10, RightChain
<1> QED
  BY <1>3, <1>9, <1>11 DEF AllZero

LEMMA CertifiedNotZero ==
  ASSUME NEW s \in State
  PROVE  Certified(s) \in State /\ ~ AllZero(Certified(s))
<1>1. 0 \in Small(73)
  BY DEF Small, Halves, Bits
<1>2. ~ AllZero(<<Small(84), Small(73), Small(78), Small(89)>>)
  BY <1>1 DEF AllZero
<1>3. <<Small(84), Small(73), Small(78), Small(89)>> \in State
  BY ConstantTypes DEF State
<1> QED
  BY <1>2, <1>3 DEF Certified

\* The state is made of words, and is not zero once it was certified.
IInv ==
  /\ status \in State
  /\ phase = "mix" => i \in Nat
  /\ NeverStuck

LEMMA InitIInv == Init => IInv
<1> SUFFICES ASSUME Init PROVE IInv
  OBVIOUS
<1>1. SeedState(seed) \in State
  BY CoefficientsAssumption, ConstantTypes DEF Init, SeedState, State
<1> QED
  BY <1>1 DEF Init, IInv, NeverStuck

LEMMA MixedTypes ==
  ASSUME NEW s \in State, NEW n \in Nat
  PROVE  Mixed(s, n) \in State
<1> DEFINE previous == s[((n - 1) % 4) + 1]
           product  == Times(Multiplier, Xor(previous, ShiftRight(previous, 30)))
           w        == Plus(Small(n), product)
<1>1. w \in Word
  BY DEF Plus, Word
<1> HIDE DEF w
<1>2. \A k \in 1 .. 4 : s[k] \in Word /\ Xor(s[k], w) \in Word
  BY <1>1 DEF State, Xor, Word
<1>3. (n % 4) + 1 \in 1 .. 4
  OBVIOUS
<1>4. Mixed(s, n) = [s EXCEPT ![(n % 4) + 1] = Xor(@, w)]
  BY DEF Mixed, w
<1> QED
  BY <1>2, <1>3, <1>4 DEF State

LEMMA NextIInv == IInv /\ [Next]_vars => IInv'
<1> SUFFICES ASSUME IInv, [Next]_vars PROVE IInv'
  OBVIOUS
<1> USE DEF IInv, NeverStuck
<1>1. CASE Mix
  BY <1>1, MixedTypes DEF Mix
<1>2. CASE Certify
  BY <1>2, CertifiedNotZero DEF Certify
<1>3. CASE PreLoop
  BY <1>3, NextStateTypes, NextStateNotZero DEF PreLoop
<1>4. CASE CallGenCoefs
  BY <1>4 DEF CallGenCoefs
<1>5. CASE NewRow
  BY <1>5 DEF NewRow
<1>6. CASE NextCoef
  BY <1>6, NextStateTypes, NextStateNotZero DEF NextCoef
<1>7. CASE GenCoefsFails
  BY <1>7 DEF GenCoefsFails
<1>8. CASE GenCoefsReturns
  BY <1>8 DEF GenCoefsReturns
<1>9. CASE UNCHANGED vars
  BY <1>9 DEF vars
<1> QED
  BY <1>1, <1>2, <1>3, <1>4, <1>5, <1>6, <1>7, <1>8, <1>9 DEF Next, Returned

\* From the certification on the generator is never in the state of zeros:
\* from no seed, and however many coefficients are made.
THEOREM GeneratorNeverStuck == Spec => []NeverStuck
<1>1. IInv => NeverStuck
  BY DEF IInv
<1> QED
  BY InitIInv, NextIInv, <1>1, PTL DEF Spec

-----------------------------------------------------------------------------
\* What gen_coefs can put into a matrix.
Bytes == {LowByte(w) : w \in Word}

\* The rows are made one after the other: all but the last are as long as they
\* get, and the last one is no longer.
RowsInv ==
  /\ res \in Seq(Seq(Bytes))
  /\ Len(res) <= nss
  /\ \A r \in DOMAIN res : Len(res[r]) <= nrs
  /\ \A r \in DOMAIN res : r < Len(res) => Len(res[r]) = nrs

TypeInv == TypeOK /\ RowsInv

LEMMA TemperedType ==
  ASSUME NEW s \in State
  PROVE  Coef(s) \in Bytes
<1>1. s[1] \in Word /\ s[3] \in Word /\ s[4] \in Word
  BY DEF State
<1> DEFINE t1 == Plus(s[1], ShiftRight(s[3], 8))
<1>2. t1 \in Word
  BY DEF Plus, Word
<1>3. Xor(s[4], t1) \in Word /\ IfOdd(t1, tmat) \in Word
  <2> HIDE DEF t1
  <2> QED
    BY <1>1, <1>2, ConstantTypes, WordTypes
<1>4. Xor(Xor(s[4], t1), IfOdd(t1, tmat)) \in Word
  <2> HIDE DEF t1
  <2> QED
    BY <1>3 DEF Xor, Word
<1> QED
  BY <1>4 DEF Coef, Tempered, Bytes

LEMMA InitTypes == Init => TypeInv
<1> SUFFICES ASSUME Init PROVE TypeInv
  OBVIOUS
<1>1. seed \in Word /\ nss \in Nat /\ nrs \in Nat
  BY CoefficientsAssumption DEF Init
<1>2. status \in State
  BY InitIInv DEF IInv
<1> QED
  BY <1>1, <1>2 DEF Init, TypeInv, TypeOK, RowsInv

LEMMA NextTypes == TypeInv /\ IInv /\ [Next]_vars => TypeInv'
<1> SUFFICES ASSUME TypeInv, IInv, [Next]_vars PROVE TypeInv'
  OBVIOUS
<1>1. status' \in State
  BY NextIInv DEF IInv
<1> USE DEF TypeInv, TypeOK, RowsInv
<1>2. CASE Mix
  BY <1>1, <1>2 DEF Mix, MIN_LOOP
<1>3. CASE Certify
  BY <1>1, <1>3 DEF Certify
<1>4. CASE PreLoop
  BY <1>1, <1>4 DEF PreLoop, PRE_LOOP
<1>5. CASE CallGenCoefs
  BY <1>5 DEF CallGenCoefs
<1>6. CASE NewRow
  BY <1>6 DEF NewRow, RowDone
<1>7. CASE NextCoef
  <2> DEFINE byte == Coef(status')
  <2>1. byte \in Bytes
    BY <1>1, TemperedType
  <2>2. /\ phase' = phase /\ seed' = seed /\ nss' = nss /\ nrs' = nrs /\ i' = i
        /\ res' = [res EXCEPT ![Len(res)] = Append(@, byte)]
    BY <1>7 DEF NextCoef, Placed
  <2> HIDE DEF byte
  <2>3. Len(res) \in DOMAIN res /\ Len(res[Len(res)]) < nrs
    <3>1. PICK r \in DOMAIN res : ~ (Len(res[r]) >= nrs)
      BY <1>7 DEF NextCoef, RowDone
    <3>2. Len(res[r]) \in Nat /\ r \in 1 .. Len(res) /\ Len(res) \in Nat
      OBVIOUS
    <3>3. r = Len(res)
      BY <3>1, <3>2
    <3> QED
      BY <3>1, <3>2, <3>3
  <2> DEFINE longer == Append(res[Len(res)], byte)
  <2>4. longer \in Seq(Bytes) /\ Len(longer) = Len(res[Len(res)]) + 1
    BY <2>1, <2>3
  <2> HIDE DEF longer
  <2>5. res' = [res EXCEPT ![Len(res)] = longer]
    BY <2>2 DEF longer
  <2>6. /\ res' \in Seq(Seq(Bytes)) /\ Len(res') = Len(res)
        /\ DOMAIN res' = DOMAIN res
        /\ res'[Len(res)] = longer
        /\ \A r \in DOMAIN res : r # Len(res) => res'[r] = res[r]
    BY <2>3, <2>4, <2>5
  <2> QED
    BY <1>1, <2>2, <2>3, <2>4, <2>6
<1>8. CASE GenCoefsFails
  BY <1>8 DEF GenCoefsFails
<1>9. CASE GenCoefsReturns
  BY <1>9 DEF GenCoefsReturns
<1>10. CASE UNCHANGED vars
  BY <1>10 DEF vars
<1> QED
  BY <1>2, <1>3, <1>4, <1>5, <1>6, <1>7, <1>8, <1>9, <1>10 DEF Next, Returned

\* The state always consists of words, and the matrix never outgrows the
\* memory that gen_coefs allocates for it: no more than nss rows are written,
\* none of them with more than nrs coefficients.
THEOREM MatrixFits == Spec => []TypeOK
<1>1. TypeInv => TypeOK
  BY DEF TypeInv
<1> QED
  BY InitIInv, NextIInv, InitTypes, NextTypes, <1>1, PTL DEF Spec

-----------------------------------------------------------------------------
(* The matrix as one sequence *)

LEMMA LessByRow ==
  ASSUME NEW a \in Int, NEW b \in Int, NEW n \in Nat, a < b
  PROVE  (a * n) + n <= b * n
<1>1. b - a - 1 \in Nat
  OBVIOUS
<1>2. (b - a - 1) * n >= 0
  BY <1>1
<1> QED
  BY <1>2

\* The place of the k-th of some rows of n and m more.
LEMMA PlaceOf ==
  ASSUME NEW n \in Nat \ {0}, NEW q \in Nat, NEW m \in 0 .. n, NEW k \in 1 .. (q * n) + m
  PROVE  /\ (k - 1) \div n \in 0 .. q /\ (k - 1) % n \in 0 .. n - 1
         /\ (k - 1) \div n = q => (k - 1) % n < m
<1> DEFINE a == (k - 1) \div n
           b == (k - 1) % n
<1>0. k - 1 \in Nat /\ q * n \in Nat
  OBVIOUS
<1>1. a \in Nat
  BY <1>0
<1>2. b \in Nat /\ b < n
  BY <1>0
<1>3. k - 1 = (a * n) + b
  BY <1>0
<1>4. k - 1 < (q * n) + m
  BY <1>0
<1> HIDE DEF a, b
<1>5. ~ (q < a)
  BY <1>1, <1>2, <1>3, <1>4, LessByRow
<1>6. a = q => b < m
  BY <1>2, <1>3, <1>4
<1> QED
  BY <1>1, <1>2, <1>5, <1>6 DEF a, b

LEMMA PlaceNext ==
  ASSUME NEW n \in Nat \ {0}, NEW q \in Nat, NEW m \in 0 .. n - 1
  PROVE  ((q * n) + m) \div n = q /\ ((q * n) + m) % n = m
<1> DEFINE t == (q * n) + m
           a == t \div n
           b == t % n
<1>1. t \in Nat
  OBVIOUS
<1>2. a \in Nat /\ b \in Nat /\ b < n
  <2> HIDE DEF t
  <2> QED
    BY <1>1
<1>3. t = (a * n) + b
  <2> HIDE DEF t
  <2> QED
    BY <1>1
<1>4. ~ (a < q) /\ ~ (q < a)
  <2> HIDE DEF a, b
  <2> QED
    BY <1>2, <1>3, LessByRow
<1> QED
  BY <1>2, <1>3, <1>4

\* Only the last row may have less than n coefficients.
RowWise(m, n) ==
  /\ m \in Seq(Seq(Bytes))
  /\ \A r \in DOMAIN m : Len(m[r]) <= n
  /\ \A r \in DOMAIN m : r < Len(m) => Len(m[r]) = n

LEMMA RowByRowType ==
  ASSUME NEW n \in Nat, NEW m, RowWise(m, n)
  PROVE  /\ Count(m, n) \in Nat
         /\ \A k \in 1 .. Count(m, n) :
              /\ n # 0 /\ m # <<>> /\ ((k - 1) \div n) + 1 \in DOMAIN m
              /\ ((k - 1) % n) + 1 \in DOMAIN m[((k - 1) \div n) + 1]
         /\ RowByRow(m, n) \in Seq(Bytes) /\ Len(RowByRow(m, n)) = Count(m, n)
<1> DEFINE c    == Count(m, n)
           last == Len(m[Len(m)])
<1>1. Len(m) \in Nat /\ DOMAIN m = 1 .. Len(m) /\ (m = <<>> <=> Len(m) = 0)
  BY DEF RowWise
<1>2. CASE m = <<>>
  BY <1>2 DEF Count, RowByRow
<1>3. CASE m # <<>>
  <2>1. Len(m) \in DOMAIN m /\ Len(m) - 1 \in Nat
    BY <1>1, <1>3
  <2>2. last \in 0 .. n
    BY <2>1 DEF RowWise
  <2>3. c = ((Len(m) - 1) * n) + last
    BY <1>3 DEF Count
  <2>4. (Len(m) - 1) * n \in Nat
    BY <2>1
  <2>5. c \in Nat
    <3> HIDE DEF c, last
    <3> QED
      BY <2>2, <2>3, <2>4
  <2>6. ASSUME NEW k \in 1 .. c
        PROVE  /\ n # 0 /\ ((k - 1) \div n) + 1 \in DOMAIN m
               /\ ((k - 1) % n) + 1 \in DOMAIN m[((k - 1) \div n) + 1]
    <3> DEFINE a == (k - 1) \div n
               b == (k - 1) % n
    <3>1. n # 0
      <4> SUFFICES ASSUME n = 0 PROVE FALSE
        OBVIOUS
      <4>1. c = 0
        BY <2>1, <2>2, <2>3
      <4> QED
        BY <4>1
    <3>2. k \in 1 .. ((Len(m) - 1) * n) + last
      BY <2>3
    <3> DEFINE top == Len(m)
    <3>3. a \in 0 .. top - 1 /\ b \in 0 .. n - 1 /\ (a = top - 1 => b < last)
      <4> HIDE DEF c, last
      <4> QED
        BY <2>1, <2>2, <3>1, <3>2, PlaceOf
    <3> HIDE DEF a, b
    <3>4. top \in Nat /\ DOMAIN m = 1 .. top
      BY <1>1
    <3> HIDE DEF top
    <3>5. a \in Int /\ b \in Int /\ 0 <= a /\ a <= top - 1 /\ 0 <= b /\ b < n
      BY <3>4, <3>3
    <3>6. a + 1 \in DOMAIN m /\ Len(m[a + 1]) \in Nat
          /\ DOMAIN m[a + 1] = 1 .. Len(m[a + 1])
      <4>1. a + 1 \in DOMAIN m
        BY <3>4, <3>5
      <4>2. m[a + 1] \in Seq(Bytes)
        BY <4>1 DEF RowWise
      <4> QED
        BY <4>1, <4>2
    <3>7. b + 1 <= Len(m[a + 1])
      <4>1. CASE a = top - 1
        <5>1. a + 1 = top /\ b < last
          BY <3>4, <3>3, <3>5, <4>1
        <5> QED
          BY <3>5, <3>6, <5>1 DEF top
      <4>2. CASE a # top - 1
        <5>1. a + 1 < top
          BY <3>4, <3>5, <4>2
        <5>2. Len(m[a + 1]) = n
          BY <3>6, <5>1 DEF RowWise, top
        <5> QED
          BY <3>5, <5>2
      <4> QED
        BY <4>1, <4>2
    <3> QED
      BY <3>1, <3>3, <3>6, <3>7 DEF a, b
  <2> HIDE DEF c
  <2>7. RowByRow(m, n) = [k \in 1 .. c |-> m[((k - 1) \div n) + 1][((k - 1) % n) + 1]]
    BY DEF RowByRow, c
  <2>8. \A k \in 1 .. c : m[((k - 1) \div n) + 1][((k - 1) % n) + 1] \in Bytes
    <3> SUFFICES ASSUME NEW k \in 1 .. c
                 PROVE  m[((k - 1) \div n) + 1][((k - 1) % n) + 1] \in Bytes
      OBVIOUS
    <3>1. m[((k - 1) \div n) + 1] \in Seq(Bytes)
      BY <2>6 DEF RowWise
    <3> QED
      BY <2>6, <3>1
  <2> DEFINE flat == RowByRow(m, n)
  <2>9. flat \in [1 .. c -> Bytes]
    BY <2>7, <2>8
  <2> HIDE DEF flat
  <2>10. flat \in Seq(Bytes) /\ Len(flat) = c
    BY <2>5, <2>9
  <2> QED
    BY <1>3, <2>5, <2>6, <2>10 DEF c, flat
<1> QED
  BY <1>2, <1>3

\* What is appended comes last, the rest stays where it was.
LEMMA AppendLast ==
  ASSUME NEW S, NEW q \in Seq(S), NEW e \in S
  PROVE  /\ Append(q, e) \in Seq(S) /\ Len(Append(q, e)) = Len(q) + 1
         /\ Append(q, e)[Len(q) + 1] = e
         /\ \A k \in 1 .. Len(q) : Append(q, e)[k] = q[k]
OBVIOUS

\* A coefficient at the end of the last row is one at the end of the sequence.
LEMMA SequenceGrows ==
  ASSUME NEW n \in Nat, NEW m, RowWise(m, n), m # <<>>, Len(m[Len(m)]) < n,
         NEW byte \in Bytes, NEW w, RowWise(w, n), Len(w) = Len(m),
         w[Len(m)] = Append(m[Len(m)], byte),
         \A r \in DOMAIN m : r # Len(m) => w[r] = m[r]
  PROVE  RowByRow(w, n) = Append(RowByRow(m, n), byte)
<1> DEFINE L == Len(m)
           l == Len(m[L])
           c == Count(m, n)
<1>1. L \in Nat \ {0} /\ L \in DOMAIN m /\ DOMAIN m = 1 .. L /\ m[L] \in Seq(Bytes)
  BY DEF RowWise
<1>2. l \in Nat /\ l < n /\ n \in Nat \ {0}
  BY <1>1
<1>3. w[L] = Append(m[L], byte) /\ Len(w[L]) = l + 1 /\ w[L][l + 1] = byte
      /\ \A b \in DOMAIN m[L] : w[L][b] = m[L][b]
  BY <1>1
<1>4. c = ((L - 1) * n) + l /\ c \in Nat /\ Count(w, n) = c + 1
  <2>1. w # <<>> /\ Len(w) = L
    BY <1>1
  <2> HIDE DEF L
  <2>2. (L - 1) * n \in Nat
    BY <1>1, <1>2
  <2>3. c = ((L - 1) * n) + l
    BY DEF Count, L
  <2>4. Count(w, n) = ((L - 1) * n) + (l + 1)
    BY <1>3, <2>1 DEF Count
  <2> HIDE DEF l, c
  <2> QED
    BY <1>2, <2>2, <2>3, <2>4
<1>5. RowByRow(m, n) \in Seq(Bytes) /\ Len(RowByRow(m, n)) = c /\ c \in Nat
  BY RowByRowType
<1>6. /\ RowByRow(w, n) \in Seq(Bytes) /\ Len(RowByRow(w, n)) = c + 1
  BY <1>4, RowByRowType
<1>7. ASSUME NEW k \in 1 .. c PROVE RowByRow(w, n)[k] = RowByRow(m, n)[k]
  <2> DEFINE a == ((k - 1) \div n) + 1
             b == ((k - 1) % n) + 1
  <2>1. a \in DOMAIN m /\ b \in DOMAIN m[a]
    BY RowByRowType
  <2>2. RowByRow(w, n)[k] = w[a][b] /\ RowByRow(m, n)[k] = m[a][b]
    <3> HIDE DEF c
    <3>1. k \in 1 .. c + 1
      BY <1>5
    <3> QED
      BY <1>4, <3>1 DEF RowByRow, c
  <2> HIDE DEF a, b, L
  <2>3. w[a][b] = m[a][b]
    BY <1>3, <2>1 DEF L
  <2> QED
    BY <2>2, <2>3
<1>8. RowByRow(w, n)[c + 1] = byte
  <2>1. (((L - 1) * n) + l) \div n = L - 1 /\ (((L - 1) * n) + l) % n = l
    <3> HIDE DEF L, l
    <3>1. L - 1 \in Nat /\ l \in 0 .. n - 1
      BY <1>1, <1>2
    <3> QED
      BY <1>2, <3>1, PlaceNext
  <2>2. (c + 1) - 1 = c /\ c + 1 \in 1 .. c + 1
    <3> HIDE DEF c
    <3> QED
      BY <1>5
  <2> HIDE DEF c, l, L
  <2>3. RowByRow(w, n)[c + 1] = w[(c \div n) + 1][(c % n) + 1]
    BY <1>4, <2>2 DEF RowByRow
  <2>4. (c \div n) + 1 = L /\ (c % n) + 1 = l + 1
    BY <1>1, <1>4, <2>1
  <2> QED
    BY <1>3, <2>3, <2>4
<1> DEFINE s == RowByRow(m, n)
           t == RowByRow(w, n)
<1> HIDE DEF s, t, c
<1>9. t = Append(s, byte)
  <2>1. s \in Seq(Bytes) /\ t \in Seq(Bytes) /\ Len(s) = c /\ Len(t) = c + 1
    BY <1>5, <1>6 DEF s, t
  <2>2. \A k \in 1 .. c : t[k] = s[k]
    BY <1>7 DEF s, t
  <2>3. t[c + 1] = byte
    BY <1>8 DEF t
  <2> DEFINE u == Append(s, byte)
  <2>4. u \in Seq(Bytes) /\ Len(u) = c + 1 /\ u[c + 1] = byte
        /\ \A k \in 1 .. c : u[k] = s[k]
    <3>1. s \in Seq(Bytes) /\ Len(s) = c
      BY <2>1
    <3> QED
      BY ONLY <3>1, byte \in Bytes, AppendLast DEF u
  <2> HIDE DEF u
  <2>5. t \in [1 .. c + 1 -> Bytes] /\ u \in [1 .. c + 1 -> Bytes]
    BY <2>1, <2>4
  <2>6. \A k \in 1 .. c + 1 : t[k] = u[k]
    <3>1. \A k \in 1 .. c + 1 : k \in 1 .. c \/ k = c + 1
      BY <1>5
    <3> QED
      BY <2>2, <2>3, <2>4, <3>1
  <2> DEFINE places == 1 .. c + 1
  <2> HIDE DEF places
  <2>7. t = u
    <3>1. t \in [places -> Bytes] /\ u \in [places -> Bytes] /\ \A k \in places : t[k] = u[k]
      BY <2>5, <2>6 DEF places
    <3> QED
      BY <3>1
  <2> QED
    BY <2>7 DEF u
<1> QED
  BY <1>9 DEF s, t

\* A new row adds nothing to it.
LEMMA SequenceStays ==
  ASSUME NEW n \in Nat, NEW m, RowWise(m, n), \A r \in DOMAIN m : Len(m[r]) = n
  PROVE  RowByRow(Append(m, <<>>), n) = RowByRow(m, n)
<1> DEFINE L == Len(m)
           w == Append(m, <<>>)
           c == Count(m, n)
<1>1. L \in Nat /\ DOMAIN m = 1 .. L /\ (m = <<>> <=> L = 0) /\ m \in Seq(Seq(Bytes))
  BY DEF RowWise
<1>2. Len(w) = L + 1 /\ w # <<>> /\ w[L + 1] = <<>> /\ \A r \in DOMAIN m : w[r] = m[r]
  BY <1>1
<1>3. c = L * n
  <2>1. CASE L = 0
    BY <1>1, <2>1 DEF Count
  <2>2. CASE L # 0
    <3>1. L \in DOMAIN m /\ m # <<>>
      BY <1>1, <2>2
    <3>2. c = ((L - 1) * n) + n
      BY <3>1 DEF Count
    <3> QED
      BY <1>1, <3>2
  <2> QED
    BY <2>1, <2>2
<1>4. Count(w, n) = c
  <2>1. Count(w, n) = (((L + 1) - 1) * n) + Len(<<>>)
    <3> HIDE DEF w, L
    <3> QED
      BY <1>2 DEF Count
  <2>2. L * n \in Nat
    BY <1>1
  <2> QED
    BY <1>1, <1>3, <2>1, <2>2
<1>5. ASSUME NEW k \in 1 .. c
      PROVE  w[((k - 1) \div n) + 1][((k - 1) % n) + 1] =
               m[((k - 1) \div n) + 1][((k - 1) % n) + 1]
  <2>1. ((k - 1) \div n) + 1 \in DOMAIN m
    BY RowByRowType
  <2> HIDE DEF w, L
  <2> QED
    BY <1>2, <2>1
<1> HIDE DEF w, c, L
<1>6. RowByRow(w, n) = RowByRow(m, n)
  BY <1>4, <1>5 DEF RowByRow, c
<1> QED
  BY <1>6 DEF w

-----------------------------------------------------------------------------
(* The matrix implements the sequence *)

\* No row is begun before the generator is ready.
EmptyInv == phase \in {"mix", "run"} => res = <<>>

StreamInv == TypeInv /\ IInv /\ EmptyInv

LEMMA StreamInvHolds == Spec => []StreamInv
<1>1. Init => EmptyInv
  BY DEF Init, EmptyInv
<1>2. EmptyInv /\ [Next]_vars => EmptyInv'
  BY DEF EmptyInv, Next, Mix, Certify, PreLoop, CallGenCoefs, NewRow, NextCoef,
         GenCoefsFails, GenCoefsReturns, Returned, vars
<1> QED
  BY InitIInv, NextIInv, InitTypes, NextTypes, <1>1, <1>2, PTL DEF Spec, StreamInv

LEMMA EmptyMatrix ==
  ASSUME NEW n
  PROVE  RowByRow(<<>>, n) = <<>>
BY DEF RowByRow, Count

LEMMA StreamStep ==
  ASSUME StreamInv, StreamInv', [Next]_vars
  PROVE  [Stream!Prepare \/ Stream!Draw]_(Stream!svars)
<1>1. RowWise(res, nrs) /\ RowWise(res', nrs') /\ nrs \in Nat /\ status' \in State
  BY DEF StreamInv, TypeInv, TypeOK, RowsInv, RowWise
<1>2. ASSUME res' = <<>>, res = <<>> PROVE [Stream!Prepare]_(Stream!svars)
  BY <1>1, <1>2, EmptyMatrix DEF Stream!Prepare, Stream!svars
<1>3. CASE Mix \/ Certify \/ PreLoop
  <2>1. res = <<>> /\ res' = res
    BY <1>3 DEF Mix, Certify, PreLoop, StreamInv, EmptyInv
  <2> QED
    BY <1>2, <2>1
<1>4. CASE CallGenCoefs \/ GenCoefsFails \/ GenCoefsReturns \/ Returned \/ UNCHANGED vars
  BY <1>4 DEF CallGenCoefs, GenCoefsFails, GenCoefsReturns, Returned, vars, Stream!svars
<1>5. CASE NewRow
  <2>1. /\ res' = Append(res, <<>>) /\ nrs' = nrs /\ status' = status
        /\ \A r \in DOMAIN res : Len(res[r]) = nrs
    BY <1>1, <1>5 DEF NewRow, RowDone, RowWise
  <2>2. RowByRow(res', nrs') = RowByRow(res, nrs)
    BY <1>1, <2>1, SequenceStays
  <2> QED
    BY <2>1, <2>2 DEF Stream!svars
<1>6. CASE NextCoef
  <2> DEFINE byte == Coef(status')
  <2>1. byte \in Bytes
    BY <1>1, TemperedType
  <2>2. /\ status' = NextState(status) /\ nrs' = nrs
        /\ res' = [res EXCEPT ![Len(res)] = Append(@, byte)]
    BY <1>6 DEF NextCoef, Placed
  <2> HIDE DEF byte
  <2>3. res # <<>> /\ Len(res) \in DOMAIN res /\ Len(res[Len(res)]) < nrs
    <3>1. PICK r \in DOMAIN res : ~ (Len(res[r]) >= nrs)
      BY <1>6 DEF NextCoef, RowDone
    <3>2. /\ res \in Seq(Seq(Bytes)) /\ Len(res[r]) \in Nat
          /\ r \in 1 .. Len(res) /\ Len(res) \in Nat
      BY <1>1 DEF RowWise
    <3>3. r = Len(res)
      BY <1>1, <3>1, <3>2 DEF RowWise
    <3> QED
      BY <1>1, <3>1, <3>2, <3>3
  <2>4. /\ Len(res') = Len(res) /\ res'[Len(res)] = Append(res[Len(res)], byte)
        /\ \A r \in DOMAIN res : r # Len(res) => res'[r] = res[r]
    BY <1>1, <2>2, <2>3 DEF RowWise
  <2>5. RowByRow(res', nrs') = Append(RowByRow(res, nrs), byte)
    BY <1>1, <2>1, <2>2, <2>3, <2>4, SequenceGrows
  <2> QED
    BY <2>2, <2>5 DEF Stream!Draw, byte
<1> QED
  BY <1>3, <1>4, <1>5, <1>6 DEF Next

\* For every seed and every shape the places of the matrix are filled from one
\* sequence of coefficients, in order and without a gap.
THEOREM ImplementsStream == Spec => StreamSpec
<1>1. Init => Stream!Init
  <2> SUFFICES ASSUME Init PROVE Stream!Init
    OBVIOUS
  <2>1. status \in State /\ res = <<>>
    BY InitIInv DEF IInv, Init
  <2> QED
    BY <2>1, EmptyMatrix DEF Stream!Init
<1>2. StreamInv /\ StreamInv' /\ [Next]_vars => [Stream!Prepare \/ Stream!Draw]_(Stream!svars)
  BY StreamStep
<1> QED
  BY <1>1, <1>2, StreamInvHolds, PTL DEF Spec, StreamSpec, Stream!Spec
=============================================================================
