------------------------ MODULE MessageLayoutProofs -------------------------
(***************************************************************************)
(* What MessageLayout copies and writes, for every header and every width  *)
(* of a uint32_t.  The invariant says where in the file each symbol of the *)
(* list of blocks was copied from, modulo 2^32, and how many bytes have    *)
(* been written when writeToFile is at symbol j of block i; the rest is    *)
(* arithmetic of division.                                                 *)
(***************************************************************************)
EXTENDS MessageLayout, SequenceTheorems, TLAPS

(* Arithmetic *)

LEMMA DivMod ==
  ASSUME NEW a \in Nat, NEW d \in Nat \ {0}
  PROVE  /\ a \div d \in Nat /\ a % d \in Nat /\ a % d < d
         /\ a = ((a \div d) * d) + (a % d)
<1>1. a \div d \in Nat
  OBVIOUS
<1>2. a % d \in Nat
  OBVIOUS
<1>3. a % d < d
  OBVIOUS
<1>4. a = ((a \div d) * d) + (a % d)
  OBVIOUS
<1> QED
  BY <1>1, <1>2, <1>3, <1>4

\* The multiple of a greater number is greater by one step at least.
LEMMA MulLess ==
  ASSUME NEW x \in Int, NEW y \in Int, NEW d \in Nat, x < y
  PROVE  (x * d) + d <= y * d
<1>1. y - x - 1 \in Nat
  OBVIOUS
<1>2. (y - x - 1) * d >= 0
  BY <1>1
<1> QED
  BY <1>2

LEMMA MulLeq ==
  ASSUME NEW x \in Int, NEW y \in Int, NEW d \in Nat, x <= y
  PROVE  x * d <= y * d
BY MulLess

LEMMA MulNat ==
  ASSUME NEW x \in Nat, NEW y \in Nat
  PROVE  x * y \in Nat
OBVIOUS

LEMMA MulPos ==
  ASSUME NEW x \in Nat \ {0}, NEW y \in Nat \ {0}
  PROVE  x * y \in Nat \ {0}
<1>1. (0 * y) + y <= x * y
  BY MulLess
<1> QED
  BY <1>1

LEMMA DivUnique ==
  ASSUME NEW q \in Nat, NEW d \in Nat \ {0}, NEW r \in Nat, r < d
  PROVE  ((q * d) + r) \div d = q /\ ((q * d) + r) % d = r
<1> DEFINE a == (q * d) + r
<1>1. a \in Nat /\ a \div d \in Nat /\ a % d \in Nat /\ a % d < d
      /\ a = ((a \div d) * d) + (a % d)
  BY DivMod
<1>2. ~ (a \div d < q)
  BY <1>1, MulLess
<1>3. ~ (q < a \div d)
  BY <1>1, MulLess
<1> QED
  BY <1>1, <1>2, <1>3

LEMMA ModSmall ==
  ASSUME NEW a \in Nat, NEW d \in Nat, a < d
  PROVE  a % d = a
<1>1. ((0 * d) + a) % d = a
  BY DivUnique
<1> QED
  BY <1>1

\* An addition may be reduced at every step.
LEMMA ModAdd ==
  ASSUME NEW a \in Nat, NEW s \in Nat, NEW d \in Nat \ {0}
  PROVE  ((a % d) + s) % d = (a + s) % d
<1> DEFINE q == a \div d
           t == (a % d) + s
<1>1. q \in Nat /\ a % d \in Nat /\ a = (q * d) + (a % d)
  BY DivMod
<1>2. t \in Nat /\ t \div d \in Nat /\ t % d \in Nat /\ t % d < d
      /\ t = ((t \div d) * d) + (t % d)
  BY <1>1, DivMod
<1>3. a + s = ((q + (t \div d)) * d) + (t % d)
  BY <1>1, <1>2
<1>4. q + (t \div d) \in Nat
  BY <1>1, <1>2
<1>5. (((q + (t \div d)) * d) + (t % d)) % d = t % d
  BY <1>2, <1>4, DivUnique
<1> QED
  BY <1>3, <1>5

LEMMA ModOff ==
  ASSUME NEW a \in Nat, NEW c \in Nat, NEW d \in Nat \ {0}
  PROVE  (a + (c * d)) % d = a % d
<1> DEFINE q == a \div d
           t == a % d
<1>1. q \in Nat /\ t \in Nat /\ t < d /\ a = (q * d) + t
  BY DivMod
<1> HIDE DEF q, t
<1>2. a + (c * d) = ((q + c) * d) + t
  BY <1>1
<1>3. q + c \in Nat
  BY <1>1
<1>4. (((q + c) * d) + t) % d = t
  BY <1>1, <1>3, DivUnique
<1> QED
  BY <1>2, <1>4 DEF t

LEMMA Ceiling ==
  ASSUME NEW a \in Nat, NEW d \in Nat \ {0}
  PROVE  /\ CeilDiv(a, d) \in Nat
         /\ a <= CeilDiv(a, d) * d
         /\ CeilDiv(a, d) * d < a + d
<1> DEFINE t == a + d - 1
<1>1. t \in Nat /\ t \div d \in Nat /\ t % d \in Nat /\ t % d < d
      /\ t = ((t \div d) * d) + (t % d)
  BY DivMod
<1> QED
  BY <1>1 DEF CeilDiv

LEMMA CeilingUnique ==
  ASSUME NEW a \in Nat, NEW d \in Nat \ {0}, NEW c \in Nat,
         a <= c * d, c * d < a + d
  PROVE  CeilDiv(a, d) = c
<1>1. /\ CeilDiv(a, d) \in Nat
      /\ a <= CeilDiv(a, d) * d
      /\ CeilDiv(a, d) * d < a + d
  BY Ceiling
<1>2. ~ (CeilDiv(a, d) < c)
  BY <1>1, MulLess
<1>3. ~ (c < CeilDiv(a, d))
  BY <1>1, MulLess
<1> QED
  BY <1>1, <1>2, <1>3

-----------------------------------------------------------------------------
(* The header *)

\* A header that openFile gets past the divisions with: no size is 0.
HeaderOK ==
  /\ block_size \in BlockSizes \ {0} /\ symbol_size \in SymbolSizes \ {0}
  /\ redundance_size \in RedundanceSizes /\ message_size \in MessageSizes

LEMMA HeaderTypes ==
  ASSUME HeaderOK
  PROVE  /\ Modulus \in Nat \ {0}
         /\ block_size \in Nat \ {0} /\ symbol_size \in Nat \ {0}
         /\ redundance_size \in Nat /\ message_size \in Nat
         /\ block_size < Modulus /\ symbol_size < Modulus
         /\ block_size * symbol_size \in Nat \ {0}
<1>1. /\ Modulus \in Nat \ {0}
      /\ block_size \in Nat \ {0} /\ symbol_size \in Nat \ {0}
      /\ redundance_size \in Nat /\ message_size \in Nat
      /\ block_size < Modulus /\ symbol_size < Modulus
  BY LayoutAssumption DEF HeaderOK, UInt
<1> QED
  BY <1>1, MulPos

HeaderRead ==
  /\ block_size \in BlockSizes /\ symbol_size \in SymbolSizes
  /\ redundance_size \in RedundanceSizes /\ message_size \in MessageSizes

LEMMA HeaderHolds ==
  ASSUME HeaderRead, BlockBytes # 0
  PROVE  HeaderOK
<1>1. Modulus \in Nat \ {0} /\ block_size \in Nat /\ symbol_size \in Nat
  BY LayoutAssumption DEF HeaderRead, UInt
<1>2. 0 % Modulus = 0
  BY <1>1, ModSmall
<1>3. block_size * symbol_size # 0
  BY <1>2 DEF BlockBytes
<1>4. block_size # 0 /\ symbol_size # 0
  BY <1>1, <1>3
<1> QED
  BY <1>4 DEF HeaderRead, HeaderOK

LEMMA HeaderFits ==
  ASSUME HeaderRead, BlocksFit
  PROVE  HeaderOK
<1>1. Modulus \in Nat \ {0} /\ block_size \in Nat /\ symbol_size \in Nat
      /\ message_size \in Nat
  BY LayoutAssumption DEF HeaderRead, UInt
<1>2. CASE block_size * symbol_size \in 1 .. Modulus - 1
  <2>1. block_size * symbol_size # 0
    BY <1>1, <1>2
  <2>2. block_size # 0 /\ symbol_size # 0
    BY <1>1, <2>1
  <2> QED
    BY <2>2 DEF HeaderRead, HeaderOK
<1>3. CASE message_size < BlockBytes
  <2>1. BlockBytes # 0
    BY <1>1, <1>3
  <2> QED
    BY <2>1, HeaderHolds
<1> QED
  BY <1>2, <1>3 DEF BlocksFit

LEMMA PayloadType ==
  ASSUME HeaderOK
  PROVE  PayloadSize \in Nat
<1>1. /\ symbol_size \in Nat \ {0} /\ block_size \in Nat \ {0} /\ redundance_size \in Nat
      /\ message_size \in Nat
  BY HeaderTypes
<1>2. SourceSymbols \in Nat
  BY <1>1, Ceiling DEF SourceSymbols
<1>3. TotalBlocks \in Nat
  BY <1>1, <1>2, Ceiling DEF TotalBlocks
<1> QED
  BY <1>1, <1>2, <1>3, MulNat DEF PayloadSize

LEMMA BlockBytesTypes ==
  ASSUME HeaderOK
  PROVE  /\ BlockBytes \in Nat /\ BlockBytes < Modulus
         /\ BlockBytes <= block_size * symbol_size
         /\ block_size * symbol_size < Modulus => BlockBytes = block_size * symbol_size
<1> DEFINE product == block_size * symbol_size
<1>1. product \in Nat /\ Modulus \in Nat \ {0}
  BY HeaderTypes
<1>2. /\ product \div Modulus \in Nat /\ product % Modulus \in Nat
      /\ product % Modulus < Modulus
      /\ product = ((product \div Modulus) * Modulus) + (product % Modulus)
  BY <1>1, DivMod
<1>3. (product \div Modulus) * Modulus \in Nat
  BY <1>1, <1>2, MulNat
<1>4. product % Modulus <= product
  BY <1>1, <1>2, <1>3
<1>5. product < Modulus => product % Modulus = product
  BY <1>1, ModSmall
<1> HIDE DEF product
<1> QED
  BY <1>2, <1>4, <1>5 DEF BlockBytes, product

\* The size of the last block, in bytes and in symbols.
LEMMA LastBlockTypes ==
  ASSUME HeaderOK, BlockBytes # 0
  PROVE  /\ LastBytes \in Nat /\ LastBytes < BlockBytes
         /\ LastBytesSeen \in Nat /\ LastBytesSeen < BlockBytes
         /\ LastBlockSize \in Nat /\ LastBlockSize <= block_size
<1>1. BlockBytes \in Nat \ {0} /\ BlockBytes <= block_size * symbol_size
  BY BlockBytesTypes
<1>2. message_size \in Nat /\ message_size % Modulus \in Nat /\ symbol_size \in Nat \ {0}
      /\ block_size \in Nat
  BY HeaderTypes, DivMod
<1>3. /\ LastBytes \in Nat /\ LastBytes < BlockBytes
      /\ LastBytesSeen \in Nat /\ LastBytesSeen < BlockBytes
  BY <1>1, <1>2, DivMod DEF LastBytes, LastBytesSeen
<1>4. /\ LastBlockSize \in Nat
      /\ LastBlockSize * symbol_size < LastBytesSeen + symbol_size
  BY <1>2, <1>3, Ceiling DEF LastBlockSize
<1>5. ~ (block_size < LastBlockSize)
  <2> SUFFICES ASSUME block_size < LastBlockSize PROVE FALSE
    OBVIOUS
  <2>1. (block_size * symbol_size) + symbol_size <= LastBlockSize * symbol_size
    BY <1>2, <1>4, MulLess
  <2>2. block_size * symbol_size \in Nat /\ LastBlockSize * symbol_size \in Nat
    BY <1>2, <1>4, MulNat
  <2> QED
    BY <2>1, <2>2, <1>1, <1>2, <1>3, <1>4
<1> QED
  BY <1>2, <1>3, <1>4, <1>5

LEMMA BlockTypes ==
  ASSUME HeaderOK, BlockBytes # 0
  PROVE  /\ NumberBlocks \in Nat /\ NumberBlocks < Modulus
         /\ \A k : SizeOf(k) \in Nat /\ SizeOf(k) <= block_size
         /\ \A k : k # NumberBlocks - 1 => SizeOf(k) = block_size
<1>1. BlockBytes \in Nat \ {0} /\ message_size \in Nat /\ Modulus \in Nat \ {0}
      /\ block_size \in Nat /\ redundance_size \in Nat
  BY BlockBytesTypes, HeaderTypes
<1>2. message_size \div BlockBytes \in Nat
  BY <1>1, DivMod
<1>3. message_size \div BlockBytes + (IF LastBytes # 0 THEN 1 ELSE 0) \in Nat
  BY <1>2
<1>4. NumberBlocks \in Nat /\ NumberBlocks < Modulus
  BY <1>1, <1>3, DivMod DEF NumberBlocks
<1>5. \A k : SizeOf(k) \in Nat /\ SizeOf(k) <= block_size
  BY <1>1, LastBlockTypes DEF SizeOf
<1>6. \A k : k # NumberBlocks - 1 => SizeOf(k) = block_size
  BY DEF SizeOf
<1> QED
  BY <1>4, <1>5, <1>6

\* The number of symbols listed for a block, which may have wrapped.
LEMMA ListedTypes ==
  ASSUME HeaderOK, BlockBytes # 0, NEW k
  PROVE  /\ Listed(k) \in Nat /\ Listed(k) < Modulus
         /\ Listed(k) <= SizeOf(k) + redundance_size
         /\ SizeOf(k) + redundance_size < Modulus
              => Listed(k) = SizeOf(k) + redundance_size
<1> DEFINE sum == SizeOf(k) + redundance_size
<1>1. sum \in Nat /\ Modulus \in Nat \ {0}
  <2>1. SizeOf(k) \in Nat
    BY BlockTypes
  <2> QED
    BY <2>1, HeaderTypes
<1> HIDE DEF sum
<1>2. /\ sum \div Modulus \in Nat /\ sum % Modulus \in Nat /\ sum % Modulus < Modulus
      /\ sum = ((sum \div Modulus) * Modulus) + (sum % Modulus)
  BY <1>1, DivMod
<1>3. (sum \div Modulus) * Modulus \in Nat
  BY <1>1, <1>2, MulNat
<1>4. sum % Modulus <= sum
  BY <1>1, <1>2, <1>3
<1>5. sum < Modulus => sum % Modulus = sum
  BY <1>1, ModSmall
<1> QED
  BY <1>2, <1>4, <1>5 DEF Listed, sum

LEMMA BytesTypes ==
  ASSUME HeaderOK, BlockBytes # 0
  PROVE  /\ \A k, s : BytesOf(k, s) \in Nat /\ BytesOf(k, s) <= symbol_size
         /\ \A k, s : ~ (k = NumberBlocks - 1 /\ s = SizeOf(k) - 1)
                        => BytesOf(k, s) = symbol_size
         /\ BytesOf(NumberBlocks - 1, SizeOf(NumberBlocks - 1) - 1) = LastBytes % symbol_size
<1>1. symbol_size \in Nat \ {0} /\ LastBytes \in Nat /\ Modulus \in Nat
      /\ symbol_size < Modulus
  BY HeaderTypes, LastBlockTypes
<1>2. LastBytes % symbol_size \in Nat /\ LastBytes % symbol_size < symbol_size
  BY <1>1, DivMod
<1>3. symbol_size - Padding = LastBytes % symbol_size
  BY <1>1, <1>2 DEF Padding
<1>4. (symbol_size - Padding) % Modulus = LastBytes % symbol_size
  BY <1>1, <1>2, <1>3, ModSmall
<1> QED
  BY <1>1, <1>2, <1>4 DEF BytesOf

\* What is computed from the header does not change.
LEMMA HeaderSame ==
  ASSUME UNCHANGED header
  PROVE  /\ UNCHANGED <<block_size, symbol_size, redundance_size, message_size, available>>
         /\ UNCHANGED <<BlockBytes, NumberBlocks, PayloadSize, TotalBlocks>>
         /\ \A k : SizeOf(k)' = SizeOf(k) /\ Listed(k)' = Listed(k)
         /\ \A k, s : BytesOf(k, s)' = BytesOf(k, s)
         /\ \A n : PlaceOf(n)' = PlaceOf(n) /\ WrappedPlace(n)' = WrappedPlace(n)
         /\ UNCHANGED <<Fits, HeaderOK>>
BY DEF header, BlockBytes, NumberBlocks, LastBytes, PayloadSize, TotalBlocks,
       SourceSymbols, CeilDiv, SizeOf, Listed, LastBlockSize, LastBytesSeen, BytesOf, Padding,
       PlaceOf, WrappedPlace, Fits, BlocksFit, HeaderOK

-----------------------------------------------------------------------------
(* The sizes, when they fit *)

WholeBlock == block_size * symbol_size
Quotient   == message_size \div WholeBlock
Rest       == message_size % WholeBlock
RestSymbols == CeilDiv(Rest, symbol_size)

LEMMA RestTypes ==
  ASSUME HeaderOK
  PROVE  /\ WholeBlock \in Nat \ {0}
         /\ Quotient \in Nat /\ Rest \in Nat /\ Rest < WholeBlock
         /\ message_size = (Quotient * WholeBlock) + Rest
         /\ RestSymbols \in Nat /\ RestSymbols <= block_size
         /\ Rest <= RestSymbols * symbol_size
         /\ RestSymbols * symbol_size < Rest + symbol_size
         /\ Rest = 0 <=> RestSymbols = 0
<1>1. WholeBlock \in Nat \ {0} /\ message_size \in Nat
      /\ symbol_size \in Nat \ {0} /\ block_size \in Nat
  BY HeaderTypes DEF WholeBlock
<1>2. /\ Quotient \in Nat /\ Rest \in Nat /\ Rest < WholeBlock
      /\ message_size = (Quotient * WholeBlock) + Rest
  BY <1>1, DivMod DEF Quotient, Rest
<1>3. /\ RestSymbols \in Nat
      /\ Rest <= RestSymbols * symbol_size
      /\ RestSymbols * symbol_size < Rest + symbol_size
  BY <1>1, <1>2, Ceiling DEF RestSymbols
<1>4. ~ (block_size < RestSymbols)
  <2> SUFFICES ASSUME block_size < RestSymbols PROVE FALSE
    OBVIOUS
  <2>1. (block_size * symbol_size) + symbol_size <= RestSymbols * symbol_size
    BY <1>1, <1>3, MulLess
  <2> QED
    BY <2>1, <1>1, <1>2, <1>3 DEF WholeBlock
<1>5. Rest = 0 => RestSymbols = 0
  <2> SUFFICES ASSUME Rest = 0, 0 < RestSymbols PROVE FALSE
    BY <1>3
  <2>1. (0 * symbol_size) + symbol_size <= RestSymbols * symbol_size
    BY <1>1, <1>3, MulLess
  <2> QED
    BY <2>1, <1>1, <1>3
<1>6. RestSymbols = 0 => Rest = 0
  BY <1>1, <1>2, <1>3
<1> QED
  BY <1>1, <1>2, <1>3, <1>4, <1>5, <1>6

LEMMA SymbolCount ==
  ASSUME HeaderOK
  PROVE  SourceSymbols = (Quotient * block_size) + RestSymbols
<1> DEFINE c == (Quotient * block_size) + RestSymbols
<1>1. /\ symbol_size \in Nat \ {0} /\ block_size \in Nat /\ message_size \in Nat
      /\ Quotient \in Nat /\ RestSymbols \in Nat /\ Rest \in Nat
  BY HeaderTypes, RestTypes
<1>2. c \in Nat
  BY <1>1, MulNat
<1>3. c * symbol_size = (Quotient * WholeBlock) + (RestSymbols * symbol_size)
  BY <1>1 DEF WholeBlock
<1>4. Quotient * WholeBlock \in Nat
  BY RestTypes, MulNat
<1>5. RestSymbols * symbol_size \in Nat
  BY <1>1, MulNat
<1>6. message_size <= c * symbol_size /\ c * symbol_size < message_size + symbol_size
  <2> HIDE DEF c
  <2> QED
    BY <1>1, <1>3, <1>4, <1>5, RestTypes
<1> HIDE DEF c
<1>7. CeilDiv(message_size, symbol_size) = c
  BY <1>1, <1>2, <1>6, CeilingUnique
<1> QED
  BY <1>7 DEF c, SourceSymbols

LEMMA BlockCount ==
  ASSUME HeaderOK
  PROVE  TotalBlocks = Quotient + (IF Rest # 0 THEN 1 ELSE 0)
<1> DEFINE c == Quotient + (IF Rest # 0 THEN 1 ELSE 0)
<1>1. /\ block_size \in Nat \ {0}
      /\ Quotient \in Nat /\ RestSymbols \in Nat /\ Rest \in Nat
      /\ RestSymbols <= block_size /\ (Rest = 0 <=> RestSymbols = 0)
  BY HeaderTypes, RestTypes
<1>2. Quotient * block_size \in Nat
  BY <1>1, MulNat
<1>3. SourceSymbols \in Nat
  BY <1>1, <1>2, SymbolCount
<1>4. c * block_size = (Quotient * block_size) + (IF Rest # 0 THEN block_size ELSE 0)
  BY <1>1
<1>5. c \in Nat
  BY <1>1
<1> HIDE DEF c
<1>6. SourceSymbols <= c * block_size /\ c * block_size < SourceSymbols + block_size
  BY <1>1, <1>2, <1>4, SymbolCount
<1>7. CeilDiv(SourceSymbols, block_size) = c
  BY <1>1, <1>3, <1>5, <1>6, CeilingUnique
<1> QED
  BY <1>7 DEF TotalBlocks, c

\* openFile counts the blocks that the sender made.
LEMMA BlocksAgree ==
  ASSUME HeaderOK, BlocksFit
  PROVE  /\ BlockBytes # 0
         /\ LastBytes = Rest
         /\ NumberBlocks = TotalBlocks
         /\ NumberBlocks = Quotient + (IF Rest # 0 THEN 1 ELSE 0)
<1>1. /\ BlockBytes \in Nat /\ BlockBytes <= WholeBlock
      /\ WholeBlock < Modulus => BlockBytes = WholeBlock
      /\ WholeBlock \in Nat \ {0} /\ message_size \in Nat /\ Modulus \in Nat
  <2>1. /\ BlockBytes \in Nat /\ BlockBytes <= WholeBlock
        /\ WholeBlock < Modulus => BlockBytes = WholeBlock
    BY BlockBytesTypes DEF WholeBlock
  <2>2. WholeBlock \in Nat \ {0} /\ message_size \in Nat /\ Modulus \in Nat
    BY RestTypes, HeaderTypes
  <2> QED
    BY <2>1, <2>2
<1>2. BlockBytes # 0 /\ LastBytes = Rest /\ message_size \div BlockBytes = Quotient
  <2>1. CASE WholeBlock \in 1 .. Modulus - 1
    <3>1. BlockBytes = WholeBlock
      BY <2>1, <1>1
    <3> QED
      BY <3>1, <1>1 DEF LastBytes, Rest, Quotient
  <2>2. CASE message_size < BlockBytes
    <3>1. /\ ((0 * BlockBytes) + message_size) \div BlockBytes = 0
          /\ ((0 * BlockBytes) + message_size) % BlockBytes = message_size
      BY <2>2, <1>1, DivUnique
    <3>2. message_size < WholeBlock
      BY <2>2, <1>1
    <3>3. /\ ((0 * WholeBlock) + message_size) \div WholeBlock = 0
          /\ ((0 * WholeBlock) + message_size) % WholeBlock = message_size
      BY <3>2, <1>1, DivUnique
    <3>4. (0 * BlockBytes) + message_size = message_size
          /\ (0 * WholeBlock) + message_size = message_size
      BY <1>1
    <3> QED
      BY <2>2, <3>1, <3>3, <3>4, <1>1 DEF LastBytes, Rest, Quotient
  <2> QED
    BY <2>1, <2>2 DEF BlocksFit, WholeBlock
<1>3. TotalBlocks = Quotient + (IF Rest # 0 THEN 1 ELSE 0)
  BY BlockCount
<1>4. TotalBlocks \in Nat /\ TotalBlocks < Modulus /\ Modulus \in Nat
  BY <1>3, RestTypes, HeaderTypes DEF BlocksFit
<1>5. NumberBlocks = TotalBlocks % Modulus
  BY <1>2, <1>3 DEF NumberBlocks
<1>6. TotalBlocks % Modulus = TotalBlocks
  BY <1>4, ModSmall
<1> QED
  BY <1>2, <1>3, <1>5, <1>6

\* Reducing the length modulo 2^32 does not matter if whole blocks are lost by it.
LEMMA SeenAsItIs ==
  ASSUME HeaderOK, BlocksFit, WholeBlocksOff
  PROVE  LastBytesSeen = Rest /\ LastBlockSize = RestSymbols
<1>1. /\ message_size \in Nat /\ Modulus \in Nat \ {0} /\ WholeBlock \in Nat \ {0}
      /\ BlockBytes \in Nat /\ BlockBytes < Modulus
      /\ WholeBlock < Modulus => BlockBytes = WholeBlock
  <2>1. message_size \in Nat /\ Modulus \in Nat \ {0} /\ WholeBlock \in Nat \ {0}
    BY HeaderTypes, RestTypes
  <2>2. /\ BlockBytes \in Nat /\ BlockBytes < Modulus
        /\ WholeBlock < Modulus => BlockBytes = WholeBlock
    BY BlockBytesTypes DEF WholeBlock
  <2> QED
    BY <2>1, <2>2
<1>2. LastBytesSeen = Rest
  <2>1. CASE WholeBlock \in 1 .. Modulus - 1
    <3> DEFINE off  == (message_size \div Modulus) * Modulus
               seen == message_size % Modulus
    <3>1. message_size = off + seen /\ seen \in Nat /\ message_size \div Modulus \in Nat
      BY <1>1, DivMod
    <3>2. off \in Nat
      BY <1>1, <3>1, MulNat
    <3>3. off % WholeBlock = 0
      BY DEF WholeBlocksOff, WholeBlock
    <3> HIDE DEF off, seen
    <3>4. ((off % WholeBlock) + seen) % WholeBlock = (off + seen) % WholeBlock
      BY <1>1, <3>1, <3>2, ModAdd
    <3>5. seen % WholeBlock = Rest
      BY <3>1, <3>3, <3>4 DEF Rest
    <3>6. BlockBytes = WholeBlock
      BY <2>1, <1>1
    <3> QED
      BY <3>5, <3>6 DEF LastBytesSeen, seen
  <2>2. CASE message_size < BlockBytes
    <3>1. message_size < Modulus
      BY <2>2, <1>1
    <3>2. message_size % Modulus = message_size
      BY <3>1, <1>1, ModSmall
    <3>3. LastBytes = Rest
      BY BlocksAgree
    <3> QED
      BY <3>2, <3>3 DEF LastBytesSeen, LastBytes
  <2> QED
    BY <2>1, <2>2 DEF BlocksFit, WholeBlock
<1> QED
  BY <1>2 DEF LastBlockSize, RestSymbols

LEMMA SeenIfFits ==
  ASSUME HeaderOK, Fits
  PROVE  WholeBlocksOff
<1>1. message_size \in Nat /\ Modulus \in Nat \ {0} /\ message_size < Modulus
      /\ WholeBlock \in Nat \ {0}
  BY HeaderTypes, RestTypes DEF Fits
<1>2. message_size \div Modulus = 0
  <2>1. ((0 * Modulus) + message_size) \div Modulus = 0
    BY <1>1, DivUnique
  <2> QED
    BY <2>1, <1>1
<1>3. (message_size \div Modulus) * Modulus = 0
  BY <1>1, <1>2
<1>4. 0 % WholeBlock = 0
  BY <1>1, ModSmall
<1> QED
  BY <1>3, <1>4 DEF WholeBlocksOff, WholeBlock

-----------------------------------------------------------------------------
(* Where symbols are in the file *)

\* Where symbol s of block k is copied from.
Copied(k, s) == (((k * (block_size + redundance_size)) + s) * symbol_size) % Modulus

LEMMA CopiedType ==
  ASSUME HeaderOK, NEW k \in Nat, NEW s \in Nat
  PROVE  /\ (k * (block_size + redundance_size)) + s \in Nat
         /\ Copied(k, s) \in UInt
<1> DEFINE n == (k * (block_size + redundance_size)) + s
<1>1. block_size + redundance_size \in Nat /\ symbol_size \in Nat /\ Modulus \in Nat \ {0}
  BY HeaderTypes
<1>2. n \in Nat
  BY <1>1, MulNat
<1>3. n * symbol_size \in Nat
  BY <1>1, <1>2, MulNat
<1> HIDE DEF n
<1>4. (n * symbol_size) % Modulus \in Nat /\ (n * symbol_size) % Modulus < Modulus
  BY <1>1, <1>3, DivMod
<1> QED
  BY <1>1, <1>2, <1>4 DEF Copied, UInt, n

\* The symbol after it.
LEMMA CopiedNext ==
  ASSUME HeaderOK, NEW k \in Nat, NEW s \in Nat
  PROVE  (Copied(k, s) + symbol_size) % Modulus = Copied(k, s + 1)
<1> DEFINE n == (k * (block_size + redundance_size)) + s
<1>1. /\ symbol_size \in Nat /\ Modulus \in Nat \ {0}
      /\ block_size + redundance_size \in Nat /\ n \in Nat
  <2>1. n \in Nat
    BY CopiedType
  <2> HIDE DEF n
  <2> QED
    BY <2>1, HeaderTypes
<1>2. n * symbol_size \in Nat
  BY <1>1, MulNat
<1>3. (k * (block_size + redundance_size)) + (s + 1) = n + 1
  BY <1>1, MulNat
<1> HIDE DEF n
<1>4. (((n * symbol_size) % Modulus) + symbol_size) % Modulus
        = ((n * symbol_size) + symbol_size) % Modulus
  BY <1>1, <1>2, ModAdd
<1>5. (n + 1) * symbol_size = (n * symbol_size) + symbol_size
  BY <1>1
<1> QED
  BY <1>3, <1>4, <1>5 DEF Copied, n

\* The first symbol of the next block, also if the number of symbols has wrapped.
LEMMA CopiedBlock ==
  ASSUME HeaderOK, NEW k \in Nat
  PROVE  Copied(k, (block_size + redundance_size) % Modulus) = Copied(k + 1, 0)
<1> DEFINE whole == block_size + redundance_size
           q == whole \div Modulus
           t == whole % Modulus
           n == (k * whole) + t
<1>1. whole \in Nat /\ Modulus \in Nat \ {0} /\ symbol_size \in Nat
  BY HeaderTypes
<1> HIDE DEF whole
<1>2. q \in Nat /\ t \in Nat /\ whole = (q * Modulus) + t
  BY <1>1, DivMod
<1> HIDE DEF q, t
<1>3. n \in Nat /\ q * Modulus \in Nat
  BY <1>1, <1>2, MulNat
<1>4. ((k + 1) * whole) + 0 = n + (q * Modulus)
  <2>1. ((k + 1) * whole) + 0 = (k * whole) + whole /\ k * whole \in Nat
    BY <1>1, MulNat
  <2> QED
    BY <2>1, <1>2, <1>3
<1> HIDE DEF n
<1>5. (n + (q * Modulus)) * symbol_size = (n * symbol_size) + ((q * symbol_size) * Modulus)
  BY <1>1, <1>2, <1>3
<1>6. n * symbol_size \in Nat /\ q * symbol_size \in Nat
  BY <1>1, <1>2, <1>3, MulNat
<1>7. ((n * symbol_size) + ((q * symbol_size) * Modulus)) % Modulus = (n * symbol_size) % Modulus
  BY <1>1, <1>6, ModOff
<1>8. Copied(k + 1, 0) = ((((k + 1) * whole) + 0) * symbol_size) % Modulus
  BY DEF Copied, whole
<1>9. Copied(k, t) = (n * symbol_size) % Modulus
  BY DEF Copied, n, whole
<1> QED
  BY <1>4, <1>5, <1>7, <1>8, <1>9 DEF t, whole

\* If everything fits, a symbol that is copied is in the file.
LEMMA InsideFile ==
  ASSUME HeaderOK, Fits, NEW k \in Nat, NEW s \in Nat,
         k < NumberBlocks, s < Listed(k)
  PROVE  Copied(k, s) + symbol_size <= PayloadSize
<1> DEFINE n == (k * (block_size + redundance_size)) + s
           total == SourceSymbols + (TotalBlocks * redundance_size)
<1>1. /\ block_size \in Nat \ {0} /\ symbol_size \in Nat \ {0} /\ redundance_size \in Nat
      /\ Modulus \in Nat \ {0} /\ n \in Nat
      /\ Quotient \in Nat /\ RestSymbols \in Nat /\ Rest \in Nat
      /\ (Rest = 0 <=> RestSymbols = 0)
  BY HeaderTypes, RestTypes, CopiedType
<1>2. /\ BlocksFit /\ NumberBlocks = TotalBlocks
      /\ NumberBlocks = Quotient + (IF Rest # 0 THEN 1 ELSE 0)
      /\ SourceSymbols = (Quotient * block_size) + RestSymbols
      /\ PayloadSize = total * symbol_size
      /\ PayloadSize < Modulus
  BY BlocksAgree, SymbolCount DEF Fits, PayloadSize
<1>3. LastBlockSize = RestSymbols
  BY <1>2, SeenIfFits, SeenAsItIs
<1>3a. s < SizeOf(k) + redundance_size
  <2>1. BlockBytes # 0
    BY <1>2, BlocksAgree
  <2>2. /\ Listed(k) \in Nat /\ Listed(k) <= SizeOf(k) + redundance_size
        /\ SizeOf(k) \in Nat
    BY <2>1, BlockTypes, ListedTypes
  <2> QED
    BY <2>2, <1>1
<1>4. Quotient * block_size \in Nat /\ TotalBlocks * redundance_size \in Nat
  BY <1>1, <1>2, MulNat
<1>5. k * (block_size + redundance_size) = (k * block_size) + (k * redundance_size)
  BY <1>1
<1>6. total \in Nat
  BY <1>1, <1>2, <1>4
<1>7. n < total
  <2>1. CASE k = NumberBlocks - 1
    <3>1. s < RestSymbols + redundance_size
      BY <2>1, <1>3, <1>3a DEF SizeOf
    <3>2. (k * redundance_size) + redundance_size <= TotalBlocks * redundance_size
      BY <2>1, <1>1, <1>2, MulLess
    <3>3. k * block_size <= Quotient * block_size
      BY <2>1, <1>1, <1>2, MulLeq
    <3>4. k * block_size \in Nat /\ k * redundance_size \in Nat
      BY <1>1, MulNat
    <3> QED
      BY <3>1, <3>2, <3>3, <3>4, <1>1, <1>2, <1>4, <1>5
  <2>2. CASE k # NumberBlocks - 1
    <3>1. s < block_size + redundance_size
      BY <2>2, <1>3a DEF SizeOf
    <3>2. (k * redundance_size) + redundance_size <= TotalBlocks * redundance_size
      BY <1>1, <1>2, MulLess
    <3>3. (k * block_size) + block_size <= Quotient * block_size
      BY <2>2, <1>1, <1>2, MulLess
    <3>4. k * block_size \in Nat /\ k * redundance_size \in Nat
      BY <1>1, MulNat
    <3> QED
      BY <3>1, <3>2, <3>3, <3>4, <1>1, <1>2, <1>4, <1>5
  <2> QED
    BY <2>1, <2>2
<1> HIDE DEF n, total
<1>8. (n * symbol_size) + symbol_size <= total * symbol_size
  BY <1>1, <1>6, <1>7, MulLess
<1>9. n * symbol_size \in Nat
  BY <1>1, MulNat
<1>10. (n * symbol_size) % Modulus = n * symbol_size
  BY <1>1, <1>2, <1>8, <1>9, ModSmall
<1> QED
  BY <1>2, <1>8, <1>10 DEF Copied, n

\* If everything fits, the number of symbols of a block does not wrap.
LEMMA ListFits ==
  ASSUME HeaderOK, Fits, NEW k \in Nat, k < NumberBlocks
  PROVE  Listed(k) = SizeOf(k) + redundance_size
<1> DEFINE total == SourceSymbols + (TotalBlocks * redundance_size)
<1>1. /\ block_size \in Nat \ {0} /\ symbol_size \in Nat \ {0} /\ redundance_size \in Nat
      /\ Modulus \in Nat \ {0}
      /\ Quotient \in Nat /\ RestSymbols \in Nat
  BY HeaderTypes, RestTypes
<1>2. /\ BlocksFit /\ NumberBlocks = TotalBlocks /\ BlockBytes # 0
      /\ NumberBlocks = Quotient + (IF Rest # 0 THEN 1 ELSE 0)
      /\ SourceSymbols = (Quotient * block_size) + RestSymbols
      /\ PayloadSize = total * symbol_size
      /\ PayloadSize < Modulus
  BY BlocksAgree, SymbolCount DEF Fits, PayloadSize
<1>3. LastBlockSize = RestSymbols
  BY <1>2, SeenIfFits, SeenAsItIs
<1>4. Quotient * block_size \in Nat /\ TotalBlocks * redundance_size \in Nat
  BY <1>1, <1>2, MulNat
<1>5. SizeOf(k) \in Nat /\ SizeOf(k) <= SourceSymbols
  <2>1. CASE k = NumberBlocks - 1
    BY <2>1, <1>1, <1>2, <1>3, <1>4 DEF SizeOf
  <2>2. CASE k # NumberBlocks - 1
    <3>1. SizeOf(k) = block_size /\ 0 < Quotient
      BY <2>2, <1>1, <1>2 DEF SizeOf
    <3>2. (0 * block_size) + block_size <= Quotient * block_size
      BY <3>1, <1>1, MulLess
    <3> QED
      BY <3>1, <3>2, <1>1, <1>2, <1>4
  <2> QED
    BY <2>1, <2>2
<1>6. (0 * redundance_size) + redundance_size <= TotalBlocks * redundance_size
  BY <1>1, <1>2, MulLess
<1>7. total \in Nat /\ SizeOf(k) + redundance_size <= total
  BY <1>1, <1>2, <1>4, <1>5, <1>6
<1> HIDE DEF total
<1>8. total <= total * symbol_size
  <2>1. 1 * total <= symbol_size * total
    BY <1>1, <1>7, MulLeq
  <2> QED
    BY <2>1, <1>1, <1>7
<1>9. SizeOf(k) + redundance_size < Modulus
  <2>1. total * symbol_size \in Nat
    BY <1>1, <1>7, MulNat
  <2> QED
    BY <2>1, <1>1, <1>2, <1>5, <1>7, <1>8
<1> QED
  BY <1>2, <1>9, ListedTypes

\* Byte t of symbol s of block k is the byte of the message with this number.
LEMMA PlaceOfSymbol ==
  ASSUME HeaderOK, NEW k \in Nat, NEW s \in Nat, NEW t \in Nat,
         s < block_size, t < symbol_size
  PROVE  WrappedPlace(((((k * block_size) + s) * symbol_size) + t)) = Copied(k, s) + t
<1> DEFINE m == (k * block_size) + s
           p == (m * symbol_size) + t
           n == (k * (block_size + redundance_size)) + s
<1>1. /\ block_size \in Nat \ {0} /\ symbol_size \in Nat \ {0} /\ redundance_size \in Nat
      /\ m \in Nat /\ n \in Nat
  <2>1. n \in Nat
    BY CopiedType
  <2>2. block_size \in Nat \ {0} /\ symbol_size \in Nat \ {0} /\ redundance_size \in Nat
    BY HeaderTypes
  <2>3. m \in Nat
    BY <2>2, MulNat
  <2> QED
    BY <2>1, <2>2, <2>3
<1>2. m \div block_size = k
  BY <1>1, DivUnique
<1>3. m + (k * redundance_size) = n
  BY <1>1
<1> HIDE DEF m, n
<1>4. p \div symbol_size = m /\ p % symbol_size = t
  BY <1>1, DivUnique
<1> HIDE DEF p
<1>5. PlaceOf(p) = (n * symbol_size) + t
  BY <1>2, <1>3, <1>4 DEF PlaceOf
<1>6. n * symbol_size \in Nat
  BY <1>1, MulNat
<1>7. PlaceOf(p) - (p % symbol_size) = n * symbol_size
  BY <1>4, <1>5, <1>6
<1>8. WrappedPlace(p) = ((n * symbol_size) % Modulus) + t
  BY <1>4, <1>7 DEF WrappedPlace
<1> QED
  BY <1>8 DEF Copied, m, n, p

\* If everything fits, no place in the file wraps.
LEMMA UnwrappedPlace ==
  ASSUME HeaderOK, Fits, NEW n \in Nat, n < message_size
  PROVE  WrappedPlace(n) = PlaceOf(n)
<1> DEFINE s == n \div symbol_size
           k == s \div block_size
           t == n % symbol_size
           place == (s + (k * redundance_size)) * symbol_size
           total == SourceSymbols + (TotalBlocks * redundance_size)
<1>1. /\ block_size \in Nat \ {0} /\ symbol_size \in Nat \ {0} /\ redundance_size \in Nat
      /\ Modulus \in Nat \ {0} /\ message_size \in Nat
  BY HeaderTypes
<1>2. s \in Nat /\ t \in Nat /\ n = (s * symbol_size) + t
  BY <1>1, DivMod
<1>3. k \in Nat /\ s % block_size \in Nat /\ s = (k * block_size) + (s % block_size)
  BY <1>1, <1>2, DivMod
<1>4. SourceSymbols \in Nat /\ message_size <= SourceSymbols * symbol_size
  BY <1>1, Ceiling DEF SourceSymbols
<1>5. TotalBlocks \in Nat /\ SourceSymbols <= TotalBlocks * block_size
  BY <1>1, <1>4, Ceiling DEF TotalBlocks
<1>6. PayloadSize = total * symbol_size /\ PayloadSize < Modulus
  BY DEF Fits, PayloadSize
<1> HIDE DEF s, k, t
<1>7. s < SourceSymbols
  <2> SUFFICES ASSUME SourceSymbols <= s PROVE FALSE
    BY <1>2, <1>4
  <2>1. SourceSymbols * symbol_size <= s * symbol_size
    BY <1>1, <1>2, <1>4, MulLeq
  <2>2. s * symbol_size \in Nat /\ SourceSymbols * symbol_size \in Nat
    BY <1>1, <1>2, <1>4, MulNat
  <2> QED
    BY <2>1, <2>2, <1>1, <1>2, <1>4
<1>8. k < TotalBlocks
  <2> SUFFICES ASSUME TotalBlocks <= k PROVE FALSE
    BY <1>3, <1>5
  <2>1. TotalBlocks * block_size <= k * block_size
    BY <1>1, <1>3, <1>5, MulLeq
  <2>2. k * block_size \in Nat /\ TotalBlocks * block_size \in Nat
    BY <1>1, <1>3, <1>5, MulNat
  <2> QED
    BY <2>1, <2>2, <1>1, <1>2, <1>3, <1>4, <1>5, <1>7
<1>9. k * redundance_size <= TotalBlocks * redundance_size
  BY <1>1, <1>3, <1>5, <1>8, MulLeq
<1>10. k * redundance_size \in Nat /\ TotalBlocks * redundance_size \in Nat
  BY <1>1, <1>3, <1>5, MulNat
<1>11. s + (k * redundance_size) \in Nat /\ total \in Nat /\ s + (k * redundance_size) < total
  BY <1>2, <1>4, <1>7, <1>9, <1>10
<1> HIDE DEF total
<1>12. place + symbol_size <= total * symbol_size /\ place \in Nat
  BY <1>1, <1>11, MulLess, MulNat
<1>13. place % Modulus = place
  BY <1>1, <1>6, <1>12, ModSmall
<1>14. PlaceOf(n) = place + t
  BY DEF PlaceOf, place, s, k, t
<1> HIDE DEF place
<1>15. PlaceOf(n) - t = place
  BY <1>2, <1>12, <1>14
<1> QED
  BY <1>13, <1>14, <1>15 DEF WrappedPlace, t

-----------------------------------------------------------------------------
(* How much is written *)

\* The symbol at which writeToFile is, when it has come to symbol s of block k.
SymbolAt(k, s) == (k * block_size) + s

\* All that it writes: its last symbol may be cut.
RecordBytes ==
  IF NumberBlocks = 0 THEN 0
  ELSE LET last == NumberBlocks - 1
       IN  IF SizeOf(last) = 0 THEN SymbolAt(last, 0) * symbol_size
           ELSE (SymbolAt(last, SizeOf(last) - 1) * symbol_size) + BytesOf(last, SizeOf(last) - 1)

\* The last symbol has been written.
Ended(k, s) == k = NumberBlocks \/ (k = NumberBlocks - 1 /\ s = SizeOf(k) /\ s > 0)

LengthAt(k, s) == IF Ended(k, s) THEN RecordBytes ELSE SymbolAt(k, s) * symbol_size

LEMMA SymbolAtType ==
  ASSUME HeaderOK, NEW k \in Nat, NEW s \in Nat
  PROVE  SymbolAt(k, s) \in Nat /\ SymbolAt(k, s) * symbol_size \in Nat
<1>1. block_size \in Nat /\ symbol_size \in Nat
  BY HeaderTypes
<1>2. SymbolAt(k, s) \in Nat
  BY <1>1, MulNat DEF SymbolAt
<1> QED
  BY <1>1, <1>2, MulNat

LEMMA RecordBytesType ==
  ASSUME HeaderOK, BlockBytes # 0
  PROVE  RecordBytes \in Nat
<1> DEFINE last == NumberBlocks - 1
<1>1. NumberBlocks \in Nat /\ SizeOf(last) \in Nat
  BY BlockTypes
<1>2. CASE NumberBlocks = 0
  BY <1>2 DEF RecordBytes
<1>3. CASE NumberBlocks # 0
  <2>1. last \in Nat
    BY <1>1, <1>3
  <2>2. SymbolAt(last, 0) * symbol_size \in Nat
    BY <2>1, SymbolAtType
  <2>3. SizeOf(last) # 0 =>
          /\ SymbolAt(last, SizeOf(last) - 1) * symbol_size \in Nat
          /\ BytesOf(last, SizeOf(last) - 1) \in Nat
    <3> SUFFICES ASSUME SizeOf(last) # 0
                 PROVE  /\ SymbolAt(last, SizeOf(last) - 1) * symbol_size \in Nat
                        /\ BytesOf(last, SizeOf(last) - 1) \in Nat
      OBVIOUS
    <3>1. SizeOf(last) - 1 \in Nat
      BY <1>1
    <3> QED
      BY <2>1, <3>1, SymbolAtType, BytesTypes
  <2> QED
    BY <1>3, <2>2, <2>3 DEF RecordBytes
<1> QED
  BY <1>2, <1>3

LEMMA LengthStart ==
  ASSUME HeaderOK, BlockBytes # 0
  PROVE  LengthAt(0, 0) = 0
<1>1. block_size \in Nat /\ symbol_size \in Nat /\ NumberBlocks \in Nat
  BY HeaderTypes, BlockTypes
<1>2. SymbolAt(0, 0) = 0 /\ SymbolAt(0, 0) * symbol_size = 0
  BY <1>1 DEF SymbolAt
<1> QED
  BY <1>1, <1>2 DEF LengthAt, Ended, RecordBytes

\* One symbol of writeToFile.
LEMMA LengthStep ==
  ASSUME HeaderOK, BlockBytes # 0, NEW k \in Nat, NEW s \in Nat,
         k < NumberBlocks, s < SizeOf(k)
  PROVE  /\ LengthAt(k, s) = SymbolAt(k, s) * symbol_size
         /\ LengthAt(k, s + 1) = LengthAt(k, s) + BytesOf(k, s)
<1>1. NumberBlocks \in Nat /\ SizeOf(k) \in Nat /\ symbol_size \in Nat /\ block_size \in Nat
  BY BlockTypes, HeaderTypes
<1>2. ~ Ended(k, s)
  BY <1>1 DEF Ended
<1>3. LengthAt(k, s) = SymbolAt(k, s) * symbol_size
  BY <1>2 DEF LengthAt
<1>4. CASE k = NumberBlocks - 1 /\ s = SizeOf(k) - 1
  <2>1. Ended(k, s + 1)
    BY <1>1, <1>4 DEF Ended
  <2>2. RecordBytes = (SymbolAt(k, s) * symbol_size) + BytesOf(k, s)
    BY <1>1, <1>4 DEF RecordBytes
  <2> QED
    BY <1>3, <2>1, <2>2 DEF LengthAt
<1>5. CASE ~ (k = NumberBlocks - 1 /\ s = SizeOf(k) - 1)
  <2>1. ~ Ended(k, s + 1)
    BY <1>1, <1>5 DEF Ended
  <2>2. BytesOf(k, s) = symbol_size
    BY <1>5, BytesTypes
  <2>3. k * block_size \in Nat
    BY <1>1, MulNat
  <2>4. SymbolAt(k, s + 1) = SymbolAt(k, s) + 1
    BY <2>3 DEF SymbolAt
  <2>5. SymbolAt(k, s) \in Nat
    BY SymbolAtType
  <2>6. (SymbolAt(k, s) + 1) * symbol_size = (SymbolAt(k, s) * symbol_size) + symbol_size
    BY <1>1, <2>5
  <2> QED
    BY <1>3, <2>1, <2>2, <2>4, <2>6 DEF LengthAt
<1> QED
  BY <1>3, <1>4, <1>5

\* Going on to the next block writes nothing.
LEMMA LengthBlock ==
  ASSUME HeaderOK, BlockBytes # 0, NEW k \in Nat, k < NumberBlocks
  PROVE  LengthAt(k + 1, 0) = LengthAt(k, SizeOf(k))
<1>1. NumberBlocks \in Nat /\ SizeOf(k) \in Nat /\ symbol_size \in Nat
      /\ block_size \in Nat \ {0}
  BY BlockTypes, HeaderTypes
<1>2. CASE k = NumberBlocks - 1
  <2>1. LengthAt(k + 1, 0) = RecordBytes
    BY <1>1, <1>2 DEF LengthAt, Ended
  <2>2. SizeOf(k) > 0 => LengthAt(k, SizeOf(k)) = RecordBytes
    BY <1>2 DEF LengthAt, Ended
  <2>3. SizeOf(k) = 0 => RecordBytes = SymbolAt(k, 0) * symbol_size
    BY <1>1, <1>2 DEF RecordBytes
  <2>4. SizeOf(k) = 0 => LengthAt(k, SizeOf(k)) = SymbolAt(k, 0) * symbol_size
    BY <1>1, <1>2 DEF LengthAt, Ended
  <2> QED
    BY <1>1, <2>1, <2>2, <2>3, <2>4
<1>3. CASE k # NumberBlocks - 1
  <2>1. SizeOf(k) = block_size
    BY <1>3, BlockTypes
  <2>2. ~ Ended(k, SizeOf(k)) /\ ~ Ended(k + 1, 0)
    BY <1>1, <1>3 DEF Ended
  <2>3. SymbolAt(k + 1, 0) = SymbolAt(k, block_size)
    BY <1>1 DEF SymbolAt
  <2> QED
    BY <2>1, <2>2, <2>3 DEF LengthAt
<1> QED
  BY <1>2, <1>3

LEMMA LengthBound ==
  ASSUME HeaderOK, BlockBytes # 0, NEW k \in Nat, NEW s \in Nat,
         k <= NumberBlocks, k < NumberBlocks => s <= SizeOf(k)
  PROVE  LengthAt(k, s) <= RecordBytes
<1> DEFINE last == NumberBlocks - 1
           size == SizeOf(last)
<1>1. NumberBlocks \in Nat /\ size \in Nat /\ SizeOf(k) \in Nat /\ SizeOf(k) <= block_size
      /\ symbol_size \in Nat /\ block_size \in Nat \ {0} /\ RecordBytes \in Nat
  BY BlockTypes, HeaderTypes, RecordBytesType
<1>2. CASE Ended(k, s)
  BY <1>1, <1>2 DEF LengthAt
<1>3. CASE ~ Ended(k, s)
  <2>1. k < NumberBlocks /\ s <= SizeOf(k) /\ last \in Nat /\ k <= last
    BY <1>1, <1>3 DEF Ended
  <2>2. k * block_size \in Nat /\ last * block_size \in Nat
    BY <1>1, <2>1, MulNat
  <2>3. k # last => (k * block_size) + block_size <= last * block_size
    BY <1>1, <2>1, MulLess
  <2>4. CASE size = 0
    <3>1. SymbolAt(k, s) <= SymbolAt(last, 0)
      BY <1>1, <2>1, <2>2, <2>3, <2>4 DEF SymbolAt
    <3>2. SymbolAt(k, s) \in Nat /\ SymbolAt(last, 0) \in Nat
      BY <2>1, SymbolAtType
    <3>3. SymbolAt(k, s) * symbol_size <= SymbolAt(last, 0) * symbol_size
      BY <1>1, <3>1, <3>2, MulLeq
    <3> QED
      BY <1>1, <1>3, <2>1, <2>4, <3>3 DEF LengthAt, RecordBytes
  <2>5. CASE size # 0
    <3>1. size - 1 \in Nat /\ BytesOf(last, size - 1) \in Nat
      BY <1>1, <2>5, BytesTypes
    <3>2. SymbolAt(k, s) <= SymbolAt(last, size - 1)
      <4>1. CASE k = last
        <5>1. s <= size - 1
          BY <4>1, <1>1, <1>3, <2>1, <2>5 DEF Ended
        <5> QED
          BY <4>1, <5>1, <1>1, <2>2 DEF SymbolAt
      <4>2. CASE k # last
        BY <4>2, <1>1, <2>1, <2>2, <2>3, <3>1 DEF SymbolAt
      <4> QED
        BY <4>1, <4>2
    <3>3. /\ SymbolAt(k, s) \in Nat /\ SymbolAt(last, size - 1) \in Nat
          /\ SymbolAt(k, s) * symbol_size \in Nat
          /\ SymbolAt(last, size - 1) * symbol_size \in Nat
      BY <2>1, <3>1, SymbolAtType
    <3>4. SymbolAt(k, s) * symbol_size <= SymbolAt(last, size - 1) * symbol_size
      BY <1>1, <3>2, <3>3, MulLeq
    <3>5. RecordBytes = (SymbolAt(last, size - 1) * symbol_size) + BytesOf(last, size - 1)
      BY <1>1, <2>1, <2>5 DEF RecordBytes
    <3> QED
      BY <1>3, <3>1, <3>3, <3>4, <3>5 DEF LengthAt
  <2> QED
    BY <2>4, <2>5
<1> QED
  BY <1>2, <1>3

\* The length of the record, against the length of the message.
LEMMA RecordShort ==
  ASSUME HeaderOK, BlocksFit, WholeBlocksOff
  PROVE  RecordBytes + Shortfall = message_size
<1> DEFINE last == NumberBlocks - 1
<1>1. /\ block_size \in Nat \ {0} /\ symbol_size \in Nat \ {0}
      /\ WholeBlock \in Nat \ {0} /\ message_size \in Nat
      /\ Quotient \in Nat /\ RestSymbols \in Nat /\ Rest \in Nat
      /\ message_size = (Quotient * WholeBlock) + Rest
      /\ (Rest = 0 <=> RestSymbols = 0)
  BY HeaderTypes, RestTypes
<1>2. /\ NumberBlocks = Quotient + (IF Rest # 0 THEN 1 ELSE 0)
      /\ BlockBytes # 0 /\ LastBytes = Rest
  BY BlocksAgree
<1>3. SizeOf(last) = RestSymbols
  BY SeenAsItIs DEF SizeOf
<1>4. (Quotient * block_size) * symbol_size = Quotient * WholeBlock
  BY <1>1 DEF WholeBlock
<1>5. CASE message_size = 0
  <2>1. Quotient * WholeBlock \in Nat
    BY <1>1, MulNat
  <2>2. Rest = 0 /\ Quotient * WholeBlock = 0
    BY <2>1, <1>1, <1>5
  <2>3. Quotient = 0
    BY <2>2, <1>1, MulPos
  <2> QED
    BY <2>2, <2>3, <1>2, <1>5 DEF RecordBytes, Shortfall
<1>6. CASE message_size # 0 /\ Rest = 0
  <2>1. Quotient # 0 /\ NumberBlocks = Quotient
    BY <1>1, <1>2, <1>6
  <2>2. message_size % symbol_size = 0
    <3>1. (((Quotient * block_size) * symbol_size) + 0) % symbol_size = 0
      BY <1>1, MulNat, DivUnique
    <3>2. Quotient * WholeBlock \in Nat
      BY <1>1, MulNat
    <3> QED
      BY <3>1, <3>2, <1>1, <1>4, <1>6
  <2>3. Shortfall = WholeBlock
    BY <2>2, <1>6 DEF Shortfall, Rest, WholeBlock
  <2>4. RecordBytes = SymbolAt(last, 0) * symbol_size
    BY <2>1, <1>1, <1>3, <1>6 DEF RecordBytes
  <2>5. SymbolAt(last, 0) * symbol_size = (Quotient * WholeBlock) - WholeBlock
    BY <2>1, <1>1 DEF SymbolAt, WholeBlock
  <2>6. Quotient * WholeBlock \in Nat
    BY <1>1, MulNat
  <2> QED
    BY <2>3, <2>4, <2>5, <2>6, <1>1, <1>6
<1>7. CASE Rest # 0
  <2> DEFINE part == Rest % symbol_size
             full == Rest \div symbol_size
  <2>1. /\ full \in Nat /\ part \in Nat /\ part < symbol_size
        /\ Rest = (full * symbol_size) + part
    BY <1>1, DivMod
  <2> HIDE DEF part, full
  <2>2. last = Quotient /\ NumberBlocks # 0 /\ RestSymbols # 0
    BY <1>1, <1>2, <1>7
  <2>3. RecordBytes = (SymbolAt(last, RestSymbols - 1) * symbol_size) + part
    BY <2>2, <1>2, <1>3, BytesTypes DEF RecordBytes, part
  <2>4. SymbolAt(last, RestSymbols - 1) * symbol_size
          = (Quotient * WholeBlock) + ((RestSymbols - 1) * symbol_size)
    BY <2>2, <1>1 DEF SymbolAt, WholeBlock
  <2>5. message_size % symbol_size = part
    <3> DEFINE s == (Quotient * block_size) + full
    <3>1. Quotient * block_size \in Nat
      BY <1>1, MulNat
    <3>2. s \in Nat
      BY <3>1, <2>1
    <3>3. s * symbol_size = ((Quotient * block_size) * symbol_size) + (full * symbol_size)
      BY <3>1, <2>1, <1>1
    <3>4. full * symbol_size \in Nat /\ (Quotient * block_size) * symbol_size \in Nat
      BY <3>1, <2>1, <1>1, MulNat
    <3> HIDE DEF s
    <3>5. message_size = ((Quotient * block_size) * symbol_size) + Rest
      BY <1>1, <1>4
    <3>6. message_size = (s * symbol_size) + part
      <4> DEFINE u == (Quotient * block_size) * symbol_size
                 v == full * symbol_size
      <4>1. u \in Nat /\ v \in Nat /\ s * symbol_size = u + v
            /\ message_size = u + Rest /\ Rest = v + part /\ part \in Nat
        BY <3>3, <3>4, <3>5, <2>1
      <4> HIDE DEF u, v
      <4> QED
        BY <4>1
    <3>7. ((s * symbol_size) + part) % symbol_size = part
      BY <3>2, <2>1, <1>1, DivUnique
    <3> QED
      BY <3>6, <3>7
  <2>6. message_size % WholeBlock # 0
    BY <1>7 DEF Rest
  <2>7. RestSymbols = full + (IF part # 0 THEN 1 ELSE 0)
    <3> DEFINE c == full + (IF part # 0 THEN 1 ELSE 0)
    <3>1. c * symbol_size = (full * symbol_size) + (IF part # 0 THEN symbol_size ELSE 0)
      BY <2>1, <1>1
    <3>2. c \in Nat /\ full * symbol_size \in Nat
      BY <2>1, <1>1, MulNat
    <3> HIDE DEF c
    <3>3. Rest <= c * symbol_size /\ c * symbol_size < Rest + symbol_size
      BY <3>1, <3>2, <2>1, <1>1
    <3> QED
      BY <3>2, <3>3, <1>1, CeilingUnique DEF RestSymbols, c
  <2>8. full * symbol_size \in Nat /\ Quotient * WholeBlock \in Nat
    BY <2>1, <1>1, MulNat
  <2>9. message_size # 0
    BY <2>8, <1>1, <1>7
  <2>10. CASE part # 0
    <3>1. Shortfall = 0
      BY <2>5, <2>10 DEF Shortfall
    <3>2. RestSymbols - 1 = full
      BY <2>1, <2>7, <2>10
    <3> QED
      BY <3>1, <3>2, <2>1, <2>3, <2>4, <2>8, <1>1
  <2>11. CASE part = 0
    <3>1. Shortfall = symbol_size
      BY <2>5, <2>6, <2>9, <2>11 DEF Shortfall, WholeBlock
    <3>2. (RestSymbols - 1) * symbol_size = (full * symbol_size) - symbol_size
      BY <2>1, <2>7, <2>11, <1>1
    <3> QED
      BY <3>1, <3>2, <2>1, <2>3, <2>4, <2>8, <2>11, <1>1
  <2> QED
    BY <2>10, <2>11
<1> QED
  BY <1>5, <1>6, <1>7

LEMMA RecordFits ==
  ASSUME HeaderOK, Fits
  PROVE  RecordBytes <= message_size
<1>1. RecordBytes + Shortfall = message_size
  BY SeenIfFits, RecordShort DEF Fits
<1>2. RecordBytes \in Nat
  BY BlocksAgree, RecordBytesType DEF Fits
<1>3. Shortfall \in Nat
  BY HeaderTypes DEF Shortfall
<1> QED
  BY <1>1, <1>2, <1>3

-----------------------------------------------------------------------------
(* The invariant *)

\* makeBlockList is at symbol j of block i, or between two blocks.
CutInv ==
  phase = "cut" =>
    /\ BlockBytes # 0 /\ written = <<>>
    /\ i <= NumberBlocks
    /\ \/ Len(blocks) = i /\ (i < NumberBlocks => offset = Copied(i, 0))
       \/ /\ Len(blocks) = i + 1 /\ i < NumberBlocks
          /\ j <= Listed(i)
          /\ offset = Copied(i, j)
          /\ Len(blocks[i + 1]) = j
    /\ \A k \in 1 .. i : Len(blocks[k]) = Listed(k - 1)

\* Every symbol in the list was copied from its place.
CopyInv ==
  \A k \in DOMAIN blocks : \A s \in DOMAIN blocks[k] :
    /\ BlockBytes # 0
    /\ k <= NumberBlocks /\ s <= Listed(k - 1)
    /\ blocks[k][s] = Copied(k - 1, s - 1)

\* writeToFile is at symbol j of block i and has written what comes before it.
WriteInv ==
  phase = "write" =>
    /\ BlockBytes # 0
    /\ i <= NumberBlocks /\ (i < NumberBlocks => j <= SizeOf(i))
    /\ Len(blocks) = NumberBlocks
    /\ \A k \in i + 1 .. NumberBlocks :
         Len(blocks[k]) = Listed(k - 1)
    /\ Len(written) = LengthAt(i, j)

WrittenInv ==
  /\ phase = "open" => blocks = <<>> /\ offset = 0 /\ i = 0
  /\ phase = "open" => written = <<>>
  /\ written # <<>> => BlockBytes # 0 /\ Len(written) <= RecordBytes
  /\ \A n \in DOMAIN written : written[n] = WrappedPlace(n - 1)

EndInv ==
  /\ phase = "done" => BlockBytes # 0 /\ Len(written) = RecordBytes
  /\ phase = "divided" => BlockBytes = 0
  /\ phase = "pastEnd" => BlockBytes # 0 /\ (Fits => available < PayloadSize)
  /\ phase = "pastList" => ~ Fits
  /\ phase \in {"noBlock", "freedNull"} => BlockBytes # 0 /\ Len(blocks) = NumberBlocks
  /\ phase = "noBlock" => NumberBlocks = 0

LayoutInv == TypeOK /\ CutInv /\ CopyInv /\ WriteInv /\ WrittenInv /\ EndInv

LEMMA InitLayout == Init => LayoutInv
<1> SUFFICES ASSUME Init PROVE LayoutInv
  OBVIOUS
<1>1. TypeOK
  <2>1. Modulus \in Nat \ {0}
    BY LayoutAssumption
  <2>2. blocks \in Seq(Seq(UInt)) /\ written \in Seq(Nat)
    BY EmptySeq DEF Init
  <2>3. available \in Nat
    <3>1. PICK m \in Missing :
            available = IF BlockBytes = 0 \/ PayloadSize < m THEN 0 ELSE PayloadSize - m
      BY DEF Init
    <3>2. m \in Nat
      BY LayoutAssumption
    <3>3. CASE BlockBytes = 0
      BY <3>1, <3>3
    <3>4. CASE BlockBytes # 0
      <4>1. PayloadSize \in Nat
        BY <3>4, HeaderHolds, PayloadType DEF Init, HeaderRead
      <4> QED
        BY <4>1, <3>1, <3>2, <3>4
    <3> QED
      BY <3>3, <3>4
  <2> QED
    BY <2>1, <2>2, <2>3 DEF Init, TypeOK, UInt
<1> QED
  BY <1>1 DEF Init, LayoutInv, CutInv, CopyInv, WriteInv, WrittenInv, EndInv

LEMMA OpenFileStep ==
  ASSUME LayoutInv, OpenFile
  PROVE  LayoutInv'
<1>1. /\ HeaderRead /\ phase = "open" /\ blocks = <<>> /\ offset = 0 /\ i = 0 /\ written = <<>>
  BY DEF LayoutInv, TypeOK, HeaderRead, WrittenInv, OpenFile
<1>2. /\ UNCHANGED <<header, blocks, offset, i, j, written>>
      /\ phase' = IF BlockBytes = 0 THEN "divided" ELSE "cut"
  BY DEF OpenFile
<1>3. TypeOK'
  BY <1>2 DEF LayoutInv, TypeOK, Crashes, header
<1>4. UNCHANGED <<BlockBytes, NumberBlocks>>
  BY <1>2, HeaderSame
<1>5. CutInv'
  <2> SUFFICES ASSUME phase' = "cut" PROVE CutInv'
    BY DEF CutInv
  <2>1. BlockBytes # 0 /\ HeaderOK
    BY <1>1, <1>2, HeaderHolds
  <2>2. NumberBlocks \in Nat
    BY <2>1, BlockTypes
  <2>3. Copied(0, 0) = 0
    <3>1. ((0 * (block_size + redundance_size)) + 0) * symbol_size = 0
      BY <2>1, HeaderTypes
    <3>2. 0 % Modulus = 0
      BY <2>1, HeaderTypes, ModSmall
    <3> QED
      BY <3>1, <3>2 DEF Copied
  <2>4. Copied(0, 0)' = Copied(0, 0)
    BY <1>2 DEF Copied, header
  <2> QED
    BY <1>1, <1>2, <1>4, <2>1, <2>2, <2>3, <2>4 DEF CutInv
<1>6. CopyInv' /\ WriteInv' /\ WrittenInv' /\ EndInv'
  BY <1>1, <1>2, <1>4 DEF CopyInv, WriteInv, WrittenInv, EndInv
<1> QED
  BY <1>3, <1>5, <1>6 DEF LayoutInv

\* Nor do the places and lengths, which are computed from the header.
LEMMA PlacesSame ==
  ASSUME UNCHANGED header
  PROVE  /\ \A k, s : Copied(k, s)' = Copied(k, s)
         /\ UNCHANGED RecordBytes
         /\ \A k, s : LengthAt(k, s)' = LengthAt(k, s)
<1>1. /\ UNCHANGED <<block_size, symbol_size, redundance_size, NumberBlocks>>
      /\ \A k : SizeOf(k)' = SizeOf(k)
      /\ \A k, s : BytesOf(k, s)' = BytesOf(k, s)
  BY HeaderSame
<1>2. \A k, s : Copied(k, s)' = Copied(k, s)
  BY <1>1, HeaderTypes DEF Copied, header
<1>3. UNCHANGED RecordBytes
  BY <1>1 DEF RecordBytes, SymbolAt
<1>4. \A k, s : LengthAt(k, s)' = LengthAt(k, s)
  BY <1>1, <1>3 DEF LengthAt, Ended, SymbolAt
<1> QED
  BY <1>2, <1>3, <1>4

\* What a step that leaves the variables alone keeps.
LEMMA KeptParts ==
  ASSUME LayoutInv, UNCHANGED header
  PROVE  /\ phase \in {"cut", "write"} => HeaderOK
         /\ UNCHANGED <<BlockBytes, NumberBlocks, RecordBytes, Fits, PayloadSize>>
         /\ \A k : SizeOf(k)' = SizeOf(k) /\ Listed(k)' = Listed(k)
         /\ UNCHANGED blocks => CopyInv'
         /\ UNCHANGED written /\ phase' # "open" => WrittenInv'
<1>1. ASSUME phase \in {"cut", "write"} PROVE HeaderOK
  <2>1. HeaderRead
    BY DEF LayoutInv, TypeOK, HeaderRead
  <2>2. BlockBytes # 0
    BY <1>1 DEF LayoutInv, CutInv, WriteInv
  <2> QED
    BY <2>1, <2>2, HeaderHolds
<1>2. /\ UNCHANGED <<BlockBytes, NumberBlocks, PayloadSize, Fits>>
      /\ \A k : SizeOf(k)' = SizeOf(k) /\ Listed(k)' = Listed(k)
      /\ \A n : WrappedPlace(n)' = WrappedPlace(n)
  BY HeaderSame
<1>3. UNCHANGED RecordBytes /\ \A k, s : Copied(k, s)' = Copied(k, s)
  BY PlacesSame
<1>4. ASSUME UNCHANGED blocks PROVE CopyInv'
  BY <1>2, <1>3, <1>4 DEF LayoutInv, CopyInv
<1>5. ASSUME UNCHANGED written, phase' # "open" PROVE WrittenInv'
  BY <1>2, <1>3, <1>5 DEF LayoutInv, WrittenInv
<1> QED
  BY <1>1, <1>2, <1>3, <1>4, <1>5

LEMMA OpenFailsStep ==
  ASSUME LayoutInv, OpenFails
  PROVE  LayoutInv'
<1>1. /\ UNCHANGED <<header, blocks, offset, i, j, written>>
      /\ \/ phase' = "failed"
         \/ phase = "cut" /\ i >= NumberBlocks /\ phase' = "freedNull"
  BY DEF OpenFails
<1>2. /\ UNCHANGED <<BlockBytes, NumberBlocks>> /\ CopyInv' /\ WrittenInv'
      /\ phase = "cut" => HeaderOK
  BY <1>1, KeptParts
<1>3. TypeOK'
  BY <1>1 DEF LayoutInv, TypeOK, Crashes, header
<1>4. CutInv' /\ WriteInv'
  BY <1>1 DEF CutInv, WriteInv
<1>5. EndInv'
  <2>1. ASSUME phase = "cut", i >= NumberBlocks
        PROVE  BlockBytes # 0 /\ Len(blocks) = NumberBlocks
    <3>1. /\ BlockBytes # 0 /\ i <= NumberBlocks
          /\ Len(blocks) = i \/ (Len(blocks) = i + 1 /\ i < NumberBlocks)
      BY <2>1 DEF LayoutInv, CutInv
    <3>2. NumberBlocks \in Nat /\ i \in Nat
      BY <1>2, <2>1, <3>1, BlockTypes DEF LayoutInv, TypeOK, UInt
    <3> QED
      BY <2>1, <3>1, <3>2
  <2> QED
    BY <1>1, <1>2, <2>1 DEF EndInv
<1> QED
  BY <1>2, <1>3, <1>4, <1>5 DEF LayoutInv

\* Only a file that does not fit, or is too short, is read past its end.
LEMMA CopyCrashesStep ==
  ASSUME LayoutInv, CopyCrashes
  PROVE  LayoutInv'
<1>1. /\ phase = "cut" /\ Len(blocks) = i + 1 /\ j < Listed(i)
      /\ offset + symbol_size > available /\ phase' = "pastEnd"
      /\ UNCHANGED <<header, blocks, offset, i, j, written>>
  BY DEF CopyCrashes
<1>2. /\ UNCHANGED <<BlockBytes, NumberBlocks, Fits, PayloadSize>>
      /\ CopyInv' /\ WrittenInv' /\ HeaderOK
  BY <1>1, KeptParts
<1>3. TypeOK'
  BY <1>1 DEF LayoutInv, TypeOK, Crashes, header
<1>4. i \in Nat /\ j \in Nat /\ available \in Nat
  BY DEF LayoutInv, TypeOK, UInt
<1>5. /\ BlockBytes # 0 /\ i < NumberBlocks /\ offset = Copied(i, j)
  BY <1>1, <1>4 DEF LayoutInv, CutInv
<1>6. ASSUME Fits PROVE available < PayloadSize
  <2>1. Copied(i, j) + symbol_size <= PayloadSize
    BY <1>1, <1>2, <1>4, <1>5, <1>6, InsideFile
  <2>2. Copied(i, j) \in Nat /\ symbol_size \in Nat
    <3>1. Copied(i, j) \in UInt
      BY <1>2, <1>4, CopiedType
    <3>2. symbol_size \in Nat /\ Modulus \in Nat
      BY <1>2, HeaderTypes
    <3> QED
      BY <3>1, <3>2 DEF UInt
  <2>3. PayloadSize \in Nat
    BY <1>2, PayloadType
  <2> QED
    BY <2>1, <2>2, <2>3, <1>1, <1>4, <1>5
<1>7. CutInv' /\ WriteInv' /\ EndInv'
  <2>1. available' = available
    BY <1>1 DEF header
  <2> QED
    BY <2>1, <1>1, <1>2, <1>5, <1>6 DEF CutInv, WriteInv, EndInv
<1> QED
  BY <1>2, <1>3, <1>7 DEF LayoutInv

\* Nor is the list of a block shorter than the block, unless a size wraps.
LEMMA WriteCrashesStep ==
  ASSUME LayoutInv, WriteCrashes
  PROVE  LayoutInv'
<1>1. /\ phase = "write" /\ i < NumberBlocks /\ j < SizeOf(i)
      /\ j >= Len(blocks[i + 1]) /\ phase' = "pastList"
      /\ UNCHANGED <<header, blocks, offset, i, j, written>>
  BY DEF WriteCrashes
<1>2. /\ UNCHANGED Fits
      /\ CopyInv' /\ WrittenInv' /\ HeaderOK
  BY <1>1, KeptParts
<1>3. TypeOK'
  BY <1>1 DEF LayoutInv, TypeOK, Crashes, header
<1>4. i \in Nat /\ j \in Nat
  BY DEF LayoutInv, TypeOK, UInt
<1>5. /\ BlockBytes # 0
      /\ \A k \in i + 1 .. NumberBlocks : Len(blocks[k]) = Listed(k - 1)
  BY <1>1 DEF LayoutInv, WriteInv
<1>6. ~ Fits
  <2> SUFFICES ASSUME Fits PROVE FALSE
    OBVIOUS
  <2>1. Listed(i) = SizeOf(i) + redundance_size
    BY <1>1, <1>2, <1>4, ListFits
  <2>2. NumberBlocks \in Nat /\ SizeOf(i) \in Nat
    BY <1>2, <1>5, BlockTypes
  <2>3. redundance_size \in Nat
    BY <1>2, HeaderTypes
  <2>4. i + 1 \in i + 1 .. NumberBlocks /\ (i + 1) - 1 = i
    BY <1>1, <1>4, <2>2
  <2>5. Len(blocks[i + 1]) = Listed(i)
    BY <2>4, <1>5
  <2> QED
    BY <2>1, <2>2, <2>3, <2>5, <1>1, <1>4
<1>7. CutInv' /\ WriteInv' /\ EndInv'
  BY <1>1, <1>2, <1>6 DEF CutInv, WriteInv, EndInv
<1> QED
  BY <1>2, <1>3, <1>7 DEF LayoutInv

LEMMA WriteFailsStep ==
  ASSUME LayoutInv, WriteFails
  PROVE  LayoutInv'
<1>1. /\ phase' = "failed"
      /\ UNCHANGED <<header, blocks, offset, i, j, written>>
  BY DEF WriteFails
<1>2. CopyInv' /\ WrittenInv'
  BY <1>1, KeptParts
<1>3. TypeOK'
  BY <1>1 DEF LayoutInv, TypeOK, Crashes, header
<1>4. CutInv' /\ WriteInv' /\ EndInv'
  BY <1>1 DEF CutInv, WriteInv, EndInv
<1> QED
  BY <1>2, <1>3, <1>4 DEF LayoutInv

LEMMA RecoverStep ==
  ASSUME LayoutInv, Recover
  PROVE  LayoutInv'
<1>1. /\ phase = "cut" /\ i >= NumberBlocks
      /\ phase' = "write" \/ (NumberBlocks = 0 /\ phase' = "noBlock")
      /\ i' = 0 /\ j' = 0
      /\ UNCHANGED <<header, blocks, offset, written>>
  BY DEF Recover
<1>2. /\ UNCHANGED <<BlockBytes, NumberBlocks>> /\ \A k : SizeOf(k)' = SizeOf(k) /\ Listed(k)' = Listed(k)
      /\ CopyInv' /\ WrittenInv' /\ HeaderOK
  BY <1>1, KeptParts
<1>3. /\ BlockBytes # 0 /\ i <= NumberBlocks /\ written = <<>>
      /\ Len(blocks) = i \/ (Len(blocks) = i + 1 /\ i < NumberBlocks)
      /\ \A k \in 1 .. i : Len(blocks[k]) = Listed(k - 1)
  BY <1>1 DEF LayoutInv, CutInv
<1>4. NumberBlocks \in Nat /\ i \in Nat /\ Modulus \in Nat \ {0} /\ \A k : SizeOf(k) \in Nat
  BY <1>2, <1>3, BlockTypes, HeaderTypes DEF LayoutInv, TypeOK, UInt
<1>5. i = NumberBlocks /\ Len(blocks) = NumberBlocks
  BY <1>1, <1>3, <1>4
<1>6. TypeOK'
  BY <1>1, <1>4 DEF LayoutInv, TypeOK, Crashes, header, UInt
<1>7. WriteInv'
  <2>1. LengthAt(0, 0)' = 0
    BY <1>1, <1>2, <1>3, LengthStart, PlacesSame
  <2>2. LengthAt(i, j)' = 0
    BY <1>1, <2>1 DEF LengthAt, Ended, SymbolAt
  <2>3. redundance_size' = redundance_size
    BY <1>1 DEF header
  <2> QED
    BY <1>1, <1>2, <1>3, <1>4, <1>5, <2>2, <2>3 DEF WriteInv
<1>8. CutInv' /\ EndInv'
  BY <1>1, <1>2, <1>3, <1>5 DEF CutInv, EndInv
<1> QED
  BY <1>2, <1>6, <1>7, <1>8 DEF LayoutInv

LEMMA StartBlockStep ==
  ASSUME LayoutInv, StartBlock
  PROVE  LayoutInv'
<1>1. /\ phase = "cut" /\ i < NumberBlocks /\ Len(blocks) = i
      /\ blocks' = Append(blocks, <<>>) /\ j' = 0
      /\ UNCHANGED <<phase, header, offset, i, written>>
  BY DEF StartBlock
<1>2. /\ UNCHANGED <<BlockBytes, NumberBlocks>> /\ \A k : SizeOf(k)' = SizeOf(k) /\ Listed(k)' = Listed(k)
      /\ WrittenInv' /\ HeaderOK
  BY <1>1, KeptParts
<1>3. /\ BlockBytes # 0 /\ written = <<>> /\ offset = Copied(i, 0)
      /\ \A k \in 1 .. i : Len(blocks[k]) = Listed(k - 1)
      /\ i \in Nat /\ blocks \in Seq(Seq(UInt))
  BY <1>1 DEF LayoutInv, CutInv, TypeOK, UInt
<1>4. NumberBlocks \in Nat /\ Modulus \in Nat \ {0} /\ redundance_size \in Nat
      /\ \A k : Listed(k) \in Nat
  <2>1. NumberBlocks \in Nat
    BY <1>2, <1>3, BlockTypes
  <2>2. \A k : Listed(k) \in Nat
    BY <1>2, <1>3, ListedTypes
  <2> QED
    BY <2>1, <2>2, <1>2, HeaderTypes
<1>5. /\ blocks' \in Seq(Seq(UInt)) /\ Len(blocks') = i + 1
      /\ \A k \in 1 .. i : blocks'[k] = blocks[k]
      /\ blocks'[i + 1] = <<>>
      /\ DOMAIN blocks = 1 .. i /\ DOMAIN blocks' = 1 .. i + 1
  <2>1. <<>> \in Seq(UInt)
    BY EmptySeq
  <2>2. /\ blocks' \in Seq(Seq(UInt)) /\ Len(blocks') = i + 1
        /\ \A k \in 1 .. i : blocks'[k] = blocks[k]
        /\ blocks'[i + 1] = <<>>
    BY <1>1, <1>3, <2>1, AppendProperties
  <2> QED
    BY <1>1, <1>3, <2>2, LenProperties
<1>6. TypeOK'
  BY <1>1, <1>4, <1>5 DEF LayoutInv, TypeOK, Crashes, header, UInt
<1>7. \A k, s : Copied(k, s)' = Copied(k, s)
  BY <1>1, PlacesSame
<1>8. CutInv'
  <2>1. Copied(i, j)' = Copied(i, 0)
    BY <1>1, <1>7 DEF Copied
  <2>2. redundance_size' = redundance_size
    BY <1>1 DEF header
  <2>3. Len(blocks'[i + 1]) = 0
    BY <1>5
  <2>4. 0 <= Listed(i)
    BY <1>4
  <2> QED
    BY <1>1, <1>2, <1>3, <1>4, <1>5, <2>1, <2>2, <2>3, <2>4 DEF CutInv
<1>9. CopyInv'
  <2> SUFFICES ASSUME NEW k \in DOMAIN blocks', NEW s \in DOMAIN (blocks'[k])
               PROVE  (/\ BlockBytes # 0
                       /\ k <= NumberBlocks /\ s <= Listed(k - 1)
                       /\ blocks[k][s] = Copied(k - 1, s - 1))'
    BY DEF CopyInv
  <2>1. k \in 1 .. i
    BY <1>3, <1>5
  <2>2. k \in DOMAIN blocks /\ s \in DOMAIN (blocks[k])
    BY <1>5, <2>1
  <2>3. /\ k <= NumberBlocks /\ s <= Listed(k - 1)
        /\ blocks[k][s] = Copied(k - 1, s - 1)
    BY <2>2 DEF LayoutInv, CopyInv
  <2>4. redundance_size' = redundance_size /\ blocks'[k] = blocks[k]
    BY <1>1, <1>5, <2>1 DEF header
  <2>5. Copied(k - 1, s - 1)' = Copied(k - 1, s - 1) /\ Listed(k - 1)' = Listed(k - 1)
    BY <1>2, <1>7
  <2> QED
    BY <1>2, <1>3, <2>3, <2>4, <2>5
<1>10. WriteInv' /\ EndInv'
  BY <1>1 DEF WriteInv, EndInv
<1> QED
  BY <1>2, <1>6, <1>8, <1>9, <1>10 DEF LayoutInv

LEMMA CopySymbolStep ==
  ASSUME LayoutInv, CopySymbol
  PROVE  LayoutInv'
<1>1. /\ phase = "cut" /\ Len(blocks) = i + 1 /\ j < Listed(i)
      /\ blocks' = [blocks EXCEPT ![i + 1] = Append(@, offset)]
      /\ offset' = Step /\ j' = j + 1
      /\ UNCHANGED <<phase, header, i, written>>
  BY DEF CopySymbol
<1>2. /\ UNCHANGED <<BlockBytes, NumberBlocks>> /\ \A k : SizeOf(k)' = SizeOf(k) /\ Listed(k)' = Listed(k)
      /\ WrittenInv' /\ HeaderOK
  BY <1>1, KeptParts
<1>3. i \in Nat /\ j \in Nat
  BY DEF LayoutInv, TypeOK, UInt
<1>3a. offset \in UInt /\ blocks \in Seq(Seq(UInt))
  BY DEF LayoutInv, TypeOK
<1>4. /\ BlockBytes # 0 /\ written = <<>>
      /\ i < NumberBlocks /\ offset = Copied(i, j) /\ Len(blocks[i + 1]) = j
      /\ \A k \in 1 .. i : Len(blocks[k]) = Listed(k - 1)
  BY <1>1, <1>3 DEF LayoutInv, CutInv
<1>5. NumberBlocks \in Nat /\ Modulus \in Nat \ {0} /\ redundance_size \in Nat
      /\ \A k : Listed(k) \in Nat /\ Listed(k) < Modulus
  <2>1. NumberBlocks \in Nat
    BY <1>2, <1>4, BlockTypes
  <2>2. \A k : Listed(k) \in Nat /\ Listed(k) < Modulus
    BY <1>2, <1>4, ListedTypes
  <2> QED
    BY <2>1, <2>2, <1>2, HeaderTypes
<1>6. offset' = Copied(i, j + 1) /\ offset' \in UInt
  <2>1. Step = Copied(i, j + 1)
    BY <1>2, <1>3, <1>4, CopiedNext DEF Step, StepWide
  <2>2. Copied(i, j + 1) \in UInt
    BY <1>2, <1>3, CopiedType
  <2> QED
    BY <1>1, <2>1, <2>2
<1>7. DOMAIN blocks = 1 .. i + 1 /\ blocks[i + 1] \in Seq(UInt) /\ i + 1 \in 1 .. Len(blocks)
  BY <1>1, <1>3, <1>3a, LenProperties
<1> DEFINE block == Append(blocks[i + 1], offset)
<1>8. /\ block \in Seq(UInt) /\ Len(block) = j + 1
      /\ \A s \in 1 .. j : block[s] = blocks[i + 1][s]
      /\ block[j + 1] = offset
  BY <1>3, <1>3a, <1>4, <1>7, AppendProperties
<1>9. DOMAIN block = 1 .. j + 1 /\ DOMAIN (blocks[i + 1]) = 1 .. j
  BY <1>4, <1>7, <1>8, LenProperties
<1>10. blocks' = [blocks EXCEPT ![i + 1] = block]
  BY <1>1
<1> HIDE DEF block
<1>11. /\ blocks' \in Seq(Seq(UInt)) /\ Len(blocks') = i + 1
       /\ DOMAIN blocks' = 1 .. i + 1
       /\ \A k \in 1 .. i : blocks'[k] = blocks[k]
       /\ blocks'[i + 1] = block
  <2> DEFINE list == [blocks EXCEPT ![i + 1] = block]
  <2>1. /\ list \in Seq(Seq(UInt)) /\ Len(list) = Len(blocks)
        /\ \A k \in 1 .. Len(blocks) : list[k] = IF k = i + 1 THEN block ELSE blocks[k]
    BY <1>3a, <1>7, <1>8, ExceptSeq
  <2> HIDE DEF list
  <2>2. DOMAIN list = 1 .. i + 1
    BY <1>1, <2>1, LenProperties
  <2>3. /\ \A k \in 1 .. i : list[k] = blocks[k]
        /\ list[i + 1] = block
    BY <1>1, <1>3, <2>1
  <2> QED
    BY <1>1, <1>10, <2>1, <2>2, <2>3 DEF list
<1>12. TypeOK'
  BY <1>1, <1>3, <1>3a, <1>5, <1>6, <1>11 DEF LayoutInv, TypeOK, Crashes, header, UInt
<1>13. \A k, s : Copied(k, s)' = Copied(k, s)
  BY <1>1, PlacesSame
<1>14. redundance_size' = redundance_size
  BY <1>1 DEF header
<1>15. CutInv'
  <2>1. Copied(i, j)' = Copied(i, j + 1)
    BY <1>1, <1>13 DEF Copied
  <2>2. j' <= Listed(i)
    BY <1>1, <1>3, <1>5
  <2>3. offset' = Copied(i, j)' /\ Len(blocks'[i + 1]) = j'
    BY <1>1, <1>6, <1>8, <1>11, <2>1
  <2>4. \A k \in 1 .. i : Len(blocks'[k]) = Listed(k - 1)
    BY <1>4, <1>11
  <2>5. Listed(i)' = Listed(i)
    BY <1>1 DEF Listed, SizeOf, NumberBlocks, LastBytes, LastBlockSize, LastBytesSeen,
                CeilDiv, BlockBytes, header
  <2>6. (/\ Len(blocks) = i + 1 /\ i < NumberBlocks
         /\ j <= Listed(i)
         /\ offset = Copied(i, j)
         /\ Len(blocks[i + 1]) = j)'
    BY <1>1, <1>2, <1>4, <1>11, <1>14, <2>2, <2>3, <2>5
  <2>7. (\A k \in 1 .. i : Len(blocks[k]) = Listed(k - 1))'
    BY <1>1, <1>2, <1>14, <2>4
  <2>8. (BlockBytes # 0 /\ written = <<>> /\ i <= NumberBlocks)'
    BY <1>1, <1>2, <1>3, <1>4, <1>5
  <2> QED
    BY <2>6, <2>7, <2>8 DEF CutInv
<1>16. CopyInv'
  <2> SUFFICES ASSUME NEW k \in DOMAIN blocks', NEW s \in DOMAIN (blocks'[k])
               PROVE  (/\ BlockBytes # 0
                       /\ k <= NumberBlocks /\ s <= Listed(k - 1)
                       /\ blocks[k][s] = Copied(k - 1, s - 1))'
    BY DEF CopyInv
  <2>1. Copied(k - 1, s - 1)' = Copied(k - 1, s - 1) /\ Listed(k - 1)' = Listed(k - 1)
    BY <1>2, <1>13
  <2>2. CASE k \in 1 .. i \/ (k = i + 1 /\ s \in 1 .. j)
    <3>1. k \in DOMAIN blocks /\ s \in DOMAIN (blocks[k]) /\ blocks'[k][s] = blocks[k][s]
      BY <2>2, <1>3, <1>7, <1>8, <1>9, <1>11
    <3>2. /\ k <= NumberBlocks /\ s <= Listed(k - 1)
          /\ blocks[k][s] = Copied(k - 1, s - 1)
      BY <3>1 DEF LayoutInv, CopyInv
    <3> QED
      BY <1>2, <1>4, <1>14, <2>1, <3>1, <3>2
  <2>3. CASE k = i + 1 /\ s = j + 1
    <3>1. k - 1 = i /\ s - 1 = j
      BY <2>3, <1>3
    <3>2. blocks'[k][s] = Copied(k - 1, s - 1)
      BY <2>3, <3>1, <1>4, <1>8, <1>11
    <3>3. k <= NumberBlocks /\ s <= Listed(k - 1)
      BY <2>3, <3>1, <1>1, <1>3, <1>4, <1>5
    <3> QED
      BY <1>2, <1>4, <1>14, <2>1, <3>2, <3>3
  <2>4. k \in 1 .. i \/ k = i + 1
    BY <1>3, <1>11
  <2>5. k = i + 1 => s \in 1 .. j \/ s = j + 1
    <3>1. k = i + 1 => s \in 1 .. j + 1
      BY <1>9, <1>11
    <3> QED
      BY <3>1, <1>3
  <2> QED
    BY <2>2, <2>3, <2>4, <2>5
<1>17. WriteInv' /\ EndInv'
  BY <1>1 DEF WriteInv, EndInv
<1> QED
  BY <1>2, <1>12, <1>15, <1>16, <1>17 DEF LayoutInv

LEMMA EndBlockStep ==
  ASSUME LayoutInv, EndBlock
  PROVE  LayoutInv'
<1>1. /\ phase = "cut" /\ Len(blocks) = i + 1 /\ j >= Listed(i)
      /\ i' = i + 1
      /\ UNCHANGED <<phase, header, blocks, offset, j, written>>
  BY DEF EndBlock
<1>2. /\ UNCHANGED <<BlockBytes, NumberBlocks>> /\ \A k : SizeOf(k)' = SizeOf(k) /\ Listed(k)' = Listed(k)
      /\ CopyInv' /\ WrittenInv' /\ HeaderOK
  BY <1>1, KeptParts
<1>3. i \in Nat /\ j \in Nat
  BY DEF LayoutInv, TypeOK, UInt
<1>4. /\ BlockBytes # 0 /\ written = <<>> /\ i < NumberBlocks
      /\ j <= Listed(i)
      /\ offset = Copied(i, j) /\ Len(blocks[i + 1]) = j
      /\ \A k \in 1 .. i : Len(blocks[k]) = Listed(k - 1)
  BY <1>1, <1>3 DEF LayoutInv, CutInv
<1>5. /\ NumberBlocks \in Nat /\ NumberBlocks < Modulus /\ Modulus \in Nat \ {0}
      /\ \A k : Listed(k) \in Nat
      /\ \A k : k # NumberBlocks - 1 => SizeOf(k) = block_size
  <2>1. /\ NumberBlocks \in Nat /\ NumberBlocks < Modulus
        /\ \A k : k # NumberBlocks - 1 => SizeOf(k) = block_size
    BY <1>2, <1>4, BlockTypes
  <2>2. Modulus \in Nat \ {0} /\ \A k : Listed(k) \in Nat
    BY <1>2, <1>4, HeaderTypes, ListedTypes
  <2> QED
    BY <2>1, <2>2
<1>6. j = Listed(i)
  <2> DEFINE whole == Listed(i)
  <2>1. whole \in Nat
    BY <1>5
  <2>2. j \in Nat /\ j >= whole /\ j <= whole
    BY <1>1, <1>3, <1>4
  <2> HIDE DEF whole
  <2>3. j = whole
    BY <2>1, <2>2
  <2> QED
    BY <2>3 DEF whole
<1>7. TypeOK'
  BY <1>1, <1>3, <1>4, <1>5 DEF LayoutInv, TypeOK, Crashes, header, UInt
<1>8. CutInv'
  <2>1. i' < NumberBlocks' => offset' = Copied(i, 0)'
    <3> SUFFICES ASSUME i + 1 < NumberBlocks PROVE offset = Copied(i, 0)'
      BY <1>1, <1>2
    <3>1. SizeOf(i) = block_size
      BY <1>3, <1>5
    <3>2. offset = Copied(i, (block_size + redundance_size) % Modulus)
      BY <3>1, <1>4, <1>6 DEF Listed
    <3>3. Copied(i, (block_size + redundance_size) % Modulus) = Copied(i + 1, 0)
      BY <1>2, <1>3, CopiedBlock
    <3>4. Copied(i, 0)' = Copied(i + 1, 0)
      BY <1>1 DEF Copied, header
    <3> QED
      BY <3>2, <3>3, <3>4
  <2>2. \A k \in 1 .. i + 1 : Len(blocks[k]) = Listed(k - 1)
    <3> TAKE k \in 1 .. i + 1
    <3>1. CASE k \in 1 .. i
      BY <3>1, <1>4
    <3>2. CASE k = i + 1
      <4>1. k - 1 = i
        BY <3>2, <1>3
      <4> QED
        BY <3>2, <4>1, <1>4, <1>6
    <3> QED
      BY <3>1, <3>2, <1>3
  <2>3. redundance_size' = redundance_size
    BY <1>1 DEF header
  <2> QED
    BY <1>1, <1>2, <1>3, <1>4, <1>5, <2>1, <2>2, <2>3 DEF CutInv
<1>9. WriteInv' /\ EndInv'
  BY <1>1 DEF WriteInv, EndInv
<1> QED
  BY <1>2, <1>7, <1>8, <1>9 DEF LayoutInv

\* Bytes that follow each other in the file, as a sequence.
LEMMA ByteRun ==
  ASSUME NEW length \in Nat, NEW first \in Nat
  PROVE  LET run == [n \in 1 .. length |-> first + n - 1]
         IN  run \in Seq(Nat) /\ Len(run) = length /\ \A n \in 1 .. length : run[n] = first + n - 1
<1> DEFINE run == [n \in 1 .. length |-> first + n - 1]
<1>1. run \in [1 .. length -> Nat]
  OBVIOUS
<1>2. run \in Seq(Nat)
  BY <1>1, SeqDef
<1>3. DOMAIN run = 1 .. length /\ DOMAIN run = 1 .. Len(run) /\ Len(run) \in Nat
  BY <1>2, LenProperties
<1>4. Len(run) = length
  <2> HIDE DEF run
  <2> QED
    BY <1>3
<1> QED
  BY <1>2, <1>4

LEMMA WriteSymbolStep ==
  ASSUME LayoutInv, WriteSymbol
  PROVE  LayoutInv'
<1> DEFINE length == BytesOf(i, j)
           first == blocks[i + 1][j + 1]
           bytes == [n \in 1 .. length |-> first + n - 1]
<1>1. /\ phase = "write" /\ i < NumberBlocks /\ j < SizeOf(i) /\ j < Len(blocks[i + 1])
      /\ written' = written \o bytes /\ j' = j + 1
      /\ UNCHANGED <<phase, header, blocks, offset, i>>
  BY DEF WriteSymbol
<1>2. /\ UNCHANGED <<BlockBytes, NumberBlocks, RecordBytes>>
      /\ \A k : SizeOf(k)' = SizeOf(k) /\ Listed(k)' = Listed(k)
      /\ CopyInv' /\ HeaderOK
  BY <1>1, KeptParts
<1>3. i \in Nat /\ j \in Nat
  BY DEF LayoutInv, TypeOK, UInt
<1>4. blocks \in Seq(Seq(UInt)) /\ written \in Seq(Nat)
  BY DEF LayoutInv, TypeOK
<1>5. /\ BlockBytes # 0 /\ Len(blocks) = NumberBlocks
      /\ \A k \in i + 1 .. NumberBlocks : Len(blocks[k]) = Listed(k - 1)
      /\ Len(written) = LengthAt(i, j)
  BY <1>1 DEF LayoutInv, WriteInv
<1>6. /\ NumberBlocks \in Nat /\ Modulus \in Nat \ {0}
      /\ SizeOf(i) \in Nat /\ SizeOf(i) <= block_size /\ block_size < Modulus
  BY <1>2, <1>5, BlockTypes, HeaderTypes
<1>7. block_size \in Nat /\ symbol_size \in Nat /\ redundance_size \in Nat
  BY <1>2, HeaderTypes
<1>8. first = Copied(i, j) /\ first \in Nat
  <2>1. i + 1 \in 1 .. Len(blocks) /\ i + 1 \in i + 1 .. NumberBlocks /\ (i + 1) - 1 = i
    BY <1>1, <1>3, <1>5, <1>6
  <2>2. blocks[i + 1] \in Seq(UInt) /\ i + 1 \in DOMAIN blocks
    BY <1>4, <2>1, LenProperties
  <2>3. Len(blocks[i + 1]) = Listed(i)
    BY <1>5, <2>1
  <2>4. j + 1 \in 1 .. Len(blocks[i + 1]) /\ (j + 1) - 1 = j
    BY <1>1, <1>3, <1>6, <1>7, <2>3
  <2>5. j + 1 \in DOMAIN (blocks[i + 1]) /\ first \in UInt
    BY <2>2, <2>4, LenProperties
  <2>6. first = Copied((i + 1) - 1, (j + 1) - 1)
    BY <2>2, <2>5 DEF LayoutInv, CopyInv
  <2>7. first = Copied(i, j)
    BY <2>1, <2>4, <2>6
  <2> HIDE DEF first
  <2>8. first \in Nat
    BY <2>5, <1>6 DEF UInt
  <2> QED
    BY <2>7, <2>8
<1>9. /\ length \in Nat /\ length <= symbol_size
  BY <1>2, <1>5, BytesTypes
<1>10. bytes \in Seq(Nat) /\ Len(bytes) = length /\ \A n \in 1 .. length : bytes[n] = first + n - 1
  <2> HIDE DEF length, first
  <2> QED
    BY <1>8, <1>9, ByteRun
<1>11. /\ LengthAt(i, j) = SymbolAt(i, j) * symbol_size
       /\ LengthAt(i, j + 1) = LengthAt(i, j) + length
  BY <1>1, <1>2, <1>3, <1>5, LengthStep
<1> HIDE DEF bytes
<1>12. /\ written' \in Seq(Nat)
       /\ Len(written') = Len(written) + length
       /\ \A n \in 1 .. Len(written) + length :
            written'[n] = IF n <= Len(written) THEN written[n] ELSE bytes[n - Len(written)]
  BY <1>1, <1>4, <1>10, ConcatProperties
<1>13. /\ DOMAIN written = 1 .. Len(written) /\ Len(written) \in Nat
       /\ DOMAIN written' = 1 .. Len(written')
  BY <1>4, <1>12, LenProperties
<1> HIDE DEF length, first
<1>14. TypeOK'
  <2>1. j' \in UInt
    BY <1>1, <1>3, <1>6, <1>7 DEF UInt
  <2> QED
    BY <2>1, <1>1, <1>12 DEF LayoutInv, TypeOK, Crashes, header
<1>15. j' <= SizeOf(i) /\ Len(written') = LengthAt(i, j + 1)
  BY <1>1, <1>3, <1>5, <1>6, <1>11, <1>12
<1>16. WriteInv'
  <2>1. LengthAt(i, j)' = LengthAt(i, j + 1) /\ SizeOf(i)' = SizeOf(i)
    <3>1. /\ UNCHANGED <<i, block_size, symbol_size, NumberBlocks, RecordBytes>> /\ j' = j + 1
      BY <1>1, <1>2 DEF header
    <3>2. SizeOf(i)' = SizeOf(i)
      BY <1>1, <3>1 DEF SizeOf, LastBlockSize, LastBytesSeen, CeilDiv, BlockBytes, header
    <3>3. SymbolAt(i, j)' = SymbolAt(i, j + 1) /\ (Ended(i, j)' <=> Ended(i, j + 1))
      BY <3>1, <3>2 DEF SymbolAt, Ended
    <3> QED
      BY <3>1, <3>2, <3>3 DEF LengthAt
  <2>2. redundance_size' = redundance_size
    BY <1>1 DEF header
  <2>3. (\A k \in i + 1 .. NumberBlocks : Len(blocks[k]) = Listed(k - 1))'
    BY <1>1, <1>2, <1>5, <2>2
  <2>4. (/\ BlockBytes # 0 /\ i <= NumberBlocks /\ (i < NumberBlocks => j <= SizeOf(i))
         /\ Len(blocks) = NumberBlocks /\ Len(written) = LengthAt(i, j))'
    BY <1>1, <1>2, <1>3, <1>5, <1>6, <1>15, <2>1
  <2> QED
    BY <2>3, <2>4 DEF WriteInv
<1>17. ASSUME NEW n \in 1 .. Len(written') PROVE written'[n] = WrappedPlace(n - 1)
  <2>1. CASE n <= Len(written)
    BY <2>1, <1>12, <1>13 DEF LayoutInv, WrittenInv
  <2>2. CASE n > Len(written)
    <3> DEFINE t == n - Len(written) - 1
    <3>1. /\ t \in Nat /\ t < length
          /\ n - 1 = Len(written) + t /\ n - Len(written) = t + 1
      BY <2>2, <1>9, <1>12, <1>13
    <3>2. written'[n] = first + t
      <4>1. written'[n] = bytes[t + 1]
        BY <2>2, <3>1, <1>12, <1>13
      <4>2. t + 1 \in 1 .. length
        BY <3>1, <1>9
      <4> HIDE DEF t
      <4>3. bytes[t + 1] = first + (t + 1) - 1
        BY <4>2, <1>10
      <4> QED
        BY <4>1, <4>3, <3>1, <1>8
    <3> HIDE DEF t
    <3>3. n - 1 = (((i * block_size) + j) * symbol_size) + t
      BY <3>1, <1>5, <1>11 DEF SymbolAt
    <3>4. j < block_size /\ t < symbol_size
      BY <3>1, <1>1, <1>3, <1>6, <1>7, <1>9
    <3>5. WrappedPlace(((((i * block_size) + j) * symbol_size) + t)) = Copied(i, j) + t
      BY <1>2, <1>3, <3>1, <3>4, PlaceOfSymbol
    <3> QED
      BY <3>2, <3>3, <3>5, <1>8
  <2> QED
    BY <2>1, <2>2, <1>13
<1>18. WrittenInv'
  <2>1. LengthAt(i, j + 1) <= RecordBytes
    <3>1. i <= NumberBlocks /\ j + 1 \in Nat /\ j + 1 <= SizeOf(i)
      BY <1>1, <1>3, <1>6
    <3> QED
      BY <3>1, <1>2, <1>3, <1>5, LengthBound
  <2>2. \A n : WrappedPlace(n)' = WrappedPlace(n)
    BY <1>1, HeaderSame
  <2>3. (\A n \in DOMAIN written : written[n] = WrappedPlace(n - 1))'
    BY <2>2, <1>13, <1>17
  <2> QED
    BY <2>1, <2>3, <1>1, <1>2, <1>5, <1>15 DEF WrittenInv
<1>19. CutInv' /\ EndInv'
  BY <1>1 DEF CutInv, EndInv
<1> QED
  BY <1>2, <1>14, <1>16, <1>18, <1>19 DEF LayoutInv

LEMMA NextBlockStep ==
  ASSUME LayoutInv, NextBlock
  PROVE  LayoutInv'
<1>1. /\ phase = "write" /\ i < NumberBlocks /\ j >= SizeOf(i)
      /\ blocks' = [blocks EXCEPT ![i + 1] = <<>>]
      /\ i' = i + 1 /\ j' = 0
      /\ UNCHANGED <<phase, header, offset, written>>
  BY DEF NextBlock
<1>2. /\ UNCHANGED <<BlockBytes, NumberBlocks>> /\ \A k : SizeOf(k)' = SizeOf(k) /\ Listed(k)' = Listed(k)
      /\ WrittenInv' /\ HeaderOK
  BY <1>1, KeptParts
<1>3. i \in Nat /\ j \in Nat
  BY DEF LayoutInv, TypeOK, UInt
<1>4. blocks \in Seq(Seq(UInt))
  BY DEF LayoutInv, TypeOK
<1>5. /\ BlockBytes # 0 /\ Len(blocks) = NumberBlocks /\ j <= SizeOf(i)
      /\ \A k \in i + 1 .. NumberBlocks : Len(blocks[k]) = Listed(k - 1)
      /\ Len(written) = LengthAt(i, j)
  BY <1>1 DEF LayoutInv, WriteInv
<1>6. /\ NumberBlocks \in Nat /\ NumberBlocks < Modulus /\ Modulus \in Nat \ {0}
      /\ SizeOf(i) \in Nat /\ SizeOf(i + 1) \in Nat
  BY <1>2, <1>5, BlockTypes, HeaderTypes
<1>7. j = SizeOf(i)
  BY <1>1, <1>3, <1>5, <1>6
<1>8. /\ blocks' \in Seq(Seq(UInt)) /\ Len(blocks') = Len(blocks)
      /\ DOMAIN blocks' = 1 .. NumberBlocks /\ DOMAIN blocks = 1 .. NumberBlocks
      /\ \A k \in 1 .. NumberBlocks : blocks'[k] = IF k = i + 1 THEN <<>> ELSE blocks[k]
  <2> DEFINE list == [blocks EXCEPT ![i + 1] = <<>>]
  <2>1. i + 1 \in 1 .. Len(blocks) /\ <<>> \in Seq(UInt)
    BY <1>1, <1>3, <1>5, <1>6, EmptySeq
  <2>2. /\ list \in Seq(Seq(UInt)) /\ Len(list) = Len(blocks)
        /\ \A k \in 1 .. Len(blocks) : list[k] = IF k = i + 1 THEN <<>> ELSE blocks[k]
    BY <1>4, <2>1, ExceptSeq
  <2> HIDE DEF list
  <2>3. DOMAIN list = 1 .. NumberBlocks /\ DOMAIN blocks = 1 .. NumberBlocks
    BY <1>4, <1>5, <2>2, LenProperties
  <2> QED
    BY <1>1, <1>5, <2>2, <2>3 DEF list
<1>9. TypeOK'
  BY <1>1, <1>3, <1>6, <1>8 DEF LayoutInv, TypeOK, Crashes, header, UInt
<1>10. redundance_size' = redundance_size
  BY <1>1 DEF header
<1>11. CopyInv'
  <2> SUFFICES ASSUME NEW k \in DOMAIN blocks', NEW s \in DOMAIN (blocks'[k])
               PROVE  (/\ BlockBytes # 0
                       /\ k <= NumberBlocks /\ s <= Listed(k - 1)
                       /\ blocks[k][s] = Copied(k - 1, s - 1))'
    BY DEF CopyInv
  <2>1. k # i + 1 /\ blocks'[k] = blocks[k] /\ k \in DOMAIN blocks
    BY <1>8
  <2>2. /\ k <= NumberBlocks /\ s <= Listed(k - 1)
        /\ blocks[k][s] = Copied(k - 1, s - 1)
    BY <2>1 DEF LayoutInv, CopyInv
  <2>3. Copied(k - 1, s - 1)' = Copied(k - 1, s - 1) /\ Listed(k - 1)' = Listed(k - 1)
    BY <1>1, <1>2, PlacesSame
  <2> QED
    BY <1>2, <1>5, <1>10, <2>1, <2>2, <2>3
<1>12. WriteInv'
  <2>1. LengthAt(i + 1, 0) = LengthAt(i, SizeOf(i))
    BY <1>1, <1>2, <1>3, <1>5, LengthBlock
  <2>2. LengthAt(i, j)' = LengthAt(i + 1, 0)
    <3>1. /\ UNCHANGED <<block_size, symbol_size, NumberBlocks, RecordBytes>>
          /\ i' = i + 1 /\ j' = 0
      BY <1>1, <1>2, PlacesSame DEF header
    <3>2. SymbolAt(i, j)' = SymbolAt(i + 1, 0)
      BY <3>1 DEF SymbolAt
    <3>3. Ended(i, j)' <=> Ended(i + 1, 0)
      BY <3>1 DEF Ended
    <3> QED
      BY <3>1, <3>2, <3>3 DEF LengthAt
  <2>3. Len(written') = LengthAt(i, j)'
    BY <1>1, <1>5, <1>7, <2>1, <2>2
  <2>4. 0 <= SizeOf(i)'
    <3>1. SizeOf(i)' = SizeOf(i + 1)
      BY <1>1, <1>2 DEF SizeOf, LastBlockSize, LastBytesSeen, CeilDiv, header
    <3> QED
      BY <3>1, <1>6
  <2>5. (\A k \in i + 1 .. NumberBlocks : Len(blocks[k]) = Listed(k - 1))'
    <3> SUFFICES ASSUME NEW k \in i + 2 .. NumberBlocks
                 PROVE  Len(blocks'[k]) = Listed(k - 1)
      BY <1>1, <1>2, <1>3, <1>10
    <3>1. k \in i + 1 .. NumberBlocks /\ k \in 1 .. NumberBlocks /\ k # i + 1
      BY <1>3, <1>6
    <3> QED
      BY <3>1, <1>5, <1>8
  <2>6. (/\ BlockBytes # 0 /\ i <= NumberBlocks /\ (i < NumberBlocks => j <= SizeOf(i))
         /\ Len(blocks) = NumberBlocks)'
    BY <1>1, <1>2, <1>3, <1>5, <1>6, <1>8, <2>4
  <2> QED
    BY <2>3, <2>5, <2>6 DEF WriteInv
<1>13. CutInv' /\ EndInv'
  BY <1>1 DEF CutInv, EndInv
<1> QED
  BY <1>2, <1>9, <1>11, <1>12, <1>13 DEF LayoutInv

LEMMA WriteEndsStep ==
  ASSUME LayoutInv, WriteEnds
  PROVE  LayoutInv'
<1>1. /\ phase = "write" /\ i >= NumberBlocks /\ blocks' = <<>> /\ phase' = "done"
      /\ UNCHANGED <<header, offset, i, j, written>>
  BY DEF WriteEnds
<1>2. /\ UNCHANGED <<BlockBytes, NumberBlocks, RecordBytes>> /\ WrittenInv' /\ HeaderOK
  BY <1>1, KeptParts
<1>3. /\ BlockBytes # 0 /\ i <= NumberBlocks /\ Len(written) = LengthAt(i, j)
  BY <1>1 DEF LayoutInv, WriteInv
<1>4. i \in Nat /\ NumberBlocks \in Nat
  BY <1>2, <1>3, BlockTypes DEF LayoutInv, TypeOK, UInt
<1>5. Len(written) = RecordBytes
  <2>1. i = NumberBlocks
    BY <1>1, <1>3, <1>4
  <2> QED
    BY <2>1, <1>3 DEF LengthAt, Ended
<1>6. TypeOK'
  <2>1. blocks' \in Seq(Seq(UInt))
    BY <1>1, EmptySeq
  <2> QED
    BY <2>1, <1>1 DEF LayoutInv, TypeOK, Crashes, header
<1>7. CutInv' /\ CopyInv' /\ WriteInv' /\ EndInv'
  BY <1>1, <1>2, <1>3, <1>5 DEF CutInv, CopyInv, WriteInv, EndInv
<1> QED
  BY <1>2, <1>6, <1>7 DEF LayoutInv

LEMMA LayoutStutter ==
  ASSUME LayoutInv, UNCHANGED vars
  PROVE  LayoutInv'
<1>1. /\ UNCHANGED <<phase, header, blocks, offset, i, j, written>>
  BY DEF vars
<1>2. /\ UNCHANGED <<BlockBytes, NumberBlocks, RecordBytes, Fits>>
      /\ \A k : SizeOf(k)' = SizeOf(k) /\ Listed(k)' = Listed(k)
      /\ CopyInv'
  BY <1>1, KeptParts
<1>3. WrittenInv'
  <2>1. \A n : WrappedPlace(n)' = WrappedPlace(n)
    BY <1>1, HeaderSame
  <2> QED
    BY <1>1, <1>2, <2>1 DEF LayoutInv, WrittenInv
<1>4. TypeOK'
  BY <1>1 DEF LayoutInv, TypeOK, header
<1>5. /\ \A k, s : Copied(k, s)' = Copied(k, s)
      /\ redundance_size' = redundance_size
  BY <1>1, PlacesSame DEF header
<1>6. SizeOf(i)' = SizeOf(i) /\ Copied(i, j)' = Copied(i, j) /\ Copied(i, 0)' = Copied(i, 0)
      /\ LengthAt(i, j)' = LengthAt(i, j)
  <2>1. SizeOf(i)' = SizeOf(i)
    BY <1>1, <1>2 DEF SizeOf, LastBlockSize, LastBytesSeen, CeilDiv, header
  <2> QED
    BY <1>1, <1>2, <2>1 DEF Copied, LengthAt, Ended, SymbolAt, header
<1>6a. Listed(i)' = Listed(i)
  BY <1>1, <1>6 DEF Listed, header
<1>7. CutInv'
  BY <1>1, <1>2, <1>5, <1>6, <1>6a DEF LayoutInv, CutInv
<1>8. WriteInv'
  BY <1>1, <1>2, <1>5, <1>6 DEF LayoutInv, WriteInv
<1>9. EndInv'
  <2>1. UNCHANGED <<PayloadSize, available>>
    BY <1>1, HeaderSame
  <2> QED
    BY <2>1, <1>1, <1>2 DEF LayoutInv, EndInv
<1> QED
  BY <1>2, <1>3, <1>4, <1>7, <1>8, <1>9 DEF LayoutInv

LEMMA LayoutStep == LayoutInv /\ [Next]_vars => LayoutInv'
<1> SUFFICES ASSUME LayoutInv, [Next]_vars PROVE LayoutInv'
  OBVIOUS
<1>1. CASE OpenFile
  BY <1>1, OpenFileStep
<1>2. CASE OpenFails
  BY <1>2, OpenFailsStep
<1>3. CASE StartBlock
  BY <1>3, StartBlockStep
<1>4. CASE CopySymbol
  BY <1>4, CopySymbolStep
<1>5. CASE CopyCrashes
  BY <1>5, CopyCrashesStep
<1>6. CASE EndBlock
  BY <1>6, EndBlockStep
<1>7. CASE Recover
  BY <1>7, RecoverStep
<1>8. CASE WriteSymbol
  BY <1>8, WriteSymbolStep
<1>9. CASE NextBlock
  BY <1>9, NextBlockStep
<1>10. CASE WriteEnds
  BY <1>10, WriteEndsStep
<1>11. CASE WriteFails
  BY <1>11, WriteFailsStep
<1>12. CASE WriteCrashes
  BY <1>12, WriteCrashesStep
<1>13. CASE Finished \/ UNCHANGED vars
  BY <1>13, LayoutStutter DEF Finished
<1> QED
  BY <1>1, <1>2, <1>3, <1>4, <1>5, <1>6, <1>7, <1>8, <1>9, <1>10, <1>11, <1>12, <1>13 DEF Next

\* The invariant: where the two loops are, where each symbol of the list was
\* copied from and how many bytes the record has so far.
THEOREM LayoutInvariant == Spec => []LayoutInv
BY InitLayout, LayoutStep, PTL DEF Spec

\* TypeOK: block sizes, offset and loop variables stay within a uint32_t.
THEOREM LayoutTypes == Spec => []TypeOK
<1>1. LayoutInv => TypeOK
  BY DEF LayoutInv
<1> QED
  BY <1>1, LayoutInvariant, PTL

\* CopiesInside: makeBlockList copies no symbol from behind the file, as long as
\* no size wraps.
THEOREM CopiesStayInside == Spec => []CopiesInside
<1>1. LayoutInv => CopiesInside
  <2> SUFFICES ASSUME LayoutInv, Fits,
                      NEW k \in DOMAIN blocks, NEW s \in DOMAIN (blocks[k])
               PROVE  blocks[k][s] + symbol_size <= PayloadSize
    BY DEF CopiesInside
  <2>1. /\ HeaderOK /\ BlockBytes # 0
        /\ k <= NumberBlocks /\ s <= Listed(k - 1)
        /\ blocks[k][s] = Copied(k - 1, s - 1)
    <3>1. /\ HeaderRead /\ BlockBytes # 0
          /\ k <= NumberBlocks /\ s <= Listed(k - 1)
          /\ blocks[k][s] = Copied(k - 1, s - 1)
      BY DEF LayoutInv, CopyInv, TypeOK, HeaderRead
    <3> QED
      BY <3>1, HeaderHolds
  <2>2. k \in Nat \ {0} /\ s \in Nat \ {0}
    <3>1. blocks \in Seq(Seq(UInt))
      BY DEF LayoutInv, TypeOK
    <3>2. k \in 1 .. Len(blocks) /\ Len(blocks) \in Nat
      BY <3>1, LenProperties
    <3>3. blocks[k] \in Seq(UInt)
      BY <3>1, <3>2, ElementOfSeq
    <3>4. s \in 1 .. Len(blocks[k]) /\ Len(blocks[k]) \in Nat
      BY <3>3, LenProperties
    <3> QED
      BY <3>2, <3>4
  <2>3. NumberBlocks \in Nat /\ Listed(k - 1) \in Nat
    BY <2>1, BlockTypes, ListedTypes
  <2>4. k - 1 < NumberBlocks /\ s - 1 < Listed(k - 1)
    BY <2>1, <2>2, <2>3
  <2>5. k - 1 \in Nat /\ s - 1 \in Nat
    BY <2>2
  <2> QED
    BY <2>1, <2>4, <2>5, InsideFile
<1> QED
  BY <1>1, LayoutInvariant, PTL

\* WrittenInOrder: the bytes of the record are those of the message, in order and
\* without a redundance symbol in between, up to 32-bit wrapping of the place.
THEOREM BytesInOrder == Spec => []WrittenInOrder
<1>1. LayoutInv => WrittenInOrder
  <2> SUFFICES ASSUME LayoutInv, NEW n \in DOMAIN written
               PROVE  /\ written[n] = WrappedPlace(n - 1)
                      /\ Fits => n <= message_size /\ written[n] = PlaceOf(n - 1)
    BY DEF WrittenInOrder
  <2>1. /\ HeaderRead /\ written \in Seq(Nat)
        /\ written[n] = WrappedPlace(n - 1)
        /\ written # <<>> => BlockBytes # 0 /\ Len(written) <= RecordBytes
    BY DEF LayoutInv, WrittenInv, TypeOK, HeaderRead
  <2>2. n \in 1 .. Len(written) /\ Len(written) \in Nat
    BY <2>1, LenProperties
  <2>3. BlockBytes # 0 /\ Len(written) <= RecordBytes
    <3>1. written # <<>>
      BY <2>2, EmptySeq
    <3> QED
      BY <2>1, <3>1
  <2>3a. HeaderOK
    BY <2>1, <2>3, HeaderHolds
  <2>4. ASSUME Fits PROVE n <= message_size /\ written[n] = PlaceOf(n - 1)
    <3>1. RecordBytes <= message_size /\ RecordBytes \in Nat /\ message_size \in Nat
      BY <2>3a, <2>3, <2>4, RecordFits, RecordBytesType, HeaderTypes
    <3>2. n <= message_size /\ n - 1 \in Nat /\ n - 1 < message_size
      BY <2>2, <2>3, <3>1
    <3>3. WrappedPlace(n - 1) = PlaceOf(n - 1)
      BY <2>3a, <2>4, <3>2, UnwrappedPlace
    <3> QED
      BY <2>1, <3>2, <3>3
  <2> QED
    BY <2>1, <2>4
<1> QED
  BY <1>1, LayoutInvariant, PTL

\* RecordLength: writeToFile leaves out a full last symbol or a full last block
\* and nothing else.
THEOREM RecordLengths == Spec => []RecordLength
<1>1. LayoutInv => RecordLength
  <2> SUFFICES ASSUME LayoutInv, BlocksFit, WholeBlocksOff, phase = "done"
               PROVE  Len(written) + Shortfall = message_size
    BY DEF RecordLength
  <2>1. HeaderRead /\ Len(written) = RecordBytes
    BY DEF LayoutInv, EndInv, TypeOK, HeaderRead
  <2>2. HeaderOK
    BY <2>1, HeaderFits
  <2> QED
    BY <2>1, <2>2, RecordShort
<1> QED
  BY <1>1, LayoutInvariant, PTL

\* CrashCause: sizes of 0 and sizes that wrap apart, only a file that is shorter
\* than its header says, an empty message, or no memory for the structure of the
\* message ends the process.
THEOREM LayoutCrashes == Spec => []CrashCause
<1>1. LayoutInv => CrashCause
  <2> SUFFICES ASSUME LayoutInv, phase \in Crashes, Fits
               PROVE  \/ phase = "pastEnd" /\ available < PayloadSize
                      \/ /\ phase \in {"noBlock", "freedNull"} /\ Len(blocks) = TotalBlocks
                         /\ phase = "noBlock" => message_size = 0
    BY DEF CrashCause
  <2>1. HeaderOK
    <3>1. HeaderRead
      BY DEF LayoutInv, TypeOK, HeaderRead
    <3> QED
      BY <3>1, HeaderFits DEF Fits
  <2>2. /\ BlockBytes # 0 /\ NumberBlocks = TotalBlocks
        /\ NumberBlocks = Quotient + (IF Rest # 0 THEN 1 ELSE 0)
    BY <2>1, BlocksAgree DEF Fits
  <2>3. phase \in {"pastEnd", "noBlock", "freedNull"}
    BY <2>2 DEF Crashes, LayoutInv, EndInv
  <2>4. phase = "pastEnd" => available < PayloadSize
    BY DEF LayoutInv, EndInv
  <2>5. phase # "pastEnd" => Len(blocks) = TotalBlocks
    BY <2>2, <2>3 DEF LayoutInv, EndInv
  <2>6. ASSUME phase = "noBlock" PROVE message_size = 0
    <3>1. NumberBlocks = 0
      BY <2>6 DEF LayoutInv, EndInv
    <3>2. /\ Quotient \in Nat /\ Rest \in Nat /\ WholeBlock \in Nat
          /\ message_size = (Quotient * WholeBlock) + Rest
      BY <2>1, RestTypes
    <3>3. Quotient = 0 /\ Rest = 0
      BY <2>2, <3>1, <3>2
    <3> QED
      BY <3>2, <3>3
  <2> QED
    BY <2>3, <2>4, <2>5, <2>6
<1> QED
  BY <1>1, LayoutInvariant, PTL

=============================================================================
