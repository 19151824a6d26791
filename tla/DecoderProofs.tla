---------------------------- MODULE DecoderProofs ----------------------------
(***************************************************************************)
(* processBlocks for any number of blocks, any sizes and any field: first  *)
(* what it may never do and what it restores if the elimination is as      *)
(* BlockRecovery expects it (Spec), then processBlocks with the code of    *)
(* the elimination (DecoderSpec).  That one does what BlockRecovery        *)
(* expects (KeepsContract), so what was shown of Spec holds of it, it      *)
(* leaves a symbol marked as lost in every block that it could not solve   *)
(* (UnsolvedShows), and it solves every block that lost one source symbol  *)
(* or two if their coefficients allow it (FewLossesRestored).              *)
(***************************************************************************)
EXTENDS Decoder, EliminationProofs

-----------------------------------------------------------------------------
(* What may never happen *)

\* The phases in which block i is being repaired.
Repairing == {"allocate", "build", "solve", "fill"}

SymbolLists ==
  /\ DOMAIN symb = Blocks
  /\ symb = [k \in Blocks |-> [p \in Symbols(k) |-> symb[k][p]]]

InLoop == phase \in Repairing => i < Size

\* What was found lost in the block being repaired is still zero.
LostZero ==
  phase \in Repairing => \A p \in Symbols(i) : p \in lost[i] => symb[i][p] = Zero

RecoverInv ==
  /\ i \in Nat
  /\ SymbolLists
  /\ lost = [k \in Blocks |-> lost[k]]
  /\ InLoop
  /\ LostZero
  /\ CrashCause

\* The truncated count is at most the length of the list, so the loop only
\* reaches blocks that exist.
LEMMA VisitedExist == ASSUME NEW k \in Nat, k < Size PROVE k \in Blocks
<1>1. Size \in Nat /\ Size <= NumberBlocks
  BY BlockAssumption DEF Size
<1>. QED BY <1>1, BlockAssumption DEF Blocks

LEMMA RecoverInit == Init => RecoverInv
<1> SUFFICES ASSUME Init PROVE RecoverInv
  OBVIOUS
<1>1. SymbolLists
  <2>1. PICK missing \in [Blocks -> Losses] :
          symb = [k \in Blocks |-> [p \in Symbols(k) |->
                    IF p \in missing[k] THEN Zero ELSE sent[k][p]]]
    BY Zenon DEF Init
  <2>. QED BY <2>1 DEF SymbolLists
<1>. QED BY <1>1 DEF Init, RecoverInv, InLoop, LostZero, CrashCause, Repairing

\* The only step that stores into a list of symbols leaves alone those that
\* were not found lost.
LEMMA FillKeeps ==
  ASSUME RecoverInv, FillLostSymbol,
         NEW k \in Blocks, NEW p \in Symbols(k), symb[k][p] # Zero
  PROVE  symb'[k][p] = symb[k][p]
<1>1. i \in Blocks
  BY VisitedExist DEF RecoverInv, InLoop, Repairing, FillLostSymbol
<1>2. symb'[k] = IF k = i
                 THEN [q \in Symbols(i) |->
                         IF Filled(q) THEN b[Rank(q)] ELSE symb[i][q]]
                 ELSE symb[k]
  BY <1>1 DEF FillLostSymbol, RecoverInv, SymbolLists
<1>3. CASE k = i
  <2>1. p \notin lost[i]
    BY <1>3 DEF RecoverInv, LostZero, Repairing, FillLostSymbol
  <2>2. ~Filled(p)
    BY <2>1 DEF Filled
  <2>. QED BY <1>2, <1>3, <2>2
<1>4. CASE k # i
  BY <1>2, <1>4
<1>. QED BY <1>3, <1>4

LEMMA RecoverStep == RecoverInv /\ [Next]_vars => RecoverInv'
<1> SUFFICES ASSUME RecoverInv, [Next]_vars PROVE RecoverInv'
  OBVIOUS
<1> USE DEF RecoverInv, SymbolLists, InLoop, LostZero, CrashCause, Repairing,
            Size, input, system
<1>1. CASE GenCoefs
  BY <1>1 DEF GenCoefs
<1>2. CASE CallFails
  BY <1>2 DEF CallFails, Return
<1>3. CASE VerifyBlock
  <2>1. i < Size /\ phase = "loop" /\ symb' = symb
    BY <1>3 DEF VerifyBlock
  <2>2. i \in Blocks
    BY <2>1, VisitedExist
  <2>3. lost' = [lost EXCEPT ![i] = LostIn(i)]
    BY <1>3 DEF VerifyBlock
  <2>4. CASE LostIn(i) = {}
    <3>1. i' = i + 1 /\ phase' = "loop"
      BY <1>3, <2>1, <2>4 DEF VerifyBlock
    <3>2. SymbolLists' /\ i' \in Nat
      BY <2>1, <3>1
    <3>. QED BY <2>3, <3>1, <3>2
  <2>5. CASE LostIn(i) # {}
    <3>1. phase' = "allocate" /\ i' = i
      BY <1>3, <2>5 DEF VerifyBlock
    <3>2. lost'[i] = LostIn(i)
      BY <2>2, <2>3
    <3>3. LostZero'
      BY <2>1, <3>1, <3>2 DEF LostIn, Symbols, Sources, Repairs, SizeBlock
    <3>. QED BY <2>1, <2>3, <3>1, <3>3
  <2>. QED BY <2>4, <2>5
<1>4. CASE LoopEnds
  BY <1>4 DEF LoopEnds, Return
<1>5. CASE Allocate
  BY <1>5 DEF Allocate
<1>6. CASE AllocateFails
  BY <1>6 DEF AllocateFails, Return
<1>7. CASE MakeLinearSystem
  BY <1>7 DEF MakeLinearSystem
<1>8. CASE MakeSystemFails
  BY <1>8 DEF MakeSystemFails
<1>9. CASE MakeSystemPastEnd
  <2>1. i \in Blocks
    BY <1>9, VisitedExist DEF MakeSystemPastEnd
  <2>2. Cardinality(lost[i]) > SizeRedundance
    BY <1>9 DEF MakeSystemPastEnd, NbUnk
  <2>. QED BY <1>9, <2>1, <2>2 DEF MakeSystemPastEnd
<1>10. CASE Eliminate
  BY <1>10 DEF Eliminate
<1>11. CASE EliminateWrong
  BY <1>11 DEF EliminateWrong
<1>12. CASE FillLostSymbol
  <2>1. phase' = "loop" /\ i' = i + 1 /\ lost' = lost
    BY <1>12 DEF FillLostSymbol
  <2>2. SymbolLists'
    <3>1. i \in Blocks
      BY <1>12, VisitedExist DEF FillLostSymbol
    <3>2. symb' = [symb EXCEPT ![i] =
            [p \in Symbols(i) |-> IF Filled(p) THEN b[Rank(p)] ELSE symb[i][p]]]
      BY <1>12 DEF FillLostSymbol
    <3>3. DOMAIN symb' = Blocks
      BY <3>2
    <3>4. symb' = [k \in Blocks |-> symb'[k]]
      BY <3>2
    <3>5. ASSUME NEW k \in Blocks
          PROVE  symb'[k] = [p \in Symbols(k) |-> symb'[k][p]]
      <4>1. CASE k = i
        BY <3>1, <3>2, <4>1
      <4>2. CASE k # i
        <5>1. symb'[k] = symb[k]
          BY <3>2, <4>2
        <5>2. symb[k] = [p \in Symbols(k) |-> symb[k][p]]
          OBVIOUS
        <5>. QED BY <5>1, <5>2
      <4>. QED BY <4>1, <4>2
    <3>. QED BY <3>3, <3>4, <3>5
  <2>. QED BY <2>1, <2>2
<1>13. CASE Finished \/ UNCHANGED vars
  <2>1. UNCHANGED <<phase, i, symb, lost, starved>>
    BY <1>13 DEF Finished, vars
  <2>. QED BY <2>1
<1>. QED
  BY <1>1, <1>2, <1>3, <1>4, <1>5, <1>6, <1>7, <1>8, <1>9, <1>10, <1>11,
     <1>12, <1>13 DEF Next

\* Every reachable state satisfies RecoverInv: the loop stays inside the list
\* and the symbols found lost in the current block are still zero.
THEOREM RecoverInvariant == Spec => []RecoverInv
BY RecoverInit, RecoverStep, PTL DEF Spec

\* CrashCause: processBlocks ends the process only when memory runs out or when
\* a block has more lost symbols than redundance symbols.
THEOREM CrashesCaused == Spec => []CrashCause
<1>1. RecoverInv => CrashCause
  BY DEF RecoverInv
<1>. QED BY <1>1, RecoverInvariant, PTL

\* OnlyLostFilled: processBlocks never overwrites a symbol that is not zero,
\* whatever the elimination returned.
THEOREM OthersUntouched == Spec => OnlyLostFilled
<1>1. ASSUME RecoverInv, [Next]_vars,
             NEW k \in Blocks, NEW p \in Symbols(k), symb[k][p] # Zero
      PROVE  symb'[k][p] = symb[k][p]
  <2>1. CASE FillLostSymbol
    BY <1>1, <2>1, FillKeeps
  <2>2. CASE ~FillLostSymbol
    <3>1. symb' = symb
      BY <1>1, <2>2 DEF Next, vars, GenCoefs, CallFails, VerifyBlock, LoopEnds,
         Allocate, AllocateFails, MakeLinearSystem, MakeSystemFails,
         MakeSystemPastEnd, Eliminate, EliminateWrong, Finished
    <3>. QED BY <3>1
  <2>. QED BY <2>1, <2>2
<1>2. RecoverInv /\ [Next]_vars =>
        [\A k \in Blocks : \A p \in Symbols(k) :
           symb[k][p] # Zero => symb'[k][p] = symb[k][p]]_vars
  BY <1>1
<1>. QED BY <1>2, RecoverInvariant, PTL DEF Spec, OnlyLostFilled

-----------------------------------------------------------------------------
(* Types *)

\* How the positions of source and redundance symbols lie.
LEMMA SymbolSets ==
  ASSUME NEW k \in Blocks
  PROVE  /\ SizeBlock(k) \in Nat
         /\ Sources(k) \subseteq Sources(0)
         /\ Symbols(k) \subseteq Nat
         /\ IsFiniteSet(Symbols(k)) /\ IsFiniteSet(Sources(k))
         /\ \A r \in Redundance : SizeBlock(k) + r \in Repairs(k)
         /\ \A p \in Repairs(k) : p - SizeBlock(k) \in Redundance
         /\ \A r \in Redundance : SizeBlock(k) + r \notin Sources(k)
         /\ \A r \in Redundance : (SizeBlock(k) + r) - SizeBlock(k) = r
<1>1. /\ NumberBlocks \in Nat /\ k \in Nat /\ FirstSize \in Nat
      /\ LastSize \in Nat /\ LastSize <= FirstSize /\ SizeRedundance \in Nat
      /\ k <= NumberBlocks - 1
  BY BlockAssumption DEF Blocks
<1>2. SizeBlock(k) \in Nat /\ SizeBlock(0) \in Nat /\ SizeBlock(k) <= SizeBlock(0)
  BY <1>1 DEF SizeBlock
<1>3. Sources(k) \subseteq Sources(0) /\ Symbols(k) \subseteq Nat
  BY <1>1, <1>2 DEF Sources, Symbols, Repairs
<1>4. IsFiniteSet(Sources(k)) /\ IsFiniteSet(Repairs(k))
  <2>1. SizeBlock(k) - 1 \in Int /\ SizeBlock(k) + SizeRedundance - 1 \in Int /\ 0 \in Int
        /\ SizeBlock(k) \in Int
    BY <1>1, <1>2
  <2> QED
    BY <2>1, FS_Interval DEF Sources, Repairs
<1>5. IsFiniteSet(Symbols(k))
  BY <1>4, FS_Union DEF Symbols
<1>6. /\ \A r \in Redundance : SizeBlock(k) + r \in Repairs(k)
      /\ \A p \in Repairs(k) : p - SizeBlock(k) \in Redundance
      /\ \A r \in Redundance : SizeBlock(k) + r \notin Sources(k)
      /\ \A r \in Redundance : (SizeBlock(k) + r) - SizeBlock(k) = r
  BY <1>1, <1>2 DEF Repairs, Redundance, Sources
<1> QED
  BY <1>2, <1>3, <1>4, <1>5, <1>6

\* The ranks of the members of L are the numbers below its cardinality, each once.
LEMMA RankBijective ==
  ASSUME NEW L, IsFiniteSet(L), L \subseteq Nat
  PROVE  /\ Cardinality(L) \in Nat
         /\ \A p \in L : Cardinality({q \in L : q < p}) \in 0 .. Cardinality(L) - 1
         /\ \A p, t \in L :
              Cardinality({q \in L : q < p}) = Cardinality({q \in L : q < t}) => p = t
         /\ \A c \in 0 .. Cardinality(L) - 1 :
              \E p \in L : Cardinality({q \in L : q < p}) = c
<1> DEFINE Below(p) == {q \in L : q < p}
           N == Cardinality(L)
           e == [p \in L |-> Cardinality(Below(p))]
<1>1. N \in Nat
  BY FS_CardinalityType
<1>2. ASSUME NEW p \in L
      PROVE  IsFiniteSet(Below(p)) /\ Cardinality(Below(p)) \in Nat /\ Cardinality(Below(p)) < N
  <2>1. Below(p) \in SUBSET L /\ p \notin Below(p) /\ p \in L
    BY <1>2
  <2> HIDE DEF Below
  <2>2. IsFiniteSet(Below(p)) /\ Cardinality(Below(p)) <= N /\ Cardinality(Below(p)) # N
    BY <2>1, FS_Subset
  <2>3. Cardinality(Below(p)) \in Nat
    BY <2>2, FS_CardinalityType
  <2> HIDE DEF N
  <2> QED
    BY <1>1, <2>2, <2>3
<1>3. ASSUME NEW p \in L, NEW t \in L, p < t
      PROVE  Cardinality(Below(p)) < Cardinality(Below(t))
  <2>1. Below(p) \in SUBSET Below(t) /\ p \in Below(t) /\ p \notin Below(p)
    <3>1. p \in Nat /\ t \in Nat /\ \A q \in L : q \in Nat
      OBVIOUS
    <3>2. \A q \in L : q < p => q < t
      BY <1>3, <3>1
    <3>3. ~ (p < p)
      BY <3>1
    <3>4. p \in Below(t) /\ p \notin Below(p)
      BY <1>3, <3>3
    <3>5. Below(p) \subseteq Below(t)
      BY <3>2
    <3> QED
      BY <3>4, <3>5
  <2>2. IsFiniteSet(Below(t)) /\ Cardinality(Below(t)) \in Nat /\ Cardinality(Below(p)) \in Nat
    BY <1>2
  <2> HIDE DEF Below
  <2>3. Cardinality(Below(p)) <= Cardinality(Below(t)) /\ Cardinality(Below(p)) # Cardinality(Below(t))
    BY <2>1, <2>2, FS_Subset
  <2> QED
    BY <2>2, <2>3
<1>4. ASSUME NEW p \in L, NEW t \in L, Cardinality(Below(p)) = Cardinality(Below(t))
      PROVE  p = t
  <2>1. ~ (p < t) /\ ~ (t < p)
    <3>1. Cardinality(Below(p)) \in Nat /\ Cardinality(Below(t)) \in Nat
      BY <1>2
    <3> HIDE DEF Below
    <3> QED
      BY <1>3, <1>4, <3>1
  <2> QED
    BY <2>1
<1>5. e \in [L -> 0 .. N - 1]
  <2>1. \A p \in L : Cardinality(Below(p)) \in 0 .. N - 1
    <3> HIDE DEF Below, N
    <3> QED
      BY <1>1, <1>2
  <2> HIDE DEF Below, N
  <2> QED
    BY <2>1
<1>6. e \in Injection(L, 0 .. N - 1)
  <2>1. \A p \in L : e[p] = Cardinality(Below(p))
    OBVIOUS
  <2>2. \A p, t \in L : e[p] = e[t] => p = t
    <3> HIDE DEF e, Below, N
    <3> QED
      BY <1>4, <2>1
  <2> HIDE DEF e, N
  <2> QED
    BY <1>5, <2>2 DEF Injection, IsInjective
<1>7. IsFiniteSet(0 .. N - 1) /\ Cardinality(0 .. N - 1) = N
  <2>1. N - 1 \in Int /\ 0 \in Int
    BY <1>1
  <2>2. IsFiniteSet(0 .. N - 1) /\ Cardinality(0 .. N - 1) = IF 0 > N - 1 THEN 0 ELSE (N - 1) - 0 + 1
    <3> HIDE DEF N
    <3> QED
      BY <2>1, FS_Interval
  <2> HIDE DEF N
  <2> QED
    BY <1>1, <2>2
<1>8. e \in Surjection(L, 0 .. N - 1)
  <2>1. Cardinality(L) = Cardinality(0 .. N - 1)
    BY <1>7
  <2> HIDE DEF e, N
  <2> QED
    BY <1>6, <1>7, <2>1, FS_Injection
<1>9. \A c \in 0 .. N - 1 : \E p \in L : Cardinality(Below(p)) = c
  <2>1. \A c \in 0 .. N - 1 : \E p \in L : e[p] = c
    <3> HIDE DEF e, N
    <3> QED
      BY <1>8 DEF Surjection
  <2> HIDE DEF Below, N
  <2> QED
    BY <2>1
<1>10. \A p \in L : Cardinality(Below(p)) \in 0 .. N - 1
  <2> HIDE DEF Below, N
  <2> QED
    BY <1>1, <1>2
<1> QED
  BY <1>1, <1>4, <1>9, <1>10

LEMMA SizeBounds == Size \in Nat /\ Size <= NumberBlocks
BY BlockAssumption DEF Size

LEMMA CoeffsType ==
  ASSUME NEW c \in Coefficients, NEW k \in Blocks, NEW r \in Redundance, NEW s \in Sources(k)
  PROVE  c[r][s] \in Elem
<1>1. c \in [Redundance -> [Sources(0) -> Elem]]
  BY BlockAssumption
<1>2. s \in Sources(0)
  BY SymbolSets
<1> QED
  BY <1>1, <1>2

\* What is sent consists of symbols.
LEMMA EncodedType ==
  ASSUME NEW m \in Messages, NEW c \in Coefficients, NEW k \in Blocks
  PROVE  Encoded(m, c, k) \in [Symbols(k) -> Elem]
<1> SUFFICES ASSUME NEW p \in Symbols(k)
             PROVE  Encoded(m, c, k)[p] \in Elem
  <2>1. Encoded(m, c, k) = [p \in Symbols(k) |-> Encoded(m, c, k)[p]]
    BY DEF Encoded
  <2> QED
    BY <2>1
<1>1. m[k] \in [Sources(k) -> Elem]
  BY BlockAssumption
<1>2. CASE p \in Sources(k)
  BY <1>1, <1>2 DEF Encoded
<1>3. CASE p \notin Sources(k)
  <2> DEFINE r == p - SizeBlock(k)
  <2>1. r \in Redundance
    BY <1>3, SymbolSets DEF Symbols
  <2>2. Encoded(m, c, k)[p] = SumOf([s \in Sources(k) |-> Mul(m[k][s], c[r][s])])
    BY <1>3 DEF Encoded
  <2> HIDE DEF r
  <2>3. \A s \in Sources(k) : m[k][s] \in Elem /\ c[r][s] \in Elem
    BY <1>1, <2>1, CoeffsType
  <2>4. SumOf([s \in Sources(k) |-> Mul(m[k][s], c[r][s])]) \in Elem
    BY <2>3, SymbolSets, ProductsType
  <2> QED
    BY <2>2, <2>4
<1> QED
  BY <1>2, <1>3

LEMMA TypesInit == Init => TypeOK
<1> SUFFICES ASSUME Init PROVE TypeOK
  OBVIOUS
<1>1. coeffs \in Coefficients
  BY DEF Init
<1>2. ASSUME NEW k \in Blocks PROVE sent[k] \in [Symbols(k) -> Elem]
  <2>1. PICK m \in Messages : sent = [kk \in Blocks |-> Encoded(m, coeffs, kk)]
    BY Zenon DEF Init
  <2>2. sent[k] = Encoded(m, coeffs, k)
    BY <2>1
  <2> QED
    BY <1>1, <2>2, EncodedType
<1>3. ASSUME NEW k \in Blocks PROVE symb[k] \in [Symbols(k) -> Elem]
  <2>1. PICK missing \in [Blocks -> Losses] :
          symb = [kk \in Blocks |-> [p \in Symbols(kk) |->
                    IF p \in missing[kk] THEN Zero ELSE sent[kk][p]]]
    BY Zenon DEF Init
  <2>2. symb[k] = [p \in Symbols(k) |-> IF p \in missing[k] THEN Zero ELSE sent[k][p]]
    BY <2>1
  <2> QED
    BY <1>2, <2>2, ZeroType
<1>4. phase = "start" /\ i \in 0 .. Size /\ ret = "none"
  BY SizeBounds DEF Init
<1>5. /\ \A k \in Blocks : lost[k] \subseteq Symbols(k)
      /\ solved \subseteq Blocks /\ sound \in BOOLEAN /\ starved \in BOOLEAN
  BY DEF Init
<1> QED
  BY <1>1, <1>2, <1>3, <1>4, <1>5 DEF TypeOK

LEMMA LostFinite ==
  ASSUME TypeOK, NEW k \in Blocks
  PROVE  IsFiniteSet(lost[k]) /\ lost[k] \subseteq Nat
<1>1. lost[k] \in SUBSET Symbols(k) /\ IsFiniteSet(Symbols(k)) /\ Symbols(k) \subseteq Nat
  BY SymbolSets DEF TypeOK
<1> QED
  BY <1>1, FS_Subset

\* The columns and rows of the system of block i, and how its unknowns are counted.
LEMMA RankFacts ==
  ASSUME TypeOK, i \in Blocks
  PROVE  /\ NbUnk \in Nat
         /\ \A p \in lost[i] : Rank(p) \in Unk
         /\ \A p, q \in lost[i] : Rank(p) = Rank(q) => p = q
         /\ \A c \in Unk : \E p \in lost[i] : Rank(p) = c
BY LostFinite, RankBijective, Zenon DEF NbUnk, Rank, Unk

LEMMA UnkBounded ==
  ASSUME TypeOK, i \in Blocks, NbUnk <= SizeRedundance, NEW r \in Unk
  PROVE  r \in Redundance
BY RankFacts, BlockAssumption DEF Unk, Redundance

\* The system is made of elements, also where malloc left something behind.
LEMMA SystemTypes ==
  ASSUME TypeOK, i \in Blocks, MakeLinearSystem
  PROVE  A' \in [Unk -> [Unk -> Elem]] /\ b' \in [Unk -> Elem]
<1>1. NbUnk <= SizeRedundance
  BY DEF MakeLinearSystem
<1>2. \A r \in Unk : \A c \in Known : CoefficientOf(r, c) \in Elem
  <2> SUFFICES ASSUME NEW r \in Unk, NEW c \in Known
               PROVE  CoefficientOf(r, c) \in Elem
    OBVIOUS
  <2> DEFINE p == CHOOSE q \in lost[i] \cap Sources(i) : Rank(q) = c
  <2>1. p \in Sources(i)
    BY DEF Known
  <2>2. r \in Redundance /\ coeffs \in Coefficients
    BY <1>1, UnkBounded DEF TypeOK
  <2>3. CoefficientOf(r, c) = coeffs[r][p]
    BY DEF CoefficientOf
  <2> HIDE DEF p
  <2> QED
    BY <2>1, <2>2, <2>3, CoeffsType
<1>3. A' \in [Unk -> [Unk -> Elem]]
  <2>1. PICK rest \in [Unk -> [Unk \ Known -> Garbage]] :
          A' = [r \in Unk |-> [c \in Unk |->
                  IF c \in Known THEN CoefficientOf(r, c) ELSE rest[r][c]]]
    BY DEF MakeLinearSystem
  <2>2. \A r \in Unk : \A c \in Unk \ Known : rest[r][c] \in Elem
    BY BlockAssumption
  <2> QED
    BY <1>2, <2>1, <2>2
<1>4. ASSUME NEW r \in Unk PROVE RightSide(r) \in Elem
  <2>1. r \in Redundance
    BY <1>1, UnkBounded
  <2>2. /\ SizeBlock(i) + r \in Symbols(i)
        /\ IsFiniteSet(Sources(i))
    BY <2>1, SymbolSets DEF Symbols
  <2>3. IsFiniteSet(Sources(i) \ lost[i])
    BY <2>2, FS_Subset
  <2>4. \A s \in Sources(i) : symb[i][s] \in Elem /\ coeffs[r][s] \in Elem
    <3>1. \A s \in Sources(i) : symb[i][s] \in Elem
      BY DEF TypeOK, Symbols
    <3>2. \A s \in Sources(i) : coeffs[r][s] \in Elem
      BY <2>1, CoeffsType DEF TypeOK
    <3> QED
      BY <3>1, <3>2
  <2>5. SumOf([s \in Sources(i) \ lost[i] |-> Mul(symb[i][s], coeffs[r][s])]) \in Elem
    BY <2>3, <2>4, ProductsType
  <2>6. symb[i][SizeBlock(i) + r] \in Elem
    BY <2>2 DEF TypeOK
  <2> QED
    BY <2>5, <2>6, AddType DEF RightSide
<1>5. b' = [r \in Unk |-> RightSide(r)]
  BY DEF MakeLinearSystem
<1> QED
  BY <1>3, <1>4, <1>5

\* One case per action.
LEMMA TypesStep == RecoverInv /\ TypeOK /\ [Next]_vars => TypeOK'
<1> SUFFICES ASSUME RecoverInv, TypeOK, [Next]_vars PROVE TypeOK'
  OBVIOUS
<1> USE DEF TypeOK
<1>1. CASE GenCoefs
  BY <1>1 DEF GenCoefs, input, system
<1>2. CASE CallFails
  BY <1>2 DEF CallFails, Return, input, system
<1>3. CASE VerifyBlock
  <2>1. i \in Blocks /\ i < Size
    BY <1>3, VisitedExist DEF VerifyBlock, RecoverInv
  <2>2. phase' \in {"loop", "allocate"} /\ i' \in 0 .. Size
    BY <1>3, <2>1, SizeBounds DEF VerifyBlock
  <2>3. lost' = [lost EXCEPT ![i] = LostIn(i)] /\ DOMAIN lost = Blocks
    BY <1>3 DEF VerifyBlock, RecoverInv
  <2>4. \A k \in Blocks : lost'[k] = IF k = i THEN LostIn(i) ELSE lost[k]
    BY <2>3
  <2>5. \A k \in Blocks : lost'[k] \subseteq Symbols(k)
    BY <2>4 DEF LostIn
  <2>6. UNCHANGED <<ret, symb, sent, coeffs, solved, sound, starved>>
    BY <1>3 DEF VerifyBlock, input, system
  <2> QED
    BY <2>2, <2>5, <2>6
<1>4. CASE LoopEnds
  BY <1>4 DEF LoopEnds, Return, input, system
<1>5. CASE Allocate
  BY <1>5 DEF Allocate, input, system
<1>6. CASE AllocateFails
  BY <1>6 DEF AllocateFails, Return, input, system
<1>7. CASE MakeLinearSystem
  <2>1. i \in Blocks
    BY <1>7, VisitedExist DEF MakeLinearSystem, RecoverInv, InLoop, Repairing
  <2>2. A' \in [Unk -> [Unk -> Elem]] /\ b' \in [Unk -> Elem]
    BY <1>7, <2>1, SystemTypes
  <2>3. UNCHANGED <<i, ret, symb, sent, coeffs, lost, solved, starved>>
    BY <1>7 DEF MakeLinearSystem, input
  <2>4. Unk' = Unk
    BY <2>3 DEF Unk, NbUnk
  <2>5. phase' = "solve" /\ sound' = TRUE
    BY <1>7 DEF MakeLinearSystem
  <2> QED
    BY <2>2, <2>3, <2>4, <2>5
<1>8. CASE MakeSystemFails
  BY <1>8 DEF MakeSystemFails, input
<1>9. CASE MakeSystemPastEnd
  BY <1>9 DEF MakeSystemPastEnd, input
<1>10. CASE Eliminate
  <2>1. i \in Blocks
    BY <1>10, VisitedExist DEF Eliminate, RecoverInv, InLoop, Repairing
  <2>2. UNCHANGED <<i, ret, symb, sent, coeffs, lost, sound, starved>>
    BY <1>10 DEF Eliminate, input
  <2>3. Unk' = Unk
    BY <2>2 DEF Unk, NbUnk
  <2>4. phase' = "fill" /\ b' \in [Unk -> Elem] /\ solved' = solved \cup {i}
    BY <1>10 DEF Eliminate
  <2> QED
    BY <2>1, <2>2, <2>3, <2>4
<1>11. CASE EliminateWrong
  <2>2. UNCHANGED <<i, ret, symb, sent, coeffs, lost, sound, solved>>
    BY <1>11 DEF EliminateWrong, input
  <2>3. Unk' = Unk
    BY <2>2 DEF Unk, NbUnk
  <2>4. phase' = "fill" /\ b' \in [Unk -> Elem] /\ starved' \in BOOLEAN
    BY <1>11 DEF EliminateWrong
  <2> QED
    BY <2>2, <2>3, <2>4
<1>12. CASE FillLostSymbol
  <2>1. i \in Blocks /\ i < Size /\ phase = "fill"
    BY <1>12, VisitedExist DEF FillLostSymbol, RecoverInv, InLoop, Repairing
  <2>2. UNCHANGED <<ret, sent, coeffs, lost, sound, solved, starved>>
    BY <1>12 DEF FillLostSymbol, input
  <2>3. phase' = "loop" /\ i' \in 0 .. Size
    BY <1>12, <2>1, SizeBounds DEF FillLostSymbol
  <2>4. \A p \in Symbols(i) : (IF Filled(p) THEN b[Rank(p)] ELSE symb[i][p]) \in Elem
    <3>1. \A p \in lost[i] : b[Rank(p)] \in Elem
      BY <2>1, RankFacts
    <3> QED
      BY <2>1, <3>1 DEF Filled
  <2>5. symb' = [symb EXCEPT ![i] =
          [p \in Symbols(i) |-> IF Filled(p) THEN b[Rank(p)] ELSE symb[i][p]]]
        /\ DOMAIN symb = Blocks
    BY <1>12 DEF FillLostSymbol, RecoverInv, SymbolLists
  <2>6. \A k \in Blocks : symb'[k] =
          IF k = i THEN [p \in Symbols(i) |-> IF Filled(p) THEN b[Rank(p)] ELSE symb[i][p]]
          ELSE symb[k]
    BY <2>5
  <2>7. ASSUME NEW k \in Blocks PROVE symb'[k] \in [Symbols(k) -> Elem]
    <3>1. CASE k = i
      <4>1. [p \in Symbols(i) |-> IF Filled(p) THEN b[Rank(p)] ELSE symb[i][p]]
              \in [Symbols(i) -> Elem]
        BY <2>4
      <4>2. symb'[i] = [p \in Symbols(i) |-> IF Filled(p) THEN b[Rank(p)] ELSE symb[i][p]]
        BY <2>1, <2>6
      <4> QED
        BY <3>1, <4>1, <4>2
    <3>2. CASE k # i
      BY <2>6, <3>2
    <3> QED
      BY <3>1, <3>2
  <2> QED
    BY <2>2, <2>3, <2>7
<1>13. CASE Finished \/ UNCHANGED vars
  <2>1. UNCHANGED vars
    BY <1>13 DEF Finished
  <2>2. Unk' = Unk
    BY <2>1 DEF vars, Unk, NbUnk
  <2> QED
    BY <2>1, <2>2 DEF vars, input, system
<1>. QED
  BY <1>1, <1>2, <1>3, <1>4, <1>5, <1>6, <1>7, <1>8, <1>9, <1>10, <1>11,
     <1>12, <1>13 DEF Next

\* TypeOK: the types of processBlocks, for any blocks, sizes and losses.
THEOREM RecoverTypes == Spec => []TypeOK
BY TypesInit, TypesStep, RecoverInvariant, PTL DEF Spec

-----------------------------------------------------------------------------
(* Restored *)

\* A redundance symbol is the combination that the coefficients of its row say.
SentEncoded ==
  \A k \in Blocks : \A r \in Redundance :
    sent[k][SizeBlock(k) + r] = SumOf([s \in Sources(k) |-> Mul(sent[k][s], coeffs[r][s])])

\* Blocks that were not repaired yet hold what arrived.
Received ==
  \A k \in Blocks : k >= i => \A p \in Symbols(k) : symb[k][p] \in {sent[k][p], Zero}

\* What was not found lost in the block being repaired is right.
NotLostRight ==
  phase \in Repairing => \A p \in Symbols(i) : p \notin lost[i] => symb[i][p] = sent[i][p]

SolvedSoFar == \A k \in solved : k <= i /\ (k = i => phase = "fill")

\* The lost symbols as they were sent, in the order of the unknowns.
SentLost == [c \in Unk |-> sent[i][CHOOSE p \in lost[i] : Rank(p) = c]]

\* A system without lost redundance symbols is solved by the symbols that were sent.
SystemRight ==
  phase = "solve" /\ sound /\ lost[i] \subseteq Sources(i) => IsSolution(SentLost)

ResultRight ==
  phase = "fill" /\ i \in solved /\ lost[i] \subseteq Sources(i) =>
    \A p \in lost[i] : b[Rank(p)] = sent[i][p]

BlockRight(k) ==
  \/ SourcesRight(k)
  \/ lost[k] \cap Sources(k) # {} /\ k \notin solved
  \/ lost[k] \cap Sources(k) # {} /\ lost[k] \cap Repairs(k) # {}

BlocksRight == \A k \in Blocks : k < i => BlockRight(k)

ReturnedOk == ret = "ok" => phase = "returned" /\ i >= Size

RestoreInv ==
  /\ SentEncoded /\ Received /\ NotLostRight /\ SolvedSoFar
  /\ SystemRight /\ ResultRight /\ BlocksRight /\ ReturnedOk

\* Row r of the combinations that were sent in block i.
Products(r) == [s \in Sources(i) |-> Mul(sent[i][s], coeffs[r][s])]

LEMMA ProductsInField ==
  ASSUME TypeOK, i \in Blocks, NEW r \in Redundance
  PROVE  \A s \in Sources(i) : Products(r)[s] \in Elem
<1> SUFFICES ASSUME NEW s \in Sources(i) PROVE Mul(sent[i][s], coeffs[r][s]) \in Elem
  BY DEF Products
<1>1. sent[i][s] \in Elem
  BY DEF TypeOK, Symbols
<1>2. coeffs[r][s] \in Elem
  BY CoeffsType DEF TypeOK
<1> QED
  BY <1>1, <1>2, MulType

\* Taking what arrived off a redundance symbol leaves the share of the lost symbols.
LEMMA RightSideOfSent ==
  ASSUME TypeOK, SentEncoded, i \in Blocks, lost[i] \subseteq Sources(i),
         \A p \in Symbols(i) : p \notin lost[i] => symb[i][p] = sent[i][p],
         NEW r \in Redundance
  PROVE  RightSide(r) = Total(Products(r), lost[i])
<1> DEFINE u == Total(Products(r), lost[i])
           v == Total(Products(r), Sources(i) \ lost[i])
<1>1. IsFiniteSet(Sources(i)) /\ IsFiniteSet(lost[i]) /\ IsFiniteSet(Sources(i) \ lost[i])
  <2>1. IsFiniteSet(Sources(i))
    BY SymbolSets
  <2>2. Sources(i) \ lost[i] \in SUBSET Sources(i)
    OBVIOUS
  <2> QED
    BY <2>1, <2>2, FS_Subset
<1>2. Total(Products(r), Sources(i)) = Add(u, v)
  <2>1. Sources(i) \cap lost[i] = lost[i]
    OBVIOUS
  <2>2. \A s \in Sources(i) : Products(r)[s] \in Elem
    BY ProductsInField
  <2>3. Total(Products(r), Sources(i)) =
          Add(Total(Products(r), Sources(i) \cap lost[i]),
              Total(Products(r), Sources(i) \ lost[i]))
    <3> DEFINE f == Products(r)
               U == Sources(i)
               W == lost[i]
    <3>1. IsFiniteSet(U) /\ \A s \in U : f[s] \in Elem
      BY <1>1, <2>2
    <3> HIDE DEF f, U, W, u, v
    <3>2. Total(f, U) = Add(Total(f, U \cap W), Total(f, U \ W))
      BY <3>1, TotalSplit
    <3> QED
      BY <3>2 DEF f, U, W
  <2> QED
    BY <2>1, <2>3
<1>3. u \in Elem /\ v \in Elem
  <2>1. /\ \A s \in lost[i] : Products(r)[s] \in Elem
        /\ \A s \in Sources(i) \ lost[i] : Products(r)[s] \in Elem
    BY ProductsInField
  <2> QED
    BY <1>1, <2>1, TotalType
<1>4. symb[i][SizeBlock(i) + r] = Add(u, v)
  <2>1. SizeBlock(i) + r \in Symbols(i) /\ SizeBlock(i) + r \notin lost[i]
    BY SymbolSets DEF Symbols
  <2>2. symb[i][SizeBlock(i) + r] = SumOf(Products(r))
    BY <2>1 DEF SentEncoded, Products
  <2>3. SumOf(Products(r)) = Total(Products(r), Sources(i))
    <3>1. Products(r) = [s \in Sources(i) |-> Products(r)[s]]
      BY DEF Products
    <3> QED
      BY <3>1, SumIsTotal
  <2> QED
    BY <1>2, <2>2, <2>3
<1>5. SumOf([s \in Sources(i) \ lost[i] |-> Mul(symb[i][s], coeffs[r][s])]) = v
  <2>1. [s \in Sources(i) \ lost[i] |-> Mul(symb[i][s], coeffs[r][s])] =
        [s \in Sources(i) \ lost[i] |-> Products(r)[s]]
    BY DEF Products, Symbols
  <2> QED
    BY <2>1 DEF Total
<1>6. Add(Add(u, v), v) = u
  <2> HIDE DEF u, v
  <2>1. Add(Add(u, v), v) = Add(u, Add(v, v))
    BY <1>3, AddAssociates
  <2>2. Add(v, v) = Zero /\ Add(u, Zero) = u
    BY <1>3, ByteFieldAssumption DEF FieldAssumption
  <2> QED
    BY <2>1, <2>2
<1> QED
  BY <1>4, <1>5, <1>6 DEF RightSide

\* The left side of row r, for the symbols that were sent.
LEMMA LeftSideOfSent ==
  ASSUME TypeOK, i \in Blocks, NbUnk <= SizeRedundance, lost[i] \subseteq Sources(i),
         NEW r \in Unk
  PROVE  SumOf([c \in Unk |-> Mul(CoefficientOf(r, c), SentLost[c])]) =
           Total(Products(r), lost[i])
<1> DEFINE g == [c \in Unk |-> Mul(CoefficientOf(r, c), SentLost[c])]
           e == [p \in lost[i] |-> Rank(p)]
<1>1. r \in Redundance
  BY UnkBounded
<1>2. ASSUME NEW s \in lost[i]
      PROVE  e[s] \in Unk /\ Products(r)[s] = g[e[s]] /\ g[e[s]] \in Elem
  <2>1. e[s] = Rank(s) /\ Rank(s) \in Unk
    BY RankFacts
  <2>2. SentLost[Rank(s)] = sent[i][s]
    <3>1. (CHOOSE p \in lost[i] : Rank(p) = Rank(s)) = s
      BY RankFacts
    <3> QED
      BY <2>1, <3>1 DEF SentLost
  <2>3. CoefficientOf(r, Rank(s)) = coeffs[r][s]
    <3>1. (CHOOSE q \in lost[i] \cap Sources(i) : Rank(q) = Rank(s)) = s
      <4>1. \A q \in lost[i] \cap Sources(i) : Rank(q) = Rank(s) => q = s
        BY RankFacts
      <4>2. s \in lost[i] \cap Sources(i)
        OBVIOUS
      <4> QED
        BY <4>1, <4>2
    <3> QED
      BY <3>1 DEF CoefficientOf
  <2>4. g[Rank(s)] = Mul(coeffs[r][s], sent[i][s])
    BY <2>1, <2>2, <2>3
  <2>5. Products(r)[s] = Mul(sent[i][s], coeffs[r][s])
    BY DEF Products
  <2>6. sent[i][s] \in Elem /\ coeffs[r][s] \in Elem
    <3>1. sent[i][s] \in Elem
      BY DEF TypeOK, Symbols
    <3>2. coeffs[r][s] \in Elem
      BY <1>1, CoeffsType DEF TypeOK
    <3> QED
      BY <3>1, <3>2
  <2>7. Mul(coeffs[r][s], sent[i][s]) = Mul(sent[i][s], coeffs[r][s])
    BY <2>6, ByteFieldAssumption DEF FieldAssumption
  <2>8. Mul(sent[i][s], coeffs[r][s]) \in Elem
    BY <2>6, MulType
  <2> HIDE DEF e, g
  <2> QED
    BY <2>1, <2>4, <2>5, <2>7, <2>8
<1>3. \A s, t \in lost[i] : e[s] = e[t] => s = t
  BY RankFacts
<1>4. {e[s] : s \in lost[i]} = Unk
  <2>1. \A c \in Unk : \E p \in lost[i] : e[p] = c
    BY RankFacts
  <2>2. \A s \in lost[i] : e[s] \in Unk
    BY <1>2
  <2> HIDE DEF e
  <2>3. Unk \subseteq {e[s] : s \in lost[i]}
    BY <2>1
  <2>4. {e[s] : s \in lost[i]} \subseteq Unk
    BY <2>2
  <2> QED
    BY <2>3, <2>4
<1>5. IsFiniteSet(lost[i]) /\ IsFiniteSet(Unk)
  <2>1. IsFiniteSet(Unk)
    <3>1. NbUnk - 1 \in Int /\ 0 \in Int
      BY RankFacts
    <3> QED
      BY <3>1, FS_Interval DEF Unk
  <2> QED
    BY <2>1, LostFinite
<1>6. SumOf(g) = Total(g, Unk)
  <2>1. g = [c \in Unk |-> g[c]]
    OBVIOUS
  <2> HIDE DEF g
  <2> QED
    BY <2>1, SumIsTotal
<1>7. Total(Products(r), lost[i]) = Total(g, {e[s] : s \in lost[i]})
  <2> HIDE DEF e, g
  <2> QED
    BY <1>2, <1>3, <1>5, TotalReindex
<1> QED
  BY <1>4, <1>6, <1>7

\* What arrives is what was sent or zero.
LEMMA RestoreInit == Init => RestoreInv
<1> SUFFICES ASSUME Init PROVE RestoreInv
  OBVIOUS
<1>1. SentEncoded
  <2>1. PICK m \in Messages : sent = [kk \in Blocks |-> Encoded(m, coeffs, kk)]
    BY Zenon DEF Init
  <2> SUFFICES ASSUME NEW k \in Blocks, NEW r \in Redundance
               PROVE  sent[k][SizeBlock(k) + r] =
                        SumOf([s \in Sources(k) |-> Mul(sent[k][s], coeffs[r][s])])
    BY DEF SentEncoded
  <2>2. sent[k] = Encoded(m, coeffs, k)
    BY <2>1
  <2>3. /\ SizeBlock(k) + r \in Symbols(k) /\ SizeBlock(k) + r \notin Sources(k)
        /\ (SizeBlock(k) + r) - SizeBlock(k) = r
    BY SymbolSets DEF Symbols
  <2>4. sent[k][SizeBlock(k) + r] = SumOf([s \in Sources(k) |-> Mul(m[k][s], coeffs[r][s])])
    BY <2>2, <2>3 DEF Encoded
  <2>5. \A s \in Sources(k) : sent[k][s] = m[k][s]
    BY <2>2 DEF Encoded, Symbols
  <2>6. [s \in Sources(k) |-> Mul(m[k][s], coeffs[r][s])] =
        [s \in Sources(k) |-> Mul(sent[k][s], coeffs[r][s])]
    BY <2>5
  <2> QED
    BY <2>4, <2>6
<1>2. Received
  <2>1. PICK missing \in [Blocks -> Losses] :
          symb = [k \in Blocks |-> [p \in Symbols(k) |->
                    IF p \in missing[k] THEN Zero ELSE sent[k][p]]]
    BY Zenon DEF Init
  <2>2. ASSUME NEW k \in Blocks, NEW p \in Symbols(k)
        PROVE  symb[k][p] \in {sent[k][p], Zero}
    <3>1. symb[k][p] = IF p \in missing[k] THEN Zero ELSE sent[k][p]
      BY <2>1
    <3> QED
      BY <3>1
  <2> QED
    BY <2>2 DEF Received
<1>3. BlocksRight
  BY DEF Init, BlocksRight, Blocks
<1> QED
  BY <1>1, <1>2, <1>3 DEF Init, RestoreInv, NotLostRight, Repairing, SolvedSoFar, SystemRight,
     ResultRight, ReturnedOk

\* When source symbols only are lost, malloc's garbage is nowhere in the matrix.
LEMMA MatrixFilled ==
  ASSUME TypeOK, i \in Blocks, MakeLinearSystem, lost[i] \subseteq Sources(i)
  PROVE  \A r \in Unk : \A c \in Unk : A'[r][c] = CoefficientOf(r, c)
<1>1. Known = Unk
  <2>1. lost[i] \cap Sources(i) = lost[i]
    OBVIOUS
  <2>2. Known = {Rank(p) : p \in lost[i]}
    BY <2>1 DEF Known
  <2> QED
    BY <2>2, RankFacts
<1>2. PICK rest \in [Unk -> [Unk \ Known -> Garbage]] :
        A' = [q \in Unk |-> [c \in Unk |->
                IF c \in Known THEN CoefficientOf(q, c) ELSE rest[q][c]]]
  BY DEF MakeLinearSystem
<1> QED
  BY <1>1, <1>2

\* What the step that builds the system leaves is solved by the symbols sent.
LEMMA SystemBuilt ==
  ASSUME TypeOK, RestoreInv, i \in Blocks, MakeLinearSystem, lost[i] \subseteq Sources(i)
  PROVE  \A r \in Unk : SumOf([c \in Unk |-> Mul(A'[r][c], SentLost[c])]) = b'[r]
<1> SUFFICES ASSUME NEW r \in Unk
             PROVE  SumOf([c \in Unk |-> Mul(A'[r][c], SentLost[c])]) = b'[r]
  OBVIOUS
<1>1. NbUnk <= SizeRedundance /\ phase = "build" /\ b' = [q \in Unk |-> RightSide(q)]
  BY DEF MakeLinearSystem
<1>2. r \in Redundance
  BY <1>1, UnkBounded
<1>3. b'[r] = Total(Products(r), lost[i])
  <2>1. RightSide(r) = Total(Products(r), lost[i])
    BY <1>1, <1>2, RightSideOfSent DEF RestoreInv, NotLostRight, Repairing
  <2> QED
    BY <1>1, <2>1
<1>4. \A c \in Unk : A'[r][c] = CoefficientOf(r, c)
  BY MatrixFilled
<1>5. [c \in Unk |-> Mul(A'[r][c], SentLost[c])] =
      [c \in Unk |-> Mul(CoefficientOf(r, c), SentLost[c])]
  BY <1>4
<1>6. SumOf([c \in Unk |-> Mul(CoefficientOf(r, c), SentLost[c])]) = Total(Products(r), lost[i])
  BY <1>1, LeftSideOfSent
<1> QED
  BY <1>3, <1>5, <1>6

\* The one solution of the system of a block holds the symbols sent.
LEMMA SolutionIsSent ==
  ASSUME TypeOK, RestoreInv, i \in Blocks, Eliminate, lost[i] \subseteq Sources(i)
  PROVE  \A p \in lost[i] : b'[Rank(p)] = sent[i][p]
<1>1. IsSolution(SentLost)
  BY DEF RestoreInv, SystemRight, Eliminate
<1>2. SentLost \in [Unk -> Elem]
  <2>1. \A c \in Unk : (CHOOSE p \in lost[i] : Rank(p) = c) \in lost[i]
    BY RankFacts
  <2>2. \A p \in lost[i] : sent[i][p] \in Elem
    BY DEF TypeOK
  <2> QED
    BY <2>1, <2>2 DEF SentLost
<1>3. b' = SentLost
  BY <1>1, <1>2 DEF Eliminate
<1>4. ASSUME NEW p \in lost[i] PROVE SentLost[Rank(p)] = sent[i][p]
  <2>1. Rank(p) \in Unk /\ (CHOOSE q \in lost[i] : Rank(q) = Rank(p)) = p
    BY RankFacts
  <2> QED
    BY <2>1 DEF SentLost
<1> QED
  BY <1>3, <1>4

\* What is in block i when it has been filled.
LEMMA FilledRight ==
  ASSUME RecoverInv, TypeOK, RestoreInv, i \in Blocks, FillLostSymbol
  PROVE  \/ \A p \in Sources(i) : symb'[i][p] = sent[i][p]
         \/ lost[i] \cap Sources(i) # {} /\ i \notin solved
         \/ lost[i] \cap Sources(i) # {} /\ lost[i] \cap Repairs(i) # {}
<1>1. \A p \in Symbols(i) :
        symb'[i][p] = IF p \in lost[i] THEN b[Rank(p)] ELSE symb[i][p]
  BY DEF FillLostSymbol, RecoverInv, SymbolLists, Filled
<1>2. phase = "fill" /\ \A p \in Symbols(i) : p \notin lost[i] => symb[i][p] = sent[i][p]
  BY DEF FillLostSymbol, RestoreInv, NotLostRight, Repairing
<1>3. Sources(i) \subseteq Symbols(i)
  BY DEF Symbols
<1>4. CASE lost[i] \cap Sources(i) = {}
  BY <1>1, <1>2, <1>3, <1>4
<1>5. CASE i \in solved /\ lost[i] \cap Repairs(i) = {}
  <2>1. lost[i] \subseteq Sources(i)
    BY <1>5 DEF TypeOK, Symbols
  <2>2. \A p \in lost[i] : b[Rank(p)] = sent[i][p]
    BY <1>2, <1>5, <2>1 DEF RestoreInv, ResultRight
  <2> QED
    BY <1>1, <1>2, <1>3, <2>2
<1> QED
  BY <1>4, <1>5

\* Steps that touch no symbol and find none lost.
LEMMA RestoreFrame ==
  ASSUME RestoreInv, UNCHANGED <<i, symb, sent, coeffs, lost, solved>>, phase # "fill",
         phase' \in Repairing => phase \in Repairing
  PROVE  SentEncoded' /\ Received' /\ NotLostRight' /\ SolvedSoFar' /\ BlocksRight'
<1>1. SentEncoded'
  BY DEF RestoreInv, SentEncoded
<1>2. Received'
  BY DEF RestoreInv, Received
<1>3. NotLostRight'
  BY DEF RestoreInv, NotLostRight
<1>4. SolvedSoFar'
  BY DEF RestoreInv, SolvedSoFar
<1>5. BlocksRight'
  BY DEF RestoreInv, BlocksRight, BlockRight, SourcesRight
<1> QED
  BY <1>1, <1>2, <1>3, <1>4, <1>5

\* One case per action.
LEMMA RestoreStep == RecoverInv /\ TypeOK /\ RestoreInv /\ [Next]_vars => RestoreInv'
<1> SUFFICES ASSUME RecoverInv, TypeOK, RestoreInv, [Next]_vars PROVE RestoreInv'
  OBVIOUS
<1>0. /\ SentEncoded /\ Received /\ NotLostRight /\ SolvedSoFar
      /\ SystemRight /\ ResultRight /\ BlocksRight /\ ReturnedOk
  BY DEF RestoreInv
<1>1. CASE GenCoefs \/ CallFails \/ LoopEnds \/ Allocate \/ AllocateFails
  <2>1. /\ UNCHANGED <<i, symb, sent, coeffs, lost, solved>>
        /\ phase \in {"start", "loop", "allocate"}
        /\ phase' \in {"loop", "build", "returned", "crashed"}
        /\ phase' = "build" => phase = "allocate"
    BY <1>1 DEF GenCoefs, CallFails, LoopEnds, Allocate, AllocateFails, Return, input, system
  <2>2. SentEncoded' /\ Received' /\ NotLostRight' /\ SolvedSoFar' /\ BlocksRight'
    BY <2>1, RestoreFrame DEF Repairing
  <2>3. SystemRight' /\ ResultRight'
    BY <2>1 DEF SystemRight, ResultRight
  <2>4. ReturnedOk'
    <3>1. ret' = ret \/ ret' = "error" \/ LoopEnds
      BY <1>1 DEF GenCoefs, CallFails, Allocate, AllocateFails, Return
    <3>2. CASE LoopEnds
      <4>1. i \in Nat /\ i >= Size
        BY <3>2 DEF LoopEnds, RecoverInv
      <4> QED
        BY <2>1, <3>2, <4>1 DEF LoopEnds, Return, ReturnedOk, Size
    <3>3. CASE ret' = ret \/ ret' = "error"
      BY <1>0, <2>1, <3>3 DEF ReturnedOk
    <3> QED
      BY <3>1, <3>2, <3>3
  <2> QED
    BY <2>2, <2>3, <2>4 DEF RestoreInv
<1>2. CASE VerifyBlock
  <2>1. phase = "loop" /\ i < Size /\ UNCHANGED <<ret, symb, sent, coeffs, solved>>
    BY <1>2 DEF VerifyBlock, input
  <2>2. i \in Blocks /\ i \in Nat
    BY <2>1, VisitedExist DEF RecoverInv
  <2>3. \A k \in Blocks : lost'[k] = IF k = i THEN LostIn(i) ELSE lost[k]
    BY <1>2 DEF VerifyBlock, RecoverInv
  <2>4. \A p \in Symbols(i) : p \notin LostIn(i) => symb[i][p] = sent[i][p]
    BY <1>0, <2>2 DEF Received, LostIn
  <2>5. \A k \in solved : k < i /\ k \in Nat
    <3>1. \A k \in solved : k <= i /\ k # i
      BY <1>0, <2>1 DEF SolvedSoFar
    <3>2. \A k \in solved : k \in Nat
      BY DEF TypeOK, Blocks
    <3> QED
      BY <2>2, <3>1, <3>2
  <2>6. SentEncoded'
    BY <1>0, <2>1 DEF SentEncoded
  <2>7. /\ phase' \in {"loop", "allocate"}
        /\ i' = i \/ (i' = i + 1 /\ LostIn(i) = {})
        /\ phase' = "allocate" => i' = i
    BY <1>2, <2>1 DEF VerifyBlock
  <2>8. Received'
    <3>1. \A k \in Blocks : k >= i' => k >= i
      BY <2>2, <2>7 DEF Blocks
    <3> QED
      BY <1>0, <2>1, <3>1 DEF Received
  <2>9. NotLostRight'
    <3>1. CASE phase' = "loop"
      BY <3>1 DEF NotLostRight, Repairing
    <3>2. CASE phase' = "allocate"
      <4>1. i' = i /\ lost'[i] = LostIn(i)
        BY <2>2, <2>3, <2>7, <3>2
      <4>2. \A p \in Symbols(i) : p \notin lost'[i] => symb'[i][p] = sent'[i][p]
        BY <2>1, <2>4, <4>1
      <4> QED
        BY <4>1, <4>2 DEF NotLostRight, Symbols, Sources, Repairs, SizeBlock
    <3> QED
      BY <2>7, <3>1, <3>2
  <2>10. SolvedSoFar'
    <3>1. \A k \in solved : k <= i' /\ k # i'
      BY <2>2, <2>5, <2>7
    <3> QED
      BY <2>1, <3>1 DEF SolvedSoFar
  <2>11. SystemRight' /\ ResultRight'
    BY <2>7 DEF SystemRight, ResultRight
  <2>12. BlocksRight'
    <3> SUFFICES ASSUME NEW k \in Blocks, k < i' PROVE BlockRight(k)'
      BY DEF BlocksRight
    <3>1. k < i \/ (k = i /\ LostIn(i) = {})
      BY <2>2, <2>7 DEF Blocks
    <3>2. CASE k < i
      <4>1. BlockRight(k)
        BY <1>0, <3>2 DEF BlocksRight
      <4>2. lost'[k] = lost[k]
        BY <2>2, <2>3, <3>2
      <4> QED
        BY <2>1, <4>1, <4>2 DEF BlockRight, SourcesRight
    <3>3. CASE k = i /\ LostIn(i) = {}
      <4>1. \A p \in Sources(k) : symb'[k][p] = sent'[k][p]
        BY <2>1, <2>4, <3>3 DEF Symbols
      <4> QED
        BY <4>1 DEF BlockRight, SourcesRight
    <3> QED
      BY <3>1, <3>2, <3>3
  <2>13. ReturnedOk'
    BY <1>0, <2>1 DEF ReturnedOk
  <2> QED
    BY <2>6, <2>8, <2>9, <2>10, <2>11, <2>12, <2>13 DEF RestoreInv
<1>3. CASE MakeLinearSystem
  <2>1. i \in Blocks
    BY <1>3, VisitedExist DEF MakeLinearSystem, RecoverInv, InLoop, Repairing
  <2>2. UNCHANGED <<i, ret, symb, sent, coeffs, lost, solved>> /\ phase = "build" /\ phase' = "solve"
    BY <1>3 DEF MakeLinearSystem, input
  <2>3. SentEncoded' /\ Received' /\ NotLostRight' /\ SolvedSoFar' /\ BlocksRight'
    BY <2>2, RestoreFrame DEF Repairing
  <2>4. SystemRight'
    <3> SUFFICES ASSUME lost[i] \subseteq Sources(i) PROVE IsSolution(SentLost)'
      BY <2>2 DEF SystemRight
    <3>1. \A r \in Unk : SumOf([c \in Unk |-> Mul(A'[r][c], SentLost[c])]) = b'[r]
      BY <1>3, <2>1, SystemBuilt
    <3>2. Unk' = Unk /\ SentLost' = SentLost
      BY <2>2 DEF Unk, NbUnk, SentLost, Rank
    <3> QED
      BY <3>1, <3>2 DEF IsSolution
  <2>5. ResultRight' /\ ReturnedOk'
    BY <1>0, <2>2 DEF ResultRight, ReturnedOk
  <2> QED
    BY <2>3, <2>4, <2>5 DEF RestoreInv
<1>4. CASE MakeSystemFails \/ MakeSystemPastEnd
  <2>1. UNCHANGED <<i, ret, symb, sent, coeffs, lost, solved>> /\ phase = "build"
        /\ phase' \in {"solve", "crashed"} /\ sound' = FALSE
    BY <1>4 DEF MakeSystemFails, MakeSystemPastEnd, input
  <2>2. SentEncoded' /\ Received' /\ NotLostRight' /\ SolvedSoFar' /\ BlocksRight'
    BY <2>1, RestoreFrame DEF Repairing
  <2>3. SystemRight' /\ ResultRight' /\ ReturnedOk'
    BY <1>0, <2>1 DEF SystemRight, ResultRight, ReturnedOk
  <2> QED
    BY <2>2, <2>3 DEF RestoreInv
<1>5. CASE Eliminate
  <2>1. i \in Blocks
    BY <1>5, VisitedExist DEF Eliminate, RecoverInv, InLoop, Repairing
  <2>2. UNCHANGED <<i, ret, symb, sent, coeffs, lost>> /\ phase = "solve" /\ phase' = "fill"
        /\ solved' = solved \cup {i}
    BY <1>5 DEF Eliminate, input
  <2>3. SentEncoded' /\ Received' /\ NotLostRight'
    BY <1>0, <2>2 DEF SentEncoded, Received, NotLostRight, Repairing
  <2>4. SolvedSoFar'
    BY <1>0, <2>2 DEF SolvedSoFar, RecoverInv
  <2>5. BlocksRight'
    <3> SUFFICES ASSUME NEW k \in Blocks, k < i PROVE BlockRight(k)'
      BY <2>2 DEF BlocksRight
    <3>1. BlockRight(k) /\ k # i
      BY <1>0, <2>1 DEF BlocksRight, Blocks
    <3> QED
      BY <2>2, <3>1 DEF BlockRight, SourcesRight
  <2>6. ResultRight'
    <3> SUFFICES ASSUME lost[i] \subseteq Sources(i)
                 PROVE  \A p \in lost[i] : (b[Rank(p)])' = sent[i][p]
      BY <2>2 DEF ResultRight, Rank
    <3>1. \A p \in lost[i] : b'[Rank(p)] = sent[i][p]
      BY <1>5, <2>1, SolutionIsSent
    <3> QED
      BY <2>2, <3>1 DEF Rank
  <2>7. SystemRight' /\ ReturnedOk'
    BY <1>0, <2>2 DEF SystemRight, ReturnedOk
  <2> QED
    BY <2>3, <2>4, <2>5, <2>6, <2>7 DEF RestoreInv
<1>6. CASE EliminateWrong
  <2>1. UNCHANGED <<i, ret, symb, sent, coeffs, lost, solved>> /\ phase = "solve" /\ phase' = "fill"
    BY <1>6 DEF EliminateWrong, input
  <2>2. SentEncoded' /\ Received' /\ NotLostRight' /\ SolvedSoFar' /\ BlocksRight'
    BY <2>1, RestoreFrame DEF Repairing
  <2>3. i \notin solved
    BY <1>0, <2>1 DEF SolvedSoFar
  <2>4. SystemRight' /\ ResultRight' /\ ReturnedOk'
    BY <1>0, <2>1, <2>3 DEF SystemRight, ResultRight, ReturnedOk
  <2> QED
    BY <2>2, <2>4 DEF RestoreInv
<1>7. CASE FillLostSymbol
  <2>1. i \in Blocks /\ i \in Nat
    BY <1>7, VisitedExist DEF FillLostSymbol, RecoverInv, InLoop, Repairing
  <2>2. UNCHANGED <<ret, sent, coeffs, lost, solved>> /\ phase = "fill" /\ phase' = "loop"
        /\ i' = i + 1
    BY <1>7 DEF FillLostSymbol, input
  <2>3. \A k \in Blocks : k # i => symb'[k] = symb[k]
    BY <1>7 DEF FillLostSymbol, RecoverInv, SymbolLists
  <2>4. SentEncoded'
    BY <1>0, <2>2 DEF SentEncoded
  <2>5. Received'
    <3>1. \A k \in Blocks : k >= i' => k >= i /\ k # i
      BY <2>1, <2>2 DEF Blocks
    <3> QED
      BY <1>0, <2>2, <2>3, <3>1 DEF Received
  <2>6. SolvedSoFar'
    <3>1. \A k \in solved : k \in Nat /\ k <= i
      BY <1>0 DEF SolvedSoFar, TypeOK, Blocks
    <3>2. \A k \in solved : k <= i' /\ k # i'
      BY <2>1, <2>2, <3>1
    <3> QED
      BY <2>2, <3>2 DEF SolvedSoFar
  <2>7. BlocksRight'
    <3> SUFFICES ASSUME NEW k \in Blocks, k < i' PROVE BlockRight(k)'
      BY DEF BlocksRight
    <3>1. k < i \/ k = i
      BY <2>1, <2>2 DEF Blocks
    <3>2. CASE k < i
      <4>1. BlockRight(k) /\ k # i
        BY <1>0, <2>1, <3>2 DEF BlocksRight
      <4> QED
        BY <2>2, <2>3, <4>1 DEF BlockRight, SourcesRight
    <3>3. CASE k = i
      <4>1. \/ \A p \in Sources(i) : symb'[i][p] = sent[i][p]
            \/ lost[i] \cap Sources(i) # {} /\ i \notin solved
            \/ lost[i] \cap Sources(i) # {} /\ lost[i] \cap Repairs(i) # {}
        BY <1>7, <2>1, FilledRight
      <4> QED
        BY <2>2, <3>3, <4>1 DEF BlockRight, SourcesRight
    <3> QED
      BY <3>1, <3>2, <3>3
  <2>8. NotLostRight' /\ SystemRight' /\ ResultRight' /\ ReturnedOk'
    BY <1>0, <2>2 DEF NotLostRight, Repairing, SystemRight, ResultRight, ReturnedOk
  <2> QED
    BY <2>4, <2>5, <2>6, <2>7, <2>8 DEF RestoreInv
<1>8. CASE Finished \/ UNCHANGED vars
  <2>1. UNCHANGED <<phase, i, ret, symb, sent, coeffs, lost, A, b, sound, solved>>
    BY <1>8 DEF Finished, vars, input, system
  <2>2. Unk' = Unk /\ SentLost' = SentLost
    BY <2>1 DEF Unk, NbUnk, SentLost, Rank
  <2>3. SentEncoded' /\ Received' /\ NotLostRight' /\ SolvedSoFar'
    BY <1>0, <2>1 DEF SentEncoded, Received, NotLostRight, SolvedSoFar
  <2>4. BlocksRight'
    BY <1>0, <2>1 DEF BlocksRight, BlockRight, SourcesRight
  <2>5. SystemRight'
    BY <1>0, <2>1, <2>2 DEF SystemRight, IsSolution
  <2>6. ResultRight'
    BY <1>0, <2>1 DEF ResultRight, Rank
  <2>7. ReturnedOk'
    BY <1>0, <2>1 DEF ReturnedOk, Size
  <2> QED
    BY <2>3, <2>4, <2>5, <2>6, <2>7 DEF RestoreInv
<1> QED
  BY <1>1, <1>2, <1>3, <1>4, <1>5, <1>6, <1>7, <1>8 DEF Next

\* The strengthening behind BlocksRestored: blocks not yet repaired hold what
\* arrived, the system of a block that lost source symbols only is solved by what was
\* sent, and every block behind is as Restored says.
THEOREM RestoreInvariant == Spec => []RestoreInv
BY RestoreInit, RestoreStep, RecoverInvariant, RecoverTypes, PTL DEF Spec

\* Restored: when processBlocks returns 0, every block it looked at has its source
\* symbols back, unless its system was not solved or a redundance symbol was lost.
THEOREM BlocksRestored == Spec => []Restored
<1>1. RecoverInv /\ RestoreInv => Restored
  <2> SUFFICES ASSUME RecoverInv, RestoreInv, ret = "ok", NEW k \in Blocks, k < Size
               PROVE  BlockRight(k)
    BY DEF Restored, BlockRight
  <2>1. i >= Size /\ i \in Nat /\ Size \in Nat /\ k \in Nat
    BY SizeBounds DEF RestoreInv, ReturnedOk, RecoverInv, Blocks
  <2>2. k < i
    BY <2>1
  <2> QED
    BY <2>2 DEF RestoreInv, BlocksRight
<1>. QED BY <1>1, RecoverInvariant, RestoreInvariant, PTL

-----------------------------------------------------------------------------
(* The contract *)

\* The system of a block is one that the elimination is written for.
LEMMA SystemOfBlock ==
  ASSUME TypeOK, i \in Blocks, phase = "solve"
  PROVE  /\ NbUnk \in Nat /\ Unk = Indices(NbUnk) /\ [Unk -> Elem] = Vector(NbUnk)
         /\ sound => A \in [Indices(NbUnk) -> Vector(NbUnk)] /\ b \in Vector(NbUnk)
<1>1. Unk = Indices(NbUnk)
  BY DEF Unk, Indices
<1>2. sound => A \in [Unk -> [Unk -> Elem]] /\ b \in [Unk -> Elem]
  BY DEF TypeOK
<1>3. NbUnk \in Nat
  BY RankFacts
<1> QED
  BY <1>1, <1>2, <1>3 DEF Vector

LEMMA SolutionLeftSide ==
  ASSUME TypeOK, i \in Blocks, phase = "solve", sound, NEW y \in [Unk -> Elem]
  PROVE  IsSolution(y) <=> \A r \in Indices(NbUnk) : LeftSide(NbUnk, y)[A[r]] = b[r]
<1>1. Unk = Indices(NbUnk) /\ A \in [Indices(NbUnk) -> Vector(NbUnk)]
  BY SystemOfBlock
<1>2. ASSUME NEW r \in Unk
      PROVE  LeftSide(NbUnk, y)[A[r]] = SumOf([c \in Unk |-> Mul(A[r][c], y[c])])
  <2>1. A[r] \in Vector(NbUnk)
    BY <1>1
  <2> QED
    BY <1>1, <2>1 DEF LeftSide
<1> QED
  BY <1>1, <1>2 DEF IsSolution

\* A system that was solved without a zero factor has one solution, the result.
LEMMA SolveEliminates ==
  ASSUME TypeOK, i \in Blocks, Solve, Reduction(NbUnk).zeroed = {}
  PROVE  Eliminate
<1> DEFINE x == Reduction(NbUnk).B
<1>1. phase = "solve" /\ sound /\ b' = x /\ solved' = solved \cup {i}
  BY DEF Solve
<1>2. /\ NbUnk \in Nat /\ [Unk -> Elem] = Vector(NbUnk)
      /\ A \in [Indices(NbUnk) -> Vector(NbUnk)] /\ b \in Vector(NbUnk)
  BY <1>1, SystemOfBlock
<1>3. x = Resolved(NbUnk, A, b).B /\ Resolved(NbUnk, A, b).zeroed = {}
  BY DEF Reduction
<1>4. x \in [Unk -> Elem]
  BY <1>2, <1>3, ZeroedRowsEndZero DEF System
<1> HIDE DEF x
<1>5. ASSUME NEW y \in [Unk -> Elem] PROVE IsSolution(y) <=> y = x
  <2>1. IsSolution(y) <=> \A r \in Indices(NbUnk) : LeftSide(NbUnk, y)[A[r]] = b[r]
    BY <1>1, SolutionLeftSide
  <2>2. (\A r \in Indices(NbUnk) : LeftSide(NbUnk, y)[A[r]] = b[r]) <=> y = x
    BY <1>2, <1>3, <1>5, OneSolution
  <2> QED
    BY <2>1, <2>2
<1>6. \E y \in [Unk -> Elem] :
        /\ IsSolution(y)
        /\ \A z \in [Unk -> Elem] : IsSolution(z) => z = y
        /\ b' = y
  BY <1>1, <1>4, <1>5
<1> QED
  BY <1>1, <1>6 DEF Solve, Eliminate

\* Otherwise the result is one symbol for each unknown, and so is a system that
\* was left half reduced.
LEMMA SolveWrong ==
  ASSUME TypeOK, i \in Blocks,
         \/ Solve /\ Reduction(NbUnk).zeroed # {}
         \/ SolveStarved
         \/ SolveUnsound
  PROVE  EliminateWrong
<1>1. phase = "solve"
  BY DEF Solve, SolveStarved, SolveUnsound
<1>2. /\ NbUnk \in Nat /\ [Unk -> Elem] = Vector(NbUnk)
      /\ sound => A \in [Indices(NbUnk) -> Vector(NbUnk)] /\ b \in Vector(NbUnk)
  BY <1>1, SystemOfBlock
<1>3. CASE Solve /\ Reduction(NbUnk).zeroed # {}
  <2>1. Resolved(NbUnk, A, b).B \in Vector(NbUnk)
    BY <1>2, <1>3, ZeroedRowsEndZero DEF Solve, System
  <2> QED
    BY <1>2, <1>3, <2>1 DEF Solve, EliminateWrong, Reduction
<1>4. CASE SolveStarved
  <2>1. HalfReduced(NbUnk, A, b).B \in Vector(NbUnk)
    BY <1>2, <1>4, ZeroedRowsEndZero DEF SolveStarved, System
  <2> QED
    BY <1>2, <1>4, <2>1 DEF SolveStarved, EliminateWrong
<1>5. CASE SolveUnsound
  BY <1>5 DEF SolveUnsound, EliminateWrong
<1> QED
  BY <1>3, <1>4, <1>5

\* Every step with the code of the elimination is one that BlockRecovery allows.
LEMMA ContractStep == RecoverInv /\ TypeOK /\ [DecoderNext]_vars => [Next]_vars
<1> SUFFICES ASSUME RecoverInv, TypeOK, [DecoderNext]_vars PROVE [Next]_vars
  OBVIOUS
<1>1. CASE Solve \/ SolveStarved \/ SolveUnsound
  <2>1. i \in Blocks
    BY <1>1, VisitedExist DEF Solve, SolveStarved, SolveUnsound, RecoverInv, InLoop, Repairing
  <2> QED
    BY <1>1, <2>1, SolveEliminates, SolveWrong DEF Next
<1>2. CASE ~ (Solve \/ SolveStarved \/ SolveUnsound)
  BY <1>2 DEF DecoderNext, Next
<1> QED
  BY <1>1, <1>2

\* KeepsContract: processBlocks with the code of gf_256_gaussian_elimination is
\* an implementation of processBlocks with an elimination that returns the only
\* solution, or anything where it multiplied a row by zero or ran out of memory.
THEOREM ContractKept == DecoderSpec => KeepsContract
<1>1. RecoverInv /\ TypeOK /\ [DecoderNext]_vars => RecoverInv' /\ TypeOK'
  BY ContractStep, RecoverStep, TypesStep
<1>2. DecoderSpec => [](RecoverInv /\ TypeOK)
  BY <1>1, RecoverInit, TypesInit, PTL DEF DecoderSpec
<1> QED
  BY <1>2, ContractStep, PTL DEF DecoderSpec, KeepsContract, Spec

\* TypeOK: the types of processBlocks when the elimination is its code.
THEOREM DecoderTypes == DecoderSpec => []TypeOK
BY ContractKept, RecoverTypes, PTL DEF KeepsContract

\* Restored: with the code of the elimination, too, a block that was solved has
\* its source symbols back unless a redundance symbol was lost.
THEOREM DecoderRestores == DecoderSpec => []Restored
BY ContractKept, BlocksRestored, PTL DEF KeepsContract

\* CrashCause: whatever the elimination computes, the process ends only when
\* memory runs out or a block has more lost symbols than redundance symbols.
THEOREM DecoderCrashes == DecoderSpec => []CrashCause
BY ContractKept, CrashesCaused, PTL DEF KeepsContract

\* OnlyLostFilled: whatever the elimination computes, no symbol that was not lost
\* is overwritten.
THEOREM DecoderKeepsOthers == DecoderSpec => OnlyLostFilled
BY ContractKept, OthersUntouched, PTL DEF KeepsContract
-----------------------------------------------------------------------------
(* Blocks that were not solved *)

Repairable(k) == Cardinality(lost[k]) <= SizeRedundance

\* With memory and enough redundance symbols the system has been filled.
SystemFilled == phase = "solve" /\ ~ starved /\ Repairable(i) => sound

\* A row that was multiplied by zero has left a zero in the result.
ZeroInResult ==
  phase = "fill" /\ ~ starved /\ Repairable(i) /\ i \notin solved =>
    \E u \in Unk : b[u] = Zero

\* Every block behind that was not solved still has a symbol marked as lost.
BlocksShow ==
  ~ starved =>
    \A k \in Blocks :
      k < i /\ lost[k] # {} /\ Repairable(k) /\ k \notin solved =>
        \E p \in lost[k] : symb[k][p] = Zero

ShowInv == SystemFilled /\ ZeroInResult /\ BlocksShow

LEMMA ShowInit == Init => ShowInv
BY DEF Init, ShowInv, SystemFilled, ZeroInResult, BlocksShow, Blocks

\* What one of the eliminations leaves in a block.
LEMMA SolveShows ==
  ASSUME TypeOK, ShowInv, i \in Blocks, Solve \/ SolveStarved \/ SolveUnsound
  PROVE  ZeroInResult'
<1>1. phase = "solve" /\ UNCHANGED <<i, lost>> /\ NbUnk \in Nat
  BY SystemOfBlock DEF Solve, SolveStarved, SolveUnsound
<1>2. Unk' = Unk /\ (Repairable(i)' <=> Repairable(i))
  BY <1>1 DEF Unk, NbUnk, Repairable
<1>3. CASE Solve /\ Reduction(NbUnk).zeroed = {}
  <2>1. i' \in solved'
    BY <1>1, <1>3 DEF Solve
  <2> QED
    BY <2>1 DEF ZeroInResult
<1>4. CASE Solve /\ Reduction(NbUnk).zeroed # {}
  <2>1. /\ NbUnk \in Nat /\ Unk = Indices(NbUnk)
        /\ A \in [Indices(NbUnk) -> Vector(NbUnk)] /\ b \in Vector(NbUnk)
    BY <1>1, <1>4, SystemOfBlock DEF Solve
  <2>2. PICK u \in Reduction(NbUnk).zeroed : TRUE
    BY <1>4
  <2>3. u \in Unk /\ Reduction(NbUnk).B[u] = Zero
    BY <2>1, <2>2, ZeroedRowsEndZero DEF Reduction, System
  <2>4. u \in Unk' /\ b'[u] = Zero
    BY <1>2, <1>4, <2>3 DEF Solve
  <2> QED
    BY <2>4 DEF ZeroInResult
<1>5. CASE SolveStarved
  BY <1>5 DEF SolveStarved, ZeroInResult
<1>6. CASE SolveUnsound
  <2>1. starved \/ ~ Repairable(i)
    BY <1>1, <1>6 DEF ShowInv, SystemFilled, SolveUnsound
  <2>2. starved => starved'
    BY <1>6, Zenon DEF SolveUnsound
  <2>3. starved' \/ ~ Repairable(i)'
    BY <1>2, <2>1, <2>2
  <2> QED
    BY <2>3 DEF ZeroInResult
<1> QED
  BY <1>3, <1>4, <1>5, <1>6

\* The zero in the result goes into the block.
LEMMA FillShows ==
  ASSUME RecoverInv, TypeOK, ShowInv, i \in Blocks, FillLostSymbol,
         ~ starved, Repairable(i), i \notin solved
  PROVE  \E p \in lost[i] : symb'[i][p] = Zero
<1>1. PICK u \in Unk : b[u] = Zero
  BY DEF ShowInv, ZeroInResult, FillLostSymbol
<1>2. PICK p \in lost[i] : Rank(p) = u
  BY RankFacts
<1>3. p \in Symbols(i)
  BY DEF TypeOK
<1>4. symb'[i] = [q \in Symbols(i) |-> IF Filled(q) THEN b[Rank(q)] ELSE symb[i][q]]
  BY DEF FillLostSymbol, RecoverInv, SymbolLists
<1>5. symb'[i][p] = b[Rank(p)]
  BY <1>3, <1>4 DEF Filled
<1> QED
  BY <1>1, <1>2, <1>5

\* Steps that leave the blocks behind alone.
LEMMA BehindShows ==
  ASSUME BlocksShow, UNCHANGED <<i, symb>>, starved => starved',
         \A k \in Blocks : k < i => lost'[k] = lost[k],
         \A k \in Blocks : k < i /\ k \in solved => k \in solved'
  PROVE  BlocksShow'
<1> SUFFICES ASSUME ~ starved', NEW k \in Blocks,
                    k < i, lost'[k] # {}, Repairable(k)', k \notin solved'
             PROVE  \E p \in lost'[k] : symb'[k][p] = Zero
  BY DEF BlocksShow
<1>1. lost'[k] = lost[k] /\ k \notin solved /\ ~ starved
  OBVIOUS
<1>2. Repairable(k)
  BY <1>1 DEF Repairable
<1> QED
  BY <1>1, <1>2 DEF BlocksShow

\* One case per action.
LEMMA ShowStep == RecoverInv /\ TypeOK /\ ShowInv /\ [DecoderNext]_vars => ShowInv'
<1> SUFFICES ASSUME RecoverInv, TypeOK, ShowInv, [DecoderNext]_vars PROVE ShowInv'
  OBVIOUS
<1>0. SystemFilled /\ ZeroInResult /\ BlocksShow
  BY DEF ShowInv
<1>1. CASE GenCoefs \/ CallFails \/ LoopEnds \/ Allocate \/ AllocateFails
  <2>1. /\ UNCHANGED <<i, symb, lost, solved>> /\ (starved => starved')
        /\ phase' \notin {"solve", "fill"}
    BY <1>1 DEF GenCoefs, CallFails, LoopEnds, Allocate, AllocateFails, Return
  <2>2. BlocksShow'
    BY <1>0, <2>1, BehindShows
  <2> QED
    BY <2>1, <2>2 DEF ShowInv, SystemFilled, ZeroInResult
<1>2. CASE VerifyBlock
  <2>1. phase = "loop" /\ i < Size /\ UNCHANGED <<symb, solved, starved>>
    BY <1>2 DEF VerifyBlock
  <2>2. i \in Blocks /\ i \in Nat
    BY <2>1, VisitedExist DEF RecoverInv
  <2>3. \A k \in Blocks : lost'[k] = IF k = i THEN LostIn(i) ELSE lost[k]
    BY <1>2 DEF VerifyBlock, RecoverInv
  <2>4. /\ phase' \in {"loop", "allocate"}
        /\ i' = i \/ (i' = i + 1 /\ LostIn(i) = {})
    BY <1>2, <2>1 DEF VerifyBlock
  <2>5. BlocksShow'
    <3> SUFFICES ASSUME ~ starved', NEW k \in Blocks,
                        k < i', lost'[k] # {}, Repairable(k)', k \notin solved'
                 PROVE  \E p \in lost'[k] : symb'[k][p] = Zero
      BY DEF BlocksShow
    <3>1. k < i /\ k # i
      <4>1. k < i \/ (k = i /\ LostIn(i) = {})
        BY <2>2, <2>4 DEF Blocks
      <4>2. ~ (k = i /\ LostIn(i) = {})
        BY <2>3
      <4>3. k \in Int
        BY DEF Blocks
      <4> QED
        BY <2>2, <4>1, <4>2, <4>3
    <3>2. lost'[k] = lost[k]
      BY <2>3, <3>1
    <3>3. Repairable(k)
      BY <3>2 DEF Repairable
    <3> QED
      BY <1>0, <2>1, <3>1, <3>2, <3>3 DEF BlocksShow
  <2> QED
    BY <2>4, <2>5 DEF ShowInv, SystemFilled, ZeroInResult
<1>3. CASE MakeLinearSystem \/ MakeSystemFails \/ MakeSystemPastEnd
  <2>1. /\ UNCHANGED <<i, symb, lost, solved>> /\ (starved => starved')
        /\ phase' \in {"solve", "crashed"}
    BY <1>3 DEF MakeLinearSystem, MakeSystemFails, MakeSystemPastEnd
  <2>2. BlocksShow'
    BY <1>0, <2>1, BehindShows
  <2>3. sound' \/ starved' \/ ~ Repairable(i)
    <3>1. CASE MakeLinearSystem \/ MakeSystemFails
      BY <3>1 DEF MakeLinearSystem, MakeSystemFails
    <3>2. CASE MakeSystemPastEnd
      <4>1. i \in Blocks
        BY <3>2, VisitedExist DEF MakeSystemPastEnd, RecoverInv, InLoop, Repairing
      <4>2. NbUnk \in Nat /\ SizeRedundance \in Nat /\ NbUnk > SizeRedundance
        BY <3>2, <4>1, RankFacts, BlockAssumption DEF MakeSystemPastEnd
      <4> QED
        BY <4>2 DEF Repairable, NbUnk
    <3> QED
      BY <1>3, <3>1, <3>2
  <2>4. Repairable(i)' <=> Repairable(i)
    BY <2>1 DEF Repairable
  <2>5. SystemFilled'
    BY <2>3, <2>4 DEF SystemFilled
  <2> QED
    BY <2>1, <2>2, <2>5 DEF ShowInv, ZeroInResult
<1>4. CASE Solve \/ SolveStarved \/ SolveUnsound
  <2>1. i \in Blocks /\ i \in Nat
    BY <1>4, VisitedExist DEF Solve, SolveStarved, SolveUnsound, RecoverInv, InLoop, Repairing
  <2>2. UNCHANGED <<i, symb, lost>> /\ solved \subseteq solved' /\ phase' = "fill"
    BY <1>4 DEF Solve, SolveStarved, SolveUnsound
  <2>5. starved => starved'
    BY <1>4, Zenon DEF Solve, SolveStarved, SolveUnsound
  <2>3. ZeroInResult'
    BY <1>4, <2>1, SolveShows
  <2>4. BlocksShow'
    BY <1>0, <2>2, <2>5, BehindShows
  <2> QED
    BY <2>2, <2>3, <2>4 DEF ShowInv, SystemFilled
<1>5. CASE FillLostSymbol
  <2>1. i \in Blocks /\ i \in Nat
    BY <1>5, VisitedExist DEF FillLostSymbol, RecoverInv, InLoop, Repairing
  <2>2. UNCHANGED <<lost, solved, starved>> /\ phase' = "loop" /\ i' = i + 1
    BY <1>5 DEF FillLostSymbol
  <2>3. \A k \in Blocks : k # i => symb'[k] = symb[k]
    BY <1>5 DEF FillLostSymbol, RecoverInv, SymbolLists
  <2>4. BlocksShow'
    <3> SUFFICES ASSUME ~ starved', NEW k \in Blocks,
                        k < i', lost'[k] # {}, Repairable(k)', k \notin solved'
                 PROVE  \E p \in lost'[k] : symb'[k][p] = Zero
      BY DEF BlocksShow
    <3>1. ~ starved /\ lost'[k] = lost[k] /\ k \notin solved
      BY <2>2
    <3>2. Repairable(k)
      BY <3>1 DEF Repairable
    <3>3. k = i \/ (k < i /\ k # i)
      BY <2>1, <2>2 DEF Blocks
    <3>4. CASE k = i
      BY <1>5, <3>1, <3>2, <3>4, FillShows
    <3>5. CASE k < i /\ k # i
      BY <1>0, <2>3, <3>1, <3>2, <3>5 DEF BlocksShow
    <3> QED
      BY <3>3, <3>4, <3>5
  <2> QED
    BY <2>2, <2>4 DEF ShowInv, SystemFilled, ZeroInResult
<1>6. CASE Finished \/ UNCHANGED vars
  <2>1. UNCHANGED <<phase, i, symb, lost, b, sound, solved, starved>>
    BY <1>6 DEF Finished, vars, system
  <2>2. BlocksShow'
    BY <1>0, <2>1, BehindShows
  <2>3. Unk' = Unk /\ (Repairable(i)' <=> Repairable(i))
    BY <2>1 DEF Unk, NbUnk, Repairable
  <2>4. SystemFilled' /\ ZeroInResult'
    BY <1>0, <2>1, <2>3 DEF SystemFilled, ZeroInResult
  <2> QED
    BY <2>2, <2>4 DEF ShowInv
<1> QED
  BY <1>1, <1>2, <1>3, <1>4, <1>5, <1>6 DEF DecoderNext

\* The strengthening behind UnsolvedShown: the zero that a row multiplied by zero
\* leaves in the result, until it is in the block.
THEOREM ShowInvariant == DecoderSpec => []ShowInv
<1>1. DecoderSpec => [](RecoverInv /\ TypeOK)
  BY ContractKept, RecoverInvariant, RecoverTypes, PTL DEF KeepsContract
<1> QED
  BY <1>1, ShowInit, ShowStep, PTL DEF DecoderSpec

\* UnsolvedShows: when every call of processBlocks succeeds, a block that could
\* have been repaired and was not has a symbol left that is still marked as lost.
THEOREM UnsolvedShown == DecoderSpec => []UnsolvedShows
<1>1. RecoverInv /\ RestoreInv /\ ShowInv => UnsolvedShows
  <2> SUFFICES ASSUME RecoverInv, RestoreInv, ShowInv, ret = "ok", ~ starved,
                      NEW k \in Blocks, k < Size, lost[k] # {},
                      Cardinality(lost[k]) <= SizeRedundance, k \notin solved
               PROVE  \E p \in lost[k] : symb[k][p] = Zero
    BY DEF UnsolvedShows
  <2>1. i >= Size /\ i \in Nat /\ Size \in Nat /\ k \in Nat
    BY SizeBounds DEF RestoreInv, ReturnedOk, RecoverInv, Blocks
  <2>2. k < i
    BY <2>1
  <2> QED
    BY <2>2 DEF ShowInv, BlocksShow, Repairable
<1> QED
  BY <1>1, ContractKept, RecoverInvariant, RestoreInvariant, ShowInvariant, PTL
     DEF KeepsContract

-----------------------------------------------------------------------------
(* Blocks that must be restored *)

\* The system of a block that lost few symbols is one that is solved.
SystemGood == phase = "solve" /\ sound /\ FewLost(i) => NoZeroMet(NbUnk, A)

ResultGood == phase = "fill" /\ ~ starved /\ FewLost(i) => i \in solved

BlocksGood == ~ starved => \A k \in Blocks : k < i /\ FewLost(k) => k \in solved

FewInv == SystemGood /\ ResultGood /\ BlocksGood

LEMMA FewInit == Init => FewInv
BY DEF Init, FewInv, SystemGood, ResultGood, BlocksGood, Blocks

LEMMA CardinalityOfPair ==
  ASSUME NEW p \in Nat, NEW q \in Nat, p < q
  PROVE  Cardinality({p, q}) = 2
<1>1. q \notin {p}
  OBVIOUS
<1>2. Cardinality({p} \cup {q}) = Cardinality({p}) + 1
  BY <1>1, FS_Singleton, FS_AddElement
<1>3. Cardinality({p}) = 1
  BY FS_Singleton
<1>4. {p} \cup {q} = {p, q}
  OBVIOUS
<1> QED
  BY <1>2, <1>3, <1>4

\* They are source symbols, and there are enough equations for them.
LEMMA FewFacts ==
  ASSUME TypeOK, NEW k \in Blocks, FewLost(k)
  PROVE  lost[k] \subseteq Sources(k) /\ Repairable(k)
<1>1. SizeRedundance \in Nat
  BY BlockAssumption
<1>2. ASSUME NEW p \in Sources(k), lost[k] = {p}, SizeRedundance >= 1
      PROVE  lost[k] \subseteq Sources(k) /\ Repairable(k)
  <2>1. Cardinality(lost[k]) = 1
    BY <1>2, FS_Singleton
  <2> QED
    BY <1>2, <2>1 DEF Repairable
<1>3. ASSUME NEW p \in Sources(k), NEW q \in Sources(k),
             p < q, lost[k] = {p, q}, SizeRedundance >= 2
      PROVE  lost[k] \subseteq Sources(k) /\ Repairable(k)
  <2>1. Cardinality(lost[k]) = 2
    BY <1>3, CardinalityOfPair, SymbolSets DEF Symbols
  <2> QED
    BY <1>3, <2>1 DEF Repairable
<1> QED
  BY <1>2, <1>3 DEF FewLost

\* The coefficients of the lost symbols are where NoZeroMet looks for them.
LEMMA FewMatrix ==
  ASSUME TypeOK, i \in Blocks, MakeLinearSystem, FewLost(i)
  PROVE  NoZeroMet(NbUnk, A')
<1>1. lost[i] \subseteq Sources(i) /\ lost[i] \cap Sources(i) = lost[i]
  BY FewFacts
<1>2. \A r \in Unk : \A c \in Unk : A'[r][c] = CoefficientOf(r, c)
  BY <1>1, MatrixFilled
<1>3. ASSUME NEW p \in lost[i], NEW r
      PROVE  CoefficientOf(r, Rank(p)) = coeffs[r][p]
  <2>1. \A t \in lost[i] : Rank(t) = Rank(p) => t = p
    BY RankFacts
  <2>2. (CHOOSE t \in lost[i] : Rank(t) = Rank(p)) = p
    BY <2>1
  <2> QED
    BY <1>1, <2>2 DEF CoefficientOf
<1>4. Sources(i) \subseteq Nat
  BY SymbolSets DEF Symbols
<1>5. ASSUME NEW p \in Sources(i), lost[i] = {p}, coeffs[0][p] # Zero
      PROVE  NoZeroMet(NbUnk, A')
  <2>1. NbUnk = 1
    BY <1>5, FS_Singleton DEF NbUnk
  <2>2. Unk = {0}
    BY <2>1 DEF Unk
  <2>3. p \in lost[i] /\ Rank(p) = 0
    BY <1>5, <2>2, RankFacts
  <2>4. A'[0][0] = coeffs[0][p]
    BY <1>2, <1>3, <2>2, <2>3
  <2> QED
    BY <1>5, <2>1, <2>4 DEF NoZeroMet
<1>6. ASSUME NEW p \in Sources(i), NEW q \in Sources(i), p < q, lost[i] = {p, q},
             coeffs[0][p] # Zero, coeffs[1][p] # Zero,
             Mul(coeffs[0][p], coeffs[1][q]) # Mul(coeffs[0][q], coeffs[1][p])
      PROVE  NoZeroMet(NbUnk, A')
  <2>1. NbUnk = 2
    BY <1>4, <1>6, CardinalityOfPair DEF NbUnk
  <2>2. Unk = {0, 1}
    BY <2>1 DEF Unk
  <2>3. p \in lost[i] /\ q \in lost[i] /\ p \in Nat /\ q \in Nat
    BY <1>4, <1>6
  <2>4. Rank(p) = 0
    <3>1. {t \in lost[i] : t < p} = {}
      BY <1>6, <2>3
    <3> QED
      BY <3>1, FS_EmptySet DEF Rank
  <2>5. Rank(q) = 1
    <3>1. {t \in lost[i] : t < q} = {p}
      BY <1>6, <2>3
    <3> QED
      BY <3>1, FS_Singleton DEF Rank
  <2>6. /\ A'[0][0] = coeffs[0][p] /\ A'[0][1] = coeffs[0][q]
        /\ A'[1][0] = coeffs[1][p] /\ A'[1][1] = coeffs[1][q]
    <3>1. /\ CoefficientOf(0, 0) = coeffs[0][p] /\ CoefficientOf(1, 0) = coeffs[1][p]
          /\ CoefficientOf(0, 1) = coeffs[0][q] /\ CoefficientOf(1, 1) = coeffs[1][q]
      BY <1>3, <2>3, <2>4, <2>5
    <3> QED
      BY <1>2, <2>2, <3>1
  <2> QED
    BY <1>6, <2>1, <2>6 DEF NoZeroMet
<1> QED
  BY <1>5, <1>6 DEF FewLost

\* It is solved.
LEMMA FewSolved ==
  ASSUME TypeOK, ShowInv, FewInv, i \in Blocks, Solve \/ SolveStarved \/ SolveUnsound
  PROVE  ResultGood'
<1> SUFFICES ASSUME ~ starved', FewLost(i)' PROVE i' \in solved'
  BY DEF ResultGood
<1>1. phase = "solve" /\ UNCHANGED <<i, lost, coeffs>>
  BY DEF Solve, SolveStarved, SolveUnsound, input
<1>2. FewLost(i)
  BY <1>1 DEF FewLost
<1>3. Repairable(i)
  BY <1>2, FewFacts
<1>4. CASE Solve
  <2>1. sound /\ solved' = IF Reduction(NbUnk).zeroed = {} THEN solved \cup {i} ELSE solved
    BY <1>4 DEF Solve
  <2>2. NoZeroMet(NbUnk, A)
    BY <1>1, <1>2, <2>1 DEF FewInv, SystemGood
  <2>3. /\ NbUnk \in Nat /\ A \in [Indices(NbUnk) -> Vector(NbUnk)] /\ b \in Vector(NbUnk)
    BY <1>1, <2>1, SystemOfBlock
  <2>4. Reduction(NbUnk).zeroed = {}
    BY <2>2, <2>3, SmallSystemsSolved DEF Reduction
  <2> QED
    BY <1>1, <2>1, <2>4
<1>5. CASE SolveStarved
  BY <1>5 DEF SolveStarved
<1>6. CASE SolveUnsound
  <2>1. ~ sound
    BY <1>6 DEF SolveUnsound
  <2>2. starved
    BY <1>1, <1>3, <2>1 DEF ShowInv, SystemFilled
  <2>3. starved => starved'
    BY <1>6, Zenon DEF SolveUnsound
  <2> QED
    BY <2>2, <2>3
<1> QED
  BY <1>4, <1>5, <1>6

\* Steps that leave the blocks behind alone.
LEMMA BehindGood ==
  ASSUME BlocksGood, UNCHANGED <<i, coeffs>>, starved => starved',
         \A k \in Blocks : k < i => lost'[k] = lost[k],
         \A k \in Blocks : k < i /\ k \in solved => k \in solved'
  PROVE  BlocksGood'
<1> SUFFICES ASSUME ~ starved', NEW k \in Blocks, k < i, FewLost(k)' PROVE k \in solved'
  BY DEF BlocksGood
<1>1. lost'[k] = lost[k] /\ ~ starved
  OBVIOUS
<1>2. FewLost(k)
  BY <1>1 DEF FewLost
<1> QED
  BY <1>1, <1>2 DEF BlocksGood

\* One case per action.
LEMMA FewStep == RecoverInv /\ TypeOK /\ ShowInv /\ FewInv /\ [DecoderNext]_vars => FewInv'
<1> SUFFICES ASSUME RecoverInv, TypeOK, ShowInv, FewInv, [DecoderNext]_vars PROVE FewInv'
  OBVIOUS
<1>0. SystemGood /\ ResultGood /\ BlocksGood
  BY DEF FewInv
<1>1. CASE GenCoefs \/ CallFails \/ LoopEnds \/ Allocate \/ AllocateFails
  <2>1. /\ UNCHANGED <<i, coeffs, lost, solved>> /\ (starved => starved')
        /\ phase' \notin {"solve", "fill"}
    BY <1>1 DEF GenCoefs, CallFails, LoopEnds, Allocate, AllocateFails, Return, input
  <2>2. BlocksGood'
    BY <1>0, <2>1, BehindGood
  <2> QED
    BY <2>1, <2>2 DEF FewInv, SystemGood, ResultGood
<1>2. CASE VerifyBlock
  <2>1. phase = "loop" /\ i < Size /\ UNCHANGED <<coeffs, solved, starved>>
    BY <1>2 DEF VerifyBlock, input
  <2>2. i \in Blocks /\ i \in Nat
    BY <2>1, VisitedExist DEF RecoverInv
  <2>3. \A k \in Blocks : lost'[k] = IF k = i THEN LostIn(i) ELSE lost[k]
    BY <1>2 DEF VerifyBlock, RecoverInv
  <2>4. /\ phase' \in {"loop", "allocate"}
        /\ i' = i \/ (i' = i + 1 /\ LostIn(i) = {})
    BY <1>2, <2>1 DEF VerifyBlock
  <2>5. BlocksGood'
    <3> SUFFICES ASSUME ~ starved', NEW k \in Blocks, k < i', FewLost(k)' PROVE k \in solved
      BY <2>1 DEF BlocksGood
    <3>1. lost'[k] # {}
      BY DEF FewLost
    <3>2. k < i /\ k # i
      <4>1. k < i \/ (k = i /\ LostIn(i) = {})
        BY <2>2, <2>4 DEF Blocks
      <4>2. ~ (k = i /\ LostIn(i) = {})
        BY <2>3, <3>1
      <4>3. k \in Int
        BY DEF Blocks
      <4> QED
        BY <2>2, <4>1, <4>2, <4>3
    <3>3. lost'[k] = lost[k] /\ ~ starved
      BY <2>1, <2>3, <3>2
    <3>4. FewLost(k)
      BY <2>1, <3>3 DEF FewLost
    <3> QED
      BY <1>0, <3>2, <3>3, <3>4 DEF BlocksGood
  <2> QED
    BY <2>4, <2>5 DEF FewInv, SystemGood, ResultGood
<1>3. CASE MakeLinearSystem \/ MakeSystemFails \/ MakeSystemPastEnd
  <2>1. /\ UNCHANGED <<i, coeffs, lost, solved>> /\ (starved => starved')
        /\ phase' \in {"solve", "crashed"}
    BY <1>3 DEF MakeLinearSystem, MakeSystemFails, MakeSystemPastEnd, input
  <2>2. BlocksGood'
    BY <1>0, <2>1, BehindGood
  <2>3. i \in Blocks
    BY <1>3, VisitedExist DEF MakeLinearSystem, MakeSystemFails, MakeSystemPastEnd, RecoverInv,
       InLoop, Repairing
  <2>4. SystemGood'
    <3>1. CASE MakeLinearSystem
      <4> SUFFICES ASSUME FewLost(i)' PROVE NoZeroMet(NbUnk, A)'
        BY DEF SystemGood
      <4>1. FewLost(i)
        BY <2>1 DEF FewLost
      <4>2. NoZeroMet(NbUnk, A') /\ NbUnk' = NbUnk
        BY <2>1, <2>3, <3>1, <4>1, FewMatrix DEF NbUnk
      <4> QED
        BY <4>2 DEF NoZeroMet
    <3>2. CASE MakeSystemFails \/ MakeSystemPastEnd
      BY <3>2 DEF MakeSystemFails, MakeSystemPastEnd, SystemGood
    <3> QED
      BY <1>3, <3>1, <3>2
  <2> QED
    BY <2>1, <2>2, <2>4 DEF FewInv, ResultGood
<1>4. CASE Solve \/ SolveStarved \/ SolveUnsound
  <2>1. i \in Blocks
    BY <1>4, VisitedExist DEF Solve, SolveStarved, SolveUnsound, RecoverInv, InLoop, Repairing
  <2>2. UNCHANGED <<i, coeffs, lost>> /\ solved \subseteq solved' /\ phase' = "fill"
    BY <1>4 DEF Solve, SolveStarved, SolveUnsound, input
  <2>3. starved => starved'
    BY <1>4, Zenon DEF Solve, SolveStarved, SolveUnsound
  <2>4. ResultGood'
    BY <1>4, <2>1, FewSolved
  <2>5. BlocksGood'
    BY <1>0, <2>2, <2>3, BehindGood
  <2> QED
    BY <2>2, <2>4, <2>5 DEF FewInv, SystemGood
<1>5. CASE FillLostSymbol
  <2>1. i \in Blocks /\ i \in Nat
    BY <1>5, VisitedExist DEF FillLostSymbol, RecoverInv, InLoop, Repairing
  <2>2. /\ UNCHANGED <<coeffs, lost, solved, starved>>
        /\ phase = "fill" /\ phase' = "loop" /\ i' = i + 1
    BY <1>5 DEF FillLostSymbol, input
  <2>3. BlocksGood'
    <3> SUFFICES ASSUME ~ starved, NEW k \in Blocks, k < i + 1, FewLost(k)' PROVE k \in solved
      BY <2>2 DEF BlocksGood
    <3>1. FewLost(k)
      BY <2>2 DEF FewLost
    <3>2. k = i \/ k < i
      BY <2>1 DEF Blocks
    <3> QED
      BY <1>0, <2>2, <3>1, <3>2 DEF BlocksGood, ResultGood
  <2> QED
    BY <2>2, <2>3 DEF FewInv, SystemGood, ResultGood
<1>6. CASE Finished \/ UNCHANGED vars
  <2>1. UNCHANGED <<phase, i, coeffs, lost, A, sound, solved, starved>>
    BY <1>6 DEF Finished, vars, input, system
  <2>2. BlocksGood'
    BY <1>0, <2>1, BehindGood
  <2>3. (FewLost(i)' <=> FewLost(i)) /\ NbUnk' = NbUnk
    BY <2>1 DEF FewLost, NbUnk
  <2>4. NoZeroMet(NbUnk, A)' <=> NoZeroMet(NbUnk, A)
    BY <2>1, <2>3 DEF NoZeroMet
  <2>5. SystemGood' /\ ResultGood'
    BY <1>0, <2>1, <2>3, <2>4 DEF SystemGood, ResultGood
  <2> QED
    BY <2>2, <2>5 DEF FewInv
<1> QED
  BY <1>1, <1>2, <1>3, <1>4, <1>5, <1>6 DEF DecoderNext

\* The strengthening behind FewRestored: the elimination meets no zero in the system
\* of a block that FewLost describes, so that block is counted as solved.
THEOREM FewInvariant == DecoderSpec => []FewInv
<1>1. DecoderSpec => [](RecoverInv /\ TypeOK)
  BY ContractKept, RecoverInvariant, RecoverTypes, PTL DEF KeepsContract
<1> QED
  BY <1>1, ShowInvariant, FewInit, FewStep, PTL DEF DecoderSpec

\* FewLossesRestored: when every call of processBlocks succeeds, a block that lost
\* one source symbol or two has them back, unless the elimination meets a zero
\* in their coefficients.
THEOREM FewRestored == DecoderSpec => []FewLossesRestored
<1>1. RecoverInv /\ TypeOK /\ RestoreInv /\ FewInv => FewLossesRestored
  <2> SUFFICES ASSUME RecoverInv, TypeOK, RestoreInv, FewInv, ret = "ok", ~ starved,
                      NEW k \in Blocks, k < Size, FewLost(k)
               PROVE  SourcesRight(k)
    BY DEF FewLossesRestored
  <2>1. i >= Size /\ i \in Nat /\ Size \in Nat /\ k \in Nat
    BY SizeBounds DEF RestoreInv, ReturnedOk, RecoverInv, Blocks
  <2>2. k < i
    BY <2>1
  <2>3. k \in solved
    BY <2>2 DEF FewInv, BlocksGood
  <2>4. lost[k] \cap Repairs(k) = {}
    <3>1. lost[k] \subseteq Sources(k)
      BY FewFacts
    <3>2. Sources(k) \cap Repairs(k) = {}
      BY SymbolSets DEF Sources, Repairs
    <3> QED
      BY <3>1, <3>2
  <2> QED
    BY <2>2, <2>3, <2>4 DEF RestoreInv, BlocksRight, BlockRight
<1> QED
  BY <1>1, ContractKept, RecoverInvariant, RecoverTypes, RestoreInvariant, FewInvariant, PTL
     DEF KeepsContract
=============================================================================
