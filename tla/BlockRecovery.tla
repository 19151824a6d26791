--------------------------- MODULE BlockRecovery ----------------------------
(***************************************************************************)
(* processBlocks of block.c: it looks for lost symbols block by block,     *)
(* builds a linear system from the redundance symbols, has it solved by    *)
(* gf_256_gaussian_elimination and puts the result in the place of the     *)
(* lost symbols.  The elimination is used through what Gaussian shows of   *)
(* it: it returns the solution if it multiplied no row by zero, and        *)
(* otherwise anything.                                                     *)
(***************************************************************************)
EXTENDS Integers, FiniteSets, ByteField

CONSTANTS
  NumberBlocks,          \* the length of list_block
  CountModulus,          \* processBlocks takes that length modulo 2^8
  FirstSize, LastSize,   \* size_block of all blocks but the last, and of the last
  SizeRedundance,        \* size_redundance
  Coefficients,          \* the matrices gen_coefs may generate
  Losses,                \* the sets of symbols that a block may have lost
  Garbage,               \* the bytes that memory from malloc may hold
  Messages               \* the source symbols of the blocks before encoding

Blocks       == 0 .. NumberBlocks - 1
SizeBlock(k) == IF k = NumberBlocks - 1 THEN LastSize ELSE FirstSize
Sources(k)   == 0 .. SizeBlock(k) - 1
Repairs(k)   == SizeBlock(k) .. SizeBlock(k) + SizeRedundance - 1
Symbols(k)   == Sources(k) \cup Repairs(k)
Redundance   == 0 .. SizeRedundance - 1

ASSUME BlockAssumption ==
  /\ NumberBlocks \in Nat \ {0} /\ CountModulus \in Nat \ {0}
  /\ FirstSize \in Nat \ {0} /\ LastSize \in Nat /\ LastSize <= FirstSize
  /\ SizeRedundance \in Nat
  /\ Coefficients \subseteq [Redundance -> [Sources(0) -> Elem]]
  /\ Garbage \subseteq Elem
  /\ \A m \in Messages : \A k \in Blocks : m[k] \in [Sources(k) -> Elem]

VARIABLES
  phase,    \* the part of processBlocks being executed
  i,        \* its loop variable, the block being repaired
  ret,      \* what it returned
  symb,     \* symb_list of every block
  sent,     \* the symbols as they were sent
  coeffs,   \* coeffs
  lost,     \* the symbols verifyBlock found lost in every block
  A, b,     \* the linear system of block i, then b is its result
  sound,    \* makeLinearSystem has filled A and b as far as it goes
  solved,   \* the blocks whose system was solved without a zero factor
  starved   \* some malloc failed

input  == <<sent, coeffs>>
system == <<A, b, sound>>
vars == <<phase, i, ret, symb, input, lost, system, solved, starved>>

\* A source symbol is sent as it is, a redundance symbol is a combination.
Encoded(m, c, k) ==
  [p \in Symbols(k) |->
     IF p \in Sources(k) THEN m[k][p]
     ELSE SumOf([s \in Sources(k) |-> Mul(m[k][s], c[p - SizeBlock(k)][s])])]

\* Symbols of any kind may arrive lost, which is to say all zero.
Init ==
  /\ phase = "start" /\ i = 0 /\ ret = "none"
  /\ coeffs \in Coefficients
  /\ \E m \in Messages : sent = [k \in Blocks |-> Encoded(m, coeffs, k)]
  /\ \E missing \in [Blocks -> Losses] :
       /\ \A k \in Blocks : missing[k] \subseteq Symbols(k)
       /\ symb = [k \in Blocks |-> [p \in Symbols(k) |->
                    IF p \in missing[k] THEN Zero ELSE sent[k][p]]]
  /\ lost = [k \in Blocks |-> {}]
  /\ A = <<>> /\ b = <<>> /\ sound = TRUE
  /\ solved = {} /\ starved = FALSE

-----------------------------------------------------------------------------

\* The parameter size is a uint8_t.
Size == NumberBlocks % CountModulus

\* nb_unk, and the index of a lost symbol in the unknowns and in the result.
NbUnkNotReset == Cardinality(lost[i]) + 1
NbUnk         == Cardinality(lost[i])
Unk     == 0 .. NbUnk - 1
Rank(p) == Cardinality({q \in lost[i] : q < p})

Return(value) == phase' = "returned" /\ ret' = value

GenCoefs ==
  /\ phase = "start"
  /\ phase' = "loop"
  /\ UNCHANGED <<i, ret, symb, input, lost, system, solved, starved>>

\* gen_coefs or verifyBlock returns NULL.
CallFails ==
  /\ phase = "start" \/ (phase = "loop" /\ i < Size)
  /\ Return("error")
  /\ starved' = TRUE
  /\ UNCHANGED <<i, symb, input, lost, system, solved>>

\* verifySymbolLost: a symbol that was sent as zero counts as lost.
LostIn(k) == {p \in Symbols(k) : symb[k][p] = Zero}

VerifyBlock ==
  /\ phase = "loop"
  /\ i < Size
  /\ lost' = [lost EXCEPT ![i] = LostIn(i)]
  /\ IF LostIn(i) = {} THEN i' = i + 1 /\ UNCHANGED phase
     ELSE phase' = "allocate" /\ UNCHANGED i
  /\ UNCHANGED <<ret, symb, input, system, solved, starved>>

LoopEnds ==
  /\ phase = "loop"
  /\ i >= Size
  /\ Return("ok")
  /\ UNCHANGED <<i, symb, input, lost, system, solved, starved>>

Allocate ==
  /\ phase = "allocate"
  /\ phase' = "build"
  /\ UNCHANGED <<i, ret, symb, input, lost, system, solved, starved>>

\* Without A the function returns; without b it frees the rows of A first,
\* which were never set.
AllocateFails ==
  /\ phase = "allocate"
  /\ Return("error") \/ (phase' = "crashed" /\ UNCHANGED ret)
  /\ starved' = TRUE
  /\ UNCHANGED <<i, symb, input, lost, system, solved>>

\* The columns of row r that makeLinearSystem fills; the others keep what
\* malloc returned.
Known == {Rank(p) : p \in lost[i] \cap Sources(i)}
CoefficientByColumn(r, c) == coeffs[r][c]
CoefficientOf(r, c) ==
  LET p == CHOOSE q \in lost[i] \cap Sources(i) : Rank(q) = c IN coeffs[r][p]

RightSideSummed(r) ==
  symb[i][SizeBlock(i) + r] +
    SumOf([s \in Sources(i) \ lost[i] |-> Mul(symb[i][s], coeffs[r][s])])

RightSideOfLost(r) ==
  Add(symb[i][SizeBlock(i) + r],
      SumOf([s \in lost[i] \cap Sources(i) |-> Mul(symb[i][s], coeffs[r][s])]))

RightSide(r) ==
  Add(symb[i][SizeBlock(i) + r],
      SumOf([s \in Sources(i) \ lost[i] |-> Mul(symb[i][s], coeffs[r][s])]))

MakeLinearSystem ==
  /\ phase = "build"
  /\ NbUnk <= SizeRedundance
  /\ \E rest \in [Unk -> [Unk \ Known -> Garbage]] :
       A' = [r \in Unk |-> [c \in Unk |->
               IF c \in Known THEN CoefficientOf(r, c) ELSE rest[r][c]]]
  /\ b' = [r \in Unk |-> RightSide(r)]
  /\ sound' = TRUE
  /\ phase' = "solve"
  /\ UNCHANGED <<i, ret, symb, input, lost, solved, starved>>

\* A malloc of makeLinearSystem fails.  It returns -1, which is not < 0, so the
\* elimination runs on what there is, unless a row is NULL.
MakeSystemFails ==
  /\ phase = "build"
  /\ phase' \in {"solve", "crashed"}
  /\ sound' = FALSE
  /\ starved' = TRUE
  /\ UNCHANGED <<i, ret, symb, input, lost, A, b, solved>>

\* There are fewer redundance symbols than unknowns: coeffs and symb_list are
\* read past their ends.
MakeSystemPastEnd ==
  /\ phase = "build"
  /\ NbUnk > SizeRedundance
  /\ phase' \in {"solve", "crashed"}
  /\ sound' = FALSE
  /\ UNCHANGED <<i, ret, symb, input, lost, A, b, solved, starved>>

IsSolution(y) ==
  \A r \in Unk : SumOf([c \in Unk |-> Mul(A[r][c], y[c])]) = b[r]

\* The elimination works in place and nothing looks at A afterwards.
Eliminate ==
  /\ phase = "solve"
  /\ sound
  /\ \E y \in [Unk -> Elem] :
       /\ IsSolution(y)
       /\ \A z \in [Unk -> Elem] : IsSolution(z) => z = y
       /\ b' = y
  /\ solved' = solved \cup {i}
  /\ phase' = "fill"
  /\ A' = <<>>
  /\ UNCHANGED <<i, ret, symb, input, lost, sound, starved>>

\* The elimination met a zero, worked on a system that makes no sense, or
\* returned -1 half-way, which is not < 0.
EliminateWrong ==
  /\ phase = "solve"
  /\ b' \in [Unk -> Elem]
  /\ starved' \in {starved, TRUE}
  /\ phase' = "fill"
  /\ A' = <<>>
  /\ UNCHANGED <<i, ret, symb, input, lost, sound, solved>>

FilledFromFront(p) == p < NbUnk
Filled(p)          == p \in lost[i]

\* What is not put into the block is freed.
FillLostSymbol ==
  /\ phase = "fill"
  /\ symb' = [symb EXCEPT ![i] =
       [p \in Symbols(i) |-> IF Filled(p) THEN b[Rank(p)] ELSE symb[i][p]]]
  /\ i' = i + 1
  /\ phase' = "loop"
  /\ b' = <<>>
  /\ UNCHANGED <<ret, input, lost, A, sound, solved, starved>>

Finished == phase \in {"returned", "crashed"} /\ UNCHANGED vars

Next ==
  \/ GenCoefs \/ CallFails \/ VerifyBlock \/ LoopEnds
  \/ Allocate \/ AllocateFails
  \/ MakeLinearSystem \/ MakeSystemFails \/ MakeSystemPastEnd
  \/ Eliminate \/ EliminateWrong \/ FillLostSymbol
  \/ Finished

Spec == Init /\ [][Next]_vars

-----------------------------------------------------------------------------

\* Types of the variables.
TypeOK ==
  /\ phase \in {"start", "loop", "allocate", "build", "solve", "fill",
                "returned", "crashed"}
  /\ i \in 0 .. Size
  /\ ret \in {"none", "ok", "error"}
  /\ \A k \in Blocks : symb[k] \in [Symbols(k) -> Elem]
  /\ \A k \in Blocks : sent[k] \in [Symbols(k) -> Elem]
  /\ coeffs \in Coefficients
  /\ \A k \in Blocks : lost[k] \subseteq Symbols(k)
  /\ phase = "solve" /\ sound =>
       A \in [Unk -> [Unk -> Elem]] /\ b \in [Unk -> Elem]
  /\ phase = "fill" => b \in [Unk -> Elem]
  /\ solved \subseteq Blocks
  /\ sound \in BOOLEAN /\ starved \in BOOLEAN

SourcesRight(k) == \A p \in Sources(k) : symb[k][p] = sent[k][p]

\* When processBlocks returns 0, a block it looked at holds the source symbols
\* as they were sent if none was lost, or if its system was solved and no
\* redundance symbol of it was lost.  Symbols that were sent as zero are taken
\* for lost and come out as zero again.
Restored ==
  ret = "ok" =>
    \A k \in Blocks : k < Size =>
      \/ SourcesRight(k)
      \/ lost[k] \cap Sources(k) # {} /\ k \notin solved
      \/ lost[k] \cap Sources(k) # {} /\ lost[k] \cap Repairs(k) # {}

\* No step overwrites a symbol that is not lost, whatever fails and however
\* wrong the result of the elimination is.
OnlyLostFilled ==
  [][\A k \in Blocks : \A p \in Symbols(k) :
       symb[k][p] # Zero => symb'[k][p] = symb[k][p]]_vars

\* The process can only be ended by processBlocks when memory runs out or when
\* a block has more lost symbols than redundance symbols.
CrashCause ==
  phase = "crashed" =>
    starved \/ \E k \in Blocks : Cardinality(lost[k]) > SizeRedundance

-----------------------------------------------------------------------------

\* block.h:59 says of processBlocks "For each block of list_block, recover the
\* lost symbols in the block", and block.h:62 of size "Size of the list".
AllBlocksVisited == ret = "ok" => i = NumberBlocks

\* block.h:34 says of makeLinearSystem "Create the linear system to determine
\* the value of lost symbols in block": once that system is solved the source
\* symbols are those that were sent.
SystemDetermines ==
  ret = "ok" => \A k \in solved : SourcesRight(k)
=============================================================================
