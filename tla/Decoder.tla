------------------------------ MODULE Decoder -------------------------------
(***************************************************************************)
(* processBlocks together with the elimination it calls.  BlockRecovery    *)
(* has the elimination return the only solution or anything; here the code *)
(* of gf_256_gaussian_elimination computes what is put into the block.     *)
(***************************************************************************)
EXTENDS BlockRecovery, Elimination

\* The elimination returns the system from the middle, as if malloc had failed.
ForwardOnly(n) == HalfReduced(n, A, b)

Reduction(n) == Resolved(n, A, b)

\* A block counts as solved if no row was multiplied by zero.
Solve ==
  /\ phase = "solve"
  /\ sound
  /\ b' = Reduction(NbUnk).B
  /\ solved' = IF Reduction(NbUnk).zeroed = {} THEN solved \cup {i} ELSE solved
  /\ phase' = "fill"
  /\ A' = <<>>
  /\ UNCHANGED <<i, ret, symb, input, lost, sound, starved>>

\* No memory for temp: -1 is returned with the right sides half reduced, and
\* the test "< 0" lets them go into the block.
SolveStarved ==
  /\ phase = "solve"
  /\ sound
  /\ b' = HalfReduced(NbUnk, A, b).B
  /\ starved' = TRUE
  /\ phase' = "fill"
  /\ A' = <<>>
  /\ UNCHANGED <<i, ret, symb, input, lost, sound, solved>>

\* The system was not filled, or was filled from behind the arrays: whatever
\* the elimination makes of it.
SolveUnsound ==
  /\ phase = "solve"
  /\ ~ sound
  /\ b' \in [Unk -> Elem]
  /\ starved' \in {starved, TRUE}
  /\ phase' = "fill"
  /\ A' = <<>>
  /\ UNCHANGED <<i, ret, symb, input, lost, sound, solved>>

DecoderNext ==
  \/ GenCoefs \/ CallFails \/ VerifyBlock \/ LoopEnds
  \/ Allocate \/ AllocateFails
  \/ MakeLinearSystem \/ MakeSystemFails \/ MakeSystemPastEnd
  \/ Solve \/ SolveStarved \/ SolveUnsound \/ FillLostSymbol
  \/ Finished

DecoderSpec == Init /\ [][DecoderNext]_vars

-----------------------------------------------------------------------------

\* The code of the elimination does what BlockRecovery expects of it: a block
\* that it solved without multiplying a row by zero got the only solution of
\* its system, however the rows, the garbage in them and the zeros lie.
KeepsContract == Spec

\* When every call succeeds, a block with a lost symbol that was not solved has
\* a symbol left that is still marked as lost: the elimination never passes off
\* a system that it could not solve as a complete block.
UnsolvedShows ==
  ret = "ok" /\ ~ starved =>
    \A k \in Blocks :
      (k < Size /\ lost[k] # {} /\ Cardinality(lost[k]) <= SizeRedundance /\ k \notin solved)
        => \E p \in lost[k] : symb[k][p] = Zero

\* A block lost one source symbol or two, and the elimination meets no zero: in
\* the coefficients of the first lost symbol, or as the determinant.
FewLost(k) ==
  \/ \E p \in Sources(k) :
       /\ lost[k] = {p} /\ SizeRedundance >= 1
       /\ coeffs[0][p] # Zero
  \/ \E p, q \in Sources(k) :
       /\ p < q /\ lost[k] = {p, q} /\ SizeRedundance >= 2
       /\ coeffs[0][p] # Zero /\ coeffs[1][p] # Zero
       /\ Mul(coeffs[0][p], coeffs[1][q]) # Mul(coeffs[0][q], coeffs[1][p])

\* When every call succeeds, such a block has its source symbols back. Without a
\* zero no other condition is left: the size of the block, the coefficients of the
\* symbols that arrived and the memory the system was built in do not matter.
FewLossesRestored ==
  ret = "ok" /\ ~ starved =>
    \A k \in Blocks : k < Size /\ FewLost(k) => SourcesRight(k)
=============================================================================
