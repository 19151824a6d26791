--------------------------- MODULE MessageLayout ----------------------------
(***************************************************************************)
(* The way of one file through message.c: openFile reads the header and    *)
(* works out the blocks, makeBlockList cuts what follows into symbols and  *)
(* writeToFile puts the source symbols together again.  A byte is the      *)
(* position it has in the file after the header, so what is written can be *)
(* compared with the message; nothing is lost and nothing is recovered in  *)
(* between.                                                                *)
(***************************************************************************)
EXTENDS Integers, Sequences

CONSTANTS
  Modulus,               \* a uint32_t holds 0 .. Modulus - 1: 2^32
  BlockSizes,            \* the values of block_size, symbol_size,
  SymbolSizes,           \*   redundance_size and message_size that the headers
  RedundanceSizes,       \*   of the files may hold
  MessageSizes,
  Missing                \* how many bytes the files may lack at their end

UInt == 0 .. Modulus - 1

ASSUME LayoutAssumption ==
  /\ Modulus \in Nat \ {0}
  /\ BlockSizes \subseteq UInt /\ SymbolSizes \subseteq UInt    \* 0 as well:
  /\ RedundanceSizes \subseteq UInt                           \*   nothing is tested
  /\ MessageSizes \subseteq Nat    \* far below 2^64, the limit of a uint64_t
  /\ Missing \subseteq Nat

VARIABLES
  phase,                                     \* the function being executed
  block_size, symbol_size, redundance_size,  \* the header
  message_size,
  available, \* the bytes that follow the header, st_size - 24
  blocks,    \* the symbols copied so far, by their offset, for every block
  offset,    \* the offset of makeBlockList
  i, j,      \* the loop variables of makeBlockList and writeToFile
  written    \* the bytes written after the header of the record

header == <<block_size, symbol_size, redundance_size, message_size, available>>
vars   == <<phase, header, blocks, offset, i, j, written>>

-----------------------------------------------------------------------------
(* The file.  It is made by another program, from the format that openFile *)
(* and the files of binary_example share: block after block, the source    *)
(* symbols and then the redundance symbols, the last source symbol filled  *)
(* up with zeros.                                                          *)

CeilDiv(a, d)   == (a + d - 1) \div d
SourceSymbols   == CeilDiv(message_size, symbol_size)
TotalBlocks     == CeilDiv(SourceSymbols, block_size)
PayloadSize     == (SourceSymbols + TotalBlocks * redundance_size) * symbol_size

\* Where the n-th byte of the message is in the file.
PlaceOf(n) ==
  LET symbol == n \div symbol_size
      before == (symbol \div block_size) * redundance_size
  IN  ((symbol + before) * symbol_size) + (n % symbol_size)

-----------------------------------------------------------------------------

\* block_size * symbol_size is a product of two uint32_t.
BlockBytes == (block_size * symbol_size) % Modulus

\* The file may end too early; behind sizes of 0 it has nothing.
Init ==
  /\ phase = "open"
  /\ block_size \in BlockSizes /\ symbol_size \in SymbolSizes
  /\ redundance_size \in RedundanceSizes /\ message_size \in MessageSizes
  /\ \E m \in Missing :
       available = IF BlockBytes = 0 \/ PayloadSize < m THEN 0 ELSE PayloadSize - m
  /\ blocks = <<>> /\ offset = 0 /\ i = 0 /\ j = 0
  /\ written = <<>>

\* The size of the message in the last block, as openFile sees it, and as
\* makeBlockList does, whose parameter messageSize is a uint32_t.
LastBytes     == message_size % BlockBytes
LastBytesSeen == (message_size % Modulus) % BlockBytes

NumberBlocks ==
  (message_size \div BlockBytes + (IF LastBytes # 0 THEN 1 ELSE 0)) % Modulus

LastBlockCut   == LastBytesSeen \div symbol_size
LastBlockRound == LastBytesSeen \div symbol_size + 1
LastBlockSize  == CeilDiv(LastBytesSeen, symbol_size)

SizeOf(k) == IF k = NumberBlocks - 1 THEN LastBlockSize ELSE block_size

\* number_symbol, a uint32_t: how many symbols are listed for block k.
Listed(k) == (SizeOf(k) + redundance_size) % Modulus

\* A full last symbol counts as one that is nothing but padding.
PaddingKept == 0
Padding     == symbol_size - (LastBytes % symbol_size)

\* The header is read and the sizes are computed; the product may be 0, because a
\* size is 0 or modulo 2^32, and dividing by it ends the process.
OpenFile ==
  /\ phase = "open"
  /\ phase' = IF BlockBytes = 0 THEN "divided" ELSE "cut"
  /\ UNCHANGED <<header, blocks, offset, i, j, written>>

\* fopen, stat, an fread, a malloc or fclose fails; when it is the malloc of the
\* message itself, freeMessage is called with NULL.
OpenFails ==
  /\ \/ phase \in {"open", "cut"} /\ phase' = "failed"
     \/ phase = "cut" /\ i >= NumberBlocks /\ phase' = "freedNull"
  /\ UNCHANGED <<header, blocks, offset, i, j, written>>

StartBlock ==
  /\ phase = "cut"
  /\ i < NumberBlocks
  /\ Len(blocks) = i
  /\ blocks' = Append(blocks, <<>>)
  /\ j' = 0
  /\ UNCHANGED <<phase, header, offset, i, written>>

StepWide == offset + symbol_size
Step     == StepWide % Modulus

CopySymbol ==
  /\ phase = "cut"
  /\ Len(blocks) = i + 1
  /\ j < Listed(i)
  /\ blocks' = [blocks EXCEPT ![i + 1] = Append(@, offset)]
  /\ offset' = Step
  /\ j' = j + 1
  /\ UNCHANGED <<phase, header, i, written>>

\* A symbol past the end of what was read from the file: the process may end, or
\* take what is there.
CopyCrashes ==
  /\ phase = "cut"
  /\ Len(blocks) = i + 1
  /\ j < Listed(i)
  /\ offset + symbol_size > available
  /\ phase' = "pastEnd"
  /\ UNCHANGED <<header, blocks, offset, i, j, written>>

EndBlock ==
  /\ phase = "cut"
  /\ Len(blocks) = i + 1
  /\ j >= Listed(i)
  /\ i' = i + 1
  /\ UNCHANGED <<phase, header, blocks, offset, j, written>>

\* openFile returns; processBlocks looks at the first block even if there is
\* none, and writeToFile begins with the header of the record.
Recover ==
  /\ phase = "cut"
  /\ i >= NumberBlocks
  /\ \/ phase' = "write"
     \/ NumberBlocks = 0 /\ phase' = "noBlock"
  /\ i' = 0 /\ j' = 0
  /\ UNCHANGED <<header, blocks, offset, written>>

\* How much of symbol j of block i is written.
BytesOf(k, s) ==
  IF k = NumberBlocks - 1 /\ s = SizeOf(k) - 1
  THEN (symbol_size - Padding) % Modulus ELSE symbol_size

WriteSymbol ==
  /\ phase = "write"
  /\ i < NumberBlocks
  /\ j < SizeOf(i) /\ j < Len(blocks[i + 1])
  /\ written' = written \o [n \in 1 .. BytesOf(i, j) |-> blocks[i + 1][j + 1] + n - 1]
  /\ j' = j + 1
  /\ UNCHANGED <<phase, header, blocks, offset, i>>

\* The number of symbols has wrapped and the block has more than its list: what is
\* read is no pointer (verifyFile is the first to read it).  Not followed further.
WriteCrashes ==
  /\ phase = "write"
  /\ i < NumberBlocks
  /\ j < SizeOf(i) /\ j >= Len(blocks[i + 1])
  /\ phase' = "pastList"
  /\ UNCHANGED <<header, blocks, offset, i, j, written>>

\* The symbols of the block are freed and with them what blocks holds of it.
NextBlock ==
  /\ phase = "write"
  /\ i < NumberBlocks
  /\ j >= SizeOf(i)
  /\ blocks' = [blocks EXCEPT ![i + 1] = <<>>]
  /\ i' = i + 1 /\ j' = 0
  /\ UNCHANGED <<phase, header, offset, written>>

\* The message is freed.
WriteEnds ==
  /\ phase = "write"
  /\ i >= NumberBlocks
  /\ blocks' = <<>>
  /\ phase' = "done"
  /\ UNCHANGED <<header, offset, i, j, written>>

\* An fwrite of writeToFile fails, which frees nothing.
WriteFails ==
  /\ phase = "write"
  /\ phase' = "failed"
  /\ UNCHANGED <<header, blocks, offset, i, j, written>>

\* The ways the process may end: a division by zero, a read behind the file, behind
\* the symbols of a block or in an empty list of blocks, freeMessage(NULL).
Crashes == {"divided", "pastEnd", "pastList", "noBlock", "freedNull"}

Finished == phase \in {"done", "failed"} \cup Crashes /\ UNCHANGED vars

Next ==
  \/ OpenFile \/ OpenFails \/ StartBlock \/ CopySymbol \/ CopyCrashes
  \/ EndBlock \/ Recover \/ WriteSymbol \/ WriteCrashes \/ NextBlock \/ WriteEnds
  \/ WriteFails \/ Finished

Spec == Init /\ [][Next]_vars

-----------------------------------------------------------------------------

\* Types of the variables, and the shape of the list of blocks.
TypeOK ==
  /\ phase \in {"open", "cut", "write", "done", "failed"} \cup Crashes
  /\ block_size \in BlockSizes /\ symbol_size \in SymbolSizes
  /\ redundance_size \in RedundanceSizes /\ message_size \in MessageSizes
  /\ available \in Nat
  /\ offset \in UInt /\ i \in UInt /\ j \in UInt
  /\ blocks \in Seq(Seq(UInt))
  /\ written \in Seq(Nat)

\* No size is 0, a block fits a uint32_t (or the message is shorter than what the
\* product has wrapped to, which does no harm) and so does the number of blocks.
BlocksFit ==
  /\ block_size * symbol_size \in 1 .. Modulus - 1 \/ message_size < BlockBytes
  /\ TotalBlocks < Modulus

\* Everything fits: the message and the whole file as well.
Fits == BlocksFit /\ message_size < Modulus /\ PayloadSize < Modulus

\* makeBlockList copies only what a complete file holds, as long as no size wraps.
CopiesInside ==
  Fits => \A k \in DOMAIN blocks : \A s \in DOMAIN blocks[k] :
            blocks[k][s] + symbol_size <= PayloadSize

\* Where symbols are copied from for the n-th byte, when the 32-bit offset has
\* wrapped: from the beginning of the file again.
WrappedPlace(n) == ((PlaceOf(n) - (n % symbol_size)) % Modulus) + (n % symbol_size)

\* What is written is the message, without a gap or a redundance symbol in it. Of
\* a file of 2^32 bytes or more it is the message with every position reduced
\* modulo 2^32.
WrittenInOrder ==
  \A n \in DOMAIN written :
    /\ written[n] = WrappedPlace(n - 1)
    /\ Fits => n <= message_size /\ written[n] = PlaceOf(n - 1)

\* The bytes at the end of the message that the record lacks: the last symbol
\* if it is full, the last block if that is full, and otherwise none.
Shortfall ==
  IF message_size = 0 \/ message_size % symbol_size # 0 THEN 0
  ELSE IF message_size % (block_size * symbol_size) = 0
       THEN block_size * symbol_size ELSE symbol_size

\* Reducing the size of the message modulo 2^32 takes off whole blocks.
WholeBlocksOff ==
  ((message_size \div Modulus) * Modulus) % (block_size * symbol_size) = 0

\* A record lacks no more than that; also for a message of 2^32 bytes or more, if
\* its size, which makeBlockList sees modulo 2^32, is short of whole blocks.
RecordLength ==
  BlocksFit /\ WholeBlocksOff /\ phase = "done" => Len(written) + Shortfall = message_size

\* What ends the process.  Sizes of 0 and products that wrap apart, it is a file
\* that is shorter than its header says, a message that is empty, so processBlocks
\* finds no first block, or no memory for the structure of the message; the last
\* two after every block has been made.
CrashCause ==
  phase \in Crashes /\ Fits =>
    \/ phase = "pastEnd" /\ available < PayloadSize
    \/ /\ phase \in {"noBlock", "freedNull"} /\ Len(blocks) = TotalBlocks
       /\ phase = "noBlock" => message_size = 0

-----------------------------------------------------------------------------

\* message.h:73 says of writeToFile "Write the recovered message to outFile".
MessageWritten == Fits /\ phase = "done" => Len(written) = message_size
=============================================================================
