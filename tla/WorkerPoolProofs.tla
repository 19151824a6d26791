-------------------------- MODULE WorkerPoolProofs --------------------------
(***************************************************************************)
(* Proofs about WorkerPool for every number of files and of workers.       *)
(*                                                                         *)
(* The inductive invariant PoolInv says which threads hold a semaphore,    *)
(* how far main has come, which indices were handed out, and how many      *)
(* workers are past the unguarded test of getNextFile: each of them will   *)
(* still increment nextFile once, which is what bounds the overrun.        *)
(*                                                                         *)
(* On top of PoolInv come two more invariants: what is on the stream       *)
(* (Records), and what became of every name (Accounts), which also gives   *)
(* the refinement of DecodeArchive.                                        *)
(***************************************************************************)
EXTENDS WorkerPool, FiniteSetTheorems, TLAPS

HoldsRead(t)  == pc[t] \in {"take", "bump", "postRead"}
HoldsWrite(t) == pc[t] \in {"write", "postWrite"}
HasName(t)    == pc[t] \in {"process", "waitWrite", "write", "postWrite", "free"}

\* The workers that have passed the test and not yet incremented nextFile.
Pending == {t \in Threads : pc[t] \in {"waitRead", "take", "bump"}}

\* What TypeOK says of the values alone, with nextFile unbounded.
Types ==
  /\ mainPc \in {"setup", "create", "join", "destroy", "finish", "end"}
  /\ mainIdx \in 0 .. NbThreads
  /\ status \in {"running", "success", "failure", "crashed"}
  /\ nextFile \in Nat
  /\ semRead \in {0, 1}
  /\ semWrite \in {0, 1}
  /\ filenames \in [Files -> {"null", "live", "wild", "freed"}]
  /\ output \in Seq(OutputItem)
  /\ pc \in [Threads -> {"none", "check", "waitRead", "take", "bump", "postRead",
                        "loop", "process", "waitWrite", "write", "postWrite",
                        "free", "done"}]
  /\ fileNumber \in [Threads -> Nat]
  /\ written \in [Threads -> 0 .. RecordParts]
  /\ ret \in [Threads -> {"none", "stream", "null"}]
  /\ unrepaired \in SUBSET Files
  /\ truncated \in SUBSET Files
  /\ \A t \in Threads : pc[t] = "write" => written[t] < RecordParts

\* Workers exist from their creation on, and main passes them in order.
MainInv ==
  /\ mainPc = "setup" => \A t \in Threads : pc[t] = "none"
  /\ mainPc = "create" => \A t \in Threads : t >= mainIdx => pc[t] = "none"
  /\ mainPc = "join" => \A t \in Threads : t < mainIdx => pc[t] = "done"
  /\ mainPc \in {"destroy", "finish", "end"} =>
       \A t \in Threads : pc[t] = "done"

\* Each semaphore is 0 exactly while one worker is between its wait and post.
ReadInv ==
  /\ mainPc # "setup" => (semRead = 1 <=> \A t \in Threads : ~HoldsRead(t))
  /\ \A t, u \in Threads : HoldsRead(t) /\ HoldsRead(u) => t = u

WriteInv ==
  /\ mainPc # "setup" => (semWrite = 1 <=> \A t \in Threads : ~HoldsWrite(t))
  /\ \A t, u \in Threads : HoldsWrite(t) /\ HoldsWrite(u) => t = u

\* The indices handed out are below nextFile, but for the one being taken.
ClaimInv ==
  /\ \A t \in Threads : pc[t] = "bump" => fileNumber[t] = nextFile
  /\ \A t \in Threads : Claimed(t) /\ pc[t] # "bump" => fileNumber[t] < nextFile
  /\ UniqueClaim

IndexInv ==
  /\ nextFile + Cardinality(Pending) <= NumberFiles + NbThreads - 1
  /\ ClaimInv

NameInv ==
  \A t \in Threads : HasName(t) =>
    fileNumber[t] \in Files /\ filenames[fileNumber[t]] = "live"

\* fileNumber is an index or the value for "no more files".
RangeInv == \A t \in Threads : fileNumber[t] <= UintMax

PoolInv ==
  Types /\ MainInv /\ ReadInv /\ WriteInv /\ IndexInv /\ NameInv /\ RangeInv

-----------------------------------------------------------------------------
(* Steps *)

\* The operators that stand for one assignment or one test of the code.
USE DEF Goto, Return, Slot, AfterWriteError, Exhausted, ToJoin, InitialValue,
        Threads, Files, NoFile, mainVars, sharedVars, workerVars, faultVars

LEMMA ConstantTypes ==
  /\ NumberFiles \in Nat /\ NbThreads \in Nat \ {0} /\ UintMax \in Nat
  /\ NumberFiles + NbThreads <= UintMax
  /\ RecordParts \in Nat /\ RecordParts >= 3
BY PoolAssumption DEF RecordParts

LEMMA PartType ==
  ASSUME NEW f \in Files, NEW k \in 1 .. RecordParts
  PROVE  Part(f, k) \in OutputItem
BY DEF OutputItem

LEMMA PrintedType ==
  ASSUME output \in Seq(OutputItem)
  PROVE  Printed \in Seq(OutputItem)
<1>1. Debug \in OutputItem
  BY DEF OutputItem
<1> QED
  BY <1>1 DEF Printed

\* A step of the process is a step of main, an abort, a step of one worker,
\* a crash that only sets the status, or no step at all.
LEMMA StepCases ==
  ASSUME [Next]_vars
  PROVE  \/ Main \/ MainAborts
         \/ \E t \in Threads : Worker(t)
         \/ \E t \in Threads : Crash(t)
         \/ UNCHANGED vars
BY DEF Next, Ended

\* There are NbThreads workers, so at most that many are pending.
LEMMA PendingFinite ==
  /\ IsFiniteSet(Threads) /\ Cardinality(Threads) = NbThreads
  /\ IsFiniteSet(Pending) /\ Cardinality(Pending) \in Nat
  /\ Cardinality(Pending) <= NbThreads
<1>1. IsFiniteSet(Threads) /\ Cardinality(Threads) = NbThreads
  <2>1. /\ IsFiniteSet(0 .. NbThreads - 1)
        /\ Cardinality(0 .. NbThreads - 1) =
             IF 0 > NbThreads - 1 THEN 0 ELSE (NbThreads - 1) - 0 + 1
    BY ConstantTypes, FS_Interval
  <2> QED
    BY <2>1, ConstantTypes
<1>2. Pending \subseteq Threads
  BY DEF Pending
<1>3. /\ IsFiniteSet(Pending) /\ Cardinality(Pending) <= Cardinality(Threads)
  BY <1>1, <1>2, FS_Subset
<1> QED
  BY <1>1, <1>3, FS_CardinalityType

LEMMA TypesStep ==
  ASSUME PoolInv, [Next]_vars
  PROVE  Types'
<1> USE ConstantTypes DEF Types, PoolInv
<1>1. CASE MainSetup
  BY <1>1 DEF MainSetup, Listings
<1>2. CASE MainCreate
  <2>1. CASE mainIdx < NbThreads
    <3>1. mainIdx + 1 \in 0 .. NbThreads /\ mainIdx \in Threads
      BY <2>1
    <3> QED
      BY <1>2, <2>1, <3>1 DEF MainCreate
  <2>2. CASE ~(mainIdx < NbThreads)
    BY <1>2, <2>2 DEF MainCreate
  <2> QED
    BY <2>1, <2>2
<1>3. CASE MainJoin
  <2>1. mainIdx' \in 0 .. NbThreads
    BY <1>3 DEF MainJoin
  <2> QED
    BY <1>3, <2>1 DEF MainJoin
<1>4. CASE MainDestroy \/ MainFinish \/ MainAborts
  BY <1>4 DEF MainDestroy, MainFinish, MainAborts
<1>5. ASSUME NEW t \in Threads, CheckNext(t)
      PROVE  Types'
  <2>1. /\ \/ fileNumber' = [fileNumber EXCEPT ![t] = UintMax]
           \/ fileNumber' = fileNumber
        /\ \/ pc' = [pc EXCEPT ![t] = "loop"]
           \/ pc' = [pc EXCEPT ![t] = "waitRead"]
        /\ UNCHANGED <<mainPc, mainIdx, status, nextFile, semRead, semWrite,
                       filenames, output, written, ret, unrepaired, truncated>>
    BY <1>5 DEF CheckNext
  <2> HIDE <1>5
  <2>2. fileNumber' \in [Threads -> Nat]
    BY <2>1
  <2> QED
    BY <2>1, <2>2
<1>6. ASSUME NEW t \in Threads, WaitRead(t)
      PROVE  Types'
  <2>1. semRead' = 0
    BY <1>6 DEF WaitRead
  <2> QED
    BY <1>6, <2>1 DEF WaitRead
<1>7. ASSUME NEW t \in Threads, TakeIndex(t)
      PROVE  Types'
  BY <1>7 DEF TakeIndex
<1>8. ASSUME NEW t \in Threads, BumpIndex(t)
      PROVE  Types'
  BY SMTT(30), <1>8 DEF BumpIndex
<1>9. ASSUME NEW t \in Threads, PostRead(t)
      PROVE  Types'
  <2>1. mainPc # "setup" /\ semRead = 0
    BY <1>9 DEF PostRead, ReadInv, HoldsRead, MainInv
  <2> QED
    BY SMTT(30), <1>9, <2>1 DEF PostRead
<1>10. ASSUME NEW t \in Threads, LoopEnds(t)
       PROVE  Types'
  BY <1>10 DEF LoopEnds
<1>11. ASSUME NEW t \in Threads, OpenFile(t)
       PROVE  Types'
  BY <1>11, PrintedType DEF OpenFile
<1>12. ASSUME NEW t \in Threads, OpenFileFails(t)
       PROVE  Types'
  BY <1>12, PrintedType DEF OpenFileFails
<1>13. ASSUME NEW t \in Threads, ProcessBlocks(t)
       PROVE  Types'
  BY <1>13, PrintedType DEF ProcessBlocks, NameInv, HasName
<1>14. ASSUME NEW t \in Threads, WaitWrite(t)
       PROVE  Types'
  BY SMTT(30), <1>14 DEF WaitWrite
<1>15. ASSUME NEW t \in Threads, WritePart(t)
       PROVE  Types'
  <2>1. fileNumber[t] \in Files /\ written[t] + 1 \in 1 .. RecordParts
    BY <1>15 DEF WritePart, NameInv, HasName
  <2>2. Part(fileNumber[t], written[t] + 1) \in OutputItem
    BY <2>1, PartType
  <2>3. output' \in Seq(OutputItem)
    BY <1>15, <2>2 DEF WritePart
  <2> QED
    BY SMTT(30), <1>15, <2>1, <2>3 DEF WritePart
<1>16. ASSUME NEW t \in Threads, WriteFails(t)
       PROVE  Types'
  BY <1>16 DEF WriteFails, NameInv, HasName
<1>17. ASSUME NEW t \in Threads, PostWrite(t)
       PROVE  Types'
  <2>1. mainPc # "setup" /\ semWrite = 0
    BY <1>17 DEF PostWrite, WriteInv, HoldsWrite, MainInv
  <2> QED
    BY SMTT(30), <1>17, <2>1 DEF PostWrite
<1>18. ASSUME NEW t \in Threads, FreeName(t)
       PROVE  Types'
  BY <1>18 DEF FreeName
<1>19. ASSUME NEW t \in Threads, Crash(t)
       PROVE  Types'
  BY <1>19 DEF Crash, OpenFileCrashes, ProcessBlocksCrashes
<1>20. CASE UNCHANGED vars
  BY <1>20 DEF vars
<1> QED
  BY <1>1, <1>2, <1>3, <1>4, <1>5, <1>6, <1>7, <1>8, <1>9, <1>10, <1>11, <1>12,
     <1>13, <1>14, <1>15, <1>16, <1>17, <1>18, <1>19, <1>20, StepCases
  DEF Main, Worker

\* A worker runs only between its creation and its return, and touches
\* nothing of main or of the other workers.
LEMMA WorkerFrame ==
  ASSUME Types, NEW t \in Threads, Worker(t)
  PROVE  /\ UNCHANGED <<mainPc, mainIdx, status>>
         /\ pc[t] \notin {"none", "done"}
         /\ \A u \in Threads : u # t =>
              /\ pc'[u] = pc[u] /\ fileNumber'[u] = fileNumber[u]
              /\ ret'[u] = ret[u] /\ written'[u] = written[u]
<1> USE DEF Types
<1>1. CASE CheckNext(t) \/ WaitRead(t) \/ TakeIndex(t) \/ BumpIndex(t) \/ PostRead(t)
  BY <1>1 DEF CheckNext, WaitRead, TakeIndex, BumpIndex, PostRead
<1>2. CASE LoopEnds(t) \/ OpenFile(t) \/ OpenFileFails(t) \/ ProcessBlocks(t)
  BY <1>2 DEF LoopEnds, OpenFile, OpenFileFails, ProcessBlocks
<1>3. CASE WaitWrite(t) \/ WritePart(t) \/ WriteFails(t) \/ PostWrite(t) \/ FreeName(t)
  BY <1>3 DEF WaitWrite, WritePart, WriteFails, PostWrite, FreeName
<1> QED
  BY <1>1, <1>2, <1>3 DEF Worker

\* An abort or a crash sets the status and nothing else.
LEMMA EndFrame ==
  ASSUME MainAborts \/ (\E t \in Threads : Crash(t)) \/ UNCHANGED vars
  PROVE  UNCHANGED <<mainPc, mainIdx, nextFile, semRead, semWrite, filenames,
                     output, pc, fileNumber, written, ret, unrepaired, truncated>>
BY DEF MainAborts, Crash, OpenFileCrashes, ProcessBlocksCrashes, vars

\* Creating the threads changes the place of one worker at most, which was
\* not there before.
LEMMA CreateFrame ==
  ASSUME Types, MainInv, MainCreate
  PROVE  /\ UNCHANGED <<sharedVars, fileNumber, written, ret, faultVars>>
         /\ mainPc = "create" /\ mainPc' \in {"create", "join"}
         /\ \A u \in Threads :
              \/ pc'[u] = pc[u]
              \/ u = mainIdx /\ pc[u] = "none" /\ pc'[u] = "check"
         /\ \/ mainPc' = "create" /\ mainIdx' = mainIdx + 1
            \/ mainPc' = "join" /\ mainIdx' = 0 /\ UNCHANGED pc
<1> USE ConstantTypes DEF Types, MainInv, MainCreate
<1>1. CASE mainIdx < NbThreads
  <2>1. mainIdx \in Threads /\ pc[mainIdx] = "none"
    BY <1>1
  <2>2. pc' = [pc EXCEPT ![mainIdx] = "check"]
    BY <1>1
  <2> QED
    BY <1>1, <2>1, <2>2
<1>2. CASE ~(mainIdx < NbThreads)
  BY <1>2
<1> QED
  BY <1>1, <1>2

LEMMA MainStep ==
  ASSUME PoolInv, [Next]_vars
  PROVE  MainInv'
<1> USE ConstantTypes DEF PoolInv, Types, MainInv
<1>1. CASE MainSetup
  BY <1>1 DEF MainSetup
<1>2. CASE MainCreate
  <2>1. CASE mainPc' = "create" /\ mainIdx' = mainIdx + 1
    <3>1. ASSUME NEW t \in Threads, t >= mainIdx + 1
          PROVE  pc'[t] = "none"
      <4>1. t >= mainIdx /\ t # mainIdx
        BY <3>1
      <4> QED
        BY <1>2, <4>1, CreateFrame
    <3> QED
      BY <2>1, <3>1
  <2>2. CASE mainPc' = "join" /\ mainIdx' = 0
    BY <2>2
  <2> QED
    BY <1>2, <2>1, <2>2, CreateFrame
<1>3. CASE MainJoin
  BY SMTT(30), <1>3 DEF MainJoin
<1>4. CASE MainDestroy \/ MainFinish
  BY <1>4 DEF MainDestroy, MainFinish
<1>5. ASSUME NEW t \in Threads, Worker(t)
      PROVE  MainInv'
  <2>1. /\ mainPc' = mainPc /\ mainIdx' = mainIdx
        /\ pc[t] # "none" /\ pc[t] # "done"
        /\ \A u \in Threads : u # t => pc'[u] = pc[u]
    BY <1>5, WorkerFrame
  <2>2. mainPc \notin {"setup", "destroy", "finish", "end"}
    BY <2>1
  <2>3. mainPc = "create" => t < mainIdx
    BY <2>1
  <2>4. mainPc = "join" => t >= mainIdx
    BY <2>1
  <2> QED
    BY <2>1, <2>2, <2>3, <2>4
<1>6. CASE MainAborts \/ (\E t \in Threads : Crash(t)) \/ UNCHANGED vars
  <2>1. mainPc' = mainPc /\ mainIdx' = mainIdx /\ pc' = pc
    BY Zenon, <1>6, EndFrame
  <2> QED
    BY <2>1
<1> QED
  BY <1>1, <1>2, <1>3, <1>4, <1>5, <1>6, StepCases DEF Main

LEMMA ReadStep ==
  ASSUME PoolInv, [Next]_vars
  PROVE  ReadInv'
<1> USE DEF PoolInv, Types, ReadInv, HoldsRead
<1>1. CASE MainSetup
  BY <1>1 DEF MainSetup, MainInv
<1>2. CASE MainCreate
  <2>1. \A t \in Threads : HoldsRead(t)' <=> HoldsRead(t)
    BY <1>2, CreateFrame
  <2>2. UNCHANGED semRead /\ mainPc # "setup"
    BY <1>2, CreateFrame
  <2> QED
    BY <2>1, <2>2
<1>3. CASE MainJoin \/ MainDestroy \/ MainFinish
  BY <1>3 DEF MainJoin, MainDestroy, MainFinish
<1>4. ASSUME NEW t \in Threads, WaitRead(t)
      PROVE  ReadInv'
  <2>1. mainPc # "setup" /\ mainPc' = mainPc
    BY <1>4 DEF WaitRead, MainInv
  <2>2. semRead = 1 /\ semRead' = 0
    BY <1>4 DEF WaitRead
  <2>3. \A u \in Threads : ~HoldsRead(u)
    BY <2>1, <2>2
  <2>4. \A u \in Threads : HoldsRead(u)' <=> u = t
    BY <1>4, <2>3 DEF WaitRead
  <2> QED
    BY <2>2, <2>4
<1>5. ASSUME NEW t \in Threads, PostRead(t)
      PROVE  ReadInv'
  <2>1. mainPc # "setup" /\ semRead = 0
    BY <1>5 DEF PostRead, MainInv
  <2>2. \A u \in Threads : ~HoldsRead(u)'
    BY <1>5 DEF PostRead
  <2> QED
    BY <1>5, <2>1, <2>2 DEF PostRead
<1>6. ASSUME NEW t \in Threads, Worker(t), ~WaitRead(t), ~PostRead(t)
      PROVE  ReadInv'
  <2>1. UNCHANGED semRead /\ (HoldsRead(t)' <=> HoldsRead(t))
    <3>1. CASE CheckNext(t) \/ TakeIndex(t) \/ BumpIndex(t)
      BY <3>1 DEF CheckNext, TakeIndex, BumpIndex
    <3>2. CASE LoopEnds(t) \/ OpenFile(t) \/ OpenFileFails(t) \/ ProcessBlocks(t)
      BY <3>2 DEF LoopEnds, OpenFile, OpenFileFails, ProcessBlocks
    <3>3. CASE WaitWrite(t) \/ WritePart(t) \/ WriteFails(t) \/ PostWrite(t)
               \/ FreeName(t)
      BY <3>3 DEF WaitWrite, WritePart, WriteFails, PostWrite, FreeName
    <3> QED
      BY <1>6, <3>1, <3>2, <3>3 DEF Worker
  <2>2. UNCHANGED mainPc /\ \A u \in Threads : u # t => pc'[u] = pc[u]
    BY <1>6, WorkerFrame
  <2>3. \A u \in Threads : HoldsRead(u)' <=> HoldsRead(u)
    BY <2>1, <2>2
  <2> QED
    BY <2>1, <2>2, <2>3
<1>7. CASE MainAborts \/ (\E t \in Threads : Crash(t)) \/ UNCHANGED vars
  BY <1>7, EndFrame
<1> QED
  BY <1>1, <1>2, <1>3, <1>4, <1>5, <1>6, <1>7, StepCases DEF Main

LEMMA WriteStep ==
  ASSUME PoolInv, [Next]_vars
  PROVE  WriteInv'
<1> USE DEF PoolInv, Types, WriteInv, HoldsWrite
<1>1. CASE MainSetup
  BY <1>1 DEF MainSetup, MainInv
<1>2. CASE MainCreate
  <2>1. \A t \in Threads : HoldsWrite(t)' <=> HoldsWrite(t)
    BY <1>2, CreateFrame
  <2>2. UNCHANGED semWrite /\ mainPc # "setup"
    BY <1>2, CreateFrame
  <2> QED
    BY <2>1, <2>2
<1>3. CASE MainJoin \/ MainDestroy \/ MainFinish
  BY <1>3 DEF MainJoin, MainDestroy, MainFinish
<1>4. ASSUME NEW t \in Threads, WaitWrite(t)
      PROVE  WriteInv'
  <2>1. mainPc # "setup" /\ mainPc' = mainPc
    BY <1>4 DEF WaitWrite, MainInv
  <2>2. semWrite = 1 /\ semWrite' = 0
    BY <1>4 DEF WaitWrite
  <2>3. \A u \in Threads : ~HoldsWrite(u)
    BY <2>1, <2>2
  <2>4. \A u \in Threads : HoldsWrite(u)' <=> u = t
    BY <1>4, <2>3 DEF WaitWrite
  <2> QED
    BY <2>2, <2>4
<1>5. ASSUME NEW t \in Threads, PostWrite(t)
      PROVE  WriteInv'
  <2>1. mainPc # "setup" /\ semWrite = 0
    BY <1>5 DEF PostWrite, MainInv
  <2>2. \A u \in Threads : ~HoldsWrite(u)'
    BY <1>5 DEF PostWrite
  <2> QED
    BY <1>5, <2>1, <2>2 DEF PostWrite
<1>6. ASSUME NEW t \in Threads, Worker(t), ~WaitWrite(t), ~PostWrite(t)
      PROVE  WriteInv'
  <2>1. UNCHANGED semWrite /\ (HoldsWrite(t)' <=> HoldsWrite(t))
    <3>1. CASE CheckNext(t) \/ WaitRead(t) \/ TakeIndex(t) \/ BumpIndex(t)
               \/ PostRead(t)
      BY <3>1 DEF CheckNext, WaitRead, TakeIndex, BumpIndex, PostRead
    <3>2. CASE LoopEnds(t) \/ OpenFile(t) \/ OpenFileFails(t) \/ ProcessBlocks(t)
      BY <3>2 DEF LoopEnds, OpenFile, OpenFileFails, ProcessBlocks
    <3>3. CASE WritePart(t) \/ WriteFails(t) \/ FreeName(t)
      BY <3>3 DEF WritePart, WriteFails, FreeName
    <3> QED
      BY <1>6, <3>1, <3>2, <3>3 DEF Worker
  <2>2. UNCHANGED mainPc /\ \A u \in Threads : u # t => pc'[u] = pc[u]
    BY <1>6, WorkerFrame
  <2>3. \A u \in Threads : HoldsWrite(u)' <=> HoldsWrite(u)
    BY <2>1, <2>2
  <2> QED
    BY <2>1, <2>2, <2>3
<1>7. CASE MainAborts \/ (\E t \in Threads : Crash(t)) \/ UNCHANGED vars
  BY <1>7, EndFrame
<1> QED
  BY <1>1, <1>2, <1>3, <1>4, <1>5, <1>6, <1>7, StepCases DEF Main

\* The test makes a worker pending only while nextFile < numberFiles; the
\* increment makes one worker less pending.
LEMMA CountStep ==
  ASSUME PoolInv, [Next]_vars
  PROVE  nextFile' + Cardinality(Pending') <= NumberFiles + NbThreads - 1
<1> USE ConstantTypes DEF PoolInv, Types, Pending
<1>1. nextFile + Cardinality(Pending) <= NumberFiles + NbThreads - 1
  BY DEF IndexInv
<1>2. CASE \E t \in Threads : CheckNext(t)
  <2> PICK t \in Threads : CheckNext(t)
    BY <1>2
  <2>1. CASE nextFile >= NumberFiles
    <3>1. nextFile' = nextFile /\ Pending' = Pending
      BY <2>1 DEF CheckNext
    <3> QED
      BY <1>1, <3>1
  <2>2. CASE ~(nextFile >= NumberFiles)
    <3>1. nextFile' = nextFile /\ nextFile + 1 <= NumberFiles
      BY <2>2 DEF CheckNext
    <3>2. /\ Pending' \subseteq Threads
          /\ IsFiniteSet(Threads) /\ Cardinality(Threads) = NbThreads
      BY PendingFinite
    <3>3. /\ IsFiniteSet(Pending') /\ Cardinality(Pending') <= NbThreads
      BY <3>2, FS_Subset
    <3>4. Cardinality(Pending') \in Nat
      BY <3>3, FS_CardinalityType
    <3> QED
      BY SMTT(30), <3>1, <3>3, <3>4
  <2> QED
    BY <2>1, <2>2
<1>3. CASE \E t \in Threads : BumpIndex(t)
  <2> PICK t \in Threads : BumpIndex(t)
    BY <1>3
  <2>1. t \in Pending /\ Pending' = Pending \ {t} /\ nextFile' = nextFile + 1
    BY DEF BumpIndex
  <2>2. /\ IsFiniteSet(Pending) /\ Cardinality(Pending) \in Nat
    BY PendingFinite
  <2>3. Cardinality(Pending \ {t}) = Cardinality(Pending) - 1
    <3> HIDE DEF Pending
    <3> QED
      BY <2>1, <2>2, FS_RemoveElement
  <2>4. Cardinality(Pending') = Cardinality(Pending) - 1
    BY <2>1, <2>3
  <2> QED
    BY <1>1, <2>1, <2>2, <2>4
<1>4. CASE \E t \in Threads : Worker(t) /\ ~CheckNext(t) /\ ~BumpIndex(t)
  <2> PICK t \in Threads : Worker(t) /\ ~CheckNext(t) /\ ~BumpIndex(t)
    BY <1>4
  <2>1. nextFile' = nextFile /\ (t \in Pending' <=> t \in Pending)
    <3>1. CASE WaitRead(t) \/ TakeIndex(t) \/ PostRead(t)
      BY <3>1 DEF WaitRead, TakeIndex, PostRead
    <3>2. CASE LoopEnds(t) \/ OpenFile(t) \/ OpenFileFails(t) \/ ProcessBlocks(t)
      BY <3>2 DEF LoopEnds, OpenFile, OpenFileFails, ProcessBlocks
    <3>3. CASE WaitWrite(t) \/ WritePart(t) \/ WriteFails(t) \/ PostWrite(t)
               \/ FreeName(t)
      BY <3>3 DEF WaitWrite, WritePart, WriteFails, PostWrite, FreeName
    <3> QED
      BY <3>1, <3>2, <3>3 DEF Worker
  <2>2. \A u \in Threads : u # t => pc'[u] = pc[u]
    BY WorkerFrame
  <2>3. Pending' = Pending
    BY <2>1, <2>2
  <2> QED
    BY <1>1, <2>1, <2>3
<1>5. CASE Main
  <2>1. CASE MainCreate
    <3>1. nextFile' = nextFile /\ Pending' = Pending
      BY <2>1, CreateFrame
    <3> QED
      BY <1>1, <3>1
  <2>2. CASE MainSetup \/ MainJoin \/ MainDestroy \/ MainFinish
    BY <1>1, <2>2 DEF MainSetup, MainJoin, MainDestroy, MainFinish
  <2> QED
    BY <1>5, <2>1, <2>2 DEF Main
<1>6. CASE MainAborts \/ (\E t \in Threads : Crash(t)) \/ UNCHANGED vars
  BY <1>1, <1>6, EndFrame
<1> QED
  BY <1>2, <1>3, <1>4, <1>5, <1>6, StepCases

\* A step other than the test and the two accesses of nextFile hands out
\* nothing: who holds an index held it before.
LEMMA ClaimFrame ==
  ASSUME PoolInv, NEW t \in Threads,
         Worker(t), ~CheckNext(t), ~TakeIndex(t), ~BumpIndex(t)
  PROVE  /\ UNCHANGED <<nextFile, fileNumber>>
         /\ \A u \in Threads : Claimed(u)' => Claimed(u)
         /\ \A u \in Threads : pc'[u] = "bump" <=> pc[u] = "bump"
<1> USE DEF PoolInv, Types, Claimed
<1>1. \A u \in Threads : u # t => pc'[u] = pc[u]
  BY WorkerFrame
<1>2. /\ UNCHANGED <<nextFile, fileNumber>>
      /\ Claimed(t)' => Claimed(t)
      /\ pc'[t] # "bump" /\ pc[t] # "bump"
  <2>1. CASE WaitRead(t) \/ PostRead(t)
    BY <2>1 DEF WaitRead, PostRead
  <2>2. CASE LoopEnds(t) \/ OpenFile(t) \/ OpenFileFails(t) \/ ProcessBlocks(t)
    BY <2>2 DEF LoopEnds, OpenFile, OpenFileFails, ProcessBlocks
  <2>3. CASE WaitWrite(t) \/ WritePart(t) \/ WriteFails(t) \/ PostWrite(t)
             \/ FreeName(t)
    BY <2>3 DEF WaitWrite, WritePart, WriteFails, PostWrite, FreeName
  <2> QED
    BY <2>1, <2>2, <2>3 DEF Worker
<1> QED
  BY <1>1, <1>2

\* Nothing is handed out by a step that leaves nextFile and the holders of
\* indices as they are, or makes some of them let go.
LEMMA ClaimKept ==
  ASSUME IndexInv, UNCHANGED nextFile,
         \A u \in Threads : pc'[u] = "bump" =>
           pc[u] = "bump" /\ fileNumber'[u] = fileNumber[u],
         \A u \in Threads : Claimed(u)' =>
           /\ Claimed(u) /\ fileNumber'[u] = fileNumber[u]
           /\ pc'[u] = "bump" <=> pc[u] = "bump"
  PROVE  ClaimInv'
<1>1. \A t \in Threads : pc'[t] = "bump" => fileNumber'[t] = nextFile'
  BY DEF IndexInv, ClaimInv
<1>2. \A t \in Threads : Claimed(t)' /\ pc'[t] # "bump" =>
        fileNumber'[t] < nextFile'
  BY DEF IndexInv, ClaimInv
<1>3. UniqueClaim'
  BY DEF IndexInv, ClaimInv, UniqueClaim
<1> QED
  BY <1>1, <1>2, <1>3 DEF ClaimInv

\* An index that was handed out is at most nextFile.
LEMMA ClaimedBelow ==
  ASSUME Types, ClaimInv, NEW t \in Threads, Claimed(t)
  PROVE  fileNumber[t] \in Nat /\ fileNumber[t] <= nextFile
BY DEF Types, ClaimInv

LEMMA ClaimStep ==
  ASSUME PoolInv, [Next]_vars
  PROVE  ClaimInv'
<1> USE ConstantTypes DEF PoolInv, Types
<1>2. nextFile < UintMax
  BY PendingFinite DEF IndexInv
<1>3. ASSUME NEW t \in Threads, CheckNext(t)
      PROVE  ClaimInv'
  <2>1. /\ nextFile' = nextFile /\ ~Claimed(t)' /\ pc'[t] # "bump"
        /\ \A u \in Threads :
             u # t => pc'[u] = pc[u] /\ fileNumber'[u] = fileNumber[u]
    BY <1>3 DEF CheckNext, Claimed
  <2>2. \A u \in Threads : u # t /\ Claimed(u)' => Claimed(u)
    BY <2>1 DEF Claimed
  <2> QED
    BY <2>1, <2>2, ClaimKept
<1>4. ASSUME NEW t \in Threads, TakeIndex(t)
      PROVE  ClaimInv'
  <2>1. /\ nextFile' = nextFile /\ fileNumber'[t] = nextFile /\ pc'[t] = "bump"
        /\ \A u \in Threads :
             u # t => pc'[u] = pc[u] /\ fileNumber'[u] = fileNumber[u]
    BY <1>4 DEF TakeIndex
  <2>2. \A u \in Threads : u # t => pc[u] # "bump"
    BY <1>4 DEF TakeIndex, ReadInv, HoldsRead
  <2>3. \A u \in Threads : u # t /\ Claimed(u)' =>
          Claimed(u) /\ fileNumber'[u] < nextFile
    BY <2>1, <2>2 DEF Claimed, IndexInv, ClaimInv
  <2>4. \A u, v \in Threads : u # v /\ Claimed(u)' /\ Claimed(v)' =>
          fileNumber'[u] # fileNumber'[v]
    <3>1. ASSUME NEW u \in Threads, u # t, Claimed(u)'
          PROVE  fileNumber'[u] # fileNumber'[t]
      BY SMTT(30), <2>1, <2>3, <3>1
    <3>2. ASSUME NEW u \in Threads, NEW v \in Threads, u # v, u # t, v # t,
                 Claimed(u)', Claimed(v)'
          PROVE  fileNumber'[u] # fileNumber'[v]
      <4>1. /\ Claimed(u) /\ fileNumber'[u] = fileNumber[u]
            /\ Claimed(v) /\ fileNumber'[v] = fileNumber[v]
        BY <2>1, <2>3, <3>2
      <4>2. UniqueClaim
        BY DEF IndexInv, ClaimInv
      <4> QED
        BY <3>2, <4>1, <4>2 DEF UniqueClaim
    <3> QED
      BY <3>1, <3>2
  <2> QED
    BY <2>1, <2>2, <2>3, <2>4 DEF ClaimInv, UniqueClaim
<1>5. ASSUME NEW t \in Threads, BumpIndex(t)
      PROVE  ClaimInv'
  <2>1. /\ nextFile' = nextFile + 1 /\ fileNumber' = fileNumber
        /\ pc[t] = "bump" /\ pc'[t] = "postRead"
        /\ \A u \in Threads : u # t => pc'[u] = pc[u]
    BY <1>5 DEF BumpIndex
  <2>2. \A u \in Threads : pc'[u] # "bump"
    BY <2>1 DEF ReadInv, HoldsRead
  <2>3. \A u \in Threads : Claimed(u)' => Claimed(u)
    BY <2>1 DEF Claimed
  <2>4. \A u \in Threads : Claimed(u) => fileNumber[u] <= nextFile
    BY ClaimedBelow DEF IndexInv
  <2>5. UniqueClaim'
    BY <2>1, <2>3 DEF IndexInv, ClaimInv, UniqueClaim
  <2>6. \A u \in Threads : Claimed(u)' => fileNumber'[u] < nextFile'
    BY SMTT(30), <2>1, <2>3, <2>4
  <2> QED
    BY <2>2, <2>5, <2>6 DEF ClaimInv
<1>6. ASSUME NEW t \in Threads,
             Worker(t), ~CheckNext(t), ~TakeIndex(t), ~BumpIndex(t)
      PROVE  ClaimInv'
  BY <1>6, ClaimFrame, ClaimKept
<1>7. CASE MainCreate
  <2>1. \A u \in Threads : Claimed(u)' => Claimed(u) /\ pc'[u] = pc[u]
    BY <1>7, CreateFrame DEF Claimed
  <2> QED
    BY <1>7, <2>1, CreateFrame, ClaimKept
<1>8. CASE \/ MainSetup \/ MainJoin \/ MainDestroy \/ MainFinish \/ MainAborts
           \/ (\E t \in Threads : Crash(t)) \/ UNCHANGED vars
  <2>1. UNCHANGED <<nextFile, pc, fileNumber>>
    BY <1>8, EndFrame DEF MainSetup, MainJoin, MainDestroy, MainFinish
  <2>2. \A u \in Threads : Claimed(u)' <=> Claimed(u)
    BY <2>1 DEF Claimed
  <2> QED
    BY <2>1, <2>2, ClaimKept
<1> QED
  BY <1>3, <1>4, <1>5, <1>6, <1>7, <1>8, StepCases DEF Main

\* A worker that uses a name holds its index.
LEMMA NamedClaimed ==
  ASSUME NameInv, NEW t \in Threads, HasName(t)
  PROVE  Claimed(t)
<1>1. fileNumber[t] \in Files
  BY DEF NameInv
<1>2. fileNumber[t] # NoFile
  BY <1>1, ConstantTypes
<1> QED
  BY <1>2 DEF HasName, Claimed

LEMMA NameStep ==
  ASSUME PoolInv, [Next]_vars
  PROVE  NameInv'
<1> USE DEF PoolInv, Types, NameInv, HasName
<1>1. ASSUME NEW t \in Threads, FreeName(t)
      PROVE  NameInv'
  <2>1. /\ fileNumber' = fileNumber /\ pc'[t] = "check"
        /\ filenames' = [filenames EXCEPT ![fileNumber[t]] = "freed"]
        /\ \A u \in Threads : u # t => pc'[u] = pc[u]
    BY <1>1 DEF FreeName
  <2>2. ASSUME NEW u \in Threads, HasName(u)'
        PROVE  fileNumber[u] # fileNumber[t] /\ HasName(u)
    <3>1. u # t /\ HasName(u)
      BY <2>1, <2>2
    <3>2. HasName(t)
      BY <1>1 DEF FreeName
    <3>3. Claimed(u) /\ Claimed(t)
      BY <3>1, <3>2, NamedClaimed
    <3> QED
      BY <3>1, <3>3 DEF IndexInv, ClaimInv, UniqueClaim
  <2> QED
    BY <2>1, <2>2
<1>2. ASSUME NEW t \in Threads, Worker(t), ~FreeName(t)
      PROVE  NameInv'
  <2>1. \A u \in Threads :
          u # t => pc'[u] = pc[u] /\ fileNumber'[u] = fileNumber[u]
    BY <1>2, WorkerFrame
  <2>2. /\ filenames' = filenames
        /\ HasName(t)' => fileNumber'[t] \in Files /\ filenames[fileNumber'[t]] = "live"
    <3>1. CASE CheckNext(t) \/ WaitRead(t) \/ TakeIndex(t)
      BY <3>1 DEF CheckNext, WaitRead, TakeIndex
    <3>4. CASE BumpIndex(t) \/ PostRead(t)
      BY <3>4 DEF BumpIndex, PostRead
    <3>5. CASE LoopEnds(t)
      BY <3>5 DEF LoopEnds
    <3>2. CASE OpenFile(t) \/ OpenFileFails(t) \/ ProcessBlocks(t)
      BY <3>2 DEF OpenFile, OpenFileFails, ProcessBlocks
    <3>3. CASE WaitWrite(t) \/ WritePart(t) \/ WriteFails(t) \/ PostWrite(t)
      BY <3>3 DEF WaitWrite, WritePart, WriteFails, PostWrite
    <3> QED
      BY <1>2, <3>1, <3>2, <3>3, <3>4, <3>5 DEF Worker
  <2> QED
    BY <2>1, <2>2
<1>3. CASE MainSetup
  BY <1>3 DEF MainSetup, MainInv
<1>4. CASE MainCreate
  BY <1>4, CreateFrame
<1>5. CASE MainJoin \/ MainDestroy \/ MainFinish
  BY <1>5 DEF MainJoin, MainDestroy, MainFinish
<1>6. CASE MainAborts \/ (\E t \in Threads : Crash(t)) \/ UNCHANGED vars
  BY <1>6, EndFrame
<1> QED
  BY <1>1, <1>2, <1>3, <1>4, <1>5, <1>6, StepCases DEF Main

LEMMA RangeStep ==
  ASSUME PoolInv, [Next]_vars
  PROVE  RangeInv'
<1> USE ConstantTypes DEF PoolInv, Types, RangeInv
<1>1. nextFile <= UintMax
  BY PendingFinite DEF IndexInv
<1>2. ASSUME NEW t \in Threads, CheckNext(t) \/ TakeIndex(t)
      PROVE  RangeInv'
  <2>1. /\ fileNumber'[t] \in {fileNumber[t], NoFile, nextFile}
        /\ \A u \in Threads : u # t => fileNumber'[u] = fileNumber[u]
    BY <1>2 DEF CheckNext, TakeIndex
  <2>2. fileNumber[t] <= UintMax /\ UintMax <= UintMax
    OBVIOUS
  <2>3. fileNumber'[t] <= UintMax
    BY <1>1, <2>1, <2>2
  <2>4. \A u \in Threads : u # t => fileNumber'[u] <= UintMax
    BY <2>1
  <2> QED
    BY <2>3, <2>4
<1>3. ASSUME NEW t \in Threads, BumpIndex(t)
      PROVE  RangeInv'
  BY <1>3 DEF BumpIndex
<1>4. ASSUME NEW t \in Threads,
             Worker(t), ~CheckNext(t), ~TakeIndex(t), ~BumpIndex(t)
      PROVE  RangeInv'
  BY <1>4, ClaimFrame
<1>5. CASE MainCreate
  BY <1>5, CreateFrame
<1>6. CASE MainSetup \/ MainJoin \/ MainDestroy \/ MainFinish
  BY <1>6 DEF MainSetup, MainJoin, MainDestroy, MainFinish
<1>7. CASE MainAborts \/ (\E t \in Threads : Crash(t)) \/ UNCHANGED vars
  BY <1>7, EndFrame
<1> QED
  BY <1>2, <1>3, <1>4, <1>5, <1>6, <1>7, StepCases DEF Main

LEMMA InitPool ==
  ASSUME Init
  PROVE  PoolInv
<1> USE ConstantTypes DEF Init
<1>1. Types
  BY DEF Types
<1>2. MainInv /\ ReadInv /\ WriteInv /\ NameInv /\ RangeInv
  BY DEF MainInv, ReadInv, WriteInv, NameInv, RangeInv, HoldsRead, HoldsWrite, HasName
<1>3. Pending = {}
  BY DEF Pending
<1>4. IndexInv
  <2>1. Cardinality(Pending) = 0
    BY <1>3, FS_EmptySet
  <2> QED
    BY <2>1 DEF IndexInv, ClaimInv, UniqueClaim, Claimed
<1> QED
  BY <1>1, <1>2, <1>4 DEF PoolInv

-----------------------------------------------------------------------------
(* Theorems *)

\* The strengthening holds in every reachable state.
THEOREM PoolInvariant == Spec => []PoolInv
<1>1. Init => PoolInv
  BY InitPool
<1>2. PoolInv /\ [Next]_vars => PoolInv'
  BY TypesStep, MainStep, ReadStep, WriteStep, CountStep,
     ClaimStep, NameStep, RangeStep
  DEF PoolInv, IndexInv
<1> QED
  BY <1>1, <1>2, PTL DEF Spec

\* Whatever the number of files and workers, the variables keep their types:
\* both semaphores of main stay binary and nextFile never wraps around.
THEOREM TypeCorrect == Spec => []TypeOK
<1>1. PoolInv => TypeOK
  <2> SUFFICES ASSUME PoolInv
               PROVE  TypeOK
    OBVIOUS
  <2>1. nextFile \in 0 .. UintMax
    BY PendingFinite, ConstantTypes DEF PoolInv, Types, IndexInv
  <2>2. fileNumber \in [Threads -> 0 .. UintMax]
    BY ConstantTypes DEF PoolInv, Types, RangeInv
  <2> QED
    BY <2>1, <2>2 DEF PoolInv, Types, TypeOK
<1> QED
  BY <1>1, PoolInvariant, PTL

\* getNextFile hands out no index beyond numberFiles + nb_threads - 2: the
\* test outside the semaphore costs at most one index per other worker.
THEOREM OverrunBounded == Spec => []OverrunBound
<1>1. PoolInv => OverrunBound
  <2> SUFFICES ASSUME PoolInv
               PROVE  OverrunBound
    OBVIOUS
  <2> USE ConstantTypes DEF PoolInv, Types, IndexInv, ClaimInv
  <2>1. nextFile <= NumberFiles + NbThreads - 1
    BY PendingFinite
  <2>2. ASSUME NEW t \in Threads, Claimed(t)
        PROVE  fileNumber[t] < NumberFiles + NbThreads - 1
    <3>1. CASE pc[t] = "bump"
      <4>1. t \in Pending /\ fileNumber[t] = nextFile
        BY <3>1 DEF Pending
      <4>2. Cardinality(Pending) # 0
        BY <4>1, PendingFinite, FS_EmptySet
      <4> QED
        BY SMTT(30), <4>1, <4>2, PendingFinite
    <3>2. CASE pc[t] # "bump"
      BY <2>1, <2>2, <3>2
    <3> QED
      BY <3>1, <3>2
  <2> QED
    BY <2>1, <2>2 DEF OverrunBound
<1> QED
  BY <1>1, PoolInvariant, PTL

\* Two workers never hold the same file.
THEOREM ClaimsUnique == Spec => []UniqueClaim
<1>1. PoolInv => UniqueClaim
  BY DEF PoolInv, IndexInv, ClaimInv
<1> QED
  BY <1>1, PoolInvariant, PTL

\* A taken semaphore has a holder: whichever call fails, no worker leaves
\* getNextFile or processFile between sem_wait and sem_post.
THEOREM SemaphoresReturned == Spec => []SemaphoresHeld
<1>1. ASSUME PoolInv, mainPc # "setup", semRead = 0
      PROVE  \E t \in Threads : HoldsRead(t)
  BY <1>1 DEF PoolInv, ReadInv
<1>2. ASSUME PoolInv, mainPc # "setup", semWrite = 0
      PROVE  \E t \in Threads : HoldsWrite(t)
  BY <1>2 DEF PoolInv, WriteInv
<1>3. PoolInv => SemaphoresHeld
  BY <1>1, <1>2 DEF SemaphoresHeld, HoldsRead, HoldsWrite
<1> QED
  BY <1>3, PoolInvariant, PTL

\* A worker uses only a name that readDir allocated and nobody has freed.
THEOREM NamesAlive == Spec => []NameAlive
<1>1. PoolInv => NameAlive
  BY DEF PoolInv, NameInv, HasName, MainInv, NameAlive
<1> QED
  BY <1>1, PoolInvariant, PTL

\* main destroys the semaphores and frees the array of names after the last
\* access to them.
THEOREM DestroyedUnused == Spec => []DestroyedIdle
<1>1. PoolInv => DestroyedIdle
  BY DEF PoolInv, MainInv, ReadInv, WriteInv, HoldsRead, HoldsWrite,
         DestroyedIdle
<1> QED
  BY <1>1, PoolInvariant, PTL

HIDE DEF Goto, Return, Slot, AfterWriteError, Exhausted, ToJoin, InitialValue,
         Threads, Files, NoFile, mainVars, sharedVars, workerVars, faultVars

-----------------------------------------------------------------------------
(***************************************************************************)
(* Records.  The fwrites of two records are never mixed.  Besides          *)
(* RecordsContiguous the invariant says what the last fwrite on the stream *)
(* is: the previous part of its own record while a worker is writing one,  *)
(* otherwise the end of a record.                                          *)
(***************************************************************************)

\* i is the last fwrite on the stream.
Last(i) ==
  /\ i \in DOMAIN output
  /\ output[i] # Debug
  /\ \A k \in i + 1 .. Len(output) : output[k] = Debug

\* The record of that fwrite ends with it.
Closed(i) == output[i].part = RecordParts \/ output[i].file \in truncated

Writing(t) == pc[t] = "write"

AllClosed == \A i \in DOMAIN output : Last(i) => Closed(i)

WriterInv ==
  \A t \in Threads : Writing(t) =>
    IF written[t] = 0 THEN AllClosed
    ELSE \E i \in DOMAIN output : Last(i) /\ output[i] = Part(fileNumber[t], written[t])

IdleInv == (\A t \in Threads : ~ Writing(t)) => AllClosed

RecordInv == RecordsContiguous /\ WriterInv /\ IdleInv

-----------------------------------------------------------------------------
(* The stream *)

\* Adding something at the end of the stream keeps what is on it.
LEMMA Appended ==
  ASSUME output \in Seq(OutputItem), NEW e \in OutputItem, output' = Append(output, e)
  PROVE  /\ Len(output) \in Nat /\ DOMAIN output = 1 .. Len(output)
         /\ Len(output') = Len(output) + 1 /\ DOMAIN output' = 1 .. Len(output) + 1
         /\ \A i \in DOMAIN output : output'[i] = output[i]
         /\ output'[Len(output) + 1] = e
  OBVIOUS

LEMMA DebugItem == Debug \in OutputItem
  BY DEF OutputItem

LEMMA PartNotDebug ==
  ASSUME NEW f, NEW k \in Nat \ {0}
  PROVE  Part(f, k) # Debug /\ Part(f, k).file = f /\ Part(f, k).part = k
  BY DEF Part, Debug

LEMMA LastUnique ==
  ASSUME output \in Seq(OutputItem), NEW i, NEW k, Last(i), Last(k)
  PROVE  i = k
  BY DEF Last

\* Between two places of the old stream nothing changes.
LEMMA FollowsKept ==
  ASSUME output \in Seq(OutputItem), NEW e \in OutputItem, output' = Append(output, e),
         NEW i \in DOMAIN output, NEW j \in DOMAIN output
  PROVE  Follows(i, j)' <=> Follows(i, j)
<1>1. \A k \in i + 1 .. j - 1 : k \in DOMAIN output
  BY Appended
<1> QED
  BY <1>1, Appended DEF Follows

\* What the new end of the stream follows is the old last fwrite.
LEMMA FollowsLast ==
  ASSUME output \in Seq(OutputItem), NEW e \in OutputItem, output' = Append(output, e),
         NEW i \in DOMAIN output, NEW n, n = Len(output) + 1
  PROVE  Follows(i, n)' <=> Last(i)
<1>1. i < n /\ n - 1 = Len(output) /\ i \in Nat
  BY Appended
<1>2. \A k \in i + 1 .. Len(output) : k \in DOMAIN output
  BY <1>1, Appended
<1>3. output'[i] = output[i] /\ \A k \in i + 1 .. Len(output) : output'[k] = output[k]
  BY <1>2, Appended
<1>4. Follows(i, n)' <=> /\ i < n /\ output'[i] # Debug
                         /\ \A k \in i + 1 .. n - 1 : output'[k] = Debug
  BY DEF Follows, Debug
<1> QED
  BY <1>1, <1>3, <1>4 DEF Last

\* A printed line is never the last fwrite, and hides none.
LEMMA LastKept ==
  ASSUME output \in Seq(OutputItem), output' = Append(output, Debug), NEW i
  PROVE  Last(i)' <=> Last(i)
<1>1. /\ Len(output) \in Nat /\ DOMAIN output = 1 .. Len(output)
      /\ Len(output') = Len(output) + 1 /\ DOMAIN output' = 1 .. Len(output) + 1
      /\ \A k \in DOMAIN output : output'[k] = output[k]
      /\ output'[Len(output) + 1] = Debug
  BY Appended, DebugItem
<1>2. ASSUME Last(i)
      PROVE  Last(i)'
  BY <1>1, <1>2 DEF Last
<1>3. ASSUME Last(i)'
      PROVE  Last(i)
  <2>1. i \in DOMAIN output
    BY <1>1, <1>3 DEF Last
  <2> QED
    BY <1>1, <1>3, <2>1 DEF Last
<1> QED
  BY <1>2, <1>3

\* A new fwrite is the last one.
LEMMA LastNew ==
  ASSUME output \in Seq(OutputItem), NEW e \in OutputItem, e # Debug,
         output' = Append(output, e), NEW n, n = Len(output) + 1
  PROVE  Last(n)' /\ \A i : Last(i)' => i = n
<1>1. n \in Nat /\ DOMAIN output' = 1 .. n /\ Len(output') = n /\ output'[n] = e
  BY Appended
<1>2. \A i : Last(i)' <=> /\ i \in DOMAIN output' /\ output'[i] # Debug
                         /\ \A k \in i + 1 .. Len(output') : output'[k] = Debug
  BY DEF Last, Debug
<1> QED
  BY <1>1, <1>2

\* RecordsContiguous for one fwrite.
Joined(j) ==
  IF output[j].part = 1
  THEN \A i \in DOMAIN output : Follows(i, j) => Closed(i)
  ELSE \E i \in DOMAIN output :
         Follows(i, j) /\ output[i] = Part(output[j].file, output[j].part - 1)

LEMMA ContiguousJoined ==
  RecordsContiguous <=> \A j \in DOMAIN output : output[j] # Debug => Joined(j)
  BY DEF RecordsContiguous, Joined, Closed

\* The old fwrites stay joined, whatever is added.
LEMMA JoinedKept ==
  ASSUME output \in Seq(OutputItem), NEW e \in OutputItem, output' = Append(output, e),
         truncated' = truncated, NEW j \in DOMAIN output, Joined(j)
  PROVE  Joined(j)'
<1>1. output'[j] = output[j]
  BY Appended
<1>2. CASE output[j].part = 1
  <2>1. ASSUME NEW i \in DOMAIN output', Follows(i, j)'
        PROVE  Closed(i)'
    <3>1. i \in DOMAIN output
      BY <2>1, Appended DEF Follows
    <3>2. Closed(i)
      BY <1>2, <2>1, <3>1, FollowsKept DEF Joined
    <3> QED
      BY <3>1, <3>2, Appended DEF Closed
  <2> QED
    BY <1>1, <1>2, <2>1 DEF Joined
<1>3. CASE output[j].part # 1
  <2>1. PICK i \in DOMAIN output :
          Follows(i, j) /\ output[i] = Part(output[j].file, output[j].part - 1)
    BY <1>3 DEF Joined
  <2>2. Follows(i, j)' /\ i \in DOMAIN output' /\ output'[i] = output[i]
    BY <2>1, FollowsKept, Appended
  <2>3. output'[i] = Part(output'[j].file, output'[j].part - 1)
    BY <1>1, <2>1, <2>2
  <2> QED
    BY <1>1, <1>3, <2>2, <2>3 DEF Joined, Part
<1> QED
  BY <1>2, <1>3

-----------------------------------------------------------------------------
(* Steps *)

\* The writers stay the same and nothing but a line is added to the stream.
SameWriters ==
  /\ truncated' = truncated
  /\ output' = output \/ output' = Append(output, Debug)
  /\ \A t \in Threads :
       /\ Writing(t)' <=> Writing(t)
       /\ Writing(t) => written'[t] = written[t] /\ fileNumber'[t] = fileNumber[t]

LEMMA RecordsKept ==
  ASSUME output \in Seq(OutputItem), RecordInv, SameWriters
  PROVE  RecordInv'
<1>1. CASE output' = output
  <2>1. RecordsContiguous'
    BY <1>1 DEF RecordInv, SameWriters, RecordsContiguous, Follows
  <2>2. AllClosed => AllClosed'
    BY <1>1 DEF AllClosed, Last, Closed, SameWriters
  <2>3. IdleInv'
    BY <2>2 DEF RecordInv, IdleInv, SameWriters
  <2>4. WriterInv'
    <3> SUFFICES ASSUME NEW t \in Threads, Writing(t)'
                 PROVE  IF written'[t] = 0 THEN AllClosed'
                        ELSE \E i \in DOMAIN output' :
                          Last(i)' /\ output'[i] = Part(fileNumber'[t], written'[t])
      BY DEF WriterInv, Part
    <3>1. Writing(t) /\ written'[t] = written[t] /\ fileNumber'[t] = fileNumber[t]
      BY DEF SameWriters
    <3>2. \A i : Last(i)' <=> Last(i)
      BY <1>1 DEF Last
    <3> QED
      BY <1>1, <2>2, <3>1, <3>2 DEF RecordInv, WriterInv
  <2> QED
    BY <2>1, <2>3, <2>4 DEF RecordInv
<1>2. CASE output' = Append(output, Debug)
  <2>1. RecordsContiguous'
    <3>1. ASSUME NEW j \in DOMAIN output', output'[j] # Debug
          PROVE  Joined(j)'
      <4>1. j \in DOMAIN output /\ output'[j] = output[j]
        BY <1>2, <3>1, Appended, DebugItem
      <4>2. Joined(j)
        BY <3>1, <4>1, ContiguousJoined DEF RecordInv
      <4> QED
        BY <1>2, <4>1, <4>2, JoinedKept, DebugItem DEF SameWriters
    <3>2. \A j \in DOMAIN output' : output'[j] # Debug => Joined(j)'
      BY <3>1
    <3>3. (\A j \in DOMAIN output : output[j] # Debug => Joined(j))' => RecordsContiguous'
      BY ContiguousJoined, PTL
    <3> QED
      BY <3>2, <3>3 DEF Debug
  <2>2. \A i \in DOMAIN output : i \in DOMAIN output' /\ output'[i] = output[i]
    BY <1>2, Appended, DebugItem
  <2>3. \A i : Last(i)' <=> Last(i)
    BY <1>2, LastKept
  <2>4. AllClosed => AllClosed'
    BY <2>2, <2>3 DEF AllClosed, Closed, SameWriters, Last
  <2>5. IdleInv'
    BY <2>4 DEF RecordInv, IdleInv, SameWriters
  <2>6. WriterInv'
    <3> SUFFICES ASSUME NEW t \in Threads, Writing(t)'
                 PROVE  IF written'[t] = 0 THEN AllClosed'
                        ELSE \E i \in DOMAIN output' :
                          Last(i)' /\ output'[i] = Part(fileNumber'[t], written'[t])
      BY DEF WriterInv, Part
    <3>1. Writing(t) /\ written'[t] = written[t] /\ fileNumber'[t] = fileNumber[t]
      BY DEF SameWriters
    <3>2. CASE written[t] = 0
      BY <2>4, <3>1, <3>2 DEF RecordInv, WriterInv
    <3>3. CASE written[t] # 0
      <4>1. PICK i \in DOMAIN output :
              Last(i) /\ output[i] = Part(fileNumber[t], written[t])
        BY <3>1, <3>3 DEF RecordInv, WriterInv
      <4> QED
        BY <2>2, <2>3, <3>1, <3>3, <4>1
    <3> QED
      BY <3>2, <3>3
  <2> QED
    BY <2>1, <2>5, <2>6 DEF RecordInv
<1> QED
  BY <1>1, <1>2 DEF SameWriters

USE DEF Goto, Return, Slot, AfterWriteError, Exhausted, ToJoin, InitialValue,
        Threads, Files, NoFile, mainVars, sharedVars, workerVars, faultVars

\* The next part of the writer's record: the first follows a closed record, every
\* other the part before it.
LEMMA RecordPart ==
  ASSUME PoolInv, RecordInv, NEW t \in Threads, WritePart(t)
  PROVE  RecordInv'
<1> DEFINE e == Part(fileNumber[t], written[t] + 1)
<1>1. /\ output \in Seq(OutputItem) /\ fileNumber[t] \in Files
      /\ written[t] \in Nat /\ written[t] < RecordParts
  BY DEF PoolInv, Types, NameInv, HasName, WritePart
<1>2. e \in OutputItem /\ e # Debug /\ e.file = fileNumber[t] /\ e.part = written[t] + 1
  BY <1>1, PartType, PartNotDebug, ConstantTypes
<1>3. output' = Append(output, e) /\ truncated' = truncated /\ fileNumber' = fileNumber
  BY DEF WritePart, faultVars
<1>4. PICK n \in Nat : n = Len(output) + 1
  BY <1>1, <1>3, Appended, <1>2
<1>5. n \in DOMAIN output' /\ output'[n] = e
  BY <1>1, <1>2, <1>3, <1>4, Appended
<1>6. Last(n)' /\ \A i : Last(i)' => i = n
  BY <1>1, <1>2, <1>3, <1>4, LastNew
<1> HIDE DEF e
<1>7. Writing(t) /\ \A u \in Threads : Writing(u) => u = t
  BY DEF WritePart, Writing, PoolInv, WriteInv, HoldsWrite
<1>8. \A u \in Threads : Writing(u)' => u = t
  BY <1>7 DEF WritePart, Writing, PoolInv, Types
<1>9. Joined(n)'
  <2>1. \A i \in DOMAIN output' : Follows(i, n)' => i \in DOMAIN output
    <3>1. \A i : Follows(i, n)' => i < n
      BY DEF Follows
    <3> QED
      BY <1>1, <1>2, <1>3, <1>4, <3>1, Appended
  <2>2. \A i \in DOMAIN output :
          /\ i \in DOMAIN output' /\ output'[i] = output[i]
          /\ Follows(i, n)' <=> Last(i)
    BY <1>1, <1>2, <1>3, <1>4, Appended, FollowsLast
  <2>3. CASE written[t] = 0
    <3>1. AllClosed /\ output'[n].part = 1
      BY <1>2, <1>5, <1>7, <2>3 DEF RecordInv, WriterInv
    <3>2. \A i \in DOMAIN output' : Follows(i, n)' => Closed(i)'
      BY <1>3, <2>1, <2>2, <3>1 DEF AllClosed, Closed
    <3> QED
      BY <3>1, <3>2 DEF Joined
  <2>4. CASE written[t] # 0
    <3>1. PICK i \in DOMAIN output : Last(i) /\ output[i] = Part(fileNumber[t], written[t])
      BY <1>7, <2>4 DEF RecordInv, WriterInv
    <3>2. output'[n].part # 1 /\ output'[n].part - 1 = written[t]
          /\ output'[n].file = fileNumber[t]
      BY SMTT(30), <1>1, <1>2, <1>5, <2>4
    <3>3. /\ i \in DOMAIN output' /\ Follows(i, n)'
          /\ output'[i] = Part(output'[n].file, output'[n].part - 1)
      BY <2>2, <3>1, <3>2
    <3> QED
      BY <3>2, <3>3 DEF Joined, Part
  <2> QED
    BY <2>3, <2>4
<1>10. RecordsContiguous'
  <2>1. ASSUME NEW j \in DOMAIN output', output'[j] # Debug
        PROVE  Joined(j)'
    <3>1. CASE j = n
      BY <1>9, <3>1
    <3>2. CASE j # n
      <4>1. j \in DOMAIN output /\ output'[j] = output[j]
        BY <1>1, <1>2, <1>3, <1>4, <2>1, <3>2, Appended
      <4>2. Joined(j)
        BY <2>1, <4>1, ContiguousJoined DEF RecordInv
      <4> QED
        BY <1>1, <1>2, <1>3, <4>1, <4>2, JoinedKept
    <3> QED
      BY <3>1, <3>2
  <2>2. (\A j \in DOMAIN output : output[j] # Debug => Joined(j))' => RecordsContiguous'
    BY ContiguousJoined, PTL
  <2> QED
    BY <2>1, <2>2 DEF Debug
<1>11. CASE written[t] + 1 = RecordParts
  <2>1. ~ Writing(t)'
    BY <1>11 DEF WritePart, Writing, PoolInv, Types
  <2>2. AllClosed'
    BY <1>2, <1>5, <1>6, <1>11 DEF AllClosed, Closed, RecordParts
  <2> QED
    BY <1>8, <1>10, <2>1, <2>2 DEF RecordInv, WriterInv, IdleInv
<1>12. CASE written[t] + 1 # RecordParts
  <2>1. Writing(t)' /\ written'[t] = written[t] + 1
    BY <1>12 DEF WritePart, Writing, PoolInv, Types
  <2>2. output'[n] = Part(fileNumber'[t], written'[t]) /\ written'[t] # 0
    BY <1>1, <1>3, <1>5, <2>1 DEF e
  <2>3. WriterInv'
    <3>1. \A u \in Threads : Writing(u)' => u = t
      BY <1>8
    <3>2. \E i \in DOMAIN output' : Last(i)' /\ output'[i] = Part(fileNumber'[t], written'[t])
      BY <1>5, <1>6, <2>2
    <3>3. \A u \in Threads : Writing(u)' =>
            IF written'[u] = 0 THEN AllClosed'
            ELSE \E i \in DOMAIN output' :
                   Last(i)' /\ output'[i] = Part(fileNumber'[u], written'[u])
      BY <2>2, <3>1, <3>2
    <3> QED
      BY <3>3 DEF WriterInv, Part
  <2> QED
    BY <1>10, <2>1, <2>3 DEF RecordInv, IdleInv
<1> QED
  BY <1>11, <1>12

\* A failed fwrite closes the record of the writer.
LEMMA RecordCut ==
  ASSUME PoolInv, RecordInv, NEW t \in Threads, WriteFails(t)
  PROVE  RecordInv'
<1>1. /\ output' = output /\ truncated' = truncated \cup {fileNumber[t]}
      /\ output \in Seq(OutputItem) /\ written[t] \in Nat
  BY DEF WriteFails, sharedVars, PoolInv, Types
<1>2. Writing(t) /\ \A u \in Threads : ~ Writing(u)'
  BY DEF WriteFails, Writing, PoolInv, WriteInv, HoldsWrite, Types
<1>3. \A i : Last(i)' <=> Last(i)
  BY <1>1 DEF Last
<1>4. \A i : Closed(i) => Closed(i)'
  BY <1>1 DEF Closed, RecordParts
<1>5. RecordsContiguous'
  BY <1>1 DEF RecordInv, RecordsContiguous, Follows
<1>6. AllClosed'
  <2>1. CASE written[t] = 0
    BY <1>1, <1>2, <1>3, <1>4, <2>1 DEF RecordInv, WriterInv, AllClosed
  <2>2. CASE written[t] # 0
    <3>1. PICK i \in DOMAIN output : Last(i) /\ output[i] = Part(fileNumber[t], written[t])
      BY <1>2, <2>2 DEF RecordInv, WriterInv
    <3>2. Closed(i)'
      BY <1>1, <3>1 DEF Closed, Part
    <3>3. \A k : Last(k)' => k = i
      BY <1>1, <1>3, <3>1, LastUnique
    <3> QED
      BY <3>2, <3>3 DEF AllClosed
  <2> QED
    BY <2>1, <2>2
<1> QED
  BY <1>2, <1>5, <1>6 DEF RecordInv, WriterInv, IdleInv

\* A writer begins when no other one is left, so all records are closed.
LEMMA RecordBegins ==
  ASSUME PoolInv, RecordInv, NEW t \in Threads, WaitWrite(t)
  PROVE  RecordInv'
<1>1. output' = output /\ truncated' = truncated
  BY DEF WaitWrite, faultVars
<1>2. mainPc # "setup" /\ semWrite = 1
  BY DEF WaitWrite, PoolInv, Types, MainInv
<1>3. \A u \in Threads : ~ Writing(u)
  BY <1>2 DEF PoolInv, WriteInv, HoldsWrite, Writing
<1>4. \A u \in Threads : Writing(u)' <=> u = t
  BY <1>3 DEF WaitWrite, Writing, PoolInv, Types
<1>5. written'[t] = 0
  BY DEF WaitWrite, PoolInv, Types
<1>6. AllClosed'
  BY <1>1, <1>3 DEF RecordInv, IdleInv, AllClosed, Last, Closed
<1>7. RecordsContiguous'
  BY <1>1 DEF RecordInv, RecordsContiguous, Follows
<1> QED
  BY <1>4, <1>5, <1>6, <1>7 DEF RecordInv, WriterInv, IdleInv

\* Every other step leaves the writers alone.
LEMMA OtherSteps ==
  ASSUME PoolInv, [Next]_vars,
         \A t \in Threads : ~ WritePart(t) /\ ~ WriteFails(t) /\ ~ WaitWrite(t)
  PROVE  SameWriters
<1> USE DEF PoolInv, Types, SameWriters, Writing
<1>1. CASE MainSetup \/ MainJoin \/ MainDestroy \/ MainFinish
  BY <1>1 DEF MainSetup, MainJoin, MainDestroy, MainFinish
<1>2. CASE MainCreate
  BY <1>2, CreateFrame
<1>3. ASSUME NEW t \in Threads, Worker(t)
      PROVE  SameWriters
  <2>1. \A u \in Threads : u # t =>
          pc'[u] = pc[u] /\ written'[u] = written[u] /\ fileNumber'[u] = fileNumber[u]
    BY <1>3, WorkerFrame
  <2>2. CASE CheckNext(t) \/ WaitRead(t) \/ TakeIndex(t) \/ BumpIndex(t) \/ PostRead(t)
    BY <2>1, <2>2 DEF CheckNext, WaitRead, TakeIndex, BumpIndex, PostRead
  <2>3. CASE LoopEnds(t) \/ OpenFile(t) \/ OpenFileFails(t) \/ ProcessBlocks(t)
    BY <2>1, <2>3 DEF LoopEnds, OpenFile, OpenFileFails, ProcessBlocks, Printed
  <2>4. CASE PostWrite(t) \/ FreeName(t)
    BY <2>1, <2>4 DEF PostWrite, FreeName
  <2> QED
    BY <1>3, <2>2, <2>3, <2>4 DEF Worker
<1>4. CASE MainAborts \/ (\E t \in Threads : Crash(t)) \/ UNCHANGED vars
  BY <1>4, EndFrame
<1> QED
  BY <1>1, <1>2, <1>3, <1>4, StepCases DEF Main

-----------------------------------------------------------------------------
(* Theorems *)

LEMMA InitRecord == Init => RecordInv
  BY DEF Init, RecordInv, RecordsContiguous, WriterInv, IdleInv, AllClosed, Writing

LEMMA NextRecord == PoolInv /\ RecordInv /\ [Next]_vars => RecordInv'
<1> SUFFICES ASSUME PoolInv, RecordInv, [Next]_vars
             PROVE  RecordInv'
  OBVIOUS
<1>1. CASE \E t \in Threads : WritePart(t) \/ WriteFails(t) \/ WaitWrite(t)
  BY <1>1, RecordPart, RecordCut, RecordBegins
<1>2. CASE \A t \in Threads : ~ WritePart(t) /\ ~ WriteFails(t) /\ ~ WaitWrite(t)
  <2>1. output \in Seq(OutputItem)
    BY DEF PoolInv, Types
  <2> QED
    BY <1>2, <2>1, OtherSteps, RecordsKept
<1> QED
  BY <1>1, <1>2

\* For any number of workers and symbols the fwrites of one record follow each
\* other on the stream, but for lines that a verbose run prints between them;
\* the next record begins where one ended or was cut short.
THEOREM RecordsNotMixed == Spec => []RecordsContiguous
<1>1. RecordInv => RecordsContiguous
  BY DEF RecordInv
<1> QED
  BY InitRecord, NextRecord, PoolInvariant, <1>1, PTL DEF Spec

HIDE DEF Goto, Return, Slot, AfterWriteError, Exhausted, ToJoin, InitialValue,
         Threads, Files, NoFile, mainVars, sharedVars, workerVars, faultVars

-----------------------------------------------------------------------------
(***************************************************************************)
(* Accounts.  What becomes of every name: each index that was handed out   *)
(* is held by a worker that has yet to finish it, or ended in a record, in *)
(* a record cut short or with its worker.  From this follow FilesAccounted *)
(* and that every step of the threads is a step of DecodeArchive or        *)
(* changes nothing there.                                                  *)
(***************************************************************************)

\* The worker t holds the index f and has not finished its record.
Busy(t, f) ==
  /\ pc[t] \in {"postRead", "loop", "process", "waitWrite", "write"}
  /\ fileNumber[t] = f

Settled(f) == Whole(f) \/ f \in truncated \/ \E t \in Threads : DiedOn(t, f)

\* How a worker that has returned ended.
DoneInv ==
  \A t \in Threads :
    /\ pc[t] = "done" <=> ret[t] # "none"
    /\ ret[t] = "null" => fileNumber[t] < nextFile
    /\ ret[t] = "stream" => nextFile >= NumberFiles
    /\ pc[t] = "loop" /\ fileNumber[t] = NoFile => nextFile >= NumberFiles
    /\ pc[t] = "postRead" => fileNumber[t] # NoFile

\* The index on which a worker died belongs to no other one.
DeadInv ==
  \A t, u \in Threads :
    t # u /\ ret[t] = "null" /\ (ret[u] = "null" \/ Claimed(u)) =>
      fileNumber[t] # fileNumber[u]

\* A record in the stream, whole or cut, is of an index that was handed out.
HandedInv == \A f \in Files : Whole(f) \/ f \in truncated => f < nextFile

\* Every index that was handed out ended or is being worked on; not both.
OwnerInv ==
  \A f \in Files :
    /\ f < nextFile => Settled(f) \/ \E t \in Threads : Busy(t, f)
    /\ \A t \in Threads : Busy(t, f) => ~ Whole(f) /\ f \notin truncated

SuccessInv == status = "success" => mainPc = "end"

-----------------------------------------------------------------------------
(* Steps *)

USE DEF Goto, Return, Slot, AfterWriteError, Exhausted, ToJoin, InitialValue,
        Threads, Files, NoFile, mainVars, sharedVars, workerVars, faultVars

\* Only the last part of a record makes a file whole.
LEMMA WholeKept ==
  ASSUME output \in Seq(OutputItem),
         output' = output \/ output' = Append(output, Debug)
  PROVE  \A f \in Files : Whole(f)' <=> Whole(f)
<1>1. Debug \in OutputItem /\ \A f \in Files : Part(f, RecordParts) # Debug
  BY ConstantTypes DEF OutputItem, Debug, Part
<1>2. CASE output' = output
  BY <1>2 DEF Whole
<1>3. CASE output' = Append(output, Debug)
  <2>1. /\ DOMAIN output' = 1 .. Len(output) + 1 /\ DOMAIN output = 1 .. Len(output)
        /\ output'[Len(output) + 1] = Debug /\ Len(output) \in Nat
        /\ \A i \in DOMAIN output : output'[i] = output[i]
    BY <1>1, <1>3
  <2> QED
    BY <1>1, <2>1 DEF Whole, Part, RecordParts
<1> QED
  BY <1>2, <1>3

LEMMA WholeAppended ==
  ASSUME output \in Seq(OutputItem), NEW g \in Files, NEW k \in 1 .. RecordParts,
         output' = Append(output, Part(g, k))
  PROVE  \A f \in Files : Whole(f)' <=> Whole(f) \/ (f = g /\ k = RecordParts)
<1>1. Part(g, k) \in OutputItem
  BY PartType
<1>2. \A f \in Files : Part(f, RecordParts) = Part(g, k) <=> f = g /\ k = RecordParts
  BY DEF Part
<1>3. /\ DOMAIN output' = 1 .. Len(output) + 1 /\ DOMAIN output = 1 .. Len(output)
      /\ output'[Len(output) + 1] = Part(g, k) /\ Len(output) \in Nat
      /\ \A i \in DOMAIN output : output'[i] = output[i]
  BY <1>1
<1> HIDE DEF Files
<1>4. \A f \in Files : Whole(f)' <=> \E i \in DOMAIN output' : output'[i] = Part(f, RecordParts)
  BY DEF Whole, Part, RecordParts
<1> QED
  BY <1>2, <1>3, <1>4 DEF Whole

\* Nobody takes, finishes or gives up an index, and nobody finds them
\* exhausted.
Quiet ==
  /\ UNCHANGED <<nextFile, fileNumber, ret, truncated>>
  /\ output' = output \/ output' = Append(output, Debug)
  /\ \A u \in Threads :
       /\ pc'[u] = "done" <=> pc[u] = "done"
       /\ \A f \in Files : Busy(u, f)' <=> Busy(u, f)
       /\ Claimed(u)' => Claimed(u)
       /\ pc'[u] = "loop" /\ fileNumber[u] = NoFile => pc[u] \in {"loop", "postRead"}
       /\ pc'[u] = "postRead" => pc[u] = "postRead"

LEMMA QuietSteps ==
  ASSUME PoolInv, [Next]_vars,
         \A t \in Threads : /\ ~ CheckNext(t) /\ ~ TakeIndex(t) /\ ~ BumpIndex(t)
                            /\ ~ LoopEnds(t) /\ ~ OpenFileFails(t)
                            /\ ~ WritePart(t) /\ ~ WriteFails(t)
  PROVE  Quiet
<1> USE DEF PoolInv, Types, Quiet, Busy, Claimed
<1>1. CASE MainSetup \/ MainJoin \/ MainDestroy \/ MainFinish
  BY <1>1 DEF MainSetup, MainJoin, MainDestroy, MainFinish
<1>2. CASE MainCreate
  BY <1>2, CreateFrame
<1>3. ASSUME NEW t \in Threads, Worker(t)
      PROVE  Quiet
  <2>1. \A u \in Threads : u # t => pc'[u] = pc[u]
    BY <1>3, WorkerFrame
  <2>2. CASE WaitRead(t)
    <3>1. /\ UNCHANGED <<nextFile, fileNumber, ret, truncated, output>>
          /\ pc[t] = "waitRead" /\ pc'[t] = "take"
      BY <2>2 DEF WaitRead
    <3> QED
      BY <2>1, <3>1
  <2>5. CASE PostRead(t)
    <3>1. /\ UNCHANGED <<nextFile, fileNumber, ret, truncated, output>>
          /\ pc[t] = "postRead" /\ pc'[t] = "loop"
      BY <2>5 DEF PostRead
    <3> QED
      BY <2>1, <3>1
  <2>3. CASE OpenFile(t) \/ ProcessBlocks(t)
    BY <2>1, <2>3 DEF OpenFile, ProcessBlocks, Printed
  <2>4. CASE WaitWrite(t)
    <3>1. /\ UNCHANGED <<nextFile, fileNumber, ret, truncated, output>>
          /\ pc[t] = "waitWrite" /\ pc'[t] = "write"
      BY <2>4 DEF WaitWrite
    <3> QED
      BY <2>1, <3>1
  <2>6. CASE PostWrite(t)
    <3>1. /\ UNCHANGED <<nextFile, fileNumber, ret, truncated, output>>
          /\ pc[t] = "postWrite" /\ pc'[t] = "free"
      BY <2>6 DEF PostWrite
    <3> QED
      BY <2>1, <3>1
  <2>7. CASE FreeName(t)
    <3>1. /\ UNCHANGED <<nextFile, fileNumber, ret, truncated, output>>
          /\ pc[t] = "free" /\ pc'[t] = "check"
      BY <2>7 DEF FreeName
    <3> QED
      BY <2>1, <3>1
  <2> QED
    BY <1>3, <2>2, <2>3, <2>4, <2>5, <2>6, <2>7 DEF Worker
<1>4. CASE MainAborts \/ (\E t \in Threads : Crash(t)) \/ UNCHANGED vars
  BY <1>4, EndFrame
<1> QED
  BY <1>1, <1>2, <1>3, <1>4, StepCases DEF Main

\* What the invariant says apart from the status.
Accounts == DoneInv /\ DeadInv /\ HandedInv /\ OwnerInv

LEMMA QuietAccounts ==
  ASSUME PoolInv, Accounts, Quiet
  PROVE  Accounts'
<1>1. \A f \in Files : Whole(f)' <=> Whole(f)
  BY WholeKept DEF PoolInv, Types, Quiet
<1>2. DoneInv'
  BY DEF Accounts, DoneInv, Quiet
<1>3. DeadInv'
  BY DEF Accounts, DeadInv, Quiet
<1>4. HandedInv'
  BY <1>1 DEF Accounts, HandedInv, Quiet
<1>5. OwnerInv'
  BY <1>1 DEF Accounts, OwnerInv, Settled, DiedOn, Quiet
<1> QED
  BY <1>2, <1>3, <1>4, <1>5 DEF Accounts

\* The worker t changes its own place; nothing was added to the stream, and no
\* index was handed out or settled.
Private(t) ==
  /\ UNCHANGED <<nextFile, output, truncated>>
  /\ \A u \in Threads : u # t =>
       pc'[u] = pc[u] /\ fileNumber'[u] = fileNumber[u] /\ ret'[u] = ret[u]

\* A worker finds the indices exhausted or goes for the semaphore, takes the
\* index, or leaves its loop.
LEMMA LookAccounts ==
  ASSUME PoolInv, Accounts, NEW t \in Threads,
         CheckNext(t) \/ TakeIndex(t) \/ LoopEnds(t)
  PROVE  /\ Accounts' /\ Private(t)
         /\ \A f \in Files, u \in Threads : DiedOn(u, f)' <=> DiedOn(u, f)
<1> USE ConstantTypes DEF PoolInv, Types
<1>1. Private(t)
  <2>1. Worker(t)
    BY DEF Worker
  <2>2. UNCHANGED <<nextFile, output, truncated>>
    BY DEF CheckNext, TakeIndex, LoopEnds
  <2> QED
    BY <2>1, <2>2, WorkerFrame DEF Private
<1>2. /\ ret[t] = "none" /\ pc[t] # "done" /\ ret'[t] # "null" /\ pc'[t] # "postRead"
      /\ pc'[t] = "done" <=> ret'[t] # "none"
      /\ ret'[t] = "stream" => nextFile >= NumberFiles
      /\ pc'[t] = "loop" => nextFile >= NumberFiles
  BY DEF Accounts, DoneInv, CheckNext, TakeIndex, LoopEnds
<1>3. /\ \A f \in Files : ~ Busy(t, f) /\ ~ Busy(t, f)'
      /\ Claimed(t)' => fileNumber'[t] = nextFile
  <2>1. \A f \in Files : f # NoFile
    OBVIOUS
  <2>2. CASE CheckNext(t)
    BY <2>1, <2>2 DEF CheckNext, Busy, Claimed
  <2>3. CASE TakeIndex(t)
    BY <2>3 DEF TakeIndex, Busy, Claimed
  <2>4. CASE LoopEnds(t)
    BY <2>1, <2>4 DEF LoopEnds, Busy, Claimed
  <2> QED
    BY <2>2, <2>3, <2>4
<1>4. \A f \in Files, u \in Threads : DiedOn(u, f)' <=> DiedOn(u, f)
  BY <1>1, <1>2 DEF Private, DiedOn
<1>5. \A f \in Files, u \in Threads : Busy(u, f)' <=> Busy(u, f)
  BY <1>1, <1>3 DEF Private, Busy
<1>6. DoneInv'
  <2> SUFFICES ASSUME NEW u \in Threads
               PROVE  /\ pc'[u] = "done" <=> ret'[u] # "none"
                      /\ ret'[u] = "null" => fileNumber'[u] < nextFile'
                      /\ ret'[u] = "stream" => nextFile' >= NumberFiles
                      /\ pc'[u] = "loop" /\ fileNumber'[u] = NoFile =>
                           nextFile' >= NumberFiles
                      /\ pc'[u] = "postRead" => fileNumber'[u] # NoFile
    BY DEF DoneInv
  <2>1. nextFile' = nextFile
    BY <1>1 DEF Private
  <2>2. CASE u = t
    BY <1>2, <2>1, <2>2
  <2>3. CASE u # t
    <3>1. pc'[u] = pc[u] /\ fileNumber'[u] = fileNumber[u] /\ ret'[u] = ret[u]
      BY <1>1, <2>3 DEF Private
    <3> QED
      BY <2>1, <3>1 DEF Accounts, DoneInv
  <2> QED
    BY <2>2, <2>3
<1>7. DeadInv'
  <2> SUFFICES ASSUME NEW v \in Threads, NEW u \in Threads, v # u, ret'[v] = "null",
                      ret'[u] = "null" \/ Claimed(u)'
               PROVE  fileNumber'[v] # fileNumber'[u]
    BY DEF DeadInv, Claimed
  <2>1. v # t /\ ret[v] = "null" /\ fileNumber'[v] = fileNumber[v]
    BY <1>1, <1>2 DEF Private
  <2>2. CASE u = t
    <3>1. fileNumber'[u] = nextFile
      BY <1>2, <1>3, <2>2
    <3>2. fileNumber[v] \in Nat /\ fileNumber[v] < nextFile
      BY <2>1 DEF Accounts, DoneInv
    <3> QED
      BY <2>1, <3>1, <3>2
  <2>3. CASE u # t
    <3>1. /\ fileNumber'[u] = fileNumber[u] /\ ret'[u] = ret[u]
          /\ Claimed(u)' => Claimed(u)
      BY <1>1, <2>3 DEF Private, Claimed
    <3> QED
      BY <2>1, <3>1 DEF Accounts, DeadInv
  <2> QED
    BY <2>2, <2>3
<1>8. HandedInv' /\ \A f \in Files : Whole(f)' <=> Whole(f)
  BY <1>1 DEF Accounts, HandedInv, Private, Whole
<1>9. OwnerInv'
  BY <1>1, <1>4, <1>5, <1>8 DEF Accounts, OwnerInv, Settled, Private
<1> QED
  BY <1>1, <1>4, <1>6, <1>7, <1>8, <1>9 DEF Accounts

\* The index that is handed out goes to the worker that increments nextFile.
LEMMA BumpAccounts ==
  ASSUME PoolInv, Accounts, NEW t \in Threads, BumpIndex(t)
  PROVE  /\ Accounts'
         /\ nextFile' = nextFile + 1 /\ UNCHANGED <<output, truncated, fileNumber, ret>>
<1> USE ConstantTypes DEF PoolInv, Types
<1>1. /\ nextFile' = nextFile + 1 /\ UNCHANGED <<output, truncated, fileNumber, ret>>
      /\ pc[t] = "bump" /\ pc'[t] = "postRead"
      /\ \A u \in Threads : u # t => pc'[u] = pc[u]
  BY DEF BumpIndex
<1>2. fileNumber[t] = nextFile /\ nextFile < UintMax
  BY SMTT(30), <1>1, PendingFinite DEF IndexInv, ClaimInv
<1>3. \A f \in Files, u \in Threads :
        Busy(u, f)' <=> Busy(u, f) \/ (u = t /\ f = nextFile)
  BY <1>1, <1>2 DEF Busy
<1>4. DoneInv'
  <2> SUFFICES ASSUME NEW u \in Threads
               PROVE  /\ pc'[u] = "done" <=> ret[u] # "none"
                      /\ ret[u] = "null" => fileNumber[u] < nextFile + 1
                      /\ ret[u] = "stream" => nextFile + 1 >= NumberFiles
                      /\ pc'[u] = "loop" /\ fileNumber[u] = NoFile =>
                           nextFile + 1 >= NumberFiles
                      /\ pc'[u] = "postRead" => fileNumber[u] # NoFile
    BY <1>1 DEF DoneInv
  <2>1. /\ pc[u] = "done" <=> ret[u] # "none"
        /\ ret[u] = "null" => fileNumber[u] < nextFile
        /\ ret[u] = "stream" => nextFile >= NumberFiles
        /\ pc[u] = "loop" /\ fileNumber[u] = NoFile => nextFile >= NumberFiles
        /\ pc[u] = "postRead" => fileNumber[u] # NoFile
    BY DEF Accounts, DoneInv
  <2>2. fileNumber[u] \in Nat /\ nextFile \in Nat
    OBVIOUS
  <2>3. CASE u = t
    <3>1. pc'[u] = "postRead" /\ pc[u] = "bump" /\ fileNumber[u] # NoFile
      BY <1>1, <1>2, <2>3
    <3> QED
      BY <2>1, <3>1
  <2>4. CASE u # t
    <3> HIDE DEF PoolInv, Types
    <3>1. pc'[u] = pc[u]
      BY <1>1, <2>4
    <3>2. NumberFiles \in Nat
      BY PoolAssumption
    <3> QED
      BY <2>1, <2>2, <3>1, <3>2
  <2> QED
    BY <2>3, <2>4
<1>5. DeadInv'
  <2>1. \A u \in Threads : Claimed(u)' => Claimed(u)
    <3> SUFFICES ASSUME NEW u \in Threads, Claimed(u)'
                 PROVE  Claimed(u)
      OBVIOUS
    <3>1. CASE u = t
      BY <1>1, <3>1 DEF Claimed
    <3>2. CASE u # t
      BY <1>1, <3>2 DEF Claimed
    <3> QED
      BY <3>1, <3>2
  <2> QED
    BY <1>1, <2>1 DEF Accounts, DeadInv
<1>6. HandedInv'
  BY <1>1 DEF Accounts, HandedInv, Whole
<1>7. OwnerInv'
  <2>1. \A f \in Files : (Settled(f)' <=> Settled(f)) /\ (Whole(f)' <=> Whole(f))
    BY <1>1 DEF Settled, Whole, DiedOn
  <2> SUFFICES ASSUME NEW f \in Files
               PROVE  /\ f < nextFile' => Settled(f)' \/ \E u \in Threads : Busy(u, f)'
                      /\ \A u \in Threads : Busy(u, f)' => ~ Whole(f)' /\ f \notin truncated'
    BY DEF OwnerInv, Busy
  <2>2. CASE f < nextFile
    BY <1>1, <1>3, <2>1, <2>2 DEF Accounts, OwnerInv
  <2>3. CASE f >= nextFile
    BY <1>1, <1>3, <2>1, <2>3 DEF Accounts, OwnerInv, HandedInv
  <2> QED
    BY <2>2, <2>3
<1> QED
  BY <1>1, <1>4, <1>5, <1>6, <1>7 DEF Accounts

\* A worker that cannot open its file returns and is gone for good.
LEMMA OpenFailsAccounts ==
  ASSUME PoolInv, Accounts, NEW t \in Threads, OpenFileFails(t)
  PROVE  /\ Accounts'
         /\ UNCHANGED <<nextFile, fileNumber, truncated>>
         /\ \A f \in Files : Whole(f)' <=> Whole(f)
         /\ \A f \in Files : Busy(t, f) <=> fileNumber[t] = f
         /\ \A f \in Files, u \in Threads :
              DiedOn(u, f)' <=> DiedOn(u, f) \/ (u = t /\ fileNumber[t] = f)
<1> USE ConstantTypes DEF PoolInv, Types
<1>1. /\ UNCHANGED <<nextFile, fileNumber, truncated>>
      /\ pc[t] = "loop" /\ pc'[t] = "done" /\ ret'[t] = "null" /\ fileNumber[t] # NoFile
      /\ \A u \in Threads : u # t => pc'[u] = pc[u] /\ ret'[u] = ret[u]
      /\ output' = output \/ output' = Append(output, Debug)
  BY DEF OpenFileFails, Printed
<1>2. \A f \in Files : Whole(f)' <=> Whole(f)
  BY <1>1, WholeKept
<1>3. Claimed(t) /\ fileNumber[t] < nextFile /\ ret[t] = "none"
  BY <1>1 DEF Claimed, IndexInv, ClaimInv, Accounts, DoneInv
<1>4. \A f \in Files, u \in Threads :
        DiedOn(u, f)' <=> DiedOn(u, f) \/ (u = t /\ fileNumber[t] = f)
  BY <1>1, <1>3 DEF DiedOn
<1>5. \A f \in Files, u \in Threads : Busy(u, f)' <=> Busy(u, f) /\ u # t
  BY <1>1 DEF Busy
<1>6. \A f \in Files : Busy(t, f) <=> fileNumber[t] = f
  BY <1>1 DEF Busy
<1>7. DoneInv'
  <2> SUFFICES ASSUME NEW u \in Threads
               PROVE  /\ pc'[u] = "done" <=> ret'[u] # "none"
                      /\ ret'[u] = "null" => fileNumber[u] < nextFile
                      /\ ret'[u] = "stream" => nextFile >= NumberFiles
                      /\ pc'[u] = "loop" /\ fileNumber[u] = NoFile =>
                           nextFile >= NumberFiles
                      /\ pc'[u] = "postRead" => fileNumber[u] # NoFile
    BY <1>1 DEF DoneInv
  <2>1. CASE u = t
    BY <1>1, <1>3, <2>1
  <2>2. CASE u # t
    <3> HIDE DEF PoolInv, Types
    <3>1. pc'[u] = pc[u] /\ ret'[u] = ret[u]
      BY <1>1, <2>2
    <3> QED
      BY <3>1 DEF Accounts, DoneInv
  <2> QED
    BY <2>1, <2>2
<1>8. DeadInv'
  <2> SUFFICES ASSUME NEW v \in Threads, NEW u \in Threads, v # u, ret'[v] = "null",
                      ret'[u] = "null" \/ Claimed(u)'
               PROVE  fileNumber[v] # fileNumber[u]
    BY <1>1 DEF DeadInv, Claimed
  <2>1. Claimed(u)' => u # t /\ Claimed(u)
    BY <1>1 DEF Claimed
  <2>2. (ret[v] = "null" \/ v = t) /\ (ret[u] = "null" \/ Claimed(u))
    BY <1>1, <1>3, <2>1
  <2> QED
    BY <1>3, <2>2 DEF Accounts, DeadInv, IndexInv, ClaimInv, UniqueClaim
<1>9. HandedInv'
  BY <1>1, <1>2 DEF Accounts, HandedInv
<1>10. OwnerInv'
  <2> SUFFICES ASSUME NEW f \in Files
               PROVE  /\ f < nextFile => Settled(f)' \/ \E u \in Threads : Busy(u, f)'
                      /\ \A u \in Threads : Busy(u, f)' =>
                           ~ Whole(f)' /\ f \notin truncated'
    BY <1>1 DEF OwnerInv
  <2>1. CASE fileNumber[t] = f
    <3>1. Settled(f)'
      BY <1>4, <2>1 DEF Settled
    <3> QED
      BY <1>1, <1>2, <1>5, <3>1 DEF Accounts, OwnerInv
  <2>2. CASE fileNumber[t] # f
    <3>1. /\ Settled(f)' <=> Settled(f)
          /\ \A u \in Threads : Busy(u, f)' <=> Busy(u, f)
      BY <1>1, <1>2, <1>4, <1>5, <1>6, <2>2 DEF Settled
    <3> QED
      BY <1>1, <1>2, <3>1 DEF Accounts, OwnerInv
  <2> QED
    BY <2>1, <2>2
<1> QED
  BY <1>1, <1>2, <1>4, <1>6, <1>7, <1>8, <1>9, <1>10 DEF Accounts

\* The worker that writes holds an index that nobody else holds.
LEMMA WriterAlone ==
  ASSUME PoolInv, Accounts, NEW t \in Threads, pc[t] = "write"
  PROVE  /\ fileNumber[t] \in Files /\ fileNumber[t] < nextFile
         /\ Busy(t, fileNumber[t])
         /\ \A u \in Threads : u # t => ~ Busy(u, fileNumber[t])
         /\ \A u \in Threads : ~ DiedOn(u, fileNumber[t])
<1> USE ConstantTypes DEF PoolInv, Types
<1>1. fileNumber[t] \in Files /\ Claimed(t) /\ ret[t] = "none"
  BY DEF NameInv, HasName, Claimed, Accounts, DoneInv
<1>2. fileNumber[t] < nextFile
  BY <1>1 DEF IndexInv, ClaimInv
<1>3. \A u \in Threads : u # t => ~ Busy(u, fileNumber[t])
  BY <1>1 DEF Busy, Claimed, IndexInv, ClaimInv, UniqueClaim
<1>4. \A u \in Threads : ~ DiedOn(u, fileNumber[t])
  BY <1>1 DEF DiedOn, Accounts, DeadInv
<1> QED
  BY <1>1, <1>2, <1>3, <1>4 DEF Busy

\* The last part of a record makes the file whole, the others nothing.
LEMMA PartAccounts ==
  ASSUME PoolInv, Accounts, NEW t \in Threads, WritePart(t)
  PROVE  /\ Accounts'
         /\ UNCHANGED <<nextFile, fileNumber, ret, truncated>>
         /\ \A f \in Files : Whole(f)' <=>
              Whole(f) \/ (f = fileNumber[t] /\ written[t] + 1 = RecordParts)
<1> USE ConstantTypes DEF PoolInv, Types
<1>1. /\ UNCHANGED <<nextFile, fileNumber, ret, truncated>>
      /\ pc[t] = "write"
      /\ pc'[t] = IF written[t] + 1 = RecordParts THEN "postWrite" ELSE "write"
      /\ \A u \in Threads : u # t => pc'[u] = pc[u]
      /\ output' = Append(output, Part(fileNumber[t], written[t] + 1))
      /\ written[t] + 1 \in 1 .. RecordParts
  BY DEF WritePart
<1>2. /\ fileNumber[t] \in Files /\ fileNumber[t] < nextFile
      /\ Busy(t, fileNumber[t])
      /\ \A u \in Threads : u # t => ~ Busy(u, fileNumber[t])
  BY <1>1, WriterAlone
<1>3. \A f \in Files : Whole(f)' <=>
        Whole(f) \/ (f = fileNumber[t] /\ written[t] + 1 = RecordParts)
  BY <1>1, <1>2, WholeAppended
<1>4. \A f \in Files, u \in Threads :
        Busy(u, f)' <=> Busy(u, f) /\ (u = t => written[t] + 1 # RecordParts)
  BY <1>1 DEF Busy
<1>5. DoneInv'
  BY <1>1 DEF Accounts, DoneInv
<1>6. DeadInv'
  <2>1. \A u \in Threads : Claimed(u)' => Claimed(u)
    BY <1>1 DEF Claimed
  <2> QED
    BY <1>1, <2>1 DEF Accounts, DeadInv
<1>7. HandedInv'
  BY <1>1, <1>2, <1>3 DEF Accounts, HandedInv
<1>8. OwnerInv'
  <2>1. \A f \in Files, u \in Threads : DiedOn(u, f)' <=> DiedOn(u, f)
    BY <1>1 DEF DiedOn
  <2>2. \A f \in Files : Busy(t, f) => f = fileNumber[t]
    BY DEF Busy
  <2>3. CASE written[t] + 1 = RecordParts
    <3> SUFFICES ASSUME NEW f \in Files
                 PROVE  /\ f < nextFile => Settled(f)' \/ \E u \in Threads : Busy(u, f)'
                        /\ \A u \in Threads : Busy(u, f)' =>
                             ~ Whole(f)' /\ f \notin truncated
      BY <1>1 DEF OwnerInv
    <3>1. CASE f = fileNumber[t]
      BY <1>2, <1>3, <1>4, <2>3, <3>1 DEF Settled
    <3>2. CASE f # fileNumber[t]
      <4>1. /\ Whole(f)' <=> Whole(f)
            /\ Settled(f)' <=> Settled(f)
            /\ \A u \in Threads : Busy(u, f)' <=> Busy(u, f)
        BY <1>1, <1>3, <1>4, <2>1, <2>2, <3>2 DEF Settled
      <4> QED
        BY <4>1 DEF Accounts, OwnerInv
    <3> QED
      BY <3>1, <3>2
  <2>4. CASE written[t] + 1 # RecordParts
    BY <1>1, <1>3, <1>4, <2>1, <2>4 DEF Accounts, OwnerInv, Settled
  <2> QED
    BY <2>3, <2>4
<1> QED
  BY <1>1, <1>3, <1>5, <1>6, <1>7, <1>8 DEF Accounts

\* A failed fwrite cuts the record of its file short.
LEMMA CutAccounts ==
  ASSUME PoolInv, Accounts, NEW t \in Threads, WriteFails(t)
  PROVE  /\ Accounts'
         /\ UNCHANGED <<nextFile, fileNumber, ret, output>>
         /\ truncated' = truncated \cup {fileNumber[t]}
<1> USE ConstantTypes DEF PoolInv, Types
<1>1. /\ UNCHANGED <<nextFile, fileNumber, ret, output>>
      /\ pc[t] = "write" /\ pc'[t] = "postWrite"
      /\ \A u \in Threads : u # t => pc'[u] = pc[u]
      /\ truncated' = truncated \cup {fileNumber[t]}
  BY DEF WriteFails
<1>2. /\ fileNumber[t] \in Files /\ fileNumber[t] < nextFile
      /\ \A u \in Threads : u # t => ~ Busy(u, fileNumber[t])
  BY <1>1, WriterAlone
<1>3. \A f \in Files, u \in Threads : Busy(u, f)' <=> Busy(u, f) /\ u # t
  BY <1>1 DEF Busy
<1>4. \A f \in Files : (Whole(f)' <=> Whole(f)) /\ (Busy(t, f) => f = fileNumber[t])
  BY <1>1 DEF Whole, Busy
<1>5. DoneInv'
  BY <1>1 DEF Accounts, DoneInv
<1>6. DeadInv'
  <2>1. \A u \in Threads : Claimed(u)' => Claimed(u)
    BY <1>1 DEF Claimed
  <2> QED
    BY <1>1, <2>1 DEF Accounts, DeadInv
<1>7. HandedInv'
  BY <1>1, <1>2, <1>4 DEF Accounts, HandedInv
<1>8. OwnerInv'
  <2>1. \A f \in Files, u \in Threads : DiedOn(u, f)' <=> DiedOn(u, f)
    BY <1>1 DEF DiedOn
  <2> SUFFICES ASSUME NEW f \in Files
               PROVE  /\ f < nextFile => Settled(f)' \/ \E u \in Threads : Busy(u, f)'
                      /\ \A u \in Threads : Busy(u, f)' =>
                           ~ Whole(f)' /\ f \notin truncated'
    BY <1>1 DEF OwnerInv
  <2>2. CASE f = fileNumber[t]
    BY <1>1, <1>2, <1>3, <2>2 DEF Settled
  <2>3. CASE f # fileNumber[t]
    <3>1. /\ Whole(f)' <=> Whole(f)
          /\ f \in truncated' <=> f \in truncated
          /\ Settled(f)' <=> Settled(f)
          /\ \A u \in Threads : Busy(u, f)' <=> Busy(u, f)
      BY <1>1, <1>3, <1>4, <2>1, <2>3 DEF Settled
    <3> QED
      BY <3>1 DEF Accounts, OwnerInv
  <2> QED
    BY <2>2, <2>3
<1> QED
  BY <1>1, <1>5, <1>6, <1>7, <1>8 DEF Accounts

LEMMA AccountsStep ==
  ASSUME PoolInv, Accounts, [Next]_vars
  PROVE  Accounts'
<1>1. CASE \E t \in Threads : \/ CheckNext(t) \/ TakeIndex(t) \/ BumpIndex(t)
                            \/ LoopEnds(t) \/ OpenFileFails(t)
                            \/ WritePart(t) \/ WriteFails(t)
  BY <1>1, LookAccounts, BumpAccounts, OpenFailsAccounts, PartAccounts, CutAccounts
<1>2. CASE \A t \in Threads : /\ ~ CheckNext(t) /\ ~ TakeIndex(t) /\ ~ BumpIndex(t)
                            /\ ~ LoopEnds(t) /\ ~ OpenFileFails(t)
                            /\ ~ WritePart(t) /\ ~ WriteFails(t)
  BY <1>2, QuietSteps, QuietAccounts
<1> QED
  BY <1>1, <1>2

\* Only the end of main sets the status to success, and nothing follows it.
LEMMA SuccessStep ==
  ASSUME PoolInv, SuccessInv, [Next]_vars
  PROVE  SuccessInv'
<1>1. CASE Main
  BY <1>1 DEF Main, MainSetup, MainCreate, MainJoin, MainDestroy, MainFinish, SuccessInv
<1>2. CASE \E t \in Threads : Worker(t)
  BY <1>2, WorkerFrame DEF SuccessInv, PoolInv
<1>3. CASE MainAborts \/ (\E t \in Threads : Crash(t)) \/ UNCHANGED vars
  BY <1>3 DEF MainAborts, Crash, OpenFileCrashes, ProcessBlocksCrashes, vars, SuccessInv
<1> QED
  BY <1>1, <1>2, <1>3, StepCases

-----------------------------------------------------------------------------
(* The archive *)

\* What Archive substitutes for its variables.
Taken  == {f \in Files : f < nextFile}
Wholes == {f \in Files : Whole(f)}
Lost   == {f \in Files : \E t \in Threads : DiedOn(t, f)}

USE DEF Taken, Wholes, Lost

\* DecodeArchive counts as this module does.
LEMMA SameCardinality ==
  ASSUME NEW S
  PROVE  Archive!Cardinality(S) = Cardinality(S)
  BY DEF Archive!Cardinality, Cardinality

LEMMA ArchiveInit == Init => Archive!Init
  BY ConstantTypes DEF Init, Archive!Init, Whole, DiedOn

\* The process ends in a step of main or a crash, and only while it runs.
LEMMA StatusStep ==
  ASSUME [Next]_vars
  PROVE  \/ status' = status
         \/ status = "running" /\ status' \in {"failure", "crashed"}
         \/ status = "running" /\ MainFinish
<1>1. CASE MainSetup \/ MainCreate \/ MainJoin \/ MainDestroy
  BY <1>1 DEF MainSetup, MainCreate, MainJoin, MainDestroy
<1>2. CASE \E t \in Threads : Worker(t)
  <2>1. PICK t \in Threads : Worker(t)
    BY <1>2
  <2>2. CASE CheckNext(t) \/ WaitRead(t) \/ TakeIndex(t) \/ BumpIndex(t) \/ PostRead(t)
    BY <2>2 DEF CheckNext, WaitRead, TakeIndex, BumpIndex, PostRead
  <2>3. CASE LoopEnds(t) \/ OpenFile(t) \/ OpenFileFails(t) \/ ProcessBlocks(t)
    BY <2>3 DEF LoopEnds, OpenFile, OpenFileFails, ProcessBlocks
  <2>4. CASE WaitWrite(t) \/ WritePart(t) \/ WriteFails(t) \/ PostWrite(t) \/ FreeName(t)
    BY <2>4 DEF WaitWrite, WritePart, WriteFails, PostWrite, FreeName
  <2> QED
    BY <2>1, <2>2, <2>3, <2>4 DEF Worker
<1>3. CASE status = "running" /\ (MainAborts \/ \E t \in Threads : Crash(t))
  BY <1>3 DEF MainAborts, Crash, OpenFileCrashes, ProcessBlocksCrashes
<1>4. CASE UNCHANGED vars
  BY <1>4 DEF vars
<1> QED
  BY <1>1, <1>2, <1>3, <1>4 DEF Next, Ended, Main

\* A step that moves a worker or changes anything shared is one of a process
\* that runs.
LEMMA Running ==
  ASSUME [Next]_vars, pc' # pc
  PROVE  status = "running"
  BY DEF Next, Ended, vars

\* The worker that increments nextFile was free: of all others each holds one
\* unfinished index at most.
LEMMA RoomToTake ==
  ASSUME PoolInv, Accounts, NEW t \in Threads, BumpIndex(t)
  PROVE  Cardinality(Taken \ (Wholes \cup truncated)) < Cardinality(Threads)
<1> DEFINE S == Taken \ (Wholes \cup truncated)
           Others == Threads \ {t}
<1>1. pc[t] = "bump" /\ ret[t] = "none"
  BY DEF BumpIndex, Accounts, DoneInv, PoolInv, Types
<1>2. \A f \in S : \E u \in Others : fileNumber[u] = f
  BY <1>1 DEF Accounts, OwnerInv, Settled, DiedOn, Busy
<1> DEFINE holder == [f \in S |-> CHOOSE u \in Others : fileNumber[u] = f]
<1>3. holder \in Injection(S, Others)
  <2>1. \A f \in S : holder[f] \in Others /\ fileNumber[holder[f]] = f
    BY <1>2
  <2>2. holder \in [S -> Others]
    BY <2>1
  <2>3. \A f, g \in S : holder[f] = holder[g] => f = g
    BY <2>1
  <2> HIDE DEF holder, S, Others
  <2>4. DOMAIN holder = S
    BY <2>2
  <2> QED
    BY <2>2, <2>3, <2>4 DEF Injection, IsInjective
<1>4. IsFiniteSet(Others) /\ Cardinality(Others) = NbThreads - 1
  <2>1. IsFiniteSet(Threads) /\ Cardinality(Threads) = NbThreads /\ t \in Threads
    BY PendingFinite
  <2> HIDE DEF Threads
  <2> QED
    BY <2>1, FS_RemoveElement
<1>5. Cardinality(S) <= Cardinality(Others)
  <2> HIDE DEF holder, S, Others
  <2> QED
    BY <1>3, <1>4, FS_Injection
<1>6. IsFiniteSet(S)
  <2> HIDE DEF holder, S, Others
  <2> QED
    BY <1>3, <1>4, FS_Injection
<1>7. Cardinality(S) \in Nat
  BY <1>6, FS_CardinalityType
<1> QED
  BY <1>4, <1>5, <1>7, PendingFinite, ConstantTypes

\* At the end every index that was handed out is settled; and if some name was
\* not, every worker died on an index of its own.
LEMMA AllSettled ==
  ASSUME PoolInv, Accounts, mainPc \in {"finish", "end"}
  PROVE  /\ \A f \in Files : f < nextFile => Settled(f)
         /\ \/ nextFile >= NumberFiles
            \/ \A t \in Threads : /\ ret[t] = "null" /\ fileNumber[t] \in Files
                                 /\ fileNumber[t] < nextFile
<1> USE ConstantTypes
<1>1. \A t \in Threads : pc[t] = "done"
  BY DEF PoolInv, MainInv
<1>2. \A f \in Files : f < nextFile => Settled(f)
  BY <1>1 DEF Accounts, OwnerInv, Busy
<1>3. ASSUME ~ (nextFile >= NumberFiles), NEW t \in Threads
      PROVE  ret[t] = "null" /\ fileNumber[t] \in Files /\ fileNumber[t] < nextFile
  <2>1. ret[t] # "none" /\ ret[t] # "stream"
    BY <1>1, <1>3 DEF Accounts, DoneInv
  <2>2. ret[t] = "null" /\ fileNumber[t] \in Nat /\ nextFile \in Nat
    BY <2>1 DEF PoolInv, Types
  <2>3. fileNumber[t] < nextFile
    BY <2>2 DEF Accounts, DoneInv
  <2> QED
    BY <1>3, <2>2, <2>3
<1> QED
  BY <1>2, <1>3

\* If no index is left, or all workers died on different indices, main succeeds
\* as the archive allows.
LEMMA SucceedAllowed ==
  ASSUME PoolInv, Accounts, mainPc = "finish"
  PROVE  /\ Taken \subseteq Wholes \cup truncated \cup Lost
         /\ Taken = Files \/ Cardinality(Lost) = Cardinality(Threads)
<1>1. Taken \subseteq Wholes \cup truncated \cup Lost
  BY AllSettled DEF Settled
<1>2. CASE nextFile >= NumberFiles
  <2>1. Taken = Files
    BY <1>2, ConstantTypes DEF PoolInv, Types
  <2> QED
    BY <1>1, <2>1
<1>3. CASE ~ (nextFile >= NumberFiles)
  <2> DEFINE last == [t \in Threads |-> fileNumber[t]]
  <2>1. \A t \in Threads : ret[t] = "null" /\ fileNumber[t] \in Files
    BY <1>3, AllSettled
  <2>2. last \in Surjection(Threads, Lost)
    BY <2>1 DEF Surjection, DiedOn
  <2>3. \A t, u \in Threads : last[t] = last[u] => t = u
    BY <2>1 DEF Accounts, DeadInv
  <2>4. last \in Injection(Threads, Lost)
    BY <2>2, <2>3 DEF Injection, IsInjective, Surjection
  <2> HIDE DEF last, Lost
  <2>5. Cardinality(Lost) = Cardinality(Threads)
    BY <2>2, <2>4, PendingFinite, FS_Surjection
  <2> QED
    BY <1>1, <2>5
<1> QED
  BY <1>2, <1>3

\* Steps that leave the archive as it is, but for how the process ended.
LEMMA SameArchive ==
  ASSUME PoolInv, Accounts, [Next]_vars,
         Taken' = Taken, Wholes' = Wholes, truncated' = truncated, Lost' = Lost
  PROVE  [Archive!Next]_(Archive!avars)
<1>1. CASE status' = status
  BY <1>1 DEF Archive!avars
<1>2. CASE status = "running" /\ status' \in {"failure", "crashed"}
  BY <1>2 DEF Archive!Next, Archive!Fail
<1>3. CASE status = "running" /\ MainFinish
  <2>1. mainPc = "finish" /\ status' = "success"
    BY <1>3 DEF MainFinish
  <2>2. Archive!Succeed
    <3>1. /\ Taken \subseteq Wholes \cup truncated \cup Lost
          /\ Taken = Files \/ Cardinality(Lost) = Cardinality(Threads)
      BY <2>1, SucceedAllowed
    <3>2. UNCHANGED <<Taken, Wholes, truncated, Lost>>
      OBVIOUS
    <3> QED
      BY <2>1, <3>1, <3>2, SameCardinality DEF Archive!Succeed, Archive!Finished
  <2> QED
    BY <1>3, <2>2 DEF Archive!Next
<1> QED
  BY <1>1, <1>2, <1>3, StatusStep

LEMMA ArchiveStep ==
  ASSUME PoolInv, Accounts, [Next]_vars
  PROVE  [Archive!Next]_(Archive!avars)
<1> USE ConstantTypes DEF PoolInv, Types
<1>1. CASE \A t \in Threads : /\ ~ CheckNext(t) /\ ~ TakeIndex(t) /\ ~ BumpIndex(t)
                            /\ ~ LoopEnds(t) /\ ~ OpenFileFails(t)
                            /\ ~ WritePart(t) /\ ~ WriteFails(t)
  <2>1. Quiet
    BY <1>1, QuietSteps
  <2>2. \A f \in Files : Whole(f)' <=> Whole(f)
    BY <2>1, WholeKept DEF Quiet
  <2>3. Taken' = Taken /\ Wholes' = Wholes /\ truncated' = truncated /\ Lost' = Lost
    BY <2>1, <2>2 DEF Quiet, DiedOn
  <2> QED
    BY <2>3, SameArchive
<1>2. ASSUME NEW t \in Threads, CheckNext(t) \/ TakeIndex(t) \/ LoopEnds(t)
      PROVE  [Archive!Next]_(Archive!avars)
  <2>1. /\ Private(t)
        /\ \A f \in Files, u \in Threads : DiedOn(u, f)' <=> DiedOn(u, f)
    BY <1>2, LookAccounts
  <2>2. Taken' = Taken /\ Wholes' = Wholes /\ truncated' = truncated /\ Lost' = Lost
    BY <2>1 DEF Private, Whole
  <2> QED
    BY <2>2, SameArchive
<1>3. ASSUME NEW t \in Threads, BumpIndex(t)
      PROVE  [Archive!Next]_(Archive!avars)
  <2>1. nextFile' = nextFile + 1 /\ UNCHANGED <<output, truncated, fileNumber, ret>>
    BY <1>3, BumpAccounts
  <2>2. Wholes' = Wholes /\ truncated' = truncated /\ Lost' = Lost
    BY <2>1 DEF Whole, DiedOn
  <2>3. CASE nextFile \in Files
    <3>1. /\ nextFile \notin Taken /\ Taken' = Taken \cup {nextFile}
          /\ \A g \in Files : g < nextFile => g \in Taken
      BY <2>1, <2>3
    <3>2. status = "running" /\ status' = status
      <4>1. pc[t] = "bump" /\ pc'[t] = "postRead" /\ status' = status
        BY <1>3 DEF BumpIndex
      <4> QED
        BY <4>1, Running
    <3>3. Cardinality(Taken \ (Wholes \cup truncated)) < Cardinality(Threads)
      BY <1>3, RoomToTake
    <3>4. nextFile \in Files \ Taken
      BY <2>3, <3>1
    <3>5. UNCHANGED <<Wholes, truncated, Lost, status>>
      BY <2>2, <3>2
    <3>6. Archive!Take
      BY <3>1, <3>3, <3>4, <3>5, SameCardinality DEF Archive!Take
    <3> QED
      BY <3>2, <3>6 DEF Archive!Next
  <2>4. CASE nextFile \notin Files
    <3>1. Taken' = Taken
      BY <2>1, <2>4
    <3> QED
      BY <2>2, <3>1, SameArchive
  <2> QED
    BY <2>3, <2>4
<1>4. ASSUME NEW t \in Threads, OpenFileFails(t)
      PROVE  [Archive!Next]_(Archive!avars)
  <2>1. /\ UNCHANGED <<nextFile, fileNumber, truncated>>
        /\ \A f \in Files : Whole(f)' <=> Whole(f)
        /\ \A f \in Files : Busy(t, f) <=> fileNumber[t] = f
        /\ \A f \in Files, u \in Threads :
             DiedOn(u, f)' <=> DiedOn(u, f) \/ (u = t /\ fileNumber[t] = f)
    BY <1>4, OpenFailsAccounts
  <2>2. Taken' = Taken /\ Wholes' = Wholes /\ truncated' = truncated
    BY <2>1
  <2>3. CASE fileNumber[t] \in Files
    <3>1. Lost' = Lost \cup {fileNumber[t]}
      BY <2>1, <2>3
    <3>2. Claimed(t) /\ ret[t] = "none" /\ pc[t] = "loop"
      BY <1>4 DEF OpenFileFails, Claimed, Accounts, DoneInv
    <3>3. fileNumber[t] \in Taken
      BY <2>3, <3>2 DEF IndexInv, ClaimInv
    <3>4. fileNumber[t] \notin Wholes /\ fileNumber[t] \notin truncated
      BY <2>1, <2>3 DEF Accounts, OwnerInv
    <3>5. fileNumber[t] \notin Lost
      <4>1. \A u \in Threads : ret[u] = "null" => fileNumber[u] # fileNumber[t]
        BY <3>2 DEF Accounts, DeadInv
      <4> QED
        BY <4>1 DEF DiedOn
    <3>6. status = "running" /\ status' = status
      <4>1. pc[t] = "loop" /\ pc'[t] = "done" /\ status' = status
        BY <1>4 DEF OpenFileFails
      <4> QED
        BY <4>1, Running
    <3>7. Archive!Lose
      BY <2>2, <3>1, <3>3, <3>4, <3>5, <3>6 DEF Archive!Lose, Archive!Finished
    <3> QED
      BY <3>6, <3>7 DEF Archive!Next
  <2>4. CASE fileNumber[t] \notin Files
    <3>1. Lost' = Lost
      BY <2>1, <2>4
    <3> QED
      BY <2>2, <3>1, SameArchive
  <2> QED
    BY <2>3, <2>4
<1>5. ASSUME NEW t \in Threads, WritePart(t) \/ WriteFails(t)
      PROVE  /\ fileNumber[t] \in Taken
             /\ fileNumber[t] \notin Wholes \cup truncated \cup Lost
             /\ status = "running" /\ status' = status
  <2>1. pc[t] = "write" /\ status' = status
    BY <1>5 DEF WritePart, WriteFails
  <2>2. /\ fileNumber[t] \in Files /\ fileNumber[t] < nextFile
        /\ Busy(t, fileNumber[t]) /\ \A u \in Threads : ~ DiedOn(u, fileNumber[t])
    BY <2>1, WriterAlone
  <2>3. ~ Whole(fileNumber[t]) /\ fileNumber[t] \notin truncated
    BY <2>2 DEF Accounts, OwnerInv
  <2>4. status = "running"
    <3>1. written' # written \/ pc' # pc
      BY SMTT(30), <1>5, <2>1 DEF WritePart, WriteFails
    <3> QED
      BY <3>1 DEF Next, Ended, vars
  <2> QED
    BY <2>1, <2>2, <2>3, <2>4
<1>6. ASSUME NEW t \in Threads, WritePart(t)
      PROVE  [Archive!Next]_(Archive!avars)
  <2>1. /\ UNCHANGED <<nextFile, fileNumber, ret, truncated>>
        /\ \A f \in Files : Whole(f)' <=>
             Whole(f) \/ (f = fileNumber[t] /\ written[t] + 1 = RecordParts)
    BY <1>6, PartAccounts
  <2>2. Taken' = Taken /\ truncated' = truncated /\ Lost' = Lost
    BY <2>1 DEF DiedOn
  <2>3. CASE written[t] + 1 = RecordParts
    <3>1. Wholes' = Wholes \cup {fileNumber[t]}
      BY <1>5, <1>6, <2>1, <2>3
    <3>2. Archive!Complete
      BY <1>5, <1>6, <2>2, <3>1 DEF Archive!Complete, Archive!Finished
    <3> QED
      BY <1>5, <1>6, <3>2 DEF Archive!Next
  <2>4. CASE written[t] + 1 # RecordParts
    <3>1. Wholes' = Wholes
      BY <2>1, <2>4
    <3> QED
      BY <2>2, <3>1, SameArchive
  <2> QED
    BY <2>3, <2>4
<1>7. ASSUME NEW t \in Threads, WriteFails(t)
      PROVE  [Archive!Next]_(Archive!avars)
  <2>1. /\ UNCHANGED <<nextFile, fileNumber, ret, output>>
        /\ truncated' = truncated \cup {fileNumber[t]}
    BY <1>7, CutAccounts
  <2>2. Taken' = Taken /\ Wholes' = Wholes /\ Lost' = Lost
    BY <2>1 DEF DiedOn, Whole
  <2>3. Archive!Cut
    BY <1>5, <1>7, <2>1, <2>2 DEF Archive!Cut, Archive!Finished
  <2> QED
    BY <1>5, <1>7, <2>3 DEF Archive!Next
<1> QED
  BY <1>1, <1>2, <1>3, <1>4, <1>6, <1>7

-----------------------------------------------------------------------------
(* Theorems *)

LEMMA InitAccounts == Init => Accounts /\ SuccessInv
  BY ConstantTypes DEF Init, Accounts, DoneInv, DeadInv, HandedInv, OwnerInv, SuccessInv,
     Settled, Whole, DiedOn, Busy, Claimed

\* The strengthening behind the next two theorems.
THEOREM AccountInvariant == Spec => [](PoolInv /\ Accounts /\ SuccessInv)
<1>1. PoolInv /\ Accounts /\ SuccessInv /\ [Next]_vars => Accounts' /\ SuccessInv'
  BY AccountsStep, SuccessStep
<1> QED
  BY InitAccounts, <1>1, PoolInvariant, PTL DEF Spec

\* For any number of files and workers, when main returns 0 every name that was
\* handed out has a whole record, a record cut short or a worker that died on it,
\* and a name is left over only if every worker died on an earlier one.
THEOREM EveryFileAccounted == Spec => []FilesAccounted
<1>1. PoolInv /\ Accounts /\ SuccessInv => FilesAccounted
  <2> SUFFICES ASSUME PoolInv, Accounts, mainPc = "end", NEW f \in Files
               PROVE  IF f < nextFile
                      THEN \/ \E i \in DOMAIN output : output[i] = Part(f, RecordParts)
                           \/ f \in truncated
                           \/ \E t \in Threads : DiedOn(t, f)
                      ELSE \A t \in Threads : \E g \in 0 .. f - 1 : DiedOn(t, g)
    BY DEF SuccessInv, FilesAccounted
  <2>1. CASE f < nextFile
    BY <2>1, AllSettled DEF Settled, Whole
  <2>2. CASE ~ (f < nextFile)
    <3>1. nextFile \in Nat /\ ~ (nextFile >= NumberFiles)
      BY <2>2, ConstantTypes DEF PoolInv, Types
    <3>2. ASSUME NEW t \in Threads
          PROVE  \E g \in 0 .. f - 1 : DiedOn(t, g)
      <4>1. /\ ret[t] = "null" /\ fileNumber[t] \in Files
            /\ fileNumber[t] < nextFile
        BY <3>1, AllSettled
      <4>2. fileNumber[t] \in 0 .. f - 1
        BY <2>2, <3>1, <4>1, ConstantTypes
      <4> QED
        BY <4>1, <4>2 DEF DiedOn
    <3> QED
      BY <2>2, <3>2
  <2> QED
    BY <2>1, <2>2
<1> QED
  BY <1>1, AccountInvariant, PTL

\* The threads, their semaphores and the interleaved fwrites implement the
\* archive, for any number of files, workers and symbols.
THEOREM ImplementsArchive == Spec => ArchiveSpec
<1>1. PoolInv /\ Accounts /\ [Next]_vars => [Archive!Next]_(Archive!avars)
  BY ArchiveStep
<1> QED
  BY ArchiveInit, <1>1, AccountInvariant, PTL DEF Spec, ArchiveSpec, Archive!Spec
=============================================================================
