----------------------------- MODULE WorkerPool -----------------------------
(***************************************************************************)
(* The threads of fec: main (main.c), which starts NbThreads workers, and  *)
(* the workers (processFile and getNextFile of my_threads.c), which take   *)
(* the file names one by one from t_args.filenames, decode each file and   *)
(* append its record to the output stream.  Two semaphores created with    *)
(* the value 1 guard the index of the next file and the output stream.     *)
(*                                                                         *)
(* What a file contains and how it is repaired is left to other modules;   *)
(* here openFile returns a message, returns NULL or ends the process, and  *)
(* processBlocks and every fwrite succeed or fail.  A function declared    *)
(* uint32_t that returns -1 is compared with "< 0", which is never true:   *)
(* such a failure is visible in the model only by what it leaves behind.   *)
(***************************************************************************)
EXTENDS Integers, Sequences, FiniteSets

CONSTANTS
  NumberFiles,    \* t_args.numberFiles, the number of names readDir counted
  NbThreads,      \* args.nb_threads, the number of workers
  UintMax,        \* the largest uint32_t, which is also (uint32_t) -1
  SymbolWrites,   \* how many symbols writeToFile writes for one message
  DebugToOutput   \* args.verbose is set and args.output_stream is stdout

ASSUME PoolAssumption ==
  /\ NumberFiles \in Nat
  /\ NbThreads \in Nat \ {0}
  /\ UintMax \in Nat
  /\ NumberFiles + NbThreads <= UintMax
  /\ SymbolWrites \in Nat
  /\ DebugToOutput \in BOOLEAN

Files   == 0 .. NumberFiles - 1
Threads == 0 .. NbThreads - 1
NoFile  == UintMax

\* A record is the length of the name, the length of the message, the name
\* and the symbols, one fwrite for each.
RecordParts == 3 + SymbolWrites

\* What the stream may hold: the k-th fwrite of a file's record, or lines
\* printed by a verbose worker.
Part(f, k) == [file |-> f, part |-> k]
Debug      == [file |-> NoFile, part |-> 0]

VARIABLES
  mainPc,      \* the phase of main
  mainIdx,     \* i of main's two loops
  status,      \* whether the process still runs, and how it ended
  nextFile,    \* t_args.nextFile
  semRead,     \* value of t_args.semaphore_read
  semWrite,    \* value of t_args.semaphore_writing
  filenames,   \* what each slot of t_args.filenames holds
  output,      \* everything written to args.output_stream
  pc,          \* where each worker is
  fileNumber,  \* fileNumber of processFile, val of getNextFile
  written,     \* how many fwrites of writeToFile have succeeded
  ret,         \* what processFile returned
  unrepaired,  \* files for which processBlocks returned -1
  truncated    \* files for which writeToFile returned -1

mainVars   == <<mainPc, mainIdx>>
sharedVars == <<nextFile, semRead, semWrite, filenames, output>>
workerVars == <<pc, fileNumber, written, ret>>
faultVars  == <<unrepaired, truncated>>
vars == <<mainVars, status, sharedVars, workerVars, faultVars>>

Init ==
  /\ mainPc = "setup"
  /\ mainIdx = 0
  /\ status = "running"
  /\ nextFile = 0
  /\ semRead = 0
  /\ semWrite = 0
  /\ filenames = [f \in Files |-> "null"]
  /\ output = <<>>
  /\ pc = [t \in Threads |-> "none"]
  /\ fileNumber = [t \in Threads |-> NoFile]
  /\ written = [t \in Threads |-> 0]
  /\ ret = [t \in Threads |-> "none"]
  /\ unrepaired = {}
  /\ truncated = {}

-----------------------------------------------------------------------------
(* main *)

\* The arrays readDir may leave in t_args.filenames: NULL after a failed
\* malloc, or an array whose first k slots it filled; k is less than the
\* number of slots when the directory lost entries after they were counted.
Listings ==
  {[f \in Files |-> "null"]} \cup
  {[f \in Files |-> IF f < k THEN "live" ELSE "wild"] : k \in 0 .. NumberFiles}

\* A mistaken argument: both semaphores let two threads in.
TwoPermits == 2

\* The argument of my_sem_init.
InitialValue == 1

MainSetup ==
  /\ mainPc = "setup"
  /\ filenames' \in Listings
  /\ semRead' = InitialValue
  /\ semWrite' = InitialValue
  /\ mainPc' = "create"
  /\ UNCHANGED <<mainIdx, status, nextFile, output, workerVars, faultVars>>

MainCreate ==
  /\ mainPc = "create"
  /\ IF mainIdx < NbThreads
     THEN /\ pc' = [pc EXCEPT ![mainIdx] = "check"]
          /\ mainIdx' = mainIdx + 1
          /\ UNCHANGED mainPc
     ELSE /\ mainPc' = "join"
          /\ mainIdx' = 0
          /\ UNCHANGED pc
  /\ UNCHANGED <<status, sharedVars, fileNumber, written, ret, faultVars>>

\* The last worker is not joined.
ToJoinButOne == mainIdx < NbThreads - 1

ToJoin == mainIdx < NbThreads

MainJoin ==
  /\ mainPc = "join"
  /\ IF ToJoin
     THEN /\ pc[mainIdx] = "done"
          /\ mainIdx' = mainIdx + 1
          /\ UNCHANGED mainPc
     ELSE /\ mainPc' = "destroy"
          /\ UNCHANGED mainIdx
  /\ UNCHANGED <<status, sharedVars, workerVars, faultVars>>

\* The semaphores are destroyed, the array of names is freed, the output is
\* closed and main returns 0.  What was freed keeps its last value here:
\* DestroyedIdle says that nobody can read it any more.
MainDestroy ==
  /\ mainPc = "destroy"
  /\ mainPc' = "finish"
  /\ UNCHANGED <<mainIdx, status, sharedVars, workerVars, faultVars>>

MainFinish ==
  /\ mainPc = "finish"
  /\ mainPc' = "end"
  /\ status' = "success"
  /\ UNCHANGED <<mainIdx, sharedVars, workerVars, faultVars>>

\* Each call of main that fails ends the process with EXIT_FAILURE, whatever
\* the workers are doing; and readDir may write past the array it fills.
MainAborts ==
  /\ mainPc \in {"setup", "create", "join", "destroy"}
  /\ status' = "failure" \/ (mainPc = "setup" /\ status' = "crashed")
  /\ UNCHANGED <<mainVars, sharedVars, workerVars, faultVars>>

Main == MainSetup \/ MainCreate \/ MainJoin \/ MainDestroy \/ MainFinish

-----------------------------------------------------------------------------
(* getNextFile *)

Goto(t, where) == pc' = [pc EXCEPT ![t] = where]

ExhaustedLate  == nextFile > NumberFiles
ExhaustedEarly == nextFile + 1 >= NumberFiles

\* "all files have been processed", read without the semaphore.
Exhausted == nextFile >= NumberFiles

CheckNext(t) ==
  /\ pc[t] = "check"
  /\ IF Exhausted
     THEN /\ fileNumber' = [fileNumber EXCEPT ![t] = NoFile]
          /\ Goto(t, "loop")
     ELSE /\ Goto(t, "waitRead")
          /\ UNCHANGED fileNumber
  /\ UNCHANGED <<mainVars, status, sharedVars, written, ret, faultVars>>

WaitRead(t) ==
  /\ pc[t] = "waitRead"
  /\ semRead > 0
  /\ semRead' = semRead - 1
  /\ Goto(t, "take")
  /\ UNCHANGED <<mainVars, status, nextFile, semWrite, filenames, output,
                 fileNumber, written, ret, faultVars>>

TakeIndex(t) ==
  /\ pc[t] = "take"
  /\ fileNumber' = [fileNumber EXCEPT ![t] = nextFile]
  /\ Goto(t, "bump")
  /\ UNCHANGED <<mainVars, status, sharedVars, written, ret, faultVars>>

BumpIndex(t) ==
  /\ pc[t] = "bump"
  /\ nextFile' = nextFile + 1
  /\ Goto(t, "postRead")
  /\ UNCHANGED <<mainVars, status, semRead, semWrite, filenames, output,
                 fileNumber, written, ret, faultVars>>

PostRead(t) ==
  /\ pc[t] = "postRead"
  /\ semRead' = semRead + 1
  /\ Goto(t, "loop")
  /\ UNCHANGED <<mainVars, status, nextFile, semWrite, filenames, output,
                 fileNumber, written, ret, faultVars>>

-----------------------------------------------------------------------------
(* processFile *)

\* A slot outside the array holds whatever lies behind it.
Slot(t) ==
  IF fileNumber[t] \in Files THEN filenames[fileNumber[t]] ELSE "wild"

Return(t, value) ==
  /\ Goto(t, "done")
  /\ ret' = [ret EXCEPT ![t] = value]

\* printf while verbose.
Printed == IF DebugToOutput THEN Append(output, Debug) ELSE output

LoopEnds(t) ==
  /\ pc[t] = "loop"
  /\ fileNumber[t] = NoFile
  /\ Return(t, "stream")
  /\ UNCHANGED <<mainVars, status, sharedVars, fileNumber, written, faultVars>>

OpenFile(t) ==
  /\ pc[t] = "loop"
  /\ fileNumber[t] # NoFile
  /\ Slot(t) = "live"
  /\ output' = Printed
  /\ Goto(t, "process")
  /\ UNCHANGED <<mainVars, status, nextFile, semRead, semWrite, filenames,
                 fileNumber, written, ret, faultVars>>

\* No memory for the path, which is found before the slot is read or anything
\* is printed, or openFile returned NULL.  The name found in a wild slot is
\* never the name of a file.
OpenFileFails(t) ==
  /\ pc[t] = "loop"
  /\ fileNumber[t] # NoFile
  /\ output' = output \/ (Slot(t) # "null" /\ output' = Printed)
  /\ Return(t, "null")
  /\ UNCHANGED <<mainVars, status, nextFile, semRead, semWrite, filenames,
                 fileNumber, written, faultVars>>

\* strcat follows a pointer that is no name, or the header of the file holds
\* a zero size and openFile divides by it.
OpenFileCrashes(t) ==
  /\ pc[t] = "loop"
  /\ fileNumber[t] # NoFile
  /\ status' = "crashed"
  /\ UNCHANGED <<mainVars, sharedVars, workerVars, faultVars>>

\* processBlocks repairs the blocks or returns -1 half-way; the test "< 0"
\* lets the worker go on in both cases.
ProcessBlocks(t) ==
  /\ pc[t] = "process"
  /\ unrepaired' \in {unrepaired, unrepaired \cup {fileNumber[t]}}
  /\ output' = Printed
  /\ Goto(t, "waitWrite")
  /\ UNCHANGED <<mainVars, status, nextFile, semRead, semWrite, filenames,
                 fileNumber, written, ret, truncated>>

\* More symbols lost than there are repair symbols, or no block at all: the
\* arrays are read past their end.
ProcessBlocksCrashes(t) ==
  /\ pc[t] = "process"
  /\ status' = "crashed"
  /\ UNCHANGED <<mainVars, sharedVars, workerVars, faultVars>>

WaitWrite(t) ==
  /\ pc[t] = "waitWrite"
  /\ semWrite > 0
  /\ semWrite' = semWrite - 1
  /\ written' = [written EXCEPT ![t] = 0]
  /\ Goto(t, "write")
  /\ UNCHANGED <<mainVars, status, nextFile, semRead, filenames, output,
                 fileNumber, ret, faultVars>>

WritePart(t) ==
  /\ pc[t] = "write"
  /\ output' = Append(output, Part(fileNumber[t], written[t] + 1))
  /\ written' = [written EXCEPT ![t] = @ + 1]
  /\ Goto(t, IF written[t] + 1 = RecordParts THEN "postWrite" ELSE "write")
  /\ UNCHANGED <<mainVars, status, nextFile, semRead, semWrite, filenames,
                 fileNumber, ret, faultVars>>

\* The error path processFile would take if its test could ever be true.
LeaveOnWriteError(t) == Return(t, "null")

\* writeToFile(...) < 0 compares a uint32_t with 0.
AfterWriteError(t) == Goto(t, "postWrite") /\ UNCHANGED ret

WriteFails(t) ==
  /\ pc[t] = "write"
  /\ truncated' = truncated \cup {fileNumber[t]}
  /\ AfterWriteError(t)
  /\ UNCHANGED <<mainVars, status, sharedVars, fileNumber, written, unrepaired>>

PostWrite(t) ==
  /\ pc[t] = "postWrite"
  /\ semWrite' = semWrite + 1
  /\ Goto(t, "free")
  /\ UNCHANGED <<mainVars, status, nextFile, semRead, filenames, output,
                 fileNumber, written, ret, faultVars>>

FreeName(t) ==
  /\ pc[t] = "free"
  /\ filenames' = [filenames EXCEPT ![fileNumber[t]] = "freed"]
  /\ Goto(t, "check")
  /\ UNCHANGED <<mainVars, status, nextFile, semRead, semWrite, output,
                 fileNumber, written, ret, faultVars>>

Worker(t) ==
  \/ CheckNext(t) \/ WaitRead(t) \/ TakeIndex(t) \/ BumpIndex(t) \/ PostRead(t)
  \/ LoopEnds(t) \/ OpenFile(t) \/ OpenFileFails(t)
  \/ ProcessBlocks(t)
  \/ WaitWrite(t) \/ WritePart(t) \/ WriteFails(t) \/ PostWrite(t) \/ FreeName(t)

Crash(t) == OpenFileCrashes(t) \/ ProcessBlocksCrashes(t)

\* A process that has ended takes no step; the stutter keeps it from being
\* reported as a deadlock of the threads.
Ended == status # "running" /\ UNCHANGED vars

Next ==
  \/ /\ status = "running"
     /\ \/ Main
        \/ MainAborts
        \/ \E t \in Threads : Worker(t) \/ Crash(t)
  \/ Ended

\* The operating system runs every thread that can run.
Fairness ==
  /\ WF_vars(status = "running" /\ Main)
  /\ \A t \in Threads : WF_vars(status = "running" /\ (Worker(t) \/ Crash(t)))

Spec == Init /\ [][Next]_vars /\ Fairness

-----------------------------------------------------------------------------
(* What the threads should guarantee *)

Claimed(t) ==
  /\ pc[t] \in {"bump", "postRead", "loop", "process", "waitWrite", "write",
               "postWrite", "free"}
  /\ fileNumber[t] # NoFile

\* The worker returned NULL while it held this index.
DiedOn(t, i) == ret[t] = "null" /\ fileNumber[t] = i

OutputItem == {Debug} \cup {Part(f, k) : f \in Files, k \in 1 .. RecordParts}

\* Types of the variables; each semaphore stays binary.
TypeOK ==
  /\ mainPc \in {"setup", "create", "join", "destroy", "finish", "end"}
  /\ mainIdx \in 0 .. NbThreads
  /\ status \in {"running", "success", "failure", "crashed"}
  /\ nextFile \in 0 .. UintMax
  /\ semRead \in {0, 1}
  /\ semWrite \in {0, 1}
  /\ filenames \in [Files -> {"null", "live", "wild", "freed"}]
  /\ output \in Seq(OutputItem)
  /\ pc \in [Threads -> {"none", "check", "waitRead", "take", "bump", "postRead",
                        "loop", "process", "waitWrite", "write", "postWrite",
                        "free", "done"}]
  /\ fileNumber \in [Threads -> 0 .. UintMax]
  /\ written \in [Threads -> 0 .. RecordParts]
  /\ ret \in [Threads -> {"none", "stream", "null"}]
  /\ unrepaired \in SUBSET Files
  /\ truncated \in SUBSET Files

\* getNextFile tests nextFile before it takes the semaphore, so several
\* workers may pass the test for the last name; still the index runs past the
\* end by less than one per worker, and never reaches the value that means
\* "no more files".  With one worker it never runs past the end.
OverrunBound ==
  /\ nextFile <= NumberFiles + NbThreads - 1
  /\ \A t \in Threads : Claimed(t) =>
       fileNumber[t] < NumberFiles + NbThreads - 1

\* No two workers hold the same index: reading nextFile and incrementing it
\* is one step for the others, because of semaphore_read.
UniqueClaim ==
  \A t, u \in Threads :
    t # u /\ Claimed(t) /\ Claimed(u) => fileNumber[t] # fileNumber[u]

\* Once main has created the semaphores, a semaphore is taken only while a
\* worker is between its sem_wait and its sem_post: no path through getNextFile
\* or processFile, and no failing call, leaves one taken behind it, so a worker
\* that waits always waits for a worker that can move.
SemaphoresHeld ==
  mainPc # "setup" =>
    /\ semRead = 0 => \E t \in Threads : pc[t] \in {"take", "bump", "postRead"}
    /\ semWrite = 0 => \E t \in Threads : pc[t] \in {"write", "postWrite"}

\* From openFile to free(filename) a worker's name is allocated and filled:
\* no other worker frees it, main does not free the array.
NameAlive ==
  \A t \in Threads :
    pc[t] \in {"process", "waitWrite", "write", "postWrite", "free"} =>
      /\ fileNumber[t] \in Files
      /\ filenames[fileNumber[t]] = "live"
      /\ mainPc \notin {"destroy", "finish", "end"}

\* i is the last fwrite before j; between them only lines were printed.
Follows(i, j) ==
  /\ i < j
  /\ output[i] # Debug
  /\ \A k \in i + 1 .. j - 1 : output[k] = Debug

\* Records are not mixed: the first fwrite of a record comes after the end
\* of the record before it, or after the point where that one failed; every
\* other fwrite comes right after the previous one of the same record.  Lines
\* printed by a verbose run on stdout may fall in between.
RecordsContiguous ==
  \A j \in DOMAIN output : output[j] # Debug =>
    IF output[j].part = 1
    THEN \A i \in DOMAIN output : Follows(i, j) =>
           \/ output[i].part = RecordParts
           \/ output[i].file \in truncated
    ELSE \E i \in DOMAIN output :
           Follows(i, j) /\ output[i] = Part(output[j].file, output[j].part - 1)

\* When main destroys the semaphores and frees the array of names, every
\* worker has returned and both semaphores are free.
DestroyedIdle ==
  mainPc \in {"destroy", "finish", "end"} =>
    /\ \A t \in Threads : pc[t] = "done"
    /\ semRead = InitialValue /\ semWrite = InitialValue

\* When main returns 0, every name that was handed out has a whole record, was
\* cut short by a write error, or ended its worker; and names are left that
\* nobody took only if every worker died on another name before.
FilesAccounted ==
  status = "success" =>
    \A f \in Files :
      IF f < nextFile
      THEN \/ \E i \in DOMAIN output : output[i] = Part(f, RecordParts)
           \/ f \in truncated
           \/ \E t \in Threads : DiedOn(t, f)
      ELSE \A t \in Threads : \E g \in 0 .. f - 1 : DiedOn(t, g)

\* The process always ends: no worker waits for a semaphore for ever and main
\* joins them all.
Termination == <>(status # "running")

-----------------------------------------------------------------------------
(* What the documentation says and the code does not do *)

\* my_threads.h:8 says of getNextFile "check that we do not exceed the number
\* of files".
NeverExceeds ==
  \A t \in Threads : Claimed(t) => fileNumber[t] < NumberFiles

-----------------------------------------------------------------------------
(* The pool implements the archive of finished records *)

Whole(f) == \E i \in DOMAIN output : output[i] = Part(f, RecordParts)

Archive == INSTANCE DecodeArchive WITH
  Names   <- Files,
  Workers <- Threads,
  taken   <- {f \in Files : f < nextFile},
  whole   <- {f \in Files : Whole(f)},
  cut     <- truncated,
  lost    <- {f \in Files : \E t \in Threads : DiedOn(t, f)},
  outcome <- status

\* Threads, semaphores and interleaved fwrites implement the archive, in which
\* taking a name and adding a record are single steps.
ArchiveSpec == Archive!Spec
=============================================================================
