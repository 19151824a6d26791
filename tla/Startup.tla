------------------------------ MODULE Startup -------------------------------
(***************************************************************************)
(* main of main.c up to the creation of the threads: parse_args, readDir   *)
(* and the two semaphores, in this order.  What it hands over is where     *)
(* WorkerPool begins.                                                      *)
(***************************************************************************)
EXTENDS Arguments, DirectoryListing

\* There are far fewer names than a uint32_t can count.
ASSUME StartupAssumption == Cardinality(Names) + MaxChanges + Byte < Modulus

VARIABLE phase   \* where main is, or how the process ended

vars == <<phase, argVars, listVars>>

Init == phase = "parse" /\ ParseInit /\ ListInit

-----------------------------------------------------------------------------

Parse ==
  /\ phase = "parse"
  /\ ParseNext
  /\ UNCHANGED <<phase, listVars>>

\* A mistaken test, which only knows the usage message.
StopsOnUsage == IF ret = "usage" THEN "success" ELSE "list"

\* -1 is a failure, 1 a success of the process.
AfterParse ==
  CASE ret = "error" -> "failure" [] ret = "usage" -> "success" [] OTHER -> "list"

ParseReturns ==
  /\ phase = "parse"
  /\ ret # "none"
  /\ phase' = AfterParse
  /\ UNCHANGED <<argVars, listVars>>

List ==
  /\ phase = "list"
  /\ ListNext
  /\ phase' = IF step' = "crashed" THEN "crashed" ELSE "list"
  /\ UNCHANGED argVars

\* main does not look at what readDir returned.
Semaphores ==
  /\ phase = "list"
  /\ step \in {"array", "null"}
  /\ phase' = "ready"
  /\ UNCHANGED <<argVars, listVars>>

\* my_sem_init returned NULL.
SemaphoresFail ==
  /\ phase = "list"
  /\ step \in {"array", "null"}
  /\ phase' = "failure"
  /\ UNCHANGED <<argVars, listVars>>

Ended ==
  /\ phase \in {"ready", "success", "failure", "crashed"}
  /\ UNCHANGED vars

Next == Parse \/ ParseReturns \/ List \/ Semaphores \/ SemaphoresFail \/ Ended

Spec == Init /\ [][Next]_vars

-----------------------------------------------------------------------------

\* Types of the variables.
TypeOK ==
  /\ phase \in {"parse", "list", "ready", "success", "failure", "crashed"}
  /\ parsed \in 0 .. Len(argv)
  /\ nb_threads \in 0 .. Byte - 1
  /\ verbose \in BOOLEAN
  /\ ret \in {"none", "ok", "error", "usage"}
  /\ ListTypeOK

\* What an array entry is for the workers.
SlotState(s) == IF s = Unset THEN "wild" ELSE "live"

\* The workers start in the state that WorkerPool supposes: one worker at least,
\* an index that cannot reach the value that means "no file", and an array that
\* is NULL, or filled from the front; unless readDir counted less than two entries.
PoolReady ==
  phase = "ready" /\ Unwrapped =>
    /\ nb_threads > 0
    /\ numberFiles + nb_threads <= Modulus - 1
    /\ step = "null" \/
       \E k \in 0 .. numberFiles :
         [f \in 0 .. numberFiles - 1 |-> SlotState(slots[f])] =
         [f \in 0 .. numberFiles - 1 |-> IF f < k THEN "live" ELSE "wild"]
=============================================================================
