---------------------------- MODULE DecodeArchive ----------------------------
(***************************************************************************)
(* What fec promises of a directory: the names are handed out once each,   *)
(* in order, to at most one worker at a time, and a name that was handed   *)
(* out ends in exactly one way: a whole record, a record cut short by a    *)
(* write error, or the loss of the worker that held it.  There are no      *)
(* semaphores and no pieces of records here: each change is one step.      *)
(***************************************************************************)
EXTENDS Integers, FiniteSets

CONSTANTS
  Names,    \* the positions of the names in the directory listing
  Workers   \* the worker threads

VARIABLES
  taken,    \* names handed out to a worker
  whole,    \* names with a complete record in the output
  cut,      \* names whose record was cut short by a write error
  lost,     \* names on which a worker returned NULL
  outcome   \* "running", or how the process ended

avars == <<taken, whole, cut, lost, outcome>>

Finished == whole \cup cut \cup lost

Init ==
  /\ taken = {} /\ whole = {} /\ cut = {} /\ lost = {}
  /\ outcome = "running"

\* A worker that is neither lost nor busy takes the next name.
Take ==
  /\ Cardinality(taken \ (whole \cup cut)) < Cardinality(Workers)
  /\ \E f \in Names \ taken :
       /\ \A g \in Names : g < f => g \in taken
       /\ taken' = taken \cup {f}
  /\ UNCHANGED <<whole, cut, lost, outcome>>

Complete ==
  /\ \E f \in taken \ Finished : whole' = whole \cup {f}
  /\ UNCHANGED <<taken, cut, lost, outcome>>

Cut ==
  /\ \E f \in taken \ Finished : cut' = cut \cup {f}
  /\ UNCHANGED <<taken, whole, lost, outcome>>

Lose ==
  /\ \E f \in taken \ Finished : lost' = lost \cup {f}
  /\ UNCHANGED <<taken, whole, cut, outcome>>

\* The process succeeds when every name is finished, or when no worker is
\* left and every name that was handed out is finished.
Succeed ==
  /\ taken \subseteq Finished
  /\ taken = Names \/ Cardinality(lost) = Cardinality(Workers)
  /\ outcome' = "success"
  /\ UNCHANGED <<taken, whole, cut, lost>>

Fail ==
  /\ outcome' \in {"failure", "crashed"}
  /\ UNCHANGED <<taken, whole, cut, lost>>

Next ==
  outcome = "running" /\ (Take \/ Complete \/ Cut \/ Lose \/ Succeed \/ Fail)

Spec == Init /\ [][Next]_avars
=============================================================================
