-------------------------- MODULE DirectoryListing --------------------------
(***************************************************************************)
(* readDir of message.c: it reads the directory once to count the names,   *)
(* allocates an array of that many slots, rewinds, and reads the directory *)
(* a second time to fill the slots.  Other programs create and remove      *)
(* names meanwhile.  POSIX leaves open whether readdir returns a name that *)
(* was created or removed since the directory was opened or rewound, in    *)
(* which order names come, and whether "." and ".." are returned at all; and *)
(* readdir may fail before the end, which readDir cannot tell from the end. *)
(***************************************************************************)
EXTENDS Integers, FiniteSets

CONSTANTS
  Names,        \* the names that files of the directory may have
  DotListings,  \* the sets of dot entries that readdir may return
  Modulus,      \* a uint32_t holds 0 .. Modulus - 1: 2^32
  MaxChanges    \* bound: how often other programs create or remove a name

Dot == {".", ".."}

\* A slot that malloc returned and nobody has set.
Unset == "unset"

ASSUME ListingAssumption ==
  /\ IsFiniteSet(Names) /\ Names \cap Dot = {} /\ Unset \notin Names
  /\ DotListings \subseteq SUBSET Dot
  /\ Modulus \in Nat /\ MaxChanges \in Nat
  /\ Cardinality(Names) + MaxChanges + 4 < Modulus

VARIABLES
  step,         \* where readDir is, and how it ended
  entries,      \* the directory
  seen,         \* the entries that readdir has returned since it was (re)wound
  fresh,        \* names created or removed since then
  numberFiles,  \* t_args.numberFiles
  slots,        \* the array filenames
  i,            \* i of readDir, the number of names copied
  cut,          \* the passes, by their step, that an error of readdir ended
  created, removed   \* how many names were created and removed since opendir

listVars == <<step, entries, seen, fresh, numberFiles, slots, i, cut,
              created, removed>>

\* Only "." is taken off the count.
CountWithoutDot == Modulus - 1

\* "remove . and .. from directory": -2 as a uint32_t.
CountWithoutDots == Modulus - 2

\* readDir begins with a directory that has just been opened.
ListInit ==
  /\ step = "count"
  /\ \E names \in SUBSET Names, dots \in DotListings : entries = names \cup dots
  /\ seen = {} /\ fresh = {}
  /\ numberFiles = CountWithoutDots
  /\ slots = [k \in {} |-> Unset]
  /\ i = 0
  /\ cut = {}
  /\ created = 0 /\ removed = 0

-----------------------------------------------------------------------------
(* The directory.                                                          *)

\* What readdir may return next, and what it may not leave out.
Unread == (entries \cup fresh) \ seen
Owed   == (entries \ fresh) \ seen

Busy == step \in {"count", "allocate", "fill"} /\ created + removed < MaxChanges

CreateName ==
  /\ Busy
  /\ \E n \in Names \ entries :
       /\ entries' = entries \cup {n}
       /\ fresh' = fresh \cup {n}
       /\ seen' = seen \ {n}
  /\ created' = created + 1
  /\ UNCHANGED <<step, numberFiles, slots, i, cut, removed>>

RemoveName ==
  /\ Busy
  /\ \E n \in Names \cap entries :
       /\ entries' = entries \ {n}
       /\ fresh' = fresh \cup {n}
  /\ removed' = removed + 1
  /\ UNCHANGED <<step, seen, numberFiles, slots, i, cut, created>>

dirVars == <<entries, fresh, created, removed>>

-----------------------------------------------------------------------------
(* readDir.                                                                *)

CountEntry ==
  /\ step = "count"
  /\ \E e \in Unread : seen' = seen \cup {e}
  /\ numberFiles' = (numberFiles + 1) % Modulus
  /\ UNCHANGED <<step, slots, i, cut, dirVars>>

\* A mistaken rewind, which leaves the stream where it is.
KeepPosition == UNCHANGED <<seen, fresh>>

Rewind == seen' = {} /\ fresh' = {}

\* readdir returns NULL, at the end of the directory or for an error.
PassEnds == cut' = IF Owed = {} THEN cut ELSE cut \cup {step}

\* rewinddir is called.
CountEnds ==
  /\ step = "count"
  /\ PassEnds
  /\ Rewind
  /\ step' = "allocate"
  /\ UNCHANGED <<entries, numberFiles, slots, i, created, removed>>

Allocate ==
  /\ step = "allocate"
  /\ slots' = [k \in 0 .. numberFiles - 1 |-> Unset]
  /\ step' = "fill"
  /\ UNCHANGED <<seen, numberFiles, i, cut, dirVars>>

\* No memory for the array or, while it is filled, for a name: NULL is returned
\* and numberFiles stays what it is.
AllocateFails ==
  /\ \/ step = "allocate"
     \/ step = "fill" /\ Unread \ Dot # {}
  /\ step' = "null"
  /\ UNCHANGED <<seen, numberFiles, slots, i, cut, dirVars>>

SkipDot ==
  /\ step = "fill"
  /\ \E e \in Unread \cap Dot : seen' = seen \cup {e}
  /\ UNCHANGED <<step, numberFiles, slots, i, cut, dirVars>>

\* The dot entries take a slot each.
EveryEntry == Unread

\* The entries that are copied into the array.
Copied == Unread \ Dot

\* i is incremented before the name is stored.
NextTarget == i + 1

Target == i

\* i is not compared with numberFiles: a name too many is written behind the
\* array, which may end the process now or later.
FillSlot ==
  /\ step = "fill"
  /\ \E e \in Copied :
       /\ seen' = seen \cup {e}
       /\ slots' = [k \in DOMAIN slots |-> IF k = Target THEN e ELSE slots[k]]
  /\ i' = i + 1
  /\ step' \in IF i < numberFiles THEN {"fill"} ELSE {"fill", "crashed"}
  /\ UNCHANGED <<numberFiles, cut, dirVars>>

FillEnds ==
  /\ step = "fill"
  /\ PassEnds
  /\ step' = "array"
  /\ UNCHANGED <<seen, numberFiles, slots, i, dirVars>>

ReadDir ==
  \/ CountEntry \/ CountEnds \/ Allocate \/ AllocateFails
  \/ SkipDot \/ FillSlot \/ FillEnds

ListNext == ReadDir \/ CreateName \/ RemoveName

ListSpec == ListInit /\ [][ListNext]_listVars

-----------------------------------------------------------------------------

Missing == Cardinality(Dot \ entries)

\* More than one entry was counted, so that numberFiles did not wrap below 0.
Unwrapped == numberFiles < Modulus - 2

\* Types of the variables.
ListTypeOK ==
  /\ step \in {"count", "allocate", "fill", "array", "null", "crashed"}
  /\ entries \subseteq Names \cup Dot
  /\ seen \subseteq Names \cup Dot
  /\ fresh \subseteq Names
  /\ numberFiles \in 0 .. Modulus - 1
  /\ step \in {"fill", "array", "crashed"} =>
       slots \in [0 .. numberFiles - 1 -> Names \cup {Unset}]
  /\ i \in Nat
  /\ cut \subseteq {"count", "fill"}
  /\ created \in Nat /\ removed \in Nat /\ created + removed <= MaxChanges

\* Unless an error ended the counting, readDir writes behind the array by at most
\* one name for each name that was created since the directory was opened and for
\* each dot entry that readdir did not return: never if nothing changes and both
\* are listed.
OverrunBounded ==
  step \in {"fill", "array", "crashed"} /\ Unwrapped /\ "count" \notin cut =>
    i <= numberFiles + created + Missing

\* Unless an error ended the copying, it leaves at most one slot unset for each
\* name that was removed.  numberFiles may only wrap, and leave almost 2^32 slots
\* unset, when a dot entry is not returned or an error ended the counting.
GapBounded ==
  step = "array" /\ "fill" \notin cut =>
    \/ numberFiles <= i + removed
    \/ ~ Unwrapped /\ (Missing > 0 \/ "count" \in cut)

\* The slots that were set come first, as the pool of workers supposes, and
\* hold different names unless one was created again while they were filled.
FilledInOrder ==
  step \in {"fill", "array"} =>
    /\ \A k \in DOMAIN slots : slots[k] # Unset <=> k < i
    /\ created = 0 =>
         \A k, l \in DOMAIN slots :
           k # l /\ slots[k] # Unset => slots[k] # slots[l]

\* A directory that nobody touches and that is read to its end twice is listed
\* completely.
UntouchedComplete ==
  step = "array" /\ created + removed = 0 /\ cut = {} /\ Dot \subseteq entries =>
    {slots[k] : k \in DOMAIN slots} = entries \ Dot
=============================================================================
