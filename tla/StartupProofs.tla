---------------------------- MODULE StartupProofs ---------------------------
(***************************************************************************)
(* The start of the program for any command line, any directory and any    *)
(* number of changes made to it meanwhile: proofs of the properties of     *)
(* Arguments, DirectoryListing and Startup.                                *)
(***************************************************************************)
EXTENDS Startup, FiniteSetTheorems, TLAPS

-----------------------------------------------------------------------------
(* The listing *)

\* While the names are counted: what was counted and what may still be
\* returned does not exceed the entries by more than were removed, and with
\* what has to be returned it falls short by at most what was created.
CountInv ==
  step = "count" =>
    /\ cut = {}
    /\ \E c \in Nat :
         /\ numberFiles = IF c < 2 THEN Modulus - 2 + c ELSE c - 2
         /\ c + Cardinality(Unread) <= Cardinality(entries) + removed
         /\ Cardinality(entries) <= c + Cardinality(Owed) + created
         /\ c = 0 => seen \cap Dot = {}
         /\ c = 1 => ~ Dot \subseteq seen

\* The same of the names that are copied, against numberFiles.
FillInv ==
  step # "count" =>
    /\ Unwrapped =>
         /\ "count" \notin cut =>
              i + Cardinality(Unread \ Dot) <= numberFiles + created + Missing
         /\ numberFiles <= i + Cardinality(Owed \ Dot) + removed
         /\ numberFiles <= Cardinality(Names) + MaxChanges
    /\ Missing = 0 /\ "count" \notin cut => Unwrapped
    /\ step = "array" /\ "fill" \notin cut => Owed = {}

NoneCopied == step \in {"count", "allocate"} => i = 0

ListInv == ListTypeOK /\ CountInv /\ FillInv /\ NoneCopied

LEMMA Sizes ==
  ASSUME ListTypeOK
  PROVE  /\ \A S \in SUBSET (Names \cup Dot) : IsFiniteSet(S) /\ Cardinality(S) \in Nat
         /\ Cardinality(entries) <= Cardinality(Names) + 2
         /\ Cardinality(entries \ Dot) = Cardinality(entries) - 2 + Missing
         /\ Missing \in Nat /\ Cardinality(Names) \in Nat
<1>1. IsFiniteSet(Dot) /\ Cardinality(Dot) = 2
  <2>1. IsFiniteSet({"."}) /\ Cardinality({"."}) = 1
    BY FS_Singleton
  <2>2. /\ IsFiniteSet({"."} \cup {".."})
        /\ Cardinality({"."} \cup {".."}) = IF ".." \in {"."} THEN 1 ELSE 1 + 1
    BY <2>1, FS_AddElement
  <2>3. Dot = {"."} \cup {".."} /\ ".." \notin {"."}
    BY DEF Dot
  <2> QED
    BY <2>2, <2>3
<1>2. IsFiniteSet(Names \cup Dot) /\ Cardinality(Names \cup Dot) = Cardinality(Names) + 2
  <2>1. IsFiniteSet(Names) /\ Names \cap Dot = {} /\ Cardinality(Names) \in Nat
    BY ListingAssumption, FS_CardinalityType
  <2>2. /\ IsFiniteSet(Names \cup Dot)
        /\ Cardinality(Names \cup Dot) =
             Cardinality(Names) + Cardinality(Dot) - Cardinality(Names \cap Dot)
    BY <1>1, <2>1, FS_Union
  <2>3. Cardinality(Names \cap Dot) = 0
    BY <2>1, FS_EmptySet
  <2> QED
    BY <1>1, <2>1, <2>2, <2>3
<1>3. \A S \in SUBSET (Names \cup Dot) : IsFiniteSet(S) /\ Cardinality(S) \in Nat
  BY <1>2, FS_Subset, FS_CardinalityType
<1>4. Cardinality(entries) <= Cardinality(Names) + 2
  BY <1>2, FS_Subset DEF ListTypeOK
<1>5. /\ Cardinality(entries \ Dot) = Cardinality(entries) - Cardinality(entries \cap Dot)
      /\ Missing = 2 - Cardinality(Dot \cap entries)
  <2>1. IsFiniteSet(entries)
    BY <1>3 DEF ListTypeOK
  <2> QED
    BY <1>1, <2>1, FS_Difference DEF Missing
<1>6. /\ entries \cap Dot = Dot \cap entries
      /\ entries \in SUBSET (Names \cup Dot) /\ entries \cap Dot \in SUBSET (Names \cup Dot)
      /\ Dot \ entries \in SUBSET (Names \cup Dot) /\ Names \in SUBSET (Names \cup Dot)
  BY DEF ListTypeOK
<1>7. /\ Cardinality(entries) \in Nat /\ Cardinality(entries \cap Dot) \in Nat
      /\ Missing \in Nat /\ Cardinality(Names) \in Nat
  BY <1>3, <1>6 DEF Missing
<1>8. Cardinality(entries \ Dot) = Cardinality(entries) - 2 + Missing
  <2>1. Cardinality(entries \cap Dot) = Cardinality(Dot \cap entries)
    BY <1>6, Zenon
  <2> QED
    BY <1>5, <1>7, <2>1
<1> QED
  BY <1>3, <1>4, <1>7, <1>8

LEMMA ListInitial == ListInit => ListInv
<1> SUFFICES ASSUME ListInit PROVE ListInv
  OBVIOUS
<1>1. ListTypeOK
  <2>1. Modulus \in Nat /\ Modulus > 4 /\ MaxChanges \in Nat
    BY ListingAssumption, FS_CardinalityType
  <2> QED
    BY <2>1, ListingAssumption DEF ListInit, ListTypeOK, CountWithoutDots
<1>2. Unread = entries /\ Owed = entries
  BY DEF ListInit, Unread, Owed
<1>3. Cardinality(entries) \in Nat
  BY <1>1, Sizes DEF ListTypeOK
<1>4. CountInv
  <2>1. /\ numberFiles = Modulus - 2 /\ Modulus \in Nat /\ created = 0 /\ removed = 0
        /\ seen \cap Dot = {} /\ cut = {}
    BY ListingAssumption DEF ListInit, CountWithoutDots
  <2> QED
    BY <1>2, <1>3, <2>1 DEF CountInv
<1> QED
  BY <1>1, <1>4 DEF ListInit, ListInv, FillInv, NoneCopied

\* The sets that the invariant counts.
Parts == {entries, Unread, Unread \ Dot, Owed, Owed \ Dot}

LEMMA PartSizes ==
  ASSUME ListTypeOK
  PROVE  /\ Parts \subseteq SUBSET (Names \cup Dot)
         /\ \A S \in SUBSET (Names \cup Dot) : Cardinality(S) \in Nat
         /\ \A S \in Parts : Cardinality(S) \in Nat
         /\ created \in Nat /\ removed \in Nat /\ i \in Nat /\ numberFiles \in Nat
         /\ Missing \in Nat
<1>1. Parts \subseteq SUBSET (Names \cup Dot)
  BY DEF Parts, Owed, Unread, ListTypeOK
<1>2. \A S \in SUBSET (Names \cup Dot) : Cardinality(S) \in Nat
  BY Sizes
<1>3. \A S \in Parts : Cardinality(S) \in Nat
  BY <1>1, <1>2
<1>4. /\ created \in Nat /\ removed \in Nat /\ i \in Nat /\ numberFiles \in Nat
      /\ Missing \in Nat
  BY Sizes, ListingAssumption DEF ListTypeOK
<1> QED
  BY <1>1, <1>2, <1>3, <1>4

\* Another program's step keeps what it changes in balance.
Balanced ==
  /\ UNCHANGED <<step, numberFiles, slots, i, cut>>
  /\ Missing' = Missing /\ seen' \cap Dot = seen \cap Dot
  /\ Cardinality(Unread') - Cardinality(entries') - removed' <=
       Cardinality(Unread) - Cardinality(entries) - removed
  /\ Cardinality(entries') - Cardinality(Owed') - created' <=
       Cardinality(entries) - Cardinality(Owed) - created
  /\ Cardinality(Unread \ Dot)' - created' <= Cardinality(Unread \ Dot) - created
  /\ Cardinality(Owed \ Dot) - removed' <= Cardinality(Owed \ Dot)' - removed
  /\ Owed' \subseteq Owed
  /\ step # "array"

LEMMA BalanceKeeps ==
  ASSUME ListInv, ListTypeOK', Balanced
  PROVE  ListInv'
<1>1. \A S \in SUBSET (Names \cup Dot) : Cardinality(S) \in Nat
  BY PartSizes DEF ListInv
<1>2. \A S \in Parts : Cardinality(S) \in Nat
  BY PartSizes DEF ListInv
<1>3. \A S \in Parts' : Cardinality(S) \in Nat
  <2>1. Parts' \subseteq SUBSET (Names \cup Dot)
    BY DEF Parts, Owed, Unread, ListTypeOK
  <2> QED
    BY <1>1, <2>1
<1>4. /\ created \in Nat /\ removed \in Nat /\ i \in Nat /\ numberFiles \in Nat
      /\ Missing \in Nat
  BY PartSizes DEF ListInv
<1>5. created' \in Nat /\ removed' \in Nat
  BY DEF ListTypeOK
<1>6. CountInv'
  <2> SUFFICES ASSUME step' = "count"
               PROVE  /\ cut' = {}
                      /\ \E c \in Nat :
                           /\ numberFiles' = IF c < 2 THEN Modulus - 2 + c ELSE c - 2
                           /\ c + Cardinality(Unread') <= Cardinality(entries') + removed'
                           /\ Cardinality(entries') <= c + Cardinality(Owed') + created'
                           /\ c = 0 => seen' \cap Dot = {}
                           /\ c = 1 => ~ Dot \subseteq seen'
    BY DEF CountInv
  <2>1. PICK c \in Nat : /\ numberFiles = IF c < 2 THEN Modulus - 2 + c ELSE c - 2
                         /\ c + Cardinality(Unread) <= Cardinality(entries) + removed
                         /\ Cardinality(entries) <= c + Cardinality(Owed) + created
                         /\ c = 0 => seen \cap Dot = {}
                         /\ c = 1 => ~ Dot \subseteq seen
    BY DEF ListInv, CountInv, Balanced
  <2>2. /\ c = 0 => seen' \cap Dot = {}
        /\ c = 1 => ~ Dot \subseteq seen'
    BY <2>1 DEF Balanced
  <2>3. cut' = {} /\ numberFiles' = numberFiles
    BY DEF ListInv, CountInv, Balanced
  <2>4. /\ c + Cardinality(Unread') <= Cardinality(entries') + removed'
        /\ Cardinality(entries') <= c + Cardinality(Owed') + created'
    BY <1>2, <1>3, <1>4, <1>5, <2>1 DEF Balanced, Parts
  <2> QED
    BY <2>1, <2>2, <2>3, <2>4
<1>7. FillInv'
  <2>1. (Unwrapped' <=> Unwrapped) /\ Missing' = Missing /\ cut' = cut
    BY DEF Balanced, Unwrapped
  <2> QED
    BY <1>2, <1>3, <1>4, <1>5, <2>1 DEF Balanced, Parts, ListInv, FillInv
<1> QED
  BY <1>6, <1>7 DEF ListInv, NoneCopied, Balanced

LEMMA ChangeKeeps ==
  ASSUME ListInv, CreateName \/ RemoveName
  PROVE  ListInv'
<1>1. /\ Parts \subseteq SUBSET (Names \cup Dot)
      /\ \A S \in SUBSET (Names \cup Dot) : Cardinality(S) \in Nat
      /\ created \in Nat /\ removed \in Nat
  BY PartSizes DEF ListInv
<1>2. /\ entries \in SUBSET (Names \cup Dot) /\ Cardinality(entries) \in Nat
      /\ Unread \in SUBSET (Names \cup Dot) /\ Cardinality(Unread) \in Nat
      /\ Unread \ Dot \in SUBSET (Names \cup Dot) /\ Cardinality(Unread \ Dot) \in Nat
      /\ Owed \in SUBSET (Names \cup Dot) /\ Cardinality(Owed) \in Nat
      /\ Owed \ Dot \in SUBSET (Names \cup Dot) /\ Cardinality(Owed \ Dot) \in Nat
  BY <1>1 DEF Parts
<1>3. CASE CreateName
  <2>1. PICK n \in Names \ entries :
          /\ entries' = entries \cup {n}
          /\ fresh' = fresh \cup {n}
          /\ seen' = seen \ {n}
    BY <1>3 DEF CreateName
  <2>2. /\ UNCHANGED <<step, numberFiles, slots, i, cut, removed>>
        /\ created' = created + 1 /\ created + removed < MaxChanges /\ step # "array"
    BY <1>3 DEF CreateName, Busy
  <2>3. ListTypeOK'
    BY <2>1, <2>2, ListingAssumption DEF ListInv, ListTypeOK
  <2>4. /\ Owed' = Owed /\ (Owed \ Dot)' = Owed \ Dot
        /\ Unread' = Unread \cup {n} /\ (Unread \ Dot)' = (Unread \ Dot) \cup {n}
        /\ (Dot \ entries)' = Dot \ entries /\ seen' \cap Dot = seen \cap Dot
    BY <2>1, ListingAssumption DEF Owed, Unread, Dot
  <2>5. /\ Cardinality(Unread') <= Cardinality(Unread) + 1
        /\ Cardinality(Unread \ Dot)' <= Cardinality(Unread \ Dot) + 1
        /\ Cardinality(entries') = Cardinality(entries) + 1
    <3>1. /\ Cardinality(Unread \cup {n}) <= Cardinality(Unread) + 1
          /\ Cardinality((Unread \ Dot) \cup {n}) <= Cardinality(Unread \ Dot) + 1
          /\ Cardinality(entries \cup {n}) = Cardinality(entries) + 1
      <4>1. \A S \in SUBSET (Names \cup Dot) :
              Cardinality(S \cup {n}) = IF n \in S THEN Cardinality(S) ELSE Cardinality(S) + 1
        BY Sizes, FS_AddElement DEF ListInv
      <4> QED
        BY <1>2, <4>1
    <3> QED
      BY <2>1, <2>4, <3>1
  <2>6. Missing' = Missing
    BY <2>4 DEF Missing
  <2>7. Balanced
    BY <1>1, <1>2, <2>2, <2>4, <2>5, <2>6 DEF Balanced
  <2> QED
    BY <2>3, <2>7, BalanceKeeps
<1>4. CASE RemoveName
  <2>1. PICK n \in Names \cap entries :
          /\ entries' = entries \ {n}
          /\ fresh' = fresh \cup {n}
    BY <1>4 DEF RemoveName
  <2>2. /\ UNCHANGED <<step, seen, numberFiles, slots, i, cut, created>>
        /\ removed' = removed + 1 /\ created + removed < MaxChanges /\ step # "array"
    BY <1>4 DEF RemoveName, Busy
  <2>3. ListTypeOK'
    BY <2>1, <2>2, ListingAssumption DEF ListInv, ListTypeOK
  <2>4. /\ Owed' = Owed \ {n} /\ (Owed \ Dot)' = (Owed \ Dot) \ {n}
        /\ Unread' = Unread /\ (Unread \ Dot)' = Unread \ Dot
        /\ (Dot \ entries)' = Dot \ entries
    BY <2>1, <2>2, ListingAssumption DEF Owed, Unread, Dot
  <2>5. /\ Cardinality(Owed') >= Cardinality(Owed) - 1
        /\ Cardinality(Owed \ Dot)' >= Cardinality(Owed \ Dot) - 1
        /\ Cardinality(entries') = Cardinality(entries) - 1
    <3>1. /\ Cardinality(Owed \ {n}) >= Cardinality(Owed) - 1
          /\ Cardinality((Owed \ Dot) \ {n}) >= Cardinality(Owed \ Dot) - 1
          /\ Cardinality(entries \ {n}) = Cardinality(entries) - 1
      <4>1. \A S \in SUBSET (Names \cup Dot) :
              Cardinality(S \ {n}) = IF n \in S THEN Cardinality(S) - 1 ELSE Cardinality(S)
        BY Sizes, FS_RemoveElement DEF ListInv
      <4> QED
        BY <1>2, <4>1
    <3> QED
      BY <2>1, <2>4, <3>1
  <2>6. Missing' = Missing
    BY <2>4 DEF Missing
  <2>7. Balanced
    BY <1>1, <1>2, <2>2, <2>4, <2>5, <2>6 DEF Balanced
  <2> QED
    BY <2>3, <2>7, BalanceKeeps
<1> QED
  BY <1>3, <1>4
\* What is read or skipped no longer has to be read.
LEMMA OneRead ==
  ASSUME ListTypeOK, NEW e \in Unread, seen' = seen \cup {e},
         UNCHANGED <<entries, fresh>>
  PROVE  /\ Unread' = Unread \ {e} /\ Owed' = Owed \ {e}
         /\ (Unread \ Dot)' = (Unread \ Dot) \ {e} /\ (Owed \ Dot)' = (Owed \ Dot) \ {e}
         /\ Cardinality(Unread') = Cardinality(Unread) - 1
         /\ Cardinality(Owed') >= Cardinality(Owed) - 1
         /\ Cardinality(Unread \ Dot)' =
              IF e \in Dot THEN Cardinality(Unread \ Dot) ELSE Cardinality(Unread \ Dot) - 1
         /\ Cardinality(Owed \ Dot)' >= Cardinality(Owed \ Dot) - 1
         /\ e \in Dot => Cardinality(Owed \ Dot)' = Cardinality(Owed \ Dot)
<1>1. /\ Unread' = Unread \ {e} /\ Owed' = Owed \ {e}
      /\ (Unread \ Dot)' = (Unread \ Dot) \ {e} /\ (Owed \ Dot)' = (Owed \ Dot) \ {e}
  BY DEF Unread, Owed
<1>2. \A S \in SUBSET (Names \cup Dot) :
        /\ Cardinality(S) \in Nat
        /\ Cardinality(S \ {e}) = IF e \in S THEN Cardinality(S) - 1 ELSE Cardinality(S)
  BY Sizes, FS_RemoveElement
<1>3. /\ Unread \in SUBSET (Names \cup Dot) /\ Unread \ Dot \in SUBSET (Names \cup Dot)
      /\ Owed \in SUBSET (Names \cup Dot) /\ Owed \ Dot \in SUBSET (Names \cup Dot)
  BY DEF Owed, Unread, ListTypeOK
<1>4. /\ Cardinality(Unread \ {e}) = Cardinality(Unread) - 1
      /\ Cardinality(Owed \ {e}) >= Cardinality(Owed) - 1
      /\ Cardinality((Unread \ Dot) \ {e}) =
           IF e \in Dot THEN Cardinality(Unread \ Dot) ELSE Cardinality(Unread \ Dot) - 1
      /\ Cardinality((Owed \ Dot) \ {e}) >= Cardinality(Owed \ Dot) - 1
      /\ e \in Dot => Cardinality((Owed \ Dot) \ {e}) = Cardinality(Owed \ Dot)
  BY <1>2, <1>3
<1> QED
  BY <1>1, <1>4

\* An entry is counted.
LEMMA CountKeeps ==
  ASSUME ListInv, CountEntry
  PROVE  ListInv'
<1>1. PICK e \in Unread : seen' = seen \cup {e}
  BY DEF CountEntry
<1>2. /\ step = "count" /\ numberFiles' = (numberFiles + 1) % Modulus
      /\ UNCHANGED <<step, slots, i, cut, entries, fresh, created, removed>>
  BY DEF CountEntry, dirVars
<1>3. Modulus \in Nat /\ Modulus > 4 /\ Cardinality(Names) \in Nat /\ MaxChanges \in Nat
      /\ Cardinality(Names) + MaxChanges + 4 < Modulus
  BY ListingAssumption, FS_CardinalityType
<1>4. ListTypeOK'
  BY <1>1, <1>2, <1>3 DEF ListInv, ListTypeOK, Unread
<1>5. PICK c \in Nat : /\ numberFiles = IF c < 2 THEN Modulus - 2 + c ELSE c - 2
                       /\ c + Cardinality(Unread) <= Cardinality(entries) + removed
                       /\ Cardinality(entries) <= c + Cardinality(Owed) + created
                       /\ c = 0 => seen \cap Dot = {}
  BY <1>2 DEF ListInv, CountInv
<1>6. /\ Cardinality(Unread) \in Nat /\ Cardinality(Owed) \in Nat
      /\ Cardinality(entries) \in Nat /\ Cardinality(entries) <= Cardinality(Names) + 2
      /\ created \in Nat /\ removed \in Nat /\ removed <= MaxChanges
      /\ Cardinality(Owed \ {e}) \in Nat
  <2>1. /\ Unread \in SUBSET (Names \cup Dot) /\ Owed \in SUBSET (Names \cup Dot)
        /\ entries \in SUBSET (Names \cup Dot) /\ Owed \ {e} \in SUBSET (Names \cup Dot)
    BY DEF ListInv, ListTypeOK, Unread, Owed
  <2> QED
    BY <1>3, <2>1, Sizes DEF ListInv, ListTypeOK
<1>7. /\ Cardinality(Unread') = Cardinality(Unread) - 1
      /\ Cardinality(Owed') >= Cardinality(Owed) - 1 /\ Cardinality(Owed') \in Nat
      /\ Owed' = Owed \ {e}
  BY <1>1, <1>2, <1>6, OneRead DEF ListInv
<1>8. c < Modulus - 2
  BY <1>3, <1>5, <1>6
<1>9. numberFiles' = IF c + 1 < 2 THEN Modulus - 2 + (c + 1) ELSE (c + 1) - 2
  BY <1>2, <1>3, <1>5, <1>8
<1>10. CountInv'
  <2> DEFINE d == c + 1
  <2>1. /\ d \in Nat
        /\ numberFiles' = IF d < 2 THEN Modulus - 2 + d ELSE d - 2
        /\ d + Cardinality(Unread') <= Cardinality(entries') + removed'
        /\ Cardinality(entries') <= d + Cardinality(Owed') + created'
    BY <1>2, <1>5, <1>6, <1>7, <1>9
  <2>2. d # 0 /\ (d = 1 => ~ Dot \subseteq seen')
    BY <1>1, <1>5 DEF Dot
  <2>3. cut' = {}
    BY <1>2 DEF ListInv, CountInv
  <2> QED
    BY <2>1, <2>2, <2>3 DEF CountInv
<1> QED
  BY <1>2, <1>4, <1>10 DEF ListInv, FillInv, NoneCopied

\* Counting ends: what was counted, less the dot entries, is compared with the
\* names.
LEMMA CountEndKeeps ==
  ASSUME ListInv, CountEnds
  PROVE  ListInv'
<1>1. /\ step = "count" /\ step' = "allocate" /\ seen' = {} /\ fresh' = {}
      /\ cut = {} /\ cut' = IF Owed = {} THEN {} ELSE {"count"}
      /\ UNCHANGED <<entries, numberFiles, slots, i, created, removed>> /\ i = 0
  BY DEF CountEnds, PassEnds, Rewind, ListInv, NoneCopied, CountInv
<1>2. Modulus \in Nat /\ Modulus > 4 /\ Cardinality(Names) \in Nat /\ MaxChanges \in Nat
      /\ Cardinality(Names) + MaxChanges + 4 < Modulus
  BY ListingAssumption, FS_CardinalityType
<1>3. PICK c \in Nat : /\ numberFiles = IF c < 2 THEN Modulus - 2 + c ELSE c - 2
                       /\ c + Cardinality(Unread) <= Cardinality(entries) + removed
                       /\ Cardinality(entries) <= c + Cardinality(Owed) + created
                       /\ c = 0 => seen \cap Dot = {}
                       /\ c = 1 => ~ Dot \subseteq seen
  BY <1>1 DEF ListInv, CountInv
<1>4. ListTypeOK'
  BY <1>1 DEF ListInv, ListTypeOK
<1>5. Unread' = entries /\ Owed' = entries /\ Missing' = Missing
  BY <1>1 DEF Unread, Owed, Missing
<1>6. /\ Cardinality(Unread) \in Nat /\ (Owed = {} => Cardinality(Owed) = 0)
      /\ Cardinality(entries) \in Nat /\ Cardinality(entries) <= Cardinality(Names) + 2
      /\ Cardinality(entries \ Dot) = Cardinality(entries) - 2 + Missing
      /\ created \in Nat /\ removed \in Nat /\ removed <= MaxChanges
      /\ Missing \in Nat
  <2>1. Unread \in SUBSET (Names \cup Dot) /\ entries \in SUBSET (Names \cup Dot)
    BY DEF ListInv, ListTypeOK, Unread
  <2>2. created \in Nat /\ removed \in Nat /\ removed <= MaxChanges
    BY <1>2 DEF ListInv, ListTypeOK
  <2> QED
    BY <2>1, <2>2, Sizes, FS_EmptySet DEF ListInv
<1>7. FillInv'
  <2>1. (Unread \ Dot)' = entries \ Dot /\ (Owed \ Dot)' = entries \ Dot
    BY <1>5
  <2>2. ASSUME Unwrapped
        PROVE  /\ Owed = {} => Cardinality(entries \ Dot) <= numberFiles + created + Missing
               /\ numberFiles <= Cardinality(entries \ Dot) + removed
               /\ numberFiles <= Cardinality(Names) + MaxChanges
    <3>1. numberFiles = c - 2
      BY <1>2, <1>3, <2>2 DEF Unwrapped
    <3> QED
      BY <1>3, <1>6, <1>2, <3>1
  <2>3. Unwrapped' <=> Unwrapped
    BY <1>1 DEF Unwrapped
  <2>4. i' + Cardinality(entries \ Dot) = Cardinality(entries \ Dot)
    BY <1>1, <1>6
  <2>5. Missing = 0 /\ Owed = {} => Unwrapped
    <3> SUFFICES ASSUME Missing = 0, Owed = {} PROVE Unwrapped
      OBVIOUS
    <3>1. Dot \subseteq entries
      <4>1. Dot \ entries \in SUBSET (Names \cup Dot)
        OBVIOUS
      <4>2. IsFiniteSet(Dot \ entries)
        BY <4>1, Sizes DEF ListInv
      <4>3. Dot \ entries = {}
        BY <4>2, FS_EmptySet DEF Missing
      <4> QED
        BY <4>3
    <3>2. Dot \subseteq seen
      BY <3>1, ListingAssumption DEF Owed, ListInv, ListTypeOK
    <3>3. c >= 2
      BY <1>3, <3>2 DEF Dot
    <3> QED
      BY <1>2, <1>3, <1>6, <3>3 DEF Unwrapped
  <2>6. "count" \notin cut' <=> Owed = {}
    BY <1>1
  <2> QED
    BY <1>1, <1>5, <2>1, <2>2, <2>3, <2>4, <2>5, <2>6 DEF FillInv
<1> QED
  BY <1>1, <1>4, <1>7 DEF ListInv, CountInv, NoneCopied
\* The other steps of readDir.
LEMMA FillKeeps ==
  ASSUME ListInv, Allocate \/ AllocateFails \/ SkipDot \/ FillSlot \/ FillEnds
  PROVE  ListInv'
<1>1. /\ created \in Nat /\ removed \in Nat /\ i \in Nat /\ numberFiles \in Nat
      /\ Missing \in Nat
      /\ Cardinality(Unread \ Dot) \in Nat /\ Cardinality(Owed \ Dot) \in Nat
  BY PartSizes DEF ListInv, Parts
<1>2. CASE Allocate
  <2>1. /\ step = "allocate" /\ step' = "fill"
        /\ UNCHANGED <<seen, numberFiles, i, cut, entries, fresh, created, removed>>
        /\ slots' = [k \in 0 .. numberFiles - 1 |-> Unset]
    BY <1>2 DEF Allocate, dirVars
  <2>2. ListTypeOK'
    BY <2>1 DEF ListInv, ListTypeOK
  <2>3. FillInv' /\ CountInv' /\ NoneCopied'
    BY <2>1 DEF ListInv, FillInv, CountInv, NoneCopied, Unwrapped, Unread, Owed, Missing
  <2> QED
    BY <2>2, <2>3 DEF ListInv
<1>3. CASE AllocateFails
  <2>1. /\ step \in {"allocate", "fill"} /\ step' = "null"
        /\ UNCHANGED <<seen, numberFiles, slots, i, cut, entries, fresh, created, removed>>
    BY <1>3 DEF AllocateFails, dirVars
  <2> QED
    <3>1. ListTypeOK' /\ CountInv' /\ NoneCopied'
      BY <2>1 DEF ListInv, ListTypeOK, CountInv, NoneCopied
    <3>2. FillInv'
      BY <2>1 DEF ListInv, FillInv, Unwrapped, Unread, Owed, Missing
    <3> QED
      BY <3>1, <3>2 DEF ListInv
<1>4. CASE SkipDot
  <2>1. PICK e \in Unread \cap Dot : seen' = seen \cup {e}
    BY <1>4 DEF SkipDot
  <2>2. /\ step = "fill" /\ UNCHANGED <<step, numberFiles, slots, i, cut>>
        /\ UNCHANGED <<entries, fresh, created, removed>>
    BY <1>4 DEF SkipDot, dirVars
  <2>3. ListTypeOK'
    BY <2>1, <2>2 DEF ListInv, ListTypeOK
  <2>4. /\ Cardinality(Unread \ Dot)' = Cardinality(Unread \ Dot)
        /\ Cardinality(Owed \ Dot)' = Cardinality(Owed \ Dot)
        /\ Missing' = Missing /\ (Unwrapped' <=> Unwrapped)
    BY <2>1, <2>2, OneRead DEF ListInv, Missing, Unwrapped
  <2> QED
    BY <2>2, <2>3, <2>4 DEF ListInv, FillInv, CountInv, NoneCopied
<1>5. CASE FillSlot
  <2>1. PICK e \in Copied :
          /\ seen' = seen \cup {e}
          /\ slots' = [k \in DOMAIN slots |-> IF k = Target THEN e ELSE slots[k]]
    BY <1>5 DEF FillSlot
  <2>2. /\ step = "fill" /\ step' \in {"fill", "crashed"} /\ i' = i + 1
        /\ UNCHANGED <<numberFiles, cut, entries, fresh, created, removed>>
    BY <1>5 DEF FillSlot, dirVars
  <2>3. e \in Unread /\ e \notin Dot /\ e \in Names
    BY <2>1 DEF Copied, Unread, ListInv, ListTypeOK
  <2>4. ListTypeOK'
    <3>1. slots \in [0 .. numberFiles - 1 -> Names \cup {Unset}]
      BY <2>2 DEF ListInv, ListTypeOK
    <3>2. slots' \in [0 .. numberFiles' - 1 -> Names \cup {Unset}]
      BY <2>1, <2>2, <2>3, <3>1
    <3> QED
      BY <1>1, <2>1, <2>2, <2>3, <3>2 DEF ListInv, ListTypeOK
  <2>5. /\ Cardinality(Unread \ Dot)' = Cardinality(Unread \ Dot) - 1
        /\ Cardinality(Owed \ Dot)' >= Cardinality(Owed \ Dot) - 1
        /\ Missing' = Missing /\ (Unwrapped' <=> Unwrapped)
    BY <2>1, <2>2, <2>3, OneRead DEF ListInv, Missing, Unwrapped
  <2>6. Cardinality(Owed \ Dot)' \in Nat
    <3>1. \A S \in SUBSET (Names \cup Dot) : Cardinality(S) \in Nat
      BY PartSizes DEF ListInv
    <3>2. (Owed \ Dot)' \in SUBSET (Names \cup Dot)
      BY <2>4 DEF ListTypeOK, Owed
    <3> QED
      BY <3>1, <3>2
  <2> QED
    BY <1>1, <2>2, <2>4, <2>5, <2>6 DEF ListInv, FillInv, CountInv, NoneCopied
<1>6. CASE FillEnds
  <2>1. /\ step = "fill" /\ step' = "array"
        /\ cut' = IF Owed = {} THEN cut ELSE cut \cup {"fill"}
        /\ UNCHANGED <<seen, numberFiles, slots, i, entries, fresh, created, removed>>
    BY <1>6 DEF FillEnds, PassEnds, dirVars
  <2>2. ListTypeOK'
    BY <2>1 DEF ListInv, ListTypeOK
  <2>3. FillInv' /\ CountInv' /\ NoneCopied'
    BY <2>1 DEF ListInv, FillInv, CountInv, NoneCopied, Unwrapped, Unread, Owed, Missing
  <2> QED
    BY <2>2, <2>3 DEF ListInv
<1> QED
  BY <1>2, <1>3, <1>4, <1>5, <1>6

LEMMA ListStep == ListInv /\ [ListNext]_listVars => ListInv'
<1> SUFFICES ASSUME ListInv, [ListNext]_listVars PROVE ListInv'
  OBVIOUS
<1>1. CASE UNCHANGED listVars
  BY <1>1 DEF listVars, ListInv, ListTypeOK, CountInv, FillInv, NoneCopied, Unwrapped,
              Unread, Owed, Missing
<1>2. CASE ListNext
  BY <1>2, ChangeKeeps, CountKeeps, CountEndKeeps, FillKeeps DEF ListNext, ReadDir
<1> QED
  BY <1>1, <1>2

\* Each step of main is one of readDir's or leaves its state alone.
LEMMA MainLists == [Next]_vars => [ListNext]_listVars
BY DEF Next, vars, Parse, ParseReturns, List, Semaphores, SemaphoresFail, Ended, listVars

LEMMA ListInvariant == Spec => []ListInv
<1>1. Init => ListInv
  BY ListInitial DEF Init
<1>2. ListInv /\ [Next]_vars => ListInv'
  BY ListStep, MainLists
<1> QED
  BY <1>1, <1>2, PTL DEF Spec

\* readDir, which never compares i with numberFiles, writes at most so many names
\* behind the array as were created meanwhile and as dot entries are missing.
THEOREM ListingOverrun == Spec => []OverrunBounded
<1>1. ListInv => OverrunBounded
  <2> SUFFICES ASSUME ListInv, step \in {"fill", "array", "crashed"}, Unwrapped,
                      "count" \notin cut
               PROVE  i <= numberFiles + created + Missing
    BY DEF OverrunBounded
  <2>1. /\ Cardinality(Unread \ Dot) \in Nat /\ i \in Nat /\ numberFiles \in Nat
        /\ created \in Nat /\ Missing \in Nat
    BY PartSizes DEF ListInv, Parts
  <2> QED
    BY <2>1 DEF ListInv, FillInv
<1> QED
  BY <1>1, ListInvariant, PTL

\* It leaves at most so many slots unset as names were removed meanwhile.
THEOREM ListingGap == Spec => []GapBounded
<1>1. ListInv => GapBounded
  <2> SUFFICES ASSUME ListInv, step = "array", "fill" \notin cut,
                      Unwrapped \/ (~ (Missing > 0) /\ "count" \notin cut)
               PROVE  numberFiles <= i + removed
    BY DEF GapBounded
  <2>0. Unwrapped
    <3>1. Missing \in Nat
      BY PartSizes DEF ListInv
    <3>2. ~ (Missing > 0) => Missing = 0
      BY <3>1
    <3> QED
      BY <3>2 DEF ListInv, FillInv
  <2>1. Owed \ Dot = {} /\ numberFiles <= i + Cardinality(Owed \ Dot) + removed
    BY <2>0 DEF ListInv, FillInv
  <2>2. i \in Nat /\ numberFiles \in Nat /\ removed \in Nat
    BY PartSizes DEF ListInv
  <2> QED
    BY <2>1, <2>2, FS_EmptySet
<1> QED
  BY <1>1, ListInvariant, PTL
-----------------------------------------------------------------------------
(* The slots *)

\* A name that is in a slot was read, as long as none was created.
ReadInv ==
  step \in {"fill", "array"} /\ created = 0 =>
    \A k \in DOMAIN slots : slots[k] # Unset => slots[k] \in seen

SlotInv == FilledInOrder /\ ReadInv

\* A directory that was left alone and read to its end: nothing is fresh, what was
\* read is in it, its names were all counted, and those that were read are in the
\* slots.
UntouchedInv ==
  created + removed = 0 /\ cut = {} =>
    /\ fresh = {} /\ seen \subseteq entries
    /\ step = "allocate" => seen = {}
    /\ Dot \subseteq entries /\ step \in {"allocate", "fill", "array"} => Unwrapped
    /\ Dot \subseteq entries /\ step \in {"fill", "array"} =>
         \A e \in seen \ Dot : \E k \in DOMAIN slots : slots[k] = e

LEMMA SlotStep ==
  ASSUME ListInv, SlotInv, [ListNext]_listVars
  PROVE  SlotInv'
<1> USE DEF SlotInv, FilledInOrder, ReadInv
<1>1. created \in Nat /\ i \in Nat /\ numberFiles \in Nat
  BY PartSizes DEF ListInv
<1>2. CASE CreateName
  <2>1. step' = step /\ slots' = slots /\ i' = i /\ created' = created + 1
    BY <1>2 DEF CreateName
  <2> QED
    BY <1>1, <2>1
<1>3. CASE RemoveName \/ UNCHANGED listVars
  BY <1>3 DEF RemoveName, listVars
<1>4. CASE CountEntry \/ CountEnds \/ AllocateFails
  BY <1>4 DEF CountEntry, CountEnds, AllocateFails
<1>5. CASE Allocate
  <2>1. /\ step = "allocate" /\ i = 0 /\ i' = i
        /\ slots' = [k \in 0 .. numberFiles - 1 |-> Unset]
    BY <1>5 DEF Allocate, ListInv, NoneCopied
  <2> QED
    BY <1>1, <2>1
<1>6. CASE SkipDot
  <2>1. seen \subseteq seen' /\ step = "fill" /\ UNCHANGED <<step, slots, i, created>>
    BY <1>6 DEF SkipDot, dirVars
  <2> QED
    BY <2>1
<1>7. CASE FillSlot
  <2>1. PICK e \in Copied :
          /\ seen' = seen \cup {e}
          /\ slots' = [k \in DOMAIN slots |-> IF k = Target THEN e ELSE slots[k]]
    BY <1>7 DEF FillSlot
  <2>2. step = "fill" /\ i' = i + 1 /\ created' = created
    BY <1>7 DEF FillSlot, dirVars
  <2>3. e \notin seen /\ e # Unset
    BY <2>1, ListingAssumption DEF Copied, Unread, ListInv, ListTypeOK
  <2>4. DOMAIN slots' = DOMAIN slots /\ DOMAIN slots = 0 .. numberFiles - 1
    BY <2>1, <2>2 DEF ListInv, ListTypeOK
  <2>5. \A k \in DOMAIN slots : slots'[k] = IF k = i THEN e ELSE slots[k]
    BY <2>1 DEF Target
  <2>6. \A k \in DOMAIN slots' : slots'[k] # Unset <=> k < i'
    BY <1>1, <2>2, <2>3, <2>4, <2>5
  <2>7. created = 0 => \A k \in DOMAIN slots' : slots'[k] # Unset => slots'[k] \in seen'
    BY <2>1, <2>2, <2>4, <2>5
  <2>8. created = 0 =>
          \A k, l \in DOMAIN slots' :
            k # l /\ slots'[k] # Unset => slots'[k] # slots'[l]
    BY <2>2, <2>3, <2>4, <2>5
  <2> QED
    BY <2>2, <2>6, <2>7, <2>8
<1>8. CASE FillEnds
  BY <1>8 DEF FillEnds, dirVars
<1> QED
  BY <1>2, <1>3, <1>4, <1>5, <1>6, <1>7, <1>8 DEF ListNext, ReadDir

LEMMA UntouchedStep ==
  ASSUME ListInv, SlotInv, UntouchedInv, [ListNext]_listVars
  PROVE  UntouchedInv'
<1>1. /\ created \in Nat /\ removed \in Nat /\ i \in Nat /\ numberFiles \in Nat
      /\ Missing \in Nat /\ Cardinality(Unread \ Dot) \in Nat
  BY PartSizes DEF ListInv, Parts
<1>2. CASE CreateName
  <2>1. created' = created + 1 /\ removed' = removed /\ cut' = cut
    BY <1>2 DEF CreateName
  <2> QED
    BY <1>1, <2>1 DEF UntouchedInv
<1>3. CASE RemoveName
  <2>1. removed' = removed + 1 /\ created' = created /\ cut' = cut
    BY <1>3 DEF RemoveName
  <2> QED
    BY <1>1, <2>1 DEF UntouchedInv
<1>4. CASE UNCHANGED listVars
  BY <1>4 DEF listVars, UntouchedInv, Unwrapped
<1>5. CASE CountEntry
  <2>1. step = "count" /\ step' = "count" /\ UNCHANGED <<entries, fresh, cut, created, removed>>
    BY <1>5 DEF CountEntry, dirVars
  <2>2. PICK e \in Unread : seen' = seen \cup {e}
    BY <1>5 DEF CountEntry
  <2> QED
    BY <2>1, <2>2 DEF UntouchedInv, Unread
<1>6. CASE CountEnds
  <2>1. /\ step = "count" /\ step' = "allocate" /\ seen' = {} /\ fresh' = {}
        /\ entries' = entries
    BY <1>6 DEF CountEnds, Rewind
  <2>2. ASSUME Dot \subseteq entries, cut' = {}
        PROVE  Unwrapped'
    <3>1. FillInv'
      BY <1>6, CountEndKeeps DEF ListInv
    <3>2. (Dot \ entries)' = {}
      BY <2>1, <2>2
    <3>3. Missing' = 0
      BY <3>2, FS_EmptySet DEF Missing
    <3> QED
      BY <2>1, <2>2, <3>1, <3>3 DEF FillInv
  <2> QED
    BY <2>1, <2>2 DEF UntouchedInv
<1>7. CASE Allocate
  <2>1. /\ step = "allocate" /\ step' = "fill"
        /\ UNCHANGED <<seen, numberFiles, cut, entries, fresh, created, removed>>
    BY <1>7 DEF Allocate, dirVars
  <2> QED
    BY <2>1 DEF UntouchedInv, Unwrapped
<1>8. CASE AllocateFails
  BY <1>8 DEF AllocateFails, dirVars, UntouchedInv
<1>9. CASE SkipDot
  <2>1. PICK e \in Unread \cap Dot : seen' = seen \cup {e}
    BY <1>9 DEF SkipDot
  <2>2. step = "fill" /\ UNCHANGED <<step, numberFiles, slots, cut, entries, fresh, created, removed>>
    BY <1>9 DEF SkipDot, dirVars
  <2> QED
    BY <2>1, <2>2 DEF UntouchedInv, Unread, Unwrapped
<1>10. CASE FillSlot
  <2>1. PICK e \in Copied :
          /\ seen' = seen \cup {e}
          /\ slots' = [k \in DOMAIN slots |-> IF k = Target THEN e ELSE slots[k]]
    BY <1>10 DEF FillSlot
  <2>2. /\ step = "fill" /\ step' \in {"fill", "crashed"} /\ i' = i + 1
        /\ UNCHANGED <<numberFiles, cut, entries, fresh, created, removed>>
    BY <1>10 DEF FillSlot, dirVars
  <2> SUFFICES ASSUME created + removed = 0, cut = {}
               PROVE  /\ seen' \subseteq entries
                      /\ Dot \subseteq entries =>
                           /\ Unwrapped'
                           /\ \A d \in seen' \ Dot : \E k \in DOMAIN slots' : slots'[k] = d
    BY <2>2 DEF UntouchedInv
  <2>3. e \in Unread /\ e \notin seen /\ e \in entries
    BY <2>1 DEF Copied, Unread, UntouchedInv
  <2>4. ASSUME Dot \subseteq entries
        PROVE  /\ Unwrapped'
               /\ \A d \in seen' \ Dot : \E k \in DOMAIN slots' : slots'[k] = d
    <3>1. Unwrapped /\ Unwrapped'
      BY <2>2, <2>4 DEF UntouchedInv, Unwrapped
    <3>2. i < numberFiles
      <4>1. Dot \ entries = {}
        BY <2>4
      <4>2. Missing = 0
        BY <4>1, FS_EmptySet DEF Missing
      <4>3. Unread \ Dot # {} /\ Unread \ Dot \in SUBSET (Names \cup Dot)
        BY <2>1 DEF Copied, Unread, ListInv, ListTypeOK
      <4>4. Cardinality(Unread \ Dot) # 0
        BY <4>3, Sizes, FS_EmptySet DEF ListInv
      <4> QED
        BY <1>1, <2>2, <3>1, <4>2, <4>4 DEF ListInv, FillInv
    <3>3. DOMAIN slots' = DOMAIN slots /\ DOMAIN slots = 0 .. numberFiles - 1
      BY <2>1, <2>2 DEF ListInv, ListTypeOK
    <3>4. \A k \in DOMAIN slots : slots'[k] = IF k = i THEN e ELSE slots[k]
      BY <2>1 DEF Target
    <3>5. slots'[i] = e /\ i \in DOMAIN slots /\ slots[i] = Unset
      BY <1>1, <2>2, <3>2, <3>3, <3>4 DEF SlotInv, FilledInOrder
    <3>6. ASSUME NEW d \in seen \ Dot
          PROVE  \E k \in DOMAIN slots' : slots'[k] = d
      <4>1. PICK k \in DOMAIN slots : slots[k] = d
        BY <2>2, <2>4, <3>6 DEF UntouchedInv
      <4>2. d # Unset
        BY <3>6, ListingAssumption DEF ListInv, ListTypeOK
      <4> QED
        BY <3>3, <3>4, <3>5, <4>1, <4>2
    <3> QED
      BY <2>1, <3>1, <3>3, <3>5, <3>6
  <2> QED
    BY <2>1, <2>3, <2>4 DEF UntouchedInv
<1>11. CASE FillEnds
  <2>1. /\ step = "fill" /\ step' = "array" /\ (cut' = {} => cut = {})
        /\ UNCHANGED <<seen, numberFiles, slots, entries, fresh, created, removed>>
    BY <1>11 DEF FillEnds, PassEnds, dirVars
  <2> QED
    BY <2>1 DEF UntouchedInv, Unwrapped
<1> QED
  BY <1>2, <1>3, <1>4, <1>5, <1>6, <1>7, <1>8, <1>9, <1>10, <1>11
     DEF ListNext, ReadDir
LEMMA SlotInvariant == Spec => []SlotInv /\ []UntouchedInv
<1>1. Init => SlotInv /\ UntouchedInv
  BY DEF Init, ListInit, SlotInv, FilledInOrder, ReadInv, UntouchedInv
<1>2. ListInv /\ SlotInv /\ UntouchedInv /\ [Next]_vars => SlotInv' /\ UntouchedInv'
  BY SlotStep, UntouchedStep, MainLists
<1> QED
  BY <1>1, <1>2, ListInvariant, PTL DEF Spec

\* The slots are set from the front and hold different names, unless one was
\* created while they were filled.
THEOREM ListingInOrder == Spec => []FilledInOrder
<1>1. SlotInv => FilledInOrder
  BY DEF SlotInv
<1> QED
  BY <1>1, SlotInvariant, PTL

\* Of a directory that nobody touches and whose dot entries are returned, readDir
\* lists every name.
THEOREM ListingComplete == Spec => []UntouchedComplete
<1>1. ListInv /\ SlotInv /\ UntouchedInv => UntouchedComplete
  <2> SUFFICES ASSUME ListInv, SlotInv, UntouchedInv, step = "array",
                      created + removed = 0, cut = {}, Dot \subseteq entries
               PROVE  {slots[k] : k \in DOMAIN slots} = entries \ Dot
    BY DEF UntouchedComplete
  <2>1. /\ created \in Nat /\ removed \in Nat /\ i \in Nat /\ numberFiles \in Nat
    BY PartSizes DEF ListInv
  <2>2. created = 0 /\ removed = 0
    BY <2>1
  <2>3. entries \ Dot \subseteq seen
    <3>1. Owed = {} /\ fresh = {}
      BY DEF ListInv, FillInv, UntouchedInv
    <3> QED
      BY <3>1 DEF Owed
  <2>4. Unwrapped /\ numberFiles <= i
    <3>1. Unwrapped /\ Owed \ Dot = {}
      BY DEF UntouchedInv, ListInv, FillInv
    <3>2. numberFiles <= i + Cardinality(Owed \ Dot) + removed
      BY <3>1 DEF ListInv, FillInv
    <3> QED
      BY <2>1, <2>2, <3>1, <3>2, FS_EmptySet
  <2>5. slots \in [0 .. numberFiles - 1 -> Names \cup {Unset}]
    BY DEF ListInv, ListTypeOK
  <2>6. ASSUME NEW k \in DOMAIN slots
        PROVE  slots[k] \in entries \ Dot
    <3>1. slots[k] # Unset
      BY <2>1, <2>4, <2>5 DEF SlotInv, FilledInOrder
    <3>2. slots[k] \in seen /\ slots[k] \in Names
      BY <2>2, <2>5, <3>1 DEF SlotInv, ReadInv
    <3> QED
      BY <3>2, ListingAssumption DEF UntouchedInv
  <2>7. ASSUME NEW e \in entries \ Dot
        PROVE  \E k \in DOMAIN slots : slots[k] = e
    BY <2>3 DEF UntouchedInv
  <2> QED
    BY <2>6, <2>7
<1> QED
  BY <1>1, ListInvariant, SlotInvariant, PTL
-----------------------------------------------------------------------------
(* The arguments *)

\* A set of natural numbers has a least element, which Min is.
LEMMA MinIsLeast ==
  ASSUME NEW T, T \subseteq Nat, T # {}
  PROVE  Min(T) \in T /\ \A y \in T : Min(T) <= y
<1> DEFINE Order == StrictSubsetOrdering(Nat)
           Sets == {0 .. x : x \in T}
<1>1. IsWellFoundedOn(Order, FiniteSubsetsOf(Nat))
  BY FS_StrictSubsetOrderingWellFounded
<1>2. Sets \subseteq FiniteSubsetsOf(Nat)
  <2> SUFFICES ASSUME NEW x \in T PROVE 0 .. x \in FiniteSubsetsOf(Nat)
    OBVIOUS
  <2>1. IsFiniteSet(0 .. x)
    BY FS_Interval
  <2> QED
    BY <2>1 DEF FiniteSubsetsOf
<1>3. Sets # {}
  OBVIOUS
<1>4. PICK s \in Sets : \A r \in Sets : <<r, s>> \notin Order
  <2> HIDE DEF Order, Sets
  <2> QED
    BY <1>1, <1>2, <1>3, WFMin
<1>5. PICK x \in T : s = 0 .. x
  OBVIOUS
<1>6. ASSUME NEW y \in T, y < x
      PROVE  FALSE
  <2>1. 0 .. y \in Sets /\ 0 .. y \subseteq 0 .. x /\ x \notin 0 .. y /\ x \in 0 .. x
    BY <1>6
  <2>2. <<0 .. y, s>> \in Order
    BY <1>5, <2>1 DEF StrictSubsetOrdering
  <2> QED
    BY <1>4, <2>1, <2>2
<1>7. \A y \in T : x <= y
  BY <1>6
<1> QED
  BY <1>7 DEF Min

LEMMA MaxAppended ==
  ASSUME NEW S, S \subseteq Nat, NEW m \in Nat, \A s \in S : s < m
  PROVE  Max(S \cup {m}) = m
<1>1. m \in S \cup {m} /\ \A y \in S \cup {m} : m >= y
  OBVIOUS
<1>2. Max(S \cup {m}) \in S \cup {m} /\ \A y \in S \cup {m} : Max(S \cup {m}) >= y
  BY <1>1 DEF Max
<1>3. Max(S \cup {m}) >= m /\ (Max(S \cup {m}) \in S => Max(S \cup {m}) < m)
  BY <1>1, <1>2
<1>4. Max(S \cup {m}) \in S => Max(S \cup {m}) \in Nat
  OBVIOUS
<1> HIDE DEF Max
<1> QED
  BY <1>2, <1>3, <1>4

ArgTypes ==
  /\ argv \in CommandLines /\ permutes \in BOOLEAN
  /\ parsed \in 0 .. Len(argv)
  /\ nb_threads \in 0 .. Byte - 1
  /\ verbose \in BOOLEAN
  /\ ret \in {"none", "ok", "error", "usage"}

\* While nothing was wrong the fields are what the last of their options made
\* of them.
ThreadsSet ==
  ret \in {"none", "ok"} =>
    /\ nb_threads # 0
    /\ nb_threads = (IF Handled("n") = {} THEN 4
                     ELSE argv[Max(Handled("n"))].value % Byte)
    /\ \A k \in Handled("n") : argv[k].value % Byte # 0

StreamSet ==
  ret # "error" =>
    output_stream = (IF Handled("f") = {} THEN "stdout"
                     ELSE argv[Max(Handled("f"))].file)

FilesOpened ==
  \/ ret = "error" /\ output_stream = "null"
  \/ opened = {argv[k].file : k \in Handled("f")}

ArgInv == ArgTypes /\ ThreadsSet /\ StreamSet /\ FilesOpened

LEMMA ArgInitial == ParseInit => ArgInv
<1> SUFFICES ASSUME ParseInit PROVE ArgInv
  OBVIOUS
<1>1. Byte \in Nat /\ Byte > 4 /\ Len(argv) \in Nat /\ DOMAIN argv = 1 .. Len(argv)
  BY ArgumentsAssumption DEF ParseInit
<1>2. Handled("n") = {} /\ Handled("f") = {}
  BY <1>1 DEF ParseInit, Handled, Options
<1>3. ArgTypes
  <2>1. parsed \in 0 .. Len(argv) /\ nb_threads \in 0 .. Byte - 1
    BY <1>1 DEF ParseInit
  <2> QED
    BY <2>1, Zenon DEF ParseInit, ArgTypes
<1>4. ThreadsSet /\ StreamSet /\ FilesOpened
  BY <1>2 DEF ParseInit, ThreadsSet, StreamSet, FilesOpened
<1> QED
  BY <1>3, <1>4 DEF ArgInv

\* The option that getopt returns is the first that is left; with it the options
\* that have been handled grow by this one.
LEMMA OptionHandled ==
  ASSUME ArgInv, NEW kind \in Option, Returns(kind), UNCHANGED <<argv, permutes>>
  PROVE  /\ Min(Left) \in DOMAIN argv /\ Min(Left) > parsed /\ Min(Left) \in Nat
         /\ argv[Min(Left)].kind = kind /\ argv[Min(Left)] \in Argument
         /\ DOMAIN argv = 1 .. Len(argv) /\ Len(argv) \in Nat
         /\ parsed' \in 0 .. Len(argv)
         /\ Handled(kind)' = Handled(kind) \cup {Min(Left)}
         /\ \A other : other # kind => Handled(other)' = Handled(other)
         /\ \A other : Handled(other) \subseteq Nat /\ \A k \in Handled(other) : k < Min(Left)
         /\ Max(Handled(kind)') = Min(Left)
         /\ ret = "none" /\ parsed' = Min(Left)
<1> DEFINE m == Min(Left)
<1>1. /\ argv \in Seq(Argument) /\ Len(argv) \in Nat /\ DOMAIN argv = 1 .. Len(argv)
      /\ parsed \in Nat
  BY ArgumentsAssumption DEF ArgInv, ArgTypes
<1>2. Left \subseteq Nat /\ Left # {} /\ parsed' = m /\ ret = "none" /\ argv[m].kind = kind
  BY <1>1 DEF Left, Options, Returns
<1>3. m \in Left /\ \A y \in Left : m <= y
  BY <1>2, MinIsLeast
<1>4. m \in Options /\ m > parsed /\ m \in DOMAIN argv
  BY <1>3 DEF Left, Options
<1>5. Options' = Options
  BY DEF Options
<1> HIDE DEF m
<1>6. \A k \in Options : k <= m <=> k <= parsed \/ k = m
  BY <1>1, <1>3, <1>4 DEF Left, Options
<1>7. \A other : Handled(other)' = {k \in Options : k <= m /\ argv[k].kind = other}
  BY <1>2, <1>5 DEF Handled
<1>8. \A other :
        Handled(other)' = {k \in Options : (k <= parsed \/ k = m) /\ argv[k].kind = other}
  BY <1>6, <1>7
<1>9. Handled(kind)' = Handled(kind) \cup {m}
  BY <1>2, <1>4, <1>8 DEF Handled
<1>10. \A other : other # kind => Handled(other)' = Handled(other)
  BY <1>2, <1>8 DEF Handled
<1>11. \A other : Handled(other) \subseteq Nat /\ \A k \in Handled(other) : k < m
  BY <1>1, <1>4 DEF Handled, Options
<1>12. Max(Handled(kind)') = m
  <2>1. m \in Nat /\ Handled(kind) \subseteq Nat /\ \A k \in Handled(kind) : k < m
    BY <1>1, <1>4, <1>11
  <2>2. Max(Handled(kind) \cup {m}) = m
    BY <2>1, MaxAppended
  <2> QED
    BY <1>9, <2>2
<1>13. argv[m] \in Argument /\ m \in Nat /\ m \in 0 .. Len(argv)
  BY <1>1, <1>4
<1> QED
  BY <1>1, <1>2, <1>4, <1>9, <1>10, <1>11, <1>12, <1>13 DEF m
LEMMA ArgStep ==
  ASSUME ArgInv, [ParseNext]_argVars
  PROVE  ArgInv'
<1>1. Byte \in Nat /\ Byte > 4
  BY ArgumentsAssumption
<1>2. CASE OptionN
  <2> DEFINE m == Min(Left)
  <2>1. /\ m \in DOMAIN argv /\ argv[m].kind = "n" /\ argv[m] \in Argument
        /\ parsed' \in 0 .. Len(argv) /\ ret = "none"
        /\ Handled("n")' = Handled("n") \cup {m} /\ Handled("f")' = Handled("f")
        /\ Max(Handled("n")') = m
    BY <1>2, OptionHandled DEF OptionN, Option
  <2>2. /\ nb_threads' = Stored(argv[m].value)
        /\ ret' = IF Accepted(argv[m].value) THEN ret ELSE "error"
        /\ UNCHANGED <<argv, permutes, verbose, output_stream, opened>>
    BY <1>2 DEF OptionN
  <2> HIDE DEF m
  <2>3. argv[m].value \in Int
    BY <2>1 DEF Argument
  <2>4. Stored(argv[m].value) = argv[m].value % Byte /\ argv[m].value % Byte \in 0 .. Byte - 1
    BY <1>1, <2>3 DEF Stored
  <2>5. ArgTypes'
    BY <2>1, <2>2, <2>4 DEF ArgInv, ArgTypes
  <2>6. ThreadsSet'
    BY <2>1, <2>2, <2>4 DEF ArgInv, ThreadsSet, Accepted
  <2>7. StreamSet' /\ FilesOpened'
    BY <2>1, <2>2 DEF ArgInv, StreamSet, FilesOpened
  <2> QED
    BY <2>5, <2>6, <2>7 DEF ArgInv
<1>3. CASE OptionV
  <2>1. /\ parsed' \in 0 .. Len(argv)
        /\ Handled("n")' = Handled("n") /\ Handled("f")' = Handled("f")
    BY <1>3, OptionHandled DEF OptionV, Option
  <2> QED
    BY <1>3, <2>1 DEF OptionV, ArgInv, ArgTypes, ThreadsSet, StreamSet, FilesOpened
<1>4. CASE OptionF
  <2> DEFINE m == Min(Left)
  <2>1. /\ m \in DOMAIN argv /\ parsed' \in 0 .. Len(argv) /\ ret = "none"
        /\ Handled("f")' = Handled("f") \cup {m} /\ Handled("n")' = Handled("n")
        /\ Max(Handled("f")') = m
    BY <1>4, OptionHandled DEF OptionF, Option
  <2>2. /\ output_stream' = Stream(argv[m].file)
        /\ opened' = opened \cup {argv[m].file}
        /\ UNCHANGED <<argv, permutes, nb_threads, verbose, ret>>
    BY <1>4 DEF OptionF
  <2> HIDE DEF m
  <2>3. ArgTypes' /\ ThreadsSet'
    BY <2>1, <2>2 DEF ArgInv, ArgTypes, ThreadsSet
  <2>4. StreamSet'
    BY <2>1, <2>2 DEF StreamSet, Stream
  <2>5. FilesOpened'
    BY <2>1, <2>2 DEF ArgInv, FilesOpened
  <2> QED
    BY <2>3, <2>4, <2>5 DEF ArgInv
<1>5. CASE OptionFFails
  <2>1. parsed' \in 0 .. Len(argv)
    BY <1>5, OptionHandled DEF OptionFFails, Option
  <2> QED
    BY <1>5, <2>1 DEF OptionFFails, ArgInv, ArgTypes, ThreadsSet, StreamSet, FilesOpened
<1>6. CASE OptionUnknown
  <2>1. /\ parsed' \in 0 .. Len(argv) /\ ret = "none"
        /\ Handled("n")' = Handled("n") /\ Handled("f")' = Handled("f")
    BY <1>6, OptionHandled DEF OptionUnknown, Option
  <2> QED
    BY <1>6, <2>1 DEF OptionUnknown, ArgInv, ArgTypes, ThreadsSet, StreamSet, FilesOpened
<1>7. CASE InputDirectory
  <2>1. /\ ret = "none" /\ ret' \in {"error", "ok"}
        /\ UNCHANGED <<argv, permutes, parsed, nb_threads, verbose, output_stream, opened>>
    BY <1>7 DEF InputDirectory
  <2>2. Handled("n")' = Handled("n") /\ Handled("f")' = Handled("f")
    BY <2>1 DEF Handled, Options
  <2> QED
    BY <2>1, <2>2 DEF ArgInv, ArgTypes, ThreadsSet, StreamSet, FilesOpened
<1>8. CASE UNCHANGED argVars
  <2>1. Handled("n")' = Handled("n") /\ Handled("f")' = Handled("f")
    BY <1>8 DEF argVars, Handled, Options
  <2> QED
    BY <1>8, <2>1 DEF argVars, ArgInv, ArgTypes, ThreadsSet, StreamSet, FilesOpened
<1> QED
  BY <1>2, <1>3, <1>4, <1>5, <1>6, <1>7, <1>8 DEF ParseNext

\* Where main is, and what it knows of the calls before.
MainInv ==
  /\ phase \in {"parse", "list", "ready", "success", "failure", "crashed"}
  /\ phase \in {"list", "ready"} => ret = "ok"
  /\ phase = "ready" => step \in {"array", "null"}

LEMMA MainParses == [Next]_vars => [ParseNext]_argVars
BY DEF Next, vars, Parse, ParseReturns, List, Semaphores, SemaphoresFail, Ended, argVars

LEMMA MainStep ==
  ASSUME ArgInv, MainInv, [Next]_vars
  PROVE  MainInv'
<1> USE DEF MainInv
<1>1. CASE Parse
  BY <1>1 DEF Parse
<1>2. CASE ParseReturns
  BY <1>2 DEF ParseReturns, AfterParse, ArgInv, ArgTypes, argVars
<1>3. CASE List
  BY <1>3 DEF List, argVars
<1>4. CASE Semaphores \/ SemaphoresFail
  BY <1>4 DEF Semaphores, SemaphoresFail, argVars, listVars
<1>5. CASE UNCHANGED vars
  BY <1>5 DEF vars, argVars, listVars
<1> QED
  BY <1>1, <1>2, <1>3, <1>4, <1>5 DEF Next, Ended

LEMMA ArgInvariant == Spec => []ArgInv /\ []MainInv
<1>1. Init => ArgInv /\ MainInv
  BY ArgInitial DEF Init, MainInv
<1>2. ArgInv /\ MainInv /\ [Next]_vars => ArgInv' /\ MainInv'
  BY ArgStep, MainStep, MainParses
<1> QED
  BY <1>1, <1>2, PTL DEF Spec

\* The program runs with 1 to 255 threads: 4 by default, and as many as the last -n
\* asks for if a uint8_t holds that many.
THEOREM ThreadsChosen == Spec => []ThreadCount
<1>1. ArgInv => ThreadCount
  <2> SUFFICES ASSUME ArgInv, ret = "ok" PROVE ThreadCount
    BY DEF ThreadCount
  <2>1. nb_threads \in 1 .. Byte - 1
    BY ArgumentsAssumption DEF ArgInv, ArgTypes, ThreadsSet
  <2>2. nb_threads = IF Handled("n") = {} THEN 4 ELSE Asked % Byte
    BY DEF ArgInv, ThreadsSet, Asked
  <2>3. Asked \in 1 .. Byte - 1 => Asked % Byte = Asked
    BY ArgumentsAssumption
  <2> QED
    BY <2>1, <2>2, <2>3 DEF ThreadCount
<1> QED
  BY <1>1, ArgInvariant, PTL

\* The last -f counts, and each of them empties its file at once.
THEOREM StreamOfLast == Spec => []StreamChosen
<1>1. ArgInv => StreamChosen
  BY DEF ArgInv, StreamSet, FilesOpened, StreamChosen
<1> QED
  BY <1>1, ArgInvariant, PTL

-----------------------------------------------------------------------------
(* The start *)

\* The types of the variables of the start.
THEOREM StartupTypes == Spec => []TypeOK
<1>1. ArgInv /\ MainInv /\ ListInv => TypeOK
  BY DEF ArgInv, ArgTypes, MainInv, ListInv, TypeOK
<1> QED
  BY <1>1, ArgInvariant, ListInvariant, PTL

\* What main hands over is a state that WorkerPool begins with, although main
\* ignores what readDir returned.
THEOREM StartsPool == Spec => []PoolReady
<1>1. ArgInv /\ MainInv /\ ListInv /\ SlotInv => PoolReady
  <2> SUFFICES ASSUME ArgInv, MainInv, ListInv, SlotInv, phase = "ready", Unwrapped
               PROVE  /\ nb_threads > 0
                      /\ numberFiles + nb_threads <= Modulus - 1
                      /\ step = "null" \/
                         \E k \in 0 .. numberFiles :
                           [f \in 0 .. numberFiles - 1 |-> SlotState(slots[f])] =
                           [f \in 0 .. numberFiles - 1 |-> IF f < k THEN "live" ELSE "wild"]
    BY DEF PoolReady
  <2>1. nb_threads \in 1 .. Byte - 1 /\ Byte \in Nat
    BY ArgumentsAssumption DEF ArgInv, ArgTypes, ThreadsSet, MainInv
  <2>2. i \in Nat /\ numberFiles \in Nat /\ Missing \in Nat /\ Cardinality(Names) \in Nat
    BY PartSizes, Sizes DEF ListInv
  <2>3. numberFiles + nb_threads <= Modulus - 1
    <3>1. numberFiles <= Cardinality(Names) + MaxChanges
      BY DEF MainInv, ListInv, FillInv
    <3> QED
      BY <2>1, <2>2, <3>1, StartupAssumption, ListingAssumption
  <2>4. ASSUME step = "array"
        PROVE  \E k \in 0 .. numberFiles :
                 [f \in 0 .. numberFiles - 1 |-> SlotState(slots[f])] =
                 [f \in 0 .. numberFiles - 1 |-> IF f < k THEN "live" ELSE "wild"]
    <3> DEFINE k == IF i < numberFiles THEN i ELSE numberFiles
    <3>1. slots \in [0 .. numberFiles - 1 -> Names \cup {Unset}]
      BY <2>4 DEF ListInv, ListTypeOK
    <3>2. \A f \in 0 .. numberFiles - 1 : slots[f] # Unset <=> f < k
      BY <2>2, <2>4, <3>1 DEF SlotInv, FilledInOrder
    <3>3. k \in 0 .. numberFiles
      BY <2>2
    <3> HIDE DEF k
    <3> QED
      BY <3>2, <3>3 DEF SlotState
  <2> QED
    BY <2>1, <2>3, <2>4 DEF MainInv
<1> QED
  BY <1>1, ArgInvariant, ListInvariant, SlotInvariant, PTL

=============================================================================
