----------------------------- MODULE IniFileProof -----------------------------
(***************************************************************************)
(* Proofs about IniFile, for any sections, keys and values, any failures   *)
(* and any number of objects, saves and crashes: memory and file differ    *)
(* only where the object has an unsaved change, and no change is forgotten.*)
(*                                                                         *)
(* UntouchedAgree says nothing of an object that has not read the file,    *)
(* which may save all the same and read later; KeysAgree does.  During a   *)
(* save the sections that are not to be written any more are in the file   *)
(* as they are in memory (SavedSoFar).                                     *)
(***************************************************************************)
EXTENDS IniFile, TLAPS

Settled == object \in {"idle", "gone"} /\ ~lost

\* A key in memory that has not been changed since the last save is in the file.
KeysAgree ==
  Settled =>
    \A s \in Sections, k \in Keys :
      <<s, k>> \notin touched /\ KeysOf(mem, s)[k] # None
        => ReadAs(mem, s, k) = ReadAs(file, s, k)

SavedSoFar ==
  object \in {"saving", "closing"} /\ ~lost =>
    \A s \in Sections : s \notin unsaved => file[s] = mem[s]

\* Without a change to be saved nothing has been touched.
Marked ==
  /\ object = "idle" /\ ~dirty => touched = {}
  /\ object = "gone" /\ ~lost => touched = {}

IInv == TypeOK /\ KeysAgree /\ UntouchedAgree /\ SavedSoFar /\ Marked

-----------------------------------------------------------------------------
\* The keys of a section are a function, without values if there is no section.
LEMMA KeysOfType ==
  ASSUME NEW c \in Contents, NEW s \in Sections, NEW k \in Keys
  PROVE  /\ KeysOf(c, s) \in Section /\ KeysOf(c, s)[k] \in Values \cup {None}
         /\ KeysOf(c, s)[k] # None => c[s] # None /\ c[s][k] = KeysOf(c, s)[k]
                                      /\ c[s][k] \in Values
  <1>1. c[s] \in Section \cup {None} /\ NoKeys \in Section
    BY DEF Contents, Section, NoKeys
  <1>2. KeysOf(c, s) \in Section
    BY <1>1 DEF KeysOf
  <1> QED
    BY <1>1, <1>2 DEF KeysOf, Section, NoKeys

\* A reader gets no value if and only if there is none.
LEMMA ReadAsNone ==
  ASSUME NEW c \in Contents, NEW s \in Sections, NEW k \in Keys
  PROVE  ReadAs(c, s, k) = None <=> KeysOf(c, s)[k] = None
  BY KeysOfType, LinesAssumption, NoneAssumption DEF ReadAs

\* What a reader gets depends on the section alone.
LEMMA ReadAsSame ==
  ASSUME NEW c, NEW d, NEW s \in Sections, NEW k \in Keys, c[s] = d[s]
  PROVE  ReadAs(c, s, k) = ReadAs(d, s, k) /\ KeysOf(c, s) = KeysOf(d, s)
  BY DEF ReadAs, KeysOf

\* The initial states satisfy the invariant.
LEMMA InitIInv == Init => IInv
  <1> SUFFICES ASSUME Init PROVE IInv
    OBVIOUS
  <1>1. TypeOK
    BY DEF Init, TypeOK, Contents, NoSections
  <1>2. ASSUME NEW s \in Sections, NEW k \in Keys PROVE KeysOf(mem, s)[k] = None
    BY DEF Init, NoSections, KeysOf, NoKeys
  <1> QED
    BY <1>1, <1>2 DEF Init, IInv, KeysAgree, UntouchedAgree, SavedSoFar, Marked

-----------------------------------------------------------------------------
(* An object begins and reads.                                             *)

LEMMA NewIInv == ASSUME IInv, New PROVE IInv'
  <1> USE DEF IInv, New
  <1>1. TypeOK'
    BY DEF TypeOK, Contents, NoSections
  <1>2. ASSUME NEW s \in Sections, NEW k \in Keys PROVE KeysOf(mem', s)[k] = None
    BY DEF NoSections, KeysOf, NoKeys
  <1> QED
    BY <1>1, <1>2 DEF KeysAgree, UntouchedAgree, SavedSoFar, Marked, KeysOf

LEMMA MergedType == ASSUME TypeOK, NEW s \in Sections PROVE Merged(s) \in Section \cup {None}
  <1> DEFINE read == {k \in Keys : KeysOf(file, s)[k] # None}
  <1>1. ASSUME NEW k \in read PROVE Lines[file[s][k]] \in Values
    BY KeysOfType, LinesAssumption DEF TypeOK
  <1>2. ASSUME NEW k \in Keys PROVE KeysOf(mem, s)[k] \in Values \cup {None}
    BY KeysOfType DEF TypeOK
  <1>3. mem[s] \in Section \cup {None}
    BY DEF TypeOK, Contents
  <1>4. [k \in Keys |-> IF k \in read THEN Lines[file[s][k]] ELSE KeysOf(mem, s)[k]] \in Section
    BY <1>1, <1>2 DEF Section
  <1> QED
    BY <1>3, <1>4 DEF Merged

\* What merging makes of a key: the value read, or else the one in memory.
LEMMA MergedKey ==
  ASSUME TypeOK, mem' = [s \in Sections |-> Merged(s)], mem' \in Contents,
         NEW s \in Sections, NEW k \in Keys
  PROVE  KeysOf(mem', s)[k] = IF KeysOf(file, s)[k] # None THEN Lines[file[s][k]]
                                                          ELSE KeysOf(mem, s)[k]
  <1> DEFINE read == {x \in Keys : KeysOf(file, s)[x] # None}
  <1>1. mem'[s] = Merged(s)
    OBVIOUS
  <1>2. CASE read = {}
    <2>1. mem'[s] = mem[s]
      BY <1>1, <1>2 DEF Merged
    <2> QED
      BY <1>2, <2>1 DEF KeysOf
  <1>3. CASE read # {}
    <2> DEFINE both == [x \in Keys |-> IF x \in read THEN Lines[file[s][x]]
                                                     ELSE KeysOf(mem, s)[x]]
    <2>1. mem'[s] = both
      BY <1>1, <1>3 DEF Merged
    <2>2. both \in Section
      <3>1. ASSUME NEW x \in read PROVE Lines[file[s][x]] \in Values
        BY KeysOfType, LinesAssumption DEF TypeOK
      <3>2. ASSUME NEW x \in Keys PROVE KeysOf(mem, s)[x] \in Values \cup {None}
        BY KeysOfType DEF TypeOK
      <3> QED
        BY <3>1, <3>2 DEF Section
    <2>3. both # None
      BY <2>2, NoneAssumption DEF Section
    <2>4. KeysOf(mem', s) = both
      BY <2>1, <2>3 DEF KeysOf
    <2> QED
      BY <2>4
  <1> QED
    BY <1>2, <1>3

LEMMA initIInv == ASSUME IInv, init PROVE IInv'
  <1> USE DEF IInv, init
  <1>1. mem' \in Contents
    BY MergedType DEF Contents
  <1>2. TypeOK'
    BY <1>1 DEF TypeOK
  <1>3. ASSUME NEW s \in Sections, NEW k \in Keys, Settled, <<s, k>> \notin touched
        PROVE  ReadAs(mem', s, k) = ReadAs(file, s, k)
    <2>1. CASE KeysOf(file, s)[k] # None
      <3>1. file[s][k] \in Values /\ KeysOf(mem', s)[k] = Lines[file[s][k]]
        BY <1>1, <2>1, KeysOfType, MergedKey DEF TypeOK
      <3>2. Lines[file[s][k]] \in Values /\ Lines[Lines[file[s][k]]] = Lines[file[s][k]]
        BY <3>1, LinesAssumption
      <3>3. mem'[s][k] = Lines[file[s][k]] /\ KeysOf(mem', s)[k] # None
        BY <1>1, <3>1, <3>2, KeysOfType, NoneAssumption
      <3> QED
        BY <2>1, <3>2, <3>3 DEF ReadAs
    <2>2. CASE KeysOf(file, s)[k] = None
      <3>1. KeysOf(mem', s)[k] = KeysOf(mem, s)[k]
        BY <1>1, <2>2, MergedKey
      <3>2. ReadAs(file, s, k) = None
        BY <2>2 DEF ReadAs
      <3>3. KeysOf(mem, s)[k] = None
        BY <1>3, <3>2, ReadAsNone DEF KeysAgree, TypeOK
      <3> QED
        BY <3>1, <3>2, <3>3 DEF ReadAs
    <2> QED
      BY <2>1, <2>2
  <1>4. Settled' <=> Settled
    BY DEF Settled
  <1> QED
    BY <1>2, <1>3, <1>4 DEF KeysAgree, UntouchedAgree, Settled, SavedSoFar, Marked, ReadAs, KeysOf

-----------------------------------------------------------------------------
\* A change: of one key, which is then touched, and marked.
LEMMA ChangeIInv ==
  ASSUME IInv, NEW s \in Sections, NEW k \in Keys, object = "idle",
         NEW section \in Section, mem' = [mem EXCEPT ![s] = section],
         \A x \in Keys \ {k} : section[x] = KeysOf(mem, s)[x],
         dirty' = TRUE, touched' = touched \cup {<<s, k>>},
         UNCHANGED <<object, loaded, file, unsaved, lost>>
  PROVE  IInv'
  <1> USE DEF IInv
  <1>1. mem' \in Contents
    BY DEF TypeOK, Contents
  <1>2. TypeOK'
    BY <1>1 DEF TypeOK
  <1>3. ASSUME NEW t \in Sections, NEW x \in Keys, <<t, x>> \notin touched'
        PROVE  /\ KeysOf(mem', t)[x] = KeysOf(mem, t)[x]
               /\ ReadAs(mem', t, x) = ReadAs(mem, t, x)
    <2>1. CASE t # s
      <3>1. mem'[t] = mem[t]
        BY <2>1 DEF TypeOK, Contents
      <3> QED
        BY <3>1 DEF KeysOf, ReadAs
    <2>2. CASE t = s
      <3>1. x # k /\ mem'[t] = section
        BY <1>3, <2>2 DEF TypeOK, Contents
      <3>2. KeysOf(mem', t) = section
        BY <3>1, NoneAssumption DEF KeysOf, Section
      <3>3. KeysOf(mem', t)[x] = KeysOf(mem, t)[x]
        BY <2>2, <3>1, <3>2
      <3>4. mem \in Contents
        BY DEF TypeOK
      <3>5. ASSUME NEW c \in Contents
            PROVE  KeysOf(c, t)[x] # None => c[t][x] = KeysOf(c, t)[x]
        BY KeysOfType
      <3>6. KeysOf(mem, t)[x] # None => mem[t][x] = KeysOf(mem, t)[x]
        BY <3>4, <3>5
      <3>7. KeysOf(mem', t)[x] # None => mem'[t][x] = KeysOf(mem', t)[x]
        BY <1>1, <3>5
      <3> QED
        BY <3>3, <3>6, <3>7 DEF ReadAs
    <2> QED
      BY <2>1, <2>2
  <1>4. KeysAgree'
    BY <1>3 DEF KeysAgree, Settled, ReadAs, KeysOf
  <1>5. UntouchedAgree'
    BY <1>3 DEF UntouchedAgree, ReadAs, KeysOf
  <1> QED
    BY <1>2, <1>4, <1>5 DEF SavedSoFar, Marked

LEMMA setIInv ==
  ASSUME IInv, NEW s \in Sections, NEW k \in Keys, NEW v \in Values, set(s, k, v) PROVE IInv'
  <1> DEFINE section == [KeysOf(mem, s) EXCEPT ![k] = v]
  <1>1. KeysOf(mem, s) \in Section
    BY KeysOfType DEF IInv, TypeOK
  <1>2. section \in Section /\ \A x \in Keys \ {k} : section[x] = KeysOf(mem, s)[x]
    BY <1>1 DEF Section
  <1> HIDE DEF section
  <1> QED
    BY <1>2, ChangeIInv DEF set, section

LEMMA delIInv == ASSUME IInv, NEW s \in Sections, NEW k \in Keys, del(s, k) PROVE IInv'
  <1> DEFINE section == [mem[s] EXCEPT ![k] = None]
  <1>1. mem[s] \in Section /\ KeysOf(mem, s) = mem[s]
    BY DEF IInv, TypeOK, Contents, del, KeysOf
  <1>2. section \in Section /\ \A x \in Keys \ {k} : section[x] = KeysOf(mem, s)[x]
    BY <1>1 DEF Section
  <1>3. mem' = [mem EXCEPT ![s] = section]
    BY DEF del, IInv, TypeOK, Contents
  <1> HIDE DEF section
  <1> QED
    BY <1>2, <1>3, ChangeIInv DEF del, DelDirty

-----------------------------------------------------------------------------
(* Saving.                                                                 *)

LEMMA TruncateIInv ==
  ASSUME IInv, NEW next \in {"saving", "closing"}, Truncate(next) PROVE IInv'
  <1> USE DEF IInv, Truncate
  <1>1. TypeOK'
    BY DEF TypeOK, Contents, NoSections, SectionsToWrite, Present
  <1>2. SavedSoFar'
    BY DEF SavedSoFar, NoSections, SectionsToWrite, Present
  <1> QED
    BY <1>1, <1>2 DEF KeysAgree, Settled, UntouchedAgree, Marked

LEMMA OpenFailsIInv ==
  ASSUME IInv, object = "idle", NEW next \in {"idle", "gone"}, OpenFails(next) PROVE IInv'
  <1> USE DEF IInv, OpenFails
  <1>1. TypeOK'
    BY DEF TypeOK
  <1>2. ~lost' => ~lost /\ next # "gone"
    BY Zenon
  <1> QED
    BY <1>1, <1>2 DEF KeysAgree, Settled, UntouchedAgree, SavedSoFar, Marked, ReadAs, KeysOf

LEMMA WriteIInv == ASSUME IInv, NEW s \in Sections, WriteSection(s) PROVE IInv'
  <1> USE DEF IInv, WriteSection
  <1>1. file' \in Contents
    BY DEF TypeOK, Contents
  <1>2. TypeOK'
    BY <1>1 DEF TypeOK
  <1>3. SavedSoFar'
    BY DEF SavedSoFar, TypeOK, Contents
  <1> QED
    BY <1>2, <1>3 DEF KeysAgree, Settled, UntouchedAgree, Marked

LEMMA EndWriteIInv == ASSUME IInv, EndWrite PROVE IInv'
  <1> USE DEF IInv, EndWrite
  <1>1. TypeOK'
    BY DEF TypeOK
  <1>2. ASSUME ~lost, NEW s \in Sections, NEW k \in Keys
        PROVE  ReadAs(mem, s, k) = ReadAs(file, s, k)
    <2>1. file[s] = mem[s]
      BY <1>2 DEF SavedSoFar
    <2> QED
      BY <2>1 DEF ReadAs, KeysOf
  <1> QED
    BY <1>1, <1>2 DEF KeysAgree, Settled, UntouchedAgree, SavedSoFar, Marked, ReadAs, KeysOf

LEMMA CrashIInv == ASSUME IInv, Crash PROVE IInv'
  <1> USE DEF IInv, Crash
  <1>1. file' \in Contents
    BY DEF TypeOK, Contents
  <1>2. TypeOK'
    BY <1>1 DEF TypeOK, Contents, NoSections
  <1> QED
    BY <1>2 DEF KeysAgree, Settled, UntouchedAgree, SavedSoFar, Marked

\* Every step preserves the invariant.
LEMMA NextIInv == IInv /\ [Next]_vars => IInv'
  <1> SUFFICES ASSUME IInv, [Next]_vars PROVE IInv'
    OBVIOUS
  <1>1. CASE DestroyClean
    BY <1>1 DEF DestroyClean, IInv, TypeOK, KeysAgree, Settled, UntouchedAgree, SavedSoFar,
                Marked, ReadAs, KeysOf
  <1>2. CASE save \/ DestroyDirty
    BY <1>2, TruncateIInv, OpenFailsIInv DEF save, DestroyDirty
  <1>3. CASE UNCHANGED vars
    BY <1>3 DEF vars, IInv, TypeOK, KeysAgree, Settled, UntouchedAgree, SavedSoFar, Marked,
                ReadAs, KeysOf
  <1> QED
    BY <1>1, <1>2, <1>3, NewIInv, initIInv, setIInv, delIInv, WriteIInv, EndWriteIInv,
       CrashIInv DEF Next

-----------------------------------------------------------------------------
\* The variables keep their types.
THEOREM TypeCorrect == Spec => []TypeOK
  <1>1. IInv => TypeOK
    BY DEF IInv
  <1> QED
    BY <1>1, InitIInv, NextIInv, PTL DEF Spec

\* Merging, saving and reading again neither loses nor brings back a key that this
\* object has not changed.
THEOREM UntouchedSafe == Spec => []UntouchedAgree
  <1>1. IInv => UntouchedAgree
    BY DEF IInv
  <1> QED
    BY <1>1, InitIInv, NextIInv, PTL DEF Spec

\* A change that is not in the file is marked, so that the destructor saves it.
THEOREM ChangesSafe == Spec => []ChangesMarked
  <1>1. IInv => ChangesMarked
    BY DEF IInv, ChangesMarked, Marked, UntouchedAgree
  <1> QED
    BY <1>1, InitIInv, NextIInv, PTL DEF Spec
===============================================================================
