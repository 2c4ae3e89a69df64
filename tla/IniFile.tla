------------------------------- MODULE IniFile -------------------------------
(***************************************************************************)
(* base/inifile.cpp: a CIniFile holds sections of key=value lines in       *)
(* memory, merges a file into them (init), writes all of them over the     *)
(* file (save) and, when it is destroyed after a change, saves by itself.  *)
(* Objects on one file follow each other; the process may end in the       *)
(* middle of a save.                                                       *)
(*                                                                         *)
(* Lines the class does not write (comments, keys before the first         *)
(* section) are left out.                                                  *)
(***************************************************************************)
EXTENDS Naturals, FiniteSets

CONSTANTS
  Sections, Keys,
  Values,         \* the values a caller sets
  Lines,          \* what a line of each of them is read as (load, str2vector,
                  \* trim): x=y is read as x, blanks are trimmed
  None,           \* no section, no key
  Failures        \* "open": fopen fails, "disk": fprintf or fclose fails

ASSUME LinesAssumption ==
  /\ Lines \in [Values -> Values]
  /\ \A v \in Values : Lines[Lines[v]] = Lines[v]
ASSUME NoneAssumption == None \notin Values /\ None \notin [Keys -> Values \cup {None}]
ASSUME FailuresAssumption == Failures \subseteq {"open", "disk"}

VARIABLES
  object,         \* "idle", "saving", "closing" (a save by the destructor), "gone"
  mem,            \* m_mSection
  dirty,          \* m_bIsChange
  loaded,         \* this object has read the file
  file,           \* the sections of the file
  unsaved,        \* the sections the save has still to write
  lost,           \* a line could not be written, or a change not saved
  touched         \* what this object has set or deleted since its last save

vars == <<object, mem, dirty, loaded, file, unsaved, lost, touched>>

Section == [Keys -> Values \cup {None}]
Contents == [Sections -> Section \cup {None}]
NoSections == [s \in Sections |-> None]
NoKeys == [k \in Keys |-> None]

TypeOK ==
  /\ object \in {"idle", "saving", "closing", "gone"}
  /\ mem \in Contents /\ file \in Contents
  /\ dirty \in BOOLEAN /\ loaded \in BOOLEAN /\ lost \in BOOLEAN
  /\ unsaved \subseteq Sections /\ touched \subseteq Sections \X Keys

Init ==
  /\ object = "gone"
  /\ mem = NoSections /\ file = NoSections
  /\ dirty = FALSE /\ loaded = FALSE /\ lost = FALSE
  /\ unsaved = {} /\ touched = {}

-----------------------------------------------------------------------------
Present(c) == {s \in Sections : c[s] # None}
KeysOf(c, s) == IF c[s] = None THEN NoKeys ELSE c[s]

\* A section is made when its first key is read, so one without keys disappears.
Merged(s) ==
  LET read == {k \in Keys : KeysOf(file, s)[k] # None}
  IN  IF read = {} THEN mem[s]
      ELSE [k \in Keys |-> IF k \in read THEN Lines[file[s][k]]
                                         ELSE KeysOf(mem, s)[k]]

New ==
  /\ object = "gone"
  /\ object' = "idle"
  /\ mem' = NoSections
  /\ dirty' = FALSE /\ loaded' = FALSE /\ lost' = FALSE
  /\ touched' = {}
  /\ UNCHANGED <<file, unsaved>>

\* A file that cannot be opened leaves everything as it is.
init ==
  /\ object = "idle"
  /\ mem' = [s \in Sections |-> Merged(s)]
  /\ loaded' = TRUE
  /\ UNCHANGED <<object, dirty, file, unsaved, lost, touched>>

set(s, k, v) ==
  /\ object = "idle"
  /\ mem' = [mem EXCEPT ![s] = [KeysOf(mem, s) EXCEPT ![k] = v]]
  /\ dirty' = TRUE
  /\ touched' = touched \cup {<<s, k>>}
  /\ UNCHANGED <<object, loaded, file, unsaved, lost>>

\* mutant: the change is not recorded
DelKeepsDirty == dirty
DelDirty == TRUE

del(s, k) ==
  /\ object = "idle"
  /\ mem[s] # None
  /\ mem' = [mem EXCEPT ![s][k] = None]
  /\ dirty' = DelDirty
  /\ touched' = touched \cup {<<s, k>>}
  /\ UNCHANGED <<object, loaded, file, unsaved, lost>>

-----------------------------------------------------------------------------
(* save(), and the destructor.                                             *)

\* mutant: the sections that have not changed are not written
ChangedSections == {s \in Present(mem) : \E k \in Keys : <<s, k>> \in touched}
SectionsToWrite == Present(mem)

\* fopen with "w": the file is empty until the first line is written.
Truncate(next) ==
  /\ file' = NoSections
  /\ unsaved' = SectionsToWrite
  /\ object' = next
  /\ lost' = FALSE
  /\ UNCHANGED <<mem, dirty, loaded, touched>>

\* save() returns -1, which the destructor ignores.
OpenFails(next) ==
  /\ "open" \in Failures
  /\ object' = next
  /\ lost' = (lost \/ next = "gone")
  /\ UNCHANGED <<mem, dirty, loaded, file, unsaved, touched>>

save == object = "idle" /\ (Truncate("saving") \/ OpenFails("idle"))

DestroyClean ==
  /\ object = "idle" /\ ~dirty
  /\ object' = "gone"
  /\ UNCHANGED <<mem, dirty, loaded, file, unsaved, lost, touched>>

DestroyDirty == object = "idle" /\ dirty /\ (Truncate("closing") \/ OpenFails("gone"))

\* Config::write.  What fprintf could not write is missing from the file.
WriteSection(s) ==
  /\ object \in {"saving", "closing"}
  /\ s \in unsaved
  /\ unsaved' = unsaved \ {s}
  /\ \/ file' = [file EXCEPT ![s] = mem[s]] /\ UNCHANGED lost
     \/ "disk" \in Failures /\ lost' = TRUE /\ UNCHANGED file
  /\ UNCHANGED <<object, mem, dirty, loaded, touched>>

EndWrite ==
  /\ object \in {"saving", "closing"} /\ unsaved = {}
  /\ dirty' = FALSE
  /\ touched' = {}
  /\ object' = IF object = "saving" THEN "idle" ELSE "gone"
  /\ UNCHANGED <<mem, loaded, file, unsaved, lost>>

\* The process ends; of what the save has written some may not be on the disk.
Crash ==
  /\ object # "gone"
  /\ object' = "gone"
  /\ IF object = "idle" THEN UNCHANGED file
     ELSE \E there \in SUBSET Sections :
            file' = [s \in Sections |-> IF s \in there THEN file[s] ELSE None]
  /\ mem' = NoSections /\ unsaved' = {}
  /\ dirty' = FALSE /\ loaded' = FALSE /\ lost' = TRUE
  /\ touched' = {}

Next ==
  \/ New
  \/ init
  \/ \E s \in Sections, k \in Keys :
       del(s, k) \/ \E v \in Values : set(s, k, v)
  \/ save
  \/ DestroyClean
  \/ DestroyDirty
  \/ \E s \in Sections : WriteSection(s)
  \/ EndWrite
  \/ Crash

Spec == Init /\ [][Next]_vars

-----------------------------------------------------------------------------
(* Properties.                                                             *)

\* what a reader of the contents c gets for a key
ReadAs(c, s, k) ==
  IF KeysOf(c, s)[k] = None THEN None ELSE Lines[c[s][k]]

\* Unless a write has failed, what is in the file and in the memory of an object
\* that has read it differs only where the object has made a change that it has
\* not saved: merging, saving and reading again, in any order, neither loses a key
\* of anybody else nor brings one back.
UntouchedAgree ==
  object \in {"idle", "gone"} /\ loaded /\ ~lost =>
    \A s \in Sections, k \in Keys :
      <<s, k>> \notin touched => ReadAs(mem, s, k) = ReadAs(file, s, k)

\* A change that is not in the file is marked, so that the destructor saves it; an
\* object that is gone has left nothing unsaved, unless a write failed.
ChangesMarked ==
  /\ object = "idle" /\ ~dirty /\ loaded /\ ~lost =>
       \A s \in Sections, k \in Keys : ReadAs(mem, s, k) = ReadAs(file, s, k)
  /\ object = "gone" /\ ~lost => touched = {}
===============================================================================
