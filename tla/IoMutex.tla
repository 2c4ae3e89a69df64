------------------------------- MODULE IoMutex -------------------------------
(***************************************************************************)
(* An io_mutex with the io_lock and io_trylock objects that threads make   *)
(* and destroy on it (io/io_mutex.h, io/io_mutex.cpp).  The mutex is a     *)
(* CRITICAL_SECTION where __WIN__ is defined, which its owner may enter    *)
(* again, and a default pthread_mutex_t elsewhere, which its owner waits   *)
(* for.  Both are external, and so are the threads: an object is used by   *)
(* the thread that has made it, and the mutex outlives its objects.        *)
(***************************************************************************)
EXTENDS Naturals, FiniteSets

CONSTANTS
  Thread,
  Object,         \* the places for io_lock and io_trylock objects
  None            \* no thread

ASSUME ObjectAssumption == IsFiniteSet(Object)
ASSUME NoneAssumption == None \notin Thread

VARIABLES
  kind,           \* what m_mutex is
  owner, count,   \* who has entered it, and how often
  class,          \* each object: "io_lock" or "io_trylock"
  user,           \* the thread that has made it
  state           \* "gone", "entering" (waits in enter), "in" or "out"

mutexVars == <<kind, owner, count, class, user, state>>

Inside == {o \in Object : state[o] = "in"}

MutexTypeOK ==
  /\ kind \in {"CRITICAL_SECTION", "pthread_mutex_t"}
  /\ owner \in Thread \cup {None}
  /\ count \in Nat
  /\ class \in [Object -> {"io_lock", "io_trylock"}]
  /\ user \in [Object -> Thread]
  /\ state \in [Object -> {"gone", "entering", "in", "out"}]
  /\ \A o \in Object : state[o] = "entering" => class[o] = "io_lock"

MutexInit ==
  /\ kind \in {"CRITICAL_SECTION", "pthread_mutex_t"}
  /\ owner = None /\ count = 0
  /\ class \in [Object -> {"io_lock"}]
  /\ user \in {[o \in Object |-> t] : t \in Thread}
  /\ state = [o \in Object |-> "gone"]

-----------------------------------------------------------------------------
(* The mutex lets t in. *)
Open(t) == owner = None \/ (kind = "CRITICAL_SECTION" /\ owner = t)
Enter(t) == owner' = t /\ count' = count + 1
Exit ==
  /\ count' = count - 1
  /\ owner' = IF count = 1 THEN None ELSE owner

(* A thread that waits in enter does nothing else. *)
Runs(t) == \A o \in Object : ~(state[o] = "entering" /\ user[o] = t)

Make(t, o, c, s) ==
  /\ state[o] = "gone" /\ Runs(t)
  /\ class' = [class EXCEPT ![o] = c]
  /\ user' = [user EXCEPT ![o] = t]
  /\ state' = [state EXCEPT ![o] = s]
  /\ UNCHANGED kind

(* io_lock::io_lock calls enter, which returns when the mutex is open. *)
io_lock(t, o) ==
  /\ Make(t, o, "io_lock", "entering")
  /\ UNCHANGED <<owner, count>>

enter(o) ==
  /\ state[o] = "entering" /\ Open(user[o])
  /\ Enter(user[o])
  /\ state' = [state EXCEPT ![o] = "in"]
  /\ UNCHANGED <<kind, class, user>>

(* io_trylock::io_trylock, m_is_enter being "in" or "out". *)
io_trylock(t, o) ==
  \/ Open(t) /\ Make(t, o, "io_trylock", "in") /\ Enter(t)
  \/ ~Open(t) /\ Make(t, o, "io_trylock", "out") /\ UNCHANGED <<owner, count>>

\* mutant: the result of the try is not tested
TriesAlways(o) == TRUE
(* io_trylock::try_again, which enters at most once; otherwise it only       *)
(* returns m_is_enter.                                                       *)
Tries(o) == state[o] = "out"

try_again(o) ==
  /\ class[o] = "io_trylock" /\ state[o] # "gone" /\ Runs(user[o])
  /\ Tries(o) /\ Open(user[o])
  /\ Enter(user[o])
  /\ state' = [state EXCEPT ![o] = "in"]
  /\ UNCHANGED <<kind, class, user>>

\* mutant: an io_trylock that has not entered exits
LeavesAlways(o) == TRUE
\* mutant: an io_trylock does not exit
LeavesLock(o) == state[o] = "in" /\ class[o] = "io_lock"
(* ~io_lock, and ~io_trylock, which exits if it has entered. *)
Leaves(o) == state[o] = "in"

Destroy(o) ==
  /\ state[o] \in {"in", "out"} /\ Runs(user[o])
  /\ IF Leaves(o) THEN Exit ELSE UNCHANGED <<owner, count>>
  /\ state' = [state EXCEPT ![o] = "gone"]
  /\ UNCHANGED <<kind, class, user>>

MutexNext ==
  \/ \E t \in Thread, o \in Object : io_lock(t, o) \/ io_trylock(t, o)
  \/ \E o \in Object : enter(o) \/ try_again(o) \/ Destroy(o)

MutexSpec == MutexInit /\ [][MutexNext]_mutexVars

(* The mutex lets nobody wait for ever that it could let in again and again: *)
(* that is up to the operating system.                                       *)
MutexFairSpec == MutexSpec /\ \A o \in Object : SF_mutexVars(enter(o))

-----------------------------------------------------------------------------
(* At no time are two threads in, however io_lock, io_trylock and try_again *)
(* are mixed (io_mutex.h:36-68).                                            *)
MutualExclusion == \A o, p \in Inside : user[o] = user[p]

(* The mutex is free as soon as, and only when, no object is in: each       *)
(* object leaves once for each time it has entered, an io_trylock that has  *)
(* not entered leaves nothing (io_mutex.h:53-59).                           *)
FreeWhenLeft == owner = None <=> Inside = {}

(* As long as no thread stays in for ever, every io_lock is made at last,   *)
(* unless the mutex is a pthread_mutex_t whose owner waits for it itself    *)
(* (io_mutex.cpp:26).                                                       *)
WaitsForItself ==
  /\ kind = "pthread_mutex_t"
  /\ \E o \in Object : state[o] = "entering" /\ user[o] = owner

Enters ==
  (\A t \in Thread : []<>(WaitsForItself \/ \A o \in Inside : user[o] # t))
    => \A o \in Object : state[o] = "entering" ~> state[o] = "in" \/ WaitsForItself
=============================================================================
