------------------------------ MODULE WorkerPool ------------------------------
(***************************************************************************)
(* What a completion-port server promises about its threads and its        *)
(* resources, whatever the code does in between.                           *)
(*                                                                         *)
(* A pool is brought up, its workers take completions one at a time, and   *)
(* its resources (the port, the event, the contexts the completions point  *)
(* into) are given back.  They are given back in two situations only: at   *)
(* the end of an orderly stop, when no worker is left, or because the      *)
(* bring-up failed, when workers may still be waiting but none of them is  *)
(* handling a completion, and none will ever handle one again.             *)
(***************************************************************************)

CONSTANT Workers          \* the worker threads

VARIABLES
  phase,                  \* where the pool is in its life
  live,                   \* workers that exist and have not returned
  busy                    \* workers inside the handler of a completion

poolVars == <<phase, live, busy>>

Phases == {"starting", "up", "draining", "released"}

PoolTypeOK ==
  /\ phase \in Phases
  /\ live \subseteq Workers
  /\ busy \subseteq live

PoolInit ==
  /\ phase = "starting"
  /\ live = {}
  /\ busy = {}

-----------------------------------------------------------------------------
\* A thread is created; only the bring-up creates threads.
Spawn(w) ==
  /\ phase = "starting"
  /\ live' = live \cup {w}
  /\ UNCHANGED <<phase, busy>>

\* A worker takes a completion.  Never after the resources are gone.
Begin(w) ==
  /\ phase # "released"
  /\ w \in live \ busy
  /\ busy' = busy \cup {w}
  /\ UNCHANGED <<phase, live>>

\* The handler of the completion returns.
Finish(w) ==
  /\ busy' = busy \ {w}
  /\ UNCHANGED <<phase, live>>

\* The thread function returns.
Leave(w) ==
  /\ w \notin busy
  /\ live' = live \ {w}
  /\ UNCHANGED <<phase, busy>>

\* The bring-up succeeded.
Open ==
  /\ phase = "starting"
  /\ phase' = "up"
  /\ UNCHANGED <<live, busy>>

\* A stop begins, perhaps again after an earlier one.
Drain ==
  /\ \/ phase = "up"
     \/ phase = "released" /\ live = {}
  /\ phase' = "draining"
  /\ UNCHANGED <<live, busy>>

\* The resources are given back.
Release ==
  /\ \/ phase = "draining" /\ live = {}
     \/ phase = "starting" /\ busy = {}
  /\ phase' = "released"
  /\ UNCHANGED <<live, busy>>

\* A pool that has been stopped is brought up again.
Reopen ==
  /\ phase = "released"
  /\ live = {}
  /\ phase' = "starting"
  /\ UNCHANGED <<live, busy>>

PoolNext ==
  \/ \E w \in Workers : Spawn(w) \/ Begin(w) \/ Finish(w) \/ Leave(w)
  \/ Open
  \/ Drain
  \/ Release
  \/ Reopen

PoolSpec == PoolInit /\ [][PoolNext]_poolVars
===============================================================================
