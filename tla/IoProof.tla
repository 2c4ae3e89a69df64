------------------------------- MODULE IoProof -------------------------------
(***************************************************************************)
(* Proofs about the two components of io/.                                 *)
(*                                                                         *)
(* NetWiocpModule, for any number of workers and operations, any failures, *)
(* and any number of calls of start() and shutdown(): types, exit packets, *)
(* the absence of faults, the workers that are kept, and that the object   *)
(* behaves as a WorkerPool.  shutdown() may be called again, so packets    *)
(* may be left over: what is posted is at most what is in the port with    *)
(* the workers that have ended (Accounted), and nothing is left over when  *)
(* workers are made (Fresh).                                               *)
(*                                                                         *)
(* IoMutex, for any number of threads and objects, on both kinds of mutex. *)
(* Neither property is inductive: that the objects inside are the owner's  *)
(* follows step by step only if the count is the number of these objects,  *)
(* so that Exit frees the mutex with the last.                             *)
(***************************************************************************)
EXTENDS NetWiocpModule, IoMutex, FiniteSetTheorems, TLAPS

Dead == {w \in Workers : wpc[w] = "dead"}

\* With a port no worker ends before the first packet is posted.
Fresh ==
  opc \in {"create", "up"} =>
    event # "set" /\ (port = "open" => exits = 0 /\ Dead = {})

\* The owner is outside start() and shutdown() and no worker is left.
Drained ==
  /\ opc = "new" => Live = {}
  /\ opc \in {"down", "deleted"} /\ AllWaitedFor => Live = {}

Accounted ==
  /\ opc \in {"post", "wait"} /\ port = "open" => posted <= exits + Cardinality(Dead)
  /\ opc = "wait" => posted = N

IInv == TypeOK /\ Fresh /\ Drained /\ Accounted /\ NoFault

-----------------------------------------------------------------------------
\* The number of workers is a positive number.
LEMMA NType == N \in Nat /\ N > 0
  BY WorkersAssumption, FS_CardinalityType, FS_EmptySet DEF N

\* Ended workers are finitely many.
LEMMA DeadType == IsFiniteSet(Dead) /\ Cardinality(Dead) \in Nat
  <1>1. Dead \subseteq Workers
    BY DEF Dead
  <1> QED
    BY <1>1, WorkersAssumption, FS_Subset, FS_CardinalityType

\* A worker that ends adds one to the ended ones.
LEMMA DeadPlusOne ==
  ASSUME NEW w \in Workers, TypeOK, wpc[w] # "dead", wpc' = [wpc EXCEPT ![w] = "dead"]
  PROVE  Cardinality(Dead') = Cardinality(Dead) + 1
  <1>1. Dead' = Dead \cup {w} /\ w \notin Dead
    BY DEF Dead, TypeOK
  <1> QED
    BY <1>1, DeadType, FS_AddElement

\* Live and ended workers are different ones, so there are at most N of both.
LEMMA LiveAndDead ==
  Cardinality(Live) \in Nat /\ Cardinality(Live) + Cardinality(Dead) <= N
  <1>1. Live \subseteq Workers /\ Dead \subseteq Workers /\ Live \cap Dead = {}
    BY DEF Live, Dead
  <1>2. IsFiniteSet(Live) /\ IsFiniteSet(Dead)
    BY <1>1, WorkersAssumption, FS_Subset
  <1>3. Cardinality(Live \cup Dead)
          = Cardinality(Live) + Cardinality(Dead) - Cardinality(Live \cap Dead)
    BY <1>2, FS_Union
  <1>4. Cardinality(Live \cup Dead) <= Cardinality(Workers)
    BY <1>1, WorkersAssumption, FS_Subset
  <1>5. Cardinality(Live \cap Dead) = 0
    BY <1>1, FS_EmptySet
  <1>6. /\ Cardinality(Live) \in Nat /\ Cardinality(Dead) \in Nat
        /\ Cardinality(Workers) \in Nat /\ Cardinality(Live \cup Dead) \in Nat
    BY <1>1, <1>2, WorkersAssumption, FS_CardinalityType, FS_Union
  <1> QED
    BY <1>3, <1>4, <1>5, <1>6 DEF N

\* What a step maps to: a step of the pool, or none, when all workers are waited for.
PoolStep == AllWaitedFor => Pool!PoolNext \/ UNCHANGED Pool!poolVars

-----------------------------------------------------------------------------
\* The initial states satisfy the invariant.
LEMMA InitIInv == Init => IInv
  <1> SUFFICES ASSUME Init PROVE IInv
    OBVIOUS
  <1>1. TypeOK
    <2>1. posted \in 0 .. N /\ exits \in Nat
      BY NType DEF Init
    <2> QED
      BY <2>1 DEF Init, TypeOK
  <1>2. Live = {}
    BY DEF Init, Live
  <1> QED
    BY <1>1, <1>2 DEF Init, IInv, Fresh, Drained, Accounted, NoFault

-----------------------------------------------------------------------------
(* The owner.                                                              *)

LEMMA StartStep == ASSUME IInv, StartBegin PROVE IInv' /\ PoolStep
  <1> USE DEF IInv, StartBegin
  <1>1. TypeOK'
    BY DEF TypeOK, OpsOfTheOldPort, Outcomes
  <1>2. Live = {} /\ Live' = {} /\ Dead' = {} /\ faults' = {}
    BY DEF Live, Dead, Defined
  <1>3. Fresh' /\ Drained' /\ Accounted' /\ NoFault'
    BY <1>2 DEF Fresh, Drained, Accounted, NoFault, Outcomes
  <1>4. Calling = {} /\ Calling' = {}
    BY <1>2 DEF Live, Calling
  <1>5. PoolStep
    BY <1>2, <1>4 DEF PoolStep, Pool!PoolNext, Pool!Reopen, Pool!poolVars
  <1> QED
    BY <1>1, <1>3, <1>5

LEMMA CreateStep == ASSUME IInv, NEW w \in Workers, CreateWorker(w) PROVE IInv' /\ PoolStep
  <1> USE DEF IInv, CreateWorker
  <1>1. TypeOK'
    BY DEF TypeOK, Outcomes
  <1>2. Dead' = Dead /\ Calling' = Calling /\ faults' = {}
    BY DEF Dead, Calling, Defined, TypeOK, Outcomes
  <1>3. Fresh' /\ Drained' /\ Accounted' /\ NoFault'
    BY <1>2 DEF Fresh, Drained, Accounted, NoFault
  <1>4. Live' = Live \cup {w} \/ Live' = Live
    BY DEF Live, TypeOK, Outcomes
  <1>5. PoolStep
    BY <1>2, <1>4 DEF PoolStep, Pool!PoolNext, Pool!Spawn, Pool!poolVars
  <1> QED
    BY <1>1, <1>3, <1>5

LEMMA OwnerStepHolds ==
  ASSUME IInv, Started \/ ShutdownBegin \/ PostExitPacket \/ ExitPacketsPosted
                 \/ WaitWorkers \/ Delete
  PROVE  IInv' /\ PoolStep
  <1> USE DEF IInv
  <1>1. wpc' = wpc /\ wop' = wop /\ faults' = faults /\ faults = {}
    BY DEF Started, ShutdownBegin, PostExitPacket, ExitPacketsPosted, WaitWorkers, Delete,
           Defined
  <1>2. /\ Live' = Live /\ Dead' = Dead /\ Calling' = Calling
        /\ (AllWaitedFor' <=> AllWaitedFor)
    BY <1>1 DEF Live, Dead, Calling, AllWaitedFor
  <1>3. TypeOK'
    <2>1. posted' \in 0 .. N /\ exits' \in Nat
      BY NType DEF TypeOK, Started, ShutdownBegin, PostExitPacket, ExitPacketsDue,
                   ExitPacketsPosted, WaitWorkers, Delete
    <2>2. op' \in [Ops -> {"none", "ready", "submitted", "completed", "running", "lost"}]
      BY DEF TypeOK, Started, ShutdownBegin, PostExitPacket, ExitPacketsPosted,
             WaitWorkers, Delete, OpsOfTheOldPort
    <2>3. /\ event' \in {"null", "clear", "set"} /\ port' \in {"null", "open"}
          /\ opc' \in {"new", "create", "up", "post", "wait", "down", "deleted"}
      BY DEF TypeOK, Started, ShutdownBegin, PostExitPacket, ExitPacketsPosted,
             WaitWorkers, Delete
    <2> QED
      BY <1>1, <2>1, <2>2, <2>3 DEF TypeOK
  <1>4. AllWaitedFor /\ WaitWorkers => Live = {}
    BY NType, MaxWaitAssumption DEF WaitWorkers, WaitOver, AllWaitedFor
  <1>5. Fresh' /\ Drained' /\ NoFault'
    BY <1>1, <1>2, <1>4 DEF Fresh, Drained, NoFault, Started, ShutdownBegin,
       PostExitPacket, ExitPacketsPosted, WaitWorkers, Delete
  <1>6. Accounted'
    BY <1>2, NType, DeadType DEF Accounted, TypeOK, Started, ShutdownBegin,
       PostExitPacket, ExitPacketsDue, ExitPacketsPosted, WaitWorkers, Delete
  <1>7. PoolStep
    <2> SUFFICES ASSUME AllWaitedFor PROVE Pool!PoolNext \/ UNCHANGED Pool!poolVars
      BY DEF PoolStep
    <2>1. CASE Started
      BY <1>2, <2>1 DEF Started, Pool!PoolNext, Pool!Open
    <2>2. CASE ShutdownBegin
      BY <1>2, <2>2 DEF ShutdownBegin, Drained, Pool!PoolNext, Pool!Drain
    <2>3. CASE PostExitPacket \/ ExitPacketsPosted \/ Delete
      BY <1>2, <2>3 DEF PostExitPacket, ExitPacketsPosted, Delete, Pool!poolVars
    <2>4. CASE WaitWorkers
      BY <1>2, <1>4, <2>4 DEF WaitWorkers, Pool!PoolNext, Pool!Release
    <2> QED
      BY <2>1, <2>2, <2>3, <2>4
  <1> QED
    BY <1>3, <1>5, <1>6, <1>7

-----------------------------------------------------------------------------
\* The user's steps leave owner, port and workers alone.
LEMMA UserStep ==
  ASSUME IInv, NEW o \in Ops, Associate(o) \/ Submit(o) \/ Complete(o)
  PROVE  IInv' /\ PoolStep
  <1> USE DEF IInv, Associate, Submit, Complete
  <1>1. TypeOK'
    BY DEF TypeOK
  <1>2. /\ Live' = Live /\ Dead' = Dead /\ Calling' = Calling
        /\ (AllWaitedFor' <=> AllWaitedFor)
    BY DEF Live, Dead, Calling, AllWaitedFor
  <1>3. Fresh' /\ Drained' /\ Accounted' /\ NoFault'
    BY <1>2 DEF Fresh, Drained, Accounted, NoFault
  <1>4. PoolStep
    BY <1>2 DEF PoolStep, Pool!poolVars
  <1> QED
    BY <1>1, <1>3, <1>4

-----------------------------------------------------------------------------
(* A worker.                                                               *)

\* An ended worker makes up for the packet that is gone.
LEMMA Balance ==
  ASSUME NEW p \in Nat, NEW e \in Nat, NEW d \in Nat, NEW left \in Nat,
         e <= left + 1, p <= e + d
  PROVE  p <= left + (d + 1)
  OBVIOUS

\* A worker that ends by itself or on a packet; with the balance of the packets kept.
LEMMA WorkerEnds ==
  ASSUME IInv, NEW w \in Live, wpc[w] # "callback", wpc' = [wpc EXCEPT ![w] = "dead"],
         exits \in Nat, exits' \in Nat, exits <= exits' + 1,
         UNCHANGED <<opc, posted, wop, port, event, op, faults>>,
         opc \in {"create", "up"} => port # "open",
         faults = {}
  PROVE  IInv' /\ PoolStep
  <1> USE DEF IInv
  <1>1. TypeOK' /\ w \in Workers /\ wpc[w] # "dead"
    BY DEF TypeOK, Live
  <1>2. Live' = Live \ {w} /\ Calling' = Calling /\ (AllWaitedFor' <=> AllWaitedFor)
    BY <1>1 DEF Live, Calling, AllWaitedFor, TypeOK
  <1>3. Cardinality(Dead') = Cardinality(Dead) + 1
    BY <1>1, DeadPlusOne
  <1>4. Accounted'
    <2>1. posted \in Nat /\ posted' = posted /\ opc' = opc /\ port' = port
      BY NType DEF TypeOK
    <2>2. posted <= exits + Cardinality(Dead) => posted <= exits' + Cardinality(Dead')
      BY <1>3, <2>1, DeadType, Balance
    <2> QED
      BY <2>1, <2>2 DEF Accounted
  <1>5. Fresh' /\ Drained' /\ NoFault'
    BY <1>2 DEF Fresh, Drained, NoFault
  <1>6. PoolStep
    BY <1>1, <1>2 DEF PoolStep, Pool!PoolNext, Pool!Leave, Calling
  <1> QED
    BY <1>1, <1>4, <1>5, <1>6

\* A worker that goes on, in or out of a callback.
LEMMA WorkerGoesOn ==
  ASSUME IInv, NEW w \in Live, NEW next \in {"check", "wait", "callback"},
         wpc' = [wpc EXCEPT ![w] = next],
         TypeOK', UNCHANGED <<opc, posted, exits, port, event, faults>>, faults = {}
  PROVE  IInv' /\ PoolStep
  <1> USE DEF IInv
  <1>1. w \in Workers /\ (opc \notin {"down", "deleted"} \/ ~AllWaitedFor)
    BY DEF Live, Drained
  <1>2. Live' = Live /\ Dead' = Dead /\ (AllWaitedFor' <=> AllWaitedFor)
    BY DEF Live, Dead, AllWaitedFor, TypeOK
  <1>3. Fresh' /\ Drained' /\ Accounted' /\ NoFault'
    BY <1>2 DEF Fresh, Drained, Accounted, NoFault
  <1>4. Calling' = IF next = "callback" THEN Calling \cup {w} ELSE Calling \ {w}
    BY DEF Calling, Live, TypeOK
  <1>5. PoolStep
    BY <1>1, <1>2, <1>4 DEF PoolStep, Pool!PoolNext, Pool!Begin, Pool!Finish, Pool!poolVars,
                            TypeOK, Live
  <1> QED
    BY <1>3, <1>5

LEMMA WorkerStepHolds == ASSUME IInv, NEW w \in Workers, WorkerStep(w) PROVE IInv' /\ PoolStep
  <1> USE DEF IInv
  <1>1. CASE CheckEvent(w)
    <2> USE <1>1 DEF CheckEvent
    <2>1. w \in Live /\ faults = {}
      BY DEF Live, Defined
    <2>2. CASE opc = "deleted"
      <3>1. ~AllWaitedFor /\ UNCHANGED <<opc, posted, exits, wpc, wop, port, event, op>>
        BY <2>1, <2>2 DEF Drained
      <3>2. Live' = Live /\ Dead' = Dead /\ ~AllWaitedFor'
        BY <3>1 DEF Live, Dead, AllWaitedFor
      <3> QED
        BY <2>2, <3>1, <3>2 DEF TypeOK, Fresh, Drained, Accounted, NoFault, PoolStep
    <2>3. CASE opc # "deleted" /\ LoopRuns
      <3>1. wpc' = [wpc EXCEPT ![w] = "wait"] /\ TypeOK'
        BY <2>3 DEF TypeOK
      <3> QED
        BY <2>1, <2>3, <3>1, WorkerGoesOn
    <2>4. CASE opc # "deleted" /\ ~LoopRuns
      <3>1. wpc' = [wpc EXCEPT ![w] = "dead"] /\ opc \notin {"create", "up"}
        BY <2>4 DEF LoopRuns, Fresh
      <3>2. exits \in Nat /\ exits' \in Nat /\ exits <= exits' + 1
        BY DEF TypeOK
      <3> QED
        BY <2>1, <2>4, <3>1, <3>2, WorkerEnds
    <2> QED
      BY <2>2, <2>3, <2>4
  <1>2. CASE TakeExitPacket(w)
    <2> USE <1>2 DEF TakeExitPacket
    <2>1. w \in Live /\ faults = {} /\ wpc[w] # "callback"
      BY DEF Live, Defined
    <2>2. exits \in Nat /\ exits' \in Nat /\ exits <= exits' + 1
      BY DEF TypeOK
    <2>3. opc \in {"create", "up"} => port # "open"
      BY DEF Fresh
    <2> QED
      BY <2>1, <2>2, <2>3, WorkerEnds
  <1>3. CASE PortGone(w)
    <2> USE <1>3 DEF PortGone
    <2>1. w \in Live /\ faults = {} /\ wpc[w] # "callback"
      BY DEF Live, Defined
    <2>2. exits \in Nat /\ exits' \in Nat /\ exits <= exits' + 1
      BY DEF TypeOK
    <2> QED
      BY <2>1, <2>2, WorkerEnds
  <1>4. ASSUME NEW o \in Ops, TakeCompletion(w, o) PROVE IInv' /\ PoolStep
    <2> USE <1>4 DEF TakeCompletion
    <2>1. w \in Live /\ faults = {}
      BY DEF Live, Defined
    <2>2. TypeOK'
      BY DEF TypeOK, AfterZeroKey
    <2>3. \E next \in {"check", "wait", "callback"} : wpc' = [wpc EXCEPT ![w] = next]
      BY DEF AfterZeroKey
    <2> QED
      BY <2>1, <2>2, <2>3, WorkerGoesOn
  <1>5. CASE CallbackReturns(w)
    <2> USE <1>5 DEF CallbackReturns
    <2>1. w \in Live /\ faults = {}
      BY DEF Live, Defined
    <2>2. TypeOK'
      BY DEF TypeOK
    <2> QED
      BY <2>1, <2>2, WorkerGoesOn
  <1> QED
    BY <1>1, <1>2, <1>3, <1>4, <1>5 DEF WorkerStep

-----------------------------------------------------------------------------
\* Every step preserves the invariant and maps to a step of the pool or none.
LEMMA NextIInv == IInv /\ [Next]_vars => IInv' /\ PoolStep
  <1> SUFFICES ASSUME IInv, [Next]_vars PROVE IInv' /\ PoolStep
    OBVIOUS
  <1>1. CASE UNCHANGED vars
    <2>1. /\ Live' = Live /\ Dead' = Dead /\ Calling' = Calling
          /\ (AllWaitedFor' <=> AllWaitedFor)
      BY <1>1 DEF vars, Live, Dead, Calling, AllWaitedFor
    <2> QED
      BY <1>1, <2>1 DEF vars, IInv, TypeOK, Fresh, Drained, Accounted, NoFault, PoolStep,
                        Pool!poolVars
  <1> QED
    BY <1>1, StartStep, CreateStep, OwnerStepHolds, UserStep, WorkerStepHolds
       DEF Next, OwnerStep

\* The variables keep their types, whichever calls of start() fail, over restarts and
\* over shutdown() called again with at most N exit packets left in the port.
THEOREM TypeCorrect == Spec => []TypeOK
  <1>1. IInv => TypeOK
    BY DEF IInv
  <1> QED
    BY <1>1, InitIInv, NextIInv, PTL DEF Spec

\* While shutdown() waits there is an exit packet for every worker still running, also
\* when it is called again and when workers have left on the event.
THEOREM EnoughExitPackets == Spec => []ExitPacketsSuffice
  <1>1. IInv => ExitPacketsSuffice
    BY LiveAndDead, DeadType, NType DEF IInv, TypeOK, Accounted, ExitPacketsSuffice
  <1> QED
    BY <1>1, InitIInv, NextIInv, PTL DEF Spec

\* If shutdown() can wait for the workers, none of them uses the deleted object.
THEOREM NeverFaults == Spec => []NoFault
  <1>1. IInv => NoFault
    BY DEF IInv
  <1> QED
    BY <1>1, InitIInv, NextIInv, PTL DEF Spec

\* Between start() and shutdown() no worker ends.
THEOREM KeepsWorkers == Spec => []WorkersKept
  <1>1. IInv => WorkersKept
    BY DEF IInv, Fresh, WorkersKept, Dead
  <1> QED
    BY <1>1, InitIInv, NextIInv, PTL DEF Spec

\* If shutdown() can wait for the workers, the object is a pool whose callbacks have
\* all returned when shutdown() does.
THEOREM IsPool == Spec => PoolSteps
  <1>1. IInv /\ [Next]_vars => [PoolStep]_vars
    BY NextIInv
  <1>2. IInv /\ [Next]_vars => [AllWaitedFor => Pool!PoolNext \/ UNCHANGED Pool!poolVars]_vars
    BY <1>1 DEF PoolStep
  <1> QED
    BY <1>2, InitIInv, NextIInv, PTL DEF Spec, PoolSteps

-----------------------------------------------------------------------------
(* The mutex of io_mutex.cpp with its objects.                             *)

Counted == count = Cardinality(Inside)
OwnersOnly == \A o \in Inside : user[o] = owner
FreeAtZero == owner = None <=> count = 0

MutexInv == MutexTypeOK /\ Counted /\ OwnersOnly /\ FreeAtZero

(* The objects inside are finitely many, and none if their number is zero. *)
LEMMA InsideFinite ==
  ASSUME MutexTypeOK
  PROVE  /\ IsFiniteSet(Inside) /\ Cardinality(Inside) \in Nat
         /\ Cardinality(Inside) = 0 <=> Inside = {}
<1>1. IsFiniteSet(Inside)
  BY ObjectAssumption, FS_Subset DEF Inside
<1> QED
  BY <1>1, FS_CardinalityType, FS_EmptySet

(* An object that was not in is let in with its thread. *)
LEMMA EnterPreserves ==
  ASSUME MutexInv, NEW o \in Object, NEW t \in Thread,
         state[o] # "in", Open(t), Enter(t), user'[o] = t,
         state' = [state EXCEPT ![o] = "in"],
         \A p \in Object : p # o => user'[p] = user[p],
         MutexTypeOK'
  PROVE  MutexInv'
<1>1. Inside' = Inside \cup {o} /\ o \notin Inside
  BY DEF MutexInv, MutexTypeOK, Inside
<1>2. Cardinality(Inside') = Cardinality(Inside) + 1
  BY <1>1, InsideFinite, FS_AddElement DEF MutexInv
<1>3. Counted'
  BY <1>2 DEF MutexInv, Counted, Enter
<1>4. owner = None \/ owner = t
  BY DEF Open
<1>5. OwnersOnly'
  <2> SUFFICES ASSUME NEW p \in Inside', p # o
               PROVE  user'[p] = t
    BY DEF OwnersOnly, Enter
  <2>1. p \in Inside /\ p \in Object
    BY <1>1 DEF Inside
  <2>2. count # 0
    BY <2>1, InsideFinite DEF MutexInv, Counted
  <2> QED
    BY <1>4, <2>1, <2>2 DEF MutexInv, OwnersOnly, FreeAtZero
<1>6. FreeAtZero'
  BY NoneAssumption DEF MutexInv, MutexTypeOK, FreeAtZero, Enter
<1> QED
  BY <1>3, <1>5, <1>6 DEF MutexInv

(* A step that lets nobody in or out changes nothing that counts. *)
LEMMA QuietPreserves ==
  ASSUME MutexInv, MutexTypeOK', Inside' = Inside, UNCHANGED <<owner, count>>,
         \A p \in Inside : user'[p] = user[p]
  PROVE  MutexInv'
BY DEF MutexInv, Counted, OwnersOnly, FreeAtZero

(* MutexInit establishes the invariant: nobody is inside. *)
LEMMA MutexInitInv == MutexInit => MutexInv
<1> SUFFICES ASSUME MutexInit PROVE MutexInv
  OBVIOUS
<1>1. MutexTypeOK
  BY DEF MutexInit, MutexTypeOK
<1>2. Inside = {}
  BY DEF MutexInit, Inside
<1> QED
  BY <1>1, <1>2, FS_EmptySet DEF MutexInit, MutexInv, Counted, OwnersOnly, FreeAtZero

(* Every operation of the objects preserves the invariant. *)
LEMMA MutexNextInv == MutexInv /\ [MutexNext]_mutexVars => MutexInv'
<1> SUFFICES ASSUME MutexInv, [MutexNext]_mutexVars PROVE MutexInv'
  OBVIOUS
<1> USE DEF MutexInv
<1>1. ASSUME NEW t \in Thread, NEW o \in Object, io_lock(t, o)
      PROVE  MutexInv'
  <2>1. MutexTypeOK'
    BY <1>1 DEF io_lock, Make, MutexTypeOK
  <2>2. Inside' = Inside /\ \A p \in Inside : user'[p] = user[p]
    BY <1>1 DEF io_lock, Make, MutexTypeOK, Inside
  <2> QED
    BY <1>1, <2>1, <2>2, QuietPreserves DEF io_lock
<1>2. ASSUME NEW t \in Thread, NEW o \in Object, io_trylock(t, o)
      PROVE  MutexInv'
  <2>1. MutexTypeOK'
    BY <1>2 DEF io_trylock, Make, Enter, MutexTypeOK
  <2>2. CASE Open(t) /\ Make(t, o, "io_trylock", "in") /\ Enter(t)
    <3>1. user'[o] = t /\ \A p \in Object : p # o => user'[p] = user[p]
      BY <2>2 DEF Make, MutexTypeOK
    <3> QED
      BY <2>1, <2>2, <3>1, EnterPreserves DEF Make
  <2>3. CASE Make(t, o, "io_trylock", "out") /\ UNCHANGED <<owner, count>>
    <3>1. Inside' = Inside /\ \A p \in Inside : user'[p] = user[p]
      BY <2>3 DEF Make, MutexTypeOK, Inside
    <3> QED
      BY <2>1, <2>3, <3>1, QuietPreserves
  <2> QED
    BY <1>2, <2>2, <2>3 DEF io_trylock
<1>3. ASSUME NEW o \in Object, enter(o)
      PROVE  MutexInv'
  <2>1. MutexTypeOK' /\ user[o] \in Thread
    BY <1>3 DEF enter, Enter, MutexTypeOK
  <2> QED
    BY <1>3, <2>1, EnterPreserves DEF enter
<1>4. ASSUME NEW o \in Object, try_again(o)
      PROVE  MutexInv'
  <2>1. MutexTypeOK' /\ user[o] \in Thread
    BY <1>4 DEF try_again, Tries, Enter, MutexTypeOK
  <2> QED
    BY <1>4, <2>1, EnterPreserves DEF try_again, Tries
<1>5. ASSUME NEW o \in Object, Destroy(o)
      PROVE  MutexInv'
  <2>1. CASE Leaves(o)
    <3>1. o \in Inside /\ Inside' = Inside \ {o}
      BY <1>5, <2>1 DEF Destroy, Leaves, MutexTypeOK, Inside
    <3>2. Cardinality(Inside') = Cardinality(Inside) - 1
      BY <3>1, InsideFinite, FS_RemoveElement
    <3>3. count \in Nat \ {0} /\ count' = count - 1
      BY <1>5, <2>1, <3>1, InsideFinite DEF Counted, Destroy, Exit
    <3>4. MutexTypeOK'
      BY <1>5, <2>1, <3>3 DEF Destroy, Exit, MutexTypeOK
    <3>5. owner' = (IF count' = 0 THEN None ELSE owner)
      BY <1>5, <2>1, <3>3 DEF Destroy, Exit
    <3>6. Counted' /\ FreeAtZero'
      BY <3>2, <3>3, <3>5 DEF Counted, FreeAtZero
    <3>7. OwnersOnly'
      <4> SUFFICES ASSUME NEW p \in Inside' PROVE user'[p] = owner'
        BY DEF OwnersOnly
      <4>1. count' # 0
        BY <3>4, <3>6, InsideFinite, <3>1, FS_RemoveElement, FS_EmptySet, <3>2, FS_Subset
           DEF Counted
      <4> QED
        BY <1>5, <3>1, <3>5, <4>1 DEF OwnersOnly, Destroy
    <3> QED
      BY <3>4, <3>6, <3>7
  <2>2. CASE ~Leaves(o)
    <3>1. MutexTypeOK' /\ Inside' = Inside /\ UNCHANGED <<owner, count>>
      BY <1>5, <2>2 DEF Destroy, Leaves, MutexTypeOK, Inside
    <3> QED
      BY <1>5, <3>1, QuietPreserves DEF Destroy
  <2> QED
    BY <2>1, <2>2
<1>6. CASE UNCHANGED mutexVars
  <2>1. MutexTypeOK' /\ Inside' = Inside
    BY <1>6 DEF mutexVars, MutexTypeOK, Inside
  <2> QED
    BY <1>6, <2>1, QuietPreserves DEF mutexVars
<1> QED
  BY <1>1, <1>2, <1>3, <1>4, <1>5, <1>6 DEF MutexNext

(* The invariant implies the two properties. *)
LEMMA MutexInvImplies == MutexInv => MutexTypeOK /\ MutualExclusion /\ FreeWhenLeft
<1> SUFFICES ASSUME MutexInv PROVE MutualExclusion /\ FreeWhenLeft
  BY DEF MutexInv
<1>1. MutualExclusion
  BY DEF MutexInv, OwnersOnly, MutualExclusion
<1>2. FreeWhenLeft
  BY InsideFinite DEF MutexInv, Counted, FreeAtZero, FreeWhenLeft
<1> QED
  BY <1>1, <1>2

(* The variables keep their types. *)
THEOREM MutexTypeCorrect == MutexSpec => []MutexTypeOK
<1>1. MutexInv => MutexTypeOK
  BY MutexInvImplies
<1> QED
  BY <1>1, MutexInitInv, MutexNextInv, PTL DEF MutexSpec

(* Of all threads that use io_lock and io_trylock objects on one io_mutex,  *)
(* one at most is in.                                                       *)
THEOREM MutexExcludes == MutexSpec => []MutualExclusion
<1>1. MutexInv => MutualExclusion
  BY MutexInvImplies
<1> QED
  BY <1>1, MutexInitInv, MutexNextInv, PTL DEF MutexSpec

(* The io_mutex is free exactly when no object has entered it and not left. *)
THEOREM MutexFreed == MutexSpec => []FreeWhenLeft
<1>1. MutexInv => FreeWhenLeft
  BY MutexInvImplies
<1> QED
  BY <1>1, MutexInitInv, MutexNextInv, PTL DEF MutexSpec
==============================================================================
