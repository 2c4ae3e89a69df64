------------------------------ MODULE CIocpProof ------------------------------
(***************************************************************************)
(* Proofs about CIocp, for any number of workers and operations, any       *)
(* failures and any number of rounds of Start() and Stop(): types, exit    *)
(* packets, the absence of faults and the workers that are kept.           *)
(*                                                                         *)
(* What the owner holds depends on where it is (Held).  A worker that ends *)
(* takes at most one exit packet with it, so packets and ended workers     *)
(* account for what Stop() has posted (Accounted).  A round begins without *)
(* packets, completions or ended workers, so that until the next Stop()    *)
(* the ended workers are those that took a packet with the key 0 (Kept).   *)
(***************************************************************************)
EXTENDS CIocp, FiniteSetTheorems, TLAPS

Dead == {w \in Workers : wpc[w] = "dead"}
Lost == {o \in ZeroKeyOps : op[o] = "lost"}

\* The points of the owner with a port and an array of handles.
Holding == {"create", "up", "post", "wait", "deinit1", "deinit2"}

Held ==
  /\ port = "open" <=> opc \in Holding
  /\ handles <=> opc \in Holding
  /\ opc \in Holding \cup {"port", "failed"} /\ opc # "deinit2" => cs = "live"
  /\ cs = "deleted" <=> opc \in {"deinit2", "down"}
  /\ opc \in {"port", "create", "up"} => event # "set"

Idle == opc \in {"new", "port", "failed"} => Live = {}
Drained == opc \in {"deinit1", "deinit2", "down"} /\ AllWaitedFor => Live = {}

Accounted ==
  /\ exits <= posted
  /\ opc \notin {"post", "wait", "deinit1", "deinit2"} => exits = 0
  /\ opc \in {"post", "wait"} => posted <= exits + Cardinality(Dead)
  /\ opc = "wait" => posted = N

CallsBack == \A w \in Workers : wpc[w] = "callback" => wop[w] \in Ops \ ZeroKeyOps
Stale == port = "null" => \A o \in Ops : op[o] \notin {"completed", "lost"}
Kept == opc \in {"create", "up"} => Cardinality(Dead) = Cardinality(Lost)

IInv == /\ TypeOK /\ Held /\ Idle /\ Drained /\ Accounted
        /\ CallsBack /\ Stale /\ Kept /\ NoFault

-----------------------------------------------------------------------------
\* The number of workers is a positive number.
LEMMA NType == N \in Nat /\ N > 0
  BY WorkersAssumption, FS_CardinalityType, FS_EmptySet DEF N

\* Ended workers and lost operations are finitely many.
LEMMA DeadType == IsFiniteSet(Dead) /\ Cardinality(Dead) \in Nat
  <1>1. Dead \subseteq Workers
    BY DEF Dead
  <1> QED
    BY <1>1, WorkersAssumption, FS_Subset, FS_CardinalityType

LEMMA LostType == IsFiniteSet(Lost) /\ Cardinality(Lost) \in Nat
  <1>1. Lost \subseteq Ops
    BY OpsAssumption DEF Lost
  <1> QED
    BY <1>1, OpsAssumption, FS_Subset, FS_CardinalityType

\* A worker that ends adds one to the ended ones.
LEMMA DeadPlusOne ==
  ASSUME NEW w \in Workers, wpc \in [Workers -> WorkerPoints], wpc[w] # "dead",
         wpc' = [wpc EXCEPT ![w] = "dead"]
  PROVE  Cardinality(Dead') = Cardinality(Dead) + 1
  <1>1. Dead' = Dead \cup {w} /\ w \notin Dead
    BY DEF Dead
  <1> QED
    BY <1>1, DeadType, FS_AddElement

\* Live and ended workers are different ones, so there are at most N of both.
LEMMA LiveAndDead ==
  /\ Cardinality(Live) \in Nat
  /\ Cardinality(Live) + Cardinality(Dead) <= N
  <1>1. Live \subseteq Workers /\ Dead \subseteq Workers /\ Live \cap Dead = {}
    BY DEF Live, Dead
  <1>2. IsFiniteSet(Live) /\ IsFiniteSet(Dead)
    BY <1>1, WorkersAssumption, FS_Subset
  <1>3. Cardinality(Live \cup Dead)
          = Cardinality(Live) + Cardinality(Dead) - Cardinality(Live \cap Dead)
    BY <1>2, FS_Union
  <1>4. Cardinality(Live \cup Dead) <= Cardinality(Workers)
    BY <1>1, WorkersAssumption, FS_Subset
  <1>5. Cardinality(Live \cap Dead) = 0
    BY <1>1, FS_EmptySet
  <1>6. /\ Cardinality(Live) \in Nat /\ Cardinality(Dead) \in Nat
        /\ Cardinality(Workers) \in Nat /\ Cardinality(Live \cup Dead) \in Nat
    BY <1>1, <1>2, WorkersAssumption, FS_CardinalityType, FS_Union
  <1> QED
    BY <1>3, <1>4, <1>5, <1>6 DEF N

\* Steps that change none of the workers change none of the sets of workers.
LEMMA SameWorkers ==
  ASSUME wpc' = wpc
  PROVE  Live' = Live /\ Dead' = Dead /\ (AllWaitedFor' <=> AllWaitedFor)
  BY DEF Live, Dead, AllWaitedFor

-----------------------------------------------------------------------------
\* The initial states satisfy the invariant.
LEMMA InitIInv == Init => IInv
  <1> SUFFICES ASSUME Init PROVE IInv
    OBVIOUS
  <1>1. TypeOK
    <2>1. posted \in 0 .. N /\ exits \in 0 .. N
      BY NType DEF Init
    <2>2. /\ wpc \in [Workers -> WorkerPoints] /\ wkey \in [Workers -> BOOLEAN]
          /\ wop \in [Workers -> Ops \cup {NoOp}]
      BY DEF Init, WorkerPoints
    <2> QED
      BY <2>1, <2>2 DEF Init, TypeOK
  <1>2. Live = {}
    BY DEF Init, Live
  <1> QED
    BY <1>1, <1>2
       DEF Init, IInv, Held, Holding, Idle, Drained, Accounted, CallsBack, Stale, Kept, NoFault

-----------------------------------------------------------------------------
\* The owner's steps.  None but CreatePort and CreateWorker changes a worker.
Owner == StartBegin \/ Started \/ StopBegin \/ PostExitPacket \/ ExitPacketsPosted
           \/ WaitWorkers \/ DeleteLocks

LEMMA OwnerIInv == ASSUME IInv, Owner PROVE IInv'
  <1> USE DEF IInv, Owner, workerVars, ownedVars
  <1>1. wpc' = wpc /\ wop' = wop /\ op' = op
    BY DEF StartBegin, Started, StopBegin, PostExitPacket, ExitPacketsPosted, WaitWorkers,
           DeleteLocks
  <1>2. Live' = Live /\ Dead' = Dead /\ Lost' = Lost /\ (AllWaitedFor' <=> AllWaitedFor)
    BY <1>1, SameWorkers DEF Lost
  <1>3. TypeOK'
    <2>1. posted' \in 0 .. N /\ exits' \in 0 .. N
      BY NType DEF TypeOK, Accounted, StartBegin, Started, StopBegin, PostExitPacket,
                   ExitPacketsDue, ExitPacketsPosted, WaitWorkers, DeleteLocks
    <2>2. bStart' \in BOOLEAN /\ handles' \in BOOLEAN
      BY Zenon DEF TypeOK, StartBegin, Started, StopBegin, PostExitPacket, ExitPacketsPosted,
                   WaitWorkers, DeleteLocks
    <2>3. wkey' = wkey
      BY DEF StartBegin, Started, StopBegin, PostExitPacket, ExitPacketsPosted, WaitWorkers,
             DeleteLocks
    <2>4. event' \in {"null", "clear", "set"} /\ port' \in {"null", "open"}
      BY DEF TypeOK, Outcomes, StartBegin, Started, StopBegin, PostExitPacket,
             ExitPacketsPosted, WaitWorkers, DeleteLocks
    <2>5. /\ cs' \in {"none", "live", "deleted"} /\ faults' \subseteq {"nullptr", "badlock"}
          /\ opc' \in {"new", "port", "create", "failed", "up", "post", "wait",
                       "deinit1", "deinit2", "down"}
      BY DEF TypeOK, StartBegin, Started, StopBegin, PostExitPacket, ExitPacketsPosted,
             WaitWorkers, DeleteLocks
    <2> QED
      BY <1>1, <2>1, <2>2, <2>3, <2>4, <2>5 DEF TypeOK
  <1>4. Held'
    BY DEF TypeOK, Held, Holding, StartBegin, Started, StopBegin, PostExitPacket,
           ExitPacketsPosted, WaitWorkers, DeleteLocks
  <1>5. Idle' /\ Drained'
    <2>1. CASE WaitWorkers
      <3>1. AllWaitedFor => Live = {}
        BY <2>1, NType, MaxWaitAssumption
           DEF WaitWorkers, WaitOver, WaitRefused, AllWaitedFor, Held, Holding
      <3> QED
        BY <1>2, <2>1, <3>1 DEF WaitWorkers, Idle, Drained
    <2> QED
      BY <1>2, <2>1 DEF Idle, Drained, StartBegin, Started, StopBegin, PostExitPacket,
                        ExitPacketsPosted, DeleteLocks
  <1>6. Accounted'
    BY <1>2, NType, DeadType
       DEF TypeOK, Accounted, Held, Holding, StartBegin, Started, StopBegin, PostExitPacket,
           ExitPacketsDue, ExitPacketsPosted, WaitWorkers, DeleteLocks
  <1>7. CallsBack' /\ Stale' /\ Kept'
    BY <1>1, <1>2 DEF CallsBack, Stale, Kept, StartBegin, Started, StopBegin, PostExitPacket,
           ExitPacketsPosted, WaitWorkers, DeleteLocks
  <1>8. NoFault'
    BY <1>2 DEF Held, Holding, NoFault, StartBegin, Started, StopBegin, PostExitPacket,
           ExitPacketsPosted, WaitWorkers, DeleteLocks
  <1> QED
    BY <1>3, <1>4, <1>5, <1>6, <1>7, <1>8

LEMMA CreatePortIInv == ASSUME IInv, CreatePort PROVE IInv'
  <1> USE DEF IInv, CreatePort
  <1>1. TypeOK'
    BY DEF TypeOK, WorkerPoints, Outcomes
  <1>2. Live' = {} /\ Dead' = {} /\ faults' = {}
    BY DEF Live, Dead, Defined
  <1>3. Lost = {} /\ Lost' = Lost
    BY OpsAssumption DEF Lost, Stale, Held, Holding, TypeOK
  <1>4. Held' /\ Idle' /\ Drained' /\ NoFault'
    BY <1>2 DEF Held, Holding, Idle, Drained, NoFault, Outcomes
  <1>5. Accounted'
    BY <1>2, NType DEF Accounted, Outcomes, TypeOK
  <1>6. CallsBack' /\ Stale'
    BY DEF CallsBack, Stale, Held, Holding, TypeOK
  <1>7. Kept'
    BY <1>2, <1>3 DEF Kept
  <1> QED
    BY <1>1, <1>4, <1>5, <1>6, <1>7

LEMMA CreateWorkerIInv == ASSUME IInv, NEW w \in Workers, CreateWorker(w) PROVE IInv'
  <1> USE DEF IInv, CreateWorker, ownedVars
  <1>1. TypeOK'
    BY DEF TypeOK, WorkerPoints, Outcomes
  <1>2. Dead' = Dead /\ Lost' = Lost /\ faults' = {}
    BY DEF Dead, Lost, Defined, TypeOK, Outcomes
  <1>3. Held' /\ Idle' /\ Drained' /\ NoFault'
    BY <1>2 DEF Held, Holding, Idle, Drained, NoFault
  <1>4. Accounted'
    BY <1>2 DEF Accounted
  <1>5. CallsBack' /\ Stale' /\ Kept'
    BY <1>2 DEF CallsBack, Stale, Kept, TypeOK, Outcomes
  <1> QED
    BY <1>1, <1>3, <1>4, <1>5

LEMMA ClosePortIInv == ASSUME IInv, ClosePort PROVE IInv'
  <1> USE DEF IInv, ClosePort, workerVars
  <1>1. Live' = Live /\ Dead' = Dead /\ (AllWaitedFor' <=> AllWaitedFor)
    BY SameWorkers
  <1>2. TypeOK'
    <2>1. exits' \in 0 .. N
      BY NType
    <2>2. op' \in [Ops -> {"none", "ready", "submitted", "completed", "running", "lost"}]
      BY DEF TypeOK
    <2>3. handles' \in BOOLEAN /\ bStart' \in BOOLEAN
      BY Zenon DEF TypeOK
    <2> QED
      BY <2>1, <2>2, <2>3 DEF TypeOK
  <1>3. faults' = faults
    BY DEF Held, Holding
  <1>4. Held' /\ Idle' /\ Drained' /\ NoFault'
    BY <1>1, <1>3 DEF Held, Holding, Idle, Drained, NoFault
  <1>5. Accounted' /\ Kept'
    BY DEF Accounted, Kept, TypeOK
  <1>6. CallsBack' /\ Stale'
    BY DEF CallsBack, Stale
  <1> QED
    BY <1>2, <1>4, <1>5, <1>6

\* The user's steps, which make and lose no operation with the key 0.
LEMMA UserIInv ==
  ASSUME IInv, NEW o \in Ops, Associate(o) \/ Submit(o) \/ Complete(o)
  PROVE  IInv'
  <1> USE DEF IInv, Associate, Submit, Complete, workerVars, ownedVars
  <1>1. Live' = Live /\ Dead' = Dead /\ (AllWaitedFor' <=> AllWaitedFor)
    BY SameWorkers
  <1>2. Lost' = Lost
    BY OpsAssumption DEF Lost, TypeOK
  <1>3. TypeOK'
    BY DEF TypeOK
  <1>4. Held' /\ Idle' /\ Drained' /\ Accounted' /\ Kept' /\ NoFault' /\ CallsBack'
    BY <1>1, <1>2 DEF Held, Idle, Drained, Accounted, Kept, NoFault, CallsBack
  <1>5. Stale'
    BY DEF Stale, Held, Holding, TypeOK
  <1> QED
    BY <1>3, <1>4, <1>5

-----------------------------------------------------------------------------
\* The steps of a worker.
LEMMA WorkerIInv == ASSUME IInv, NEW w \in Workers, WorkerStep(w) PROVE IInv'
  <1> USE DEF IInv, workerVars, ownedVars
  <1>1. CASE CheckEvent(w)
    <2> USE <1>1 DEF CheckEvent
    <2>1. TypeOK' /\ Lost' = Lost
      BY DEF TypeOK, WorkerPoints, Lost
    <2>2. /\ Live' \subseteq Live /\ (AllWaitedFor' <=> AllWaitedFor)
          /\ opc \in {"create", "up"} => Dead' = Dead
      BY DEF Live, Dead, AllWaitedFor, LoopRuns, TypeOK, Held
    <2>3. Cardinality(Dead') \in Nat /\ Cardinality(Dead') >= Cardinality(Dead)
      <3>1. CASE LoopRuns
        <4>1. Dead' = Dead
          BY <3>1 DEF Dead, TypeOK
        <4> QED
          BY <4>1, DeadType
      <3>2. CASE ~LoopRuns
        <4>1. wpc' = [wpc EXCEPT ![w] = "dead"] /\ wpc[w] # "dead"
          BY <3>2
        <4>2. Cardinality(Dead') = Cardinality(Dead) + 1
          BY <4>1, DeadPlusOne DEF TypeOK
        <4> QED
          BY <4>2, DeadType
      <3> QED
        BY <3>1, <3>2
    <2>4. Accounted'
      BY <2>3, DeadType, NType DEF Accounted, TypeOK
    <2>5. Held' /\ Idle' /\ Drained' /\ NoFault' /\ Kept'
      BY <2>1, <2>2 DEF Held, Idle, Drained, NoFault, Kept
    <2>6. CallsBack' /\ Stale'
      BY DEF CallsBack, Stale, TypeOK
    <2> QED
      BY <2>1, <2>4, <2>5, <2>6
  <1>2. CASE TakeExitPacket(w)
    <2> USE <1>2 DEF TakeExitPacket
    <2>1. TypeOK' /\ Lost' = Lost
      BY NType DEF TypeOK, WorkerPoints, Lost
    <2>2. Live' \subseteq Live /\ (AllWaitedFor' <=> AllWaitedFor)
      BY DEF Live, AllWaitedFor, TypeOK
    <2>3. Cardinality(Dead') = Cardinality(Dead) + 1
      BY DeadPlusOne DEF TypeOK
    <2>4. Accounted'
      BY <2>3, DeadType, NType DEF Accounted, TypeOK
    <2>5. Held' /\ Idle' /\ Drained' /\ NoFault' /\ Kept'
      BY <2>2 DEF Held, Idle, Drained, NoFault, Kept, Accounted, TypeOK
    <2>6. CallsBack' /\ Stale'
      BY DEF CallsBack, Stale, TypeOK
    <2> QED
      BY <2>1, <2>4, <2>5, <2>6
  <1>3. CASE PortGone(w)
    <2> USE <1>3 DEF PortGone
    <2>1. TypeOK' /\ w \in Live
      BY DEF TypeOK, WorkerPoints, Live
    <2>2. Live' \subseteq Live /\ (AllWaitedFor' <=> AllWaitedFor)
      BY DEF Live, AllWaitedFor, TypeOK
    <2>3. opc = "down" /\ ~AllWaitedFor
      BY <2>1 DEF Held, Holding, Idle, Drained, TypeOK
    <2>4. Held' /\ Idle' /\ Drained' /\ NoFault' /\ Kept' /\ Accounted'
      BY <2>2, <2>3 DEF Held, Idle, Drained, NoFault, Kept, Accounted
    <2>5. CallsBack' /\ Stale'
      BY DEF CallsBack, Stale, TypeOK
    <2> QED
      BY <2>1, <2>4, <2>5
  <1>4. ASSUME NEW o \in Ops, TakeCompletion(w, o) PROVE IInv'
    <2>1. PICK ok \in BOOLEAN :
            IF CalledBack(o, ok)
              THEN /\ wpc' = [wpc EXCEPT ![w] = "callback"]
                   /\ wop' = [wop EXCEPT ![w] = o]
                   /\ op' = [op EXCEPT ![o] = "running"]
              ELSE /\ wpc' = [wpc EXCEPT ![w] = "dead"]
                   /\ op' = [op EXCEPT ![o] = "lost"]
                   /\ UNCHANGED wop
      BY <1>4 DEF TakeCompletion
    <2>2. /\ wpc[w] = "wait" /\ op[o] = "completed" /\ port = "open"
          /\ wkey' = [wkey EXCEPT ![w] = o \notin ZeroKeyOps]
          /\ UNCHANGED <<opc, posted, exits, event, cs, port, handles, bStart, faults>>
      BY <1>4 DEF TakeCompletion, Stale, TypeOK
    <2>3. CASE CalledBack(o, ok)
      <3> USE <2>1, <2>2, <2>3 DEF CalledBack
      <3>1. TypeOK'
        BY DEF TypeOK, WorkerPoints
      <3>2. /\ Dead' = Dead /\ Live' = Live /\ (AllWaitedFor' <=> AllWaitedFor)
            /\ Lost' = Lost
        <4>1. Lost' = Lost
          BY OpsAssumption DEF Lost, TypeOK
        <4>2. wpc' = [wpc EXCEPT ![w] = "callback"] /\ wpc[w] = "wait"
          OBVIOUS
        <4> QED
          BY <4>1, <4>2 DEF Dead, Live, AllWaitedFor, TypeOK
      <3>3. Held' /\ Idle' /\ Drained' /\ NoFault' /\ Kept' /\ Accounted' /\ Stale'
        BY <3>2 DEF Held, Idle, Drained, NoFault, Kept, Accounted, Stale
      <3>4. CallsBack'
        BY DEF CallsBack, TypeOK
      <3> QED
        BY <3>1, <3>3, <3>4
    <2>4. CASE ~CalledBack(o, ok)
      <3> USE <2>1, <2>2, <2>4 DEF CalledBack
      <3>1. TypeOK'
        BY DEF TypeOK, WorkerPoints
      <3>2. Live' \subseteq Live /\ (AllWaitedFor' <=> AllWaitedFor)
        BY DEF Live, AllWaitedFor, TypeOK
      <3>3. Cardinality(Dead') = Cardinality(Dead) + 1
        BY DeadPlusOne DEF TypeOK
      <3>4. Lost' = Lost \cup {o} /\ o \notin Lost
        BY OpsAssumption DEF Lost, TypeOK
      <3>5. Cardinality(Lost') = Cardinality(Lost) + 1
        BY <3>4, LostType, FS_AddElement
      <3>6. Accounted' /\ Kept'
        BY <3>3, <3>5, DeadType, LostType, NType DEF Accounted, Kept, TypeOK
      <3>7. Held' /\ Idle' /\ Drained' /\ NoFault' /\ Stale'
        BY <3>2 DEF Held, Idle, Drained, NoFault, Stale
      <3>8. CallsBack'
        BY DEF CallsBack, TypeOK
      <3> QED
        BY <3>1, <3>6, <3>7, <3>8
    <2> QED
      BY <2>3, <2>4
  <1>5. CASE CallbackReturns(w)
    <2> USE <1>5 DEF CallbackReturns
    <2>1. TypeOK' /\ wop[w] \in Ops \ ZeroKeyOps
      BY DEF TypeOK, WorkerPoints, CallsBack
    <2>2. Dead' = Dead /\ Live' = Live /\ (AllWaitedFor' <=> AllWaitedFor)
      BY DEF Dead, Live, AllWaitedFor, TypeOK
    <2>3. Lost' = Lost
      BY <2>1, OpsAssumption DEF Lost, TypeOK
    <2>4. Held' /\ Idle' /\ Drained' /\ NoFault' /\ Kept' /\ Accounted'
      BY <2>2, <2>3 DEF Held, Idle, Drained, NoFault, Kept, Accounted
    <2>5. CallsBack' /\ Stale'
      BY DEF CallsBack, Stale, TypeOK
    <2> QED
      BY <2>1, <2>4, <2>5
  <1> QED
    BY <1>1, <1>2, <1>3, <1>4, <1>5 DEF WorkerStep

-----------------------------------------------------------------------------
\* Every step preserves the invariant.
LEMMA NextIInv == IInv /\ [Next]_vars => IInv'
  <1> SUFFICES ASSUME IInv, [Next]_vars PROVE IInv'
    OBVIOUS
  <1>1. CASE UNCHANGED vars
    <2>1. Live' = Live /\ Dead' = Dead /\ Lost' = Lost /\ (AllWaitedFor' <=> AllWaitedFor)
      BY <1>1, SameWorkers DEF vars, workerVars, Lost
    <2> QED
      BY <1>1, <2>1 DEF vars, workerVars, ownedVars, IInv, TypeOK, Held, Idle, Drained,
                        Accounted, CallsBack, Stale, Kept, NoFault
  <1> QED
    BY <1>1, OwnerIInv, CreatePortIInv, CreateWorkerIInv, ClosePortIInv, UserIInv, WorkerIInv
       DEF Next, OwnerStep, StopStep, Owner

-----------------------------------------------------------------------------
(* Each step is a step of the pool or leaves it alone.                     *)

PoolStep == Pool!PoolNext \/ UNCHANGED Pool!poolVars

\* A worker that ends outside a callback leaves the pool.
LEMMA WorkerLeaves ==
  ASSUME TypeOK, NEW w \in Workers, wpc[w] \in {"check", "wait"},
         wpc' = [wpc EXCEPT ![w] = "dead"], opc' = opc, cs' = cs
  PROVE  PoolStep
  <1>1. Live' = Live \ {w} /\ Calling' = Calling /\ w \notin Calling
    BY DEF Live, Calling, TypeOK
  <1> QED
    BY <1>1 DEF PoolStep, Pool!PoolNext, Pool!Leave

\* Steps that change no worker.
LEMMA OwnerPool ==
  ASSUME IInv, AllWaitedFor, Owner \/ ClosePort PROVE PoolStep
  <1> USE DEF IInv, Owner, ownedVars, workerVars
  <1>1. wpc' = wpc
    BY DEF StartBegin, Started, StopBegin, PostExitPacket, ExitPacketsPosted, WaitWorkers,
           DeleteLocks, ClosePort
  <1>2. Live' = Live /\ Calling' = Calling
    BY <1>1 DEF Live, Calling
  <1>3. CASE StartBegin /\ opc = "down"
    BY <1>2, <1>3 DEF StartBegin, Held, PoolStep, Pool!PoolNext, Pool!Reopen
  <1>4. CASE StartBegin /\ opc # "down"
    BY <1>2, <1>4 DEF StartBegin, Held, PoolStep, Pool!poolVars
  <1>5. CASE Started
    BY <1>2, <1>5 DEF Started, Held, PoolStep, Pool!PoolNext, Pool!Open
  <1>6. CASE StopBegin
    BY <1>2, <1>6 DEF StopBegin, Held, PoolStep, Pool!PoolNext, Pool!Drain
  <1>7. CASE PostExitPacket \/ ExitPacketsPosted \/ WaitWorkers \/ ClosePort
    BY <1>2, <1>7 DEF PostExitPacket, ExitPacketsPosted, WaitWorkers, ClosePort, Held, PoolStep,
       Pool!poolVars
  <1>8. CASE DeleteLocks
    BY <1>2, <1>8 DEF DeleteLocks, Held, Drained, PoolStep, Pool!PoolNext, Pool!Release
  <1> QED
    BY <1>3, <1>4, <1>5, <1>6, <1>7, <1>8

LEMMA CreatePool ==
  ASSUME IInv, CreatePort \/ \E w \in Workers : CreateWorker(w) PROVE PoolStep
  <1> USE DEF IInv, ownedVars, workerVars
  <1>1. CASE CreatePort
    <2>1. Live = {} /\ Live' = {}
      BY <1>1 DEF CreatePort, Idle, Live
    <2>2. Calling = {} /\ Calling' = {}
      BY <2>1 DEF Live, Calling
    <2> QED
      BY <1>1, <2>1, <2>2 DEF CreatePort, Held, Outcomes, PoolStep, Pool!poolVars
  <1>2. ASSUME NEW w \in Workers, CreateWorker(w) PROVE PoolStep
    <2>1. Calling' = Calling /\ (Live' = Live \cup {w} \/ Live' = Live)
      BY <1>2 DEF CreateWorker, Calling, Live, TypeOK, Outcomes
    <2> QED
      BY <1>2, <2>1 DEF CreateWorker, Held, PoolStep, Pool!PoolNext, Pool!Spawn, Pool!poolVars
  <1> QED
    BY <1>1, <1>2

LEMMA WorkerPoolSteps ==
  ASSUME IInv, AllWaitedFor, NEW w \in Workers, WorkerStep(w) PROVE PoolStep
  <1> USE DEF IInv, ownedVars, workerVars
  <1>1. CASE CheckEvent(w) /\ LoopRuns
    <2>1. Live' = Live /\ Calling' = Calling
      BY <1>1 DEF CheckEvent, Live, Calling, TypeOK
    <2> QED
      BY <1>1, <2>1 DEF CheckEvent, PoolStep, Pool!poolVars
  <1>2. CASE (CheckEvent(w) /\ ~LoopRuns) \/ TakeExitPacket(w) \/ PortGone(w)
    BY <1>2, WorkerLeaves DEF CheckEvent, TakeExitPacket, PortGone
  <1>3. ASSUME NEW o \in Ops, TakeCompletion(w, o) PROVE PoolStep
    <2>1. wpc[w] = "wait" /\ opc' = opc /\ cs' = cs
      BY <1>3 DEF TakeCompletion
    <2>2. \/ wpc' = [wpc EXCEPT ![w] = "dead"]
          \/ wpc' = [wpc EXCEPT ![w] = "callback"]
      BY <1>3 DEF TakeCompletion
    <2>3. CASE wpc' = [wpc EXCEPT ![w] = "callback"]
      <3>1. Live' = Live /\ Calling' = Calling \cup {w} /\ w \in Live \ Calling
        BY <2>1, <2>3 DEF Live, Calling, TypeOK
      <3>2. cs # "deleted"
        BY <3>1 DEF Held, Drained
      <3> QED
        BY <2>1, <3>1, <3>2 DEF PoolStep, Pool!PoolNext, Pool!Begin
    <2> QED
      BY <2>1, <2>2, <2>3, WorkerLeaves
  <1>4. CASE CallbackReturns(w)
    <2>1. Live' = Live /\ Calling' = Calling \ {w}
      BY <1>4 DEF CallbackReturns, Live, Calling, TypeOK
    <2> QED
      BY <1>4, <2>1 DEF CallbackReturns, PoolStep, Pool!PoolNext, Pool!Finish
  <1> QED
    BY <1>1, <1>2, <1>3, <1>4 DEF WorkerStep

LEMMA NextPool == IInv /\ [Next]_vars /\ AllWaitedFor => PoolStep
  <1> SUFFICES ASSUME IInv, [Next]_vars, AllWaitedFor PROVE PoolStep
    OBVIOUS
  <1>1. CASE UNCHANGED vars \/ \E o \in Ops : Associate(o) \/ Submit(o) \/ Complete(o)
    <2>1. UNCHANGED <<wpc, opc, cs>>
      BY <1>1 DEF vars, Associate, Submit, Complete, workerVars, ownedVars
    <2>2. Live' = Live /\ Calling' = Calling
      BY <2>1 DEF Live, Calling
    <2> QED
      BY <2>1, <2>2 DEF PoolStep, Pool!poolVars
  <1> QED
    BY <1>1, OwnerPool, CreatePool, WorkerPoolSteps DEF Next, OwnerStep, StopStep, Owner

-----------------------------------------------------------------------------
\* What the invariant implies.
LEMMA IInvImplies == IInv => ExitPacketsSuffice /\ WorkersKept
  BY LiveAndDead, DeadType, NType DEF IInv, Accounted, ExitPacketsSuffice, Kept, WorkersKept,
     Dead, Lost, TypeOK

\* The variables keep their types.
THEOREM TypeCorrect == Spec => []TypeOK
  <1>1. IInv => TypeOK
    BY DEF IInv
  <1> QED
    BY <1>1, InitIInv, NextIInv, PTL DEF Spec

\* While Stop() waits there is an exit packet for every worker still running.
THEOREM EnoughExitPackets == Spec => []ExitPacketsSuffice
  <1>1. IInv => ExitPacketsSuffice
    BY IInvImplies
  <1> QED
    BY <1>1, InitIInv, NextIInv, PTL DEF Spec

\* If Stop() can wait for all workers, nothing is used after its release.
THEOREM NeverFaults == Spec => []NoFault
  <1>1. IInv => NoFault
    BY DEF IInv
  <1> QED
    BY <1>1, InitIInv, NextIInv, PTL DEF Spec

\* If Stop() can wait for all workers, the object is a pool: nothing is given back while
\* a callback runs or can begin.
THEOREM IsPool == Spec => PoolSteps
  <1>1. IInv /\ [Next]_vars
          => [AllWaitedFor => Pool!PoolNext \/ UNCHANGED Pool!poolVars]_vars
    BY NextPool DEF PoolStep
  <1> QED
    BY <1>1, InitIInv, NextIInv, PTL DEF Spec, PoolSteps

\* Before Stop() a worker ends only on a packet with the key 0.
THEOREM KeepsWorkers == Spec => []WorkersKept
  <1>1. IInv => WorkersKept
    BY IInvImplies
  <1> QED
    BY <1>1, InitIInv, NextIInv, PTL DEF Spec
===============================================================================
