-------------------------------- MODULE CIocp --------------------------------
(***************************************************************************)
(* The callback pool IOCPServer/Iocp.{h,cpp}: an owner thread calls        *)
(* Start() and Stop(), workers dequeue completions and run the callback    *)
(* carried by each overlapped structure.  An operation stands for one      *)
(* IocpOverlapped of the user, on a handle associated with the port under  *)
(* the operation's key; its callback may submit it again.                  *)
(*                                                                         *)
(* Stop() tests nothing.  The owner calls it once after each Start() that  *)
(* returned true; called at any other time it uses an uninitialised        *)
(* critical section or a null array.                                       *)
(***************************************************************************)
EXTENDS Naturals, FiniteSets

CONSTANTS
  Workers,        \* the worker threads, m_nThreads of them
  Ops,            \* the overlapped operations of the user
  ZeroKeyOps,     \* those on a handle associated with the key 0
  NoOp,           \* a worker that runs no callback
  MaxWait,        \* MAXIMUM_WAIT_OBJECTS
  Failures        \* the system calls that may fail

ASSUME WorkersAssumption == IsFiniteSet(Workers) /\ Workers # {}
ASSUME OpsAssumption == IsFiniteSet(Ops) /\ ZeroKeyOps \subseteq Ops /\ NoOp \notin Ops
ASSUME MaxWaitAssumption == MaxWait \in Nat
ASSUME FailuresAssumption == Failures \subseteq {"event", "port", "thread"}

N == Cardinality(Workers)

VARIABLES
  opc,            \* where the owner is: outside, in Start() or in Stop()
  posted,         \* exit packets this Stop() has posted
  exits,          \* exit packets in the port
  wpc,            \* where each worker is in _WorkerThread
  wkey,           \* the worker's variable key is not 0
  wop,            \* the operation whose callback a worker runs
  event,          \* m_hShutdownEvent
  cs,             \* m_csMutex
  port,           \* m_hIOCompletionPort
  handles,        \* m_phWorkerThreads is an array
  bStart,         \* m_bStart
  op,             \* each operation
  faults          \* undefined behaviour the program has run into

workerVars == <<wpc, wkey, wop>>
ownedVars  == <<event, cs, port, handles, bStart>>
vars == <<opc, posted, exits, wpc, wkey, wop, event, cs, port, handles, bStart,
          op, faults>>

WorkerPoints == {"none", "absent", "check", "wait", "callback", "dead"}

TypeOK ==
  /\ opc \in {"new", "port", "create", "failed", "up", "post", "wait",
              "deinit1", "deinit2", "down"}
  /\ posted \in 0 .. N
  /\ exits \in 0 .. N
  /\ wpc \in [Workers -> WorkerPoints]
  /\ wkey \in [Workers -> BOOLEAN]
  /\ wop \in [Workers -> Ops \cup {NoOp}]
  /\ event \in {"null", "clear", "set"}
  /\ cs \in {"none", "live", "deleted"}
  /\ port \in {"null", "open"}
  /\ handles \in BOOLEAN
  /\ bStart \in BOOLEAN
  /\ op \in [Ops -> {"none", "ready", "submitted", "completed", "running",
                    "lost"}]
  /\ faults \subseteq {"nullptr", "badlock"}

Init ==
  /\ opc = "new" /\ posted = 0 /\ exits = 0
  /\ wpc = [w \in Workers |-> "none"]
  /\ wkey = [w \in Workers |-> FALSE]
  /\ wop = [w \in Workers |-> NoOp]
  /\ event = "null" /\ cs = "none" /\ port = "null"
  /\ handles = FALSE /\ bStart = FALSE
  /\ op = [o \in Ops |-> "none"]
  /\ faults = {}

-----------------------------------------------------------------------------
Outcomes(k) == IF k \in Failures THEN BOOLEAN ELSE {TRUE}

\* A program that has run into undefined behaviour stops.
Defined == faults = {}

Live == {w \in Workers : wpc[w] \notin {"none", "absent", "dead"}}
Calling == {w \in Workers : wpc[w] = "callback"}

-----------------------------------------------------------------------------
(* The owner: Start(), on a new object, again after it has failed and again  *)
(* after Stop().  (A worker that outlives Stop() is followed until it ends;  *)
(* only then is there another Start().)                                      *)

StartBegin ==
  /\ Defined /\ opc \in {"new", "failed", "down"}
  /\ Live = {}
  /\ cs' = "live"
  /\ \E ok \in Outcomes("event") : event' = IF ok THEN "clear" ELSE "null"
  /\ opc' = "port"
  /\ UNCHANGED <<posted, exits, workerVars, port, handles, bStart, op, faults>>

\* _InitializeIOCP up to its loop.  Start() returns false without a port.
CreatePort ==
  /\ Defined /\ opc = "port"
  /\ \E ok \in Outcomes("port") :
       /\ port' = IF ok THEN "open" ELSE "null"
       /\ handles' = ok
       /\ opc' = IF ok THEN "create" ELSE "failed"
  /\ wpc' = [w \in Workers |-> "none"]
  /\ UNCHANGED <<posted, exits, wkey, wop, event, cs, bStart, op, faults>>

CreateWorker(w) ==
  /\ Defined /\ opc = "create"
  /\ wpc[w] = "none"
  /\ \E ok \in Outcomes("thread") :
       wpc' = [wpc EXCEPT ![w] = IF ok THEN "check" ELSE "absent"]
  /\ wkey' = [wkey EXCEPT ![w] = FALSE]
  /\ UNCHANGED <<opc, posted, exits, wop, ownedVars, op, faults>>

Started ==
  /\ Defined /\ opc = "create"
  /\ \A w \in Workers : wpc[w] # "none"
  /\ bStart' = TRUE
  /\ opc' = "up"
  /\ UNCHANGED <<posted, exits, workerVars, event, cs, port, handles, op, faults>>

-----------------------------------------------------------------------------
(* The owner: Stop().  Neither m_bStart nor anything else is tested.       *)

StopBegin ==
  /\ Defined /\ opc = "up"
  /\ event' = IF event = "null" THEN "null" ELSE "set"
  /\ posted' = 0
  /\ opc' = "post"
  /\ UNCHANGED <<exits, workerVars, cs, port, handles, bStart, op, faults>>

\* mutant of the loop's bound
ExitPacketsOneShort == N - 1

ExitPacketsDue == N
PostExitPacket ==
  /\ Defined /\ opc = "post"
  /\ posted < ExitPacketsDue
  /\ posted' = posted + 1
  /\ exits' = IF port = "open" THEN exits + 1 ELSE exits
  /\ UNCHANGED <<opc, workerVars, ownedVars, op, faults>>

ExitPacketsPosted ==
  /\ Defined /\ opc = "post"
  /\ posted = ExitPacketsDue
  /\ opc' = "wait"
  /\ UNCHANGED <<posted, exits, workerVars, ownedVars, op, faults>>

\* WaitForMultipleObjects fails at once on too many handles, a null handle or no
\* array; its result is unused.
WaitRefused ==
  \/ N > MaxWait
  \/ ~handles
  \/ \E w \in Workers : wpc[w] = "absent"

\* mutant: bWaitAll is FALSE
AnyWorkerEnded == \E w \in Workers : wpc[w] = "dead"
WaitOver == Live = {} \/ WaitRefused

WaitWorkers ==
  /\ Defined /\ opc = "wait"
  /\ WaitOver
  /\ opc' = "deinit1"
  /\ UNCHANGED <<posted, exits, workerVars, ownedVars, op, faults>>

DeleteLocks ==
  /\ Defined /\ opc = "deinit1"
  /\ cs' = "deleted"
  /\ event' = "null"
  /\ faults' = IF cs = "live" THEN faults ELSE faults \cup {"badlock"}
  /\ opc' = "deinit2"
  /\ UNCHANGED <<posted, exits, workerVars, port, handles, bStart, op>>

\* The handles are closed through the array, whose pointer is not tested first.
\* Packets still in the port are lost, and so are the operations pending on it.
ClosePortLeaked ==      \* mutant: the port handle is not released
  /\ Defined /\ opc = "deinit2"
  /\ handles' = FALSE
  /\ faults' = IF handles THEN faults ELSE faults \cup {"nullptr"}
  /\ opc' = "down"
  /\ UNCHANGED <<posted, exits, workerVars, event, cs, port, bStart, op>>

ClosePort ==
  /\ Defined /\ opc = "deinit2"
  /\ handles' = FALSE
  /\ port' = "null"
  /\ exits' = 0
  /\ op' = [o \in Ops |-> IF op[o] = "running" THEN "running" ELSE "none"]
  /\ faults' = IF handles THEN faults ELSE faults \cup {"nullptr"}
  /\ opc' = "down"
  /\ UNCHANGED <<posted, workerVars, event, cs, bStart>>

StopStep == PostExitPacket \/ ExitPacketsPosted \/ WaitWorkers \/ DeleteLocks \/ ClosePort

-----------------------------------------------------------------------------
(* The user's operations.                                                  *)

\* _AssociateWithIOCP of the operation's handle, then its first submission.
Associate(o) ==
  /\ Defined /\ opc = "up"
  /\ op[o] = "none"
  /\ op' = [op EXCEPT ![o] = "ready"]
  /\ UNCHANGED <<opc, posted, exits, workerVars, ownedVars, faults>>

Submit(o) ==
  /\ Defined /\ opc = "up"
  /\ op[o] = "ready"
  /\ op' = [op EXCEPT ![o] = "submitted"]
  /\ UNCHANGED <<opc, posted, exits, workerVars, ownedVars, faults>>

Complete(o) ==
  /\ Defined /\ op[o] = "submitted"
  /\ port = "open"
  /\ op' = [op EXCEPT ![o] = "completed"]
  /\ UNCHANGED <<opc, posted, exits, workerVars, ownedVars, faults>>

-----------------------------------------------------------------------------
(* A worker: _WorkerThread().                                              *)

\* mutant: the loop goes on only after WAIT_TIMEOUT
LoopRunsOnValidEvent == event = "clear"
LoopRuns == event # "set"

CheckEvent(w) ==
  /\ Defined /\ wpc[w] = "check"
  /\ wpc' = [wpc EXCEPT ![w] = IF LoopRuns THEN "wait" ELSE "dead"]
  /\ UNCHANGED <<opc, posted, exits, wkey, wop, ownedVars, op, faults>>

TakeExitPacket(w) ==
  /\ Defined /\ wpc[w] = "wait"
  /\ exits > 0
  /\ exits' = exits - 1
  /\ wpc' = [wpc EXCEPT ![w] = "dead"]
  /\ wkey' = [wkey EXCEPT ![w] = FALSE]
  /\ UNCHANGED <<opc, posted, wop, ownedVars, op, faults>>

\* Without a port the call fails and leaves key as the last packet set it: 0
\* ends the thread, anything else calls back through a null overlapped pointer.
PortGone(w) ==
  /\ Defined /\ wpc[w] = "wait"
  /\ port = "null"
  /\ wpc' = [wpc EXCEPT ![w] = "dead"]
  /\ faults' = IF wkey[w] THEN faults \cup {"nullptr"} ELSE faults
  /\ UNCHANGED <<opc, posted, exits, wkey, wop, ownedVars, op>>

\* mutant: a failed operation ends the thread like a failed wait
CalledBackIfOk(o, ok) == o \notin ZeroKeyOps /\ ok

\* A packet of the user is called back whether its operation has succeeded or
\* not; with the key 0 it is taken for an exit packet.
CalledBack(o, ok) == o \notin ZeroKeyOps

TakeCompletion(w, o) ==
  /\ Defined /\ wpc[w] = "wait"
  /\ op[o] = "completed"
  /\ wkey' = [wkey EXCEPT ![w] = o \notin ZeroKeyOps]
  /\ \E ok \in BOOLEAN :
       IF CalledBack(o, ok)
         THEN /\ wpc' = [wpc EXCEPT ![w] = "callback"]
              /\ wop' = [wop EXCEPT ![w] = o]
              /\ op' = [op EXCEPT ![o] = "running"]
         ELSE /\ wpc' = [wpc EXCEPT ![w] = "dead"]
              /\ op' = [op EXCEPT ![o] = "lost"]
              /\ UNCHANGED wop
  /\ UNCHANGED <<opc, posted, exits, ownedVars, faults>>

\* The callback returns, perhaps after submitting its operation again.
CallbackReturns(w) ==
  /\ Defined /\ wpc[w] = "callback"
  /\ \E again \in {"ready", "submitted"} : op' = [op EXCEPT ![wop[w]] = again]
  /\ wpc' = [wpc EXCEPT ![w] = "check"]
  /\ wop' = [wop EXCEPT ![w] = NoOp]
  /\ UNCHANGED <<opc, posted, exits, wkey, ownedVars, faults>>

WorkerStep(w) ==
  \/ CheckEvent(w)
  \/ TakeExitPacket(w)
  \/ PortGone(w)
  \/ \E o \in Ops : TakeCompletion(w, o)
  \/ CallbackReturns(w)

OwnerStep ==
  \/ CreatePort
  \/ \E w \in Workers : CreateWorker(w)
  \/ Started
  \/ StopStep

Next ==
  \/ StartBegin
  \/ StopBegin
  \/ OwnerStep
  \/ \E o \in Ops : Associate(o) \/ Submit(o) \/ Complete(o)
  \/ \E w \in Workers : WorkerStep(w)

Spec == Init /\ [][Next]_vars

\* The scheduler runs the owner inside a call and every worker, and a callback
\* returns.  The port hands its packets out in the order they came in, so that
\* none of them waits for ever while a worker keeps coming back (the strong
\* fairness, since the model does not keep the order).  When to call, and when an
\* operation completes, is up to the user.
FairSpec ==
  /\ Spec
  /\ WF_vars(OwnerStep)
  /\ \A w \in Workers : WF_vars(WorkerStep(w))
  /\ SF_vars(\E w \in Workers : TakeExitPacket(w))
  /\ \A o \in Ops : SF_vars(\E w \in Workers : TakeCompletion(w, o))

-----------------------------------------------------------------------------
(* Properties.                                                             *)

\* Stop() waits for every worker: there are not too many of them, and all of them
\* have been created.
AllWaitedFor == N <= MaxWait /\ \A w \in Workers : wpc[w] # "absent"

\* No worker calls back through a null pointer and nothing that has been released
\* is used, if Stop() can wait for the workers.
NoFault == AllWaitedFor => faults = {}

\* While Stop() waits there is an exit packet for every worker still running,
\* although workers also end on the event and on packets with the key 0.
ExitPacketsSuffice == opc = "wait" => Cardinality(Live) <= exits

\* Before Stop(), a worker that has been created ends only on a packet with the
\* key 0, which is lost: no failed operation and no old exit packet ends one.
WorkersKept ==
  opc = "up" =>
    Cardinality({w \in Workers : wpc[w] = "dead"})
      = Cardinality({o \in ZeroKeyOps : op[o] = "lost"})

\* Stop() returns, whatever callbacks are running and whatever keys are used,
\* unless a thread that could not be waited for has run into undefined behaviour.
StopReturns == opc = "post" ~> opc = "down" \/ ~AllWaitedFor

\* A completed operation is called back unless Stop() comes first or no worker is
\* left: each has failed to be created or taken a packet with the key 0.
CompletionCalledBack ==
  \A o \in Ops \ ZeroKeyOps :
    op[o] = "completed" ~>
      \/ op[o] = "running"
      \/ opc # "up"
      \/ Cardinality({w \in Workers : wpc[w] = "absent"})
           + Cardinality({z \in ZeroKeyOps : op[z] = "lost"}) >= N

\* The object is a pool of workers, if Stop() can wait for all of them: no callback
\* runs while or after it gives the resources back.
Pool == INSTANCE WorkerPool WITH
  phase <- IF cs = "deleted" THEN "released"
           ELSE IF opc \in {"post", "wait", "deinit1"} THEN "draining"
           ELSE IF opc = "up" THEN "up" ELSE "starting",
  live <- Live,
  busy <- Calling

PoolSteps == [][AllWaitedFor => Pool!PoolNext \/ UNCHANGED Pool!poolVars]_vars
===============================================================================
