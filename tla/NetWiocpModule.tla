--------------------------- MODULE NetWiocpModule ---------------------------
(***************************************************************************)
(* The callback pool io/net_wiocp_module.{h,cpp}, the second version of    *)
(* CIocp: start() never fails, each worker keeps its own copy of the port, *)
(* a packet with the key 0 is dropped rather than taken for an exit        *)
(* packet, shutdown() releases nothing and the destructor releases all.    *)
(*                                                                         *)
(* The owner calls start(), shutdown() any number of times, perhaps        *)
(* start() again, and deletes the object after a shutdown().               *)
(***************************************************************************)
EXTENDS Naturals, FiniteSets

CONSTANTS
  Workers,        \* the worker threads, m_ithreads of them
  Ops,            \* the overlapped operations of the user
  ZeroKeyOps,     \* those on a handle associated with the key 0
  NoOp,           \* a worker that runs no callback
  MaxWait,        \* MAXIMUM_WAIT_OBJECTS
  Failures        \* the system calls that may fail

ASSUME WorkersAssumption == IsFiniteSet(Workers) /\ Workers # {}
ASSUME OpsAssumption == ZeroKeyOps \subseteq Ops /\ NoOp \notin Ops
ASSUME MaxWaitAssumption == MaxWait \in Nat
ASSUME FailuresAssumption == Failures \subseteq {"event", "port", "thread"}

N == Cardinality(Workers)

VARIABLES
  opc,            \* where the owner is
  posted,         \* exit packets this shutdown() has posted
  exits,          \* exit packets in the port
  wpc, wop,       \* where each worker is in loop(), and what it calls back
  port, event,    \* m_handle_iocp (and each worker's p), m_handle_shutdown
  op,             \* each operation
  faults          \* undefined behaviour the program has run into

vars == <<opc, posted, exits, wpc, wop, port, event, op, faults>>

TypeOK ==
  /\ opc \in {"new", "create", "up", "post", "wait", "down", "deleted"}
  /\ posted \in 0 .. N
  /\ exits \in Nat
  /\ wpc \in [Workers -> {"none", "absent", "check", "wait", "callback", "dead"}]
  /\ wop \in [Workers -> Ops \cup {NoOp}]
  /\ port \in {"null", "open"}
  /\ event \in {"null", "clear", "set"}
  /\ op \in [Ops -> {"none", "ready", "submitted", "completed", "running",
                     "lost"}]
  /\ faults \subseteq {"freed"}

Init ==
  /\ opc = "new" /\ posted = 0 /\ exits = 0
  /\ wpc = [w \in Workers |-> "none"]
  /\ wop = [w \in Workers |-> NoOp]
  /\ port = "null" /\ event = "null"
  /\ op = [o \in Ops |-> "none"]
  /\ faults = {}

Outcomes(k) == IF k \in Failures THEN BOOLEAN ELSE {TRUE}
Defined == faults = {}
Live == {w \in Workers : wpc[w] \notin {"none", "absent", "dead"}}
Calling == {w \in Workers : wpc[w] = "callback"}

-----------------------------------------------------------------------------
(* start().  Called again, it forgets the old port with the handles that are *)
(* associated with it and the packets in it.                                 *)

OpsOfTheOldPort ==
  [o \in Ops |-> IF op[o] \in {"none", "running"} THEN op[o] ELSE "lost"]

StartBegin ==
  /\ Defined /\ opc \in {"new", "down"}
  /\ Live = {}
  /\ \E ok \in Outcomes("event") : event' = IF ok THEN "clear" ELSE "null"
  /\ \E ok \in Outcomes("port") : port' = IF ok THEN "open" ELSE "null"
  /\ exits' = 0
  /\ op' = OpsOfTheOldPort
  /\ wpc' = [w \in Workers |-> "none"]
  /\ opc' = "create"
  /\ UNCHANGED <<posted, wop, faults>>

CreateWorker(w) ==
  /\ Defined /\ opc = "create"
  /\ wpc[w] = "none"
  /\ \E ok \in Outcomes("thread") :
       wpc' = [wpc EXCEPT ![w] = IF ok THEN "check" ELSE "absent"]
  /\ UNCHANGED <<opc, posted, exits, wop, port, event, op, faults>>

Started ==
  /\ Defined /\ opc = "create"
  /\ \A w \in Workers : wpc[w] # "none"
  /\ opc' = "up"
  /\ UNCHANGED <<posted, exits, wpc, wop, port, event, op, faults>>

-----------------------------------------------------------------------------
(* shutdown(), and the destructor.                                         *)

ShutdownBegin ==
  /\ Defined /\ opc \in {"up", "down"}
  /\ exits <= N                       \* bound: at most two shutdown() in a row
  /\ event' = IF event = "null" THEN "null" ELSE "set"
  /\ posted' = 0
  /\ opc' = "post"
  /\ UNCHANGED <<exits, wpc, wop, port, op, faults>>

\* mutant of notify_all's bound
ExitPacketsOneShort == N - 1

ExitPacketsDue == N

PostExitPacket ==
  /\ Defined /\ opc = "post"
  /\ posted < ExitPacketsDue
  /\ posted' = posted + 1
  /\ exits' = IF port = "open" THEN exits + 1 ELSE exits
  /\ UNCHANGED <<opc, wpc, wop, port, event, op, faults>>

ExitPacketsPosted ==
  /\ Defined /\ opc = "post"
  /\ posted = ExitPacketsDue
  /\ opc' = "wait"
  /\ UNCHANGED <<posted, exits, wpc, wop, port, event, op, faults>>

\* mutant: bWaitAll is FALSE
AnyWorkerEnded == \E w \in Workers : wpc[w] = "dead"

\* The wait fails at once on too many handles or on a null one.
WaitOver == Live = {} \/ N > MaxWait \/ \E w \in Workers : wpc[w] = "absent"

WaitWorkers ==
  /\ Defined /\ opc = "wait"
  /\ WaitOver
  /\ opc' = "down"
  /\ UNCHANGED <<posted, exits, wpc, wop, port, event, op, faults>>

\* Closing the port drops its packets; the workers use the object at their next
\* test of the event.
Delete ==
  /\ Defined /\ opc = "down"
  /\ port' = "null" /\ event' = "null"
  /\ exits' = 0
  /\ op' = OpsOfTheOldPort
  /\ opc' = "deleted"
  /\ UNCHANGED <<posted, wpc, wop, faults>>

OwnerStep ==
  \/ \E w \in Workers : CreateWorker(w)
  \/ Started
  \/ PostExitPacket
  \/ ExitPacketsPosted
  \/ WaitWorkers

-----------------------------------------------------------------------------
(* The user's operations.                                                  *)

\* Without a port associate() makes a port of its own for the handle, reports
\* success, and no worker ever sees the handle's packets.
Associate(o) ==
  /\ Defined /\ opc = "up"
  /\ op[o] = "none"
  /\ op' = [op EXCEPT ![o] = IF port = "open" THEN "ready" ELSE "lost"]
  /\ UNCHANGED <<opc, posted, exits, wpc, wop, port, event, faults>>

Submit(o) ==
  /\ Defined /\ opc = "up"
  /\ op[o] = "ready"
  /\ op' = [op EXCEPT ![o] = "submitted"]
  /\ UNCHANGED <<opc, posted, exits, wpc, wop, port, event, faults>>

Complete(o) ==
  /\ Defined /\ op[o] = "submitted"
  /\ op' = [op EXCEPT ![o] = "completed"]
  /\ UNCHANGED <<opc, posted, exits, wpc, wop, port, event, faults>>

-----------------------------------------------------------------------------
(* A worker: loop().                                                       *)

\* mutant: the loop goes on only after WAIT_TIMEOUT
LoopRunsOnValidEvent == event = "clear"
LoopRuns == event # "set"

CheckEvent(w) ==
  /\ Defined /\ wpc[w] = "check"
  /\ IF opc = "deleted"
       THEN faults' = {"freed"} /\ UNCHANGED wpc
       ELSE /\ wpc' = [wpc EXCEPT ![w] = IF LoopRuns THEN "wait" ELSE "dead"]
            /\ UNCHANGED faults
  /\ UNCHANGED <<opc, posted, exits, wop, port, event, op>>

TakeExitPacket(w) ==
  /\ Defined /\ wpc[w] = "wait"
  /\ exits > 0
  /\ exits' = exits - 1
  /\ wpc' = [wpc EXCEPT ![w] = "dead"]
  /\ UNCHANGED <<opc, posted, wop, port, event, op, faults>>

\* Without a port the call fails with a null overlapped pointer.
PortGone(w) ==
  /\ Defined /\ wpc[w] = "wait"
  /\ port = "null"
  /\ wpc' = [wpc EXCEPT ![w] = "dead"]
  /\ UNCHANGED <<opc, posted, exits, wop, port, event, op, faults>>

\* mutant: the key 0 ends the worker, as it does in CIocp
EndsOnZeroKey == "dead"
AfterZeroKey == "check"

TakeCompletion(w, o) ==
  /\ Defined /\ wpc[w] = "wait"
  /\ op[o] = "completed"
  /\ IF o \in ZeroKeyOps
       THEN /\ wpc' = [wpc EXCEPT ![w] = AfterZeroKey]
            /\ op' = [op EXCEPT ![o] = "lost"]
            /\ UNCHANGED wop
       ELSE /\ wpc' = [wpc EXCEPT ![w] = "callback"]
            /\ op' = [op EXCEPT ![o] = "running"]
            /\ wop' = [wop EXCEPT ![w] = o]
  /\ UNCHANGED <<opc, posted, exits, port, event, faults>>

\* The callback returns, perhaps after submitting its operation again.
CallbackReturns(w) ==
  /\ Defined /\ wpc[w] = "callback"
  /\ \E again \in {"ready", "submitted"} :
       op' = [op EXCEPT ![wop[w]] = IF port = "open" THEN again ELSE "lost"]
  /\ wpc' = [wpc EXCEPT ![w] = "check"]
  /\ wop' = [wop EXCEPT ![w] = NoOp]
  /\ UNCHANGED <<opc, posted, exits, port, event, faults>>

WorkerStep(w) ==
  \/ CheckEvent(w)
  \/ TakeExitPacket(w)
  \/ PortGone(w)
  \/ \E o \in Ops : TakeCompletion(w, o)
  \/ CallbackReturns(w)

Next ==
  \/ StartBegin
  \/ ShutdownBegin
  \/ Delete
  \/ OwnerStep
  \/ \E o \in Ops : Associate(o) \/ Submit(o) \/ Complete(o)
  \/ \E w \in Workers : WorkerStep(w)

Spec == Init /\ [][Next]_vars

\* As in CIocp: the scheduler runs the owner inside a call and every worker, and
\* the port hands out its packets in the order they came in.
FairSpec ==
  /\ Spec
  /\ WF_vars(OwnerStep)
  /\ \A w \in Workers : WF_vars(WorkerStep(w))
  /\ SF_vars(\E w \in Workers : TakeExitPacket(w))
  /\ \A o \in Ops : SF_vars(\E w \in Workers : TakeCompletion(w, o))

-----------------------------------------------------------------------------
(* Properties.                                                             *)

\* shutdown() waits for every worker: there are not too many of them, and all of
\* them have been created.
AllWaitedFor == N <= MaxWait /\ \A w \in Workers : wpc[w] # "absent"

\* No worker tests the event of an object that has been deleted after shutdown(),
\* if shutdown() can wait for the workers.
NoFault == AllWaitedFor => faults = {}

\* While shutdown() waits there is an exit packet for every worker still running,
\* also when it is called again and when workers have left on the event.
ExitPacketsSuffice ==
  opc = "wait" /\ port = "open" => Cardinality(Live) <= exits

\* Between start() and shutdown() no worker ends, whatever keys are used and
\* whatever a previous shutdown() left in its port.
WorkersKept ==
  opc = "up" /\ port = "open" => \A w \in Workers : wpc[w] # "dead"

\* shutdown() returns whatever callbacks run, with or without event and port.
ShutdownReturns == opc = "post" ~> opc = "down" \/ faults # {}

\* A completed operation is called back, unless shutdown() comes first or no worker
\* could be created, also when the event could not be created.
CompletionCalledBack ==
  \A o \in Ops \ ZeroKeyOps :
    op[o] = "completed" ~> op[o] = "running" \/ opc # "up"
                          \/ \A w \in Workers : wpc[w] = "absent"

\* The object is a pool of workers, if shutdown() can wait for all of them: when it
\* returns, no callback runs and none begins until the next start().
Pool == INSTANCE WorkerPool WITH
  phase <- CASE opc \in {"down", "deleted"} -> "released"
             [] opc \in {"post", "wait"}    -> "draining"
             [] opc = "up"                  -> "up"
             [] OTHER                       -> "starting",
  live <- Live,
  busy <- Calling

PoolSteps == [][AllWaitedFor => Pool!PoolNext \/ UNCHANGED Pool!poolVars]_vars
===============================================================================
