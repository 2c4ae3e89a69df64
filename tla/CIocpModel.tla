------------------------------ MODULE CIocpModel ------------------------------
(***************************************************************************)
(* The completion-port server IOCPServer/IocpModel.{h,cpp} as main.cpp     *)
(* runs it.  Three kinds of threads step independently:                    *)
(*                                                                         *)
(*   - the main thread runs Start() and then sits in getchar();            *)
(*   - the console-control thread runs Handler(), hence Stop(), whenever   *)
(*     Ctrl-C arrives (one handler call at a time);                        *)
(*   - the worker threads run _WorkerThread().                             *)
(*                                                                         *)
(* A slot is one of the MAX_POST_ACCEPT PER_IO_CONTEXTs of the listening   *)
(* context, with the accept socket it carries and the client context       *)
(* _DoAccpet builds from it.  The completion port hands out its packets in *)
(* any order here; Windows hands them out first-in first-out, which is one *)
(* of those orders.  Every system call that the code does not expect to    *)
(* fail, or whose failure it handles, may fail when Failures says so.      *)
(***************************************************************************)
EXTENDS Naturals, FiniteSets

CONSTANTS
  Workers,        \* the worker threads, m_nThreads = Cardinality(Workers)
  Slots,          \* the accept contexts, MAX_POST_ACCEPT of them
  NoSlot,         \* a worker that handles no completion
  MaxWait,        \* MAXIMUM_WAIT_OBJECTS of WaitForMultipleObjects
  Failures,       \* the system calls that may fail
  StopWindow      \* the program points of the main thread where Ctrl-C may come

FailureKinds == {"event", "port", "thread", "socket", "associate", "bind",
                 "extension", "accept", "recv", "reset", "network"}

MainPoints == {"event", "port", "create", "context", "socket", "associate",
               "bind", "post", "running", "deinit1", "deinit2", "deinit3",
               "failed"}

ASSUME WorkersAssumption == IsFiniteSet(Workers) /\ Workers # {}
ASSUME SlotsAssumption == IsFiniteSet(Slots) /\ Slots # {} /\ NoSlot \notin Slots
ASSUME MaxWaitAssumption == MaxWait \in Nat
ASSUME FailuresAssumption == Failures \subseteq FailureKinds
ASSUME StopWindowAssumption == StopWindow \subseteq MainPoints

N == Cardinality(Workers)

VARIABLES
  mpc,            \* where the main thread is in Start()
  cpc,            \* where the control thread is in Stop(), "idle" outside
  posted,         \* exit packets this Stop() has posted (its loop variable)
  exits,          \* exit packets in the port
  wpc,            \* where each worker is in _WorkerThread
  wslot,          \* the slot whose completion each worker handles
  event,          \* m_hShutdownEvent
  cs,             \* m_csMutex
  port,           \* m_hIOCompletionPort
  handles,        \* m_phWorkerThreads is an array (of null or open handles)
  listen,         \* m_pListenContext and its m_Socket
  extension,      \* the AcceptEx functions were found
  slot,           \* each accept context and the operation posted on it
  sock,           \* the accept socket of each slot, as the system sees it
  conn,           \* the client context built from each slot
  faults          \* undefined behaviour the program has run into

mainVars   == <<mpc>>
stopVars   == <<cpc, posted>>
workerVars == <<wpc, wslot>>
ownedVars  == <<event, cs, port, handles, listen, extension>>
ioVars     == <<slot, sock, conn>>
vars == <<mpc, cpc, posted, exits, wpc, wslot, event, cs, port, handles,
          listen, extension, slot, sock, conn, faults>>

WorkerPoints == {"none", "absent", "check", "wait", "accept", "recv", "repost",
                 "dead"}
SlotStates == {"none", "posted", "done", "reset", "broken", "taken", "spent",
               "fatal", "freed"}

TypeOK ==
  /\ mpc \in MainPoints
  /\ cpc \in {"idle", "check", "signal", "post", "wait", "deinit1", "deinit2",
              "deinit3"}
  /\ posted \in 0 .. N
  /\ exits \in 0 .. N
  /\ wpc \in [Workers -> WorkerPoints]
  /\ wslot \in [Workers -> Slots \cup {NoSlot}]
  /\ event \in {"null", "clear", "set"}
  /\ cs \in {"none", "live", "deleted"}
  /\ port \in {"null", "open"}
  /\ handles \in BOOLEAN
  /\ listen \in {"uninit", "null", "raw", "open"}
  /\ extension \in BOOLEAN
  /\ slot \in [Slots -> SlotStates]
  /\ sock \in [Slots -> {"none", "open", "closed", "twice"}]
  /\ conn \in [Slots -> {"none", "fresh", "receiving", "received", "handled",
                      "failed"}]
  /\ faults \subseteq {"uninit", "nullptr", "uaf", "doubledelete"}

\* The constructor leaves m_pListenContext uninitialised.
Init ==
  /\ mpc = "event" /\ cpc = "idle" /\ posted = 0 /\ exits = 0
  /\ wpc = [w \in Workers |-> "none"]
  /\ wslot = [w \in Workers |-> NoSlot]
  /\ event = "null" /\ cs = "none" /\ port = "null" /\ handles = FALSE
  /\ listen = "uninit" /\ extension = FALSE
  /\ slot = [s \in Slots |-> "none"]
  /\ sock = [s \in Slots |-> "none"]
  /\ conn = [s \in Slots |-> "none"]
  /\ faults = {}

-----------------------------------------------------------------------------
\* Outcomes(k): a call of kind k succeeds (TRUE) or, where the run allows it,
\* fails (FALSE).
Outcomes(k) == IF k \in Failures THEN BOOLEAN ELSE {TRUE}

\* Nothing is said of a program that has run into undefined behaviour: it stops.
Defined == faults = {}

\* closesocket on a socket value: the second call hits a handle that is no
\* longer this socket's.
Closed(x) == CASE x = "none" -> "none"
               [] x = "open" -> "closed"
               [] OTHER      -> "twice"

Live == {w \in Workers : wpc[w] \notin {"none", "absent", "dead"}}
Handling == {w \in Workers : wpc[w] \in {"accept", "recv", "repost"}}

\* _DeInitialize in three parts, run by the main thread when Start() fails and
\* by the control thread at the end of Stop().
DeleteLocks ==
  /\ cs' = "deleted"
  /\ event' = "null"
  /\ faults' = IF cs = "live" THEN faults ELSE faults \cup {"doubledelete"}
  /\ UNCHANGED <<exits, wpc, wslot, port, handles, listen, extension, ioVars>>

ClosePortLeaked ==      \* mutant: the port handle is not released
  /\ handles' = FALSE
  /\ faults' = IF handles THEN faults ELSE faults \cup {"nullptr"}
  /\ UNCHANGED <<exits, wpc, wslot, event, cs, port, listen, extension, ioVars>>

ClosePort ==
  /\ handles' = FALSE
  /\ port' = "null"
  /\ faults' = IF handles THEN faults ELSE faults \cup {"nullptr"}
  /\ UNCHANGED <<exits, wpc, wslot, event, cs, listen, extension, ioVars>>

\* Deleting the listening context deletes every accept context in its list,
\* and each of those closes its accept socket.
OwnedContextsPending == {s \in Slots : slot[s] = "posted"}     \* mutant
OwnedContextsKept == {s \in Slots : slot[s] # "none"}          \* mutant
OwnedContexts ==
  IF listen = "null" THEN {} ELSE {s \in Slots : slot[s] \notin {"none", "freed"}}

DeleteListenContext ==
  /\ listen' = "null"
  /\ slot' = [s \in Slots |-> IF s \in OwnedContexts THEN "freed" ELSE slot[s]]
  /\ sock' = [s \in Slots |-> IF s \in OwnedContexts THEN Closed(sock[s]) ELSE sock[s]]
  /\ UNCHANGED <<exits, wpc, wslot, event, cs, port, handles, extension, conn, faults>>

-----------------------------------------------------------------------------
(* The main thread: Start().                                               *)

\* The event handle is not checked: a null event makes every check of it fail.
CreateShutdownEvent ==
  /\ Defined /\ mpc = "event"
  /\ cs' = "live"
  /\ \E ok \in Outcomes("event") : event' = IF ok THEN "clear" ELSE "null"
  /\ mpc' = "port"
  /\ UNCHANGED <<stopVars, exits, workerVars, port, handles, listen, extension,
                 ioVars, faults>>

\* Without a port Start() returns false at once and releases nothing.
CreatePort ==
  /\ Defined /\ mpc = "port"
  /\ \E ok \in Outcomes("port") :
       /\ port' = IF ok THEN "open" ELSE "null"
       /\ handles' = ok
       /\ mpc' = IF ok THEN "create" ELSE "failed"
  /\ UNCHANGED <<stopVars, exits, workerVars, event, cs, listen, extension,
                 ioVars, faults>>

\* CreateThread, whose null result is stored like a handle.
CreateWorker(w) ==
  /\ Defined /\ mpc = "create"
  /\ wpc[w] = "none"
  /\ \E ok \in Outcomes("thread") :
       wpc' = [wpc EXCEPT ![w] = IF ok THEN "check" ELSE "absent"]
  /\ UNCHANGED <<mainVars, stopVars, exits, wslot, ownedVars, ioVars, faults>>

WorkersCreated ==
  /\ Defined /\ mpc = "create"
  /\ \A w \in Workers : wpc[w] # "none"
  /\ mpc' = "context"
  /\ UNCHANGED <<stopVars, exits, workerVars, ownedVars, ioVars, faults>>

NewListenContext ==
  /\ Defined /\ mpc = "context"
  /\ listen' = "raw"
  /\ mpc' = "socket"
  /\ UNCHANGED <<stopVars, exits, workerVars, event, cs, port, handles,
                 extension, ioVars, faults>>

CreateListenSocket ==
  /\ Defined /\ mpc = "socket"
  /\ \E ok \in Outcomes("socket") :
       /\ listen' = IF ok THEN "open" ELSE listen
       /\ mpc' = IF ok THEN "associate" ELSE "deinit1"
  /\ UNCHANGED <<stopVars, exits, workerVars, event, cs, port, handles,
                 extension, ioVars, faults>>

\* The failure branch deletes the context before _DeInitialize runs.
AssociateListenSocket ==
  /\ Defined /\ mpc = "associate"
  /\ \E ok \in Outcomes("associate") :
       /\ listen' = IF ok THEN listen ELSE "null"
       /\ mpc' = IF ok THEN "bind" ELSE "deinit1"
  /\ faults' = IF listen = "null" THEN faults \cup {"nullptr"} ELSE faults
  /\ UNCHANGED <<stopVars, exits, workerVars, event, cs, port, handles,
                 extension, ioVars>>

\* bind, listen and the two lookups of the extension functions: a lookup that fails
\* leaves a null pointer, which is not checked, and one that does stands for both.
BindAndListen ==
  /\ Defined /\ mpc = "bind"
  /\ \E ok \in Outcomes("bind") : \E found \in Outcomes("extension") :
       /\ mpc' = IF ok THEN "post" ELSE "deinit1"
       /\ extension' = (ok /\ found)
  /\ faults' = IF listen = "null" THEN faults \cup {"nullptr"} ELSE faults
  /\ UNCHANGED <<stopVars, exits, workerVars, event, cs, port, handles, listen,
                 ioVars>>

\* GetNewIoContext and _PostAccept for one slot of the loop in
\* _InitializeListenSocket.  A failure removes the context again, which closes
\* the accept socket if WSASocket had made one.
PostFirstAccept(s) ==
  /\ Defined /\ mpc = "post"
  /\ slot[s] = "none"
  /\ \E ok \in Outcomes("accept"), made \in BOOLEAN :
       /\ ok => made
       /\ slot' = [slot EXCEPT ![s] = IF ok THEN "posted" ELSE "freed"]
       /\ sock' = [sock EXCEPT ![s] = IF ok THEN "open"
                                      ELSE IF made THEN "closed" ELSE "none"]
       /\ mpc' = IF ok THEN "post" ELSE "deinit1"
  /\ faults' = IF extension /\ listen = "open" THEN faults
               ELSE faults \cup {"nullptr"}
  /\ UNCHANGED <<stopVars, exits, workerVars, ownedVars, conn>>

Started ==
  /\ Defined /\ mpc = "post"
  /\ \A s \in Slots : slot[s] # "none"
  /\ mpc' = "running"
  /\ UNCHANGED <<stopVars, exits, workerVars, ownedVars, ioVars, faults>>

StartDeInitialize ==
  /\ Defined
  /\ \/ /\ mpc = "deinit1" /\ DeleteLocks /\ mpc' = "deinit2"
     \/ /\ mpc = "deinit2" /\ ClosePort /\ mpc' = "deinit3"
     \/ /\ mpc = "deinit3" /\ DeleteListenContext /\ mpc' = "failed"
  /\ UNCHANGED stopVars

MainStep ==
  \/ CreateShutdownEvent
  \/ CreatePort
  \/ \E w \in Workers : CreateWorker(w)
  \/ WorkersCreated
  \/ NewListenContext
  \/ CreateListenSocket
  \/ AssociateListenSocket
  \/ BindAndListen
  \/ \E s \in Slots : PostFirstAccept(s)
  \/ Started
  \/ StartDeInitialize

-----------------------------------------------------------------------------
(* The control thread: Handler() and Stop().                               *)

Interrupt ==
  /\ Defined /\ cpc = "idle"
  /\ mpc \in StopWindow
  /\ cpc' = "check"
  /\ UNCHANGED <<mainVars, posted, exits, workerVars, ownedVars, ioVars, faults>>

\* mutant: Stop() does not test the context
StopRunsAlways == TRUE

\* Stop() does something only with a listening context that has a socket.
StopRuns == listen = "open"

\* The uninitialised pointer may happen to be null; if it is not, its m_Socket
\* is read through it.
StopCheck ==
  /\ Defined /\ cpc = "check"
  /\ \E garbage \in IF listen = "uninit" THEN BOOLEAN ELSE {FALSE} :
       /\ cpc' = IF StopRuns THEN "signal" ELSE "idle"
       /\ faults' = IF garbage THEN faults \cup {"uninit"} ELSE faults
  /\ UNCHANGED <<mainVars, posted, exits, workerVars, ownedVars, ioVars>>

SignalShutdown ==
  /\ Defined /\ cpc = "signal"
  /\ event' = IF event = "null" THEN "null" ELSE "set"
  /\ posted' = 0
  /\ cpc' = "post"
  /\ UNCHANGED <<mainVars, exits, workerVars, cs, port, handles, listen,
                 extension, ioVars, faults>>

\* mutant of the loop's bound
ExitPacketsOneShort == N - 1

\* One turn of the loop that posts m_nThreads exit packets.
ExitPacketsDue == N
PostExitPacket ==
  /\ Defined /\ cpc = "post"
  /\ posted < ExitPacketsDue
  /\ posted' = posted + 1
  /\ exits' = IF port = "open" THEN exits + 1 ELSE exits
  /\ UNCHANGED <<mainVars, cpc, workerVars, ownedVars, ioVars, faults>>

ExitPacketsPosted ==
  /\ Defined /\ cpc = "post"
  /\ posted = ExitPacketsDue
  /\ cpc' = "wait"
  /\ UNCHANGED <<mainVars, posted, exits, workerVars, ownedVars, ioVars, faults>>

\* WaitForMultipleObjects waits for every thread, or fails at once when there
\* are more than MaxWait handles or one of them is null.  Its result is unused.
WaitRefused ==
  \/ N > MaxWait
  \/ ~handles
  \/ \E w \in Workers : wpc[w] = "absent"

\* mutant: bWaitAll is FALSE
AnyWorkerEnded == \E w \in Workers : wpc[w] = "dead"
WaitOver == Live = {} \/ WaitRefused

WaitWorkers ==
  /\ Defined /\ cpc = "wait"
  /\ WaitOver
  /\ cpc' = "deinit1"
  /\ UNCHANGED <<mainVars, posted, exits, workerVars, ownedVars, ioVars, faults>>

StopDeInitialize ==
  /\ Defined
  /\ \/ /\ cpc = "deinit1" /\ DeleteLocks /\ cpc' = "deinit2"
     \/ /\ cpc = "deinit2" /\ ClosePort /\ cpc' = "deinit3"
     \/ /\ cpc = "deinit3" /\ DeleteListenContext /\ cpc' = "idle"
  /\ UNCHANGED <<mainVars, posted>>

StopStep ==
  \/ StopCheck
  \/ SignalShutdown
  \/ PostExitPacket
  \/ ExitPacketsPosted
  \/ WaitWorkers
  \/ StopDeInitialize

-----------------------------------------------------------------------------
(* A worker thread: _WorkerThread() and what it calls.                     *)

\* mutant: the loop goes on only after WAIT_TIMEOUT
LoopRunsOnValidEvent == event = "clear"

\* The condition of the loop: WaitForSingleObject(m_hShutdownEvent, 0) does not
\* return WAIT_OBJECT_0; with a null event it fails and the loop goes on.
LoopRuns == event # "set"

CheckEvent(w) ==
  /\ Defined /\ wpc[w] = "check"
  /\ wpc' = [wpc EXCEPT ![w] = IF LoopRuns THEN "wait" ELSE "dead"]
  /\ UNCHANGED <<mainVars, stopVars, exits, wslot, ownedVars, ioVars, faults>>

\* A packet with key EXIT_CODE ends the thread.
TakeExitPacket(w) ==
  /\ Defined /\ wpc[w] = "wait"
  /\ port = "open"
  /\ exits > 0
  /\ exits' = exits - 1
  /\ wpc' = [wpc EXCEPT ![w] = "dead"]
  /\ UNCHANGED <<mainVars, stopVars, wslot, ownedVars, ioVars, faults>>

\* The port is closed: the wait fails without a packet, and both a null key
\* and an error that is neither a timeout nor a disconnection end the thread.
PortGone(w) ==
  /\ Defined /\ wpc[w] = "wait"
  /\ port # "open"
  /\ wpc' = [wpc EXCEPT ![w] = "dead"]
  /\ UNCHANGED <<mainVars, stopVars, exits, wslot, ownedVars, ioVars, faults>>

\* The clients whose socket is associated with the port: _AssociateWithIOCP is
\* never called, so their sends and receives complete without a packet.
AssociatedClients == {}

\* The completions the port can hand out.
Completions ==
  [op : {"accept"}, s : {s \in Slots : slot[s] \in {"done", "reset", "broken"}}]
    \cup [op : {"recv"}, s : {s \in AssociatedClients : conn[s] = "received"}]

\* A failed accept is dropped: the thread goes on after ERROR_NETNAME_DELETED
\* and ends after any other error.
AfterFailureEnds(s) == "dead"   \* mutant: every error ends the thread
AfterFailure(s) == IF slot[s] = "reset" THEN "check" ELSE "dead"

\* A completion is taken and dispatched on its m_OpType.  _DoRecv does nothing.
TakeCompletion(w) ==
  /\ Defined /\ wpc[w] = "wait"
  /\ port = "open"
  /\ \E c \in Completions :
       CASE c.op = "accept" /\ slot[c.s] = "done" ->
              /\ wpc' = [wpc EXCEPT ![w] = "accept"]
              /\ wslot' = [wslot EXCEPT ![w] = c.s]
              /\ slot' = [slot EXCEPT ![c.s] = "taken"]
              /\ UNCHANGED conn
         [] c.op = "accept" /\ slot[c.s] # "done" ->
              /\ wpc' = [wpc EXCEPT ![w] = AfterFailure(c.s)]
              /\ slot' = [slot EXCEPT ![c.s] = IF slot[c.s] = "reset" THEN "spent"
                                                                     ELSE "fatal"]
              /\ UNCHANGED <<wslot, conn>>
         [] c.op = "recv" ->
              /\ wpc' = [wpc EXCEPT ![w] = "check"]
              /\ conn' = [conn EXCEPT ![c.s] = "handled"]
              /\ UNCHANGED <<wslot, slot>>
  /\ UNCHANGED <<mainVars, stopVars, exits, ownedVars, sock, faults>>

\* Whether the accept context that worker w works on has been deleted.
Dangling(w) == slot[wslot[w]] = "freed"

\* _DoAccpet up to WSASend: the client context is built from the accept
\* context and greeted; the result of WSASend is not used.
DoAccpet(w) ==
  /\ Defined /\ wpc[w] = "accept"
  /\ faults' = IF Dangling(w) THEN faults \cup {"uaf"} ELSE faults
  /\ conn' = [conn EXCEPT ![wslot[w]] = "fresh"]
  /\ wpc' = [wpc EXCEPT ![w] = "recv"]
  /\ UNCHANGED <<mainVars, stopVars, exits, wslot, ownedVars, slot, sock>>

\* _PostRecv.  Its failure removes the receive context, which closes the
\* client socket, and leaves _DoAccpet before the accept is posted again.
PostRecv(w) ==
  LET s == wslot[w] IN
  /\ Defined /\ wpc[w] = "recv"
  /\ \E ok \in Outcomes("recv") :
       /\ conn' = [conn EXCEPT ![s] = IF ok THEN "receiving" ELSE "failed"]
       /\ sock' = [sock EXCEPT ![s] = IF ok THEN sock[s] ELSE Closed(sock[s])]
       /\ wpc' = [wpc EXCEPT ![w] = IF ok THEN "repost" ELSE "check"]
       /\ wslot' = IF ok THEN wslot ELSE [wslot EXCEPT ![w] = NoSlot]
       /\ slot' = IF ok \/ Dangling(w) THEN slot
                  ELSE [slot EXCEPT ![s] = "spent"]
  /\ UNCHANGED <<mainVars, stopVars, exits, ownedVars, faults>>

\* The end of _DoAccpet: ResetBuffer and _PostAccept on the same context, whose
\* first test refuses a context that still has an accept socket.
HasAcceptSocket(s) == sock[s] # "none"

PostAcceptAgain(w) ==
  LET s == wslot[w] IN
  /\ Defined /\ wpc[w] = "repost"
  /\ faults' = IF Dangling(w) THEN faults \cup {"uaf"} ELSE faults
  /\ slot' = IF Dangling(w) THEN slot
             ELSE [slot EXCEPT ![s] = IF HasAcceptSocket(s) THEN "spent" ELSE "posted"]
  /\ wpc' = [wpc EXCEPT ![w] = "check"]
  /\ wslot' = [wslot EXCEPT ![w] = NoSlot]
  /\ UNCHANGED <<mainVars, stopVars, exits, ownedVars, sock, conn>>

WorkerStep(w) ==
  \/ CheckEvent(w)
  \/ TakeExitPacket(w)
  \/ PortGone(w)
  \/ TakeCompletion(w)
  \/ DoAccpet(w)
  \/ PostRecv(w)
  \/ PostAcceptAgain(w)

-----------------------------------------------------------------------------
(* The network: a client connects and sends its first bytes, or the posted *)
(* accept fails; a client that was greeted sends more.                     *)

AcceptOutcomes == {"done"} \cup (IF "reset" \in Failures THEN {"reset"} ELSE {})
                           \cup (IF "network" \in Failures THEN {"broken"} ELSE {})

ClientArrives(s) ==
  /\ Defined /\ slot[s] = "posted"
  /\ listen = "open"
  /\ \E r \in AcceptOutcomes : slot' = [slot EXCEPT ![s] = r]
  /\ UNCHANGED <<mainVars, stopVars, exits, workerVars, ownedVars, sock, conn,
                 faults>>

ClientSends(s) ==
  /\ Defined /\ conn[s] = "receiving"
  /\ sock[s] = "open"
  /\ conn' = [conn EXCEPT ![s] = "received"]
  /\ UNCHANGED <<mainVars, stopVars, exits, workerVars, ownedVars, slot, sock,
                 faults>>

-----------------------------------------------------------------------------
Next ==
  \/ MainStep
  \/ Interrupt
  \/ StopStep
  \/ \E w \in Workers : WorkerStep(w)
  \/ \E s \in Slots : ClientArrives(s) \/ ClientSends(s)

Spec == Init /\ [][Next]_vars

\* The scheduler runs every thread that can run.  Clients and Ctrl-C owe nothing.
Fairness ==
  /\ WF_vars(MainStep)
  /\ WF_vars(StopStep)
  /\ \A w \in Workers : WF_vars(WorkerStep(w))

FairSpec == Spec /\ Fairness

-----------------------------------------------------------------------------
(* Properties.                                                             *)

\* No execution of the program reaches undefined behaviour: an uninitialised or
\* null pointer, a deleted context, a critical section deleted twice.
NoFault == faults = {}

\* While Stop() waits in WaitForMultipleObjects there is an exit packet for
\* every worker that is still running, whatever packets the others took.  (When
\* a failing Start() has closed the port meanwhile, no worker needs one.)
ExitPacketsSuffice ==
  cpc = "wait" /\ port = "open" => Cardinality(Live) <= exits

\* Before a shutdown is signalled, a worker has ended only because it took a
\* broken completion: at most one worker is lost for each of them.
LostWorkers ==
  cpc = "idle" /\ mpc = "running" /\ port = "open" =>
    Cardinality({w \in Workers : wpc[w] = "dead"})
      = Cardinality({s \in Slots : slot[s] = "fatal"})

\* Once _DeInitialize has run to its end no accept socket is left open,
\* whether its accept was pending, completed, handled or failed.
ReleasedSocketsClosed ==
  cs = "deleted" /\ port = "null" /\ listen = "null" =>
    \A s \in Slots : sock[s] # "open"

\* Four objects of the program hold the value of an accept socket and two of
\* them close it.  The second closesocket, which may hit another socket that has
\* got the same value by then, needs a _PostRecv that failed.
SecondCloseOnlyAfterFailedReceive ==
  \A s \in Slots : sock[s] = "twice" => conn[s] = "failed"

\* A running server whose workers all wait and whose port is empty still has
\* every one of its accepts posted (the number of accepts posted at the same
\* time is MAX_POST_ACCEPT).
AcceptsKeptPosted ==
  (/\ mpc = "running" /\ cpc = "idle" /\ port = "open"
   /\ Completions = {}
   /\ \A w \in Workers : wpc[w] = "wait")
     => \A s \in Slots : slot[s] = "posted"

\* Stop() gives resources back only after every worker has ended.
ReleasedAfterWorkers ==
  mpc = "running" /\ cs = "deleted" => Live = {}

\* Every Stop() returns.
StopReturns == cpc # "idle" ~> cpc = "idle"

\* A completed accept is dealt with, unless Stop() is called first or every
\* worker has been lost to a broken completion.
AcceptHandled ==
  \A s \in Slots :
    slot[s] = "done" ~> \/ slot[s] \notin {"done", "taken"}
                        \/ cpc # "idle"
                        \/ Cardinality({r \in Slots : slot[r] = "fatal"}) >= N

\* When Start() fails, the workers it has created all end by themselves.
FailedStartDrains == mpc = "failed" ~> Live = {}

\* The server is a pool of workers: no handler runs while or after the port,
\* the event and the contexts are given back.
Pool == INSTANCE WorkerPool WITH
  phase <- IF cs = "deleted" THEN "released"
           ELSE IF cpc \in {"post", "wait", "deinit1"} THEN "draining"
           ELSE IF mpc = "running" THEN "up" ELSE "starting",
  live <- Live,
  busy <- Handling

ImplementsPool == Pool!PoolSpec
===============================================================================
