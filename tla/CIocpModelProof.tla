--------------------------- MODULE CIocpModelProof ---------------------------
(***************************************************************************)
(* Proofs about CIocpModel: the type invariant, and that Stop() posts      *)
(* enough exit packets, for any number of workers and accepts, any         *)
(* failures and Ctrl-C at any moment; then, for a server that is used as   *)
(* it can be, that it implements WorkerPool.                               *)
(*                                                                         *)
(* A worker that ends takes at most one exit packet with it, so the        *)
(* packets in the port and the ended workers together always account for   *)
(* the packets posted; when all N have been posted, what is left in the    *)
(* port covers the workers that are left.  The count is kept only from one *)
(* Stop() to its end: that no later Stop() posts again is what the         *)
(* listening context, null from the first release on, takes care of.       *)
(***************************************************************************)
EXTENDS CIocpModel, FiniteSetTheorems, TLAPS

Dead == {w \in Workers : wpc[w] = "dead"}

\* The points of Start() before the listening socket exists.
Early == {"event", "port", "create", "context", "socket"}

EarlyStart ==
  mpc \in Early =>
    /\ listen = IF mpc = "socket" THEN "raw" ELSE "uninit"
    /\ cpc \in {"idle", "check"}
    /\ posted = 0

OnSlot == \A w \in Workers : w \in Handling => wslot[w] \in Slots

FirstStop ==
  /\ exits <= posted
  /\ cpc \in {"idle", "check"} /\ listen # "null" => exits = 0
  /\ cpc = "signal" => exits = 0
  /\ cpc = "wait" => posted = N

PacketsAccounted == port = "open" => posted <= exits + Cardinality(Dead)

IInv == TypeOK /\ EarlyStart /\ OnSlot /\ FirstStop /\ PacketsAccounted

-----------------------------------------------------------------------------
LEMMA NType == N \in Nat /\ N > 0
  <1>1. IsFiniteSet(Workers) /\ Workers # {}
    BY WorkersAssumption
  <1>2. Cardinality(Workers) \in Nat /\ Cardinality(Workers) # 0
    BY <1>1, FS_CardinalityType, FS_EmptySet
  <1> QED
    BY <1>2 DEF N

LEMMA DeadType ==
  /\ IsFiniteSet(Dead)
  /\ Cardinality(Dead) \in Nat
  <1>1. Dead \subseteq Workers
    BY DEF Dead
  <1> QED
    BY <1>1, WorkersAssumption, FS_Subset, FS_CardinalityType

\* More dead workers never count as fewer.
LEMMA DeadGrows ==
  ASSUME Dead \subseteq Dead'
  PROVE  Cardinality(Dead) <= Cardinality(Dead') /\ Cardinality(Dead') \in Nat
  <1>1. Dead' \subseteq Workers
    BY DEF Dead
  <1>2. IsFiniteSet(Dead')
    BY <1>1, WorkersAssumption, FS_Subset
  <1> QED
    BY <1>2, FS_Subset, FS_CardinalityType

\* A worker that ends adds one.
LEMMA DeadPlusOne ==
  ASSUME NEW w \in Workers, wpc \in [Workers -> WorkerPoints], wpc[w] # "dead",
         wpc' = [wpc EXCEPT ![w] = "dead"]
  PROVE  Cardinality(Dead') = Cardinality(Dead) + 1
  <1>1. Dead' = Dead \cup {w} /\ w \notin Dead
    BY DEF Dead
  <1> QED
    BY <1>1, DeadType, FS_AddElement

\* Live and dead workers are different workers, so there are at most N of both.
LEMMA LiveAndDead ==
  /\ Cardinality(Live) \in Nat
  /\ Cardinality(Live) + Cardinality(Dead) <= N
  <1>1. Live \subseteq Workers /\ Dead \subseteq Workers /\ Live \cap Dead = {}
    BY DEF Live, Dead
  <1>2. IsFiniteSet(Live) /\ IsFiniteSet(Dead)
    BY <1>1, WorkersAssumption, FS_Subset
  <1>3. Cardinality(Live \cup Dead)
          = Cardinality(Live) + Cardinality(Dead) - Cardinality(Live \cap Dead)
    BY <1>2, FS_Union
  <1>4. Cardinality(Live \cup Dead) <= Cardinality(Workers)
    BY <1>1, WorkersAssumption, FS_Subset
  <1>5. Cardinality(Live \cap Dead) = 0
    BY <1>1, FS_EmptySet
  <1>6. Cardinality(Live) \in Nat /\ Cardinality(Dead) \in Nat
    BY <1>2, FS_CardinalityType
  <1>7. Cardinality(Workers) \in Nat
    BY WorkersAssumption, FS_CardinalityType
  <1> QED
    BY <1>3, <1>4, <1>5, <1>6, <1>7 DEF N

\* Releasing the resources keeps them, the workers and the contexts well typed.
LEMMA DeInitializeTypes ==
  ASSUME TypeOK, DeleteLocks \/ ClosePort \/ DeleteListenContext
  PROVE  /\ exits' \in 0 .. N
         /\ wpc' \in [Workers -> WorkerPoints]
         /\ wslot' \in [Workers -> Slots \cup {NoSlot}]
         /\ event' \in {"null", "clear", "set"}
         /\ cs' \in {"none", "live", "deleted"}
         /\ port' \in {"null", "open"}
         /\ handles' \in BOOLEAN
         /\ listen' \in {"uninit", "null", "raw", "open"}
         /\ extension' \in BOOLEAN
         /\ slot' \in [Slots -> SlotStates]
         /\ sock' \in [Slots -> {"none", "open", "closed", "twice"}]
         /\ conn' \in [Slots -> {"none", "fresh", "receiving", "received",
                                 "handled", "failed"}]
         /\ faults' \subseteq {"uninit", "nullptr", "uaf", "doubledelete"}
  <1>1. CASE DeleteLocks
    BY <1>1 DEF DeleteLocks, TypeOK, ioVars
  <1>2. CASE ClosePort
    BY <1>2 DEF ClosePort, TypeOK, ioVars
  <1>3. CASE DeleteListenContext
    <2>1. \A x : Closed(x) \in {"none", "closed", "twice"}
      BY DEF Closed
    <2>2. /\ slot' \in [Slots -> SlotStates]
          /\ sock' \in [Slots -> {"none", "open", "closed", "twice"}]
      BY <1>3, <2>1 DEF DeleteListenContext, OwnedContexts, TypeOK, SlotStates
    <2> QED
      BY <1>3, <2>2 DEF DeleteListenContext, TypeOK
  <1> QED
    BY <1>1, <1>2, <1>3

-----------------------------------------------------------------------------
\* The initial states satisfy the invariant.
LEMMA InitIInv == Init => IInv
  <1> SUFFICES ASSUME Init PROVE IInv
    OBVIOUS
  <1>1. TypeOK
    <2>1. posted \in 0 .. N /\ exits \in 0 .. N
      BY NType DEF Init
    <2>2. /\ wpc \in [Workers -> WorkerPoints]
          /\ wslot \in [Workers -> Slots \cup {NoSlot}]
      BY DEF Init, WorkerPoints
    <2>3. /\ slot \in [Slots -> SlotStates]
          /\ sock \in [Slots -> {"none", "open", "closed", "twice"}]
          /\ conn \in [Slots -> {"none", "fresh", "receiving", "received",
                                 "handled", "failed"}]
      BY DEF Init, SlotStates
    <2> QED
      BY <2>1, <2>2, <2>3 DEF Init, TypeOK, MainPoints
  <1>2. EarlyStart /\ OnSlot /\ FirstStop /\ PacketsAccounted
    BY DEF Init, EarlyStart, Early, OnSlot, Handling, FirstStop, PacketsAccounted
  <1> QED
    BY <1>1, <1>2 DEF IInv

\* A step of Start() keeps it.
LEMMA MainStepIInv == IInv /\ MainStep => IInv'
  <1> SUFFICES ASSUME IInv, MainStep PROVE IInv'
    OBVIOUS
  <1> USE NType DEF IInv
  <1>1. ASSUME Dead \subseteq Dead', UNCHANGED <<exits, posted>>,
               port' = "open" => port = "open" \/ posted = 0
        PROVE  PacketsAccounted'
    BY <1>1, DeadGrows, DeadType DEF PacketsAccounted, TypeOK
  <1>2. CASE CreateShutdownEvent
    <2>1. TypeOK'
      BY <1>2 DEF CreateShutdownEvent, TypeOK, MainPoints, stopVars, workerVars, ioVars
    <2> QED
      BY <1>1, <1>2, <2>1 DEF CreateShutdownEvent, EarlyStart, Early, OnSlot, Handling, Dead,
            FirstStop, stopVars, workerVars, ioVars
  <1>3. CASE CreatePort
    <2>1. TypeOK'
      BY <1>3 DEF CreatePort, TypeOK, MainPoints, Outcomes, stopVars, workerVars, ioVars
    <2> QED
      BY <1>1, <1>3, <2>1 DEF CreatePort, EarlyStart, Early, OnSlot, Handling, Dead,
            FirstStop, stopVars, workerVars, ioVars
  <1>4. ASSUME NEW w \in Workers, CreateWorker(w) PROVE IInv'
    <2>1. TypeOK'
      BY <1>4 DEF CreateWorker, TypeOK, WorkerPoints, mainVars, stopVars, ownedVars, ioVars
    <2>2. OnSlot' /\ Dead \subseteq Dead'
      BY <1>4 DEF CreateWorker, TypeOK, OnSlot, Handling, Dead
    <2> QED
      BY <1>1, <1>4, <2>1, <2>2 DEF CreateWorker, EarlyStart, Early,
            FirstStop, mainVars, stopVars, ownedVars, ioVars
  <1>5. CASE WorkersCreated
    <2>1. TypeOK'
      BY <1>5 DEF WorkersCreated, TypeOK, MainPoints, stopVars, workerVars, ownedVars, ioVars
    <2> QED
      BY <1>1, <1>5, <2>1 DEF WorkersCreated, EarlyStart, Early, OnSlot, Handling, Dead,
            FirstStop, stopVars, workerVars, ownedVars, ioVars
  <1>6. CASE NewListenContext
    <2>1. TypeOK'
      BY <1>6 DEF NewListenContext, TypeOK, MainPoints, stopVars, workerVars, ioVars
    <2> QED
      BY <1>1, <1>6, <2>1 DEF NewListenContext, EarlyStart, Early, OnSlot, Handling, Dead,
            FirstStop, stopVars, workerVars, ioVars
  <1>7. CASE CreateListenSocket
    <2>1. TypeOK'
      BY <1>7 DEF CreateListenSocket, TypeOK, MainPoints, stopVars, workerVars, ioVars
    <2> QED
      BY <1>1, <1>7, <2>1 DEF CreateListenSocket, EarlyStart, Early, OnSlot, Handling, Dead,
            FirstStop, stopVars, workerVars, ioVars
  <1>8. CASE AssociateListenSocket
    <2>1. TypeOK'
      BY <1>8 DEF AssociateListenSocket, TypeOK, MainPoints, stopVars, workerVars, ioVars
    <2> QED
      BY <1>1, <1>8, <2>1 DEF AssociateListenSocket, EarlyStart, Early, OnSlot, Handling,
            Dead, FirstStop, stopVars, workerVars, ioVars
  <1>9. CASE BindAndListen
    <2>1. TypeOK'
      BY <1>9 DEF BindAndListen, TypeOK, MainPoints, stopVars, workerVars, ioVars
    <2> QED
      BY <1>1, <1>9, <2>1 DEF BindAndListen, EarlyStart, Early, OnSlot, Handling, Dead,
            FirstStop, stopVars, workerVars, ioVars
  <1>10. ASSUME NEW s \in Slots, PostFirstAccept(s) PROVE IInv'
    <2>1. TypeOK'
      BY <1>10 DEF PostFirstAccept, TypeOK, MainPoints, SlotStates, stopVars, workerVars,
            ownedVars
    <2> QED
      BY <1>1, <1>10, <2>1 DEF PostFirstAccept, EarlyStart, Early, OnSlot, Handling, Dead,
            FirstStop, stopVars, workerVars, ownedVars
  <1>11. CASE Started
    <2>1. TypeOK'
      BY <1>11 DEF Started, TypeOK, MainPoints, stopVars, workerVars, ownedVars, ioVars
    <2> QED
      BY <1>1, <1>11, <2>1 DEF Started, EarlyStart, Early, OnSlot, Handling, Dead,
            FirstStop, stopVars, workerVars, ownedVars, ioVars
  <1>12. CASE StartDeInitialize
    <2>1. /\ mpc' \in MainPoints
          /\ UNCHANGED stopVars
          /\ DeleteLocks \/ ClosePort \/ DeleteListenContext
      BY <1>12 DEF StartDeInitialize, MainPoints
    <2>2. TypeOK'
      BY <2>1, DeInitializeTypes DEF TypeOK, stopVars
    <2> QED
      BY <1>1, <1>12, <2>2 DEF StartDeInitialize, DeleteLocks, ClosePort,
            DeleteListenContext, EarlyStart, Early, OnSlot, Handling, Dead, FirstStop,
            stopVars, ioVars
  <1> QED
    BY <1>2, <1>3, <1>4, <1>5, <1>6, <1>7, <1>8, <1>9, <1>10, <1>11, <1>12 DEF MainStep

\* A step of the control thread keeps it: a packet posted is a packet in the
\* port, and the end of a Stop() leaves no listening context for another.
LEMMA StopStepIInv == IInv /\ (Interrupt \/ StopStep) => IInv'
  <1> SUFFICES ASSUME IInv, Interrupt \/ StopStep PROVE IInv'
    OBVIOUS
  <1> USE NType DEF IInv
  <1>1. OnSlot' /\ Dead' = Dead
    BY DEF Interrupt, StopStep, StopCheck, SignalShutdown, PostExitPacket,
          ExitPacketsPosted, WaitWorkers, StopDeInitialize, DeleteLocks, ClosePort,
          DeleteListenContext, OnSlot, Handling, Dead, workerVars
  <1>2. Cardinality(Dead') = Cardinality(Dead) /\ Cardinality(Dead) \in Nat
    BY <1>1, DeadType
  <1>3. CASE Interrupt
    <2>1. TypeOK'
      BY <1>3 DEF Interrupt, TypeOK, mainVars, workerVars, ownedVars, ioVars
    <2> QED
      BY <1>1, <1>2, <1>3, <2>1 DEF Interrupt, EarlyStart, FirstStop, PacketsAccounted,
            mainVars, ownedVars
  <1>4. CASE StopCheck
    <2>1. TypeOK'
      BY <1>4 DEF StopCheck, StopRuns, TypeOK, mainVars, workerVars, ownedVars, ioVars
    <2> QED
      BY <1>1, <1>2, <1>4, <2>1 DEF StopCheck, StopRuns, EarlyStart, FirstStop, PacketsAccounted,
            mainVars, ownedVars
  <1>5. CASE SignalShutdown
    <2>1. TypeOK'
      BY <1>5 DEF SignalShutdown, TypeOK, mainVars, workerVars, ioVars
    <2> QED
      BY <1>1, <1>2, <1>5, <2>1 DEF SignalShutdown, EarlyStart, FirstStop,
            PacketsAccounted, TypeOK, mainVars
  <1>6. CASE PostExitPacket
    <2>1. TypeOK'
      BY <1>6 DEF PostExitPacket, ExitPacketsDue, TypeOK, FirstStop, mainVars, workerVars,
            ownedVars, ioVars
    <2> QED
      BY <1>1, <1>2, <1>6, <2>1 DEF PostExitPacket, EarlyStart, FirstStop,
            PacketsAccounted, TypeOK, mainVars, ownedVars
  <1>7. CASE ExitPacketsPosted
    <2>1. TypeOK'
      BY <1>7 DEF ExitPacketsPosted, TypeOK, mainVars, workerVars, ownedVars, ioVars
    <2> QED
      BY <1>1, <1>2, <1>7, <2>1 DEF ExitPacketsPosted, ExitPacketsDue, EarlyStart, FirstStop,
            PacketsAccounted, mainVars, ownedVars
  <1>8. CASE WaitWorkers
    <2>1. TypeOK'
      BY <1>8 DEF WaitWorkers, TypeOK, mainVars, workerVars, ownedVars, ioVars
    <2> QED
      BY <1>1, <1>2, <1>8, <2>1 DEF WaitWorkers, EarlyStart, FirstStop, PacketsAccounted,
            mainVars, ownedVars
  <1>9. CASE StopDeInitialize
    <2>1. /\ cpc' \in {"deinit2", "deinit3", "idle"}
          /\ UNCHANGED <<mainVars, posted>>
          /\ DeleteLocks \/ ClosePort \/ DeleteListenContext
      BY <1>9 DEF StopDeInitialize
    <2>2. TypeOK'
      BY <2>1, DeInitializeTypes DEF TypeOK, mainVars
    <2> QED
      BY <1>1, <1>2, <1>9, <2>2 DEF StopDeInitialize, DeleteLocks, ClosePort,
            DeleteListenContext, EarlyStart, FirstStop, PacketsAccounted, mainVars
  <1> QED
    BY <1>3, <1>4, <1>5, <1>6, <1>7, <1>8, <1>9 DEF StopStep

\* A step of a worker keeps it: the packet it takes is made up for by its end.
LEMMA WorkerStepIInv ==
  ASSUME IInv, NEW w \in Workers, WorkerStep(w)
  PROVE  IInv'
  <1> USE NType DEF IInv
  <1>1. UNCHANGED <<mpc, cpc, posted, listen, port>>
    BY DEF WorkerStep, CheckEvent, TakeExitPacket, PortGone, TakeCompletion, DoAccpet,
          PostRecv, PostAcceptAgain, mainVars, stopVars, ownedVars
  <1>2. ASSUME TypeOK', OnSlot', UNCHANGED exits, Dead \subseteq Dead' PROVE IInv'
    <2>1. PacketsAccounted'
      BY <1>1, <1>2, DeadGrows, DeadType DEF PacketsAccounted, TypeOK
    <2> QED
      BY <1>1, <1>2, <2>1 DEF EarlyStart, FirstStop
  <1>3. CASE CheckEvent(w)
    <2>1. TypeOK'
      BY <1>3 DEF CheckEvent, TypeOK, WorkerPoints, mainVars, stopVars, ownedVars, ioVars
    <2>2. OnSlot' /\ Dead \subseteq Dead' /\ UNCHANGED exits
      BY <1>3 DEF CheckEvent, TypeOK, OnSlot, Handling, Dead
    <2> QED
      BY <1>2, <2>1, <2>2
  <1>4. CASE TakeExitPacket(w)
    <2>1. TypeOK'
      BY <1>4 DEF TakeExitPacket, TypeOK, WorkerPoints, mainVars, stopVars, ownedVars, ioVars
    <2>2. OnSlot'
      BY <1>4 DEF TakeExitPacket, TypeOK, OnSlot, Handling
    <2>3. Cardinality(Dead') = Cardinality(Dead) + 1 /\ Cardinality(Dead) \in Nat
      BY <1>4, DeadPlusOne, DeadType DEF TakeExitPacket, TypeOK
    <2>4. exits' = exits - 1 /\ exits > 0
      BY <1>4 DEF TakeExitPacket
    <2>5. PacketsAccounted'
      BY <1>1, <2>3, <2>4 DEF PacketsAccounted, TypeOK
    <2>6. EarlyStart' /\ FirstStop'
      BY <1>1, <2>4 DEF EarlyStart, FirstStop, TypeOK
    <2> QED
      BY <2>1, <2>2, <2>5, <2>6
  <1>5. CASE PortGone(w)
    <2>1. TypeOK'
      BY <1>5 DEF PortGone, TypeOK, WorkerPoints, mainVars, stopVars, ownedVars, ioVars
    <2>2. OnSlot' /\ Dead \subseteq Dead' /\ UNCHANGED exits
      BY <1>5 DEF PortGone, TypeOK, OnSlot, Handling, Dead
    <2> QED
      BY <1>2, <2>1, <2>2
  <1>6. CASE TakeCompletion(w)
    <2>1. PICK c \in Completions : TakeCompletion(w)!3!(c)
      BY <1>6 DEF TakeCompletion
    <2>2. c.op = "accept" /\ c.s \in Slots
      BY <2>1 DEF Completions, AssociatedClients
    <2>3. /\ UNCHANGED <<exits, conn, sock, faults, event, cs, handles, extension>>
          /\ wpc[w] = "wait"
      BY <1>6, <2>1, <2>2 DEF TakeCompletion, ownedVars
    <2>4. \/ /\ wpc' = [wpc EXCEPT ![w] = "accept"]
             /\ wslot' = [wslot EXCEPT ![w] = c.s]
             /\ slot' = [slot EXCEPT ![c.s] = "taken"]
          \/ /\ wpc' = [wpc EXCEPT ![w] = AfterFailure(c.s)]
             /\ slot' = [slot EXCEPT ![c.s] = IF slot[c.s] = "reset" THEN "spent"
                                                                   ELSE "fatal"]
             /\ UNCHANGED wslot
      BY <2>1, <2>2
    <2>5. TypeOK'
      BY <1>1, <2>2, <2>3, <2>4 DEF TypeOK, WorkerPoints, SlotStates, AfterFailure
    <2>6. OnSlot' /\ Dead \subseteq Dead'
      BY <2>2, <2>3, <2>4 DEF TypeOK, OnSlot, Handling, Dead, AfterFailure
    <2> QED
      BY <1>2, <2>3, <2>5, <2>6
  <1>7. CASE DoAccpet(w)
    <2>1. TypeOK'
      <3>1. /\ wpc' = [wpc EXCEPT ![w] = "recv"] /\ conn' = [conn EXCEPT ![wslot[w]] = "fresh"]
            /\ faults' = faults \/ faults' = faults \cup {"uaf"}
        BY <1>7 DEF DoAccpet
      <3>2. UNCHANGED <<mpc, cpc, posted, exits, wslot, event, cs, port, handles, listen,
                        extension, slot, sock>>
        BY <1>7 DEF DoAccpet, mainVars, stopVars, ownedVars
      <3>3. wpc' \in [Workers -> WorkerPoints]
        BY <3>1 DEF TypeOK, WorkerPoints
      <3>4. conn' \in [Slots -> {"none", "fresh", "receiving", "received", "handled", "failed"}]
        BY <3>1 DEF TypeOK
      <3>5. faults' \subseteq {"uninit", "nullptr", "uaf", "doubledelete"}
        BY <3>1 DEF TypeOK
      <3> QED
        BY <3>2, <3>3, <3>4, <3>5 DEF TypeOK
    <2>2. OnSlot' /\ Dead \subseteq Dead' /\ UNCHANGED exits
      BY <1>7 DEF DoAccpet, TypeOK, OnSlot, Handling, Dead
    <2> QED
      BY <1>2, <2>1, <2>2
  <1>8. CASE PostRecv(w)
    <2>1. wslot[w] \in Slots
      BY <1>8 DEF PostRecv, OnSlot, Handling
    <2>2. \A x : Closed(x) \in {"none", "closed", "twice"}
      BY DEF Closed
    <2>3. TypeOK'
      BY <1>8, <2>1, <2>2 DEF PostRecv, TypeOK, WorkerPoints, SlotStates, mainVars, stopVars,
            ownedVars
    <2>4. OnSlot' /\ Dead \subseteq Dead' /\ UNCHANGED exits
      BY <1>8 DEF PostRecv, TypeOK, OnSlot, Handling, Dead
    <2> QED
      BY <1>2, <2>3, <2>4
  <1>9. CASE PostAcceptAgain(w)
    <2>1. TypeOK'
      <3> DEFINE s == wslot[w]
      <3>1. /\ wpc' = [wpc EXCEPT ![w] = "check"] /\ wslot' = [wslot EXCEPT ![w] = NoSlot]
            /\ \/ slot' = slot
               \/ slot' = [slot EXCEPT ![s] = "spent"]
               \/ slot' = [slot EXCEPT ![s] = "posted"]
            /\ faults' = faults \/ faults' = faults \cup {"uaf"}
        BY <1>9 DEF PostAcceptAgain
      <3>2. UNCHANGED <<mpc, cpc, posted, exits, event, cs, port, handles, listen,
                        extension, sock, conn>>
        BY <1>9 DEF PostAcceptAgain, mainVars, stopVars, ownedVars
      <3> HIDE DEF s
      <3>3. wpc' \in [Workers -> WorkerPoints] /\ wslot' \in [Workers -> Slots \cup {NoSlot}]
        BY <3>1 DEF TypeOK, WorkerPoints
      <3>4. slot' \in [Slots -> SlotStates]
        BY <3>1 DEF TypeOK, SlotStates
      <3>5. faults' \subseteq {"uninit", "nullptr", "uaf", "doubledelete"}
        BY <3>1 DEF TypeOK
      <3> QED
        BY <3>2, <3>3, <3>4, <3>5 DEF TypeOK
    <2>2. OnSlot' /\ Dead \subseteq Dead' /\ UNCHANGED exits
      BY <1>9 DEF PostAcceptAgain, TypeOK, OnSlot, Handling, Dead
    <2> QED
      BY <1>2, <2>1, <2>2
  <1> QED
    BY <1>3, <1>4, <1>5, <1>6, <1>7, <1>8, <1>9 DEF WorkerStep

\* The network touches neither threads nor packets.
LEMMA NetworkStepIInv ==
  ASSUME IInv, NEW s \in Slots, ClientArrives(s) \/ ClientSends(s)
  PROVE  IInv'
  <1> USE DEF IInv
  <1>1. TypeOK'
    <2>1. AcceptOutcomes \subseteq SlotStates
      BY DEF AcceptOutcomes, SlotStates
    <2>2. CASE ClientArrives(s)
      <3>1. slot' \in [Slots -> SlotStates]
        BY <2>1, <2>2 DEF ClientArrives, TypeOK
      <3> QED
        BY <2>2, <3>1 DEF ClientArrives, TypeOK, mainVars, stopVars, workerVars, ownedVars
    <2>3. CASE ClientSends(s)
      BY <2>3 DEF ClientSends, TypeOK, mainVars, stopVars, workerVars, ownedVars
    <2> QED
      BY <2>2, <2>3
  <1>2. Dead' = Dead /\ OnSlot'
    BY DEF ClientArrives, ClientSends, Dead, OnSlot, Handling, workerVars
  <1> QED
    BY <1>1, <1>2 DEF ClientArrives, ClientSends, EarlyStart, FirstStop, PacketsAccounted,
          mainVars, stopVars, ownedVars

\* The invariant is inductive.
LEMMA NextIInv == IInv /\ [Next]_vars => IInv'
  <1> SUFFICES ASSUME IInv, [Next]_vars PROVE IInv'
    OBVIOUS
  <1>1. CASE Next
    BY <1>1, MainStepIInv, StopStepIInv, WorkerStepIInv, NetworkStepIInv DEF Next
  <1>2. CASE UNCHANGED vars
    BY <1>2 DEF vars, IInv, TypeOK, EarlyStart, OnSlot, Handling, FirstStop,
          PacketsAccounted, Dead
  <1> QED
    BY <1>1, <1>2

-----------------------------------------------------------------------------
\* Every variable keeps its type: no more exit packets are in the port than
\* there are workers, and no Stop() posts more.
THEOREM TypeInvariance == Spec => []TypeOK
  <1>1. IInv => TypeOK
    BY DEF IInv
  <1> QED
    BY InitIInv, NextIInv, <1>1, PTL DEF Spec

\* When Stop() waits in WaitForMultipleObjects there is an exit packet for each
\* worker still running, for any number of processors: the wait cannot be for
\* a worker that nothing will wake.
THEOREM ExitPacketsInvariance == Spec => []ExitPacketsSuffice
  <1>1. IInv => ExitPacketsSuffice
    <2> SUFFICES ASSUME IInv, cpc = "wait", port = "open"
                 PROVE  Cardinality(Live) <= exits
      BY DEF ExitPacketsSuffice
    <2>1. N <= exits + Cardinality(Dead)
      BY DEF IInv, FirstStop, PacketsAccounted
    <2>2. exits \in Nat /\ N \in Nat
      BY NType DEF IInv, TypeOK
    <2> QED
      BY <2>1, <2>2, LiveAndDead, DeadType
  <1> QED
    BY InitIInv, NextIInv, <1>1, PTL DEF Spec

-----------------------------------------------------------------------------
(* Proof that the server implements WorkerPool when it is used as it can   *)
(* be: with no more workers than WaitForMultipleObjects takes, with every  *)
(* thread created and every accept posted, and with Ctrl-C only after      *)
(* Start() has returned.  Without any of these the wait fails, or contexts *)
(* go while workers run, or Stop() reads what is not initialised yet.      *)
(*                                                                         *)
(* The invariant says where the resources are released: in Start() before  *)
(* any accept is posted, so no worker handles one; in Stop() after the     *)
(* wait, so no worker is left; and never twice.                            *)

ProperUse ==
  /\ N <= MaxWait
  /\ StopWindow \subseteq {"running", "failed"}
  /\ Failures \cap {"thread", "accept"} = {}

\* Stop() runs only after Start() and gets past its test only if Start() succeeded.
StopAfterStart ==
  /\ cpc # "idle" => mpc \in {"running", "failed"}
  /\ cpc \notin {"idle", "check"} => mpc = "running"
  /\ mpc = "failed" => listen # "open"

\* Outside of the posting of accepts and of the running server nothing is handled.
NothingPosted ==
  mpc \notin {"post", "running"} =>
    Handling = {} /\ \A s \in Slots : slot[s] = "none"

\* Every worker has a handle to wait for until the handles are released.
AllHandles ==
  /\ \A w \in Workers : wpc[w] # "absent"
  /\ mpc \notin {"event", "port", "deinit3", "failed"} /\ cs # "deleted" => handles

\* Where the first release has been made.
Released ==
  /\ mpc \notin {"running", "deinit2", "deinit3", "failed"} => cs # "deleted"
  /\ cpc \in {"signal", "post", "wait", "deinit1"} => cs # "deleted"
  /\ cpc \in {"deinit2", "deinit3"} => cs = "deleted"
  /\ mpc = "running" /\ (cpc = "deinit1" \/ cs = "deleted") => Live = {}
  /\ mpc = "running" /\ cpc \in {"idle", "check"} /\ cs = "deleted" => listen # "open"

RInv == StopAfterStart /\ NothingPosted /\ AllHandles /\ Released

\* The mapping of the refinement, as CIocpModel gives it to WorkerPool.
Phase == IF cs = "deleted" THEN "released"
         ELSE IF cpc \in {"post", "wait", "deinit1"} THEN "draining"
         ELSE IF mpc = "running" THEN "up" ELSE "starting"

-----------------------------------------------------------------------------
LEMMA InitRInv == Init => RInv
  BY DEF Init, RInv, StopAfterStart, NothingPosted, Handling, AllHandles, Released

LEMMA InitPool == Init => Pool!PoolInit
  BY DEF Init, Pool!PoolInit, Live, Handling

\* A step of Start(): it maps to Spawn, Open, Release or a stutter.
LEMMA MainStepPool ==
  ASSUME ProperUse, IInv, RInv, MainStep
  PROVE  RInv' /\ [Pool!PoolNext]_(Pool!poolVars)
  <1> USE DEF RInv
  <1>1. cpc \in {"idle", "check"} /\ cpc' = cpc
    BY DEF MainStep, CreateShutdownEvent, CreatePort, CreateWorker, WorkersCreated,
          NewListenContext, CreateListenSocket, AssociateListenSocket, BindAndListen,
          PostFirstAccept, Started, StartDeInitialize, StopAfterStart, stopVars
  <1>2. cpc = "idle"
    BY DEF MainStep, CreateShutdownEvent, CreatePort, CreateWorker, WorkersCreated,
          NewListenContext, CreateListenSocket, AssociateListenSocket, BindAndListen,
          PostFirstAccept, Started, StartDeInitialize, StopAfterStart
  <1>3. ASSUME NEW w \in Workers, CreateWorker(w) PROVE RInv' /\ Pool!Spawn(w)
    <2>1. wpc' = [wpc EXCEPT ![w] = "check"] /\ mpc = "create" /\ wpc[w] = "none"
      BY <1>3 DEF CreateWorker, ProperUse, Outcomes
    <2>2. UNCHANGED <<mpc, cpc, cs, listen, handles, slot, event>>
      BY <1>3 DEF CreateWorker, mainVars, stopVars, ownedVars, ioVars
    <2>3. wpc \in [Workers -> WorkerPoints]
      BY DEF IInv, TypeOK
    <2>4. Live' = Live \cup {w} /\ Handling' = Handling
      BY <2>1, <2>3 DEF Live, Handling
    <2>5. RInv'
      BY <2>1, <2>2, <2>3, <2>4 DEF StopAfterStart, NothingPosted, AllHandles, Released
    <2>6. Pool!Spawn(w)
      BY <1>2, <2>1, <2>2, <2>4 DEF Pool!Spawn, Released
    <2> QED
      BY <2>5, <2>6
  <1>4. CASE CreateShutdownEvent
    <2>1. RInv'
      BY <1>2, <1>4 DEF CreateShutdownEvent, StopAfterStart, NothingPosted, AllHandles,
            Released, Handling, Live, stopVars, workerVars, ioVars
    <2>2. UNCHANGED Pool!poolVars
      BY <1>1, <1>2, <1>4 DEF CreateShutdownEvent, Released, Handling, Live, workerVars,
            Pool!poolVars
    <2> QED
      BY <2>1, <2>2
  <1>5. CASE CreatePort
    <2>1. RInv'
      BY <1>2, <1>5 DEF CreatePort, IInv, EarlyStart, Early, StopAfterStart, NothingPosted,
            AllHandles, Released, Handling, Live, stopVars, workerVars, ioVars
    <2>2. UNCHANGED Pool!poolVars
      BY <1>1, <1>2, <1>5 DEF CreatePort, Released, Handling, Live, workerVars,
            Pool!poolVars
    <2> QED
      BY <2>1, <2>2
  <1>6. CASE WorkersCreated \/ NewListenContext \/ CreateListenSocket
               \/ AssociateListenSocket \/ BindAndListen
    <2>1. /\ mpc \notin {"event", "port", "post", "running", "deinit1", "deinit2",
                         "deinit3", "failed"}
          /\ mpc' \notin {"event", "port", "running", "deinit2", "deinit3", "failed"}
          /\ UNCHANGED <<cpc, cs, handles, wpc, slot>>
      BY <1>6 DEF WorkersCreated, NewListenContext, CreateListenSocket,
            AssociateListenSocket, BindAndListen, stopVars, workerVars, ownedVars, ioVars
    <2>2. RInv'
      BY <1>2, <2>1 DEF StopAfterStart, NothingPosted, AllHandles, Released, Handling, Live
    <2>3. UNCHANGED Pool!poolVars
      BY <1>2, <2>1 DEF Released, Handling, Live, Pool!poolVars
    <2> QED
      BY <2>2, <2>3
  <1>7. ASSUME NEW s \in Slots, PostFirstAccept(s)
        PROVE  RInv' /\ UNCHANGED Pool!poolVars
    <2>1. mpc = "post" /\ mpc' = "post"
      BY <1>7 DEF PostFirstAccept, ProperUse, Outcomes
    <2>2. UNCHANGED <<cpc, cs, handles, listen, wpc>>
      BY <1>7 DEF PostFirstAccept, stopVars, workerVars, ownedVars
    <2>3. RInv'
      BY <2>1, <2>2 DEF StopAfterStart, NothingPosted, AllHandles, Released, Live
    <2>4. UNCHANGED Pool!poolVars
      BY <2>1, <2>2 DEF Handling, Live, Pool!poolVars
    <2> QED
      BY <2>3, <2>4
  <1>8. CASE Started
    <2>1. mpc = "post" /\ mpc' = "running" /\ UNCHANGED <<cpc, cs, handles, listen, wpc>>
      BY <1>8 DEF Started, stopVars, workerVars, ownedVars
    <2>2. RInv'
      BY <1>2, <2>1 DEF StopAfterStart, NothingPosted, AllHandles, Released, Live
    <2>3. Pool!Open
      BY <1>2, <2>1 DEF Pool!Open, Released, Live, Handling
    <2> QED
      BY <2>2, <2>3 DEF Pool!PoolNext
  <1>9. CASE StartDeInitialize
    <2>1. CASE mpc = "deinit1"
      <3>1. /\ mpc' = "deinit2" /\ cs' = "deleted"
            /\ UNCHANGED <<cpc, handles, listen, wpc, slot>>
        BY <1>9, <2>1 DEF StartDeInitialize, DeleteLocks, stopVars, ioVars
      <3>2. RInv'
        BY <1>2, <2>1, <3>1 DEF StopAfterStart, NothingPosted, AllHandles, Released, Handling
      <3>3. Pool!Release
        BY <1>2, <2>1, <3>1 DEF Pool!Release, Released, NothingPosted, Live, Handling
      <3> QED
        BY <3>2, <3>3 DEF Pool!PoolNext
    <2>2. CASE mpc = "deinit2"
      <3>1. mpc' = "deinit3" /\ UNCHANGED <<cpc, cs, listen, wpc, slot>>
        BY <1>9, <2>2 DEF StartDeInitialize, ClosePort, stopVars, ioVars
      <3>2. RInv'
        BY <1>2, <2>2, <3>1 DEF StopAfterStart, NothingPosted, AllHandles, Released, Handling
      <3>3. UNCHANGED Pool!poolVars
        BY <1>2, <2>2, <3>1 DEF Live, Handling, Pool!poolVars
      <3> QED
        BY <3>2, <3>3
    <2>3. CASE mpc = "deinit3"
      <3>1. mpc' = "failed" /\ listen' = "null" /\ UNCHANGED <<cpc, cs, handles, wpc>>
        BY <1>9, <2>3 DEF StartDeInitialize, DeleteListenContext, stopVars
      <3>2. \A s \in Slots : slot'[s] = "none"
        BY <1>9, <2>3 DEF StartDeInitialize, DeleteListenContext, OwnedContexts,
              NothingPosted
      <3>3. RInv'
        BY <1>2, <2>3, <3>1, <3>2 DEF StopAfterStart, NothingPosted, AllHandles, Released,
              Handling
      <3>4. UNCHANGED Pool!poolVars
        BY <1>2, <2>3, <3>1 DEF Live, Handling, Pool!poolVars
      <3> QED
        BY <3>3, <3>4
    <2> QED
      BY <1>9, <2>1, <2>2, <2>3 DEF StartDeInitialize
  <1> QED
    BY <1>3, <1>4, <1>5, <1>6, <1>7, <1>8, <1>9 DEF MainStep, Pool!PoolNext

\* A step of the control thread: it maps to Drain, Release or a stutter.
LEMMA StopStepPool ==
  ASSUME ProperUse, RInv, Interrupt \/ StopStep
  PROVE  RInv' /\ [Pool!PoolNext]_(Pool!poolVars)
  <1> USE DEF RInv
  <1>1. UNCHANGED <<mpc, wpc>>
    BY DEF Interrupt, StopStep, StopCheck, SignalShutdown, PostExitPacket,
          ExitPacketsPosted, WaitWorkers, StopDeInitialize, DeleteLocks, ClosePort,
          DeleteListenContext, mainVars, workerVars
  <1>2. Live' = Live /\ Handling' = Handling
    BY <1>1 DEF Live, Handling
  <1>3. CASE Interrupt
    <2>1. /\ cpc = "idle" /\ cpc' = "check" /\ mpc \in {"running", "failed"}
          /\ UNCHANGED <<cs, handles, listen, slot>>
      BY <1>3 DEF Interrupt, ProperUse, ownedVars, ioVars
    <2>2. RInv'
      BY <1>1, <1>2, <2>1 DEF StopAfterStart, NothingPosted, AllHandles, Released
    <2>3. UNCHANGED Pool!poolVars
      BY <1>1, <1>2, <2>1 DEF Pool!poolVars
    <2> QED
      BY <2>2, <2>3
  <1>4. CASE StopCheck
    <2>1. /\ cpc = "check" /\ cpc' = IF listen = "open" THEN "signal" ELSE "idle"
          /\ UNCHANGED <<cs, handles, listen, slot>>
      BY <1>4 DEF StopCheck, StopRuns, ownedVars, ioVars
    <2>2. RInv'
      BY <1>1, <1>2, <2>1 DEF StopAfterStart, NothingPosted, AllHandles, Released
    <2>3. UNCHANGED Pool!poolVars
      BY <1>1, <1>2, <2>1 DEF Pool!poolVars
    <2> QED
      BY <2>2, <2>3
  <1>5. CASE SignalShutdown
    <2>1. cpc = "signal" /\ cpc' = "post" /\ UNCHANGED <<cs, handles, listen, slot>>
      BY <1>5 DEF SignalShutdown, ioVars
    <2>2. RInv'
      BY <1>1, <1>2, <2>1 DEF StopAfterStart, NothingPosted, AllHandles, Released
    <2>3. Pool!Drain
      BY <1>1, <1>2, <2>1 DEF Pool!Drain, StopAfterStart, Released
    <2> QED
      BY <2>2, <2>3 DEF Pool!PoolNext
  <1>6. CASE PostExitPacket \/ ExitPacketsPosted
    <2>1. /\ cpc = "post" /\ cpc' \in {"post", "wait"}
          /\ UNCHANGED <<cs, handles, listen, slot>>
      BY <1>6 DEF PostExitPacket, ExitPacketsPosted, ownedVars, ioVars
    <2>2. RInv'
      BY <1>1, <1>2, <2>1 DEF StopAfterStart, NothingPosted, AllHandles, Released
    <2>3. UNCHANGED Pool!poolVars
      BY <1>1, <1>2, <2>1 DEF Pool!poolVars
    <2> QED
      BY <2>2, <2>3
  <1>7. CASE WaitWorkers
    <2>1. cpc = "wait" /\ cpc' = "deinit1" /\ UNCHANGED <<cs, handles, listen, slot>>
      BY <1>7 DEF WaitWorkers, ownedVars, ioVars
    <2>2. mpc = "running" /\ cs # "deleted" /\ handles
      BY <2>1 DEF StopAfterStart, Released, AllHandles
    <2>3. ~ WaitRefused
      <3>1. ~ (N > MaxWait)
        BY NType, MaxWaitAssumption DEF ProperUse
      <3>2. \A w \in Workers : wpc[w] # "absent"
        BY DEF AllHandles
      <3> QED
        BY <2>2, <3>1, <3>2, Zenon DEF WaitRefused
    <2>4. Live = {}
      BY <1>7, <2>3 DEF WaitWorkers, WaitOver
    <2>5. RInv'
      BY <1>1, <1>2, <2>1, <2>2, <2>4 DEF StopAfterStart, NothingPosted, AllHandles, Released
    <2>6. UNCHANGED Pool!poolVars
      BY <1>1, <1>2, <2>1 DEF Pool!poolVars
    <2> QED
      BY <2>5, <2>6
  <1>8. CASE StopDeInitialize
    <2>1. CASE cpc = "deinit1"
      <3>1. /\ cpc' = "deinit2" /\ cs' = "deleted"
            /\ UNCHANGED <<handles, listen, slot>>
        BY <1>8, <2>1 DEF StopDeInitialize, DeleteLocks, ioVars
      <3>2. RInv'
        BY <1>1, <1>2, <2>1, <3>1 DEF StopAfterStart, NothingPosted, AllHandles, Released
      <3>3. Pool!Release
        BY <1>1, <1>2, <2>1, <3>1 DEF Pool!Release, StopAfterStart, Released
      <3> QED
        BY <3>2, <3>3 DEF Pool!PoolNext
    <2>2. CASE cpc = "deinit2"
      <3>1. cpc' = "deinit3" /\ UNCHANGED <<cs, listen, slot>>
        BY <1>8, <2>2 DEF StopDeInitialize, ClosePort, ioVars
      <3>2. RInv'
        BY <1>1, <1>2, <2>2, <3>1 DEF StopAfterStart, NothingPosted, AllHandles, Released
      <3>3. UNCHANGED Pool!poolVars
        BY <1>1, <1>2, <2>2, <3>1 DEF Released, Pool!poolVars
      <3> QED
        BY <3>2, <3>3
    <2>3. CASE cpc = "deinit3"
      <3>1. cpc' = "idle" /\ listen' = "null" /\ UNCHANGED <<cs, handles>>
        BY <1>8, <2>3 DEF StopDeInitialize, DeleteListenContext
      <3>2. mpc = "running" /\ cs = "deleted"
        BY <2>3 DEF StopAfterStart, Released
      <3>3. RInv'
        BY <1>1, <1>2, <2>3, <3>1, <3>2 DEF StopAfterStart, NothingPosted, AllHandles,
              Released
      <3>4. UNCHANGED Pool!poolVars
        BY <1>1, <1>2, <3>1, <3>2 DEF Pool!poolVars
      <3> QED
        BY <3>3, <3>4
    <2> QED
      BY <1>8, <2>1, <2>2, <2>3 DEF StopDeInitialize
  <1> QED
    BY <1>3, <1>4, <1>5, <1>6, <1>7, <1>8 DEF StopStep

\* A step of a worker: it maps to Begin, Finish, Leave or a stutter.  A worker
\* that takes an accept does so while accepts are posted and nothing is released.
LEMMA WorkerStepPool ==
  ASSUME IInv, RInv, NEW w \in Workers, WorkerStep(w)
  PROVE  RInv' /\ [Pool!PoolNext]_(Pool!poolVars)
  <1> USE DEF RInv
  <1>1. UNCHANGED <<mpc, cpc, cs, handles, listen>>
    BY DEF WorkerStep, CheckEvent, TakeExitPacket, PortGone, TakeCompletion, DoAccpet,
          PostRecv, PostAcceptAgain, mainVars, stopVars, ownedVars
  <1>2. wpc \in [Workers -> WorkerPoints] /\ slot \in [Slots -> SlotStates]
    BY DEF IInv, TypeOK
  <1>3. ASSUME Live' \subseteq Live, Handling' \subseteq Handling,
               \A v \in Workers : wpc'[v] # "absent",
               \A s \in Slots : slot'[s] = slot[s] \/ mpc \in {"post", "running"}
        PROVE  RInv'
    BY <1>1, <1>3 DEF StopAfterStart, NothingPosted, AllHandles, Released
  <1>4. CASE CheckEvent(w) \/ TakeExitPacket(w) \/ PortGone(w)
    <2>1. /\ wpc[w] \in {"check", "wait"} /\ UNCHANGED slot
          /\ \/ wpc' = [wpc EXCEPT ![w] = "wait"]
             \/ wpc' = [wpc EXCEPT ![w] = "dead"]
      BY <1>4 DEF CheckEvent, TakeExitPacket, PortGone, ioVars
    <2>2. Handling' = Handling /\ w \notin Handling /\ (Live' = Live \/ Live' = Live \ {w})
      BY <1>2, <2>1 DEF Live, Handling
    <2>3. RInv'
      BY <1>2, <1>3, <2>1, <2>2 DEF AllHandles
    <2>4. Pool!Leave(w) \/ UNCHANGED Pool!poolVars
      BY <1>1, <2>2 DEF Pool!Leave, Pool!poolVars
    <2> QED
      BY <2>3, <2>4 DEF Pool!PoolNext
  <1>5. CASE TakeCompletion(w)
    <2>1. PICK c \in Completions : TakeCompletion(w)!3!(c)
      BY <1>5 DEF TakeCompletion
    <2>2. c.op = "accept" /\ c.s \in Slots /\ slot[c.s] # "none" /\ wpc[w] = "wait"
      BY <1>5, <2>1 DEF TakeCompletion, Completions, AssociatedClients
    <2>3. mpc \in {"post", "running"}
      BY <2>2 DEF NothingPosted
    <2>4. w \in Live /\ w \notin Handling
      BY <2>2 DEF Live, Handling
    <2>5. cs # "deleted"
      BY <2>3, <2>4 DEF Released
    <2>6. CASE slot[c.s] = "done"
      <3>1. wpc' = [wpc EXCEPT ![w] = "accept"]
        BY <2>1, <2>2, <2>6
      <3>2. Live' = Live /\ Handling' = Handling \cup {w}
        BY <1>2, <2>2, <3>1 DEF Live, Handling
      <3>3. RInv'
        BY <1>1, <1>2, <2>3, <3>1, <3>2 DEF StopAfterStart, NothingPosted, AllHandles, Released
      <3>4. Pool!Begin(w)
        BY <1>1, <2>4, <2>5, <3>2 DEF Pool!Begin
      <3> QED
        BY <3>3, <3>4 DEF Pool!PoolNext
    <2>7. CASE slot[c.s] # "done"
      <3>1. \/ wpc' = [wpc EXCEPT ![w] = "check"]
            \/ wpc' = [wpc EXCEPT ![w] = "dead"]
        BY <2>1, <2>2, <2>7 DEF AfterFailure
      <3>2. Handling' = Handling /\ (Live' = Live \/ Live' = Live \ {w})
        BY <1>2, <2>2, <3>1 DEF Live, Handling
      <3>3. RInv'
        BY <1>2, <1>3, <2>3, <3>1, <3>2 DEF AllHandles
      <3>4. Pool!Leave(w) \/ UNCHANGED Pool!poolVars
        BY <1>1, <2>4, <3>2 DEF Pool!Leave, Pool!poolVars
      <3> QED
        BY <3>3, <3>4 DEF Pool!PoolNext
    <2> QED
      BY <2>6, <2>7
  <1>6. CASE DoAccpet(w) \/ PostRecv(w) \/ PostAcceptAgain(w)
    <2>1. /\ wpc[w] \in {"accept", "recv", "repost"}
          /\ \/ wpc' = [wpc EXCEPT ![w] = "recv"]
             \/ wpc' = [wpc EXCEPT ![w] = "repost"]
             \/ wpc' = [wpc EXCEPT ![w] = "check"]
      BY <1>6 DEF DoAccpet, PostRecv, PostAcceptAgain
    <2>2. mpc \in {"post", "running"}
      BY <2>1 DEF NothingPosted, Handling
    <2>3. Live' = Live /\ (Handling' = Handling \/ Handling' = Handling \ {w})
      BY <1>2, <2>1 DEF Live, Handling
    <2>4. RInv'
      BY <1>2, <1>3, <2>1, <2>2, <2>3 DEF AllHandles
    <2>5. Pool!Finish(w) \/ UNCHANGED Pool!poolVars
      BY <1>1, <2>3 DEF Pool!Finish, Pool!poolVars
    <2> QED
      BY <2>4, <2>5 DEF Pool!PoolNext
  <1> QED
    BY <1>4, <1>5, <1>6 DEF WorkerStep

\* The network: a stutter.
LEMMA NetworkStepPool ==
  ASSUME RInv, NEW s \in Slots, ClientArrives(s) \/ ClientSends(s)
  PROVE  RInv' /\ UNCHANGED Pool!poolVars
  <1>1. UNCHANGED <<mpc, cpc, wpc, cs, handles, listen>>
    BY DEF ClientArrives, ClientSends, mainVars, stopVars, workerVars, ownedVars
  <1>2. slot' = slot \/ mpc \in {"post", "running"}
    BY DEF ClientArrives, ClientSends, RInv, NothingPosted
  <1>3. Live' = Live /\ Handling' = Handling
    BY <1>1 DEF Live, Handling
  <1>4. RInv'
    BY <1>1, <1>2, <1>3 DEF RInv, StopAfterStart, NothingPosted, AllHandles, Released
  <1>5. UNCHANGED Pool!poolVars
    BY <1>1, <1>3 DEF Pool!poolVars
  <1> QED
    BY <1>4, <1>5

\* Every step keeps the invariant and maps to a step or a stutter of the pool.
LEMMA NextPool ==
  ASSUME ProperUse, IInv, RInv, [Next]_vars
  PROVE  RInv' /\ [Pool!PoolNext]_(Pool!poolVars)
  <1>1. CASE Next
    BY <1>1, MainStepPool, StopStepPool, WorkerStepPool, NetworkStepPool DEF Next
  <1>2. CASE UNCHANGED vars
    <2>1. UNCHANGED <<mpc, cpc, wpc, cs, handles, listen, slot>>
      BY <1>2 DEF vars
    <2>2. Live' = Live /\ Handling' = Handling
      BY <2>1 DEF Live, Handling
    <2>3. RInv'
      BY <2>1, <2>2 DEF RInv, StopAfterStart, NothingPosted, AllHandles, Released
    <2>4. UNCHANGED Pool!poolVars
      BY <2>1, <2>2 DEF Pool!poolVars
    <2> QED
      BY <2>3, <2>4
  <1> QED
    BY <1>1, <1>2

-----------------------------------------------------------------------------
\* The server is a pool of workers: under ProperUse, Start(), Stop() and the
\* workers together implement WorkerPool, so no handler runs while or after the
\* port, the event and the contexts are given back.
THEOREM PoolRefinement ==
  ASSUME ProperUse
  PROVE  Spec => ImplementsPool
  <1>1. Init => IInv /\ RInv
    BY InitIInv, InitRInv
  <1>2. IInv /\ RInv /\ [Next]_vars
          => IInv' /\ RInv' /\ [Pool!PoolNext]_(Pool!poolVars)
    BY NextIInv, NextPool
  <1> QED
    BY InitPool, <1>1, <1>2, PTL DEF Spec, ImplementsPool, Pool!PoolSpec

\* Under ProperUse, Stop() gives resources back only after every worker has ended.
THEOREM ReleaseAfterWorkers ==
  ASSUME ProperUse
  PROVE  Spec => []ReleasedAfterWorkers
  <1>1. Init => IInv /\ RInv
    BY InitIInv, InitRInv
  <1>2. IInv /\ RInv /\ [Next]_vars => IInv' /\ RInv'
    BY NextIInv, NextPool
  <1>3. RInv => ReleasedAfterWorkers
    BY DEF RInv, Released, ReleasedAfterWorkers
  <1> QED
    BY <1>1, <1>2, <1>3, PTL DEF Spec

-----------------------------------------------------------------------------
\* With a completion port and the extension functions found, nothing undefined
\* happens: each pointer and each context is there when it is used.
SafeUse == ProperUse /\ Failures \cap {"port", "extension"} = {}

\* What Start() has set up by the time it gets somewhere.
SetUp ==
  /\ mpc \notin {"event", "port", "create", "context"} => listen # "uninit"
  /\ mpc \in {"associate", "bind", "post"} => listen = "open"
  /\ mpc = "post" => extension
  /\ mpc # "event" => cs # "none"
  /\ cpc # "idle" => mpc # "event"

\* The handles are there until one of the two releases has closed the port.
HandlesUntilClosed ==
  \/ handles
  \/ mpc \in {"event", "port", "deinit3", "failed"}
  \/ mpc = "running" /\ cs = "deleted" /\ cpc \in {"deinit3", "idle", "check"}

\* The context a worker works on has not been deleted.
ContextAlive == \A w \in Handling : slot[wslot[w]] # "freed"

FInv == SetUp /\ HandlesUntilClosed /\ ContextAlive /\ faults = {}

LEMMA InitFInv == Init => FInv
  BY DEF Init, FInv, SetUp, HandlesUntilClosed, ContextAlive, Handling

LEMMA MainStepFInv ==
  ASSUME SafeUse, IInv, RInv, FInv, MainStep
  PROVE  FInv'
  <1> USE DEF RInv, FInv
  <1>1. cpc = "idle" /\ cpc' = "idle"
    BY DEF MainStep, CreateShutdownEvent, CreatePort, CreateWorker, WorkersCreated,
          NewListenContext, CreateListenSocket, AssociateListenSocket, BindAndListen,
          PostFirstAccept, Started, StartDeInitialize, StopAfterStart, stopVars
  <1>2. ASSUME NEW w \in Workers, CreateWorker(w) PROVE FInv'
    <2>1. /\ wpc' = [wpc EXCEPT ![w] = "check"] \/ wpc' = [wpc EXCEPT ![w] = "absent"]
          /\ UNCHANGED <<mpc, listen, extension, cs, handles, slot, wslot, faults>>
      BY <1>2 DEF CreateWorker, mainVars, ownedVars, ioVars
    <2>2. Handling' \subseteq Handling
      BY <2>1 DEF Handling, IInv, TypeOK
    <2> QED
      BY <1>1, <2>1, <2>2 DEF SetUp, HandlesUntilClosed, ContextAlive
  <1>3. CASE CreateShutdownEvent \/ CreatePort \/ WorkersCreated \/ NewListenContext
               \/ CreateListenSocket \/ AssociateListenSocket
    <2>1. /\ UNCHANGED <<slot, wslot, wpc, extension>>
          /\ mpc' \notin {"running", "post"}
          /\ cs' = IF mpc = "event" THEN "live" ELSE cs
          /\ handles' = IF mpc = "port" THEN TRUE ELSE handles
      BY <1>3 DEF CreateShutdownEvent, CreatePort, WorkersCreated, NewListenContext,
            CreateListenSocket, AssociateListenSocket, workerVars, ownedVars, ioVars,
            SafeUse, Outcomes
    <2>2. SetUp' /\ faults' = {}
      BY <1>1, <1>3, <2>1 DEF CreateShutdownEvent, CreatePort, WorkersCreated,
            NewListenContext, CreateListenSocket, AssociateListenSocket, SafeUse, Outcomes,
            ownedVars, SetUp
    <2>3. HandlesUntilClosed'
      BY <1>1, <1>3, <2>1 DEF CreateShutdownEvent, CreatePort, WorkersCreated,
            NewListenContext, CreateListenSocket, AssociateListenSocket, SafeUse, Outcomes,
            HandlesUntilClosed
    <2>4. ContextAlive'
      BY <2>1 DEF ContextAlive, Handling
    <2> QED
      BY <2>2, <2>3, <2>4
  <1>4. CASE BindAndListen
    <2>1. /\ UNCHANGED <<slot, wslot, wpc, cs, handles, listen, faults>>
          /\ mpc = "bind" /\ mpc' \in {"post", "deinit1"}
          /\ mpc' = "post" => extension'
      BY <1>4 DEF BindAndListen, workerVars, ioVars, SafeUse, Outcomes, SetUp
    <2> QED
      BY <1>1, <2>1 DEF SetUp, HandlesUntilClosed, ContextAlive, Handling
  <1>5. ASSUME NEW s \in Slots, PostFirstAccept(s) PROVE FInv'
    <2>1. /\ mpc = "post" /\ mpc' = "post"
          /\ UNCHANGED <<wslot, wpc, cs, handles, listen, extension>>
          /\ slot' = [slot EXCEPT ![s] = "posted"]
      BY <1>5 DEF PostFirstAccept, workerVars, ownedVars, SafeUse, ProperUse, Outcomes
    <2>2. faults' = {}
      BY <1>5 DEF PostFirstAccept, SetUp
    <2>3. ContextAlive'
      BY <2>1 DEF ContextAlive, Handling
    <2> QED
      BY <1>1, <2>1, <2>2, <2>3 DEF SetUp, HandlesUntilClosed
  <1>6. CASE Started
    BY <1>1, <1>6 DEF Started, SetUp, HandlesUntilClosed, ContextAlive, Handling,
          workerVars, ownedVars, ioVars
  <1>7. CASE StartDeInitialize
    <2>1. Handling = {} /\ Handling' = {}
      BY <1>7 DEF StartDeInitialize, DeleteLocks, ClosePort, DeleteListenContext,
            NothingPosted, Handling
    <2>2. SetUp' /\ HandlesUntilClosed'
      BY <1>1, <1>7 DEF StartDeInitialize, DeleteLocks, ClosePort, DeleteListenContext,
            SetUp, HandlesUntilClosed
    <2>3. faults' = {}
      <3>1. mpc = "deinit1" => cs # "deleted" /\ cs # "none"
        BY DEF Released, SetUp
      <3>2. mpc = "deinit2" => handles
        BY DEF HandlesUntilClosed
      <3> QED
        BY <1>7, <3>1, <3>2 DEF IInv, TypeOK, StartDeInitialize, DeleteLocks, ClosePort,
              DeleteListenContext
    <2> QED
      BY <2>1, <2>2, <2>3 DEF ContextAlive
  <1> QED
    BY <1>2, <1>3, <1>4, <1>5, <1>6, <1>7 DEF MainStep

LEMMA StopStepFInv ==
  ASSUME SafeUse, IInv, RInv, FInv, Interrupt \/ StopStep
  PROVE  FInv'
  <1> USE DEF RInv, FInv
  <1>1. UNCHANGED <<mpc, wpc, wslot, extension>>
    BY DEF Interrupt, StopStep, StopCheck, SignalShutdown, PostExitPacket,
          ExitPacketsPosted, WaitWorkers, StopDeInitialize, DeleteLocks, ClosePort,
          DeleteListenContext, mainVars, workerVars, ownedVars
  <1>2. CASE Interrupt \/ StopCheck
    <2>1. /\ UNCHANGED <<cs, handles, listen, slot>>
          /\ mpc \in {"running", "failed"} /\ cpc \in {"idle", "check"}
          /\ cpc' \in {"idle", "check", "signal"}
          /\ cpc' = "signal" => listen = "open" /\ cpc = "check"
      BY <1>2 DEF Interrupt, StopCheck, StopRuns, SafeUse, ProperUse, StopAfterStart,
            ownedVars, ioVars
    <2>2. faults' = {}
      BY <1>2, <2>1 DEF Interrupt, StopCheck, SetUp
    <2>3. HandlesUntilClosed'
      BY <1>1, <2>1 DEF HandlesUntilClosed, StopAfterStart, Released
    <2> QED
      BY <1>1, <2>1, <2>2, <2>3 DEF SetUp, ContextAlive, Handling
  <1>3. CASE SignalShutdown \/ PostExitPacket \/ ExitPacketsPosted \/ WaitWorkers
    <2>1. /\ UNCHANGED <<cs, handles, listen, slot, faults>>
          /\ cpc \in {"signal", "post", "wait"}
      BY <1>3 DEF SignalShutdown, PostExitPacket, ExitPacketsPosted, WaitWorkers,
            ownedVars, ioVars
    <2>2. mpc = "running" /\ cs # "deleted"
      BY <2>1 DEF StopAfterStart, Released
    <2> QED
      BY <1>1, <2>1, <2>2 DEF SetUp, HandlesUntilClosed, ContextAlive, Handling
  <1>4. CASE StopDeInitialize
    <2>1. cpc \in {"deinit1", "deinit2", "deinit3"} /\ mpc = "running"
      BY <1>4 DEF StopDeInitialize, StopAfterStart
    <2>2. Handling' = {}
      BY <1>1, <2>1 DEF Released, Live, Handling
    <2>3. SetUp' /\ HandlesUntilClosed'
      BY <1>1, <1>4, <2>1 DEF StopDeInitialize, DeleteLocks, ClosePort,
            DeleteListenContext, SetUp, HandlesUntilClosed, Released
    <2>4. faults' = {}
      <3>1. cpc = "deinit1" => cs = "live"
        BY <2>1 DEF IInv, TypeOK, Released, SetUp
      <3>2. cpc = "deinit2" => handles
        BY <2>1 DEF HandlesUntilClosed
      <3> QED
        BY <1>4, <3>1, <3>2 DEF StopDeInitialize, DeleteLocks, ClosePort,
              DeleteListenContext
    <2> QED
      BY <2>2, <2>3, <2>4 DEF ContextAlive
  <1> QED
    BY <1>2, <1>3, <1>4 DEF StopStep

LEMMA WorkerStepFInv ==
  ASSUME IInv, RInv, FInv, NEW w \in Workers, WorkerStep(w)
  PROVE  FInv'
  <1> USE DEF FInv
  <1>1. UNCHANGED <<mpc, cpc, cs, handles, listen, extension>>
    BY DEF WorkerStep, CheckEvent, TakeExitPacket, PortGone, TakeCompletion, DoAccpet,
          PostRecv, PostAcceptAgain, mainVars, stopVars, ownedVars
  <1>2. SetUp' /\ HandlesUntilClosed'
    BY <1>1 DEF SetUp, HandlesUntilClosed
  <1>3. /\ wpc \in [Workers -> WorkerPoints] /\ slot \in [Slots -> SlotStates]
        /\ wslot \in [Workers -> Slots \cup {NoSlot}]
        /\ \A v \in Handling : wslot[v] \in Slots /\ v \in Workers
    BY DEF IInv, TypeOK, OnSlot, Handling
  <1>4. CASE CheckEvent(w) \/ TakeExitPacket(w) \/ PortGone(w)
    <2>1. /\ UNCHANGED <<slot, wslot, faults>>
          /\ \/ wpc' = [wpc EXCEPT ![w] = "wait"]
             \/ wpc' = [wpc EXCEPT ![w] = "dead"]
      BY <1>4 DEF CheckEvent, TakeExitPacket, PortGone, ioVars
    <2>2. Handling' \subseteq Handling
      BY <1>3, <2>1 DEF Handling
    <2> QED
      BY <1>2, <2>1, <2>2 DEF ContextAlive
  <1>5. CASE TakeCompletion(w)
    <2>1. PICK c \in Completions : TakeCompletion(w)!3!(c)
      BY <1>5 DEF TakeCompletion
    <2>2. c.op = "accept" /\ c.s \in Slots /\ UNCHANGED faults
      BY <1>5, <2>1 DEF TakeCompletion, Completions, AssociatedClients
    <2>3. CASE slot[c.s] = "done"
      <3>1. /\ wpc' = [wpc EXCEPT ![w] = "accept"]
            /\ wslot' = [wslot EXCEPT ![w] = c.s]
            /\ slot' = [slot EXCEPT ![c.s] = "taken"]
        BY <2>1, <2>2, <2>3
      <3>2. ContextAlive'
        BY <1>3, <2>2, <3>1 DEF ContextAlive, Handling
      <3> QED
        BY <1>2, <2>2, <3>2
    <2>4. CASE slot[c.s] # "done"
      <3>1. /\ wpc' \in {[wpc EXCEPT ![w] = "check"], [wpc EXCEPT ![w] = "dead"]}
            /\ wslot' = wslot
            /\ slot' \in {[slot EXCEPT ![c.s] = "spent"], [slot EXCEPT ![c.s] = "fatal"]}
        BY <2>1, <2>2, <2>4 DEF AfterFailure
      <3>2. ContextAlive'
        BY <1>3, <2>2, <3>1 DEF ContextAlive, Handling
      <3> QED
        BY <1>2, <2>2, <3>2
    <2> QED
      BY <2>3, <2>4
  <1>6. CASE DoAccpet(w) \/ PostRecv(w) \/ PostAcceptAgain(w)
    <2>1. w \in Handling /\ ~ Dangling(w)
      BY <1>6 DEF DoAccpet, PostRecv, PostAcceptAgain, Handling, ContextAlive, Dangling
    <2>2. faults' = {}
      BY <1>6, <2>1 DEF DoAccpet, PostRecv, PostAcceptAgain
    <2>3. \A s \in Slots : slot'[s] = slot[s] \/ slot'[s] \in {"spent", "posted"}
      BY <1>3, <1>6, <2>1 DEF DoAccpet, PostRecv, PostAcceptAgain
    <2>4. \A v \in Handling' : v \in Handling /\ wslot'[v] = wslot[v]
      <3>1. CASE DoAccpet(w)
        BY <1>3, <2>1, <3>1 DEF DoAccpet, Handling
      <3>2. CASE PostRecv(w)
        BY <1>3, <2>1, <3>2 DEF PostRecv, Handling
      <3>3. CASE PostAcceptAgain(w)
        BY <1>3, <2>1, <3>3 DEF PostAcceptAgain, Handling
      <3> QED
        BY <1>6, <3>1, <3>2, <3>3
    <2>5. ContextAlive'
      BY <1>3, <2>3, <2>4 DEF ContextAlive
    <2> QED
      BY <1>2, <2>2, <2>5
  <1> QED
    BY <1>4, <1>5, <1>6 DEF WorkerStep

LEMMA NetworkStepFInv ==
  ASSUME IInv, FInv, NEW s \in Slots, ClientArrives(s) \/ ClientSends(s)
  PROVE  FInv'
  <1>1. UNCHANGED <<mpc, cpc, cs, handles, listen, extension, wpc, wslot, faults>>
    BY DEF ClientArrives, ClientSends, mainVars, stopVars, workerVars, ownedVars
  <1>2. \A r \in Slots : slot'[r] = slot[r] \/ slot'[r] # "freed"
    BY DEF ClientArrives, ClientSends, AcceptOutcomes, IInv, TypeOK
  <1>3. \A w \in Handling : wslot[w] \in Slots
    BY DEF IInv, OnSlot, Handling
  <1>4. ContextAlive'
    BY <1>1, <1>2, <1>3 DEF FInv, ContextAlive, Handling
  <1> QED
    BY <1>1, <1>4 DEF FInv, SetUp, HandlesUntilClosed

\* No execution reaches undefined behaviour: under SafeUse nothing is read
\* uninitialised or null, no deleted context is used and nothing is deleted twice,
\* whatever else fails and however threads, clients and Ctrl-C interleave.
THEOREM FaultFreedom ==
  ASSUME SafeUse
  PROVE  Spec => []NoFault
  <1>1. ProperUse
    BY DEF SafeUse
  <1>2. Init => IInv /\ RInv /\ FInv
    BY InitIInv, InitRInv, InitFInv
  <1>3. IInv /\ RInv /\ FInv /\ [Next]_vars => IInv' /\ RInv' /\ FInv'
    <2> SUFFICES ASSUME IInv, RInv, FInv, [Next]_vars PROVE FInv'
      BY <1>1, NextIInv, NextPool
    <2>1. CASE Next
      BY <2>1, MainStepFInv, StopStepFInv, WorkerStepFInv, NetworkStepFInv DEF Next
    <2>2. CASE UNCHANGED vars
      BY <2>2 DEF vars, FInv, SetUp, HandlesUntilClosed, ContextAlive, Handling
    <2> QED
      BY <2>1, <2>2
  <1>4. FInv => NoFault
    BY DEF FInv, NoFault
  <1> QED
    BY <1>2, <1>3, <1>4, PTL DEF Spec
-----------------------------------------------------------------------------
(***************************************************************************)
(* The accept sockets and the lost workers.                                *)
(*                                                                         *)
(* Four objects hold the value of an accept socket and two of them close   *)
(* it.  A second close needs a _PostRecv that failed (any use of the       *)
(* server, SInv): a context is handled by one worker at a time and once,   *)
(* and each way to close its socket but that one ends the context, so that *)
(* _DeInitialize does not close it again.  That every socket is closed in  *)
(* the end (Opened), and that a worker ends before Stop() only for a       *)
(* broken completion (Balance), needs ProperUse.                           *)
(***************************************************************************)

\* A context is handled by one worker at a time.
OneHandler == \A v, w \in Handling : wslot[v] = wslot[w] => v = w

\* While it is, it has been taken, and its client context is as far as the worker is.
Handled ==
  \A w \in Handling :
    /\ slot[wslot[w]] \in {"taken", "freed"}
    /\ wpc[w] = "accept" => conn[wslot[w]] = "none"
    /\ wpc[w] = "recv" => conn[wslot[w]] = "fresh"
    /\ wpc[w] = "repost" => conn[wslot[w]] # "failed"

\* Before, it has no client context; posted, it has an accept socket.
Unhandled ==
  \A s \in Slots :
    /\ slot[s] \in {"none", "posted", "done", "reset", "broken"} => conn[s] = "none"
    /\ slot[s] = "none" => sock[s] = "none"
    /\ slot[s] \in {"posted", "done", "reset", "broken", "taken"} => sock[s] # "none"

\* A socket is closed with its context, or by a failed _PostRecv before that.
ClosedOnce ==
  \A s \in Slots :
    /\ sock[s] = "closed" => slot[s] = "freed" \/ conn[s] = "failed"
    /\ sock[s] = "twice" => conn[s] = "failed"

SInv == OneHandler /\ Handled /\ Unhandled /\ ClosedOnce

-----------------------------------------------------------------------------
LEMMA InitSInv == Init => SInv
  BY DEF Init, SInv, OneHandler, Handled, Unhandled, ClosedOnce, Handling

\* What the invariant is about has types, and handlers have slots.
LEMMA SocketTypes ==
  ASSUME IInv
  PROVE  /\ wpc \in [Workers -> WorkerPoints]
         /\ wslot \in [Workers -> Slots \cup {NoSlot}]
         /\ slot \in [Slots -> SlotStates]
         /\ sock \in [Slots -> {"none", "open", "closed", "twice"}]
         /\ conn \in [Slots -> {"none", "fresh", "receiving", "received", "handled",
                                "failed"}]
         /\ \A w \in Handling : w \in Workers /\ wslot[w] \in Slots
  BY DEF IInv, TypeOK, OnSlot, Handling

\* A step that leaves the contexts alone and gives no worker a slot.
LEMMA SameSockets ==
  ASSUME SInv, UNCHANGED <<wslot, slot, sock, conn>>,
         \A w \in Workers : wpc'[w] = wpc[w] \/ w \notin Handling'
  PROVE  SInv'
  <1>1. Handling' \subseteq Handling /\ \A w \in Handling' : wpc'[w] = wpc[w]
    BY DEF Handling
  <1> QED
    BY <1>1 DEF SInv, OneHandler, Handled, Unhandled, ClosedOnce

LEMMA DeleteListenContextSInv ==
  ASSUME IInv, SInv, DeleteListenContext
  PROVE  SInv'
  <1>1. UNCHANGED <<wpc, wslot, conn>>
    BY DEF DeleteListenContext
  <1>2. \A s \in Slots :
          \/ slot'[s] = slot[s] /\ sock'[s] = sock[s]
          \/ /\ slot[s] \notin {"none", "freed"} /\ slot'[s] = "freed"
             /\ sock'[s] = Closed(sock[s])
    BY SocketTypes DEF DeleteListenContext, OwnedContexts
  <1>3. Handling' = Handling
    BY <1>1 DEF Handling
  <1>4. OneHandler' /\ Handled'
    BY <1>1, <1>2, <1>3, SocketTypes DEF SInv, OneHandler, Handled
  <1>5. Unhandled'
    BY <1>1, <1>2 DEF SInv, Unhandled
  <1>6. ClosedOnce'
    BY <1>1, <1>2, SocketTypes DEF SInv, ClosedOnce, Closed
  <1> QED
    BY <1>4, <1>5, <1>6 DEF SInv

LEMMA DeInitializeSInv ==
  ASSUME IInv, SInv, DeleteLocks \/ ClosePort \/ DeleteListenContext
  PROVE  SInv'
  <1>1. CASE DeleteLocks \/ ClosePort
    BY <1>1, SameSockets DEF DeleteLocks, ClosePort, ioVars
  <1> QED
    BY <1>1, DeleteListenContextSInv

LEMMA MainStepSInv ==
  ASSUME IInv, SInv, MainStep
  PROVE  SInv'
  <1>1. ASSUME NEW w \in Workers, CreateWorker(w) PROVE SInv'
    <2>1. UNCHANGED <<wslot, slot, sock, conn>>
          /\ \A v \in Workers : wpc'[v] = wpc[v] \/ wpc'[v] \in {"check", "absent"}
      BY <1>1, SocketTypes DEF CreateWorker, ioVars
    <2> QED
      BY <2>1, SameSockets DEF Handling
  <1>2. CASE CreateShutdownEvent \/ CreatePort \/ WorkersCreated \/ NewListenContext
               \/ CreateListenSocket \/ AssociateListenSocket \/ BindAndListen \/ Started
    BY <1>2, SameSockets DEF CreateShutdownEvent, CreatePort, WorkersCreated,
          NewListenContext, CreateListenSocket, AssociateListenSocket, BindAndListen,
          Started, workerVars, ioVars
  <1>3. ASSUME NEW s \in Slots, PostFirstAccept(s) PROVE SInv'
    <2>1. /\ UNCHANGED <<wpc, wslot, conn>> /\ slot[s] = "none"
          /\ \/ /\ slot' = [slot EXCEPT ![s] = "posted"]
                /\ sock' = [sock EXCEPT ![s] = "open"]
             \/ /\ slot' = [slot EXCEPT ![s] = "freed"]
                /\ sock' \in {[sock EXCEPT ![s] = "closed"], [sock EXCEPT ![s] = "none"]}
      BY <1>3 DEF PostFirstAccept, workerVars
    <2>2. Handling' = Handling /\ \A w \in Handling : wslot[w] # s
      BY <2>1 DEF Handling, SInv, Handled
    <2>3. OneHandler' /\ Handled'
      BY <2>1, <2>2, SocketTypes DEF SInv, OneHandler, Handled
    <2>4. Unhandled' /\ ClosedOnce'
      BY <2>1, SocketTypes DEF SInv, Unhandled, ClosedOnce
    <2> QED
      BY <2>3, <2>4 DEF SInv
  <1>4. CASE StartDeInitialize
    BY <1>4, DeInitializeSInv DEF StartDeInitialize
  <1> QED
    BY <1>1, <1>2, <1>3, <1>4 DEF MainStep

LEMMA StopStepSInv ==
  ASSUME IInv, SInv, Interrupt \/ StopStep
  PROVE  SInv'
  <1>1. CASE StopDeInitialize
    BY <1>1, DeInitializeSInv DEF StopDeInitialize
  <1>2. CASE ~StopDeInitialize
    BY <1>2, SameSockets DEF Interrupt, StopStep, StopCheck, SignalShutdown,
          PostExitPacket, ExitPacketsPosted, WaitWorkers, workerVars, ioVars
  <1> QED
    BY <1>1, <1>2

\* Worker w goes on with its slot: nobody else handles it.
LEMMA Others ==
  ASSUME IInv, SInv, NEW w \in Handling, NEW v \in Handling, v # w
  PROVE  wslot[v] # wslot[w]
  BY DEF SInv, OneHandler

LEMMA TakeCompletionSInv ==
  ASSUME IInv, SInv, NEW w \in Workers, TakeCompletion(w)
  PROVE  SInv'
  <1>1. PICK c \in Completions : TakeCompletion(w)!3!(c)
    BY DEF TakeCompletion
  <1>2. /\ c.op = "accept" /\ c.s \in Slots /\ slot[c.s] \in {"done", "reset", "broken"}
        /\ UNCHANGED sock /\ wpc[w] = "wait"
    BY <1>1 DEF TakeCompletion, Completions, AssociatedClients
  <1>3. \A v \in Handling : wslot[v] # c.s /\ v # w
    BY <1>2 DEF SInv, Handled, Handling
  <1>4. CASE slot[c.s] = "done"
    <2>1. /\ wpc' = [wpc EXCEPT ![w] = "accept"]
          /\ wslot' = [wslot EXCEPT ![w] = c.s]
          /\ slot' = [slot EXCEPT ![c.s] = "taken"]
          /\ UNCHANGED conn
      BY <1>1, <1>2, <1>4
    <2>2. /\ Handling' = Handling \cup {w} /\ wslot'[w] = c.s /\ wpc'[w] = "accept"
          /\ \A v \in Handling : wslot'[v] = wslot[v] /\ wpc'[v] = wpc[v]
      BY <1>3, <2>1, SocketTypes DEF Handling
    <2>3. OneHandler'
      BY <1>3, <2>2 DEF SInv, OneHandler
    <2>4. conn[c.s] = "none"
      BY <1>2 DEF SInv, Unhandled
    <2>5. Handled'
      BY <1>2, <1>3, <2>1, <2>2, <2>4, SocketTypes DEF SInv, Handled
    <2>6. Unhandled' /\ ClosedOnce'
      BY <1>2, <2>1, <2>4, SocketTypes DEF SInv, Unhandled, ClosedOnce
    <2> QED
      BY <2>3, <2>5, <2>6 DEF SInv
  <1>5. CASE slot[c.s] # "done"
    <2>1. /\ wpc' \in {[wpc EXCEPT ![w] = "check"], [wpc EXCEPT ![w] = "dead"]}
          /\ slot' \in {[slot EXCEPT ![c.s] = "spent"], [slot EXCEPT ![c.s] = "fatal"]}
          /\ UNCHANGED <<wslot, conn>>
      BY <1>1, <1>2, <1>5 DEF AfterFailure
    <2>2. Handling' = Handling /\ \A v \in Handling : wpc'[v] = wpc[v]
      BY <1>3, <2>1, SocketTypes DEF Handling
    <2>3. OneHandler' /\ Handled'
      BY <1>3, <2>1, <2>2, SocketTypes DEF SInv, OneHandler, Handled
    <2>4. Unhandled' /\ ClosedOnce'
      BY <1>2, <2>1, SocketTypes DEF SInv, Unhandled, ClosedOnce
    <2> QED
      BY <2>3, <2>4 DEF SInv
  <1> QED
    BY <1>4, <1>5

LEMMA DoAccpetSInv ==
  ASSUME IInv, SInv, NEW w \in Workers, DoAccpet(w)
  PROVE  SInv'
  <1>1. /\ wpc[w] = "accept" /\ wpc' = [wpc EXCEPT ![w] = "recv"]
        /\ conn' = [conn EXCEPT ![wslot[w]] = "fresh"]
        /\ UNCHANGED <<wslot, slot, sock>>
    BY DEF DoAccpet
  <1>2. w \in Handling /\ Handling' = Handling
    BY <1>1, SocketTypes DEF Handling
  <1>3. wslot[w] \in Slots /\ slot[wslot[w]] \in {"taken", "freed"} /\ conn[wslot[w]] = "none"
    BY <1>1, <1>2, SocketTypes DEF SInv, Handled
  <1>4. OneHandler'
    BY <1>1, <1>2 DEF SInv, OneHandler
  <1>5. Handled'
    BY <1>1, <1>2, <1>3, SocketTypes, Others DEF SInv, Handled
  <1>6. Unhandled' /\ ClosedOnce'
    BY <1>1, <1>3, SocketTypes DEF SInv, Unhandled, ClosedOnce
  <1> QED
    BY <1>4, <1>5, <1>6 DEF SInv

LEMMA PostRecvSInv ==
  ASSUME IInv, SInv, NEW w \in Workers, PostRecv(w)
  PROVE  SInv'
  <1> DEFINE s == wslot[w]
  <1>1. wpc[w] = "recv" /\ w \in Handling
    BY DEF PostRecv, Handling
  <1>2. s \in Slots /\ slot[s] \in {"taken", "freed"} /\ conn[s] = "fresh"
    BY <1>1, SocketTypes DEF SInv, Handled
  <1>3. CASE /\ conn' = [conn EXCEPT ![s] = "receiving"] /\ sock' = [sock EXCEPT ![s] = sock[s]]
             /\ wpc' = [wpc EXCEPT ![w] = "repost"] /\ wslot' = wslot /\ slot' = slot
    <2>1. Handling' = Handling /\ sock' = sock
      BY <1>1, <1>2, <1>3, SocketTypes DEF Handling
    <2>2. OneHandler'
      BY <1>3, <2>1 DEF SInv, OneHandler
    <2>3. Handled'
      BY <1>1, <1>2, <1>3, <2>1, SocketTypes, Others DEF SInv, Handled
    <2>4. Unhandled' /\ ClosedOnce'
      BY <1>2, <1>3, <2>1, SocketTypes DEF SInv, Unhandled, ClosedOnce
    <2> QED
      BY <2>2, <2>3, <2>4 DEF SInv
  <1>4. CASE /\ conn' = [conn EXCEPT ![s] = "failed"]
             /\ sock' = [sock EXCEPT ![s] = Closed(sock[s])]
             /\ wpc' = [wpc EXCEPT ![w] = "check"]
             /\ wslot' = [wslot EXCEPT ![w] = NoSlot]
             /\ slot' = slot \/ slot' = [slot EXCEPT ![s] = "spent"]
    <2>1. /\ Handling' = Handling \ {w}
          /\ \A v \in Handling' : wpc'[v] = wpc[v] /\ wslot'[v] = wslot[v]
      BY <1>4, SocketTypes DEF Handling
    <2>2. OneHandler'
      BY <2>1 DEF SInv, OneHandler
    <2>3. \A v \in Handling' : wslot[v] # s
      BY <1>1, <2>1, Others
    <2>4. Handled'
      BY <1>2, <1>4, <2>1, <2>3, SocketTypes DEF SInv, Handled
    <2>5. Closed(sock[s]) = "none" <=> sock[s] = "none"
      BY DEF Closed
    <2>6. Unhandled' /\ ClosedOnce'
      BY <1>2, <1>4, <2>5, SocketTypes DEF SInv, Unhandled, ClosedOnce
    <2> QED
      BY <2>2, <2>4, <2>6 DEF SInv
  <1>5. \E ok \in BOOLEAN :
          /\ conn' = [conn EXCEPT ![s] = IF ok THEN "receiving" ELSE "failed"]
          /\ sock' = [sock EXCEPT ![s] = IF ok THEN sock[s] ELSE Closed(sock[s])]
          /\ wpc' = [wpc EXCEPT ![w] = IF ok THEN "repost" ELSE "check"]
          /\ wslot' = IF ok THEN wslot ELSE [wslot EXCEPT ![w] = NoSlot]
          /\ slot' = IF ok \/ Dangling(w) THEN slot ELSE [slot EXCEPT ![s] = "spent"]
    BY DEF PostRecv, Outcomes
  <1> QED
    BY <1>3, <1>4, <1>5

LEMMA PostAcceptAgainSInv ==
  ASSUME IInv, SInv, NEW w \in Workers, PostAcceptAgain(w)
  PROVE  SInv'
  <1> DEFINE s == wslot[w]
  <1>1. wpc[w] = "repost" /\ w \in Handling
    BY DEF PostAcceptAgain, Handling
  <1>2. s \in Slots /\ slot[s] \in {"taken", "freed"}
    BY <1>1, SocketTypes DEF SInv, Handled
  <1>3. slot[s] = "taken" => HasAcceptSocket(s)
    BY <1>2 DEF SInv, Unhandled, HasAcceptSocket
  <1>4. /\ slot' = slot \/ (slot[s] = "taken" /\ slot' = [slot EXCEPT ![s] = "spent"])
        /\ wpc' = [wpc EXCEPT ![w] = "check"] /\ wslot' = [wslot EXCEPT ![w] = NoSlot]
        /\ UNCHANGED <<sock, conn>>
    BY <1>2, <1>3 DEF PostAcceptAgain, Dangling
  <1>5. /\ Handling' = Handling \ {w}
        /\ \A v \in Handling' : wpc'[v] = wpc[v] /\ wslot'[v] = wslot[v] /\ wslot[v] # s
    BY <1>1, <1>4, SocketTypes, Others DEF Handling
  <1>6. OneHandler' /\ Handled'
    BY <1>4, <1>5, SocketTypes DEF SInv, OneHandler, Handled
  <1>7. Unhandled' /\ ClosedOnce'
    BY <1>2, <1>4, SocketTypes DEF SInv, Unhandled, ClosedOnce
  <1> QED
    BY <1>6, <1>7 DEF SInv

LEMMA WorkerStepSInv ==
  ASSUME IInv, SInv, NEW w \in Workers, WorkerStep(w)
  PROVE  SInv'
  <1>1. CASE CheckEvent(w) \/ TakeExitPacket(w) \/ PortGone(w)
    <2>1. UNCHANGED <<wslot, slot, sock, conn>>
          /\ \A v \in Workers : wpc'[v] = wpc[v] \/ wpc'[v] \in {"wait", "dead"}
      BY <1>1, SocketTypes DEF CheckEvent, TakeExitPacket, PortGone, ioVars
    <2> QED
      BY <2>1, SameSockets DEF Handling
  <1> QED
    BY <1>1, TakeCompletionSInv, DoAccpetSInv, PostRecvSInv, PostAcceptAgainSInv
       DEF WorkerStep

LEMMA NetworkStepSInv ==
  ASSUME IInv, SInv, NEW s \in Slots, ClientArrives(s) \/ ClientSends(s)
  PROVE  SInv'
  <1>1. UNCHANGED <<wpc, wslot, sock>> /\ Handling' = Handling
    BY DEF ClientArrives, ClientSends, workerVars, Handling
  <1>2. CASE ClientArrives(s)
    <2>1. /\ slot[s] = "posted" /\ UNCHANGED conn
          /\ \E r \in {"done", "reset", "broken"} : slot' = [slot EXCEPT ![s] = r]
      BY <1>2 DEF ClientArrives, AcceptOutcomes
    <2>2. OneHandler' /\ Handled' /\ Unhandled' /\ ClosedOnce'
      BY <1>1, <2>1, SocketTypes DEF SInv, OneHandler, Handled, Unhandled, ClosedOnce
    <2> QED
      BY <2>2 DEF SInv
  <1>3. CASE ClientSends(s)
    <2>1. conn[s] = "receiving" /\ conn' = [conn EXCEPT ![s] = "received"] /\ UNCHANGED slot
      BY <1>3 DEF ClientSends
    <2>2. OneHandler' /\ Handled' /\ Unhandled' /\ ClosedOnce'
      BY <1>1, <2>1, SocketTypes DEF SInv, OneHandler, Handled, Unhandled, ClosedOnce
    <2> QED
      BY <2>2 DEF SInv
  <1> QED
    BY <1>2, <1>3

LEMMA NextSInv ==
  ASSUME IInv, SInv, [Next]_vars
  PROVE  SInv'
  <1>1. CASE Next
    BY <1>1, MainStepSInv, StopStepSInv, WorkerStepSInv, NetworkStepSInv DEF Next
  <1>2. CASE UNCHANGED vars
    BY <1>2, SameSockets DEF vars
  <1> QED
    BY <1>1, <1>2

-----------------------------------------------------------------------------
\* However the server is started, stopped and interrupted and whatever fails, a
\* socket is closed a second time only if its _PostRecv has failed
\* (IOCPServer/IocpModel.cpp:503-507).
THEOREM SecondCloseOnlyThen == Spec => []SecondCloseOnlyAfterFailedReceive
  <1>1. SInv => SecondCloseOnlyAfterFailedReceive
    BY DEF SInv, ClosedOnce, SecondCloseOnlyAfterFailedReceive
  <1>2. Init => IInv /\ SInv
    BY InitIInv, InitSInv
  <1>3. IInv /\ SInv /\ [Next]_vars => IInv' /\ SInv'
    BY NextIInv, NextSInv
  <1> QED
    BY <1>1, <1>2, <1>3, PTL DEF Spec

-----------------------------------------------------------------------------
\* An open accept socket belongs to a context that the listening context owns.
Opened ==
  /\ \A s \in Slots : sock[s] = "open" => slot[s] \notin {"none", "freed"}
  /\ listen = "null" => \A s \in Slots : sock[s] # "open"
  /\ mpc \in {"associate", "bind", "post"} => listen # "null"

LEMMA InitOpened == Init => Opened
  BY DEF Init, Opened

LEMMA DeleteListenContextOpened ==
  ASSUME IInv, Opened, DeleteListenContext,
         mpc' \notin {"associate", "bind", "post"}
  PROVE  Opened'
  <1>1. \A s \in Slots :
          sock'[s] = IF s \in OwnedContexts THEN Closed(sock[s]) ELSE sock[s]
    BY SocketTypes DEF DeleteListenContext
  <1>2. \A s \in Slots : sock'[s] # "open"
    BY <1>1 DEF Opened, OwnedContexts, Closed
  <1> QED
    BY <1>2 DEF Opened

LEMMA MainStepOpened ==
  ASSUME ProperUse, IInv, RInv, Opened, MainStep
  PROVE  Opened'
  <1>1. CASE CreateShutdownEvent \/ CreatePort \/ WorkersCreated \/ NewListenContext
               \/ CreateListenSocket \/ BindAndListen \/ Started
               \/ \E w \in Workers : CreateWorker(w)
    BY <1>1 DEF Opened, CreateShutdownEvent, CreatePort, CreateWorker, WorkersCreated,
          NewListenContext, CreateListenSocket, BindAndListen, Started, mainVars,
          ownedVars, ioVars, IInv, EarlyStart, Early
  <1>2. CASE AssociateListenSocket
    <2>1. \A s \in Slots : sock[s] # "open"
      BY <1>2 DEF AssociateListenSocket, RInv, NothingPosted, Opened
    <2> QED
      BY <1>2, <2>1 DEF AssociateListenSocket, Opened, ioVars
  <1>3. ASSUME NEW s \in Slots, PostFirstAccept(s) PROVE Opened'
    <2>1. /\ slot' = [slot EXCEPT ![s] = "posted"] /\ sock' = [sock EXCEPT ![s] = "open"]
          /\ mpc = "post" /\ UNCHANGED listen
      BY <1>3 DEF PostFirstAccept, ProperUse, Outcomes, ownedVars
    <2> QED
      BY <2>1, SocketTypes DEF Opened
  <1>4. CASE StartDeInitialize
    <2>1. CASE DeleteLocks \/ ClosePort
      BY <1>4, <2>1 DEF StartDeInitialize, DeleteLocks, ClosePort, DeleteListenContext,
            Opened, ioVars
    <2>2. CASE DeleteListenContext /\ mpc' = "failed"
      BY <2>2, DeleteListenContextOpened
    <2> QED
      BY <1>4, <2>1, <2>2 DEF StartDeInitialize
  <1> QED
    BY <1>1, <1>2, <1>3, <1>4 DEF MainStep

LEMMA StopStepOpened ==
  ASSUME ProperUse, IInv, RInv, Opened, Interrupt \/ StopStep
  PROVE  Opened'
  <1>1. CASE StopDeInitialize
    <2>1. CASE DeleteLocks \/ ClosePort
      BY <1>1, <2>1 DEF StopDeInitialize, DeleteLocks, ClosePort, Opened, mainVars, ioVars
    <2>2. CASE DeleteListenContext /\ cpc = "deinit3"
      <3>1. mpc' = "running"
        BY <1>1, <2>2 DEF StopDeInitialize, mainVars, RInv, StopAfterStart
      <3> QED
        BY <2>2, <3>1, DeleteListenContextOpened
    <2> QED
      BY <1>1, <2>1, <2>2 DEF StopDeInitialize
  <1>2. CASE ~StopDeInitialize
    BY <1>2 DEF Interrupt, StopStep, StopCheck, SignalShutdown, PostExitPacket,
          ExitPacketsPosted, WaitWorkers, mainVars, ownedVars, ioVars, Opened
  <1> QED
    BY <1>1, <1>2

LEMMA OtherStepOpened ==
  ASSUME IInv, Opened,
         \/ \E w \in Workers : WorkerStep(w)
         \/ \E s \in Slots : ClientArrives(s) \/ ClientSends(s)
  PROVE  Opened'
  <1> SUFFICES ASSUME /\ UNCHANGED <<mpc, listen>>
                      /\ \A s \in Slots :
                           /\ sock'[s] = "open" => sock[s] = "open"
                           /\ slot'[s] = slot[s] \/ slot'[s] \notin {"none", "freed"}
               PROVE  Opened'
    <2>1. UNCHANGED <<mpc, listen>>
      BY DEF WorkerStep, CheckEvent, TakeExitPacket, PortGone, TakeCompletion, DoAccpet,
            PostRecv, PostAcceptAgain, ClientArrives, ClientSends, mainVars, ownedVars
    <2>2. ASSUME NEW w \in Workers, TakeCompletion(w)
          PROVE  UNCHANGED sock /\ \A s \in Slots :
                   slot'[s] = slot[s] \/ slot'[s] \notin {"none", "freed"}
      <3>1. PICK c \in Completions : TakeCompletion(w)!3!(c)
        BY <2>2 DEF TakeCompletion
      <3>2. c.op = "accept" /\ c.s \in Slots /\ UNCHANGED sock
        BY <2>2, <3>1 DEF TakeCompletion, Completions, AssociatedClients
      <3>3. \E x \in {"taken", "spent", "fatal"} : slot' = [slot EXCEPT ![c.s] = x]
        BY <3>1, <3>2
      <3> QED
        BY <3>2, <3>3, SocketTypes
    <2>3. ASSUME NEW w \in Workers, PostRecv(w)
          PROVE  \A s \in Slots :
                   /\ sock'[s] = "open" => sock[s] = "open"
                   /\ slot'[s] = slot[s] \/ slot'[s] \notin {"none", "freed"}
      <3>1. \A x : Closed(x) # "open"
        BY DEF Closed
      <3>2. wslot[w] \in Slots
        BY <2>3, SocketTypes DEF PostRecv, Handling
      <3> QED
        BY <2>3, <3>1, <3>2, SocketTypes DEF PostRecv
    <2>4. ASSUME NEW w \in Workers, PostAcceptAgain(w)
          PROVE  UNCHANGED sock /\ \A s \in Slots :
                   slot'[s] = slot[s] \/ slot'[s] \notin {"none", "freed"}
      BY <2>4, SocketTypes DEF PostAcceptAgain
    <2>5. ASSUME NEW w \in Workers,
                 CheckEvent(w) \/ TakeExitPacket(w) \/ PortGone(w) \/ DoAccpet(w)
          PROVE  UNCHANGED <<sock, slot>>
      BY <2>5 DEF CheckEvent, TakeExitPacket, PortGone, DoAccpet, ioVars
    <2>6. ASSUME NEW s \in Slots, ClientArrives(s) \/ ClientSends(s)
          PROVE  UNCHANGED sock /\ \A r \in Slots :
                   slot'[r] = slot[r] \/ slot'[r] \notin {"none", "freed"}
      BY <2>6, SocketTypes DEF ClientArrives, ClientSends, AcceptOutcomes
    <2> QED
      BY <2>1, <2>2, <2>3, <2>4, <2>5, <2>6 DEF WorkerStep
  <1> QED
    BY DEF Opened

LEMMA NextOpened ==
  ASSUME ProperUse, IInv, RInv, Opened, [Next]_vars
  PROVE  Opened'
  <1>1. CASE Next
    BY <1>1, MainStepOpened, StopStepOpened, OtherStepOpened DEF Next
  <1>2. CASE UNCHANGED vars
    BY <1>2 DEF vars, Opened
  <1> QED
    BY <1>1, <1>2

\* Once _DeInitialize has run to its end no accept socket is open, for any number
\* of workers and accepts, however their operations and workers were interrupted.
THEOREM SocketsClosed ==
  ASSUME ProperUse
  PROVE  Spec => []ReleasedSocketsClosed
  <1>1. Opened => ReleasedSocketsClosed
    BY DEF Opened, ReleasedSocketsClosed
  <1>2. Init => IInv /\ RInv /\ Opened
    BY InitIInv, InitRInv, InitOpened
  <1>3. IInv /\ RInv /\ Opened /\ [Next]_vars => IInv' /\ RInv' /\ Opened'
    BY NextIInv, NextPool, NextOpened
  <1> QED
    BY <1>1, <1>2, <1>3, PTL DEF Spec

-----------------------------------------------------------------------------
Fatal == {s \in Slots : slot[s] = "fatal"}

\* While no Stop() has signalled, each worker that has ended took a broken completion.
Balance ==
  /\ cpc = "deinit3" \/ mpc \in {"event", "port", "deinit3", "failed"} => port = "null"
  /\ mpc \in {"event", "port"} => event # "set" /\ \A w \in Workers : wpc[w] = "none"
  /\ port = "open" /\ cpc \in {"idle", "check", "signal"} =>
       event # "set" /\ exits = 0 /\ Cardinality(Dead) = Cardinality(Fatal)

LEMMA FatalType == IsFiniteSet(Fatal) /\ Cardinality(Fatal) \in Nat
  <1>1. Fatal \subseteq Slots
    BY DEF Fatal
  <1> QED
    BY <1>1, SlotsAssumption, FS_Subset, FS_CardinalityType

LEMMA InitBalance == Init => Balance
  BY DEF Init, Balance, Dead

\* A step that ends no worker and breaks no context.
LEMMA SameBalance ==
  ASSUME Balance, UNCHANGED <<mpc, cpc, port, event, exits>>, Dead' = Dead, Fatal' = Fatal,
         mpc \in {"event", "port"} => UNCHANGED wpc
  PROVE  Balance'
  BY DEF Balance

LEMMA MainStepBalance ==
  ASSUME ProperUse, IInv, RInv, Balance, MainStep
  PROVE  Balance'
  <1>1. UNCHANGED cpc
    BY DEF MainStep, CreateShutdownEvent, CreatePort, CreateWorker, WorkersCreated,
          NewListenContext, CreateListenSocket, AssociateListenSocket, BindAndListen,
          PostFirstAccept, Started, StartDeInitialize, stopVars
  <1>2. ASSUME NEW w \in Workers, CreateWorker(w) PROVE Balance'
    <2>1. /\ wpc' = [wpc EXCEPT ![w] = "check"] /\ wpc[w] = "none" /\ mpc = "create"
          /\ UNCHANGED <<mpc, port, event, exits, slot>>
      BY <1>2 DEF CreateWorker, ProperUse, Outcomes, mainVars, ownedVars, ioVars
    <2>2. Dead' = Dead /\ Fatal' = Fatal
      BY <2>1, SocketTypes DEF Dead, Fatal
    <2> QED
      BY <1>1, <2>1, <2>2, SameBalance
  <1>3. ASSUME NEW s \in Slots, PostFirstAccept(s) PROVE Balance'
    <2>1. /\ slot' = [slot EXCEPT ![s] = "posted"] /\ slot[s] = "none"
          /\ mpc' = mpc /\ UNCHANGED <<wpc, port, event, exits>>
      BY <1>3 DEF PostFirstAccept, ProperUse, Outcomes, workerVars, ownedVars
    <2>2. Dead' = Dead /\ Fatal' = Fatal
      BY <2>1, SocketTypes DEF Dead, Fatal
    <2> QED
      BY <1>1, <2>1, <2>2, SameBalance
  <1>4. CASE CreateShutdownEvent
    BY <1>1, <1>4 DEF CreateShutdownEvent, Balance, Dead, workerVars
  <1>5. CASE CreatePort
    <2>1. /\ mpc = "port" /\ mpc' \in {"create", "failed"} /\ UNCHANGED <<wpc, slot, event, exits>>
          /\ mpc' = "failed" => port' = "null"
      BY <1>5 DEF CreatePort, workerVars, ioVars
    <2>2. Dead' = {} /\ Fatal' = {} /\ event # "set"
      BY <2>1 DEF Balance, RInv, NothingPosted, Dead, Fatal
    <2>3. exits = 0
      BY <2>1 DEF IInv, TypeOK, EarlyStart, Early, FirstStop
    <2>4. cpc # "deinit3"
      BY <2>1 DEF RInv, StopAfterStart
    <2> QED
      BY <1>1, <2>1, <2>2, <2>3, <2>4 DEF Balance
  <1>6. CASE WorkersCreated \/ NewListenContext \/ CreateListenSocket
               \/ AssociateListenSocket \/ BindAndListen \/ Started
    <2>1. /\ UNCHANGED <<wpc, slot, port, event, exits>>
          /\ mpc' \notin {"event", "port", "deinit3", "failed"}
      BY <1>6 DEF WorkersCreated, NewListenContext, CreateListenSocket,
            AssociateListenSocket, BindAndListen, Started, workerVars, ownedVars, ioVars
    <2>2. Dead' = Dead /\ Fatal' = Fatal
      BY <2>1 DEF Dead, Fatal
    <2> QED
      BY <1>1, <2>1, <2>2 DEF Balance
  <1>7. CASE StartDeInitialize
    <2>1. CASE DeleteLocks /\ mpc' = "deinit2"
      BY <1>1, <2>1 DEF DeleteLocks, ioVars, Balance, Dead, Fatal
    <2>2. CASE ClosePort /\ mpc' = "deinit3"
      BY <2>2 DEF ClosePort, Balance
    <2>3. CASE DeleteListenContext /\ mpc = "deinit3" /\ mpc' = "failed"
      BY <2>3 DEF DeleteListenContext, Balance
    <2> QED
      BY <1>7, <2>1, <2>2, <2>3 DEF StartDeInitialize
  <1> QED
    BY <1>2, <1>3, <1>4, <1>5, <1>6, <1>7 DEF MainStep

LEMMA StopStepBalance ==
  ASSUME ProperUse, IInv, RInv, Balance, Interrupt \/ StopStep
  PROVE  Balance'
  <1>1. mpc' = mpc
    BY DEF Interrupt, StopStep, StopCheck, SignalShutdown, PostExitPacket,
          ExitPacketsPosted, WaitWorkers, StopDeInitialize, mainVars
  <1>2. CASE Interrupt \/ StopCheck
    <2>1. /\ UNCHANGED <<wpc, slot, port, event, exits>>
          /\ cpc \in {"idle", "check"} /\ cpc' # "deinit3"
      BY <1>2 DEF Interrupt, StopCheck, workerVars, ownedVars, ioVars
    <2>2. Dead' = Dead /\ Fatal' = Fatal
      BY <2>1 DEF Dead, Fatal
    <2> QED
      BY <1>1, <2>1, <2>2 DEF Balance
  <1>3. CASE SignalShutdown \/ PostExitPacket \/ ExitPacketsPosted \/ WaitWorkers
    <2>1. cpc' \in {"post", "wait", "deinit1"} /\ UNCHANGED port
      BY <1>3 DEF SignalShutdown, PostExitPacket, ExitPacketsPosted, WaitWorkers, ownedVars
    <2>2. mpc = "running"
      BY <1>3 DEF SignalShutdown, PostExitPacket, ExitPacketsPosted, WaitWorkers, RInv,
            StopAfterStart
    <2> QED
      BY <1>1, <2>1, <2>2 DEF Balance
  <1>4. CASE StopDeInitialize
    <2>1. mpc = "running"
      BY <1>4 DEF StopDeInitialize, RInv, StopAfterStart
    <2>2. CASE DeleteLocks /\ cpc' = "deinit2"
      BY <1>1, <2>1, <2>2 DEF Balance
    <2>3. CASE ClosePort /\ cpc' = "deinit3"
      BY <1>1, <2>1, <2>3 DEF ClosePort, Balance
    <2>4. CASE DeleteListenContext /\ cpc = "deinit3" /\ cpc' = "idle"
      BY <1>1, <2>1, <2>4 DEF DeleteListenContext, Balance
    <2> QED
      BY <1>4, <2>2, <2>3, <2>4 DEF StopDeInitialize
  <1> QED
    BY <1>2, <1>3, <1>4 DEF StopStep

\* A broken completion ends one worker and is one more fatal context.
LEMMA TakeCompletionBalance ==
  ASSUME IInv, Balance, NEW w \in Workers, TakeCompletion(w)
  PROVE  Balance'
  <1>1. PICK c \in Completions : TakeCompletion(w)!3!(c)
    BY DEF TakeCompletion
  <1>2. /\ c.op = "accept" /\ c.s \in Slots /\ slot[c.s] \in {"done", "reset", "broken"}
        /\ wpc[w] = "wait" /\ UNCHANGED <<mpc, cpc, port, event, exits>>
    BY <1>1 DEF TakeCompletion, Completions, AssociatedClients, mainVars, stopVars, ownedVars
  <1>3. CASE /\ wpc' \in {[wpc EXCEPT ![w] = "accept"], [wpc EXCEPT ![w] = "check"]}
             /\ slot' \in {[slot EXCEPT ![c.s] = "taken"], [slot EXCEPT ![c.s] = "spent"]}
    <2>1. Dead' = Dead /\ Fatal' = Fatal
      BY <1>2, <1>3, SocketTypes DEF Dead, Fatal
    <2>2. mpc \notin {"event", "port"}
      BY <1>2 DEF Balance
    <2> QED
      BY <1>2, <2>1, <2>2, SameBalance
  <1>4. CASE wpc' = [wpc EXCEPT ![w] = "dead"] /\ slot' = [slot EXCEPT ![c.s] = "fatal"]
    <2>1. Cardinality(Dead') = Cardinality(Dead) + 1
      BY <1>2, <1>4, SocketTypes, DeadPlusOne
    <2>2. Fatal' = Fatal \cup {c.s} /\ c.s \notin Fatal
      BY <1>2, <1>4, SocketTypes DEF Fatal
    <2>3. Cardinality(Fatal') = Cardinality(Fatal) + 1
      BY <2>2, FatalType, FS_AddElement
    <2>4. port = "open"
      BY DEF TakeCompletion
    <2> QED
      BY <1>2, <2>1, <2>3, <2>4 DEF Balance
  <1> QED
    BY <1>1, <1>2, <1>3, <1>4 DEF AfterFailure

LEMMA WorkerStepBalance ==
  ASSUME IInv, SInv, Balance, NEW w \in Workers, WorkerStep(w)
  PROVE  Balance'
  <1>1. CASE CheckEvent(w) \/ TakeExitPacket(w) \/ PortGone(w)
    <2>1. UNCHANGED <<mpc, cpc, port, event, slot>> /\ Fatal' = Fatal
      BY <1>1 DEF CheckEvent, TakeExitPacket, PortGone, mainVars, stopVars, ownedVars, ioVars,
            Fatal
    <2>2. CASE port = "open" /\ cpc \in {"idle", "check", "signal"}
      <3>1. exits = 0 /\ event # "set"
        BY <2>2 DEF Balance
      <3>2. CheckEvent(w) /\ wpc' = [wpc EXCEPT ![w] = "wait"] /\ wpc[w] = "check"
            /\ UNCHANGED exits
        BY <1>1, <2>2, <3>1 DEF CheckEvent, TakeExitPacket, PortGone, LoopRuns
      <3>3. Dead' = Dead
        BY <3>2, SocketTypes DEF Dead
      <3>4. mpc \notin {"event", "port"}
        BY <3>2 DEF Balance
      <3> QED
        BY <2>1, <3>2, <3>3, <3>4, SameBalance
    <2>3. CASE ~(port = "open" /\ cpc \in {"idle", "check", "signal"})
      <3>1. mpc \notin {"event", "port"}
        BY <1>1 DEF CheckEvent, TakeExitPacket, PortGone, Balance
      <3> QED
        BY <2>1, <2>3, <3>1 DEF Balance
    <2> QED
      BY <2>2, <2>3
  <1>2. CASE DoAccpet(w) \/ PostRecv(w) \/ PostAcceptAgain(w)
    <2>1. UNCHANGED <<mpc, cpc, port, event, exits>>
      BY <1>2 DEF DoAccpet, PostRecv, PostAcceptAgain, mainVars, stopVars, ownedVars
    <2>2. w \in Handling
      BY <1>2 DEF DoAccpet, PostRecv, PostAcceptAgain, Handling
    <2>3. Dead' = Dead
      BY <1>2, <2>2, SocketTypes DEF DoAccpet, PostRecv, PostAcceptAgain, Dead, Handling
    <2>4. wslot[w] \in Slots /\ slot[wslot[w]] # "fatal"
      BY <2>2, SocketTypes DEF SInv, Handled
    <2>5. Fatal' = Fatal
      BY <1>2, <2>4, SocketTypes DEF DoAccpet, PostRecv, PostAcceptAgain, Fatal
    <2>6. mpc \notin {"event", "port"}
      BY <2>2 DEF Balance, Handling
    <2> QED
      BY <2>1, <2>3, <2>5, <2>6, SameBalance
  <1> QED
    BY <1>1, <1>2, TakeCompletionBalance DEF WorkerStep

LEMMA NetworkStepBalance ==
  ASSUME IInv, Balance, NEW s \in Slots, ClientArrives(s) \/ ClientSends(s)
  PROVE  Balance'
  <1>1. UNCHANGED <<mpc, cpc, port, event, exits, wpc>>
    BY DEF ClientArrives, ClientSends, mainVars, stopVars, workerVars, ownedVars
  <1>2. Dead' = Dead /\ Fatal' = Fatal
    BY <1>1, SocketTypes DEF ClientArrives, ClientSends, AcceptOutcomes, Dead, Fatal
  <1> QED
    BY <1>1, <1>2, SameBalance

LEMMA NextBalance ==
  ASSUME ProperUse, IInv, RInv, SInv, Balance, [Next]_vars
  PROVE  Balance'
  <1>1. CASE Next
    BY <1>1, MainStepBalance, StopStepBalance, WorkerStepBalance, NetworkStepBalance DEF Next
  <1>2. CASE UNCHANGED vars
    BY <1>2, SameBalance DEF vars, Dead, Fatal
  <1> QED
    BY <1>1, <1>2

\* Before a Stop() signals, a running server has lost exactly one worker for each
\* broken completion, for any number of workers and accepts.
THEOREM WorkersLost ==
  ASSUME ProperUse
  PROVE  Spec => []LostWorkers
  <1>1. Balance => LostWorkers
    BY DEF Balance, LostWorkers, Dead, Fatal
  <1>2. Init => IInv /\ RInv /\ SInv /\ Balance
    BY InitIInv, InitRInv, InitSInv, InitBalance
  <1>3. IInv /\ RInv /\ SInv /\ Balance /\ [Next]_vars => IInv' /\ RInv' /\ SInv' /\ Balance'
    BY NextIInv, NextPool, NextSInv, NextBalance
  <1> QED
    BY <1>1, <1>2, <1>3, PTL DEF Spec
===============================================================================
