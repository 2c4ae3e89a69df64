\* Three workers, two accepts, fair threads, every failure the code handles.
SPECIFICATION FairSpec
CONSTANTS
  Workers = {w1, w2, w3}
  Slots = {s1, s2}
  NoSlot = NoSlot
  MaxWait = 64
  Failures <- HandledFailures
  StopWindow <- AfterStart
INVARIANTS NoFault LostWorkers ReleasedSocketsClosed
PROPERTIES ImplementsPool StopReturns AcceptHandled FailedStartDrains
