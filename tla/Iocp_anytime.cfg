\* Every failure and Ctrl-C at any moment, undefined behaviour included.
SPECIFICATION Spec
CONSTANTS
  Workers = {w1, w2}
  Slots = {s1, s2}
  NoSlot = NoSlot
  MaxWait = 64
  Failures <- FailureKinds
  StopWindow <- MainPoints
CHECK_DEADLOCK FALSE
INVARIANTS ExitPacketsSuffice SecondCloseOnlyAfterFailedReceive
