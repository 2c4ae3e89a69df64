\* Three workers, an operation and one with the key 0, every failure, fair threads.
SPECIFICATION FairSpec
CONSTANTS
  Workers = {w1, w2, w3}
  Ops = {o1, o2}
  ZeroKeyOps = {o2}
  NoOp = NoOp
  MaxWait = 64
  Failures = {"event", "port", "thread"}
CHECK_DEADLOCK FALSE
INVARIANTS NoFault ExitPacketsSuffice WorkersKept
PROPERTIES PoolSteps StopReturns CompletionCalledBack
