\* Two threads that share three objects, on each kind of mutex.
SPECIFICATION MutexFairSpec
CONSTANTS
  Thread = {t1, t2}
  Object = {o1, o2, o3}
  None = None
CHECK_DEADLOCK FALSE
INVARIANTS MutualExclusion FreeWhenLeft
PROPERTY Enters
