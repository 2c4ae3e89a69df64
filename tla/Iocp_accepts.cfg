\* The number of accepts posted while the server runs.
SPECIFICATION Spec
CONSTANTS
  Workers = {w1}
  Slots = {s1}
  NoSlot = NoSlot
  MaxWait = 64
  Failures = {}
  StopWindow = {"running"}
INVARIANT AcceptsKeptPosted
