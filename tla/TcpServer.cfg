\* Two clients of a server with room for one in its queue, every failure.
SPECIFICATION Spec
CONSTANTS
  Clients = {c1, c2}
  Words <- Words_
  Size = 2
  Backlog = 1
  MaxSockets = 2
  MaxSent = 3
  Nul = Nul
  Invalid = Invalid
CHECK_DEADLOCK FALSE
INVARIANT ShownWasSent
PROPERTY Heard
