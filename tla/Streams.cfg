\* Bytes of one bit, three steps of the writer, strings longer than a length of two
\* bytes can say.
SPECIFICATION Spec
CONSTANTS
  B = 2
  InitialSize = 3
  MaxSteps = 3
  MaxString = 5
CHECK_DEADLOCK FALSE
INVARIANTS InBounds ReadsBack Framed
