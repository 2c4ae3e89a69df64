\* Two sections of two keys, every failure.
SPECIFICATION Spec
CONSTANTS
  Sections = {s1, s2}
  Keys = {k1, k2}
  Values = {"x", "x=y"}
  Lines <- ReadBack
  None = None
  Failures = {"open", "disk"}
INVARIANTS UntouchedAgree ChangesMarked
