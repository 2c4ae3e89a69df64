\* Three monitors with three targets between them, added to while the place to add
\* to is in the list.
SPECIFICATION Spec
CONSTANTS
  M = {m1, m2, m3}
  T = {t1, t2, t3}
  Names = {n1, n2}
  Labels = {a, b}
  Stats = {0, 1}
  Null = Null
  AddsAfterTailDeletion = FALSE
SYMMETRY Addresses
INVARIANTS OneOwner Counts
PROPERTY ImplementsLists
