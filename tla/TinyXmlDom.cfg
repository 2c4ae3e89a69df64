\* Five nodes: two trees, or one with three or four children, and room for a clone.
SPECIFICATION Spec
CONSTANTS
  Node = {n1, n2, n3, n4, n5}
  Null = Null
SYMMETRY Places
INVARIANTS LinksAgree WalksAgree ErrorsReachDocument
PROPERTY ImplementsForest
