CONSTANTS
  Lapics = {TRUE}
  MaxVisited = 3
SPECIFICATION Spec
INVARIANT NeverHalts
