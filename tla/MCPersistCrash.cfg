SPECIFICATION Spec
CONSTANTS
  Records = {r1, r2}
  Torn = Torn
  MaxRecs = 3
  MaxFaults = 2
SYMMETRY Symmetry

INVARIANTS
  AppendsPastHeader
  NrecIsFresh
PROPERTY KeepsLog
