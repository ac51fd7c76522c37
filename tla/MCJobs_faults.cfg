CONSTANTS
  Jobs = {j1, j2}
  Workers = {w1, w2}
  Faults = {"broker", "publish", "database", "caller", "kill", "host"}
  MaxCopies = 2
SPECIFICATION Spec
SYMMETRY JobSymmetry
CHECK_DEADLOCK FALSE
INVARIANTS
  NoMessageWithoutRow
