CONSTANTS
  Sessions = {s1, s2}
  MaxHistory = 6
SPECIFICATION Spec
SYMMETRY SessionSymmetry
INVARIANTS
  MilestonesPassed
  HistoryHonest
  ApplicationOpenedOnce
  RelevantIsQualified
PROPERTY FollowsMachine
