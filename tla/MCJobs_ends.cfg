CONSTANTS
  Jobs = {j1, j2, j3}
  Workers = {w1, w2}
  Faults = {"broker"}
  MaxCopies = 2
SPECIFICATION FairSpec
CHECK_DEADLOCK FALSE
INVARIANTS
  OutcomeIsExact
  UnfinishedIsInHand
PROPERTIES
  FollowsBoard
  EveryJobEnds
