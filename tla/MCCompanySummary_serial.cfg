CONSTANTS
  Requests = {r1, r2, r3}
  Overlap = FALSE
SPECIFICATION FairSpec
CHECK_DEADLOCK FALSE
INVARIANT UpToDateAtRest
PROPERTIES
  SummaryNeverForgets
  ChangesAreTold
