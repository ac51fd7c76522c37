CONSTANTS
  Contents = {a, b}
  Categories = {cv, autre}
  Expiries <- MCExpiries
  LastDay = 2
  Sessions = {s1, s2}
  MaxDocs = 2
  MaxVersion = 2
SPECIFICATION LibrarySpec
CHECK_DEADLOCK FALSE
CONSTRAINT NotLongOverlapped
SYMMETRY LibrarySymmetry
INVARIANTS
  NoDuplicateUpload
  StatusFollowsDate
