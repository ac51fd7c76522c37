CONSTANTS
  Contents = {"bundle", "blank"}
  FileOf <- MCFileOf
  Reading <- MCReading
  Pieces <- MCPieces
  MaxChars = 8
  Overlap = 4
  Requests = {r1, r2}
  MaxJobs = 3
SPECIFICATION Spec
CHECK_DEADLOCK FALSE
SYMMETRY IndexSymmetry
INVARIANTS
  ChunksTellTheirVersion
  IndexCatchesUp
PROPERTY NeverUnindexed
