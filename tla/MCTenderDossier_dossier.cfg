CONSTANTS
  Alike <- MCAlike
  Notices <- MCNotices
  Files = {"readable", "scan"}
  Readable = {"readable"}
  Readings <- MCReadings
  Ratios = {500, 1000}
  Adjustments <- MCAdjustments
  Company <- MCCompany
  Profile <- MCProfile
  Text <- MCText
  Sessions = {s1, s2}
  MaxPieces = 3
SPECIFICATION Spec
CHECK_DEADLOCK FALSE
CONSTRAINT FewPieces
SYMMETRY SessionSymmetry
INVARIANTS
  PiecesAreHeld
  OnePiecePerUrl
  ScoreFollowsTender
PROPERTY NothingIsLost
