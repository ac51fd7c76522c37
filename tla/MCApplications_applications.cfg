CONSTANTS
  Alike <- MCAlike
  Types = {"equipe", "declaration"}
  OwnTemplates <- MCOwnTemplates
  UserPlans <- MCUserPlans
  Wishes <- MCWishes
  Writings <- MCWritings
  Facts <- MCFacts
  Sessions = {s1, s2}
  MaxDocs = 2
  MaxVersion = 2
SPECIFICATION Spec
CHECK_DEADLOCK FALSE
CONSTRAINT FewGenerations
INVARIANTS
  ReviewHasText
  KeysAreStored
  OneDocumentPerTemplate
  FilesTellTheirVersion
  WarningsCoverText
PROPERTY GenerationEnds
