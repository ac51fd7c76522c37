CONSTANTS
  cnss = cnss
  iso = iso
  java = java
  Contents <- TwoDocuments
  Category <- Categories
  Transactions = {t1, t2}
  MaxRows = 5
SPECIFICATION ExtractionSpec
CHECK_DEADLOCK FALSE
CONSTRAINT FewRows
SYMMETRY TransactionSymmetry
INVARIANTS
  CodesAreDistinct
PROPERTIES
  IdentityIsStable
  ExtractionIsFaithful
