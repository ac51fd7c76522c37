CONSTANTS
  cnss = cnss
  iso = iso
  java = java
  Contents <- TwoDocuments
  Category <- Categories
  Transactions = {t1}
  MaxRows = 4
SPECIFICATION ExtractionSpec
CHECK_DEADLOCK FALSE
PROPERTY HandSurvives
