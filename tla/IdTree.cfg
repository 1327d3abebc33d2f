CONSTANTS
  W = 2
  MaxIds = 17
SPECIFICATION Spec
INVARIANTS
  TypeOK
  SummaryBits
  GrowthAssertions
PROPERTIES
  HandsOutLeastId
