SPECIFICATION Spec
CONSTANTS
  Databases <- MCDatabases
  Full = Full
  Capacity = 1
  MaxFailures = 1
  Cards <- MCCards
  MaxGpus = 2
  MaxCards = 3
INVARIANTS
  TypeOK
  ForestIsRight
  NamesAreTrue
  NamesAreComplete
  CardsAreCounted
  ForestIsFreed
