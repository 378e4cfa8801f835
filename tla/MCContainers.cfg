CONSTANTS
  Name = {"api", "db"}
  Config = {"v1", "v2"}
  Id <- MCId
  Fault <- AnyFault
  MaxTrouble = 3
  MaxEdits = 2
SPECIFICATION FairSpec
INVARIANTS
  TypeOK
  RecordIsTruthful
  NoOrphan
PROPERTIES
  ChangeMissesOnlyAstray
  TeardownRemovesAll
  Implements
  Converges
