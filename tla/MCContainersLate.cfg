CONSTANTS
  Name = {"api", "db"}
  Config = {"v1", "v2"}
  Id <- MCId
  Fault <- AnyFault
  MaxTrouble = 2
  MaxEdits = 2
SPECIFICATION Spec
PROPERTIES
  ChangeTakesEffect
