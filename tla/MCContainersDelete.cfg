CONSTANTS
  Name = {"api", "db"}
  Config = {"v1", "v2"}
  Id <- MCId
  Fault <- BlindDelete
  MaxTrouble = 2
  MaxEdits = 2
SPECIFICATION Spec
PROPERTIES
  DeleteAsksDocker
