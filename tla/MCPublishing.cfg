SPECIFICATION PubSpec
CONSTANTS
  a = a
  b = b
  c = c
  t1 = t1
  Key = {a, b, c}
  Team = {t1}
  TeamOf <- MCTeamOf
  Port = {8080, 8443, 30000}
  Explicit = {8080, 8443}
  Reservation <- MCReservation
  FirstAuto = 30000
  LastAuto = 30000
  Process = {"p"}
  MaxEdits = 2
SYMMETRY Symmetric
INVARIANTS ApprovedNeverTaken DeployedOnRecordedPort
CHECK_DEADLOCK FALSE
