CONSTANTS
  Key <- MCKey
  Team <- MCTeam
  TeamOf <- MCTeamOf
  Port <- MCPort
  Explicit <- MCExplicit
  Reservation <- MCReservation
  FirstAuto = 30000
  LastAuto = 30001
  Process = {p1}
SPECIFICATION Spec
INVARIANTS
  TypeOK
  TakenIsHeldOrReserved
  MemoryIsFile
  PortsNeverShared
PROPERTIES
  PortsStable
