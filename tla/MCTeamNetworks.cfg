SPECIFICATION Spec
CONSTANTS
  Team = {"ops", "web", "lab"}
  FirstOctet = 5
  LastOctet = 6
  MaxTrouble = 2
  MaxCommands = 2
INVARIANTS TypeOK SubnetsDistinct DeployedOnOwnSubnet ForgottenHoldsNothing
PROPERTIES SubnetStable
