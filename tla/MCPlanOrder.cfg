SPECIFICATION Spec
CONSTANTS
  Node = {1, 2, 3}
  Outside = {9}
  Owner = {"ops", "web"}
  OwnerOf <- MCOwnerOf
  MaxReads = 1
INVARIANTS TypeOK DependenciesFirst PlannedOnce CycleReported DeployedAfterDependencies
CHECK_DEADLOCK FALSE
