SPECIFICATION Spec
CONSTANTS
  Registry <- MCRegistry
  Aliases = {"hub"}
  Library <- MCLibrary
  Edits <- MCEdits
  SecretKey <- MCSecretKey
  Path = {"p"}
  MaxMinted = 3
  MaxVersion = 2
INVARIANTS TypeOK SecretsOnFile ConsumersMatch ReadsGranted FailuresForeseen HolesExplained PinnedFloats
