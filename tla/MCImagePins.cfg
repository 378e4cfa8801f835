CONSTANTS
  app = app
  other = other
  web = web
  api = api
  Artifact = {app, other}
  Tag = {latest}
  Digest = {d1, d2}
  Name = {web, api}
  NameOf <- AppNames
  Repo = {r1, r2}
  Policy = {"Pinned", "IfNotPresent", "Always"}
  MaxMoves = 2
  MaxEdits = 1
SPECIFICATION Spec
SYMMETRY Symmetric
INVARIANTS
  TypeOK
  RunsPin
  ManifestOwnedHoldsNoPin
PROPERTIES
  PinsStable
