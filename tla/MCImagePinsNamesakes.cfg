CONSTANTS
  app = app
  other = other
  web = web
  api = api
  Artifact = {app, other}
  Tag = {latest}
  Digest = {d1, d2}
  Name = {web}
  NameOf <- Namesakes
  Repo = {r1}
  Policy = {"Pinned", "Always"}
  MaxMoves = 1
  MaxEdits = 1
SPECIFICATION Spec
PROPERTIES
  PinsPerArtifact
