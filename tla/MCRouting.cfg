SPECIFICATION Spec
CONSTANTS
  Library <- MCLibrary
  Configs <- MCConfigs
  Rank <- MCRank
  FileOf <- MCFileOf
INVARIANTS TypeOK ClaimsDistinct TLSWarned Delivered
PROPERTY FilesKept
