CONSTANTS
  i1 = i1
  i2 = i2
  k1 = k1
  k2 = k2
  a = a
  r = r
  page = page
  cli = cli
  NoKey = NoKey
  NoId = NoId
  Ids = {i1, i2}
  Keys = {k1, k2}
  Items = {a}
  Specs <- MCSpecs
  Edits <- MCEdits
  Reporters = {r}
  PatchChecksKey = FALSE
  Browsers = {page}
  Commands = {cli}
  MaxVersion = 3
SYMMETRY MCSymmetry
SPECIFICATION EditorsSpec
CHECK_DEADLOCK FALSE
PROPERTIES
  VersionNamesContent
  CommandsOverwriteNothing
