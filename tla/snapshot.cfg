CONSTANTS
  i1 = i1
  i2 = i2
  k1 = k1
  k2 = k2
  NoId = NoId
  NoKey = NoKey
  Ids = {i1, i2}
  Keys = {k1, k2}
  MaxVersion = 3
  MaxReports = 0
  MaxStops = 2
  MaxFailures = 1
SPECIFICATION Spec
INVARIANTS
  SnapshotCovers
PROPERTIES
  RestoreFollowsFile
