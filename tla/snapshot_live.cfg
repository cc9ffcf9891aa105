CONSTANTS
  i1 = i1
  i2 = i2
  k1 = k1
  k2 = k2
  NoId = NoId
  NoKey = NoKey
  Ids = {i1}
  Keys = {k1, k2}
  MaxVersion = 2
  MaxReports = 1
  MaxStops = 1
  MaxFailures = 1
SPECIFICATION FairSpec
PROPERTIES
  EventuallySaved
