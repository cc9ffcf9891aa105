CONSTANTS
  c1 = c1
  c2 = c2
  i1 = i1
  i2 = i2
  k1 = k1
  k2 = k2
  a = a
  b = b
  NoId = NoId
  NoKey = NoKey
  NoClient = NoClient
  Clients = {c1, c2}
  Ids = {i1}
  Keys = {k1, k2}
  Items = {a, b}
  Specs <- MCSpecs
  Edits <- MCEdits
  Access <- MCAccess
  Listed <- MCListed
  Calls <- MemoryCalls
  Backend = "memory"
  MaxVersion = 3
SPECIFICATION FairSpec
INVARIANTS
  IInv
  DocumentCurrent
PROPERTIES
  CallsAnswered
  ImplementsRegistry
