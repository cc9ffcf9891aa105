CONSTANTS
  l1 = l1
  l2 = l2
  v1 = v1
  v2 = v2
  ann = ann
  bob = bob
  NoLink = NoLink
  Nobody = Nobody
  Links = {l1, l2}
  Visitors = {v1, v2}
  Browsers = {v1}
  Users = {ann, bob}
  AddressOf <- MCAddressOf
  Config <- MCConfig
  Lifetime = 1
  CookieLife = 1
  SessionLife = 2
  MaxTime = 3
  MaxRestarts = 1
SPECIFICATION SessionsSpec
CHECK_DEADLOCK FALSE
INVARIANTS
  SingleUse
  HeadersTrue
  FailuresJustified
PROPERTIES
  RefusalsJustified
