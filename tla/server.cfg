CONSTANTS
  g1 = g1
  g2 = g2
  g3 = g3
  Runs = {g1, g2, g3}
  Plans <- MCPlans
  Calls = {c1}
  Missing = missing
  Empty = empty
  MaxStarts = 2
  MaxKills = 1
SPECIFICATION Spec
CHECK_DEADLOCK FALSE
INVARIANTS
  IdentityKept
PROPERTIES
  PagesReachTheService
  CallsGetTheirTime
  SignalEnds
