CONSTANTS
  r1 = r1
  r2 = r2
  Nothing = Nothing
  Runners = {r1, r2}
  Observations <- SomeObservations
  Rules <- SomeRules
  Graceful = 1
  Failure = 2
  MaxAge = 2
  MaxLead = 1
SPECIFICATION ReportsSpec
PROPERTIES
  TroubleSurfaces
  CoreRulesCatchUp
  ImplementsHealth
