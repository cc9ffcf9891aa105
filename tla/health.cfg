CONSTANTS
  n1 = n1
  n2 = n2
  low = low
  high = high
  NoReading = NoReading
  Names = {n1, n2}
  Readings = {low, high}
  Periods = {0, 1, 2}
  RuleLists <- AllLists
  NewLists <- SomeLists
  MaxLead = 1
  MaxAge = 3
SPECIFICATION FairSpec
INVARIANTS
  SilenceShows
  RulesDecide
PROPERTIES
  OnlyDecays
  SilentTurnsRed
