\* Two zones, four intervals, chunks of two.
SPECIFICATION Spec
CONSTANTS
  Zones <- MCZones
  Prices = {1, 2}
  Markets <- MCMarkets
  MaxInterval = 3
  PerDay = 2
  Chunk = 2
  MaxAttempts = 2
  MaxRuns = 2
  MaxKills = 1
  MaxRevisions = 1
INVARIANTS NoPriceTwice ColdEqualsLive 
PROPERTY RunsEnd
CHECK_DEADLOCK FALSE
