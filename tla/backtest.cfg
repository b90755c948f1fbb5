SPECIFICATION DeskSpec
CONSTANTS
  Prices = {1, 2, 4}
  MaxLength = 4
  Asked <- MCAsked
  Lookback = 3
  ZEntry = 2
  ZExit = 1
  ZDen = 2
  CostRate = 3
  MaxRuns = 2
  Producers <- MCProducers
  BasisLookback = 2
  VolLookback = 2
  VolFloor = 1
  GrossCap = 5
  ImpactKappa = 2
  Grain = 2
  Unit = 4
  PriceScale = 4
  Common = 840
INVARIANTS DecisionsAreCausal DecisionsEarnLater CostsFollowPositions HeldSinceEntry AttributionAddsUp
CHECK_DEADLOCK FALSE
