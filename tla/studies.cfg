SPECIFICATION StudiesSpec
CONSTANTS
  Missing = Missing
  OtherModels = OtherModels
  Prices = {1, 3}
  PowerPrices <- MCPowerPrices
  Regions <- MCRegions
  Home = "FR"
  Reference = "DE"
  Load <- MCLoad
  Fx <- MCFx
  Anchor = 2
  Periods = 3
  Synthetic <- MCSynthetic
  Staleness = 1
  VolWindow = 2
  MinSeriesPoints = 3
  PublicationLag = 1
  RevisionDelay = 2
  FeatureLags = {0, 1}
  RollingWindows = {2}
  Diffs = {1}
  SpreadLags = {1}
  LabelHorizon = 1
  MaxInstant <- MCMaxInstant
  MaxRevisions = 1
PROPERTIES StudiesStand BasisStands
CHECK_DEADLOCK FALSE
