SPECIFICATION Spec
CONSTANTS
  NoAggregator = NoAggregator
  Venues = {"vastai", "runpod", "cudo", "hyperstack", "datacrunch", "aws"}
  Aggregators = {"primeintellect"}
  Sources <- MCFour
  Quotes <- MCHalves
  Products = {"H100", "A100"}
  Product = "H100"
  Excluded <- MCNone
  Staleness = 1
  MinSources = 1
  KNum = 5
  KDen = 2
  Trim = 25
  MaxInstant = 1
  MaxOffers = 2
  MaxLate = 0
INVARIANTS RelaysDoNotVote FixWhenFresh EstimateWithinVotes
CHECK_DEADLOCK FALSE
