\* Three instants of readings from a venue and an aggregator that relays it.
SPECIFICATION Spec
CONSTANTS
  NoAggregator = NoAggregator
  Venues = {"vastai", "runpod", "cudo", "hyperstack", "datacrunch", "aws"}
  Aggregators = {"primeintellect"}
  Sources <- MCPair
  Quotes <- MCTwoQuotes
  Products = {"H100", "A100"}
  Product = "H100"
  Excluded <- MCNone
  Staleness = 1
  MinSources = 1
  KNum = 5
  KDen = 2
  Trim = 20
  MaxInstant = 3
  MaxOffers = 1
  MaxLate = 1
  FixEvery = 2
  Headline <- MCHeadline
  Rules <- MCRules
INVARIANTS FreshestVotes AlertsAreQuoted
PROPERTIES RevisionsAreLocal AnswersStand
CHECK_DEADLOCK FALSE
