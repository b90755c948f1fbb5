SPECIFICATION Spec
CONSTANTS
  v1 = v1
  v2 = v2
  p1 = p1
  p2 = p2
  gpu = gpu
  Venues = {v1, v2}
  Products = {gpu}
  Prices <- MCPrices
  Details <- MCDetails
  NoDetail = "none"
  MaxInstant = 2
  MonthOf <- MCMonthOf
  Procs = {p1, p2}
  Listings <- MCListings
  History <- MCHistory
  Serialized = FALSE
  CrashAt <- MCCrashAnywhere
  MaxCrashes = 1
  MaxReruns = 0
INVARIANTS AckedInLake
PROPERTIES LakeIsJournal
CHECK_DEADLOCK FALSE
