SPECIFICATION Spec
CONSTANTS
  v1 = v1
  v2 = v2
  p1 = p1
  p2 = p2
  gpu = gpu
  Venues = {v1, v2}
  Products = {gpu}
  Prices <- MCPrices
  Details <- MCDetails
  NoDetail = "none"
  MaxInstant = 2
  MonthOf <- MCMonthOf
  Procs = {p1}
  Listings <- MCListings
  History <- MCHistory
  Serialized = TRUE
  CrashAt <- MCCrashAnywhere
  MaxCrashes = 1
  MaxReruns = 1
INVARIANTS TypeOK LakeNoDuplicates CsvOneRowPerKey LakeBehindCsv NothingInvented
PROPERTIES LakeIsJournal
CHECK_DEADLOCK FALSE
