\* Two hours of collection; see MCCollection.
SPECIFICATION Spec
CONSTANTS
  Machines <- MCMachines
  Configurations <- MCConfigurations
  MaxRetries = 2
  MaxRuns = 2
  MaxRelists = 1
  MaxKills = 1
  MaxOthers = 1
INVARIANTS OffersAreListed AnsweredIsKept PushesSucceed
PROPERTY RunsEnd
CHECK_DEADLOCK FALSE
