\* Two days, three reports, two runs; see MCErcotForecasts.
SPECIFICATION Spec
CONSTANTS
  PerHour = 2
  HoursPerDay = 2
  Days = 2
  CutoffHour = 1
  Profiles <- MCProfiles
  RtmPaths <- MCRtmPaths
  Horizon = 2
  Limits <- MCLimits
  Ranges <- MCRanges
  Chunk = 4
  Pct <- MCPct
  MinObs = 1
  MaxReports = 3
  MaxRuns = 2
INVARIANTS ViewIsKnowledge TrainingStands ServingMatchesTraining
CHECK_DEADLOCK FALSE
