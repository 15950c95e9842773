SPECIFICATION FairSpec
CONSTANTS
  Modes = {TRUE, FALSE}
  DeviceStages = 3
  GoodStages = 2
  MaxStages = 4
  MaxTempRuns = 2
  MaxInvoked = 38
\* A compilation ends: the backend returns or stops on an error.
CHECK_DEADLOCK FALSE
INVARIANTS TypeOK SummaryStateHandled ConflictsIgnoredOnlyInNocc SuccessFits TimePrinted RedoUsesNoccPlacements ReplaysTrivial
PROPERTIES LadderClimbs EndsOrFallsBackForever RetriesEnd
