SPECIFICATION FairSpec
CONSTANTS
  Modes = {FALSE}
  DeviceStages = 3
  GoodStages = 2
  MaxStages = 3
  MaxTempRuns = 2
  MaxInvoked = 38
\* A compilation ends: the backend returns or stops on an error.
CHECK_DEADLOCK FALSE
INVARIANTS FallbackRepeatsFirstRound
