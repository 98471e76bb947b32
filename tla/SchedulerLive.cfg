SPECIFICATION FairSpec
CONSTANTS
  Schedules = {cronA, onceB}
  OneShots = {onceB}
  Instant = {cronA}
  Editable = {}
  Crons = {morning}
  Jobs = {j1, j2}
  MaxConcurrent = 1
  MaxFailures = 2
  None = None
PROPERTIES InstantDueIsAttempted EveryRunEnds StopEnds
