CONSTANTS
  Tasks = {t1, t2}
  Unusable = {t2}
  Jobs = {j1, j2}
  MaxConcurrent = 1
  None = None
SPECIFICATION LiveSpec
INVARIANTS InflightExact
PROPERTIES RefinesSingleFlight DueIsAttempted EveryRunEnds
CHECK_DEADLOCK FALSE
