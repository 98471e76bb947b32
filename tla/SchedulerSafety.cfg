SPECIFICATION Spec
CONSTANTS
  Schedules = {cronA, onceB}
  OneShots = {onceB}
  Instant = {cronA}
  Editable = {cronA}
  Crons = {morning}
  Jobs = {j1, j2}
  MaxConcurrent = 1
  MaxFailures = 2
  None = None
SYMMETRY JobSymmetry
INVARIANTS OneRunEach InflightExact StopIsFinal
PROPERTY RefinesSingleFlight
