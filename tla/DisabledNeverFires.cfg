SPECIFICATION Spec
CONSTANTS
  Schedules = {cronA, onceB}
  OneShots = {onceB}
  Instant = {cronA}
  Editable = {cronA}
  Crons = {morning, evening}
  Jobs = {j1, j2}
  MaxConcurrent = 1
  MaxFailures = 2
  None = None
PROPERTY DisabledNeverFires
