CONSTANTS
  Helpers = {h1, h2, h3}
  Scheduled = {s1}
  ActiveLimit = 3
SPECIFICATION LiveSpec
INVARIANTS LiveIsBusy SlotsAreBacked ParentSpeaksFirst
PROPERTIES RefinesReports KilledNeverCompletes CancelledStops
CHECK_DEADLOCK FALSE
