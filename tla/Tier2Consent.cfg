SPECIFICATION Spec
CONSTANTS
  Devices = {phone, desk}
  Cloud = cloud
  Entities = {queue, s1, s2}
  Strict = {queue, s1, s2}
  Generated = {s1, s2}
  CloudRows = {queue}
  Mutations = {m1}
  Calls = {c1, c2}
  MaxEra = 1
  MaxSeq = 3
  None = None
SYMMETRY Symmetry
CONSTRAINT Bounded
CHECK_DEADLOCK FALSE
INVARIANTS WithdrawalPurges CursorSkipsNothing CaughtUpAgrees
PROPERTY RefinesSyncLog
