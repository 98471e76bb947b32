SPECIFICATION Spec
CONSTANTS
  Devices = {phone}
  Cloud = cloud
  Entities = {pref}
  Strict = {}
  Generated = {}
  CloudRows = {}
  Mutations = {m1}
  Calls = {c1, c2}
  MaxEra = 1
  MaxSeq = 3
  None = None
CONSTRAINT Bounded
CHECK_DEADLOCK FALSE
PROPERTY PurgedEraStaysPurged
