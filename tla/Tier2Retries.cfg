SPECIFICATION Spec
CONSTANTS
  Devices = {phone, desk}
  Cloud = cloud
  Entities = {pref, recipe, sched}
  Strict = {recipe, sched}
  Generated = {sched}
  CloudRows = {}
  Mutations = {m1, m2}
  Calls = {c1, c2}
  MaxEra = 1
  MaxSeq = 3
  None = None
SYMMETRY Symmetry
CONSTRAINT Bounded
CHECK_DEADLOCK FALSE
INVARIANT AppliedAtMostOnce
PROPERTY VectorsGrow
