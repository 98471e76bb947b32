CONSTANTS
  c1 = c1
  c2 = c2
  c3 = c3
  k1 = k1
  k2 = k2
  k3 = k3
  u1 = u1
  u2 = u2
  NoCall = NoCall
  Calls <- MCCalls
  Keys <- MCKeys
  Asks <- MCAsks
  Owner <- MCOwner
  Limit <- MCLimit
  CountsAll = FALSE
  Caps = {1, 2}
  MaxOutside = 1
SPECIFICATION Spec
INVARIANTS NothingVanishes JumpsNoQueue WakeupComing
PROPERTIES RefinesCallBook EveryRequestIsAnswered
CHECK_DEADLOCK FALSE
