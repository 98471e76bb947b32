CONSTANTS
  c1 = c1
  c2 = c2
  c3 = c3
  k1 = k1
  k2 = k2
  k3 = k3
  u1 = u1
  u2 = u2
  NoCall = NoCall
  Calls <- MCCalls
  Keys <- MCKeys
  Asks <- MCAsks
  Owner <- MCOwner
  Limit <- MCLocalLimit
  CountsAll = TRUE
  Caps = {1}
  MaxOutside = 0
SPECIFICATION Spec
PROPERTY QueuedCallsMove
CHECK_DEADLOCK FALSE
