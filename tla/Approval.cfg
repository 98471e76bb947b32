CONSTANTS
  u1 = u1
  u2 = u2
  h1 = h1
  x1 = x1
  main = main
  chat = chat
  c1 = c1
  c2 = c2
  None = None
  Ids = {i1, i2}
  Runs <- MCRuns
  Helpers <- MCHelpers
  Scopes <- MCScopes
  ScopeOf <- MCScopeOf
  Calls <- MCCalls
  Extends <- MCExtends
SPECIFICATION Spec
SYMMETRY Symmetry
INVARIANTS OneShot NeverItsOwnAnswer CancelIsFinal OneTurnOnly
PROPERTY RefinesConfirmation
CHECK_DEADLOCK FALSE
