CONSTANTS
  Mode = "Off"
  Clients = {k1}
  Workers = {w1}
  MaxActivations = 1
  Faults = {"earlyQuery"}
  Unwilling = {}
SPECIFICATION Spec
CHECK_DEADLOCK FALSE
INVARIANT QueriesReachConfiguredObjects
