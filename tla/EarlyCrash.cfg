CONSTANTS
  Mode = "Local"
  Clients = {k1}
  Workers = {w1}
  MaxActivations = 1
  Faults = {"earlyCrash"}
  Unwilling = {}
SPECIFICATION Spec
CHECK_DEADLOCK FALSE
INVARIANT CleanupChecksNull
