CONSTANTS
  Mode = "Local"
  Clients = {k1}
  Workers = {w1}
  MaxActivations = 1
  Faults = {"crash"}
  Unwilling = {}
SPECIFICATION FairSpec
CHECK_DEADLOCK FALSE
PROPERTY CrashDeactivates
