CONSTANTS
  Mode = "Local"
  Clients = {k1}
  Workers = {w1}
  MaxActivations = 1
  Faults = {}
  Unwilling = {"DeviceInfoImplementation"}
SPECIFICATION FairSpec
CHECK_DEADLOCK FALSE
PROPERTY ProcessesEnd
