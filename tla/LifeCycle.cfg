CONSTANTS
  Mode = "Local"
  Clients = {k1}
  Workers = {w1, w2}
  MaxActivations = 1
  Faults = {"crash", "timeout", "earlyQuery"}
  Unwilling = {"DeviceVideoCapabilities"}
SPECIFICATION FairCallsSpec
CHECK_DEADLOCK FALSE
INVARIANTS
  CallsTypeOK
  SubSystemReferences
  CutShortOnlyByCrash
PROPERTIES
  DeinitializeEnds
  ProcessesEnd
