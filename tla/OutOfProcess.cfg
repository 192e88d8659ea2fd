CONSTANTS
  Mode = "Local"
  Clients = {k1, k2}
  Workers = {w1}
  MaxActivations = 2
  Faults = {"crash", "earlyCrash", "timeout", "throw", "earlyQuery", "lateQuery"}
  Unwilling = {"DeviceVideoCapabilities"}
SPECIFICATION Spec
CHECK_DEADLOCK FALSE
SYMMETRY Interchangeable
INVARIANTS
  ReferencesCovered
  ReferencesExact
  CallsOnLiveObjects
  ServedObjectsConfigured
  ShellReferences
  ActivatedMeansAvailable
  NothingLeaks
  ActivatedCanStop
PROPERTY OwnershipImplemented
