CONSTANTS
  Mode = "Off"
  Clients = {k1, k2}
  Workers = {w1, w2}
  MaxActivations = 2
  Faults = {"root", "earlyQuery"}
  Unwilling = {}
SPECIFICATION Spec
CHECK_DEADLOCK FALSE
SYMMETRY Interchangeable
INVARIANTS
  TypeOK
  ReferencesCovered
  CallsOnLiveObjects
  ServedObjectsConfigured
  ShellReferences
  ActivatedMeansAvailable
  HandlersEndInTime
  Defined
