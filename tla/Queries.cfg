CONSTANTS
  Queries = {"SerialNumber", "Sku", "Make", "Model", "Brand", "DeviceType", "SocName",
    "DistributorId", "ReleaseVersion", "ChipSet", "FirmwareVersion", "SystemInfo",
    "EthMac", "EstbMac", "WifiMac", "EstbIp"}
  MaxUpdates = 2
SPECIFICATION Spec
INVARIANTS
  TypeOK
  FailureIsJustified
  PreferenceRespected
  AnswersWereThere
  FailureLeavesAnswer
  SteadyAnswer
  FirmwareInOrder
  DeviceTypeIsAnswered
