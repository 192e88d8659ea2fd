CONSTANTS
  Getters = {"Addresses"}
  Ports = {"HDMI0", "SPDIF0"}
  AudioMasks = {{}, {"unknown"}, {"ATMOS", "DDPLUS", "DAPv2"},
    {"ATMOS", "DD", "DDPLUS", "DAD", "DAPv2", "MS12", "unknown"}}
  MS12Masks = {{}, {"unknown"}, {"DolbyVolume", "DialogueEnhancer"},
    {"DolbyVolume", "InteligentEqualizer", "DialogueEnhancer", "unknown"}}
  Profiles = {"Movie", "Music"}
  Resolutions = {"720p", "1080p"}
  EDIDSizes = {0, 256, 65535, 65536, 65792}
  MaxLength = 2
  MaxListed = 3
  MaxAdapters = 3
  MaxAddresses = 2
  MaxChanges = 0
SPECIFICATION Spec
INVARIANT AddressesAreOwn
