SPECIFICATION Spec
CONSTANTS
  HostFiles <- MCHostFiles
  SectorSize <- MCSectorSize
  Boots <- KeyBoots
  BlockLimit = 3
  UndefinedInts = {8, 33}
  MaxCalls = 12
  FrameCalls = 3
PROPERTIES
  KeyPollSetsZero
