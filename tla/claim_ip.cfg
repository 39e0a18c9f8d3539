SPECIFICATION Spec
CONSTANTS
  HostFiles <- MCHostFiles
  SectorSize <- MCSectorSize
  Boots <- IntBoots
  BlockLimit = 3
  UndefinedInts = {8, 33}
  MaxCalls = 12
  FrameCalls = 3
PROPERTIES
  IpIsSynced
