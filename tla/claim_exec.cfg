SPECIFICATION Spec
CONSTANTS
  HostFiles <- MCHostFiles
  SectorSize <- MCSectorSize
  Boots <- ExecBoots
  BlockLimit = 50
  UndefinedInts = {8, 33}
  MaxCalls = 12
  FrameCalls = 3
PROPERTIES
  ExecTransfers
