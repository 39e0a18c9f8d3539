SPECIFICATION Spec
CONSTANTS
  HostFiles <- MCHostFiles
  SectorSize <- MCSectorSize
  Boots <- ServiceBoots
  BlockLimit = 8
  UndefinedInts = {8, 33}
  MaxCalls = 21
  FrameCalls = 3
PROPERTIES
  NativeTransparent
  OpenHandlesKept
