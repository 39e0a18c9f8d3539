SPECIFICATION Spec
CONSTANTS
  HostFiles <- MCHostFiles
  SectorSize <- MCSectorSize
  Boots <- BatchBoots
  BlockLimit = 3
  UndefinedInts = {8, 33}
  MaxCalls = 15
  FrameCalls = 3
INVARIANTS
  LimitRespected
  RunsLoadedCode
PROPERTIES
  LauncherSpec
  FrameEnds
  HaltIsFinal
