SPECIFICATION Spec
CONSTANTS
  HostFiles <- MCHostFiles
  SectorSize <- MCSectorSize
  Boots <- ControlBoots
  BlockLimit = 3
  UndefinedInts = {8, 33}
  MaxCalls = 12
  FrameCalls = 3
INVARIANTS
  TypeOK
  BlocksWellFormed
  RunsBlockAtIp
  RunsCachedBlock
PROPERTIES
  StepPace
  BlocksKept
  CallAdvances
