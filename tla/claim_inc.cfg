SPECIFICATION Spec
CONSTANTS
  SectorSize <- MCSectorSize
  HostFiles <- MCHostFiles
  Starts <- IncStarts
INVARIANTS
  IncrementsItsOperand
