SPECIFICATION Spec
CONSTANTS
  SectorSize <- MCSectorSize
  HostFiles <- MCHostFiles
  Starts <- AddStarts
INVARIANTS
  AddStoresItsSum
