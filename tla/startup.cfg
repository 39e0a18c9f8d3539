SPECIFICATION Spec
CONSTANTS
  SectorSize <- MCSectorSize
  HostFiles <- MCHostFiles
  Images <- MCImages
  Commands <- MCCommands
INVARIANTS
  FileMatchesItsChain
  RegionsApart
  QueueFollowsTheBatch
  StartsAsBoot
  ReportedSectorsExist
PROPERTIES
  StartupEnds
  StartupAdvances
