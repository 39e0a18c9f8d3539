SPECIFICATION Spec
CONSTANTS
  SectorSize <- MCSectorSize
  HostFiles <- MCHostFiles
  Starts <- OperandStarts
INVARIANTS
  ConditionsAgree
  DivisionExact
  ProductsExact
  DoubleShiftsExact
  BitsExact
  ExtendKeepsValue
  OperandInPlace
