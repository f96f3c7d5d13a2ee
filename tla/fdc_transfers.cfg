CONSTANTS
  TrackMax = 2
  SectorMax = 3
  ByteMod = 8
  Unit = 1
  GapOverhead = 0
  MaxTrackSize = 4
  OverrunTimeout = 1
  Images <- OnlyHeaded
  Opcodes <- TransferCommands
  Args <- Moves
  FormatIds <- HeadedId
SPECIFICATION Spec
PROPERTY ImplementsProtocol
CHECK_DEADLOCK FALSE
