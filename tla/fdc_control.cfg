CONSTANTS
  TrackMax = 2
  SectorMax = 3
  ByteMod = 8
  Unit = 1
  GapOverhead = 0
  MaxTrackSize = 4
  OverrunTimeout = 1
  Images <- OnlyPlain
  Opcodes <- ControlCommands
  Args <- Wide
  FormatIds <- OneId
SPECIFICATION Spec
INVARIANTS TypeOK ProtocolInv
CHECK_DEADLOCK FALSE
