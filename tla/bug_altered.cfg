CONSTANTS
  TrackMax = 2
  SectorMax = 3
  ByteMod = 8
  Unit = 1
  GapOverhead = 0
  MaxTrackSize = 4
  OverrunTimeout = 1
  Images <- OnlyPlain
  Opcodes <- JustWrite
  Args <- Beyond
  FormatIds <- OneId
SPECIFICATION GuestSpec
INVARIANT AlteredWhenDirty
