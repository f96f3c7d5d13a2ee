CONSTANTS
  TrackMax = 2
  SectorMax = 4
  ByteMod = 8
  Unit = 1
  GapOverhead = 0
  MaxTrackSize = 4
  OverrunTimeout = 1
  Images <- OnlyMixed
  Opcodes <- ReadAndWrite
  Args <- Sectors
  FormatIds <- OneId
SPECIFICATION FairGuest
INVARIANTS OverrunReported NotFoundRewinds EndReached InTrack WriteStaysInSector
PROPERTY TransferEnds
