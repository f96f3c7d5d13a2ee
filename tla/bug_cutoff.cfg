CONSTANTS
  CharMod = 8
  LineMod = 4
  RasterMod = 4
  SyncMod = 4
  IntLines = 6
  Margin = 4
  MinVSync = 7
  MaxVSync = 10
  SlTop = 14
  Beam = {4}
  Firmware <- SmallFile
  Writes <- LongLines
  Rasters = {0}
  Times = {1}
  OutTime = 1
  AckTime = 1
SPECIFICATION Spec
INVARIANT FrameCutOff
