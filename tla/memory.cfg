CONSTANTS
  Models = {1, 3}
  RamSizes = {1, 4}
  ModeBytes = {0, 41, 60}
  RamBytes = {10}
  RomBytes = {7}
  LockBytes = {0, 1, 2}
  SystemCartridge = TRUE
  LockSize = 3
SPECIFICATION Spec
INVARIANTS WriteMapAgrees ReadMapAgrees RamInMachine OnlyPlusUnlocks
PROPERTIES UnlockNeedsKey SnapshotRestoresMap
