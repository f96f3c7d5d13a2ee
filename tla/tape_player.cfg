CONSTANTS
  HalfWord = 64
  ByteBits = 2
  CyclesPerMs = 4
  LeadIn = 2
  IdleBound = 3
  Standard <- StandardPulses
  Files <- AllFiles
  Costs = {1, 2}
SPECIFICATION FairSpec
INVARIANTS TypeOK PointersInImage OnTime
PROPERTIES ImplementsSignal TapeEnds
CHECK_DEADLOCK FALSE
