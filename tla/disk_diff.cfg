CONSTANTS
  Sides = 2
  Tracks = 2
  Size <- McSize
  Image <- McImage
  Stale = 2
  RandomDEs = FALSE
  Contents <- McContents
  Counts = {2}
  NoDisk = NoDisk
  Torn = Torn
SPECIFICATION Spec
INVARIANTS TypeOK
PROPERTIES ImplementsStore
