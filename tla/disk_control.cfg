CONSTANTS
  d1 = d1  d2 = d2  bad = bad  t1 = t1  cart = cart  zip = zip
  NULL = NULL
  MaxSize = 3
  Disks <- TwoDisks
  Tapes <- OneTape
  Carts <- OneCart
  Archives <- OneZip
  Damaged <- BadDisk
  Playlists <- SomePlaylists
SPECIFICATION Spec
SYMMETRY Symmetry
INVARIANTS TypeOK OpenIsEmpty ClosedHoldsSelection WritesKept
CHECK_DEADLOCK FALSE
