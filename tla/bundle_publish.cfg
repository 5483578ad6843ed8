SPECIFICATION BundleSpec
CONSTANTS
  Writers = {w1, w2, w3}
  Readers = {r1, r2}
  None = None
INVARIANTS
  ReadyMeansWhole
  
  
SYMMETRY BundleSymmetry
CHECK_DEADLOCK FALSE
