SPECIFICATION LeafSpec
CONSTANTS
  Retainers = {r1, r2}
  MaxPolls = 2
  MaxClones = 2
INVARIANTS
  OneRetainedLeaf
  NoSilentResidue
PROPERTY
  CallsEnd
CHECK_DEADLOCK FALSE
