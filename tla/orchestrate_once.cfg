CONSTANTS
    Controllers = {c1, c2}
    Claims = {k1, k2}
    Free = Free
    Tombstone = Tombstone
    Images <- MCImages
    Chunks = 2
    MaxRewrites = 2
    FileSize = 3
    TableEnd = 1
    AddressMax = 7
    MaxHeaders = 6
SPECIFICATION OrchSpec
SYMMETRY OrchSymmetry
INVARIANTS LaunchedAtMostOnce RaisedConsumedNothing HeldExactly LaunchedIsExpected LaunchedLoadsSafely
CHECK_DEADLOCK FALSE
