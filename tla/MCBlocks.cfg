CONSTANTS
    MaxBlocks = 4
    Durations = {0, 1, 2, 4, 7}
    Interps = {0, 2, 99}
    Interval = 3
    Default = 2100
    NaN = NaN
    Inputs <- MCInputs
SPECIFICATION Spec
INVARIANTS
    BlocksContiguous
    JumpRemovalKeepsPath
    BlocksEndOnPath
PROPERTY EachGroupTakes
