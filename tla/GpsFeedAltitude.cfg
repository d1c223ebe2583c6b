CONSTANTS
    Clock     = 83
    LineMax   = 14
    MaxLost   = 0
    Positions <- MCPositions
SPECIFICATION Spec
INVARIANT LastValidAltitude
