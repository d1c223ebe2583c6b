CONSTANTS
    Clock     = 83
    LineMax   = 14
    MaxLost   = 1
    Positions <- MCPositions
SPECIFICATION Spec
INVARIANTS PositionIsFresh
PROPERTIES ImplementsLink WholeIsHeard
