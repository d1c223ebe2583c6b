CONSTANTS
    SectorSize  = 8
    FlashSize   = 40
    Window      = 8
    Offsets     = {1}
    MaxLog      = 25
    MaxFailures = 2
SPECIFICATION Spec
INVARIANTS EndIsKnown RecordsIntact CalibrationKept
