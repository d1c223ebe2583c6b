CONSTANTS
    Fields    <- MCFields
    CalPasses = 4
    MaxErrors = 1
    MaxCommands = 4
SPECIFICATION FairSpec
INVARIANTS StopsOnlyAfterLoss NoFalseTrigger
PROPERTIES CalibrationIsRight FieldIsSeen
