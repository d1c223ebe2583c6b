SPECIFICATION FairUbloxSpec
CONSTANTS
    Lengths <- MCLengths
    QueueSize = 5
    InPort = 1
    MaxConsole = 2
    MaxResets = 1
INVARIANTS
    LossFollowsTear
PROPERTIES
    AirborneModeIsSet
CHECK_DEADLOCK FALSE
