CONSTANTS
    Capacity = 3
    Roles = {"rx", "tx"}
    Masks = {TRUE, FALSE}
    MaxBytes = 6
SPECIFICATION FairSpec
INVARIANTS DamageBounded
PROPERTIES ImplementsFifo Empties
CHECK_DEADLOCK FALSE
