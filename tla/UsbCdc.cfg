CONSTANTS
    QueueSize  = 3
    PacketSize = 2
    MaxWrite   = 4
    MaxBytes   = 12
    MaxResets  = 3
SPECIFICATION FairSpec
INVARIANTS NeverRefused DoneMeansComplete StallsOnlyAfterLoss InOrder
PROPERTIES Drains
