CONSTANTS
    Buttons   = {1, 3, 4}
    AutoOff  <- MCAutoOff
    SafeTime  = 2
    Watchdog  = 2
    InitDelay = 1
    SaveStep  = 2
    ByteMod   = 6
    MaxSent   = 5
    MaxResets = 3
SPECIFICATION FairSpec
INVARIANTS SwitchBounded BitsTellPins NumbersFresh
PROPERTIES ReleaseHappens
