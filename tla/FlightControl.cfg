CONSTANTS
    SafeTime = 3
    HoldTime = 2
    MaxGap   = 2
    ClockMod = 16
    Horizon  = 12
SPECIFICATION FairSpec
INVARIANTS BurnBounded PinInSafe RadioMatchesState
PROPERTIES FiresOnlyAfterSafeTime ImplementsInterlock ArmedEnds TriggerEjects
