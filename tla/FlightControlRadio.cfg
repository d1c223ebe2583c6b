CONSTANTS
    SafeTime = 2
    HoldTime = 2
    MaxGap   = 2
    ClockMod = 16
    Horizon  = 8
SPECIFICATION Spec
INVARIANTS TelemetryOnChannel
