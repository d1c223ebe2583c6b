CONSTANTS
    led = led
    buzz = buzz
    report = report
    control = control
    NoTask = NoTask
    Tasks <- MCTasks
    AddOrder <- MCAddOrder
    Priority <- MCPriority
    Intervals <- MCIntervals
    RunTime <- MCRunTime
    Overruns <- MCOverruns
    MaxOverrun = 29
    StartTimes = {0, 3, 5}
    MaxLate = 12
    ClockMod = 118
    Horizon = 240
SPECIFICATION Spec
INVARIANTS NobodyIsLost NeverAhead InTime
PROPERTY ImplementsTaskTimer
