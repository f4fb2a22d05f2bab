SPECIFICATION Spec
CONSTANTS
    Columns = {0, 2}
    Home = 2
    Elsewhere = 0
    None = None
    Gaps = {1}
    AnalyzeDuration = 2
    Interval = 1
    Stop = 1
    Scale = 2
    Stable = 5
    MaxSem = 2
    MaxTasks = 1
PROPERTY TurnsBeforeClose
CHECK_DEADLOCK FALSE
