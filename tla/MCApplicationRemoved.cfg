SPECIFICATION Spec
CONSTANTS
    Width = 2
    Corners = 1
    Areas <- MCAreas
    Objects <- MCObjects
    Grow = 0
    None = None
    Files <- LeftFile
    Settings <- Default
    MaxOpens = 1
    Cells = {0, 1, 2}
    Movements <- MCMovements
    Fast = 2
    Body = 2
INVARIANT AreaRemoved
CHECK_DEADLOCK FALSE
