SPECIFICATION FairSpec
CONSTANTS
    Width = 2
    Corners = 1
    Areas <- MCAreas
    Objects <- MCObjects
    Grow = 0
    None = None
    Files <- MCFiles
    Settings <- MCSettings
    MaxOpens = 2
    Cells = {0, 1, 2}
    Movements <- MCMovements
    Fast = 2
    Body = 2
INVARIANTS
    NullOnlyWhileOpening
    MaskFollows
    StandNeedsTwo
PROPERTIES
    ShownAll
    EndsOrSleeps
CHECK_DEADLOCK FALSE
