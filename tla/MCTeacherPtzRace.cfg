SPECIFICATION FairSpec
CONSTANTS
    Areas = 2
    AreaLength = 4
    Width = 9
    Offsets = {0, 4, 8}
    Gaps = {1}
    CloseView = 1
    FullView = 1
    ResetAfter = 1
    MaxKeys = 3
    MaxTasks = 1
    None = None
    Home = Home
    Elsewhere = Elsewhere
    Places <- MCPlaces
    Adders <- MCAdders
PROPERTY HomeWhenLost
CHECK_DEADLOCK FALSE
