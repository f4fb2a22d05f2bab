SPECIFICATION FairSpec
CONSTANTS
    Areas = 4
    AreaLength = 4
    Width = 19
    Offsets = {11, 14, 18}
    Gaps = {1}
    CloseView = 1
    FullView = 1
    ResetAfter = 1
    MaxKeys = 3
    MaxTasks = 1
    None = None
    Home = Home
    Elsewhere = Elsewhere
    Places <- MCPlaces
    Adders <- MCAdders
INVARIANTS
    AreaInRange
    CameraFollows
PROPERTY Settles
CHECK_DEADLOCK FALSE
