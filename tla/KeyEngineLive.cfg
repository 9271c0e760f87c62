SPECIFICATION FairSpec
CONSTANTS
    Keys <- LiveKeys
    Layers <- OneLayer
    Keymaps <- LiveMaps
    Defaults <- LiveFactory
    LongMs = 2
    DoubleMs = 1
    RepeatDelay = 1
    RepeatInterval = 1
    MoveInterval = 1
    ModeTimeout = 2
    TvLockout = 1
    TvWindow = 2
    TvPressCount = 3
    LayerTimeout = 0
    UsbCommands = {"reset"}
PROPERTIES
    ModeIsLeft
    ClickNotLost
