SPECIFICATION Spec
CONSTANTS
    Keys <- GestureKeys
    Layers <- ThreeLayers
    Keymaps <- GestureMaps
    Defaults <- GestureMap
    LongMs = 2
    DoubleMs = 1
    RepeatDelay = 1
    RepeatInterval = 1
    MoveInterval = 1
    ModeTimeout = 1
    TvLockout = 1
    TvWindow = 1
    TvPressCount = 3
    LayerTimeout = 2
    UsbCommands = {}
INVARIANTS
    GestureLayerStable
    NoPressServedTwice
    ReleasedMeansIdle
