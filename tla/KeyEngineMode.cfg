SPECIFICATION Spec
CONSTANTS
    Keys <- ModeKeys
    Layers <- TwoLayers
    Keymaps <- ModeKeymaps
    Defaults <- ModeFactory
    LongMs = 2
    DoubleMs = 1
    RepeatDelay = 1
    RepeatInterval = 1
    MoveInterval = 1
    ModeTimeout = 3
    TvLockout = 2
    TvWindow = 2
    TvPressCount = 3
    LayerTimeout = 0
    UsbCommands = {"set_layer", "apply"}
INVARIANTS
    TypeOK
    GestureLayerStable
    ReleasedMeansIdle
    LedShowsMode
PROPERTIES
    TvTailCannotExit
