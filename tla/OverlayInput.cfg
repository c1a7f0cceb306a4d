SPECIFICATION FairSpec
CONSTANTS
    HoldFrames = 2
    kMaxSwapchainTextures = 2
    WindowSizes = {1, 3}
    MaxWindows = 2
INVARIANTS
    TypeOK
    BackendIsComplete
    TargetIsCurrent
    BlockMatchesOverlay
    GestureTogglesOnce
    TouchOpensOnce
    NothingBeforeShell
PROPERTIES
    GestureGetsThrough
    OverlayComesUp
