SPECIFICATION FairSpec
CONSTANTS
    HoldFrames = 1
    kMaxSwapchainTextures = 1
    WindowSizes = {1}
    MaxWindows = 1
PROPERTY GuiOffReleasesInput
