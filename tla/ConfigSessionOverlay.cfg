SPECIFICATION SessionSpec
CONSTANTS
    Seasons = {29, 30}
    Targets = {1080}
    Free = {}
    Modes = {"OverlayConfig"}
    OwnFlags = {}
    Configs <- MCConfigs
INVARIANT OverlayIsMapPlusOwnFlags
