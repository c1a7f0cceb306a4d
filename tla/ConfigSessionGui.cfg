SPECIFICATION SessionSpec
CONSTANTS
    Seasons = {30}
    Targets = {1080}
    Free = {"gui.enabled", "gui.visible", "spoof_docked", "gui.language_override"}
    Modes = {}
    OwnFlags = {}
    Configs <- MCConfigs
INVARIANTS
    CleanMeansInForce
    PendingGuiIsAnnounced
    LanguageBannerIsExact
PROPERTY CleanApplyIsIdle
