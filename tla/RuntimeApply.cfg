SPECIFICATION Spec
CONSTANTS
    Seasons = {29, 30}
    Targets = {1080, 2160}
    Configs <- MCConfigs
INVARIANTS
    InfiniteMpFollowsConfig
    GateOnlyInSeasonalGame
    XVarsFollowConfig
    NoSilentStaleness
