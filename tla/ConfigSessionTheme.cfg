SPECIFICATION SessionSpec
CONSTANTS
    Seasons = {29, 30}
    Targets = {1080}
    Free = {}
    Modes = {"MapOnly"}
    OwnFlags = {"SoulShards"}
    Configs <- MCConfigs
INVARIANT MapOnlyIsTheTheme
PROPERTY SavedIsWhatBoots
