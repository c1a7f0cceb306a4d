SPECIFICATION Spec
CONSTANTS
    s29 = s29
    s30 = s30
    Flags = {"SoulShards"}
    Seasons <- MCSeasons
    Configs <- MCConfigs
    MaxTexts = 2
INVARIANTS
    CopyIsTheServers
    GoodTextIsTheNewest
    NoFalseSuccess
    TextIsOfTheMoment
