SPECIFICATION FairLayoutSpec
CONSTANTS
    MaxSaves = 4
    SavingRate = 2
INVARIANTS
    NoTornFile
    SavedTextSurvives
    BootLoadsNothingStale
    NothingForgotten
PROPERTIES
    ImplementsAtomicReplace
    EventuallySaved
