SPECIFICATION LayoutSpec
CONSTANTS
    MaxSaves = 4
    SavingRate = 2
INVARIANT ResetIsForGood
