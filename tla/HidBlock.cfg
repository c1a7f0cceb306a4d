SPECIFICATION Spec
CONSTANTS
    Game = {g1, g2}
    Present = p
    NoThread = none
    MaxNest = 2
SYMMETRY GameSymmetry
INVARIANTS StillFlagsDecide GameNeverOverGranted NeverAborts
PROPERTY GuardDecidesForPresent
