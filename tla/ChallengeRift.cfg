SPECIFICATION Spec

CONSTANTS
    Rifts <- MCRifts
    Numbers <- MCNumbers
    Players = {p1}
    confLocal = 2
    local <- MCLocal
    Choices <- MCChoices

INVARIANTS
    RangeWithoutDump
