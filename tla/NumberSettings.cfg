SPECIFICATION Spec
CONSTANTS
    None = None
    NaN = NaN
    Word = 65536
    Typed <- MCTyped
    Files <- MCFiles
    Shown <- OneGroup
INVARIANT InForceIsLegal
PROPERTY UntouchedIsKept
PROPERTY SavedNumbersBoot
