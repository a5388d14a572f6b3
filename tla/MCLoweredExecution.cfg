CONSTANTS
    Int64Max = 3
    VersionSpan = 16
    Units <- MCUnits
    Replies <- MCReplies
SPECIFICATION FairSpec
INVARIANTS
    ReachingVersionsHold
    ValuesPreserved
    ConstructionAccepted
    CheckedArithmeticIsExact
PROPERTIES
    CompilationCorrect
CHECK_DEADLOCK FALSE
