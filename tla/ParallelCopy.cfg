CONSTANTS
    Value <- MCValue
    Data <- MCData
    Inputs <- MCInputs
SPECIFICATION MCSpec
INVARIANTS
    CopiesRealised
    SourcesPreserved
    TemporariesMinimal
PROPERTIES
    ImplementsSimultaneousCopy
CHECK_DEADLOCK FALSE
