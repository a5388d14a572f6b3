CONSTANTS
    LocationCount = 4
    Inputs <- MCInputs
SPECIFICATION Spec
INVARIANTS
    PathsLogarithmic
PROPERTIES
    ImplementsCopyClasses
CHECK_DEADLOCK FALSE
