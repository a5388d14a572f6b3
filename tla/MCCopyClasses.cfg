CONSTANTS
    Location <- MCLocation
    Inputs <- MCInputs
SPECIFICATION Spec
INVARIANTS
    ClassesIndependent
    ProperAllocation
    SpillsForced
    DecisionsStand
CHECK_DEADLOCK FALSE
