CONSTANTS
    Inputs <- MCInputs
SPECIFICATION Spec
INVARIANTS
    EvaluationsExact
    SemidominatorsExact
    ImmediateDominatorsExact
    IntervalsExact
