CONSTANTS
    WeightMax = 511
    Tasks <- AllTasks
SPECIFICATION Spec
INVARIANTS
    GraphAnswersExact
    StructureAnswersExact
    CombinatorialAnswersExact
CHECK_DEADLOCK FALSE
