CONSTANTS
    WeightMax = 511
    Tasks = {"coffman_graham"}
SPECIFICATION Spec
INVARIANTS
    ScheduleOptimal
CHECK_DEADLOCK FALSE
