CONSTANTS
    WeightMax = 511
    Tasks = {"weighted_matroid_intersection"}
SPECIFICATION Spec
INVARIANTS
    SumsRepresentable
CHECK_DEADLOCK FALSE
