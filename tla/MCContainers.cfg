CONSTANTS
    Value = {1, 2}
    SizeMax = 11
SPECIFICATION ContainersSpec
INVARIANTS
    RotationInTime
    HeapStructuresValid
    SetStructuresValid
    QueriesExact
PROPERTIES
    ImplementsFifo
    ImplementsPriorityQueue
    ImplementsKeySet
