CONSTANTS
    Kinds = {"link_cut", "link_cut_values", "euler_tour", "fully_dynamic", "spanning_forest", "bridges", "order", "connectivity", "bipartiteness"}
    Sizes <- Size
    Pairs <- Pair
    Weights <- Weight
    Number <- Word
    Seeds <- Seed
    Draws = {1, 2}
    Limits <- Limit
SPECIFICATION Spec
VIEW Lasting
INVARIANTS
    StructuresValid
    QueriesExact
PROPERTIES
    ImplementsDynamicGraph
CHECK_DEADLOCK FALSE
