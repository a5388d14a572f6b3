---------------------------- MODULE ControlFlow ----------------------------
(***************************************************************************)
(* The directed control-flow graphs the compiler passes work on.  A graph  *)
(* is its adjacency: succ[b] is the sequence of the targets of block b, in *)
(* insertion order, with parallel arcs and self-loops (class Graph).       *)
(* Blocks are the numbers 0 .. n - 1.                                      *)
(***************************************************************************)
EXTENDS Integers, Sequences, FiniteSets

(* A finite set as a sequence, in the order of a strict total order on it. *)
InOrder(S, Less(_, _)) ==
    [ k \in 1 .. Cardinality(S) |->
        CHOOSE e \in S : Cardinality({ f \in S : Less(f, e) }) = k - 1 ]

Blocks(succ) == DOMAIN succ

Targets(succ, b) == { succ[b][i] : i \in DOMAIN succ[b] }

(* Breadth-first reachability from start: after as many rounds as there    *)
(* are blocks nothing new is found.                                        *)
ReachableFrom(succ, start) ==
    LET Found[k \in 0 .. Cardinality(Blocks(succ))] ==
            IF k = 0 THEN {start}
            ELSE LET before == Found[k - 1]
                 IN  before \cup UNION { Targets(succ, b) : b \in before }
    IN  Found[Cardinality(Blocks(succ))]

(* unique_reachable_successors and unique_reachable_predecessors. *)
UniqueSuccessors(succ, reachable, b) ==
    IF b \in reachable THEN Targets(succ, b) \cap reachable ELSE {}

UniquePredecessors(succ, reachable, b) ==
    { p \in reachable : b \in UniqueSuccessors(succ, reachable, p) }

(* Block d dominates block b: both are reachable and every path from start *)
(* to b goes through d.  DominatedBy(d) is the set of the blocks d         *)
(* dominates.                                                              *)
DominatedBy(succ, start, d) ==
    LET reachable == ReachableFrom(succ, start)
        Without   == [ v \in Blocks(succ) |->
                         [ i \in { j \in DOMAIN succ[v] : succ[v][j] # d } |-> succ[v][i] ] ]
    IN  IF d \notin reachable THEN {}
        ELSE IF d = start THEN reachable
        ELSE reachable \ ReachableFrom(Without, start)

(* tree_children: the blocks whose immediate dominator is d, that is, the  *)
(* blocks strictly dominated by d and by none of the others d dominates.   *)
TreeChildren(succ, start, d) ==
    LET below == DominatedBy(succ, start, d) \ {d}
    IN  below \ UNION { DominatedBy(succ, start, e) \ {e} : e \in below }

(* Block b is in the frontier of d when d dominates a predecessor of b and *)
(* does not strictly dominate b itself.                                    *)
Frontier(succ, start, d) ==
    LET reachable == ReachableFrom(succ, start)
        dominated == DominatedBy(succ, start, d)
    IN  { b \in reachable \ (dominated \ {d}) :
            UniquePredecessors(succ, reachable, b) \cap dominated # {} }

(* Faulty: the blocks found are not definitions themselves. *)
FrontierOnce(succ, start, definitions) ==
    UNION { Frontier(succ, start, d) : d \in definitions }

(* The worklist of iterated_frontier: frontiers of the definitions and of  *)
(* every block already found.                                              *)
IteratedFrontier(succ, start, definitions) ==
    LET Found[k \in 0 .. Cardinality(Blocks(succ))] ==
            IF k = 0 THEN {}
            ELSE LET before == Found[k - 1]
                 IN  before \cup
                     UNION { Frontier(succ, start, d) : d \in definitions \cup before }
    IN  Found[Cardinality(Blocks(succ))]
=============================================================================
