--------------------------- MODULE CopyCoalescing ---------------------------
(***************************************************************************)
(* coalesce_phi_free_registers with its data structures: the classes are   *)
(* the trees of a union-find forest, merged by size, whose paths every     *)
(* find_root compresses; they are numbered from 0 by their lowest location *)
(* when the moves are done, and colored under these numbers.               *)
(***************************************************************************)
EXTENDS GreedyColoring, Sequences

CONSTANTS LocationCount,   \* locations are 0 .. LocationCount - 1
          Inputs           \* records [interference, moves, budget]

ASSUME LocationCountAssumption == LocationCount \in Nat

Location == 0 .. LocationCount - 1

ASSUME InputsAssumption ==
    Inputs \subseteq [ interference : SUBSET (Location \X Location),
                       moves        : Seq([source : Location, destination : Location]),
                       budget       : Nat ]

ASSUME InterferenceAssumption ==
    \A i \in Inputs : \A l, m \in Location :
        <<l, m>> \in i.interference => l # m /\ <<m, l>> \in i.interference

VARIABLES input, phase,
          parent, class_size,  \* the forest
          preferences,         \* CopyCoalescingDecisionKind of the moves so far
          location_class,      \* location |-> class id, when they are numbered
          assigned             \* class id |-> register or Spilled

vars == <<input, phase, parent, class_size, preferences, location_class, assigned>>

(* The nodes on the paths from some nodes to their roots. *)
OnPaths(nodes) ==
    LET Found[k \in 0 .. LocationCount] ==
            IF k = 0 THEN nodes
            ELSE LET before == Found[k - 1] IN before \cup { parent[l] : l \in before }
    IN  Found[LocationCount]

(* Faulty: one step of the path only. *)
ParentOf(node) == parent[node]

Root(node) == CHOOSE r \in OnPaths({node}) : parent[r] = r

(* The forest after find_root has been called on some nodes, in any order: *)
(* every node on their paths points to its root.                           *)
Compressed(nodes) ==
    [ l \in Location |-> IF l \in OnPaths(nodes) THEN Root(l) ELSE parent[l] ]

(* The interference edges, in the order the code looks at them. *)
EdgeBefore(e, f) == e[1] < f[1] \/ (e[1] = f[1] /\ e[2] < f[2])

Edges == { e \in input.interference : e[1] < e[2] }

(* Faulty: the interference of the two roots only, not of their classes. *)
EdgesOfRoots(a, b) == { e \in Edges : {e[1], e[2]} = {a, b} }

CrossingEdges(a, b) == { e \in Edges : {Root(e[1]), Root(e[2])} = {a, b} }

(* The locations classes_interfere calls find_root on: those of the edges  *)
(* up to the first one that crosses.                                       *)
LookedUp(crossing) ==
    LET looked == { e \in Edges : \A f \in crossing : ~EdgeBefore(f, e) }
    IN  { e[1] : e \in looked } \cup { e[2] : e \in looked }

(* Faulty: the lower root wins, whatever the sizes. *)
LowerRoot(a, b) == IF a < b THEN a ELSE b

(* merge_roots: the root of the larger class, or else the lower, wins. *)
Winner(a, b) ==
    IF class_size[a] > class_size[b] \/ (class_size[a] = class_size[b] /\ a < b)
    THEN a ELSE b

SizesAfter(winner, loser) == [class_size EXCEPT ![winner] = @ + class_size[loser]]
-----------------------------------------------------------------------------
Init ==
    /\ input \in Inputs
    /\ phase = "coalescing"
    /\ parent = [ l \in Location |-> l ]
    /\ class_size = [ l \in Location |-> 1 ]
    /\ preferences = << >>
    /\ location_class = << >>
    /\ assigned = << >>

ConsiderMove ==
    /\ phase = "coalescing"
    /\ Len(preferences) < Len(input.moves)
    /\ LET move     == input.moves[Len(preferences) + 1]
           found    == {move.source, move.destination}
           a        == Root(move.source)
           b        == Root(move.destination)
           crossing == CrossingEdges(a, b)
           winner   == Winner(a, b)
           loser    == IF winner = a THEN b ELSE a
       IN  \/ /\ a = b
              /\ preferences' = Append(preferences, "already_coalesced")
              /\ parent' = Compressed(found)
              /\ UNCHANGED class_size
           \/ /\ a # b /\ crossing # {}
              /\ preferences' = Append(preferences, "blocked_by_interference")
              /\ parent' = Compressed(found \cup LookedUp(crossing))
              /\ UNCHANGED class_size
           \/ /\ a # b /\ crossing = {}
              /\ preferences' = Append(preferences, "merged")
              /\ parent' = [Compressed(found \cup LookedUp(crossing)) EXCEPT ![loser] = winner]
              /\ class_size' = SizesAfter(winner, loser)
    /\ UNCHANGED <<input, phase, location_class, assigned>>

(* Every path is compressed; a class gets the next id when its lowest      *)
(* location is met.                                                        *)
NumberClasses ==
    /\ phase = "coalescing"
    /\ Len(preferences) = Len(input.moves)
    /\ parent' = [ l \in Location |-> Root(l) ]
    /\ LET Lowest == { l \in Location : \A m \in Location : parent'[m] = parent'[l] => l <= m }
       IN  location_class' =
               [ l \in Location |->
                   Cardinality({ m \in Lowest : \A k \in Lowest :
                                   parent'[k] = parent'[l] => m < k }) ]
    /\ phase' = "coloring"
    /\ UNCHANGED <<input, class_size, preferences, assigned>>

ClassIds == { location_class[l] : l \in DOMAIN location_class }

QuotientInterference ==
    { <<location_class[e[1]], location_class[e[2]]>> : e \in input.interference }

ColorClass ==
    /\ phase = "coloring"
    /\ \E c \in ClassIds \ DOMAIN assigned :
           /\ IsNextToColor(QuotientInterference, ClassIds \ DOMAIN assigned, c)
           /\ \E register \in {Spilled} \cup 0 .. input.budget - 1 :
                  /\ IsCandidate(input.budget,
                                 Unavailable(QuotientInterference, assigned, c), register)
                  /\ assigned' = WithColor(assigned, c, register)
    /\ UNCHANGED <<input, phase, parent, class_size, preferences, location_class>>

Return ==
    /\ phase = "coloring"
    /\ ClassIds \subseteq DOMAIN assigned
    /\ phase' = "returned"
    /\ UNCHANGED <<input, parent, class_size, preferences, location_class, assigned>>

Next == ConsiderMove \/ NumberClasses \/ ColorClass \/ Return

Spec == Init /\ [][Next]_vars
-----------------------------------------------------------------------------
(* The members of the class of a location, and the lowest of them. *)
ClassOf(l) == { m \in Location : Root(m) = Root(l) }

LowestOf(l) == CHOOSE m \in ClassOf(l) : \A k \in ClassOf(l) : m <= k

Partition == INSTANCE CopyClasses WITH
    class     <- [ l \in Location |-> LowestOf(l) ],
    decisions <- preferences,
    assigned  <- [ l \in { LowestOf(m) : m \in { k \in DOMAIN location_class :
                                             location_class[k] \in DOMAIN assigned } } |->
                     assigned[location_class[l]] ]

(* The forest, its compressions and the renumbering are invisible: every   *)
(* move is decided, every class colored as by the partition of CopyClasses.*)
ImplementsCopyClasses == Partition!Spec

(* One, doubled k times. *)
Doubled[k \in 0 .. LocationCount] == IF k = 0 THEN 1 ELSE 2 * Doubled[k - 1]

(* The forest is one of trees, with the sizes of the classes kept at their *)
(* roots, and union by size keeps it flat: a path has at most as many      *)
(* steps as the number of times a class can double.                        *)
PathsLogarithmic ==
    \A l \in Location :
        /\ parent[Root(l)] = Root(l)
        /\ class_size[Root(l)] = Cardinality(ClassOf(l))
        /\ Doubled[Cardinality(OnPaths({l})) - 1] <= Cardinality(ClassOf(l))
=============================================================================
