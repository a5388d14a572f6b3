--------------------------- MODULE DynamicGraphs ---------------------------
(***************************************************************************)
(* The structures that follow a graph as its edges come and go:            *)
(* LinkCutForest, EulerTourForest, FullyDynamicConnectivity,               *)
(* DynamicMinimumSpanningForest, OnlineBridgeConnectivity and              *)
(* IncrementalTopologicalOrder; and the two analyses that are given all    *)
(* the changes at once, with the disjoint sets they roll back.  Vertices   *)
(* are 1 .. n, and 0 is no vertex.                                         *)
(*                                                                         *)
(* The structures come first, as operators; then the program that has one  *)
(* of them in its hands, changes it and asks about it in any order.        *)
(***************************************************************************)
EXTENDS Integers, SequencesExt, Bags

(* Body(value), with the value computed once. *)
Once(value, Body(_)) == CHOOSE result \in { Body(v) : v \in {value} } : TRUE
-----------------------------------------------------------------------------
(***************************************************************************)
(* A link-cut forest: the preferred paths of a forest are kept in splay    *)
(* trees, ordered by depth, and joined by the path-parents of their roots. *)
(* A forest maps every vertex to its node, and 0 stands for no vertex.     *)
(* A reversal, an assignment and an addition wait at a node until it is    *)
(* pushed; size, represented, sum, subtrees, min and max are of the splay  *)
(* subtree; virtual and hanging are the vertices and the values below the  *)
(* path-children.  Sums are exact: their two words are in no danger.       *)
(***************************************************************************)
SingleNode ==
    [ parent |-> 0, left |-> 0, right |-> 0, reversed |-> FALSE,
      value |-> 0, assignment |-> <<FALSE, 0>>, addition |-> 0,
      size |-> 1, virtual |-> 0, represented |-> 1,
      sum |-> 0, hanging |-> 0, subtrees |-> 0, min |-> 0, max |-> 0 ]

Isolated(vertices) == [ v \in vertices |-> SingleNode ]

IsAuxiliaryRoot(f, v) ==
    f[v].parent = 0 \/ v \notin { f[f[v].parent].left, f[f[v].parent].right }

ChildSize(f, child) == IF child = 0 THEN 0 ELSE f[child].size
ChildRepresented(f, child) == IF child = 0 THEN 0 ELSE f[child].represented
ChildSubtrees(f, child) == IF child = 0 THEN 0 ELSE f[child].subtrees
RepresentedSum(f, v) == IF v = 0 THEN 0 ELSE f[v].sum + f[v].subtrees

Pull(forest, v) ==
    Once(forest, LAMBDA f :
        LET node     == f[v]
            children == { node.left, node.right } \ {0}
            sized    == [ node EXCEPT
                            !.size = 1 + ChildSize(f, node.left) + ChildSize(f, node.right),
                            !.represented = 1 + node.virtual + ChildRepresented(f, node.left)
                                              + ChildRepresented(f, node.right),
                            !.subtrees = node.hanging + ChildSubtrees(f, node.left)
                                           + ChildSubtrees(f, node.right) ]
            assigned == node.assignment[2]
            shift    == node.addition
        IN  [ f EXCEPT ![v] =
                IF node.assignment[1]
                THEN [ sized EXCEPT !.sum = assigned * sized.size, !.min = assigned, !.max = assigned ]
                ELSE [ sized EXCEPT
                         !.sum = node.value + MapThenSumSet(LAMBDA c : f[c].sum + shift * f[c].size, children),
                         !.min = Min({node.value} \cup { f[c].min + shift : c \in children }),
                         !.max = Max({node.value} \cup { f[c].max + shift : c \in children }) ] ])

ApplyAssignment(forest, v, value) ==
    Once(forest, LAMBDA f :
        IF v = 0 THEN f
        ELSE [ f EXCEPT ![v] = [ @ EXCEPT !.value = value, !.sum = value * f[v].size, !.min = value,
                                          !.max = value, !.assignment = <<TRUE, value>>,
                                          !.addition = 0 ] ])

ApplyAddition(forest, v, delta) ==
    Once(forest, LAMBDA f :
        IF v = 0 \/ delta = 0 THEN f
        ELSE IF f[v].assignment[1] THEN ApplyAssignment(f, v, f[v].assignment[2] + delta)
        ELSE [ f EXCEPT ![v] = [ @ EXCEPT !.value = @ + delta, !.min = @ + delta, !.max = @ + delta,
                                          !.sum = @ + delta * f[v].size, !.addition = @ + delta ] ])

ApplyReverse(forest, v) ==
    Once(forest, LAMBDA f :
        IF v = 0 THEN f
        ELSE [ f EXCEPT ![v] = [ @ EXCEPT !.left = f[v].right, !.right = f[v].left,
                                          !.reversed = ~@ ] ])

Push(forest, v) ==
    Once(forest, LAMBDA f :
        LET node     == f[v]
            assigned == IF ~node.assignment[1] THEN f
                        ELSE [ ApplyAssignment(ApplyAssignment(f, node.left, node.assignment[2]),
                                               node.right, node.assignment[2])
                               EXCEPT ![v].assignment = <<FALSE, 0>> ]
            added    == [ ApplyAddition(ApplyAddition(assigned, node.left, node.addition),
                                        node.right, node.addition)
                          EXCEPT ![v].addition = 0 ]
        IN  IF ~node.reversed THEN added
            ELSE [ ApplyReverse(ApplyReverse(added, node.left), node.right)
                   EXCEPT ![v].reversed = FALSE ])

(* The nodes above one in its splay tree are pushed before it. *)
RECURSIVE PushPath(_, _)
PushPath(forest, v) ==
    Once(forest, LAMBDA f : Push(IF IsAuxiliaryRoot(f, v) THEN f ELSE PushPath(f, f[v].parent), v))

Rotate(forest, v) ==
    Once(forest, LAMBDA f :
        LET parent  == f[v].parent
            grand   == f[parent].parent
            isRight == f[parent].right = v
            middle  == IF isRight THEN f[v].left ELSE f[v].right
            linked  == IF IsAuxiliaryRoot(f, parent) THEN f
                       ELSE IF f[grand].left = parent THEN [ f EXCEPT ![grand].left = v ]
                       ELSE [ f EXCEPT ![grand].right = v ]
            turned  == IF isRight
                       THEN [ linked EXCEPT ![v].left = parent, ![v].parent = grand,
                                            ![parent].right = middle, ![parent].parent = v ]
                       ELSE [ linked EXCEPT ![v].right = parent, ![v].parent = grand,
                                            ![parent].left = middle, ![parent].parent = v ]
        IN  Pull(Pull(IF middle = 0 THEN turned ELSE [ turned EXCEPT ![middle].parent = parent ],
                      parent), v))

RECURSIVE RotateUp(_, _)
RotateUp(forest, v) ==
    Once(forest, LAMBDA f :
        LET parent == f[v].parent
            grand  == f[parent].parent
        IN  IF IsAuxiliaryRoot(f, v) THEN f
            ELSE IF IsAuxiliaryRoot(f, parent) THEN Rotate(f, v)
            ELSE RotateUp(Rotate(Rotate(f, IF (f[parent].left = v) = (f[grand].left = parent)
                                           THEN parent ELSE v), v), v))

SplayUp(forest, v) == RotateUp(PushPath(forest, v), v)

(* At each splay tree on the way up, what was deeper becomes a path-child, *)
(* and the path that was climbed stops being one.                          *)
RECURSIVE Expose(_, _, _)
Expose(forest, current, previous) ==
    IF current = 0 THEN forest
    ELSE Once(SplayUp(forest, current), LAMBDA f :
             LET old     == f[current].right
                 joined  == [ f EXCEPT ![current] =
                                [ @ EXCEPT !.right = previous,
                                           !.virtual = @ + ChildRepresented(f, old)
                                                         - ChildRepresented(f, previous),
                                           !.hanging = @ + RepresentedSum(f, old)
                                                         - RepresentedSum(f, previous) ] ]
             IN  Expose(Pull(IF previous = 0 THEN joined ELSE [ joined EXCEPT ![previous].parent = current ],
                             current),
                        f[current].parent, current))

AccessPath(f, v) == SplayUp(Expose(f, v, 0), v)

MakeRoot(f, v) == ApplyReverse(AccessPath(f, v), v)

(* The forest with the leftmost node from one pushed to and splayed. *)
RECURSIVE Leftmost(_, _)
Leftmost(forest, v) ==
    Once(Push(forest, v), LAMBDA f :
        IF f[v].left = 0 THEN [forest |-> SplayUp(f, v), root |-> v] ELSE Leftmost(f, f[v].left))

FindRoot(f, v) == Leftmost(AccessPath(f, v), v)

(* What most operations on two vertices begin with: the first is made the  *)
(* root, and the second's root tells whether they are connected.           *)
Rooted(f, first, second) == FindRoot(MakeRoot(f, first), second)
-----------------------------------------------------------------------------
(* Every operation returns the forest and its answer. *)
LinkEdge(forest, first, second) ==
    Once(Rooted(forest, first, second), LAMBDA found :
        IF found.root = first THEN [forest |-> found.forest, answer |-> "refused"]
        ELSE Once(AccessPath(found.forest, second), LAMBDA f :
                 [ forest |-> Pull([ f EXCEPT
                                       ![first].parent = second,
                                       ![second].virtual = @ + f[first].represented,
                                       ![second].hanging = @ + RepresentedSum(f, first) ], second),
                   answer |-> "done" ]))

CutEdge(forest, first, second) ==
    Once(Push(AccessPath(MakeRoot(forest, first), second), second), LAMBDA f :
        IF f[second].left # first THEN [forest |-> f, answer |-> "refused"]
        ELSE Once(Push(f, first), LAMBDA g :
                 IF g[first].right # 0 THEN [forest |-> g, answer |-> "refused"]
                 ELSE [ forest |-> Pull([ g EXCEPT ![second].left = 0, ![first].parent = 0 ], second),
                        answer |-> "done" ]))

TreeConnected(forest, first, second) ==
    IF first = second THEN [forest |-> forest, connected |-> TRUE]
    ELSE Once(FindRoot(forest, first), LAMBDA one :
         Once(FindRoot(one.forest, second), LAMBDA other :
             [forest |-> other.forest, connected |-> one.root = other.root]))

(* An operation on a path refuses two vertices that are not connected. *)
OnPath(forest, first, second, Result(_)) ==
    Once(Rooted(forest, first, second), LAMBDA found :
        IF found.root # first THEN [forest |-> found.forest, answer |-> "refused"]
        ELSE Once(AccessPath(found.forest, second), Result))

(* The queries about the path to v, or about the subtree of v under its    *)
(* first vertex, read what the exposed path has gathered.                  *)
PathEdgeDistance(f, v) == f[v].size - 1
PathTotal(f, v) == f[v].sum
RootedSubtreeCount(f, v) == f[v].represented - ChildRepresented(f, f[v].left)
RootedSubtreeTotal(f, v) == RepresentedSum(f, v) - RepresentedSum(f, f[v].left)

ExposePath(forest, first, second) ==
    OnPath(forest, first, second, LAMBDA f : [forest |-> f, answer |-> "done"])

RECURSIVE Descend(_, _, _)
Descend(forest, v, rank) ==
    Once(Push(forest, v), LAMBDA f :
        LET leftSize == ChildSize(f, f[v].left)
        IN  IF rank < leftSize THEN Descend(f, f[v].left, rank)
            ELSE IF rank = leftSize THEN [forest |-> SplayUp(f, v), vertex |-> v]
            ELSE Descend(f, f[v].right, rank - leftSize - 1))

AssignValue(forest, v, value) ==
    Once(AccessPath(forest, v), LAMBDA f :
        [ forest |-> Pull([ f EXCEPT ![v] = [ @ EXCEPT !.value = value, !.addition = 0,
                                                       !.assignment = <<FALSE, 0>> ] ], v),
          answer |-> "done" ])

AssignPath(forest, first, second, value) ==
    OnPath(forest, first, second, LAMBDA f :
        [forest |-> ApplyAssignment(f, second, value), answer |-> "done"])

(* Nothing changes if one value of the path would leave the range. *)
AddToPath(range, forest, first, second, delta) ==
    OnPath(forest, first, second, LAMBDA f :
        IF {f[second].min + delta, f[second].max + delta} \subseteq range
        THEN [forest |-> ApplyAddition(f, second, delta), answer |-> "done"]
        ELSE [forest |-> f, answer |-> "overflow"])
-----------------------------------------------------------------------------
(* What a forest represents: its edges and its values, with the tags that  *)
(* wait above a node taken into account.                                   *)
RECURSIVE PathOf(_, _, _)
PathOf(f, v, flipped) ==
    IF v = 0 THEN << >>
    ELSE LET node    == f[v]
             below   == flipped # node.reversed
             \* the children of a reversed node are swapped, theirs are not yet
             first   == IF flipped THEN node.right ELSE node.left
             last    == IF flipped THEN node.left ELSE node.right
         IN  PathOf(f, first, below) \o <<v>> \o PathOf(f, last, below)

AuxiliaryRoots(f) == { v \in DOMAIN f : IsAuxiliaryRoot(f, v) }

EdgesOf(f) ==
    UNION { LET path == PathOf(f, root, FALSE)
            IN  { {path[i], path[i + 1]} : i \in 1 .. Len(path) - 1 }
                \cup (IF f[root].parent = 0 THEN {} ELSE { {path[1], f[root].parent} }) :
            root \in AuxiliaryRoots(f) }

RECURSIVE ValueUnder(_, _, _, _)
(* The value x, held by v or below it, after the tags above v, up to top. *)
ValueUnder(f, top, v, x) ==
    IF v = top \/ IsAuxiliaryRoot(f, v) THEN x
    ELSE LET above == f[f[v].parent]
         IN  ValueUnder(f, top, f[v].parent,
                        IF above.assignment[1] THEN above.assignment[2] ELSE x + above.addition)

ValuesOf(f) == [ v \in DOMAIN f |-> ValueUnder(f, 0, v, f[v].value) ]

RECURSIVE SplaySubtree(_, _)
SplaySubtree(f, v) ==
    IF v = 0 THEN {} ELSE {v} \cup SplaySubtree(f, f[v].left) \cup SplaySubtree(f, f[v].right)

PathChildren(f, v) == { c \in AuxiliaryRoots(f) : f[c].parent = v }

(* The conditions of valid_auxiliary_invariants, and that every number the *)
(* code narrows to a word fits one.                                        *)
ValidForest(range, f) ==
    \A v \in DOMAIN f :
        LET node    == f[v]
            subtree == SplaySubtree(f, v)
            values  == { <<w, ValueUnder(f, v, w, f[w].value)>> : w \in subtree }
            hung    == UNION { PathChildren(f, w) : w \in subtree }
        IN  /\ node.left # 0 => f[node.left].parent = v
            /\ node.right # 0 => f[node.right].parent = v
            /\ node.assignment[1] => node.addition = 0 /\ node.value = node.assignment[2]
            /\ node.size = Cardinality(subtree)
            /\ node.virtual = MapThenSumSet(LAMBDA c : f[c].represented, PathChildren(f, v))
            /\ node.represented = node.size + MapThenSumSet(LAMBDA c : f[c].represented, hung)
            /\ node.sum = MapThenSumSet(LAMBDA p : p[2], values)
            /\ node.min = Min({ p[2] : p \in values })
            /\ node.max = Max({ p[2] : p \in values })
            /\ node.hanging = MapThenSumSet(LAMBDA c : RepresentedSum(f, c), PathChildren(f, v))
            /\ node.subtrees = MapThenSumSet(LAMBDA c : RepresentedSum(f, c), hung)
            /\ {node.value, node.min, node.max} \subseteq range
            /\ node.assignment[2] \in range
-----------------------------------------------------------------------------

Null == << >>

RECURSIVE ReachedFrom(_, _)
(* The vertices that arcs lead to from a set of vertices, and those. *)
ReachedFrom(arcs, from) ==
    LET next == from \cup { arc[2] : arc \in { a \in arcs : a[1] \in from } }
    IN  IF next = from THEN from ELSE ReachedFrom(arcs, next)

BothWays(pairs) == pairs \cup { <<p[2], p[1]>> : p \in pairs }

Joined(pairs, u, v) == v \in ReachedFrom(BothWays(pairs), {u})

CanonicalKey(u, v) == IF u <= v THEN <<u, v>> ELSE <<v, u>>
-----------------------------------------------------------------------------
(* Euler tour forests.  A tour is a treap over its tokens, which are a     *)
(* pair <<v, v>> for a vertex and <<u, v>> for an edge walked from u to v. *)
(* Tokens of equal priority are told apart by their serial numbers: only   *)
(* the order of those matters, so a forest keeps its tokens oldest first.  *)
Token(token, priority) == [token |-> token, priority |-> priority, left |-> Null, right |-> Null]

SingleTours(priorities) ==
    LET n == Len(priorities)
    IN  [ tours |-> { Token(<<v, v>>, priorities[v]) : v \in 1 .. n },
          age   |-> [ v \in 1 .. n |-> <<v, v>> ] ]

RECURSIVE TokensOf(_)
TokensOf(tour) ==
    IF tour = Null THEN << >> ELSE TokensOf(tour.left) \o <<tour.token>> \o TokensOf(tour.right)

TokenCount(tour) == Len(TokensOf(tour))

HigherPriority(age, a, b) ==
    \/ a.priority > b.priority
    \/ a.priority = b.priority /\ \E i, j \in DOMAIN age : i > j /\ age[i] = a.token /\ age[j] = b.token

RECURSIVE MergeTours(_, _, _)
MergeTours(age, first, second) ==
    IF first = Null THEN second
    ELSE IF second = Null THEN first
    ELSE IF HigherPriority(age, first, second)
         THEN [ first EXCEPT !.right = MergeTours(age, first.right, second) ]
         ELSE [ second EXCEPT !.left = MergeTours(age, first, second.left) ]

RECURSIVE SplitTour(_, _)
SplitTour(tour, prefix) ==
    IF tour = Null THEN <<Null, Null>>
    ELSE LET leftSize == TokenCount(tour.left)
         IN  IF prefix <= leftSize
             THEN Once(SplitTour(tour.left, prefix), LAMBDA parts :
                      << parts[1], [ tour EXCEPT !.left = parts[2] ] >>)
             ELSE Once(SplitTour(tour.right, prefix - leftSize - 1), LAMBDA parts :
                      << [ tour EXCEPT !.right = parts[1] ], parts[2] >>)

TourWith(forest, token) == CHOOSE tour \in forest.tours : token \in ToSet(TokensOf(tour))

RankOf(tour, token) == SelectInSeq(TokensOf(tour), LAMBDA t : t = token) - 1

(* The tour turned so that it starts with a token of its own. *)
RotateToFront(age, tour, token) ==
    Once(SplitTour(tour, RankOf(tour, token)), LAMBDA parts : MergeTours(age, parts[2], parts[1]))

(* Whether two vertices have the same tour. *)
TourConnected(forest, u, v) == <<v, v>> \in ToSet(TokensOf(TourWith(forest, <<u, u>>)))

TourEdges(forest) == { pair \in ToSet(forest.age) : pair[1] < pair[2] }

(* The edge's two tokens are made in the order of its canonical key. *)
TourLink(forest, u, v, forward, backward) ==
    LET key  == CanonicalKey(u, v)
        age  == forest.age \o << key, <<key[2], key[1]>> >>
        arc(a, b) == Token(<<a, b>>, IF <<a, b>> = key THEN forward ELSE backward)
        ours   == TourWith(forest, <<u, u>>)
        theirs == TourWith(forest, <<v, v>>)
        joined == MergeTours(age,
                      MergeTours(age,
                          MergeTours(age, RotateToFront(age, ours, <<u, u>>), arc(u, v)),
                          RotateToFront(age, theirs, <<v, v>>)),
                      arc(v, u))
    IN  [ tours |-> (forest.tours \ {ours, theirs}) \cup {joined}, age |-> age ]

TourCut(forest, u, v) ==
    LET tour == TourWith(forest, <<u, v>>)
    IN  Once(SplitTour(RotateToFront(forest.age, tour, <<u, v>>), 1)[2], LAMBDA rest :
        Once(SplitTour(rest, RankOf(rest, <<v, u>>)), LAMBDA parts :
            [ tours |-> (forest.tours \ {tour}) \cup {parts[1], SplitTour(parts[2], 1)[2]},
              age   |-> SelectSeq(forest.age, LAMBDA t : t \notin {<<u, v>>, <<v, u>>}) ]))

RECURSIVE HeapOrdered(_, _)
HeapOrdered(age, tour) ==
    tour = Null \/ \A child \in {tour.left, tour.right} :
        child = Null \/ (~HigherPriority(age, child, tour) /\ HeapOrdered(age, child))

(* valid_structure, and that every tour is one: a walk that steps where    *)
(* each token leaves it, and comes back to where it began.                 *)
ValidTours(n, forest) ==
    /\ \A tour \in forest.tours :
           LET tokens == TokensOf(tour)
           IN  /\ HeapOrdered(forest.age, tour)
               /\ tokens # << >>
               /\ \A i \in DOMAIN tokens : tokens[i][2] = tokens[(i % Len(tokens)) + 1][1]
    /\ \A token \in ToSet(forest.age) :
           Cardinality({ tour \in forest.tours : token \in ToSet(TokensOf(tour)) }) = 1
    /\ MapThenSumSet(TokenCount, forest.tours) = Len(forest.age)
    /\ Len(forest.age) = n + 2 * Cardinality(TourEdges(forest))
    /\ Cardinality(forest.tours) + Cardinality(TourEdges(forest)) = n
-----------------------------------------------------------------------------
(* Fully dynamic connectivity: a spanning forest, and a record of each     *)
(* edge's copies.                                                          *)
NoRecord == [multiplicity |-> 0, non_tree_copies |-> 0, has_tree_copy |-> FALSE]

Unconnected(priorities) == [forest |-> SingleTours(priorities), records |-> Null]

WithRecord(records, key, record) ==
    [ k \in DOMAIN records \cup {key} |-> IF k = key THEN record ELSE records[k] ]

WithoutRecord(records, key) == [ k \in DOMAIN records \ {key} |-> records[k] ]

AddCopy(graph, u, v, forward, backward) ==
    LET key    == CanonicalKey(u, v)
        record == IF key \in DOMAIN graph.records THEN graph.records[key] ELSE NoRecord
        more   == [ record EXCEPT !.multiplicity = @ + 1 ]
        spare  == u = v \/ TourConnected(graph.forest, u, v)
    IN  [ forest  |-> IF spare THEN graph.forest ELSE TourLink(graph.forest, u, v, forward, backward),
          records |-> WithRecord(graph.records, key,
                          IF spare THEN [ more EXCEPT !.non_tree_copies = @ + 1 ]
                          ELSE [ more EXCEPT !.has_tree_copy = TRUE ]) ]

(* A removal that forgets to look for an edge to take the place of one. *)
NotPromoted(graph, forward, backward) == graph

(* The first edge in the order of keys that joins what a cut has parted. *)
Promoted(graph, forward, backward) ==
    LET candidates == { key \in DOMAIN graph.records :
                          /\ key[1] # key[2]
                          /\ graph.records[key].non_tree_copies # 0
                          /\ ~TourConnected(graph.forest, key[1], key[2]) }
        first == CHOOSE key \in candidates :
                    \A k \in candidates : key[1] < k[1] \/ (key[1] = k[1] /\ key[2] <= k[2])
    IN  IF candidates = {} THEN graph
        ELSE [ forest  |-> TourLink(graph.forest, first[1], first[2], forward, backward),
               records |-> [ graph.records EXCEPT
                               ![first] = [ @ EXCEPT !.has_tree_copy = TRUE, !.non_tree_copies = @ - 1 ] ] ]

RemoveCopy(graph, u, v, forward, backward) ==
    LET key    == CanonicalKey(u, v)
        record == graph.records[key]
        fewer  == [ record EXCEPT !.multiplicity = @ - 1, !.non_tree_copies = @ - 1 ]
    IN  IF record.non_tree_copies # 0
        THEN [ graph EXCEPT !.records = IF fewer.multiplicity = 0 THEN WithoutRecord(@, key)
                                        ELSE WithRecord(@, key, fewer) ]
        ELSE Once([ forest  |-> TourCut(graph.forest, u, v),
                    records |-> WithoutRecord(graph.records, key) ],
                  LAMBDA parted : Promoted(parted, forward, backward))

ValidConnectivity(n, graph) ==
    /\ ValidTours(n, graph.forest)
    /\ TourEdges(graph.forest) = { key \in DOMAIN graph.records : graph.records[key].has_tree_copy }
    /\ \A key \in DOMAIN graph.records :
           LET record == graph.records[key]
           IN  /\ record.multiplicity > 0
               /\ record.multiplicity = record.non_tree_copies + IF record.has_tree_copy THEN 1 ELSE 0
               /\ record.has_tree_copy => key[1] # key[2]
               /\ TourConnected(graph.forest, key[1], key[2])
-----------------------------------------------------------------------------
(* Dynamic minimum spanning forests: all the edges there ever were.        *)
ForestPairs(edges) == { <<edges[h].first, edges[h].second>> : h \in { h \in DOMAIN edges : edges[h].in_forest } }

(* The edges of the forest between two vertices are those that part them. *)
ForestPath(edges, u, v) ==
    { h \in DOMAIN edges :
        edges[h].in_forest /\ ~Joined(ForestPairs([ edges EXCEPT ![h].in_forest = FALSE ]), u, v) }

EdgeKeyLess(edges, g, h) ==
    edges[g].weight < edges[h].weight \/ (edges[g].weight = edges[h].weight /\ g < h)

AddWeighted(edges, u, v, weight) ==
    LET handle   == Len(edges) + 1
        added    == Append(edges, [ first |-> u, second |-> v, weight |-> weight,
                                    active |-> TRUE, in_forest |-> FALSE ])
        path     == ForestPath(edges, u, v)
        heaviest == CHOOSE h \in path : \A g \in path : ~EdgeKeyLess(edges, h, g)
    IN  IF u = v THEN added
        ELSE IF ~Joined(ForestPairs(edges), u, v) THEN [ added EXCEPT ![handle].in_forest = TRUE ]
        ELSE IF weight < edges[heaviest].weight
        THEN [ added EXCEPT ![heaviest].in_forest = FALSE, ![handle].in_forest = TRUE ]
        ELSE added

RemoveWeighted(edges, handle) ==
    LET left       == [ edges EXCEPT ![handle] = [ @ EXCEPT !.active = FALSE, !.in_forest = FALSE ] ]
        side       == ReachedFrom(BothWays(ForestPairs(left)), {edges[handle].first})
        candidates == { h \in DOMAIN left :
                          /\ left[h].active /\ ~left[h].in_forest
                          /\ (left[h].first \in side) # (left[h].second \in side) }
        replacement == CHOOSE h \in candidates : \A g \in candidates : ~EdgeKeyLess(left, g, h)
    IN  IF edges[handle].in_forest /\ candidates # {}
        THEN [ left EXCEPT ![replacement].in_forest = TRUE ]
        ELSE left

ActiveHandles(edges) == { h \in DOMAIN edges : edges[h].active }
ForestHandles(edges) == { h \in DOMAIN edges : edges[h].in_forest }
WeightOf(edges, handles) == MapThenSumSet(LAMBDA h : edges[h].weight, handles)

(* valid_structure: the forest is acyclic, it spans, and no edge left out  *)
(* is lighter than one on the path between its ends.                       *)
ValidSpanningForest(edges) ==
    /\ \A h \in ForestHandles(edges) :
           edges[h].active /\ ForestPath(edges, edges[h].first, edges[h].second) = {h}
    /\ \A h \in ActiveHandles(edges) \ ForestHandles(edges) :
           /\ Joined(ForestPairs(edges), edges[h].first, edges[h].second)
           /\ edges[h].first # edges[h].second =>
                  \A g \in ForestPath(edges, edges[h].first, edges[h].second) :
                      edges[g].weight <= edges[h].weight
-----------------------------------------------------------------------------
(* Online bridges: disjoint sets of 2-edge-connected components, over them *)
(* those of connected components, and the forest of the bridges.           *)
NoBridges(vertices) ==
    [ two  |-> [ v \in vertices |-> v ], cc |-> [ v \in vertices |-> v ],
      size |-> [ v \in vertices |-> 1 ], parent |-> [ v \in vertices |-> 0 ],
      bridges |-> 0, components |-> Cardinality(vertices) ]

RECURSIVE ClimbTwo(_, _)
ClimbTwo(two, v) == IF two[v] = v THEN {v} ELSE {v} \cup ClimbTwo(two, two[v])

TwoRoot(s, v) == CHOOSE root \in ClimbTwo(s.two, v) : s.two[root] = root

(* find_2ecc: what has been climbed points to the root, v among it. *)
FindTwo(s, v) ==
    IF v = 0 THEN s
    ELSE LET climbed == ClimbTwo(s.two, v)
             root    == TwoRoot(s, v)
         IN  [ s EXCEPT !.two = [ x \in DOMAIN s.two |-> IF x \in climbed THEN root ELSE s.two[x] ] ]

RECURSIVE ClimbCc(_, _, _)
ClimbCc(state, v, climbed) ==
    Once(FindTwo(state, state.cc[v]), LAMBDA s :
        LET next == s.two[s.cc[v]]
        IN  IF next = v
            THEN [ root |-> v,
                   s |-> [ s EXCEPT !.cc = [ x \in DOMAIN s.cc |-> IF x \in climbed THEN v ELSE s.cc[x] ] ] ]
            ELSE ClimbCc(s, next, climbed \cup {v}))

FindCc(state, v) == Once(FindTwo(state, v), LAMBDA s : ClimbCc(s, s.two[v], {}))

RECURSIVE CcRoot(_, _)
CcRoot(s, v) ==
    LET rep  == TwoRoot(s, v)
        next == TwoRoot(s, s.cc[rep])
    IN  IF next = rep THEN rep ELSE CcRoot(s, next)

(* The bridges from a vertex to the root of its tree are turned around. *)
RECURSIVE TurnAround(_, _, _, _)
TurnAround(state, v, child, root) ==
    IF v = 0 THEN [ state EXCEPT !.size[root] = state.size[child] ]
    ELSE Once(FindTwo(state, state.parent[v]), LAMBDA s :
             LET above == s.parent[v]
             IN  TurnAround([ s EXCEPT !.parent[v] = child, !.cc[v] = root ],
                            IF above = 0 THEN 0 ELSE s.two[above], v, root))

(* Two ends climb in turn until one arrives where the other has been. *)
RECURSIVE ClimbInTurn(_, _, _, _)
ClimbInTurn(state, ends, paths, turn) ==
    IF ends[turn] = 0 THEN ClimbInTurn(state, ends, paths, 3 - turn)
    ELSE Once(FindTwo(state, ends[turn]), LAMBDA s :
             LET current == s.two[ends[turn]]
                 longer  == [ paths EXCEPT ![turn] = Append(@, current) ]
             IN  IF current \in ToSet(paths[1]) \cup ToSet(paths[2])
                 THEN [s |-> s, paths |-> longer, lca |-> current]
                 ELSE ClimbInTurn(s, [ ends EXCEPT ![turn] = s.parent[current] ], longer, 3 - turn))

Below(path, lca) ==
    LET at == SelectInSeq(path, LAMBDA v : v = lca)
    IN  IF at = 0 THEN path ELSE SubSeq(path, 1, at - 1)

MergePath(state, a, b) ==
    Once(ClimbInTurn(state, <<a, b>>, << << >>, << >> >>, 1), LAMBDA met :
        LET below == Below(met.paths[1], met.lca) \o Below(met.paths[2], met.lca)
        IN  [ met.s EXCEPT
                !.two = [ v \in DOMAIN @ |-> IF v \in ToSet(below) THEN met.lca ELSE @[v] ],
                !.bridges = @ - Len(below) ])

AddToBridges(state, first, second) ==
    Once(FindTwo(FindTwo(state, first), second), LAMBDA s :
        LET a == s.two[first]
            b == s.two[second]
        IN  IF a = b THEN s
            ELSE Once(FindCc(s, a), LAMBDA ours : Once(FindCc(ours.s, b), LAMBDA theirs :
                IF ours.root = theirs.root THEN MergePath(theirs.s, a, b)
                ELSE LET t     == [ theirs.s EXCEPT !.bridges = @ + 1, !.components = @ - 1 ]
                         swap  == t.size[ours.root] > t.size[theirs.root]
                         small == IF swap THEN b ELSE a
                         large == IF swap THEN a ELSE b
                         root  == IF swap THEN ours.root ELSE theirs.root
                     IN  Once(TurnAround(t, small, 0, small), LAMBDA turned :
                             [ turned EXCEPT !.parent[small] = large, !.cc[small] = large,
                                             !.size[root] = @ + turned.size[small] ]))))

(* valid_invariants, and the size of every component at its root. *)
ValidBridges(s) ==
    LET vertices == DOMAIN s.two
        roots    == { CcRoot(s, v) : v \in vertices }
    IN  /\ Cardinality(roots) = s.components
        /\ \A v \in vertices :
               TwoRoot(s, v) = v /\ s.parent[v] # 0 =>
                   /\ TwoRoot(s, s.parent[v]) # v
                   /\ CcRoot(s, s.parent[v]) = CcRoot(s, v)
        /\ \A root \in roots : s.size[root] = Cardinality({ v \in vertices : CcRoot(s, v) = root })
-----------------------------------------------------------------------------
(* Incremental topological orders. *)
AnyOrder(n) == [arcs |-> EmptyBag, order |-> [ v \in 1 .. n |-> v ]]

PositionIn(order, v) == SelectInSeq(order, LAMBDA w : w = v)

(* An order in which only the target would move. *)
MovedAlone(s, from, to) == {to}

(* Only vertices that are not above the source can lead to it. *)
Affected(s, from, to) ==
    LET limit == PositionIn(s.order, from)
    IN  ReachedFrom({ arc \in BagToSet(s.arcs) : PositionIn(s.order, arc[2]) <= limit }, {to})

(* All that follows the target is moved to behind the source, in order. *)
MovedBehind(order, from, affected) ==
    LET remaining == SelectSeq(order, LAMBDA v : v \notin affected)
        at        == PositionIn(remaining, from)
    IN  SubSeq(remaining, 1, at) \o SelectSeq(order, LAMBDA v : v \in affected)
          \o SubSeq(remaining, at + 1, Len(remaining))

TryAddArc(s, from, to) ==
    LET more == [ s EXCEPT !.arcs = @ (+) SetToBag({<<from, to>>}) ]
    IN  IF from = to THEN [s |-> s, added |-> FALSE]
        ELSE IF PositionIn(s.order, from) < PositionIn(s.order, to) THEN [s |-> more, added |-> TRUE]
        ELSE IF from \in Affected(s, from, to) THEN [s |-> s, added |-> FALSE]
        ELSE [ s |-> [ more EXCEPT !.order = MovedBehind(@, from, Affected(s, from, to)) ], added |-> TRUE ]

ValidOrder(s) ==
    /\ \A arc \in BagToSet(s.arcs) : PositionIn(s.order, arc[1]) < PositionIn(s.order, arc[2])
    /\ ToSet(s.order) = 1 .. Len(s.order)
-----------------------------------------------------------------------------
(* Disjoint sets that can be rolled back, with the parity of each element  *)
(* to its parent and the conflicts between parities.                       *)
Disjoint(n) ==
    [ parent |-> [ v \in 1 .. n |-> v ], size |-> [ v \in 1 .. n |-> 1 ],
      parity |-> [ v \in 1 .. n |-> 0 ], components |-> n, conflicts |-> 0, history |-> << >> ]

RECURSIVE FindParity(_, _, _)
FindParity(sets, v, parity) ==
    IF sets.parent[v] = v THEN [root |-> v, parity |-> parity]
    ELSE FindParity(sets, sets.parent[v], (parity + sets.parity[v]) % 2)

RootOf(sets, v) == FindParity(sets, v, 0).root

(* The root of the smaller set is put below the other, with a parity. *)
Attach(sets, a, b, parity) ==
    LET above == IF sets.size[a] < sets.size[b] THEN b ELSE a
        below == IF above = a THEN b ELSE a
    IN  [ sets EXCEPT
            !.history = Append(@, [ child |-> below, parent |-> above, size |-> sets.size[above],
                                    parity |-> sets.parity[below], conflicts |-> sets.conflicts ]),
            !.parent[below] = above,
            !.parity[below] = parity,
            !.size[above] = @ + sets.size[below],
            !.components = @ - 1 ]

Unite(sets, edge) ==
    LET a == RootOf(sets, edge[1])
        b == RootOf(sets, edge[2])
    IN  IF a = b THEN sets ELSE Attach(sets, a, b, 0)

AddOpposite(sets, edge) ==
    LET a == FindParity(sets, edge[1], 0)
        b == FindParity(sets, edge[2], 0)
        same == IF a.parity = b.parity THEN 1 ELSE 0
    IN  IF a.root # b.root THEN Attach(sets, a.root, b.root, same)
        ELSE [ sets EXCEPT !.history = Append(@, [child |-> 0, conflicts |-> sets.conflicts]),
                           !.conflicts = @ + same ]

(* A rollback of one change, whatever the snapshot. *)
RolledBackOnce(sets, target) ==
    IF sets.history = << >> THEN sets
    ELSE LET change == Last(sets.history)
         IN  [ sets EXCEPT !.history = Front(@), !.conflicts = change.conflicts,
                           !.parent = [ v \in DOMAIN @ |-> IF v = change.child THEN v ELSE @[v] ] ]

RECURSIVE RollBack(_, _)
RollBack(sets, target) ==
    IF Len(sets.history) <= target THEN sets
    ELSE LET change == Last(sets.history)
             popped == [ sets EXCEPT !.history = Front(@), !.conflicts = change.conflicts ]
         IN  RollBack(IF change.child = 0 THEN popped
                      ELSE [ popped EXCEPT !.parent[change.child] = change.child,
                                           !.parity[change.child] = change.parity,
                                           !.size[change.parent] = change.size,
                                           !.components = @ + 1 ],
                      target)
-----------------------------------------------------------------------------
(* Offline: the copies of an edge are closed last first, and each covers   *)
(* the times between its addition and its removal.                         *)
Operation(name, u, v) ==
    [kind |-> name, edge |-> IF name = "bipartite" THEN <<1, 1>> ELSE CanonicalKey(u, v)]

Legal(operations) ==
    \A time \in DOMAIN operations :
        operations[time].kind = "remove" =>
            LET before(name) == Cardinality({ t \in 1 .. time : operations[t] = [operations[time] EXCEPT !.kind = name] })
            IN  before("remove") <= before("add")

Intervals(operations) ==
    LET step(open, time) ==
            LET op == operations[time]
            IN  CASE op.kind = "add" -> [ open EXCEPT !.open = Append(@, [begin |-> time, end |-> 0, edge |-> op.edge]) ]
                  [] op.kind = "remove" ->
                        LET at == Max({ i \in DOMAIN open.open : open.open[i].edge = op.edge })
                        IN  [ open   |-> RemoveAt(open.open, at),
                              closed |-> Append(open.closed, [ open.open[at] EXCEPT !.end = time ]) ]
                  [] OTHER -> open
        scanned == FoldLeft(step, [open |-> << >>, closed |-> << >>], [ t \in DOMAIN operations |-> t ])
        \* what is still open is closed at the end, in the order of edges
        edges   == { scanned.open[i].edge : i \in DOMAIN scanned.open }
        late    == SortSeq(scanned.open, LAMBDA p, q :
                       \/ p.edge[1] < q.edge[1]
                       \/ p.edge[1] = q.edge[1] /\ p.edge[2] < q.edge[2]
                       \/ p.edge = q.edge /\ p.begin < q.begin)
    IN  scanned.closed \o [ i \in DOMAIN late |-> [ late[i] EXCEPT !.end = Len(operations) + 1 ] ]

(* The segment tree over the times from left to right: the intervals that  *)
(* cover a node are united there, the others go down, and all that the     *)
(* node and its subtrees united is rolled back at its end.                 *)
RECURSIVE Evaluate(_, _, _, _, _, _)
Evaluate(operations, Add(_, _), intervals, left, right, start) ==
    LET covers(i)  == i.begin <= left /\ right <= i.end
        here       == SelectSeq(intervals, covers)
        passed     == SelectSeq(intervals, LAMBDA i : ~covers(i) /\ left < i.end /\ i.begin < right)
        middle     == left + (right - left) \div 2
        operation  == operations[left]
        answered(sets) ==
            CASE operation.kind = "connected" ->
                    << RootOf(sets, operation.edge[1]) = RootOf(sets, operation.edge[2]) >>
              [] operation.kind = "bipartite" -> << sets.conflicts = 0 >>
              [] OTHER -> << >>
    IN  Once(FoldLeft(LAMBDA sets, i : Add(sets, i.edge), start, here), LAMBDA sets :
        IF right - left = 1
        THEN [answers |-> answered(sets), sets |-> RollBack(sets, Len(start.history))]
        ELSE Once(Evaluate(operations, Add, passed, left, middle, sets), LAMBDA first :
             Once(Evaluate(operations, Add, passed, middle, right, first.sets), LAMBDA second :
                 [ answers |-> first.answers \o second.answers,
                   sets    |-> RollBack(second.sets, Len(start.history)) ])))

Offline(n, Add(_, _), operations) ==
    IF operations = << >> THEN [answers |-> << >>, sets |-> Disjoint(n)]
    ELSE Evaluate(operations, Add, Intervals(operations), 1, Len(operations) + 1, Disjoint(n))
-----------------------------------------------------------------------------
(***************************************************************************)
(* A graph of one of the kinds, in the hands of a program that changes it  *)
(* and asks about it in any order.                                         *)
(*                                                                         *)
(* Sizes[k] is the number of vertices of kind k, Pairs[k] the pairs of     *)
(* them the program uses, Weights[k] the weights, values and changes of    *)
(* values, and Number the range of a word.  Seeds are the priorities of    *)
(* the vertices' tokens, Draws those of the edges' tokens.  Limits[k] is   *)
(* how many edges, or edge handles, or changes, there may be.              *)
(***************************************************************************)
CONSTANTS Kinds, Sizes, Pairs, Weights, Number, Seeds, Draws, Limits

VARIABLES kind,
          graph,
          edges,         \* what the graph represents, read off it after
          values,        \* every call
          log,           \* the answers of the analysis of all the changes
          request,       \* the last call
          answer         \* and what it returned or threw

vars == <<kind, graph, edges, values, log, request, answer>>

Forests == {"link_cut", "link_cut_values", "euler_tour"}
Multigraphs == {"fully_dynamic", "spanning_forest", "bridges"}
Analyses == {"connectivity", "bipartiteness"}

Vertices(k) == 1 .. Sizes[k]

Empty(k, priorities) ==
    CASE k \in {"link_cut", "link_cut_values"} -> Isolated(Vertices(k))
      [] k = "euler_tour"      -> SingleTours(priorities)
      [] k = "fully_dynamic"   -> Unconnected(priorities)
      [] k = "bridges"         -> NoBridges(Vertices(k))
      [] k = "order"           -> AnyOrder(Sizes[k])
      [] k = "spanning_forest" \/ k \in Analyses -> << >>

(* How many copies of each edge the edges at some positions of a list are. *)
BagOf(positions, EdgeAt(_)) ==
    LET present == { EdgeAt(i) : i \in positions }
    IN  [ e \in present |-> Cardinality({ i \in positions : EdgeAt(i) = e }) ]

Unweighted(pairs) == SetToBag({ <<p[1], p[2], 0>> : p \in pairs })

EdgesIn(k, g) ==
    CASE k \in {"link_cut", "link_cut_values"} ->
            Unweighted({ CanonicalKey(Min(e), Max(e)) : e \in EdgesOf(g) })
      [] k = "euler_tour" -> Unweighted(TourEdges(g))
      [] k = "fully_dynamic" ->
            [ e \in { <<key[1], key[2], 0>> : key \in DOMAIN g.records } |->
                g.records[<<e[1], e[2]>>].multiplicity ]
      [] k = "spanning_forest" ->
            BagOf(ActiveHandles(g), LAMBDA h : CanonicalKey(g[h].first, g[h].second) \o <<g[h].weight>>)
      [] k = "order" ->
            [ e \in { <<arc[1], arc[2], 0>> : arc \in DOMAIN g.arcs } |-> g.arcs[<<e[1], e[2]>>] ]
      [] k \in Analyses ->
            LET open == SelectSeq(Intervals(g), LAMBDA i : i.end = Len(g) + 1)
            IN  BagOf(DOMAIN open, LAMBDA i : open[i].edge \o <<0>>)

Init ==
    /\ kind \in Kinds
    /\ \E priorities \in Seeds[kind] : graph = Empty(kind, priorities)
    /\ edges = EmptyBag
    /\ values = [ v \in Vertices(kind) |-> 0 ]
    /\ log = << >>
    /\ request = <<"none", 0, 0, 0>>
    /\ answer = "none"

(* Everything but the edges follows from a call's effect on the graph. *)
Becomes(result) ==
    /\ graph' = result
    /\ values' = IF kind = "link_cut_values" THEN ValuesOf(result) ELSE values

Call(name, u, v, x) == request' = <<name, u, v, x>>

ReadOff ==
    /\ edges' = EdgesIn(kind, graph')
    /\ UNCHANGED log
-----------------------------------------------------------------------------
(* Forests. *)
LinkCutResult(result) ==
    \E r \in {result} : Becomes(r.forest) /\ answer' = r.answer

Link(u, v) ==
    /\ kind \in Forests
    /\ Call("add", u, v, 0)
    /\ \/ kind # "euler_tour" /\ u = v /\ answer' = "refused" /\ UNCHANGED <<graph, values>>
       \/ kind # "euler_tour" /\ u # v /\ LinkCutResult(LinkEdge(graph, u, v))
       \/ /\ kind = "euler_tour"
          /\ TourConnected(graph, u, v)
          /\ answer' = "refused"
          /\ UNCHANGED <<graph, values>>
       \/ /\ kind = "euler_tour"
          /\ ~TourConnected(graph, u, v)
          /\ \E forward, backward \in Draws : Becomes(TourLink(graph, u, v, forward, backward))
          /\ answer' = "done"
    /\ ReadOff

Cut(u, v) ==
    /\ kind \in Forests
    /\ Call("remove", u, v, 0)
    /\ \/ kind # "euler_tour" /\ u = v /\ answer' = "refused" /\ UNCHANGED <<graph, values>>
       \/ kind # "euler_tour" /\ u # v /\ LinkCutResult(CutEdge(graph, u, v))
       \/ /\ kind = "euler_tour"
          /\ CanonicalKey(u, v) \notin TourEdges(graph)
          /\ answer' = "refused"
          /\ UNCHANGED <<graph, values>>
       \/ /\ kind = "euler_tour"
          /\ CanonicalKey(u, v) \in TourEdges(graph)
          /\ Becomes(TourCut(graph, u, v))
          /\ answer' = "done"
    /\ ReadOff

(* path_edge_distance, rooted_subtree_vertex_count, rooted_subtree_sum and *)
(* path_sum expose the same path, and connected the way to two roots.      *)
AskPath(u, v) ==
    /\ kind \in {"link_cut", "link_cut_values"}
    /\ Call("ask", u, v, 0)
    /\ \/ LinkCutResult(ExposePath(graph, u, v))
       \/ \E r \in {TreeConnected(graph, u, v)} :
              Becomes(r.forest) /\ answer' = IF r.connected THEN "done" ELSE "refused"
    /\ ReadOff

KthVertex(u, v, rank) ==
    /\ kind \in {"link_cut", "link_cut_values"}
    /\ Call("ask", u, v, 0)
    /\ \E exposed \in {ExposePath(graph, u, v)} :
           /\ exposed.answer = "done" /\ rank < exposed.forest[v].size
           /\ Becomes(Descend(exposed.forest, v, rank).forest)
           /\ answer' = "done"
    /\ ReadOff

ChangeValues(u, v, x) ==
    /\ kind = "link_cut_values"
    /\ \/ Call("assign", u, v, x) /\ u = v /\ LinkCutResult(AssignValue(graph, v, x))
       \/ Call("assign", u, v, x) /\ LinkCutResult(AssignPath(graph, u, v, x))
       \/ Call("shift", u, v, x) /\ LinkCutResult(AddToPath(Number, graph, u, v, x))
    /\ ReadOff
-----------------------------------------------------------------------------
(* Multigraphs and acyclic graphs. *)
AddEdge(u, v, w) ==
    /\ kind \in Multigraphs
    /\ IF kind = "spanning_forest" THEN Len(graph) < Limits[kind] ELSE BagCardinality(edges) < Limits[kind]
    /\ Call("add", u, v, w)
    /\ answer' = "done"
    /\ UNCHANGED log
    /\ \/ /\ kind = "fully_dynamic"
          /\ \E forward, backward \in Draws : Becomes(AddCopy(graph, u, v, forward, backward))
          /\ edges' = EdgesIn(kind, graph')
       \/ /\ kind = "spanning_forest"
          /\ Becomes(AddWeighted(graph, u, v, w))
          /\ edges' = EdgesIn(kind, graph')
       \* the code counts the edges, and keeps none
       \/ /\ kind = "bridges"
          /\ Becomes(AddToBridges(graph, u, v))
          /\ edges' = edges (+) Unweighted({CanonicalKey(u, v)})

RemoveEdge(u, v) ==
    /\ kind = "fully_dynamic"
    /\ Call("remove", u, v, 0)
    /\ \/ CanonicalKey(u, v) \notin DOMAIN graph.records /\ answer' = "refused" /\ UNCHANGED <<graph, values>>
       \/ /\ CanonicalKey(u, v) \in DOMAIN graph.records
          /\ \E forward, backward \in Draws : Becomes(RemoveCopy(graph, u, v, forward, backward))
          /\ answer' = "done"
    /\ ReadOff

(* An inactive handle is refused, and no handle is used again. *)
RemoveHandle(handle) ==
    /\ kind = "spanning_forest"
    /\ handle \in ActiveHandles(graph)
    /\ Call("remove", graph[handle].first, graph[handle].second, graph[handle].weight)
    /\ Becomes(RemoveWeighted(graph, handle))
    /\ answer' = "done"
    /\ ReadOff

TryAddEdge(u, v) ==
    /\ kind = "order"
    /\ BagCardinality(edges) < Limits[kind]
    /\ Call("add", u, v, 0)
    /\ \E r \in {TryAddArc(graph, u, v)} :
           Becomes(r.s) /\ answer' = IF r.added THEN "done" ELSE "refused"
    /\ ReadOff
-----------------------------------------------------------------------------
(* The list of changes grows, and is analysed again from its beginning; a  *)
(* list that removes what it has not added is refused as a whole.          *)
Analysis(operations) ==
    IF kind = "connectivity" THEN Offline(Sizes[kind], Unite, operations)
    ELSE Offline(Sizes[kind], AddOpposite, operations)

Operations == [add |-> "add", remove |-> "remove", ask |-> IF kind = "connectivity" THEN "connected" ELSE "bipartite"]

Schedule(name, u, v) ==
    /\ kind \in Analyses
    /\ Len(graph) < Limits[kind]
    /\ Call(Operations[name], u, v, 0)
    /\ LET longer == Append(graph, Operation(Operations[name], u, v))
       IN  \/ ~Legal(longer) /\ answer' = "refused" /\ UNCHANGED <<graph, edges, values, log>>
           \/ /\ Legal(longer)
              /\ Becomes(longer)
              /\ edges' = EdgesIn(kind, longer)
              /\ log' = Analysis(longer).answers
              /\ answer' = "done"
-----------------------------------------------------------------------------
Next ==
    /\ UNCHANGED kind
    /\ \/ \E p \in Pairs[kind] : Link(p[1], p[2])
       \/ \E p \in Pairs[kind] : Cut(p[1], p[2])
       \/ \E p \in Pairs[kind] : AskPath(p[1], p[2])
       \/ \E p \in Pairs[kind] : \E rank \in 0 .. Sizes[kind] - 1 : KthVertex(p[1], p[2], rank)
       \/ \E p \in Pairs[kind] : \E x \in Weights[kind] : ChangeValues(p[1], p[2], x)
       \/ \E p \in Pairs[kind] : \E w \in Weights[kind] : AddEdge(p[1], p[2], w)
       \/ \E p \in Pairs[kind] : RemoveEdge(p[1], p[2])
       \/ \E handle \in 1 .. Limits[kind] : RemoveHandle(handle)
       \/ \E p \in Pairs[kind] : TryAddEdge(p[1], p[2])
       \/ \E p \in Pairs[kind] : \E name \in DOMAIN Operations : Schedule(name, p[1], p[2])

Spec == Init /\ [][Next]_vars

(* The call and its answer do not bear on what follows. *)
Lasting == <<kind, graph, edges, values, log>>
-----------------------------------------------------------------------------
Promise == INSTANCE DynamicGraph WITH
    Vertex <- 1 .. Max({ Sizes[k] : k \in Kinds }),
    traits <- [forest |-> kind \in Forests, acyclic |-> kind = "order"]

(* Whatever the calls, and however a structure has been rearranged by the  *)
(* ones that only ask, every change does to the edges and the values what  *)
(* it does to a graph, and is refused when it must be, with nothing lost;  *)
(* and what the analyses say of a past time stays what was true then.      *)
(* (LinkCutForest, EulerTourForest, FullyDynamicConnectivity,              *)
(* DynamicMinimumSpanningForest, OnlineBridgeConnectivity,                 *)
(* IncrementalTopologicalOrder, offline_dynamic_connectivity,              *)
(* offline_dynamic_bipartiteness.)                                         *)
ImplementsDynamicGraph == Promise!Spec

(* Every structure keeps what its operations rely on: the diagnostics of   *)
(* each class, that a tour is a closed walk, that no number the code       *)
(* narrows leaves its word, and that an analysis gives its sets back as it *)
(* found them.                                                             *)
StructuresValid ==
    CASE kind \in {"link_cut", "link_cut_values"} -> ValidForest(Number, graph)
      [] kind = "euler_tour"      -> ValidTours(Sizes[kind], graph)
      [] kind = "fully_dynamic"   -> ValidConnectivity(Sizes[kind], graph)
      [] kind = "spanning_forest" -> ValidSpanningForest(graph)
      [] kind = "bridges"         -> ValidBridges(graph)
      [] kind = "order"           -> ValidOrder(graph)
      [] kind \in Analyses        -> Analysis(graph).sets = Disjoint(Sizes[kind])

Ends == { <<e[1], e[2]>> : e \in BagToSet(edges) }
Linked(u, v) == Joined(Ends, u, v)
Bridges ==
    { e \in BagToSet(edges) : edges[e] = 1 /\ ~Joined(Ends \ {<<e[1], e[2]>>}, e[1], e[2]) }

(* What a structure answers without being changed, or gathers on a path it *)
(* exposes, is what the edges and the values say: the length of a path, its*)
(* sum and its vertices in order, the size and the sum of a rooted subtree;*)
(* the component of a vertex; a forest of least weight among all that span *)
(* the graph; the bridges, and the components there are without them.      *)
QueriesExact ==
    LET path(u, v)  == Promise!Path(u, v)
        below(r, v) == { x \in Vertices(kind) : Linked(r, x) /\ v \in path(r, x) }
        total(some) == MapThenSumSet(LAMBDA x : values[x], some)
    IN
    CASE kind \in {"link_cut", "link_cut_values"} ->
            \A p \in Pairs[kind] :
                Linked(p[1], p[2]) =>
                    \E f \in {ExposePath(graph, p[1], p[2]).forest} :
                        /\ PathEdgeDistance(f, p[2]) = Cardinality(path(p[1], p[2])) - 1
                        /\ PathTotal(f, p[2]) = total(path(p[1], p[2]))
                        /\ RootedSubtreeCount(f, p[2]) = Cardinality(below(p[1], p[2]))
                        /\ RootedSubtreeTotal(f, p[2]) = total(below(p[1], p[2]))
                        /\ \A x \in path(p[1], p[2]) :
                               Descend(f, p[2], Cardinality(path(p[1], x)) - 1).vertex = x
      [] kind = "euler_tour" ->
            \A u, v \in Vertices(kind) : TourConnected(graph, u, v) = Linked(u, v)
      [] kind = "fully_dynamic" ->
            \A u, v \in Vertices(kind) : TourConnected(graph.forest, u, v) = Linked(u, v)
      [] kind = "spanning_forest" ->
            LET spans(handles) ==
                    \A u, v \in Vertices(kind) :
                        Linked(u, v) => Joined({ <<graph[h].first, graph[h].second>> : h \in handles }, u, v)
                size == Cardinality(ForestHandles(graph))
            IN  \A handles \in SUBSET ActiveHandles(graph) :
                    spans(handles) /\ Cardinality(handles) <= size =>
                        WeightOf(graph, ForestHandles(graph)) <= WeightOf(graph, handles)
      [] kind = "bridges" ->
            /\ graph.bridges = Cardinality(Bridges)
            /\ \A u, v \in Vertices(kind) :
                   /\ (CcRoot(graph, u) = CcRoot(graph, v)) = Linked(u, v)
                   /\ (TwoRoot(graph, u) = TwoRoot(graph, v))
                        = Joined({ <<e[1], e[2]>> : e \in BagToSet(edges) \ Bridges }, u, v)
      [] OTHER -> TRUE
-----------------------------------------------------------------------------
(* The instance that is checked: enough vertices for a path with a branch, *)
(* for a tour to be cut within another, and for a cycle that has a bridge. *)
Size == [ link_cut |-> 4, link_cut_values |-> 3, euler_tour |-> 4, fully_dynamic |-> 3,
          spanning_forest |-> 3, bridges |-> 4, order |-> 4, connectivity |-> 3, bipartiteness |-> 3 ]

Pair == [ k \in DOMAIN Size |->
            LET all == (1 .. Size[k]) \X (1 .. Size[k])
            IN  CASE k \in {"spanning_forest", "connectivity", "bipartiteness"} -> { p \in all : p[1] < p[2] }
                  [] k = "fully_dynamic"   -> {<<1, 2>>, <<3, 2>>, <<1, 3>>, <<2, 2>>}
                  [] k = "bridges"         -> {<<1, 2>>, <<2, 3>>, <<3, 4>>, <<4, 1>>, <<1, 3>>, <<4, 2>>, <<3, 3>>}
                  [] k = "order"           -> { p \in all : p[1] # 4 \/ p[2] < 3 }
                  [] k = "link_cut"        -> {<<1, 2>>, <<1, 3>>, <<4, 1>>, <<3, 2>>, <<3, 3>>}
                  [] k = "link_cut_values" -> {<<1, 2>>, <<3, 1>>, <<2, 2>>}
                  [] k = "euler_tour"      -> {<<1, 2>>, <<1, 3>>, <<4, 1>>, <<3, 2>>, <<2, 4>>, <<3, 3>>}
                  [] OTHER -> all ]

Weight == [ k \in DOMAIN Size |->
              CASE k = "spanning_forest" -> {-1, 1}
                [] k = "link_cut_values" -> {-1, 1}
                [] OTHER                 -> {0} ]

Word == -1 .. 1

Seed == [ k \in DOMAIN Size |->
            CASE k = "euler_tour"    -> {<<1, 2, 1, 2>>}
              [] k = "fully_dynamic" -> {<<1, 1, 1>>}
              [] OTHER               -> {<< >>} ]

Limit == [ k \in DOMAIN Size |->
             CASE k = "fully_dynamic"   -> 4
               [] k = "spanning_forest" -> 4
               [] k = "bridges"         -> 5
               [] k = "order"           -> 6
               [] k = "connectivity"    -> 5
               [] k = "bipartiteness"   -> 6
               [] OTHER                 -> 0 ]
=============================================================================
