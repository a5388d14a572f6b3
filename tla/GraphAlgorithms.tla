-------------------------- MODULE GraphAlgorithms --------------------------
(***************************************************************************)
(* Algorithms over a graph that does not change (first traversals, paths   *)
(* and components, then trees, matchings and flows), as operators from     *)
(* their arguments to what they return.  A graph has vertices 0 .. n - 1   *)
(* and, for each, its arcs <<to, weight>> in the order of insertion; arcs  *)
(* holds all of them, <<from, to, weight>>, in the order the loops over    *)
(* vertices and neighbors meet them.  Every result is a record.  A partial *)
(* function from vertices is an array whose other entries are not set.     *)
(*                                                                         *)
(* WeightMax stands for the largest signed word.                           *)
(***************************************************************************)
EXTENDS Integers, SequencesExt

CONSTANT WeightMax

ASSUME WeightAssumption == WeightMax \in Nat \ {0}

Nothing == [nothing |-> TRUE]      \* std::nullopt
Refused == [refused |-> TRUE]      \* std::invalid_argument
Overflow == [overflow |-> TRUE]    \* std::overflow_error

Fits(number) == number \in -WeightMax - 1 .. WeightMax
WideMax == 2 * WeightMax + 1       \* the largest unsigned word

(* Body(value), with the value computed once. *)
Once(value, Body(_)) == CHOOSE result \in { Body(v) : v \in {value} } : TRUE

(* for (element : list) state = Body(element, state) *)
Each(list, state, Body(_, _)) ==
    Once(list, LAMBDA l :
        LET RECURSIVE From(_, _)
            From(i, s) == IF i > Len(l) THEN s
                          ELSE Once(Body(l[i], s), LAMBDA t : From(i + 1, t))
        IN  From(1, state))

(* while (Test(state)) state = Body(state) *)
While(state, Test(_), Body(_)) ==
    LET RECURSIVE After(_)
        After(s) == IF Test(s) THEN Once(Body(s), LAMBDA t : After(t)) ELSE s
    IN  After(state)

RECURSIVE Listed(_)
Listed(set) ==
    IF set = {} THEN << >>
    ELSE LET x == CHOOSE x \in set : TRUE IN Append(Listed(set \ {x}), x)

(* Tuples in lexicographic order. *)
Precedes(a, b) ==
    \/ \E i \in DOMAIN a \cap DOMAIN b :
          a[i] < b[i] /\ \A j \in 1 .. i - 1 : a[j] = b[j]
    \/ IsStrictPrefix(a, b)

Ascending(set) == SortSeq(Listed(set), LAMBDA a, b : a < b)
InOrder(set) == SortSeq(Listed(set), Precedes)
Least(set) == CHOOSE a \in set : \A b \in set \ {a} : Precedes(a, b)

Push(list, x) == Append(list, x)
Positions(array, set) == SelectSeq([i \in 1 .. Len(array) |-> i], LAMBDA i : array[i] \in set)
Upto(n) == [i \in 1 .. n |-> i - 1]
Set(array, i, value) == (i :> value) @@ array
-----------------------------------------------------------------------------
EmptyGraph(n, directed) ==
    [n |-> n, directed |-> directed, adjacent |-> [v \in 0 .. n - 1 |-> << >>]]

AddEdge(g, from, to, weight) ==
    LET added == [g EXCEPT !.adjacent[from] = Append(@, <<to, weight>>)]
    IN  IF ~g.directed /\ from # to
        THEN [added EXCEPT !.adjacent[to] = Append(@, <<from, weight>>)]
        ELSE added

(* The graph of a list of edges <<from, to, weight>>. *)
GraphOf(n, directed, edges) ==
    Once(Each(edges, EmptyGraph(n, directed), LAMBDA e, g : AddEdge(g, e[1], e[2], e[3])),
         LAMBDA g : [n |-> n, directed |-> directed, adjacent |-> g.adjacent,
                     arcs |-> FlattenSeq([i \in 1 .. n |->
                                  [k \in DOMAIN g.adjacent[i - 1] |-> <<i - 1>> \o g.adjacent[i - 1][k]]])])

Vertices(g) == 0 .. g.n - 1

(* What is reached from a set in steps of Next, a set for each element. *)
Explored(starts, Next(_)) ==
    While([seen |-> starts, new |-> starts], LAMBDA s : s.new # {},
          LAMBDA s : Once(UNION { Next(x) : x \in s.new } \ s.seen,
                          LAMBDA new : [seen |-> s.seen \cup new, new |-> new])).seen
Targets(g, v) == [k \in DOMAIN g.adjacent[v] |-> g.adjacent[v][k][1]]
-----------------------------------------------------------------------------
(***************************************************************************)
(* traversal.cpp                                                           *)
(***************************************************************************)
BreadthFirstSearch(g, start) ==
    Once(While([order |-> << >>, queue |-> <<start>>, distance |-> start :> 0, parent |-> << >>],
               LAMBDA s : s.queue # << >>,
               LAMBDA s : LET current == Head(s.queue) IN
                   Each(Targets(g, current),
                        [s EXCEPT !.queue = Tail(@), !.order = Append(@, current)],
                        LAMBDA to, t :
                            IF to \in DOMAIN t.distance THEN t
                            ELSE [t EXCEPT !.distance = Set(@, to, t.distance[current] + 1),
                                           !.parent = Set(@, to, current),
                                           !.queue = Append(@, to)])),
         LAMBDA s : [order |-> s.order, distance |-> s.distance, parent |-> s.parent])

ShortestUnweightedPath(g, start, target) ==
    Once(BreadthFirstSearch(g, start), LAMBDA bfs :
        IF target \notin DOMAIN bfs.distance THEN Nothing
        ELSE [path |-> While(<<target>>, LAMBDA p : Head(p) # start,
                             LAMBDA p : <<bfs.parent[Head(p)]>> \o p)])

DepthFirstSearch(g, start) ==
    While([order |-> << >>, stack |-> <<start>>],
          LAMBDA s : s.stack # << >>,
          LAMBDA s : LET current == Last(s.stack)
                         seen == ToSet(s.order)
                     IN  IF current \in seen THEN [s EXCEPT !.stack = Front(@)]
                         ELSE [order |-> Append(s.order, current),
                               stack |-> Front(s.stack)
                                         \o SelectSeq(Reverse(Targets(g, current)),
                                                      LAMBDA to : to \notin seen \cup {current})]).order

(* An exploration stays in its component, so it is the one from start alone. *)
ConnectedComponents(g) ==
    Each(Upto(g.n), << >>, LAMBDA start, components :
        IF \E i \in DOMAIN components : start \in ToSet(components[i]) THEN components
        ELSE Append(components, DepthFirstSearch(g, start)))

RECURSIVE DirectedCycleFrom(_, _, _)
DirectedCycleFrom(g, vertex, color) ==
    Once(Each(Targets(g, vertex), [found |-> FALSE, color |-> Set(color, vertex, 1)],
              LAMBDA to, s : IF s.found \/ s.color[to] = 2 THEN s
                             ELSE IF s.color[to] = 1 THEN [s EXCEPT !.found = TRUE]
                             ELSE DirectedCycleFrom(g, to, s.color)),
         LAMBDA s : IF s.found THEN s ELSE [s EXCEPT !.color[vertex] = 2])

RECURSIVE UndirectedCycleFrom(_, _, _, _)
UndirectedCycleFrom(g, vertex, parent, visited) ==
    Each(Targets(g, vertex), [found |-> FALSE, visited |-> visited \cup {vertex}, toParent |-> 0],
         LAMBDA to, s :
             IF s.found THEN s
             ELSE IF to = parent
                  THEN [s EXCEPT !.toParent = @ + 1, !.found = s.toParent = 1]
             ELSE IF to \in s.visited THEN [s EXCEPT !.found = TRUE]
             ELSE Once(UndirectedCycleFrom(g, to, vertex, s.visited),
                       LAMBDA r : [s EXCEPT !.found = r.found, !.visited = r.visited]))

HasCycle(g) ==
    IF g.directed
    THEN Each(Upto(g.n), [found |-> FALSE, color |-> [v \in Vertices(g) |-> 0]],
              LAMBDA v, s : IF s.found \/ s.color[v] # 0 THEN s
                            ELSE DirectedCycleFrom(g, v, s.color)).found
    ELSE Each(Upto(g.n), [found |-> FALSE, visited |-> {}],
              LAMBDA v, s : IF s.found \/ v \in s.visited THEN s
                            ELSE UndirectedCycleFrom(g, v, -1, s.visited)).found

(* The logical edges of an undirected graph, and the entries <<to, edge>> of *)
(* a vertex in a list of them.                                               *)
ExtractUndirectedEdges(g) == SelectSeq(g.arcs, LAMBDA a : a[1] <= a[2])

OtherEnd(edge, vertex) == IF edge[1] = vertex THEN edge[2] ELSE edge[1]

Incident(edges, vertex) ==
    LET ids == SelectSeq([i \in DOMAIN edges |-> i],
                         LAMBDA i : vertex \in {edges[i][1], edges[i][2]})
    IN  [k \in DOMAIN ids |-> <<OtherEnd(edges[ids[k]], vertex), ids[k]>>]

IncidenceLists(n, edges) ==
    Each(Upto(n), << >>, LAMBDA v, lists : Set(lists, v, Incident(edges, v)))

(* The state of a depth-first search with low links, one time per vertex that is discovered; parent maps *)
(* a vertex to the edge it was reached by.                                                               *)
Discovered(s, vertex) ==
    LET time == Cardinality(DOMAIN s.discovery) IN
    [s EXCEPT !.discovery = Set(@, vertex, time), !.low = Set(@, vertex, time),
              !.stack = Append(@, <<vertex, 1>>)]

(* Faulty: the low link of a vertex met again, not its time. *)
LowOfLow(vertex, entry, s) ==
    IF vertex \in DOMAIN s.parent /\ s.parent[vertex] = entry[2] THEN s
    ELSE IF entry[1] \notin DOMAIN s.discovery
    THEN Discovered([s EXCEPT !.parent = Set(@, entry[1], entry[2]), !.children[vertex] = @ + 1], entry[1])
    ELSE [s EXCEPT !.low[vertex] = Min({@, s.low[entry[1]]})]

(* The step at an entry of the vertex on top of the stack. *)
LowLinkEntry(vertex, entry, s) ==
    IF vertex \in DOMAIN s.parent /\ s.parent[vertex] = entry[2] THEN s
    ELSE IF entry[1] \notin DOMAIN s.discovery
    THEN Discovered([s EXCEPT !.parent = Set(@, entry[1], entry[2]), !.children[vertex] = @ + 1], entry[1])
    ELSE [s EXCEPT !.low[vertex] = Min({@, s.discovery[entry[1]]})]

(* The step when its entries are used up. *)
LowLinkRetreat(edges, vertex, s) ==
    IF vertex \notin DOMAIN s.parent
    THEN [s EXCEPT !.articulation = IF s.children[vertex] > 1 THEN @ \cup {vertex} ELSE @]
    ELSE LET edge == s.parent[vertex]
             parent == OtherEnd(edges[edge], vertex)
         IN  [s EXCEPT
                !.low[parent] = Min({@, s.low[vertex]}),
                !.bridges = IF s.low[vertex] > s.discovery[parent] THEN @ \cup {edge} ELSE @,
                !.articulation = IF parent \in DOMAIN s.parent /\ s.low[vertex] >= s.discovery[parent]
                                 THEN @ \cup {parent} ELSE @]

LowLinkSearch(edges, adjacency, n) ==
    Each(Upto(n),
         [discovery |-> << >>, low |-> << >>, parent |-> << >>, children |-> [v \in 0 .. n - 1 |-> 0],
          articulation |-> {}, bridges |-> {}, stack |-> << >>],
         LAMBDA root, s :
             IF root \in DOMAIN s.discovery THEN s
             ELSE While(Discovered(s, root), LAMBDA t : t.stack # << >>,
                        LAMBDA t : LET top == Len(t.stack)
                                       vertex == t.stack[top][1]
                                       next == t.stack[top][2]
                                   IN  IF next <= Len(adjacency[vertex])
                                       THEN LowLinkEntry(vertex, adjacency[vertex][next],
                                                         [t EXCEPT !.stack[top][2] = @ + 1])
                                       ELSE LowLinkRetreat(edges, vertex, [t EXCEPT !.stack = Front(@)])))

(* Vertices joined without bridges, numbered from the least on. *)
BridgeComponents(adjacency, bridges, n) ==
    Each(Upto(n), [of |-> << >>, count |-> 0], LAMBDA seed, s :
        IF seed \in DOMAIN s.of THEN s
        ELSE [of |-> While([of |-> Set(s.of, seed, s.count), stack |-> <<seed>>],
                           LAMBDA t : t.stack # << >>,
                           LAMBDA t : Each(adjacency[Last(t.stack)], [t EXCEPT !.stack = Front(@)],
                                           LAMBDA entry, r :
                                               IF entry[2] \in bridges \/ entry[1] \in DOMAIN r.of THEN r
                                               ELSE [of |-> Set(r.of, entry[1], s.count),
                                                     stack |-> Append(r.stack, entry[1])])).of,
              count |-> s.count + 1])

AnalyzeUndirectedLowLink(g) ==
    IF g.directed THEN Refused
    ELSE Once(ExtractUndirectedEdges(g), LAMBDA edges :
         Once(IncidenceLists(g.n, edges), LAMBDA adjacency :
         Once(LowLinkSearch(edges, adjacency, g.n), LAMBDA s :
         Once(BridgeComponents(adjacency, s.bridges, g.n), LAMBDA components :
             [bridges |-> Positions([i \in DOMAIN edges |-> i], s.bridges),
              articulation |-> s.articulation,
              component |-> components.of, count |-> components.count]))))

TopologicalSort(g) ==
    IF ~g.directed THEN Refused
    ELSE Once(Each(g.arcs, [v \in Vertices(g) |-> 0], LAMBDA a, d : [d EXCEPT ![a[2]] = @ + 1]),
         LAMBDA indegree :
            Once(While([order |-> << >>, indegree |-> indegree,
                        ready |-> SelectSeq(Upto(g.n), LAMBDA v : indegree[v] = 0)],
                       LAMBDA s : s.ready # << >>,
                       LAMBDA s : Each(Targets(g, Head(s.ready)),
                                       [s EXCEPT !.ready = Tail(@), !.order = Append(@, Head(s.ready))],
                                       LAMBDA to, t :
                                           [t EXCEPT !.indegree[to] = @ - 1,
                                                     !.ready = IF t.indegree[to] = 1 THEN Append(@, to) ELSE @])),
                 LAMBDA s : IF Len(s.order) # g.n THEN Nothing ELSE [order |-> s.order]))
-----------------------------------------------------------------------------
(***************************************************************************)
(* shortest_paths.cpp.  A priority queue is the set of its entries.        *)
(***************************************************************************)
Improves(s, to, candidate) == to \notin DOMAIN s.distance \/ candidate < s.distance[to]

Improved(s, from, to, candidate) ==
    [s EXCEPT !.distance = Set(@, to, candidate), !.parent = Set(@, to, from)]

Distances(s) == IF s.overflow THEN Overflow ELSE [distance |-> s.distance, parent |-> s.parent]

(* checked_add, and the relaxation of an arc. *)
RelaxArc(s, from, to, candidate) ==
    IF ~Fits(candidate) THEN [s EXCEPT !.overflow = TRUE]
    ELSE IF Improves(s, to, candidate)
         THEN [Improved(s, from, to, candidate) EXCEPT !.queue = @ \cup {<<candidate, to>>}]
         ELSE s

Dijkstra(g, source) ==
    IF \E i \in DOMAIN g.arcs : g.arcs[i][3] < 0 THEN Refused
    ELSE Distances(
         While([distance |-> source :> 0, parent |-> << >>, queue |-> {<<0, source>>}, overflow |-> FALSE],
               LAMBDA s : s.queue # {} /\ ~s.overflow,
               LAMBDA s : Once(Least(s.queue), LAMBDA current :
                   LET rest == [s EXCEPT !.queue = @ \ {current}] IN
                   IF current[1] # s.distance[current[2]] THEN rest
                   ELSE Each(g.adjacent[current[2]], rest, LAMBDA arc, t :
                            RelaxArc(t, current[2], arc[1], current[1] + arc[2])))))

(* One pass over all arcs whose tail has been reached. *)
BellmanFordPass(g, s) ==
    Each(g.arcs, s, LAMBDA arc, t :
        IF arc[1] \notin DOMAIN t.distance THEN t
        ELSE LET candidate == t.distance[arc[1]] + arc[3] IN
             IF ~Fits(candidate) THEN [t EXCEPT !.overflow = TRUE]
             ELSE IF Improves(t, arc[2], candidate) THEN Improved(t, arc[1], arc[2], candidate)
             ELSE t)

(* The arcs once more: the first that overflows or improves decides. *)
BellmanFordVerdict(g, s) ==
    Each(g.arcs, "none", LAMBDA arc, verdict :
        IF verdict # "none" \/ arc[1] \notin DOMAIN s.distance THEN verdict
        ELSE LET candidate == s.distance[arc[1]] + arc[3] IN
             IF ~Fits(candidate) THEN "overflow"
             ELSE IF Improves(s, arc[2], candidate) THEN "cycle" ELSE "none")

BellmanFord(g, source) ==
    Once(While([pass |-> 1, changed |-> TRUE,
                paths |-> [distance |-> source :> 0, parent |-> << >>, overflow |-> FALSE]],
               LAMBDA s : s.pass < g.n /\ s.changed /\ ~s.paths.overflow,
               LAMBDA s : Once(BellmanFordPass(g, s.paths), LAMBDA t :
                   [pass |-> s.pass + 1, changed |-> t.distance # s.paths.distance, paths |-> t])).paths,
         LAMBDA s : Once(BellmanFordVerdict(g, s), LAMBDA verdict :
             IF s.overflow \/ verdict = "overflow" THEN Overflow
             ELSE [distance |-> s.distance, parent |-> s.parent, cycle |-> verdict = "cycle"]))

(* Distances from a vertex joined to all others with arcs of weight 0. *)
JohnsonPotentials(g) ==
    Once(While([pass |-> 0, changed |-> TRUE, overflow |-> FALSE, potential |-> [v \in Vertices(g) |-> 0]],
               LAMBDA s : s.pass < g.n /\ s.changed /\ ~s.overflow,
               LAMBDA s : Each(g.arcs, [s EXCEPT !.pass = @ + 1, !.changed = FALSE], LAMBDA arc, t :
                   LET candidate == t.potential[arc[1]] + arc[3] IN
                   IF ~Fits(candidate) THEN [t EXCEPT !.overflow = TRUE]
                   ELSE IF candidate < t.potential[arc[2]]
                        THEN [t EXCEPT !.potential[arc[2]] = candidate, !.changed = TRUE]
                        ELSE t)),
         LAMBDA s : IF s.overflow THEN Overflow
                    ELSE IF s.changed THEN Nothing
                    ELSE [potential |-> s.potential])

(* The arc's weight with potentials, which are not positive; their           *)
(* differences are taken in unsigned words, and no result is negative.       *)
ReweightedEdgeWeight(weight, from, to) == weight + from - to

DijkstraReweighted(g, source, potential) ==
    While([distance |-> source :> 0, parent |-> << >>, queue |-> {<<0, source>>}, overflow |-> FALSE],
          LAMBDA s : s.queue # {} /\ ~s.overflow,
          LAMBDA s : Once(Least(s.queue), LAMBDA current :
              LET rest == [s EXCEPT !.queue = @ \ {current}] IN
              IF current[1] # s.distance[current[2]] THEN rest
              ELSE Each(g.adjacent[current[2]], rest, LAMBDA arc, t :
                       LET weight == ReweightedEdgeWeight(arc[2], potential[current[2]], potential[arc[1]])
                           candidate == current[1] + weight
                       IN  IF weight > WideMax THEN [t EXCEPT !.overflow = TRUE]
                           ELSE IF candidate > WideMax \/ ~Improves(t, arc[1], candidate) THEN t
                           ELSE [Improved(t, current[2], arc[1], candidate) EXCEPT
                                    !.queue = @ \cup {<<candidate, arc[1]>>}])))

(* The original distance, if it fits. *)
RestoreOriginalDistance(reweighted, source, target) ==
    LET distance == reweighted - source + target IN
    IF Fits(distance) THEN [distance |-> distance] ELSE Overflow

ReachableVertices(g, source) == Explored({source}, LAMBDA v : ToSet(Targets(g, v)))

JohnsonAllPairs(g) ==
    Once(JohnsonPotentials(g), LAMBDA p :
        IF p \in {Overflow, Nothing} THEN p
        ELSE Each(Upto(g.n), [distance |-> << >>, parent |-> << >>], LAMBDA source, all :
             IF all = Overflow THEN all
             ELSE Once(DijkstraReweighted(g, source, p.potential), LAMBDA paths :
                  IF paths.overflow \/ ReachableVertices(g, source) # DOMAIN paths.distance THEN Overflow
                  ELSE LET restored == [v \in DOMAIN paths.distance |->
                               RestoreOriginalDistance(paths.distance[v], p.potential[source], p.potential[v])]
                       IN  IF \E v \in DOMAIN restored : restored[v] = Overflow THEN Overflow
                           ELSE [distance |-> Set(all.distance, source,
                                                  [v \in DOMAIN restored |-> restored[v].distance]),
                                 parent |-> Set(all.parent, source, paths.parent)])))
-----------------------------------------------------------------------------
(***************************************************************************)
(* strongly_connected_components.cpp                                       *)
(***************************************************************************)
RECURSIVE TarjanVisit(_, _, _)
TarjanVisit(g, vertex, before) ==
    LET index == Cardinality(DOMAIN before.index) IN
    Once(Each(Targets(g, vertex),
              [before EXCEPT !.index = Set(@, vertex, index), !.low = Set(@, vertex, index),
                             !.stack = Append(@, vertex)],
              LAMBDA to, s :
                  IF to \notin DOMAIN s.index
                  THEN Once(TarjanVisit(g, to, s), LAMBDA t : [t EXCEPT !.low[vertex] = Min({@, t.low[to]})])
                  ELSE IF to \in ToSet(s.stack) THEN [s EXCEPT !.low[vertex] = Min({@, s.index[to]})]
                  ELSE s),
         LAMBDA s : IF s.low[vertex] # s.index[vertex] THEN s
                    ELSE LET bottom == CHOOSE i \in DOMAIN s.stack : s.stack[i] = vertex
                         IN  [s EXCEPT !.stack = SubSeq(@, 1, bottom - 1),
                                       !.components = Append(@, Reverse(SubSeq(s.stack, bottom, Len(s.stack))))])

Tarjan(g) ==
    IF ~g.directed THEN Refused
    ELSE [components |-> Each(Upto(g.n), [index |-> << >>, low |-> << >>, stack |-> << >>, components |-> << >>],
                              LAMBDA v, s : IF v \in DOMAIN s.index THEN s ELSE TarjanVisit(g, v, s)).components]

(* The vertices not yet visited that a depth-first search from a vertex reaches, in the *)
(* order it finishes them, or in the order it meets them.                               *)
RECURSIVE FirstPass(_, _, _)
FirstPass(g, vertex, s) ==
    Once(Each(Targets(g, vertex), [s EXCEPT !.visited = @ \cup {vertex}],
              LAMBDA to, t : IF to \in t.visited THEN t ELSE FirstPass(g, to, t)),
         LAMBDA t : [t EXCEPT !.order = Append(@, vertex)])

RECURSIVE SecondPass(_, _, _)
SecondPass(transpose, vertex, s) ==
    Each(transpose[vertex], [visited |-> s.visited \cup {vertex}, order |-> Append(s.order, vertex)],
         LAMBDA to, t : IF to \in t.visited THEN t ELSE SecondPass(transpose, to, t))

Kosaraju(g) ==
    IF ~g.directed THEN Refused
    ELSE Once(Each(Upto(g.n), [visited |-> {}, order |-> << >>],
                   LAMBDA v, s : IF v \in s.visited THEN s ELSE FirstPass(g, v, s)).order,
         LAMBDA finished :
            Once(Each(g.arcs, [v \in Vertices(g) |-> << >>],
                      LAMBDA arc, t : [t EXCEPT ![arc[2]] = Append(@, arc[1])]),
            LAMBDA transpose :
               [components |->
                   Each(Reverse(finished), [visited |-> {}, components |-> << >>], LAMBDA v, s :
                       IF v \in s.visited THEN s
                       ELSE Once(SecondPass(transpose, v, [visited |-> s.visited, order |-> << >>]), LAMBDA t :
                           [visited |-> t.visited, components |-> Append(s.components, t.order)])).components]))

(* The arcs between the components of a decomposition, each once. *)
CondensationGraph(g, components) ==
    LET Of(v) == (CHOOSE c \in DOMAIN components : v \in ToSet(components[c])) - 1 IN
    InOrder({ pair \in { <<Of(g.arcs[i][1]), Of(g.arcs[i][2])>> : i \in DOMAIN g.arcs } : pair[1] # pair[2] })
-----------------------------------------------------------------------------
(***************************************************************************)
(* biconnected_components.cpp                                              *)
(***************************************************************************)
CanonicalEdges(g) ==
    InOrder({ <<g.arcs[i][1], g.arcs[i][2]>> : i \in { k \in DOMAIN g.arcs : g.arcs[k][1] < g.arcs[k][2] } })

(* The edges on the stack down to a tree edge are a block. *)
BlockClosed(edges, s, edge) ==
    LET bottom == CHOOSE i \in DOMAIN s.edges : s.edges[i] = edge
        block == { s.edges[i] : i \in bottom .. Len(s.edges) }
    IN  [s EXCEPT !.edges = SubSeq(@, 1, bottom - 1),
                  !.edgeBlocks = @ \cup {block},
                  !.blocks = @ \cup { UNION { {edges[e][1], edges[e][2]} : e \in block } }]

BlockEntry(vertex, entry, s) ==
    LET to == entry[1] IN
    IF vertex \in DOMAIN s.parent /\ s.parent[vertex] = entry[2] THEN s
    ELSE IF to \notin DOMAIN s.discovery
    THEN Discovered([s EXCEPT !.parent = Set(@, to, entry[2]), !.edges = Append(@, entry[2])], to)
    ELSE IF s.discovery[to] < s.discovery[vertex]
    THEN [s EXCEPT !.edges = Append(@, entry[2]), !.low[vertex] = Min({@, s.discovery[to]})]
    ELSE s

BlockRetreat(edges, vertex, s) ==
    IF vertex \notin DOMAIN s.parent THEN s
    ELSE LET parent == OtherEnd(edges[s.parent[vertex]], vertex)
             lowered == [s EXCEPT !.low[parent] = Min({@, s.low[vertex]})]
         IN  IF s.low[vertex] >= s.discovery[parent]
             THEN BlockClosed(edges, lowered, s.parent[vertex]) ELSE lowered

BlockSearch(n, edges) ==
    Once(Each(Upto(n), << >>, LAMBDA v, lists :
             Set(lists, v, SortSeq(Incident(edges, v), Precedes))), LAMBDA adjacency :
    Each(Upto(n),
         [discovery |-> << >>, low |-> << >>, parent |-> << >>, edges |-> << >>, blocks |-> {}, edgeBlocks |-> {},
          stack |-> << >>],
         LAMBDA root, s :
             IF root \in DOMAIN s.discovery THEN s
             ELSE IF adjacency[root] = << >>
             THEN [Discovered(s, root) EXCEPT !.stack = << >>, !.blocks = @ \cup {{root}}]
             ELSE While(Discovered(s, root), LAMBDA t : t.stack # << >>,
                        LAMBDA t : LET top == Len(t.stack)
                                       vertex == t.stack[top][1]
                                       next == t.stack[top][2]
                                   IN  IF next <= Len(adjacency[vertex])
                                       THEN BlockEntry(vertex, adjacency[vertex][next],
                                                       [t EXCEPT !.stack[top][2] = @ + 1])
                                       ELSE BlockRetreat(edges, vertex, [t EXCEPT !.stack = Front(@)]))))

VertexBiconnectedDecomposition(g) ==
    IF g.directed THEN Refused
    ELSE Once(BlockSearch(g.n, CanonicalEdges(g)), LAMBDA s :
             [blocks |-> s.blocks, residual |-> s.edges,
              articulation |-> { v \in Vertices(g) : Cardinality({ b \in s.blocks : v \in b }) > 1 }])
-----------------------------------------------------------------------------
(***************************************************************************)
(* disjoint_set_union.hpp                                                  *)
(***************************************************************************)
Singletons(elements) ==
    [parent |-> [e \in elements |-> e], size |-> [e \in elements |-> 1], count |-> Cardinality(elements)]

RECURSIVE Root(_, _)
Root(dsu, element) == IF dsu.parent[element] = element THEN element ELSE Root(dsu, dsu.parent[element])

(* find: the root, and the forest with the path to it compressed. *)
RECURSIVE PathTo(_, _)
PathTo(dsu, element) ==
    {element} \cup IF dsu.parent[element] = element THEN {} ELSE PathTo(dsu, dsu.parent[element])

Compressed(dsu, element) ==
    Once(Root(dsu, element), LAMBDA root :
        [dsu EXCEPT !.parent = [e \in PathTo(dsu, element) |-> root] @@ @])

(* unite: nothing but compression if the roots are the same. *)
United(dsu, a, b) ==
    Once(Compressed(Compressed(dsu, a), b), LAMBDA d :
        LET first == Root(d, a)
            second == Root(d, b)
            kept == IF d.size[first] < d.size[second] THEN second ELSE first
            hung == IF kept = first THEN second ELSE first
        IN  IF first = second THEN d
            ELSE [parent |-> Set(d.parent, hung, kept),
                  size |-> Set(d.size, kept, d.size[kept] + d.size[hung]),
                  count |-> d.count - 1])
-----------------------------------------------------------------------------
(***************************************************************************)
(* minimum_spanning_tree.cpp                                               *)
(***************************************************************************)
ByWeight(a, b) == Precedes(<<a[3], a[1], a[2]>>, <<b[3], b[1], b[2]>>)

WithEdge(s, edge) ==
    [s EXCEPT !.edges = Append(@, edge), !.total = @ + edge[3], !.overflow = @ \/ ~Fits(s.total + edge[3])]

ForestOf(s, count) ==
    IF s.overflow THEN Overflow ELSE [edges |-> s.edges, total |-> s.total, components |-> count]

Kruskal(g) ==
    IF g.directed THEN Refused
    ELSE Once(Each(SortSeq(SelectSeq(g.arcs, LAMBDA a : a[1] < a[2]), ByWeight),
                   [edges |-> << >>, total |-> 0, overflow |-> FALSE, dsu |-> Singletons(Vertices(g))],
                   LAMBDA edge, s : Once(United(s.dsu, edge[1], edge[2]), LAMBDA dsu :
                       IF dsu.count = s.dsu.count THEN [s EXCEPT !.dsu = dsu]
                       ELSE WithEdge([s EXCEPT !.dsu = dsu], edge))),
              LAMBDA s : ForestOf(s, s.dsu.count))

(* The frontier is a set: of equal candidates, only one is ever chosen. *)
Entered(g, vertex, s) ==
    LET visited == s.visited \cup {vertex} IN
    [s EXCEPT !.visited = visited,
              !.frontier = @ \cup { <<arc[2], vertex, arc[1]>> :
                                    arc \in { a \in ToSet(g.adjacent[vertex]) : a[1] \notin visited } }]

Prim(g) ==
    IF g.directed THEN Refused
    ELSE Once(Each(Upto(g.n),
                   [edges |-> << >>, total |-> 0, overflow |-> FALSE, visited |-> {}, frontier |-> {}, count |-> 0],
                   LAMBDA root, s :
                       IF root \in s.visited THEN s
                       ELSE While(Entered(g, root, [s EXCEPT !.count = @ + 1]), LAMBDA t : t.frontier # {},
                                  LAMBDA t : Once(Least(t.frontier), LAMBDA c :
                                      LET rest == [t EXCEPT !.frontier = @ \ {c}] IN
                                      IF c[3] \in t.visited THEN rest
                                      ELSE Entered(g, c[3], WithEdge(rest, <<c[2], c[3], c[1]>>))))),
              LAMBDA s : ForestOf(s, s.count))
-----------------------------------------------------------------------------
(***************************************************************************)
(* lowest_common_ancestor.cpp                                              *)
(***************************************************************************)
(* The search that roots a tree, and refuses what is not one. *)
RootedStep(g, root, s) ==
    LET vertex == Last(s.stack) IN
    Each(Targets(g, vertex), [s EXCEPT !.stack = Front(@), !.order = Append(@, vertex)],
         LAMBDA to, t :
             IF to = vertex \/ (to = t.parent[vertex] /\ vertex \in t.met) THEN [t EXCEPT !.refused = TRUE]
             ELSE IF to = t.parent[vertex] THEN [t EXCEPT !.met = @ \cup ({vertex} \ {root})]
             ELSE IF to \in DOMAIN t.parent THEN [t EXCEPT !.refused = TRUE]
             ELSE [t EXCEPT !.parent = Set(@, to, vertex), !.depth = Set(@, to, t.depth[vertex] + 1),
                            !.stack = Append(@, to)])

RootedTree(g, root) ==
    IF g.directed THEN Refused
    ELSE Once(While([order |-> << >>, stack |-> <<root>>, parent |-> root :> root, depth |-> root :> 0,
                     met |-> {}, refused |-> FALSE],
                    LAMBDA s : s.stack # << >> /\ ~s.refused,
                    LAMBDA s : RootedStep(g, root, s)),
              LAMBDA s : IF s.refused \/ Len(s.order) # g.n THEN Refused
                         ELSE [order |-> s.order, parent |-> s.parent, depth |-> s.depth])

BitWidth(n) == CHOOSE w \in 0 .. n : 2^w > n /\ (w = 0 \/ 2^(w - 1) <= n)

(* up[level + 1][v] is the ancestor 2^level above v, or the root. *)
AncestorTable(g, root) ==
    Once(RootedTree(g, root), LAMBDA tree :
        IF tree = Refused THEN Refused
        ELSE [depth |-> tree.depth,
              up |-> Each([l \in 1 .. BitWidth(g.n) - 1 |-> l], <<tree.parent>>, LAMBDA l, up :
                         Append(up, Each(Upto(g.n), << >>, LAMBDA v, row : Set(row, v, up[l][up[l][v]]))))])

Lift(table, vertex, steps) ==
    While([vertex |-> vertex, steps |-> steps, level |-> 1], LAMBDA s : s.steps # 0,
          LAMBDA s : [vertex |-> IF s.steps % 2 = 1 THEN table.up[s.level][s.vertex] ELSE s.vertex,
                      steps |-> s.steps \div 2,
                      level |-> s.level + 1]).vertex

KthAncestor(table, vertex, steps) ==
    IF steps > table.depth[vertex] THEN Nothing ELSE [vertex |-> Lift(table, vertex, steps)]

CommonAncestor(table, a, b) ==
    LET deeper == IF table.depth[a] < table.depth[b] THEN b ELSE a
        other == IF deeper = a THEN b ELSE a
    IN  Once(<<Lift(table, deeper, table.depth[deeper] - table.depth[other]), other>>, LAMBDA pair :
            IF pair[1] = pair[2] THEN pair[1]
            ELSE table.up[1][Each(Reverse(table.up), pair, LAMBDA row, p :
                                 IF row[p[1]] = row[p[2]] THEN p ELSE <<row[p[1]], row[p[2]]>>)[1]])

DistanceEdges(table, a, b) ==
    LET ancestor == CommonAncestor(table, a, b) IN
    (table.depth[a] - table.depth[ancestor]) + (table.depth[b] - table.depth[ancestor])
-----------------------------------------------------------------------------
(***************************************************************************)
(* transitive_reduction.cpp                                                *)
(***************************************************************************)
CanonicalAdjacency(g) ==
    Each(Upto(g.n), << >>, LAMBDA v, lists : Set(lists, v, Ascending(ToSet(Targets(g, v)))))

DeterministicTopologicalOrder(adjacency) ==
    LET n == Cardinality(DOMAIN adjacency)
        Indegree(v) == Cardinality({ u \in DOMAIN adjacency : v \in ToSet(adjacency[u]) })
    IN  Once([v \in DOMAIN adjacency |-> Indegree(v)], LAMBDA indegree :
        While([order |-> << >>, indegree |-> indegree,
               ready |-> SelectSeq(Upto(n), LAMBDA v : indegree[v] = 0)],
              LAMBDA s : s.ready # << >>,
              LAMBDA s : Each(adjacency[Head(s.ready)],
                              [s EXCEPT !.ready = Tail(@), !.order = Append(@, Head(s.ready))],
                              LAMBDA to, t : [t EXCEPT !.indegree[to] = @ - 1,
                                                       !.ready = IF t.indegree[to] = 1 THEN Append(@, to) ELSE @])).order)

(* The vertices at the end of a path of one arc or more. *)
ReachabilityMatrix(adjacency) ==
    Each(Upto(Cardinality(DOMAIN adjacency)), << >>, LAMBDA v, rows :
        Set(rows, v, Explored(ToSet(adjacency[v]), LAMBDA u : ToSet(adjacency[u]))))

TransitiveReduction(g) ==
    IF ~g.directed THEN Refused
    ELSE Once(CanonicalAdjacency(g), LAMBDA adjacency :
         Once(DeterministicTopologicalOrder(adjacency), LAMBDA order :
             IF Len(order) # g.n THEN Refused
             ELSE Once(ReachabilityMatrix(adjacency), LAMBDA reachable :
                 [order |-> order,
                  arcs |-> { arc \in { <<g.arcs[i][1], g.arcs[i][2]>> : i \in DOMAIN g.arcs } :
                             \A hop \in ToSet(adjacency[arc[1]]) \ {arc[2]} : arc[2] \notin reachable[hop] }])))
-----------------------------------------------------------------------------
(***************************************************************************)
(* eulerian_trail.cpp                                                      *)
(***************************************************************************)
NormalizedEdges(g) == IF g.directed THEN g.arcs ELSE ExtractUndirectedEdges(g)

OutDegree(edges, v) == Len(SelectSeq(edges, LAMBDA e : e[1] = v))
InDegree(edges, v) == Len(SelectSeq(edges, LAMBDA e : e[2] = v))

ActiveVerticesConnected(edges) ==
    LET active == UNION { {edges[i][1], edges[i][2]} : i \in DOMAIN edges }
        Near(v) == UNION { {edges[i][1], edges[i][2]} :
                           i \in { k \in DOMAIN edges : v \in {edges[k][1], edges[k][2]} } }
    IN  active = Explored({Min(active)}, Near)

(* The vertex a trail must start from, as a set with it alone, or none. *)
DirectedStart(edges, vertices) ==
    Once([v \in vertices |-> OutDegree(edges, v) - InDegree(edges, v)], LAMBDA surplus :
        LET positive == { v \in vertices : surplus[v] > 0 }
            negative == { v \in vertices : surplus[v] < 0 }
        IN  IF (\E v \in vertices : surplus[v] \notin {-1, 0, 1})
               \/ Cardinality(positive) > 1 \/ Cardinality(negative) # Cardinality(positive)
            THEN {}
            ELSE IF positive # {} THEN positive
            ELSE { Min({ v \in vertices : OutDegree(edges, v) # 0 }) })

UndirectedStart(edges, vertices) ==
    LET Degree(v) == OutDegree(edges, v) + InDegree(edges, v)
        odd == { v \in vertices : Degree(v) % 2 # 0 }
    IN  CASE Cardinality(odd) = 2 -> {Min(odd)}
          [] odd = {} -> { Min({ v \in vertices : Degree(v) # 0 }) }
          [] OTHER -> {}

(* The walk over unused edges that puts a vertex away when it is stuck; a vertex's *)
(* cursor stands at its first unused entry.                                        *)
EulerianWalk(adjacency, start) ==
    While([stack |-> <<start>>, used |-> {}, reversed |-> << >>], LAMBDA s : s.stack # << >>,
          LAMBDA s : LET current == Last(s.stack)
                         unused == SelectSeq(adjacency[current], LAMBDA entry : entry[2] \notin s.used)
                     IN  IF unused = << >>
                         THEN [s EXCEPT !.reversed = Append(@, current), !.stack = Front(@)]
                         ELSE [s EXCEPT !.used = @ \cup {unused[1][2]}, !.stack = Append(@, unused[1][1])])

EulerianTrail(g) ==
    Once(NormalizedEdges(g), LAMBDA edges :
        IF edges = << >> THEN [trail |-> IF g.n = 0 THEN << >> ELSE <<0>>, edges |-> 0, circuit |-> TRUE]
        ELSE IF ~ActiveVerticesConnected(edges) THEN Nothing
        ELSE Once(IF g.directed THEN DirectedStart(edges, Vertices(g)) ELSE UndirectedStart(edges, Vertices(g)),
             LAMBDA starts :
                IF starts = {} THEN Nothing
                ELSE Once(IF g.directed
                          THEN [v \in Vertices(g) |-> SelectSeq(Incident(edges, v), LAMBDA e : edges[e[2]][1] = v)]
                          ELSE IncidenceLists(g.n, edges),
                     LAMBDA adjacency : Once(EulerianWalk(adjacency, Min(starts)), LAMBDA s :
                         IF Cardinality(s.used) # Len(edges) \/ Len(s.reversed) # Len(edges) + 1 THEN Nothing
                         ELSE [trail |-> Reverse(s.reversed), edges |-> Len(edges),
                               circuit |-> s.reversed[1] = Last(s.reversed)]))))
-----------------------------------------------------------------------------
(***************************************************************************)
(* heavy_light_decomposition.cpp.  The values stand in a Fenwick tree by   *)
(* position; here they are a function of it.                               *)
(***************************************************************************)
NoVertex == -1

(* Subtree sizes and heavy children, from the leaves up. *)
HeavyChildren(tree) ==
    Each(Reverse(Tail(tree.order)),
         [size |-> [v \in DOMAIN tree.parent |-> 1], heavy |-> [v \in DOMAIN tree.parent |-> NoVertex]],
         LAMBDA v, s :
             LET parent == tree.parent[v]
                 heavy == s.heavy[parent]
             IN  [size |-> [s.size EXCEPT ![parent] = @ + s.size[v]],
                  heavy |-> IF heavy = NoVertex \/ s.size[v] > s.size[heavy]
                               \/ (s.size[v] = s.size[heavy] /\ v < heavy)
                            THEN [s.heavy EXCEPT ![parent] = v] ELSE s.heavy])

(* One vertex of a chain: its light children wait, its heavy child goes on. *)
ChainStep(g, tree, heavy, s) ==
    LET light == SelectSeq(Targets(g, s.vertex),
                           LAMBDA to : to # tree.parent[s.vertex] /\ to # heavy[s.vertex])
    IN  [head |-> Set(s.head, s.vertex, s.chain), position |-> Set(s.position, s.vertex, Cardinality(DOMAIN s.position)),
         pending |-> s.pending \o Reverse(light), chain |-> s.chain, vertex |-> heavy[s.vertex]]

HeavyLight(g, values, root) ==
    Once(IF g.n = 0 THEN Refused ELSE RootedTree(g, root), LAMBDA tree :
        IF tree = Refused THEN Refused
        ELSE Once(HeavyChildren(tree), LAMBDA h :
             Once(While([head |-> << >>, position |-> << >>, pending |-> <<root>>, chain |-> root, vertex |-> NoVertex],
                        LAMBDA s : s.vertex # NoVertex \/ s.pending # << >>,
                        LAMBDA s : IF s.vertex # NoVertex THEN ChainStep(g, tree, h.heavy, s)
                                   ELSE [s EXCEPT !.chain = Last(s.pending), !.vertex = Last(s.pending),
                                                  !.pending = Front(@)]),
             LAMBDA s : [parent |-> tree.parent, depth |-> tree.depth, size |-> h.size,
                         head |-> s.head, position |-> s.position,
                         value |-> [p \in 0 .. g.n - 1 |-> values[CHOOSE v \in Vertices(g) : s.position[v] = p]]])))

AssignValue(hld, vertex, value) == [hld EXCEPT !.value[hld.position[vertex]] = value]

RangeSum(hld, begin, end) ==
    Each([k \in 1 .. end - begin |-> begin + k - 1], 0, LAMBDA p, sum : sum + hld.value[p])

PathSum(hld, a, b) ==
    Once(While([a |-> a, b |-> b, total |-> 0], LAMBDA s : hld.head[s.a] # hld.head[s.b],
               LAMBDA s : LET swap == hld.depth[hld.head[s.a]] < hld.depth[hld.head[s.b]]
                              first == IF swap THEN s.b ELSE s.a
                              head == hld.head[first]
                          IN  [a |-> hld.parent[head], b |-> IF swap THEN s.a ELSE s.b,
                               total |-> s.total + RangeSum(hld, hld.position[head], hld.position[first] + 1)]),
         LAMBDA s : LET ends == {hld.position[s.a], hld.position[s.b]}
                    IN  s.total + RangeSum(hld, Min(ends), Max(ends) + 1))

SubtreeSum(hld, vertex) ==
    RangeSum(hld, hld.position[vertex], hld.position[vertex] + hld.size[vertex])
-----------------------------------------------------------------------------

(***************************************************************************)
(* centroid_nearest_active.cpp                                             *)
(***************************************************************************)
IsSimpleTree(g) ==
    LET edges == SelectSeq(g.arcs, LAMBDA a : a[1] < a[2]) IN
    /\ ~g.directed
    /\ \A i \in DOMAIN g.arcs : g.arcs[i][1] # g.arcs[i][2]
    /\ \A i, j \in DOMAIN edges : i < j => <<edges[i][1], edges[i][2]>> # <<edges[j][1], edges[j][2]>>
    /\ g.n > 0 => Len(edges) = g.n - 1 /\ ReachableVertices(g, 0) = Vertices(g)

(* The neighbors of a vertex whose centroid has not been chosen yet. *)
Remaining(s, vertex) == SelectSeq(s.adjacent[vertex], LAMBDA v : v \notin s.removed)

CollectComponent(s, start) == Explored({start}, LAMBDA v : ToSet(Remaining(s, v)))

RECURSIVE ComponentSize(_, _, _)
ComponentSize(s, vertex, parent) ==
    Each(Remaining(s, vertex), 1, LAMBDA v, size :
        IF v = parent THEN size ELSE size + ComponentSize(s, v, vertex))

ChooseCentroid(s, component) ==
    Min({ v \in component : \A next \in ToSet(Remaining(s, v)) :
              ComponentSize(s, next, v) <= Cardinality(component) \div 2 })

RECURSIVE AppendCentroidDistances(_, _, _, _, _)
AppendCentroidDistances(s, centroid, vertex, parent, distance) ==
    Each(Remaining(s, vertex), [s EXCEPT !.paths[vertex] = Append(@, <<centroid, distance>>)], LAMBDA v, t :
        IF v = parent THEN t ELSE AppendCentroidDistances(t, centroid, v, vertex, distance + 1))

RECURSIVE BuildDecomposition(_, _, _)
BuildDecomposition(s, start, parent) ==
    Once(ChooseCentroid(s, CollectComponent(s, start)), LAMBDA centroid :
    Once(AppendCentroidDistances(s, centroid, centroid, centroid, 0), LAMBDA t :
        Each(s.adjacent[centroid],
             [t EXCEPT !.parent = Set(@, centroid, parent), !.removed = @ \cup {centroid}],
             LAMBDA v, r : IF v \in r.removed THEN r ELSE BuildDecomposition(r, v, centroid))))

CentroidIndex(g) ==
    IF ~IsSimpleTree(g) THEN Refused
    ELSE Once([adjacent |-> [v \in Vertices(g) |-> Ascending(ToSet(Targets(g, v)))],
               paths |-> [v \in Vertices(g) |-> << >>], parent |-> << >>, removed |-> {},
               active |-> {}, buckets |-> [v \in Vertices(g) |-> {}]],
              LAMBDA s : IF g.n = 0 THEN s ELSE BuildDecomposition(s, 0, NoVertex))

Activate(s, vertex) ==
    IF vertex \in s.active THEN s
    ELSE Each(s.paths[vertex], [s EXCEPT !.active = @ \cup {vertex}], LAMBDA entry, t :
             [t EXCEPT !.buckets[entry[1]] = @ \cup {<<entry[2], vertex>>}])

Deactivate(s, vertex) ==
    IF vertex \notin s.active THEN s
    ELSE Each(s.paths[vertex], [s EXCEPT !.active = @ \ {vertex}], LAMBDA entry, t :
             [t EXCEPT !.buckets[entry[1]] = @ \ {<<entry[2], vertex>>}])

NearestActive(s, vertex) ==
    LET found == { entry \in ToSet(s.paths[vertex]) : s.buckets[entry[1]] # {} }
        Candidate(entry) == LET first == Least(s.buckets[entry[1]]) IN <<entry[2] + first[1], first[2]>>
    IN  IF found = {} THEN Nothing ELSE [nearest |-> Least({ Candidate(entry) : entry \in found })]
-----------------------------------------------------------------------------
(***************************************************************************)
(* tree_isomorphism.cpp                                                    *)
(***************************************************************************)
(* One layer of leaves is peeled off. *)
PeeledLayer(g, s) ==
    Each(s.leaves, [s EXCEPT !.remaining = @ - Len(s.leaves), !.leaves = << >>], LAMBDA leaf, t :
        [Each(Targets(g, leaf), t, LAMBDA to, r :
             IF r.degree[to] = 0 THEN r
             ELSE [r EXCEPT !.degree[to] = @ - 1,
                            !.leaves = IF r.degree[to] = 2 THEN Append(@, to) ELSE @])
         EXCEPT !.degree[leaf] = 0])

TreeCenters(g) ==
    Ascending(ToSet(
        While([degree |-> [v \in Vertices(g) |-> Len(g.adjacent[v])], remaining |-> g.n,
               leaves |-> SelectSeq(Upto(g.n), LAMBDA v : Len(g.adjacent[v]) <= 1)],
              LAMBDA s : s.remaining > 2, LAMBDA s : PeeledLayer(g, s)).leaves))

RootTree(g, root) ==
    While([parent |-> root :> root, children |-> [v \in Vertices(g) |-> << >>], order |-> <<root>>, index |-> 1],
          LAMBDA s : s.index <= Len(s.order),
          LAMBDA s : LET vertex == s.order[s.index] IN
              Each(Targets(g, vertex), [s EXCEPT !.index = @ + 1], LAMBDA to, t :
                  IF to = t.parent[vertex] THEN t
                  ELSE [t EXCEPT !.parent = Set(@, to, vertex), !.children[vertex] = Append(@, to),
                                 !.order = Append(@, to)]))

(* The id of a list of child signatures, and the lists with it among them. *)
Intern(lists, children) ==
    LET sorted == SortSeq(children, LAMBDA a, b : a < b) IN
    IF Contains(lists, sorted) THEN <<CHOOSE i \in DOMAIN lists : lists[i] = sorted, lists>>
    ELSE <<Len(lists) + 1, Append(lists, sorted)>>

LabelRootedTree(tree, lists) ==
    Each(Reverse(tree.order), [signature |-> << >>, lists |-> lists], LAMBDA vertex, s :
        Once(Intern(s.lists, [k \in DOMAIN tree.children[vertex] |-> s.signature[tree.children[vertex][k]]]),
             LAMBDA id : [signature |-> Set(s.signature, vertex, id[1]), lists |-> id[2]]))

(* Children of one signature, in the order of their numbers. *)
SignatureGroup(tree, labels, vertex, id) ==
    Ascending({ child \in ToSet(tree.children[vertex]) : labels.signature[child] = id })

TryRootPair(g, h, root, image) ==
    Once(RootTree(g, root), LAMBDA left : Once(RootTree(h, image), LAMBDA right :
    Once(LabelRootedTree(left, << >>), LAMBDA l : Once(LabelRootedTree(right, l.lists), LAMBDA r :
        IF l.signature[root] # r.signature[image] THEN Nothing
        ELSE [map |-> While([map |-> << >>, pending |-> <<<<root, image>>>>],
                  LAMBDA s : s.pending # << >>,
                  LAMBDA s : LET pair == Last(s.pending)
                                 ids == { l.signature[c] : c \in ToSet(left.children[pair[1]]) }
                             IN  Each(Ascending(ids),
                                      [map |-> Set(s.map, pair[1], pair[2]), pending |-> Front(s.pending)],
                                      LAMBDA id, t :
                                          LET from == SignatureGroup(left, l, pair[1], id)
                                              to == SignatureGroup(right, r, pair[2], id)
                                          IN  [t EXCEPT !.pending = @ \o [k \in DOMAIN from |-> <<from[k], to[k]>>]])).map]))))

ExactTreeIsomorphism(g, h) ==
    IF ~IsSimpleTree(g) \/ ~IsSimpleTree(h) THEN Refused
    ELSE IF g.n # h.n THEN Nothing
    ELSE IF g.n = 0 THEN [map |-> << >>]
    ELSE Once(TreeCenters(g), LAMBDA first : Once(TreeCenters(h), LAMBDA second :
         IF Len(first) # Len(second) THEN Nothing
         ELSE Each(second, Nothing, LAMBDA image, result :
                  IF result = Nothing THEN TryRootPair(g, h, Head(first), image) ELSE result)))
-----------------------------------------------------------------------------
(***************************************************************************)
(* chinese_postman.cpp.  Costs saturate at the first that does not fit.    *)
(***************************************************************************)
SaturatedAdd(a, b) == Min({a + b, WeightMax + 1})

EdgeDijkstra(source, edges, adjacency) ==
    While([distance |-> source :> 0, parent |-> << >>, queue |-> {<<0, source>>}], LAMBDA s : s.queue # {},
          LAMBDA s : Once(Least(s.queue), LAMBDA current :
              LET rest == [s EXCEPT !.queue = @ \ {current}] IN
              IF current[1] # s.distance[current[2]] THEN rest
              ELSE Each(adjacency[current[2]], rest, LAMBDA entry, t :
                       LET candidate == SaturatedAdd(current[1], edges[entry[2]][3]) IN
                       IF ~Improves(t, entry[1], candidate) THEN t
                       ELSE [distance |-> Set(t.distance, entry[1], candidate),
                             parent |-> Set(t.parent, entry[1], <<current[2], entry[2]>>),
                             queue |-> t.queue \cup {<<candidate, entry[1]>>}])))

ReconstructPathEdges(source, target, paths) ==
    While([at |-> target, edges |-> << >>], LAMBDA s : s.at # source,
          LAMBDA s : [at |-> paths.parent[s.at][1], edges |-> <<paths.parent[s.at][2]>> \o s.edges]).edges

(* The cheapest pairing of odd vertices; the least is paired first, with *)
(* the first of the partners that are best.                              *)
RECURSIVE Pairing(_, _)
Pairing(paths, odd) ==
    IF odd = {} THEN [cost |-> 0, pairs |-> << >>]
    ELSE LET first == Min(odd) IN
         Each(Ascending(odd \ {first}), [cost |-> WeightMax + 2, pairs |-> << >>], LAMBDA second, best :
             Once(Pairing(paths, odd \ {first, second}), LAMBDA rest :
                 LET cost == SaturatedAdd(paths[first].distance[second], rest.cost) IN
                 IF cost < best.cost THEN [cost |-> cost, pairs |-> <<<<first, second>>>> \o rest.pairs] ELSE best))

(* The walk over all occurrences of edges, with the occurrences it takes. *)
ClosedEulerianWalk(n, edges, occurrences) ==
    Once(IncidenceLists(n, [k \in DOMAIN occurrences |-> edges[occurrences[k]]]), LAMBDA incident :
        While([stack |-> <<<<Min({ v \in 0 .. n - 1 : incident[v] # << >> }), 0>>>>,
               used |-> {}, vertices |-> << >>, walk |-> << >>],
              LAMBDA s : s.stack # << >>,
              LAMBDA s : LET vertex == Last(s.stack)[1]
                             unused == SelectSeq(incident[vertex], LAMBDA entry : entry[2] \notin s.used)
                         IN  IF unused = << >>
                             THEN [s EXCEPT !.stack = Front(@), !.vertices = <<vertex>> \o @,
                                            !.walk = IF Last(s.stack)[2] = 0 THEN @ ELSE <<Last(s.stack)[2]>> \o @]
                             ELSE [s EXCEPT !.used = @ \cup {unused[1][2]}, !.stack = Append(@, unused[1])]))

Doubled(edges, paths, pairs) ==
    FlattenSeq([k \in DOMAIN pairs |-> ReconstructPathEdges(pairs[k][1], pairs[k][2], paths[pairs[k][1]])])

ChinesePostmanTour(g) ==
    IF g.directed \/ \E i \in DOMAIN g.arcs : g.arcs[i][3] < 0 THEN Refused
    ELSE
    Once(ExtractUndirectedEdges(g), LAMBDA edges :
    IF edges = << >> THEN [original |-> 0, duplicated |-> 0, vertices |-> IF g.n = 0 THEN << >> ELSE <<0>>,
                           walk |-> << >>, occurrences |-> << >>]
    ELSE IF ~ActiveVerticesConnected(edges) THEN Nothing
    ELSE Once(Each(edges, 0, LAMBDA e, cost : SaturatedAdd(cost, e[3])), LAMBDA original :
    Once(IncidenceLists(g.n, edges), LAMBDA adjacency :
    LET odd == { v \in Vertices(g) : (OutDegree(edges, v) + InDegree(edges, v)) % 2 = 1 } IN
    Once(Each(Ascending(odd), << >>, LAMBDA v, all : Set(all, v, EdgeDijkstra(v, edges, adjacency))), LAMBDA paths :
    Once(Pairing(paths, odd), LAMBDA pairing :
    IF original > WeightMax \/ SaturatedAdd(original, pairing.cost) > WeightMax THEN Overflow
    ELSE Once([i \in DOMAIN edges |-> i] \o Doubled(edges, paths, pairing.pairs), LAMBDA occurrences :
         Once(ClosedEulerianWalk(g.n, edges, occurrences), LAMBDA closed :
             [original |-> original, duplicated |-> pairing.cost, vertices |-> closed.vertices,
              walk |-> closed.walk, occurrences |-> occurrences])))))))
-----------------------------------------------------------------------------
(***************************************************************************)
(* bipartite_matching.cpp.  Matches and distances are partial functions.   *)
(***************************************************************************)
(* Breadth-first layers from the free left vertices, and the length of the *)
(* shortest augmenting path, 0 if there is none.                           *)
BuildLayers(adjacency, s) ==
    LET free == SelectSeq(Upto(Cardinality(DOMAIN adjacency)), LAMBDA l : l \notin DOMAIN s.left) IN
    While([s EXCEPT !.distance = [l \in ToSet(free) |-> 0], !.length = 0, !.queue = free],
          LAMBDA t : t.queue # << >>,
          LAMBDA t : LET left == Head(t.queue) IN
              IF t.length # 0 /\ t.distance[left] >= t.length THEN [t EXCEPT !.queue = Tail(@)]
              ELSE Each(adjacency[left], [t EXCEPT !.queue = Tail(@)], LAMBDA right, r :
                       IF right \notin DOMAIN r.right THEN [r EXCEPT !.length = r.distance[left] + 1]
                       ELSE IF r.right[right] \in DOMAIN r.distance THEN r
                       ELSE [r EXCEPT !.distance = Set(@, r.right[right], r.distance[left] + 1),
                                      !.queue = Append(@, r.right[right])]))

(* A path from left along the layers is flipped; without one, left is out of the layers. *)
RECURSIVE AugmentFrom(_, _, _)
AugmentFrom(adjacency, left, s) ==
    Once(Each(adjacency[left], [s EXCEPT !.found = FALSE], LAMBDA right, t :
             IF t.found THEN t
             ELSE Once(IF right \notin DOMAIN t.right
                       THEN [t EXCEPT !.found = t.distance[left] + 1 = t.length]
                       ELSE LET next == t.right[right] IN
                            IF next \in DOMAIN t.distance /\ t.distance[next] = t.distance[left] + 1
                            THEN AugmentFrom(adjacency, next, t) ELSE t,
                  LAMBDA r : IF r.found THEN [r EXCEPT !.left = Set(@, left, right), !.right = Set(@, right, left)]
                             ELSE r)),
         LAMBDA t : IF t.found THEN t
                    ELSE [t EXCEPT !.distance = [l \in DOMAIN @ \ {left} |-> @[l]]])

(* Left vertices not reached by alternating paths from the free ones, and right vertices that are. *)
MinimumVertexCover(adjacency, s) ==
    LET Crossed(l) == { r \in ToSet(adjacency[l]) : l \notin DOMAIN s.left \/ s.left[l] # r }
        reached == Explored(DOMAIN adjacency \ DOMAIN s.left,
                            LAMBDA l : { s.right[r] : r \in Crossed(l) \cap DOMAIN s.right })
    IN  [left |-> DOMAIN adjacency \ reached, right |-> UNION { Crossed(l) : l \in reached }]

HopcroftKarp(leftCount, edges) ==
    Once(Each(edges, [l \in 0 .. leftCount - 1 |-> << >>], LAMBDA e, a : [a EXCEPT ![e[1]] = Append(@, e[2])]),
    LAMBDA adjacency :
        Once(While(BuildLayers(adjacency, [left |-> << >>, right |-> << >>, distance |-> << >>, length |-> 0,
                                           queue |-> << >>, found |-> FALSE]),
                   LAMBDA s : s.length # 0,
                   LAMBDA s : BuildLayers(adjacency, Each(Upto(leftCount), s, LAMBDA l, t :
                                  IF l \in DOMAIN t.left THEN t ELSE AugmentFrom(adjacency, l, t)))),
             LAMBDA s : [left |-> s.left, right |-> s.right, cover |-> MinimumVertexCover(adjacency, s)]))

ComputeBipartition(g) ==
    Each(Upto(g.n), [side |-> << >>, refused |-> FALSE], LAMBDA start, s :
        IF s.refused \/ start \in DOMAIN s.side THEN s
        ELSE While([side |-> Set(s.side, start, 0), refused |-> FALSE, queue |-> <<start>>],
                   LAMBDA t : t.queue # << >> /\ ~t.refused,
                   LAMBDA t : LET vertex == Head(t.queue) IN
                       Each(Targets(g, vertex), [t EXCEPT !.queue = Tail(@)], LAMBDA to, r :
                           IF to \notin DOMAIN r.side
                           THEN [r EXCEPT !.side = Set(@, to, 1 - r.side[vertex]), !.queue = Append(@, to)]
                           ELSE [r EXCEPT !.refused = @ \/ r.side[to] = r.side[vertex]])))

(* Edges <<left, right>> by the indices of their ends on their sides. *)
LogicalEdgesOnSides(g, side) ==
    LET edges == SelectSeq(g.arcs, LAMBDA a : a[1] < a[2])
        Index(v) == Cardinality({ u \in 0 .. v - 1 : side[u] = side[v] })
    IN  [k \in DOMAIN edges |-> IF side[edges[k][1]] = 0 THEN <<Index(edges[k][1]), Index(edges[k][2])>>
                                ELSE <<Index(edges[k][2]), Index(edges[k][1])>>]

(* Dummy edges that fill every vertex to the greatest degree, added to the *)
(* buckets of the pairs, each with the edges of its pair.                  *)
Balanced(count, degree, edges) ==
    LET Deficit(side) == [v \in 0 .. count - 1 |-> degree - Len(SelectSeq(edges, LAMBDA e : e[side] = v))]
        Bucket(pair) == [edges |-> SelectSeq([k \in DOMAIN edges |-> k], LAMBDA k : edges[k] = pair), dummies |-> 0]
    IN  While([left |-> Deficit(1), right |-> Deficit(2), buckets |-> [pair \in ToSet(edges) |-> Bucket(pair)]],
              LAMBDA s : \E l, r \in 0 .. count - 1 : s.left[l] > 0 /\ s.right[r] > 0,
              LAMBDA s : LET l == Min({ v \in 0 .. count - 1 : s.left[v] > 0 })
                             r == Min({ v \in 0 .. count - 1 : s.right[v] > 0 })
                             copies == Min({s.left[l], s.right[r]})
                             old == IF <<l, r>> \in DOMAIN s.buckets THEN s.buckets[<<l, r>>]
                                    ELSE [edges |-> << >>, dummies |-> 0]
                         IN  [left |-> [s.left EXCEPT ![l] = @ - copies], right |-> [s.right EXCEPT ![r] = @ - copies],
                              buckets |-> Set(s.buckets, <<l, r>>, [old EXCEPT !.dummies = @ + copies])]).buckets

(* One color: a perfect matching of what is left, real edges first. *)
ColorRound(count, color, s) ==
    LET support == InOrder({ p \in DOMAIN s.buckets : s.buckets[p].edges # << >> \/ s.buckets[p].dummies > 0 }) IN
    Once(HopcroftKarp(count, support), LAMBDA matching :
        Each(Upto(count), s, LAMBDA l, t :
            LET pair == <<l, matching.left[l]>> IN
            IF t.buckets[pair].edges # << >>
            THEN [color |-> Set(t.color, Head(t.buckets[pair].edges), color),
                  buckets |-> [t.buckets EXCEPT ![pair].edges = Tail(@)]]
            ELSE [t EXCEPT !.buckets[pair].dummies = @ - 1]))

MinimumBipartiteEdgeColoring(g) ==
    IF g.directed THEN Refused
    ELSE Once(ComputeBipartition(g), LAMBDA sides :
         IF sides.refused THEN Refused
         ELSE Once(LogicalEdgesOnSides(g, sides.side), LAMBDA edges :
              LET On(side) == Cardinality({ v \in Vertices(g) : sides.side[v] = side })
                  Degree(v) == Cardinality({ i \in DOMAIN g.arcs : g.arcs[i][1] = v })
                  count == Max({On(0), On(1)})
                  degree == Max({ Degree(v) : v \in Vertices(g) })
              IN  IF edges = << >> THEN [colors |-> 0, color |-> << >>]
                  ELSE [colors |-> degree,
                        color |-> Each(Upto(degree),
                                       [color |-> << >>, buckets |-> Balanced(count, degree, edges)],
                                       LAMBDA color, s : ColorRound(count, color, s)).color]))
-----------------------------------------------------------------------------
(***************************************************************************)
(* max_flow.cpp.  The residual network of a list of edges                  *)
(* <<from, to, capacity, cost>>: for each vertex the list of its residual  *)
(* arcs, and for each edge where its arc stands, or nothing for a loop.    *)
(***************************************************************************)
ResidualArc(to, reverse, residual, cost) == [to |-> to, reverse |-> reverse, residual |-> residual, cost |-> cost]

AddResidualEdge(net, edge) ==
    LET from == edge[1]
        to == edge[2]
        forward == Len(net.adjacent[from]) + 1
        reverse == Len(net.adjacent[to]) + 1
    IN  IF from = to THEN [net EXCEPT !.at = Append(@, << >>)]
        ELSE [net EXCEPT !.at = Append(@, <<from, forward>>),
                         !.adjacent[from] = Append(@, ResidualArc(to, reverse, edge[3], edge[4])),
                         !.adjacent[to] = Append(@, ResidualArc(from, forward, 0, -edge[4]))]

ResidualNetwork(n, edges) ==
    Each(edges, [adjacent |-> [v \in 0 .. n - 1 |-> << >>], at |-> << >>],
         LAMBDA edge, net : AddResidualEdge(net, edge))

(* Flow is sent along a residual arc. *)
Sent(adjacent, from, index, amount) ==
    LET arc == adjacent[from][index] IN
    [adjacent EXCEPT ![from][index].residual = @ - amount,
                     ![arc.to][arc.reverse].residual = @ + amount]

Open(adjacent, vertex) == { arc \in ToSet(adjacent[vertex]) : arc.residual > 0 }

ResidualReachable(adjacent, source) ==
    Explored({source}, LAMBDA v : { arc.to : arc \in Open(adjacent, v) })

BuildLevels(adjacent, source) ==
    While([level |-> source :> 0, queue |-> <<source>>], LAMBDA s : s.queue # << >>,
          LAMBDA s : Each(adjacent[Head(s.queue)], [s EXCEPT !.queue = Tail(@)], LAMBDA arc, t :
              IF arc.residual > 0 /\ arc.to \notin DOMAIN t.level
              THEN [level |-> Set(t.level, arc.to, t.level[Head(s.queue)] + 1), queue |-> Append(t.queue, arc.to)]
              ELSE t)).level

(* One augmenting path below a vertex; cursors move over arcs that are of no use. *)
RECURSIVE SendFlow(_, _, _, _)
SendFlow(s, vertex, sink, limit) ==
    IF vertex = sink THEN [s EXCEPT !.pushed = limit]
    ELSE While([s EXCEPT !.pushed = 0],
               LAMBDA t : t.pushed = 0 /\ t.next[vertex] <= Len(t.adjacent[vertex]),
               LAMBDA t : LET arc == t.adjacent[vertex][t.next[vertex]]
                              usable == /\ arc.residual > 0
                                        /\ arc.to \in DOMAIN t.level
                                        /\ t.level[arc.to] = t.level[vertex] + 1
                          IN  Once(IF usable THEN SendFlow(t, arc.to, sink, Min({limit, arc.residual})) ELSE t, LAMBDA r :
                              IF r.pushed > 0
                              THEN [r EXCEPT !.adjacent = Sent(@, vertex, r.next[vertex], r.pushed)]
                              ELSE [r EXCEPT !.next[vertex] = @ + 1]))

(* One phase: paths are sent until none is left. *)
BlockingFlow(s, source, sink) ==
    While(SendFlow([s EXCEPT !.next = [v \in DOMAIN s.adjacent |-> 1]], source, sink, WeightMax),
          LAMBDA t : t.pushed > 0,
          LAMBDA t : SendFlow([t EXCEPT !.total = @ + t.pushed], source, sink, WeightMax))

(* The flow of each edge, and the cut of what the source still reaches. *)
FlowResult(n, edges, net, adjacent, source, value) ==
    Once(ResidualReachable(adjacent, source), LAMBDA side :
        IF value > WeightMax THEN Overflow
        ELSE [value |-> value, side |-> side,
              flow |-> [k \in DOMAIN edges |->
                           IF net.at[k] = << >> THEN 0
                           ELSE edges[k][3] - adjacent[net.at[k][1]][net.at[k][2]].residual]])

FlowRefused(edges, source, sink) == source = sink \/ \E k \in DOMAIN edges : edges[k][3] < 0

DinicMaxFlow(n, edges, source, sink) ==
    IF FlowRefused(edges, source, sink) THEN Refused
    ELSE Once(ResidualNetwork(n, edges), LAMBDA net :
         Once(While([adjacent |-> net.adjacent, total |-> 0, pushed |-> 0, next |-> << >>,
                     level |-> BuildLevels(net.adjacent, source)],
                    LAMBDA s : sink \in DOMAIN s.level,
                    LAMBDA s : Once(BlockingFlow(s, source, sink), LAMBDA t :
                                   [t EXCEPT !.level = BuildLevels(t.adjacent, source)])),
              LAMBDA s : FlowResult(n, edges, net, s.adjacent, source, s.total)))
-----------------------------------------------------------------------------
(***************************************************************************)
(* push_relabel_max_flow.hpp.  Excesses are exact; what is in the queue of *)
(* active vertices is marked in the code.                                  *)
(***************************************************************************)
EnqueueIfActive(s, vertex, source, sink) ==
    IF vertex \in {source, sink} \/ s.excess[vertex] = 0 \/ vertex \in ToSet(s.active) THEN s
    ELSE [s EXCEPT !.active = Append(@, vertex)]

Saturate(s, source, sink) ==
    Each(Upto(Len(s.adjacent[source])), s, LAMBDA k, t :
        LET arc == t.adjacent[source][k + 1] IN
        IF arc.residual = 0 THEN t
        ELSE EnqueueIfActive([t EXCEPT !.adjacent = Sent(@, source, k + 1, arc.residual),
                                       !.excess[arc.to] = @ + arc.residual], arc.to, source, sink))

PushExcess(s, from, source, sink) ==
    LET arc == s.adjacent[from][s.next[from]]
        amount == Min({s.excess[from], arc.residual})
        pushed == [s EXCEPT !.adjacent = Sent(@, from, s.next[from], amount), !.excess[from] = @ - amount]
        given == [pushed EXCEPT !.excess[arc.to] = @ + amount]
    IN  IF arc.to = source THEN pushed
        ELSE IF s.excess[arc.to] = 0 THEN EnqueueIfActive(given, arc.to, source, sink) ELSE given

Relabel(s, vertex) ==
    [s EXCEPT !.height[vertex] = 1 + Min({ s.height[arc.to] : arc \in Open(s.adjacent, vertex) }),
              !.next[vertex] = 1]

Discharge(s, vertex, source, sink) ==
    While(s, LAMBDA t : t.excess[vertex] # 0,
          LAMBDA t : IF t.next[vertex] > Len(t.adjacent[vertex]) THEN Relabel(t, vertex)
                     ELSE LET arc == t.adjacent[vertex][t.next[vertex]] IN
                          IF arc.residual > 0 /\ t.height[vertex] = t.height[arc.to] + 1
                          THEN PushExcess(t, vertex, source, sink)
                          ELSE [t EXCEPT !.next[vertex] = @ + 1])

PushRelabelMaxFlow(n, edges, source, sink) ==
    IF FlowRefused(edges, source, sink) THEN Refused
    ELSE Once(ResidualNetwork(n, edges), LAMBDA net :
         Once(While(Saturate([adjacent |-> net.adjacent, excess |-> [v \in 0 .. n - 1 |-> 0],
                              height |-> [v \in 0 .. n - 1 |-> IF v = source THEN n ELSE 0],
                              next |-> [v \in 0 .. n - 1 |-> 1], active |-> << >>], source, sink),
                    LAMBDA s : s.active # << >>,
                    LAMBDA s : Discharge([s EXCEPT !.active = Tail(@)], Head(s.active), source, sink)),
              LAMBDA s : FlowResult(n, edges, net, s.adjacent, source, s.excess[sink])))
-----------------------------------------------------------------------------
(***************************************************************************)
(* gomory_hu_tree.cpp                                                      *)
(***************************************************************************)
DirectedCapacityNetwork(edges) ==
    FlattenSeq([k \in DOMAIN edges |->
        IF edges[k][1] = edges[k][2] THEN << >>
        ELSE <<<<edges[k][1], edges[k][2], edges[k][3], 0>>, <<edges[k][2], edges[k][1], edges[k][3], 0>>>>])

GomoryHuStep(n, directed, source, s) ==
    LET sink == s.parent[source] IN
    Once(DinicMaxFlow(n, directed, source, sink), LAMBDA flow :
        IF flow = Overflow THEN [s EXCEPT !.overflow = TRUE]
        ELSE LET moved == [v \in 0 .. n - 1 |-> IF v > source /\ s.parent[v] = sink /\ v \in flow.side
                                                THEN source ELSE s.parent[v]]
             IN  IF sink # 0 /\ moved[sink] \in flow.side
                 THEN [s EXCEPT !.parent = [moved EXCEPT ![source] = moved[sink], ![sink] = source],
                                !.cut = [s.cut EXCEPT ![source] = s.cut[sink], ![sink] = flow.value]]
                 ELSE [s EXCEPT !.parent = moved, !.cut[source] = flow.value])

BuildGomoryHuTree(n, edges) ==
    IF \E k \in DOMAIN edges : edges[k][3] < 0 THEN Refused
    ELSE Once(DirectedCapacityNetwork(edges), LAMBDA directed :
         Once(Each(Upto(n), [parent |-> [v \in 0 .. n - 1 |-> 0], cut |-> [v \in 0 .. n - 1 |-> 0], overflow |-> FALSE],
                   LAMBDA source, s : IF source = 0 \/ s.overflow THEN s ELSE GomoryHuStep(n, directed, source, s)),
              LAMBDA s : IF s.overflow THEN Overflow ELSE [parent |-> s.parent, cut |-> s.cut]))

(* The least capacity on the way through the tree. *)
MinCut(tree, first, second) ==
    Once(While([least |-> first :> WeightMax, queue |-> <<first>>],
               LAMBDA s : second \notin DOMAIN s.least,
               LAMBDA s : LET vertex == Head(s.queue)
                              ups == IF vertex = 0 THEN {} ELSE {<<tree.parent[vertex], tree.cut[vertex]>>}
                              downs == { <<v, tree.cut[v]>> : v \in { u \in DOMAIN tree.parent : u # 0 /\ tree.parent[u] = vertex } }
                          IN  Each(InOrder(ups \cup downs), [s EXCEPT !.queue = Tail(@)], LAMBDA to, t :
                                  IF to[1] \in DOMAIN t.least THEN t
                                  ELSE [least |-> Set(t.least, to[1], Min({t.least[vertex], to[2]})),
                                        queue |-> Append(t.queue, to[1])])),
         LAMBDA s : s.least[second])

SideIsLess(n, first, second) ==
    \E v \in 0 .. n - 1 : v \notin first /\ v \in second /\ \A u \in 0 .. v - 1 : (u \in first) = (u \in second)

NormalizedSide(n, members) == IF 0 \in members THEN (0 .. n - 1) \ members ELSE members

(* The order in which the active vertices of a phase are added: the most *)
(* connected one first, the least of them.                               *)
PhaseOrder(s) ==
    Each(Listed(s.active), << >>, LAMBDA unused, order :
        LET Connection(v) == Each(order, 0, LAMBDA u, sum : sum + s.weight[u, v])
            left == s.active \ ToSet(order)
            most == Max({ Connection(v) : v \in left })
        IN  Append(order, Min({ v \in left : Connection(v) = most })))

StoerWagnerPhase(n, s) ==
    Once(PhaseOrder(s), LAMBDA order :
        LET selected == Last(order)
            previous == Last(Front(order))
            cut == Each(Front(order), 0, LAMBDA u, sum : sum + s.weight[u, selected])
            side == NormalizedSide(n, s.members[selected])
            better == s.best = << >> \/ cut < s.best[1] \/ (cut = s.best[1] /\ SideIsLess(n, side, s.best[2]))
            Merged(u, v) == CASE u = previous /\ v \notin {previous, selected} -> s.weight[previous, v] + s.weight[selected, v]
                              [] v = previous /\ u \notin {previous, selected} -> s.weight[u, previous] + s.weight[u, selected]
                              [] OTHER -> s.weight[u, v]
        IN  [active |-> s.active \ {selected},
             members |-> [s.members EXCEPT ![previous] = @ \cup s.members[selected], ![selected] = {}],
             weight |-> Each(InOrder(DOMAIN s.weight), << >>, LAMBDA p, w : Set(w, p, Merged(p[1], p[2]))),
             best |-> IF better THEN <<cut, side>> ELSE s.best])

(* The total is a wide word, so no sum of a part of it overflows. *)
StoerWagnerGlobalMinCut(n, edges) ==
    IF \E k \in DOMAIN edges : edges[k][3] < 0 THEN Refused
    ELSE IF n < 2 THEN Nothing
    ELSE LET proper == SelectSeq(edges, LAMBDA e : e[1] # e[2])
             Between2(u, v) == Each(proper, 0, LAMBDA e, sum : IF {e[1], e[2]} = {u, v} THEN sum + e[3] ELSE sum)
         IN  IF Each(proper, 0, LAMBDA e, sum : sum + e[3]) > WideMax THEN Overflow
             ELSE Once(Each(InOrder((0 .. n - 1) \X (0 .. n - 1)), << >>, LAMBDA p, w : Set(w, p, Between2(p[1], p[2]))),
                  LAMBDA weight :
                  Once(While([active |-> 0 .. n - 1, members |-> [v \in 0 .. n - 1 |-> {v}], weight |-> weight, best |-> << >>],
                             LAMBDA s : Cardinality(s.active) > 1, LAMBDA s : StoerWagnerPhase(n, s)),
                       LAMBDA s : [weight |-> s.best[1], side |-> s.best[2]]))
-----------------------------------------------------------------------------
(***************************************************************************)
(* min_cost_flow.cpp.  A checked operation whose result does not fit sets  *)
(* overflow, which decides what is returned.                               *)
(***************************************************************************)
CheckFits(s, numbers) == IF \A x \in numbers : Fits(x) THEN s ELSE [s EXCEPT !.overflow = TRUE]

Smaller(distance, vertex, candidate) == vertex \notin DOMAIN distance \/ candidate < distance[vertex]

FlatArcs(adjacent) ==
    FlattenSeq([i \in 1 .. Cardinality(DOMAIN adjacent) |->
        [k \in DOMAIN adjacent[i - 1] |-> <<i - 1, k, adjacent[i - 1][k]>>]])

(* Passes over all open arcs until nothing changes; a change in the last one is a negative cycle. *)
FeasiblePotentials(s) ==
    LET n == Cardinality(DOMAIN s.adjacent)
        open == SelectSeq(FlatArcs(s.adjacent), LAMBDA a : a[3].residual > 0)
        Pass(t) == Each(open, [t EXCEPT !.changed = FALSE, !.pass = @ + 1], LAMBDA a, r :
                       LET candidate == r.potential[a[1]] + a[3].cost IN
                       IF r.overflow \/ r.negative THEN r
                       ELSE IF ~Fits(candidate) THEN [r EXCEPT !.overflow = TRUE]
                       ELSE IF candidate < r.potential[a[3].to]
                       THEN [r EXCEPT !.potential[a[3].to] = candidate, !.changed = TRUE, !.negative = r.pass = n]
                       ELSE r)
    IN  While([s EXCEPT !.potential = [v \in DOMAIN s.adjacent |-> 0], !.changed = TRUE, !.pass = 0],
              LAMBDA t : t.changed /\ t.pass < n /\ ~t.overflow, LAMBDA t : Pass(t))

(* Dijkstra over reduced costs. *)
ReducedDijkstra(s, source) ==
    While([s EXCEPT !.distance = source :> 0, !.parent = << >>, !.queue = {<<0, source>>}],
          LAMBDA t : t.queue # {} /\ ~t.overflow,
          LAMBDA t : Once(Least(t.queue), LAMBDA current :
              LET vertex == current[2]
                  rest == [t EXCEPT !.queue = @ \ {current}]
              IN  IF current[1] # t.distance[vertex] THEN rest
                  ELSE Each(Upto(Len(t.adjacent[vertex])), rest, LAMBDA k, r :
                      LET arc == r.adjacent[vertex][k + 1]
                          raised == arc.cost + r.potential[vertex]
                          reduced == raised - r.potential[arc.to]
                          candidate == current[1] + reduced
                      IN  IF arc.residual <= 0 \/ r.overflow THEN r
                          ELSE IF ~Smaller(r.distance, arc.to, candidate) THEN CheckFits(r, {raised, reduced, candidate})
                          ELSE CheckFits([r EXCEPT !.distance = Set(@, arc.to, candidate),
                                                   !.parent = Set(@, arc.to, <<vertex, k + 1>>),
                                                   !.queue = @ \cup {<<candidate, arc.to>>}],
                                         {raised, reduced, candidate}))))

(* The arcs of the path that was found, from the sink back. *)
PathBack(parent, source, sink) ==
    While([at |-> sink, steps |-> << >>], LAMBDA p : p.at # source,
          LAMBDA p : [at |-> parent[p.at][1], steps |-> Append(p.steps, parent[p.at])]).steps

(* checked_flow_cost_product throws a std::logic_error for the least cost. *)
CostRejected == [logic_error |-> TRUE]

AugmentCheapest(s, source, sink) ==
    Once([v \in DOMAIN s.potential |-> IF v \in DOMAIN s.distance THEN s.potential[v] + s.distance[v] ELSE s.potential[v]],
    LAMBDA potential : Once(PathBack(s.parent, source, sink), LAMBDA path :
        LET Arc(step) == s.adjacent[step[1]][step[2]]
            amount == Min({ Arc(path[k]).residual : k \in DOMAIN path })
            Cost(k) == Each(SubSeq(path, 1, k), 0, LAMBDA step, sum : sum + Arc(step).cost)
        IN  CheckFits([s EXCEPT !.potential = potential, !.flow = @ + amount, !.cost = @ + amount * Cost(Len(path)),
                                !.adjacent = Each(path, @, LAMBDA step, a : Sent(a, step[1], step[2], amount)),
                                !.rejected = Cost(Len(path)) = -WeightMax - 1],
                      { potential[v] : v \in DOMAIN potential } \cup { Cost(k) : k \in DOMAIN path }
                      \cup IF Cost(Len(path)) = -WeightMax - 1 THEN {}
                           ELSE {s.flow + amount, amount * Cost(Len(path)), s.cost + amount * Cost(Len(path))})))

(* The replay of the result, and the potentials of the residual network left over. *)
MinCostResult(n, edges, net, s, source) ==
    Once(FlowResult(n, edges, net, s.adjacent, source, s.flow), LAMBDA flow :
    Once(FeasiblePotentials(s), LAMBDA f :
        LET Replayed(k) == Each(Upto(k), 0, LAMBDA j, sum : sum + flow.flow[j + 1] * edges[j + 1][4])
            open == SelectSeq(FlatArcs(s.adjacent), LAMBDA a : a[3].residual > 0)
            raised == { a[3].cost + f.potential[a[1]] : a \in ToSet(open) }
            Balance(v, k) == Each(Upto(k), 0, LAMBDA j, sum :
                                 IF edges[j + 1][1] = edges[j + 1][2] THEN sum
                                 ELSE IF edges[j + 1][1] = v THEN sum - flow.flow[j + 1]
                                 ELSE IF edges[j + 1][2] = v THEN sum + flow.flow[j + 1] ELSE sum)
            reduced == { (a[3].cost + f.potential[a[1]]) - f.potential[a[3].to] : a \in ToSet(open) }
        IN  IF f.overflow \/ ~\A x \in { Replayed(k) : k \in DOMAIN edges } \cup raised \cup reduced
                                    \cup { Balance(v, k) : v \in 0 .. n - 1, k \in DOMAIN edges } : Fits(x)
            THEN Overflow
            ELSE [value |-> flow.value, side |-> flow.side, flow |-> flow.flow, cost |-> s.cost, potential |-> f.potential]))

MinCostMaxFlow(n, edges, source, sink) ==
    IF FlowRefused(edges, source, sink) \/ \E k \in DOMAIN edges :
          edges[k][4] = -WeightMax - 1 \/ (edges[k][1] = edges[k][2] /\ edges[k][3] > 0 /\ edges[k][4] < 0)
    THEN Refused
    ELSE Once(ResidualNetwork(n, edges), LAMBDA net :
         Once(FeasiblePotentials([adjacent |-> net.adjacent, potential |-> << >>, changed |-> FALSE, pass |-> 0,
                                  negative |-> FALSE, overflow |-> FALSE, distance |-> << >>, parent |-> << >>,
                                  queue |-> {}, flow |-> 0, cost |-> 0, rejected |-> FALSE]), LAMBDA start :
         IF start.overflow THEN Overflow
         ELSE IF start.negative THEN Refused
         ELSE Once(While(ReducedDijkstra(start, source), LAMBDA s : sink \in DOMAIN s.distance /\ ~s.overflow /\ ~s.rejected,
                         LAMBDA s : Once(AugmentCheapest(s, source, sink), LAMBDA t :
                                        IF t.overflow \/ t.rejected THEN t ELSE ReducedDijkstra(t, source))),
                   LAMBDA s : IF s.overflow THEN Overflow ELSE IF s.rejected THEN CostRejected ELSE MinCostResult(n, edges, net, s, source))))
-----------------------------------------------------------------------------
(***************************************************************************)
(* min_cost_circulation.cpp.  Edges are <<from, to, lower, upper, cost>>.  *)
(***************************************************************************)
(* The sums of the beginnings of a list, and whether numbers are all representable. *)
Tally(list) == [k \in DOMAIN list |-> Each(SubSeq(list, 1, k), 0, LAMBDA x, sum : sum + x)]
AllFit(list) == \A k \in DOMAIN list : Fits(list[k])

BuildResidual(edges, flow) ==
    FlattenSeq([k \in DOMAIN edges |->
        (IF edges[k][4] > flow[k]
         THEN <<[from |-> edges[k][1], to |-> edges[k][2], edge |-> k, sign |-> 1,
                 residual |-> edges[k][4] - flow[k], cost |-> edges[k][5]]>> ELSE << >>)
        \o (IF flow[k] > edges[k][3]
            THEN <<[from |-> edges[k][2], to |-> edges[k][1], edge |-> k, sign |-> -1,
                    residual |-> flow[k] - edges[k][3], cost |-> -edges[k][5]]>> ELSE << >>)])

(* Passes of Bellman-Ford from everywhere; the vertex the last of n passes improved, if any. *)
CirculationPasses(n, arcs) ==
    While([distance |-> [v \in 0 .. n - 1 |-> 0], parent |-> << >>, updated |-> 0, pass |-> 0, overflow |-> FALSE],
          LAMBDA s : s.pass < n /\ s.updated # NoVertex /\ ~s.overflow,
          LAMBDA s : Each(Upto(Len(arcs)), [s EXCEPT !.updated = NoVertex, !.pass = @ + 1], LAMBDA k, t :
              LET arc == arcs[k + 1]
                  candidate == t.distance[arc.from] + arc.cost
              IN  IF candidate < t.distance[arc.to]
                  THEN CheckFits([t EXCEPT !.distance[arc.to] = candidate, !.parent = Set(@, arc.to, k + 1),
                                           !.updated = arc.to], {candidate})
                  ELSE CheckFits(t, {candidate})))

FindNegativeCycle(n, edges, flow) ==
    Once(BuildResidual(edges, flow), LAMBDA arcs : Once(CirculationPasses(n, arcs), LAMBDA s :
        IF s.overflow THEN Overflow
        ELSE IF s.updated = NoVertex THEN [cycle |-> << >>, arcs |-> arcs, potential |-> s.distance]
        ELSE LET Before(v) == arcs[s.parent[v]].from
                 inside == Each(Upto(n), s.updated, LAMBDA step, v : Before(v))
             IN  Once(While(<<s.parent[inside]>>, LAMBDA c : arcs[Last(c)].from # inside,
                            LAMBDA c : Append(c, s.parent[arcs[Last(c)].from])), LAMBDA cycle :
                     IF ~AllFit(Tally([k \in DOMAIN cycle |-> arcs[cycle[k]].cost])) THEN Overflow
                     ELSE [cycle |-> cycle, arcs |-> arcs, potential |-> s.distance])))

AroundCycle(search, flow) ==
    LET amount == Min({ search.arcs[search.cycle[k]].residual : k \in DOMAIN search.cycle }) IN
    Each(search.cycle, flow, LAMBDA c, f : [f EXCEPT ![search.arcs[c].edge] = @ + search.arcs[c].sign * amount])

(* What every vertex still needs once all the lower bounds flow, step by step. *)
NeedAfter(edges, demand) ==
    Each(edges, [need |-> demand, overflow |-> FALSE], LAMBDA e, s :
        IF e[1] = e[2] THEN s
        ELSE CheckFits([s EXCEPT !.need[e[2]] = @ - e[3], !.need[e[1]] = @ + e[3]],
                       {s.need[e[2]] - e[3], s.need[e[1]] + e[3]}))

FeasibilityEdges(n, edges, need) ==
    [k \in DOMAIN edges |-> <<edges[k][1], edges[k][2], edges[k][4] - edges[k][3], 0>>]
    \o FlattenSeq([i \in 1 .. n |->
           CASE need[i - 1] < 0 -> <<<<n, i - 1, -need[i - 1], 0>>>>
             [] need[i - 1] > 0 -> <<<<i - 1, n + 1, need[i - 1], 0>>>>
             [] OTHER -> << >>])

(* The replay of the flow and its cost. *)
VerifyAndCost(n, edges, flow, potential) ==
    LET costs == Tally([k \in DOMAIN edges |-> flow[k] * edges[k][5]])
        Net(v) == Tally(FlattenSeq([k \in DOMAIN edges |-> (IF edges[k][2] = v THEN <<flow[k]>> ELSE << >>)
                                                           \o (IF edges[k][1] = v THEN <<-flow[k]>> ELSE << >>)]))
        arcs == BuildResidual(edges, flow)
        raised == [k \in DOMAIN arcs |-> arcs[k].cost + potential[arcs[k].from]]
    IN  IF /\ AllFit([k \in DOMAIN edges |-> flow[k] * edges[k][5]]) /\ AllFit(costs)
           /\ \A v \in 0 .. n - 1 : AllFit(Net(v))
           /\ AllFit(raised) /\ AllFit([k \in DOMAIN arcs |-> raised[k] - potential[arcs[k].to]])
        THEN [cost |-> IF edges = << >> THEN 0 ELSE Last(costs), flow |-> flow, potential |-> potential]
        ELSE Overflow

MinCostCirculation(n, edges, demand) ==
    LET demands == Tally([i \in 1 .. n |-> demand[i - 1]]) IN
    IF ~AllFit(demands) THEN Overflow
    ELSE IF (n > 0 /\ demands[n] # 0) \/ \E k \in DOMAIN edges :
               edges[k][3] < 0 \/ edges[k][4] < edges[k][3] \/ edges[k][5] = -WeightMax - 1 THEN Refused
    ELSE IF n = 0 THEN [cost |-> 0, flow |-> << >>, potential |-> << >>]
    ELSE Once(NeedAfter(edges, demand), LAMBDA s :
         LET positive == [i \in 1 .. n |-> Max({s.need[i - 1], 0})] IN
         IF s.overflow \/ -WeightMax - 1 \in { s.need[v] : v \in 0 .. n - 1 } \/ ~AllFit(Tally(positive)) THEN Overflow
         ELSE Once(DinicMaxFlow(n + 2, FeasibilityEdges(n, edges, s.need), n, n + 1), LAMBDA feasible :
              IF feasible = Overflow THEN Overflow
              ELSE IF feasible.value # Last(Tally(positive)) THEN Nothing
              ELSE Once([k \in DOMAIN edges |-> edges[k][3] + feasible.flow[k]], LAMBDA first :
                   Once(While([flow |-> first, search |-> FindNegativeCycle(n, edges, first)],
                              LAMBDA t : t.search # Overflow /\ t.search.cycle # << >>,
                              LAMBDA t : Once(AroundCycle(t.search, t.flow), LAMBDA flow :
                                             [flow |-> flow, search |-> FindNegativeCycle(n, edges, flow)])),
                        LAMBDA t : IF t.search = Overflow THEN Overflow
                                   ELSE VerifyAndCost(n, edges, t.flow, t.search.potential)))))
-----------------------------------------------------------------------------
(***************************************************************************)
(* directed_arborescence.cpp.  An exact integer has a sign and limbs, the  *)
(* lowest first; the magnitude of a word takes at most two of them.        *)
(***************************************************************************)
LimbBase == CHOOSE base \in 1 .. WeightMax + 1 : base * base = WideMax + 1

ExactOf(value) ==
    LET magnitude == IF value < 0 THEN -value ELSE value
        high == magnitude \div LimbBase
    IN  [negative |-> value < 0,
         limbs |-> CASE value = 0 -> << >>
                     [] high # 0 -> <<magnitude % LimbBase, high>>
                     [] OTHER -> <<magnitude>>]

CompareMagnitude(a, b) ==
    IF Len(a) # Len(b) THEN (IF Len(a) < Len(b) THEN -1 ELSE 1)
    ELSE LET different == { k \in DOMAIN a : a[k] # b[k] } IN
         IF different = {} THEN 0 ELSE IF a[Max(different)] < b[Max(different)] THEN -1 ELSE 1

LimbAt(limbs, k) == IF k \in DOMAIN limbs THEN limbs[k] ELSE 0

AddMagnitude(a, b) ==
    Once(Each([k \in 1 .. Max({Len(a), Len(b)}) |-> k], [limbs |-> << >>, carry |-> 0], LAMBDA k, s :
             LET sum == LimbAt(a, k) + LimbAt(b, k) + s.carry IN
             [limbs |-> Append(s.limbs, sum % LimbBase), carry |-> sum \div LimbBase]),
         LAMBDA s : IF s.carry # 0 THEN Append(s.limbs, s.carry) ELSE s.limbs)

SubtractMagnitude(larger, smaller) ==
    Each([k \in DOMAIN larger |-> k], [limbs |-> << >>, borrow |-> 0], LAMBDA k, s :
        LET right == LimbAt(smaller, k) + s.borrow IN
        IF larger[k] >= right THEN [limbs |-> Append(s.limbs, larger[k] - right), borrow |-> 0]
        ELSE [limbs |-> Append(s.limbs, LimbBase + larger[k] - right), borrow |-> 1]).limbs

Normalized(negative, limbs) ==
    LET used == { k \in DOMAIN limbs : limbs[k] # 0 } IN
    [negative |-> negative /\ used # {}, limbs |-> IF used = {} THEN << >> ELSE SubSeq(limbs, 1, Max(used))]

ExactSum(a, b) ==
    IF a.negative = b.negative THEN Normalized(a.negative, AddMagnitude(a.limbs, b.limbs))
    ELSE CASE CompareMagnitude(a.limbs, b.limbs) = 0 -> ExactOf(0)
           [] CompareMagnitude(a.limbs, b.limbs) > 0 -> Normalized(a.negative, SubtractMagnitude(a.limbs, b.limbs))
           [] OTHER -> Normalized(b.negative, SubtractMagnitude(b.limbs, a.limbs))

ExactDifference(a, b) == ExactSum(a, [b EXCEPT !.negative = b.limbs # << >> /\ ~@])

ExactLess(a, b) ==
    IF a.negative # b.negative THEN a.negative
    ELSE IF a.negative THEN CompareMagnitude(a.limbs, b.limbs) > 0
    ELSE CompareMagnitude(a.limbs, b.limbs) < 0

(* The word of an exact integer. *)
WordOf(a) ==
    LET magnitude == LimbAt(a.limbs, 1) + LimbBase * LimbAt(a.limbs, 2) IN
    IF Len(a.limbs) > 2 \/ magnitude > WeightMax + (IF a.negative THEN 1 ELSE 0) THEN Overflow
    ELSE [word |-> IF a.negative THEN -magnitude ELSE magnitude]

EdgeIsBetter(candidate, current) ==
    \/ ExactLess(candidate.cost, current.cost)
    \/ ~ExactLess(current.cost, candidate.cost) /\ candidate.original < current.original

(* The best edge into each vertex but the root. *)
BestIncoming(root, edges) ==
    Each([k \in DOMAIN edges |-> k], << >>, LAMBDA k, incoming :
        IF edges[k].from = edges[k].to \/ edges[k].to = root THEN incoming
        ELSE IF edges[k].to \notin DOMAIN incoming \/ EdgeIsBetter(edges[k], edges[incoming[edges[k].to]])
             THEN Set(incoming, edges[k].to, k) ELSE incoming)

(* The cycles of the best edges are components, numbered as they are found. *)
CycleComponents(n, root, edges, incoming) ==
    LET Before(v) == edges[incoming[v]].from IN
    Each(Upto(n), [component |-> << >>, count |-> 0], LAMBDA start, s :
        Once(While([at |-> start, seen |-> {}],
                   LAMBDA w : w.at # root /\ w.at \notin w.seen \cup DOMAIN s.component,
                   LAMBDA w : [at |-> Before(w.at), seen |-> w.seen \cup {w.at}]),
             LAMBDA w : IF w.at \notin w.seen THEN s
                        ELSE [component |-> [v \in Explored({w.at}, LAMBDA u : {Before(u)}) |-> s.count] @@ s.component,
                              count |-> s.count + 1]))

ContractedEdges(root, edges, incoming, component) ==
    Each([k \in DOMAIN edges |-> k], << >>, LAMBDA k, contracted :
        LET edge == edges[k] IN
        IF component[edge.from] = component[edge.to] THEN contracted
        ELSE Append(contracted,
                    [from |-> component[edge.from], to |-> component[edge.to], original |-> edge.original, parent |-> k,
                     cost |-> IF edge.to = root THEN edge.cost
                              ELSE ExactDifference(edge.cost, edges[incoming[edge.to]].cost)]))

(* The edge chosen into each vertex but the root. *)
RECURSIVE SolveLevel(_, _, _)
SolveLevel(n, root, edges) ==
    Once(BestIncoming(root, edges), LAMBDA incoming :
    Once(CycleComponents(n, root, edges, incoming), LAMBDA cycles :
        IF cycles.count = 0 THEN incoming
        ELSE Once(Each(Upto(n), cycles, LAMBDA v, s :
                      IF v \in DOMAIN s.component THEN s
                      ELSE [component |-> Set(s.component, v, s.count), count |-> s.count + 1]), LAMBDA all :
             Once(ContractedEdges(root, edges, incoming, all.component), LAMBDA contracted :
             Once(SolveLevel(all.count, all.component[root], contracted), LAMBDA selected :
                 Each(Ascending(DOMAIN selected), incoming, LAMBDA c, chosen :
                     LET parent == contracted[selected[c]].parent IN Set(chosen, edges[parent].to, parent)))))))

(* Edges are <<from, to, cost>>. *)
MinimumArborescence(n, edges, root) ==
    IF Explored({root}, LAMBDA v : { edges[k][2] : k \in { j \in DOMAIN edges : edges[j][1] = v } }) # 0 .. n - 1 THEN Refused
    ELSE Once(SolveLevel(n, root,
                  FlattenSeq([k \in DOMAIN edges |->
                      IF edges[k][1] = edges[k][2] THEN << >>
                      ELSE <<[from |-> edges[k][1], to |-> edges[k][2], cost |-> ExactOf(edges[k][3]), original |-> k, parent |-> k]>>])),
         LAMBDA selected :
         LET proper == SelectSeq([k \in DOMAIN edges |-> k], LAMBDA k : edges[k][1] # edges[k][2]) IN
         Once([v \in DOMAIN selected |-> proper[selected[v]]], LAMBDA incoming :
         Once(WordOf(Each(Ascending(DOMAIN incoming), ExactOf(0), LAMBDA v, sum : ExactSum(sum, ExactOf(edges[incoming[v]][3])))),
              LAMBDA total : IF total = Overflow THEN Overflow ELSE [total |-> total.word, incoming |-> incoming])))
-----------------------------------------------------------------------------
(***************************************************************************)
(* minimum_mean_cycle.cpp                                                  *)
(***************************************************************************)
Sign(number) == CASE number < 0 -> -1 [] number > 0 -> 1 [] OTHER -> 0

(* Positive fractions are compared by their quotients, then by the         *)
(* reciprocals of what is left of them.                                    *)
RECURSIVE ComparePositiveFraction(_, _, _, _)
ComparePositiveFraction(a, b, c, d) ==
    LET first == a % b
        second == c % d
    IN  IF a \div b # c \div d THEN Sign(a \div b - c \div d)
        ELSE IF first = 0 \/ second = 0 THEN Sign(first) - Sign(second)
        ELSE -ComparePositiveFraction(b, first, d, second)

CompareFraction(a, b) ==
    CASE a[1] < 0 /\ b[1] >= 0 -> -1
      [] a[1] >= 0 /\ b[1] < 0 -> 1
      [] a[1] < 0 /\ b[1] < 0 -> -ComparePositiveFraction(-a[1], a[2], -b[1], b[2])
      [] OTHER -> ComparePositiveFraction(a[1], a[2], b[1], b[2])

RECURSIVE Gcd(_, _)
Gcd(a, b) == IF b = 0 THEN a ELSE Gcd(b, a % b)

ReduceRatio(ratio) ==
    LET divisor == Gcd(Max({ratio[1], -ratio[1]}), ratio[2])
        magnitude == Max({ratio[1], -ratio[1]}) \div divisor
    IN  <<IF ratio[1] < 0 THEN -magnitude ELSE magnitude, ratio[2] \div divisor>>

(* The least weights of walks of 0 .. n arcs that end in each vertex. *)
WalkDistances(g) ==
    Each(Upto(g.n), [rows |-> <<[v \in Vertices(g) |-> 0]>>, overflow |-> FALSE], LAMBDA length, s :
        Once(Each(g.arcs, [row |-> << >>, overflow |-> s.overflow], LAMBDA arc, t :
                 IF arc[1] \notin DOMAIN Last(s.rows) THEN t
                 ELSE LET candidate == Last(s.rows)[arc[1]] + arc[3] IN
                      CheckFits(IF Smaller(t.row, arc[2], candidate) THEN [t EXCEPT !.row = Set(@, arc[2], candidate)] ELSE t,
                                {candidate})),
             LAMBDA t : [rows |-> Append(s.rows, t.row), overflow |-> t.overflow]))

(* The largest mean from a shorter walk to the walk of n arcs, the first of them. *)
VertexMaximum(n, rows, vertex) ==
    Each(Upto(n), << >>, LAMBDA length, best :
        IF vertex \notin DOMAIN rows[length + 1] THEN best
        ELSE LET candidate == <<rows[n + 1][vertex] - rows[length + 1][vertex], n - length>> IN
             IF best = << >> \/ CompareFraction(candidate, best) > 0 THEN candidate ELSE best)

BestRatio(n, rows) ==
    Each(Ascending(DOMAIN rows[n + 1]), << >>, LAMBDA vertex, best :
        Once(VertexMaximum(n, rows, vertex), LAMBDA maximum :
            IF best = << >> \/ CompareFraction(maximum, best) < 0 THEN maximum ELSE best))

(* n - 1 passes over the shifted arcs, or until nothing changes. *)
ShiftedPotentials(g, shifted) ==
    While([potential |-> [v \in Vertices(g) |-> 0], changed |-> TRUE, pass |-> 1, overflow |-> FALSE],
          LAMBDA s : s.changed /\ s.pass < g.n,
          LAMBDA s : Each([k \in DOMAIN g.arcs |-> k], [s EXCEPT !.changed = FALSE, !.pass = @ + 1], LAMBDA k, t :
              LET candidate == t.potential[g.arcs[k][1]] + shifted[k] IN
              CheckFits(IF candidate < t.potential[g.arcs[k][2]]
                        THEN [t EXCEPT !.potential[g.arcs[k][2]] = candidate, !.changed = TRUE] ELSE t, {candidate})))

(* The first cycle of the arcs with nothing left of their cost. *)
ZeroCycleStep(g, zero, s) ==
    LET vertex == Last(s.stack)[1]
        out == SelectSeq(zero, LAMBDA k : g.arcs[k][1] = vertex)
        next == Last(s.stack)[2]
    IN  IF next > Len(out) THEN [s EXCEPT !.color[vertex] = 2, !.stack = Front(@)]
        ELSE LET edge == out[next]
                 to == g.arcs[edge][2]
                 moved == [s EXCEPT !.stack[Len(s.stack)][2] = @ + 1]
             IN  CASE s.color[to] = 0 -> [moved EXCEPT !.parent = Set(@, to, edge), !.color[to] = 1,
                                                       !.stack = Append(@, <<to, 1>>)]
                   [] s.color[to] = 1 ->
                        [moved EXCEPT !.cycle =
                            While([at |-> vertex, arcs |-> <<edge>>], LAMBDA p : p.at # to,
                                  LAMBDA p : [at |-> g.arcs[s.parent[p.at]][1], arcs |-> <<s.parent[p.at]>> \o p.arcs]).arcs]
                   [] OTHER -> moved

ZeroCycle(g, zero) ==
    Each(Upto(g.n), [color |-> [v \in Vertices(g) |-> 0], parent |-> << >>, stack |-> << >>, cycle |-> << >>],
         LAMBDA start, s :
             IF s.cycle # << >> \/ s.color[start] # 0 THEN s
             ELSE While([s EXCEPT !.color[start] = 1, !.stack = <<<<start, 1>>>>],
                        LAMBDA t : t.stack # << >> /\ t.cycle = << >>, LAMBDA t : ZeroCycleStep(g, zero, t))).cycle

MinimumMeanCycle(g) ==
    IF ~g.directed THEN Refused
    ELSE IF g.n = 0 THEN Nothing
    ELSE Once(WalkDistances(g), LAMBDA walks :
         LET differences == { walks.rows[g.n + 1][q[2]] - walks.rows[q[1]][q[2]] :
                              q \in { r \in (1 .. g.n) \X DOMAIN walks.rows[g.n + 1] : r[2] \in DOMAIN walks.rows[r[1]] } }
         IN
         IF walks.overflow \/ ~\A x \in differences : Fits(x) THEN Overflow
         ELSE IF DOMAIN walks.rows[g.n + 1] = {} THEN Nothing
         ELSE Once(ReduceRatio(BestRatio(g.n, walks.rows)), LAMBDA ratio :
              Once([k \in DOMAIN g.arcs |-> g.arcs[k][3] * ratio[2] - ratio[1]], LAMBDA shifted :
              Once(ShiftedPotentials(g, shifted), LAMBDA s :
              LET Raised(k) == shifted[k] + s.potential[g.arcs[k][1]]
                  Reduced(k) == Raised(k) - s.potential[g.arcs[k][2]]
              IN
              IF s.overflow \/ ~\A k \in DOMAIN g.arcs : Fits(g.arcs[k][3] * ratio[2]) /\ Fits(shifted[k]) /\ Fits(Raised(k)) /\ Fits(Reduced(k))
              THEN Overflow
              ELSE Once(ZeroCycle(g, SelectSeq([k \in DOMAIN g.arcs |-> k], LAMBDA k : Reduced(k) = 0)), LAMBDA cycle :
                   LET weights == Tally([k \in DOMAIN cycle |-> g.arcs[cycle[k]][3]]) IN
                   IF ~AllFit(weights) \/ ~AllFit(Tally([k \in DOMAIN cycle |-> shifted[cycle[k]]])) THEN Overflow
                   ELSE [ratio |-> ratio, weight |-> Last(weights), cycle |-> cycle])))))
=============================================================================
