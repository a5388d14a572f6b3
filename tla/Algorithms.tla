---------------------------- MODULE Algorithms -----------------------------
(***************************************************************************)
(* Calls of the algorithms that read their arguments and return an answer: *)
(* a task, one of its inputs and, after the call, what it returned, and    *)
(* for every task what it should have returned, from definitions.          *)
(***************************************************************************)
EXTENDS CombinatorialAlgorithms

CONSTANTS Tasks

VARIABLES task, input, answer
vars == <<task, input, answer>>
-----------------------------------------------------------------------------
(***************************************************************************)
(* What the algorithms over graphs should answer, from definitions.        *)
(***************************************************************************)
Near(g, v) == ToSet(Targets(g, v))
Reach(g, v) == Explored({v}, LAMBDA u : Near(g, u))

(* The classes of vertices joined by edges <<u, v, ..>>. *)
Classes(vertices, edges) ==
    { Explored({v}, LAMBDA u : { OtherEnd(e, u) : e \in { f \in edges : u \in {f[1], f[2]} } } \cap vertices) :
      v \in vertices }

EdgeSet(g) == { <<g.arcs[i][1], g.arcs[i][2]>> : i \in DOMAIN g.arcs }
Components(g) == Classes(Vertices(g), EdgeSet(g))
WithoutVertex(g, v) == Classes(Vertices(g) \ {v}, { e \in EdgeSet(g) : v \notin {e[1], e[2]} })
CutVertices(g) == { v \in Vertices(g) : Cardinality(WithoutVertex(g, v)) > Cardinality(Components(g)) }

Cyclic(g) ==
    IF g.directed THEN \E v \in Vertices(g) : \E w \in Near(g, v) : v \in Reach(g, w)
    ELSE Len(ExtractUndirectedEdges(g)) > g.n - Cardinality(Components(g))

IsPermutation(list, set) == Len(list) = Cardinality(set) /\ ToSet(list) = set

PlaceOf(list, x) == CHOOSE i \in DOMAIN list : list[i] = x

IsTopological(g, order) ==
    /\ IsPermutation(order, Vertices(g))
    /\ \A e \in EdgeSet(g) : PlaceOf(order, e[1]) < PlaceOf(order, e[2])

(* The ends of the walks of k arcs. *)
RECURSIVE WalkEnds(_, _, _)
WalkEnds(g, start, k) ==
    IF k = 0 THEN {start} ELSE UNION { Near(g, v) : v \in WalkEnds(g, start, k - 1) }

HopDistances(g, start) ==
    [v \in Reach(g, start) |-> Min({ k \in 0 .. g.n : v \in WalkEnds(g, start, k) })]

(* Weights of the simple paths from start that avoid a set, by their ends. *)
RECURSIVE PathWeights(_, _, _)
PathWeights(g, start, avoided) ==
    {<<start, 0>>} \cup
    UNION { { <<end[1], end[2] + arc[2]>> : end \in PathWeights(g, arc[1], avoided \cup {start}) } :
            arc \in { a \in ToSet(g.adjacent[start]) : a[1] \notin avoided \cup {start} } }

WeightedDistances(g, start) ==
    Once(PathWeights(g, start, {}), LAMBDA ends :
        [v \in { e[1] : e \in ends } |-> Min({ e[2] : e \in { f \in ends : f[1] = v } })])

(* A cycle of negative weight that the vertices lead to. *)
NegativeCycle(g, vertices) ==
    \E v \in UNION { Reach(g, u) : u \in vertices } :
        \E arc \in ToSet(g.adjacent[v]) : \E end \in PathWeights(g, arc[1], {}) :
            end[1] = v /\ arc[2] + end[2] < 0

TotalMagnitude(g) == Each(g.arcs, 0, LAMBDA a, sum : sum + Max({a[3], -a[3]}))

TreeOf(distance, parent, g, source) ==
    /\ DOMAIN parent = DOMAIN distance \ {source}
    /\ \A v \in DOMAIN parent :
          \E arc \in ToSet(g.adjacent[parent[v]]) : arc[1] = v /\ distance[v] = distance[parent[v]] + arc[2]

RECURSIVE Preorder(_, _, _)
Preorder(g, v, before) ==
    Each(Targets(g, v), Append(before, v), LAMBDA to, order :
        IF to \in ToSet(order) THEN order ELSE Preorder(g, to, order))

StrongClasses(g) == { { u \in Reach(g, v) : v \in Reach(g, u) } : v \in Vertices(g) }

IsStrongDecomposition(g, components) ==
    /\ { ToSet(components[i]) : i \in DOMAIN components } = StrongClasses(g)
    /\ Len(FlattenSeq(components)) = g.n

(* Blocks: what no vertex can cut, as large as possible. *)
Uncut(g, S) ==
    \A v \in S \cup {NoVertex} :
        Cardinality(Classes(S \ {v}, { e \in EdgeSet(g) : {e[1], e[2]} \subseteq S \ {v} })) <= 1

Blocks(g) ==
    LET uncut == { S \in SUBSET Vertices(g) : S # {} /\ Uncut(g, S) } IN
    { S \in uncut : \A T \in uncut : ~(S \subseteq T /\ S # T) }

LogicalEdges(g) == SelectSeq(g.arcs, LAMBDA a : a[1] < a[2])

SpanningForests(g) ==
    LET edges == LogicalEdges(g)
        count == g.n - Cardinality(Components(g))
    IN  { F \in SUBSET DOMAIN edges :
             /\ Cardinality(F) = count
             /\ Cardinality(Classes(Vertices(g), { edges[i] : i \in F })) = g.n - count }

IsMinimumForest(g, a) ==
    LET edges == LogicalEdges(g)
        Total(F) == Each(Ascending(F), 0, LAMBDA i, sum : sum + edges[i][3])
        Of(e) == IF e[1] < e[2] THEN e ELSE <<e[2], e[1], e[3]>>
    IN  /\ \E F \in SpanningForests(g) :
              IsPermutation([k \in DOMAIN a.edges |-> Of(a.edges[k])], { edges[i] : i \in F })
        /\ a.total = Min({ Total(F) : F \in SpanningForests(g) })
        /\ a.total = Each(a.edges, 0, LAMBDA e, sum : sum + e[3])
        /\ a.components = Cardinality(Components(g))

IsTree(g) ==
    /\ ~g.directed
    /\ Len(ExtractUndirectedEdges(g)) = g.n - 1
    /\ Cardinality(Components(g)) = 1

(* Vertices between two others, and above one, in a tree. *)
Between(g, a, b) ==
    { v \in Vertices(g) : v \in {a, b} \/ \A class \in WithoutVertex(g, v) : ~({a, b} \subseteq class) }

Below(g, root, v) == { u \in Vertices(g) : v \in Between(g, root, u) }
DepthIn(g, root, v) == Cardinality(Between(g, root, v)) - 1

(* The end of some walk along all of the edges is reached. *)
RECURSIVE CanFinish(_, _, _, _)
CanFinish(edges, directed, left, at) ==
    \/ left = {}
    \/ \E i \in left :
          \/ edges[i][1] = at /\ CanFinish(edges, directed, left \ {i}, edges[i][2])
          \/ ~directed /\ edges[i][2] = at /\ CanFinish(edges, directed, left \ {i}, edges[i][1])

Pair(directed, e) == IF directed \/ e[1] <= e[2] THEN <<e[1], e[2]>> ELSE <<e[2], e[1]>>

IsTrail(g, a) ==
    LET edges == NormalizedEdges(g)
        walked == [k \in 1 .. Len(a.trail) - 1 |-> Pair(g.directed, <<a.trail[k], a.trail[k + 1]>>)]
    IN  /\ a.edges = Len(edges)
        /\ SortSeq(walked, Precedes) = SortSeq([i \in DOMAIN edges |-> <<edges[i][1], edges[i][2]>>], Precedes)
        /\ a.circuit = (g.n = 0 \/ a.trail[1] = Last(a.trail))
-----------------------------------------------------------------------------
GraphTasks == {"breadth_first_search", "shortest_unweighted_path", "depth_first_search",
               "connected_components", "has_cycle", "low_link", "topological_sort",
               "dijkstra", "bellman_ford", "johnson", "tarjan", "kosaraju", "biconnected",
               "kruskal", "prim", "common_ancestor", "transitive_reduction", "eulerian_trail", "heavy_light"}

GraphResult(t, i) ==
    LET g == i.graph IN
    CASE t = "breadth_first_search" -> BreadthFirstSearch(g, i.start)
      [] t = "shortest_unweighted_path" -> ShortestUnweightedPath(g, i.start, i.target)
      [] t = "depth_first_search" -> [order |-> DepthFirstSearch(g, i.start)]
      [] t = "connected_components" -> [components |-> ConnectedComponents(g)]
      [] t = "has_cycle" -> [cycle |-> HasCycle(g)]
      [] t = "low_link" -> AnalyzeUndirectedLowLink(g)
      [] t = "topological_sort" -> TopologicalSort(g)
      [] t = "dijkstra" -> Dijkstra(g, i.start)
      [] t = "bellman_ford" -> BellmanFord(g, i.start)
      [] t = "johnson" -> JohnsonAllPairs(g)
      [] t = "tarjan" -> Tarjan(g)
      [] t = "kosaraju" -> Once(Kosaraju(g), LAMBDA k :
                               [components |-> k.components, condensation |-> CondensationGraph(g, k.components)])
      [] t = "biconnected" -> VertexBiconnectedDecomposition(g)
      [] t = "kruskal" -> Kruskal(g)
      [] t = "prim" -> Prim(g)
      [] t = "common_ancestor" ->
            Once(AncestorTable(g, i.start), LAMBDA table :
                IF table = Refused THEN Refused
                ELSE [common |-> [u, v \in Vertices(g) |-> CommonAncestor(table, u, v)],
                      distance |-> [u, v \in Vertices(g) |-> DistanceEdges(table, u, v)],
                      above |-> [v \in Vertices(g), k \in 0 .. g.n |-> KthAncestor(table, v, k)]])
      [] t = "transitive_reduction" -> TransitiveReduction(g)
      [] t = "eulerian_trail" -> EulerianTrail(g)
      [] t = "heavy_light" ->
            Once(HeavyLight(g, [v \in Vertices(g) |-> 2^v], i.start), LAMBDA built :
                IF built = Refused THEN Refused
                ELSE Once(AssignValue(built, i.target, 64), LAMBDA h :
                    [path |-> [u, v \in Vertices(g) |-> PathSum(h, u, v)],
                     subtree |-> [v \in Vertices(g) |-> SubtreeSum(h, v)]]))

ValueSum(S, changed) == Each(Listed(S), 0, LAMBDA v, sum : sum + IF v = changed THEN 64 ELSE 2^v)

DistancesExact(g, start, a) ==
    IF NegativeCycle(g, {start}) THEN a = Overflow \/ ("cycle" \in DOMAIN a /\ a.cycle)
    ELSE /\ a.distance = WeightedDistances(g, start)
         /\ TreeOf(a.distance, a.parent, g, start)

GraphExact(t, i, a) ==
    LET g == i.graph IN
    CASE t = "breadth_first_search" ->
            /\ a.distance = HopDistances(g, i.start)
            /\ IsPermutation(a.order, Reach(g, i.start))
            /\ \A j, k \in DOMAIN a.order : j <= k => a.distance[a.order[j]] <= a.distance[a.order[k]]
            /\ DOMAIN a.parent = Reach(g, i.start) \ {i.start}
            /\ \A v \in DOMAIN a.parent :
                  PlaceOf(a.order, a.parent[v])
                  = Min({ k \in DOMAIN a.order : v \in Near(g, a.order[k]) })
      [] t = "shortest_unweighted_path" ->
            IF i.target \notin Reach(g, i.start) THEN a = Nothing
            ELSE /\ Len(a.path) = HopDistances(g, i.start)[i.target] + 1
                 /\ a.path[1] = i.start /\ Last(a.path) = i.target
                 /\ \A k \in 1 .. Len(a.path) - 1 : a.path[k + 1] \in Near(g, a.path[k])
      [] t = "depth_first_search" -> a.order = Preorder(g, i.start, << >>)
      [] t = "connected_components" ->
            /\ { ToSet(a.components[k]) : k \in DOMAIN a.components } = Components(g)
            /\ Len(FlattenSeq(a.components)) = g.n
            /\ \A j, k \in DOMAIN a.components : j < k =>
                  Min(ToSet(a.components[j])) < Min(ToSet(a.components[k]))
      [] t = "has_cycle" -> a.cycle = Cyclic(g)
      [] t = "low_link" ->
            LET edges == ExtractUndirectedEdges(g)
                Joined(S) == Classes(Vertices(g), { edges[k] : k \in S })
                bridges == { k \in DOMAIN edges : Joined(DOMAIN edges \ {k}) # Joined(DOMAIN edges) }
                parts == Joined(DOMAIN edges \ bridges)
            IN  /\ ToSet(a.bridges) = bridges
                /\ a.articulation = CutVertices(g)
                /\ a.count = Cardinality(parts)
                /\ \A P \in parts : \A v \in P :
                      a.component[v] = Cardinality({ Q \in parts : Min(Q) < Min(P) })
      [] t = "topological_sort" -> IF Cyclic(g) THEN a = Nothing ELSE IsTopological(g, a.order)
      [] t = "dijkstra" ->
            IF \E k \in DOMAIN g.arcs : g.arcs[k][3] < 0 THEN a = Refused
            ELSE LET true == WeightedDistances(g, i.start) IN
                 IF \E v \in DOMAIN true : \E arc \in ToSet(g.adjacent[v]) : true[v] + arc[2] > WeightMax
                 THEN a = Overflow ELSE DistancesExact(g, i.start, a)
      [] t = "bellman_ford" ->
            IF a = Overflow THEN g.n * TotalMagnitude(g) > WeightMax
            ELSE a.cycle = NegativeCycle(g, {i.start}) /\ DistancesExact(g, i.start, a)
      [] t = "johnson" ->
            IF a = Overflow THEN g.n * TotalMagnitude(g) > WeightMax
            ELSE IF NegativeCycle(g, Vertices(g)) THEN a = Nothing
            ELSE \A v \in Vertices(g) :
                    DistancesExact(g, v, [distance |-> a.distance[v], parent |-> a.parent[v]])
      [] t = "tarjan" ->
            /\ IsStrongDecomposition(g, a.components)
            /\ \A e \in EdgeSet(g) : \A j, k \in DOMAIN a.components :
                  e[1] \in ToSet(a.components[j]) /\ e[2] \in ToSet(a.components[k]) => j >= k
      [] t = "kosaraju" ->
            /\ IsStrongDecomposition(g, a.components)
            /\ \A j, k \in DOMAIN a.components :
                  LET joined == \E e \in EdgeSet(g) : e[1] \in ToSet(a.components[j]) /\ e[2] \in ToSet(a.components[k])
                  IN  /\ j # k => (joined <=> <<j - 1, k - 1>> \in ToSet(a.condensation))
                      /\ joined => j <= k
            /\ \A k \in DOMAIN a.condensation : a.condensation[k][1] # a.condensation[k][2]
      [] t = "biconnected" -> a.blocks = Blocks(g) /\ a.residual = << >> /\ a.articulation = CutVertices(g)
      [] t \in {"kruskal", "prim"} -> IF a = Overflow THEN TotalMagnitude(g) > WeightMax ELSE IsMinimumForest(g, a)
      [] t = "common_ancestor" ->
            IF ~IsTree(g) THEN a = Refused
            ELSE \A u, v \in Vertices(g) :
                    LET common == Between(g, i.start, u) \cap Between(g, i.start, v)
                        lowest == CHOOSE c \in common : \A d \in common : DepthIn(g, i.start, d) <= DepthIn(g, i.start, c)
                    IN  /\ a.common[u, v] = lowest
                        /\ a.distance[u, v] = Cardinality(Between(g, u, v)) - 1
                        /\ \A k \in 0 .. g.n :
                              IF k > DepthIn(g, i.start, v) THEN a.above[v, k] = Nothing
                              ELSE /\ a.above[v, k].vertex \in Between(g, i.start, v)
                                   /\ DepthIn(g, i.start, a.above[v, k].vertex) = DepthIn(g, i.start, v) - k
      [] t = "transitive_reduction" ->
            IF Cyclic(g) THEN a = Refused
            ELSE LET Closure(E) == { p \in Vertices(g) \X Vertices(g) :
                                     p[2] \in Explored({p[1]}, LAMBDA u : { e[2] : e \in { f \in E : f[1] = u } }) }
                 IN  /\ IsTopological(g, a.order)
                     /\ a.arcs \subseteq EdgeSet(g)
                     /\ Closure(a.arcs) = Closure(EdgeSet(g))
                     /\ \A arc \in a.arcs : Closure(a.arcs \ {arc}) # Closure(EdgeSet(g))
      [] t = "eulerian_trail" ->
            LET edges == NormalizedEdges(g) IN
            IF \E v \in Vertices(g) : CanFinish(edges, g.directed, DOMAIN edges, v)
            THEN IsTrail(g, a) ELSE a = Nothing
      [] t = "heavy_light" ->
            IF ~IsTree(g) THEN a = Refused
            ELSE /\ \A u, v \in Vertices(g) : a.path[u, v] = ValueSum(Between(g, u, v), i.target)
                 /\ \A v \in Vertices(g) : a.subtree[v] = ValueSum(Below(g, i.start, v), i.target)
-----------------------------------------------------------------------------
Subsequences(list) ==
    { LET kept == Ascending(I) IN [k \in DOMAIN kept |-> list[kept[k]]] : I \in SUBSET DOMAIN list }

UndirectedEdges == << <<0, 1, 1>>, <<1, 2, 2>>, <<2, 3, 1>>, <<3, 1, 3>>, <<0, 2, 1>>, <<3, 0, WeightMax - 2>>, <<1, 0, 2>>, <<2, 2, 1>> >>
DirectedArcs == << <<0, 1, 1>>, <<1, 2, 2>>, <<2, 3, 1>>, <<3, 0, 3>>, <<0, 2, 1>>, <<2, 1, 1>>, <<3, 1, WeightMax - 3>>, <<2, 2, 1>>, <<0, 1, 2>> >>
SignedArcs == << <<0, 1, 3>>, <<1, 2, 2>>, <<0, 2, 4>>, <<2, 1, -2>>, <<1, 0, -3>>, <<2, 0, -1>>, <<0, 1, -WeightMax \div 2>>, <<2, 2, -1>>, <<2, 3, 7>>, <<1, 3, -7>> >>
AcyclicArcs == << <<3, 1, 1>>, <<3, 0, 1>>, <<1, 0, 1>>, <<0, 2, 1>>, <<3, 2, 1>>, <<1, 2, 1>>, <<2, 4, 1>>, <<1, 4, 1>> >>
TreeEdges == << <<0, 1, 1>>, <<2, 0, 1>>, <<0, 3, 1>>, <<4, 0, 1>>, <<1, 2, 1>>, <<3, 1, 1>>, <<1, 4, 1>>, <<2, 3, 1>>, <<4, 2, 1>>, <<3, 4, 1>>, <<0, 1, 1>>, <<4, 4, 1>> >>

Undirected == { GraphOf(4, FALSE, e) : e \in Subsequences(UndirectedEdges) }
Directed == { GraphOf(4, TRUE, e) : e \in Subsequences(DirectedArcs) }
Signed == { GraphOf(4, TRUE, e) : e \in Subsequences(SignedArcs) }
Acyclic == { GraphOf(5, TRUE, e) : e \in Subsequences(AcyclicArcs) }
Trees == { GraphOf(5, FALSE, e) : e \in { f \in Subsequences(TreeEdges) : Len(f) = 4 } }
Short == { g \in Undirected \cup Directed : Len(NormalizedEdges(g)) \in {0, 2, 4, 5, 6} }

GraphInputs(t) ==
    CASE t \in {"breadth_first_search", "depth_first_search"} -> { [graph |-> g, start |-> 0] : g \in Undirected \cup Directed }
      [] t = "shortest_unweighted_path" -> { [graph |-> g, start |-> 0, target |-> v] : g \in Undirected \cup Directed, v \in {0, 3} }
      [] t \in {"connected_components", "low_link", "biconnected", "kruskal", "prim"} -> { [graph |-> g] : g \in Undirected }
      [] t = "has_cycle" -> { [graph |-> g] : g \in Undirected \cup Directed }
      [] t \in {"tarjan", "kosaraju"} -> { [graph |-> g] : g \in Directed }
      [] t = "dijkstra" -> { [graph |-> g, start |-> v] : g \in Directed \cup Undirected, v \in {0, 3} }
      [] t = "bellman_ford" -> { [graph |-> g, start |-> 0] : g \in Signed }
      [] t = "johnson" -> { [graph |-> g] : g \in Signed }
      [] t \in {"topological_sort", "transitive_reduction"} -> { [graph |-> g] : g \in Acyclic \cup Directed }
      [] t = "eulerian_trail" -> { [graph |-> g] : g \in Short }
      [] t = "common_ancestor" -> { [graph |-> g, start |-> 0] : g \in Trees }
      [] t = "heavy_light" -> { [graph |-> g, start |-> v, target |-> w] : g \in Trees, v \in {0, 3}, w \in {1, 3} }
-----------------------------------------------------------------------------
(***************************************************************************)
(* Trees, matchings and flows.                                             *)
(***************************************************************************)
NetworkTasks == {"nearest_active", "tree_isomorphism", "chinese_postman", "hopcroft_karp", "edge_coloring",
                 "dinic", "push_relabel", "gomory_hu", "stoer_wagner", "min_cost_flow", "circulation",
                 "minimum_arborescence", "minimum_mean_cycle"}

(* The graph of a tree in which every vertex hangs from a smaller one, and its mirror image. *)
TreeFrom(up, mirrored) ==
    LET n == Len(up) + 1
        Name(v) == IF mirrored THEN n - 1 - v ELSE v
    IN  GraphOf(n, FALSE, [k \in DOMAIN up |-> <<Name(k), Name(up[k]), 1>>])

Hangings(n) == { up \in [1 .. n - 1 -> 0 .. n - 2] : \A k \in DOMAIN up : up[k] < k }

IsTreeMap(map, g, h) ==
    /\ DOMAIN map = Vertices(g)
    /\ { map[v] : v \in Vertices(g) } = Vertices(h)
    /\ { <<map[e[1]], map[e[2]]>> : e \in EdgeSet(g) } = EdgeSet(h)

SumOf(list, Value(_)) == Each(list, 0, LAMBDA x, sum : sum + Value(x))

EvenWith(edges, doubled, vertices) ==
    \A v \in vertices :
        SumOf(Ascending(DOMAIN edges), LAMBDA k :
            Cardinality({ side \in 1 .. 2 : edges[k][side] = v }) * (IF k \in doubled THEN 2 ELSE 1)) % 2 = 0

CutCapacity(edges, S) == SumOf(edges, LAMBDA e : IF e[1] \in S /\ e[2] \notin S THEN e[3] ELSE 0)
BothWays(edges) == edges \o [k \in DOMAIN edges |-> <<edges[k][2], edges[k][1], edges[k][3]>>]
CutsBetween(n, source, sink) == { S \in SUBSET (0 .. n - 1) : source \in S /\ sink \notin S }
LeastCut(n, edges, source, sink) == Min({ CutCapacity(edges, S) : S \in CutsBetween(n, source, sink) })

NetInto(edges, flow, v) ==
    SumOf(Ascending(DOMAIN edges), LAMBDA k :
        (IF edges[k][2] = v THEN flow[k] ELSE 0) - (IF edges[k][1] = v THEN flow[k] ELSE 0))

(* Every flow between bounds that leaves each vertex what it demands, and the cost of one. *)
Flows(n, edges, Low(_), High(_), demand) ==
    { f \in { g \in [DOMAIN edges -> 0 .. 3] : \A k \in DOMAIN edges : g[k] \in Low(k) .. High(k) } :
      \A v \in 0 .. n - 1 : NetInto(edges, f, v) = demand[v] }

FlowCost(edges, flow, cost) == SumOf(Ascending(DOMAIN edges), LAMBDA k : flow[k] * edges[k][cost])

(* Edges into the vertices that make them all reached from the root. *)
Arborescences(n, edges, root) ==
    { f \in [(0 .. n - 1) \ {root} -> DOMAIN edges] :
      /\ \A v \in DOMAIN f : edges[f[v]][2] = v
      /\ Explored({root}, LAMBDA u : { v \in DOMAIN f : edges[f[v]][1] = u }) = 0 .. n - 1 }

(* The cycles of a graph without repeated vertices, by their arcs. *)
RECURSIVE CyclesThrough(_, _, _, _)
CyclesThrough(g, start, at, path) ==
    UNION { IF g.arcs[k][2] = start THEN {Append(path, k)}
            ELSE IF \E j \in DOMAIN path : g.arcs[path[j]][1] = g.arcs[k][2] THEN {}
            ELSE CyclesThrough(g, start, g.arcs[k][2], Append(path, k)) :
            k \in { j \in DOMAIN g.arcs : g.arcs[j][1] = at } }

Cycles(g) == UNION { CyclesThrough(g, v, v, << >>) : v \in Vertices(g) }
CycleWeight(g, cycle) == SumOf(cycle, LAMBDA k : g.arcs[k][3])

NetworkResult(t, i) ==
    CASE t = "nearest_active" ->
            Once(CentroidIndex(i.graph), LAMBDA index :
                IF index = Refused THEN Refused
                ELSE Once(Each(i.script, index, LAMBDA step, s :
                              IF step[1] = "on" THEN Activate(s, step[2]) ELSE Deactivate(s, step[2])),
                          LAMBDA s : [nearest |-> [v \in Vertices(i.graph) |-> NearestActive(s, v)]]))
      [] t = "tree_isomorphism" -> ExactTreeIsomorphism(i.graph, i.other)
      [] t = "chinese_postman" -> ChinesePostmanTour(i.graph)
      [] t = "hopcroft_karp" -> HopcroftKarp(i.left, i.edges)
      [] t = "edge_coloring" -> MinimumBipartiteEdgeColoring(i.graph)
      [] t = "dinic" -> DinicMaxFlow(4, i.edges, i.source, i.sink)
      [] t = "push_relabel" -> PushRelabelMaxFlow(4, i.edges, i.source, i.sink)
      [] t = "gomory_hu" ->
            Once(BuildGomoryHuTree(4, i.edges), LAMBDA tree :
                IF tree \in {Refused, Overflow} THEN tree
                ELSE [cut |-> [p \in (0 .. 3) \X (0 .. 3) |-> IF p[1] = p[2] THEN 0 ELSE MinCut(tree, p[1], p[2])]])
      [] t = "stoer_wagner" -> StoerWagnerGlobalMinCut(4, i.edges)
      [] t = "min_cost_flow" -> MinCostMaxFlow(4, i.edges, 0, 3)
      [] t = "circulation" -> MinCostCirculation(3, i.edges, i.demand)
      [] t = "minimum_arborescence" -> MinimumArborescence(4, i.edges, 0)
      [] t = "minimum_mean_cycle" -> MinimumMeanCycle(i.graph)

PostmanExact(g, a) ==
    LET edges == ExtractUndirectedEdges(g)
        original == SumOf(edges, LAMBDA e : e[3])
        touched == { v \in Vertices(g) : OutDegree(edges, v) + InDegree(edges, v) > 0 }
    IN  IF ~\E class \in Components(g) : touched \subseteq class THEN a = Nothing
        ELSE LET doublings == { S \in SUBSET DOMAIN edges : EvenWith(edges, S, Vertices(g)) }
                 Cost(S) == SumOf(Ascending(S), LAMBDA k : edges[k][3])
                 least == Min({ Cost(S) : S \in doublings })
             IN  IF original + least > WeightMax THEN a = Overflow
                 ELSE /\ a.original = original /\ a.duplicated = least
                      /\ SortSeq(a.walk, LAMBDA x, y : x < y) = [k \in DOMAIN a.occurrences |-> k]
                      /\ SubSeq(a.occurrences, 1, Len(edges)) = [k \in DOMAIN edges |-> k]
                      /\ SumOf(a.occurrences, LAMBDA k : edges[k][3]) = original + least
                      /\ Len(a.vertices) = Len(a.walk) + 1 \/ g.n = 0
                      /\ a.vertices # << >> => a.vertices[1] = Last(a.vertices)
                      /\ \A k \in DOMAIN a.walk :
                            {a.vertices[k], a.vertices[k + 1]}
                            = {edges[a.occurrences[a.walk[k]]][1], edges[a.occurrences[a.walk[k]]][2]}

MaxFlowExact(i, a) ==
    IF i.source = i.sink \/ \E k \in DOMAIN i.edges : i.edges[k][3] < 0 THEN a = Refused
    ELSE LET least == LeastCut(4, i.edges, i.source, i.sink) IN
         IF least > WeightMax THEN a = Overflow
         ELSE /\ a.value = least
              /\ a.side \in CutsBetween(4, i.source, i.sink) /\ CutCapacity(i.edges, a.side) = least
              /\ \A k \in DOMAIN i.edges : a.flow[k] \in 0 .. i.edges[k][3]
              /\ \A v \in 0 .. 3 : NetInto(i.edges, a.flow, v) = CASE v = i.source -> -least [] v = i.sink -> least [] OTHER -> 0

Magnitude(i, cost) == SumOf(i.edges, LAMBDA e : Max({e[cost], -e[cost]}) * Max({1, e[cost - 1]}))

(* A cycle of open edges of negative cost. *)
OpenNegativeCycle(edges, cost) ==
    NegativeCycle(GraphOf(4, TRUE, Each(edges, << >>, LAMBDA e, open :
                      IF e[3] > 0 THEN Append(open, <<e[1], e[2], e[cost]>>) ELSE open)), 0 .. 3)

MinCostFlowExact(i, a) ==
    IF OpenNegativeCycle(i.edges, 4) THEN a \in {Refused, Overflow}
    ELSE IF a = Overflow THEN 4 * Magnitude(i, 4) > WeightMax
    ELSE IF a = CostRejected THEN Magnitude(i, 4) > WeightMax
    ELSE LET least == LeastCut(4, i.edges, 0, 3)
             flows == Flows(4, i.edges, LAMBDA k : 0, LAMBDA k : i.edges[k][3],
                            [v \in 0 .. 3 |-> CASE v = 0 -> -least [] v = 3 -> least [] OTHER -> 0])
         IN  /\ a.value = least
             /\ [k \in DOMAIN i.edges |-> a.flow[k]] \in flows
             /\ a.cost = FlowCost(i.edges, a.flow, 4)
             /\ \A f \in flows : a.cost <= FlowCost(i.edges, f, 4)

CirculationExact(i, a) ==
    LET flows == Flows(3, i.edges, LAMBDA k : i.edges[k][3], LAMBDA k : i.edges[k][4], i.demand) IN
    IF i.demand[0] + i.demand[1] + i.demand[2] # 0 THEN a = Refused
    ELSE IF a = Overflow THEN 3 * Magnitude(i, 5) > WeightMax
    ELSE IF flows = {} THEN a = Nothing
    ELSE /\ [k \in DOMAIN i.edges |-> a.flow[k]] \in flows
         /\ a.cost = FlowCost(i.edges, a.flow, 5)
         /\ \A f \in flows : a.cost <= FlowCost(i.edges, f, 5)

NetworkExact(t, i, a) ==
    CASE t = "nearest_active" ->
            IF ~IsTree(i.graph) THEN a = Refused
            ELSE LET g == i.graph
                     active == Each(i.script, {}, LAMBDA step, S :
                                   IF step[1] = "on" THEN S \cup {step[2]} ELSE S \ {step[2]})
                 IN  \A v \in Vertices(g) :
                        IF active = {} THEN a.nearest[v] = Nothing
                        ELSE a.nearest[v].nearest = Least({ <<DepthIn(g, v, u), u>> : u \in active })
      [] t = "tree_isomorphism" ->
            IF ~IsTree(i.graph) \/ ~IsTree(i.other) THEN a = Refused
            ELSE IF a = Nothing
                 THEN i.graph.n # i.other.n
                      \/ \A map \in Permutations(Vertices(i.graph)) : ~IsTreeMap(map, i.graph, i.other)
                 ELSE IsTreeMap(a.map, i.graph, i.other)
      [] t = "chinese_postman" -> PostmanExact(i.graph, a)
      [] t = "hopcroft_karp" ->
            (* A matching and a cover of the same size are both optimal. *)
            /\ { <<l, a.left[l]>> : l \in DOMAIN a.left } \subseteq ToSet(i.edges)
            /\ { <<l, a.left[l]>> : l \in DOMAIN a.left } = { <<a.right[r], r>> : r \in DOMAIN a.right }
            /\ \A e \in ToSet(i.edges) : e[1] \in a.cover.left \/ e[2] \in a.cover.right
            /\ Cardinality(a.cover.left) + Cardinality(a.cover.right) = Cardinality(DOMAIN a.left)
      [] t = "edge_coloring" ->
            LET g == i.graph
                edges == LogicalEdges(g)
                Two(S) == \A e \in EdgeSet(g) : Cardinality({e[1], e[2]} \cap S) = 1
                Degree(v) == Cardinality({ k \in DOMAIN edges : v \in {edges[k][1], edges[k][2]} })
            IN  IF g.directed \/ \A S \in SUBSET Vertices(g) : ~Two(S) THEN a = Refused
                ELSE /\ a.colors = Max({ Degree(v) : v \in Vertices(g) })
                     /\ DOMAIN a.color = DOMAIN edges
                     /\ \A k \in DOMAIN edges : a.color[k] \in 0 .. a.colors - 1
                     /\ \A j, k \in DOMAIN edges :
                           j # k /\ {edges[j][1], edges[j][2]} \cap {edges[k][1], edges[k][2]} # {}
                           => a.color[j] # a.color[k]
      [] t \in {"dinic", "push_relabel"} -> MaxFlowExact(i, a)
      [] t = "gomory_hu" ->
            LET edges == BothWays(i.edges)
                Least2(u, v) == LeastCut(4, edges, u, v)
            IN  IF a = Overflow THEN \E v \in 0 .. 3 : CutCapacity(edges, {v}) > WeightMax
                ELSE \A u, v \in 0 .. 3 : u # v => a.cut[<<u, v>>] = Least2(u, v)
      [] t = "stoer_wagner" ->
            LET edges == BothWays(i.edges) IN
            IF a = Overflow THEN SumOf(i.edges, LAMBDA e : e[3]) > WideMax
            ELSE /\ a.weight = Min({ CutCapacity(edges, S) : S \in (SUBSET (0 .. 3)) \ {{}, 0 .. 3} })
                 /\ 0 \notin a.side /\ a.side # {} /\ CutCapacity(edges, a.side) = a.weight
      [] t = "min_cost_flow" -> MinCostFlowExact(i, a)
      [] t = "circulation" -> CirculationExact(i, a)
      [] t = "minimum_arborescence" ->
            LET trees == Arborescences(4, i.edges, 0)
                Cost(f) == SumOf(Ascending(DOMAIN f), LAMBDA v : i.edges[f[v]][3])
                least == Min({ Cost(f) : f \in trees })
            IN  IF trees = {} THEN a = Refused
                ELSE IF ~Fits(least) THEN a = Overflow
                ELSE a.incoming \in trees /\ a.total = least /\ Cost(a.incoming) = least
      [] t = "minimum_mean_cycle" ->
            LET g == i.graph
                cycles == Cycles(g)
            IN  IF a = Overflow THEN 2 * g.n * g.n * TotalMagnitude(g) > WeightMax
                ELSE IF cycles = {} THEN a = Nothing
                ELSE /\ a.cycle \in cycles /\ a.weight = CycleWeight(g, a.cycle)
                     /\ a.weight * a.ratio[2] = a.ratio[1] * Len(a.cycle)
                     /\ Gcd(Max({a.ratio[1], -a.ratio[1]}), a.ratio[2]) = 1
                     /\ \A c \in cycles : a.ratio[1] * Len(c) <= CycleWeight(g, c) * a.ratio[2]

Capacities == << <<0, 1, 3, 2>>, <<0, 2, 2, 1>>, <<1, 2, 1, -2>>, <<1, 3, 2, 3>>, <<2, 3, 3, 4>>, <<2, 1, 1, 1>>, <<3, 0, 2, 1>>, <<1, 1, 2, 1>>, <<0, 3, 1, 6>> >>
CostlyEdges == << <<0, 1, 1, -WeightMax>>, <<1, 3, 1, -1>>, <<0, 1, 2, WeightMax>>, <<1, 2, 2, 2>>, <<2, 3, 2, -WeightMax>>, <<2, 1, 1, -5>> >>
HeavyEdges == << <<0, 1, WeightMax, 0>>, <<1, 3, 2, 0>>, <<0, 2, WeightMax - 1, 0>>, <<2, 3, WeightMax, 0>>, <<1, 3, WeightMax, 0>>, <<3, 2, -1, 0>> >>
BoundedEdges == << <<0, 1, 1, 2, 3>>, <<1, 2, 0, 2, -2>>, <<2, 0, 1, 3, 1>>, <<0, 2, 0, 1, -4>>, <<1, 0, 0, 1, 2>>, <<1, 1, 0, 2, -3>>, <<2, 1, 0, 2, WeightMax - 3>> >>
Demands == { 0 :> d[1] @@ 1 :> d[2] @@ 2 :> d[3] : d \in {<<0, 0, 0>>, <<1, -2, 1>>, <<-1, 1, 0>>, <<0, 2, -1>>} }

Scripts == { <<>>, <<<<"on", 1>>>>, <<<<"on", 3>>, <<"on", 2>>>>, <<<<"on", 4>>, <<"on", 0>>, <<"off", 4>>>>,
             <<<<"on", 1>>, <<"on", 4>>, <<"off", 1>>, <<"off", 1>>, <<"on", 2>>, <<"on", 2>>>> }

SideEdges == << <<0, 1>>, <<1, 1>>, <<0, 0>>, <<2, 1>>, <<1, 2>>, <<2, 2>>, <<1, 0>>, <<2, 0>>, <<0, 1>> >>

RootedArcs == << <<0, 1, 5>>, <<1, 2, -3>>, <<2, 1, 2>>, <<2, 3, WeightMax>>, <<0, 2, 4>>, <<3, 1, -WeightMax - 1>>, <<0, 3, WeightMax - 2>>, <<1, 3, 1>>, <<3, 3, -7>>, <<3, 2, -9>> >>

NetworkInputs(t) ==
    CASE t = "nearest_active" ->
            { [graph |-> g, script |-> s] : g \in { TreeFrom(up, TRUE) : up \in Hangings(5) }, s \in Scripts }
            \cup { [graph |-> g, script |-> << >>] : g \in Undirected }
      [] t = "tree_isomorphism" ->
            { [graph |-> TreeFrom(up, FALSE), other |-> TreeFrom(down, TRUE)] : up, down \in Hangings(5) }
            \cup { [graph |-> GraphOf(4, FALSE, <<<<0, 1, 1>>, <<0, 2, 1>>, <<0, 3, 1>>>>), other |-> g] : g \in Undirected }
      [] t = "chinese_postman" ->
            { [graph |-> g] : g \in { h \in Undirected : Len(ExtractUndirectedEdges(h)) \notin {2, 3, 4} } }
      [] t = "hopcroft_karp" -> { [left |-> 3, edges |-> e] : e \in Subsequences(SideEdges) }
      [] t \in {"dinic", "push_relabel"} ->
            { [edges |-> e, source |-> s, sink |-> 3] : e \in Subsequences(Capacities) \cup Subsequences(HeavyEdges), s \in {0, 3} }
      [] t \in {"gomory_hu", "stoer_wagner"} ->
            { [edges |-> e] : e \in Subsequences(Capacities) \cup Subsequences(SubSeq(HeavyEdges, 1, 5)) }
      [] t = "min_cost_flow" ->
            { [edges |-> e] : e \in { f \in Subsequences(Capacities) : Len(f) <= 5 } \cup Subsequences(CostlyEdges) }
      [] t = "circulation" ->
            { [edges |-> e, demand |-> d] : e \in { f \in Subsequences(BoundedEdges) : Len(f) \in {0, 3, 4, 5} }, d \in Demands }
      [] t = "edge_coloring" ->
            { [graph |-> GraphOf(5, FALSE, e)] :
              e \in Subsequences(<< <<0, 1, 1>>, <<2, 1, 1>>, <<2, 3, 1>>, <<0, 3, 1>>, <<1, 4, 1>>, <<1, 2, 1>>, <<3, 4, 1>>, <<1, 3, 1>> >>) }
      [] t = "minimum_arborescence" -> { [edges |-> e] : e \in { f \in Subsequences(RootedArcs) : Len(f) \in {2, 4, 5, 6, 10} } }
      [] t = "minimum_mean_cycle" -> { [graph |-> g] : g \in { h \in Signed : Len(h.arcs) \in {2, 4, 5, 6} } \cup { GraphOf(3, TRUE, << >>) } }
-----------------------------------------------------------------------------
(***************************************************************************)
(* What graphs are taken apart into.                                       *)
(***************************************************************************)
StructureTasks == {"suurballe", "open_ear", "thorup_zwick", "subtree_frequency", "rake_compress", "min_plus",
                   "walk_distances",
                 "isomorphism", "steiner_tree", "hamiltonian_cycle", "cograph", "cactus", "tutte_polynomial",
                 "strong_augmentation", "dulmage_mendelsohn", "fill_in", "densest_subgraph", "feedback_vertices", "strong_orientation", "distance_hereditary", "degree_sequences", "planarity"}

(* The simple paths from a vertex, as sets of the arcs they use. *)
RECURSIVE ArcPaths(_, _, _, _)
ArcPaths(g, from, to, avoided) ==
    IF from = to THEN {{}}
    ELSE UNION { { {k} \cup path : path \in ArcPaths(g, g.arcs[k][2], to, avoided \cup {from}) } :
                 k \in { j \in DOMAIN g.arcs : g.arcs[j][1] = from /\ g.arcs[j][2] \notin avoided \cup {from} } }

ArcWeight(g, arcs) == SumOf(Ascending(arcs), LAMBDA k : g.arcs[k][3])

IsArcPath(g, from, to, ids) ==
    /\ g.arcs[Head(ids)][1] = from /\ g.arcs[Last(ids)][2] = to
    /\ \A k \in 1 .. Len(ids) - 1 : g.arcs[ids[k]][2] = g.arcs[ids[k + 1]][1]

SuurballeExact(g, s, t, a) ==
    LET pairs == { p \in ArcPaths(g, s, t, {}) \X ArcPaths(g, s, t, {}) : p[1] \cap p[2] = {} }
        least == Min({ ArcWeight(g, p[1] \cup p[2]) : p \in pairs })
    IN  IF pairs = {} THEN a = Nothing
        ELSE IF least > WeightMax THEN a = Overflow
        ELSE /\ a.total = least /\ a.paths[1].total + a.paths[2].total = least
             /\ ToSet(a.paths[1].edges) \cap ToSet(a.paths[2].edges) = {}
             /\ \A k \in 1 .. 2 : /\ IsArcPath(g, s, t, a.paths[k].edges)
                                  /\ a.paths[k].total = ArcWeight(g, ToSet(a.paths[k].edges))

EdgesAlong(walk) == { {walk[k], walk[k + 1]} : k \in 1 .. Len(walk) - 1 }

(* The ears share no edge and leave none; each is a path whose ends alone were reached before. *)
AreEars(g, ears) ==
    /\ \A e \in EdgeSet(g) : Cardinality({ k \in DOMAIN ears : {e[1], e[2]} \in EdgesAlong(ears[k]) }) = 1
    /\ \A k \in DOMAIN ears : \A e \in EdgesAlong(ears[k]) : \E f \in EdgeSet(g) : e = {f[1], f[2]}
    /\ Head(ears[1]) = Last(ears[1]) /\ IsInjective(Tail(ears[1])) /\ Len(ears[1]) > 3
    /\ \A k \in 2 .. Len(ears) :
          LET before == UNION { ToSet(ears[j]) : j \in 1 .. k - 1 } IN
          /\ IsInjective(ears[k])
          /\ { j \in DOMAIN ears[k] : ears[k][j] \in before } = {1, Len(ears[k])}

SimpleEdges(g) ==
    /\ \A k \in DOMAIN g.arcs : g.arcs[k][1] # g.arcs[k][2]
    /\ Cardinality(EdgeSet(g)) = Len(g.arcs)

EarsExact(g, a) ==
    IF ~SimpleEdges(g) THEN a = Refused
    ELSE IF g.n < 3 \/ Cardinality(Components(g)) > 1 THEN ~a.success /\ a.blocking = {}
    ELSE IF CutVertices(g) # {} THEN ~a.success /\ a.blocking = {Min(CutVertices(g))}
    ELSE a.success /\ AreEars(g, a.ears)

StretchExact(g, a) ==
    LET near == [u \in Vertices(g) |-> WeightedDistances(g, u)] IN
    IF \E v \in Vertices(g) : \E u \in DOMAIN near[v] : \E arc \in ToSet(g.adjacent[u]) : near[v][u] + arc[2] > WeightMax
    THEN a = Overflow
    ELSE \A u, v \in Vertices(g) :
            IF v \notin DOMAIN near[u] THEN a.query[u, v] = Nothing
            ELSE IF a.query[u, v] = Overflow THEN 3 * near[u][v] > WeightMax
            ELSE near[u][v] <= a.query[u, v].distance /\ a.query[u, v].distance <= 3 * near[u][v]

FrequenciesExact(g, label, root, a) ==
    IF ~IsTree(g) THEN a = Refused
    ELSE /\ a.added <= AmortizedAddBound(g.n) /\ a.added - a.removed = g.n
         /\ \A v \in Vertices(g) :
               LET below == Below(g, root, v)
                   Times(l) == Cardinality({ u \in below : label[u] = l })
                   labels == { label[u] : u \in below }
                   most == Max({ Times(l) : l \in labels })
               IN  a.summary[v] = <<Cardinality(below), Cardinality(labels), most, Min({ l \in labels : Times(l) = most })>>

(* What is said of a contraction is only accepted as it is. *)
Tampered(rounds) ==
    UNION { { [rounds EXCEPT ![k].after = @ + 1], [rounds EXCEPT ![k].before = @ - 1],
              [rounds EXCEPT ![k].rakes = Reverse(@) \o @], [rounds EXCEPT ![k].compressions = << >>],
              [rounds EXCEPT ![k].compressions = Reverse(@)], RemoveAt(rounds, k) } : k \in DOMAIN rounds } \ {rounds}

ContractionExact(g, root, a) ==
    IF g.n = 0 \/ ~IsTree(g) THEN a = Refused
    ELSE /\ a.valid
         /\ \A other \in a.tampered : ~other
         /\ SumOf(a.rounds, LAMBDA round : Len(round.compressions) + Len(round.rakes)) = g.n - 1
         /\ 2 ^ Len(a.rounds) < 2 * g.n

(* The ends and the sums of the walks of k arcs. *)
RECURSIVE WalkSums(_, _, _)
WalkSums(g, start, k) ==
    IF k = 0 THEN {<<start, 0>>}
    ELSE UNION { { <<arc[1], end[2] + arc[2]>> : arc \in ToSet(g.adjacent[end[1]]) } : end \in WalkSums(g, start, k - 1) }

Times(g, u, v) == Cardinality({ k \in DOMAIN g.arcs : g.arcs[k][1] = u /\ g.arcs[k][2] = v })

Preserves(map, g, h) == \A u, v \in Vertices(g) : Times(g, u, v) = Times(h, map[u], map[v])

IsomorphismExact(g, h, a) ==
    IF a = Nothing THEN \/ g.n # h.n \/ Len(g.arcs) # Len(h.arcs)
                        \/ \A map \in Permutations(Vertices(g)) : ~Preserves(map, g, h)
    ELSE LET map == [v \in { p[1] : p \in ToSet(a.map) } |-> (CHOOSE p \in ToSet(a.map) : p[1] = v)[2]] IN
         /\ map \in Permutations(Vertices(g)) /\ Preserves(map, g, h)

SteinerExact(g, chosen, a) ==
    LET edges == ExtractUndirectedEdges(g)
        Joins(E) == \E class \in Classes(Vertices(g), { edges[k] : k \in E }) : ToSet(chosen) \subseteq class
        Total(E) == SumOf(Ascending(E), LAMBDA k : edges[k][3])
        joining == { Total(E) : E \in { F \in SUBSET DOMAIN edges : Joins(F) } }
    IN  IF g.directed \/ \E k \in DOMAIN edges : edges[k][3] < 0 THEN a = Refused
        ELSE IF chosen = << >> THEN a.total = 0 /\ a.edges = << >>
        ELSE IF joining = {} THEN a = Nothing
        ELSE IF Min(joining) > WeightMax THEN a = Overflow
        ELSE a.total = Min(joining) /\ Total(ToSet(a.edges)) = a.total /\ Joins(ToSet(a.edges))

HamiltonianExact(g, a) ==
    LET between(u, v) == { g.arcs[k][3] : k \in { j \in DOMAIN g.arcs : g.arcs[j][1] = u /\ g.arcs[j][2] = v } }
        Tour(p) == [k \in 1 .. g.n + 1 |-> IF k <= g.n THEN p[k - 1] ELSE p[0]]
        Closed(walk) == \A k \in 1 .. Len(walk) - 1 : between(walk[k], walk[k + 1]) # {}
        Total(walk) == SumOf(Upto(Len(walk) - 1), LAMBDA k : Min(between(walk[k + 1], walk[k + 2])))
        tours == { w \in { Tour(p) : p \in { q \in Permutations(Vertices(g)) : q[0] = 0 } } : Closed(w) }
        least == Min({ Total(w) : w \in tours })
    IN  IF tours = {} THEN a = Nothing
        ELSE IF ~Fits(least) THEN a = Overflow
        ELSE a.total = least /\ a.cycle \in tours /\ Total(a.cycle) = least

InducedPath(g) ==
    \E p, q, r, s \in Vertices(g) :
        /\ Cardinality({p, q, r, s}) = 4
        /\ q \in Near(g, p) /\ r \in Near(g, q) /\ s \in Near(g, r)
        /\ r \notin Near(g, p) /\ s \notin Near(g, p) \cup Near(g, q)

RECURSIVE LeavesBelow(_, _)
LeavesBelow(nodes, id) == nodes[id].vertices \cup UNION { LeavesBelow(nodes, c) : c \in ToSet(nodes[id].children) }

(* The kind of the lowest node that two vertices are below. *)
Meeting(nodes, u, v) ==
    (CHOOSE node \in ToSet(nodes) :
        \E c, d \in ToSet(node.children) : c # d /\ u \in LeavesBelow(nodes, c) /\ v \in LeavesBelow(nodes, d)).kind

TamperedCotree(nodes) ==
    UNION { { [nodes EXCEPT ![k].kind = IF @ = "union" THEN "join" ELSE "union"], [nodes EXCEPT ![k].children = Reverse(@)],
              [nodes EXCEPT ![k].children = @ \o @], [nodes EXCEPT ![k].vertices = @ \cup {0}],
              [nodes EXCEPT ![k].children = IF @ = << >> THEN @ ELSE Tail(@)] } : k \in DOMAIN nodes }
    \ {nodes}

CographExact(g, a) ==
    IF g.directed THEN a = Refused
    ELSE IF a = Nothing THEN InducedPath(g)
    ELSE /\ ~InducedPath(g) /\ a.valid /\ \A other \in a.tampered : ~other
         /\ \A u, v \in Vertices(g) : u # v =>
               Meeting(a.nodes, u, v) = IF v \in Near(g, u) THEN "join" ELSE "union"

CycleEdges(g) == { { {g.arcs[k][1], g.arcs[k][2]} : k \in ToSet(c) } : c \in { d \in Cycles(g) : Len(d) > 2 } }

CactusExact(g, a) ==
    LET sets == CycleEdges(g)
        edges(block) == { {e[1], e[2]} : e \in block.edges }
        Shared(e) == { c \in sets : e \in c }
    IN  IF ~SimpleEdges(g) THEN a = Refused
        ELSE /\ a.components = Cardinality(Components(g))
             /\ a.cactus = \A e \in UNION sets : Cardinality(Shared(e)) = 1
             /\ UNION { edges(b) : b \in a.blocks } = { {e[1], e[2]} : e \in EdgeSet(g) }
             /\ \A b \in a.blocks : \A e \in edges(b) :
                   CASE b.kind = "bridge" -> edges(b) = {e} /\ Shared(e) = {}
                     [] b.kind = "cycle" -> Shared(e) = {edges(b)} /\ EdgesAlong(Append(b.cycle, b.cycle[1])) = edges(b)
                     [] b.kind = "complex" -> /\ \E f \in edges(b) : Cardinality(Shared(f)) > 1
                                              /\ UNION Shared(e) \subseteq edges(b) /\ Shared(e) # {}

Power(x, k) == IF k = 0 THEN 1 ELSE x ^ k

(* The polynomial as a sum over the sets of edges. *)
TutteExact(g, a) ==
    LET edges == ExtractUndirectedEdges(g)
        Rank(E) == g.n - Cardinality(Classes(Vertices(g), { edges[k] : k \in E }))
        whole == Rank(DOMAIN edges)
        rank == [E \in SUBSET DOMAIN edges |-> Rank(E)]
    IN  Once(rank, LAMBDA r : \A x, y \in 0 .. 3 :
            SumOf(Listed(DOMAIN a.terms), LAMBDA d : TutteCoefficient(a.terms, d[1], d[2]) * Power(x, d[1]) * Power(y, d[2]))
            = SumOf(Listed(SUBSET DOMAIN edges), LAMBDA E :
                  Power(x - 1, whole - r[E]) * Power(y - 1, Cardinality(E) - r[E])))

Sources(g) == { class \in StrongClasses(g) : \A e \in EdgeSet(g) : e[2] \in class => e[1] \in class }
Sinks(g) == { class \in StrongClasses(g) : \A e \in EdgeSet(g) : e[1] \in class => e[2] \in class }

(* Every source and every sink takes an arc, so fewer than these do not do. *)
AugmentationExact(g, a) ==
    IF ~g.directed THEN a = Refused
    ELSE IF Cardinality(StrongClasses(g)) = 1 THEN a.added = << >>
    ELSE /\ Len(a.added) = Max({Cardinality(Sources(g)), Cardinality(Sinks(g))})
         /\ Cardinality(StrongClasses(GraphOf(g.n, TRUE, g.arcs \o [k \in DOMAIN a.added |-> a.added[k] \o <<1>>]))) = 1

Matchings(edges) ==
    { M \in SUBSET ToSet(edges) : \A e, f \in M : e # f => e[1] # f[1] /\ e[2] # f[2] }

(* From all of the matchings that are as large as possible. *)
RegionsExact(leftCount, rightCount, edges, a) ==
    Once(Matchings(edges), LAMBDA matchings :
    Once({ M \in matchings : \A N \in matchings : Cardinality(N) <= Cardinality(M) }, LAMBDA maximum :
    LET Spared(side, v) == \E M \in maximum : \A e \in M : e[side] # v
        leftSpared == { l \in 0 .. leftCount - 1 : Spared(1, l) }
        rightSpared == { r \in 0 .. rightCount - 1 : Spared(2, r) }
        beside == { e[2] : e \in { f \in ToSet(edges) : f[1] \in leftSpared } }
        besideRight == { e[1] : e \in { f \in ToSet(edges) : f[2] \in rightSpared } }
        lefts == (0 .. leftCount - 1) \ (leftSpared \cup besideRight)
        rights == (0 .. rightCount - 1) \ (rightSpared \cup beside)
        inside == { e \in ToSet(edges) : e[1] \in lefts /\ e[2] \in rights }
        allowed == { <<e[1], leftCount + e[2]>> : e \in UNION maximum \cap inside }
        BlockWith(side, v) == CHOOSE b \in DOMAIN a.blocks : v \in a.blocks[b][side]
    IN  /\ a.leftDeficient = leftSpared \cup { leftCount + r : r \in beside }
        /\ a.rightDeficient = { leftCount + r : r \in rightSpared } \cup besideRight
        /\ { a.blocks[b].left \cup { leftCount + r : r \in a.blocks[b].right } : b \in DOMAIN a.blocks }
           = Classes(lefts \cup { leftCount + r : r \in rights }, allowed)
        /\ \A b \in 1 .. Len(a.blocks) - 1 : Min(a.blocks[b].left) < Min(a.blocks[b + 1].left)
        /\ a.dag = { p \in { <<BlockWith("left", e[1]), BlockWith("right", e[2])>> : e \in inside } : p[1] # p[2] }
        /\ \A b \in DOMAIN a.blocks :
              b \notin Explored({ p[2] : p \in { q \in a.dag : q[1] = b } }, LAMBDA c : { p[2] : p \in { q \in a.dag : q[1] = c } })))

(* No cycle of four or more vertices is without a chord. *)
Chordal(vertices, joined) ==
    \A S \in SUBSET vertices :
        ~ /\ Cardinality(S) > 3
          /\ \A v \in S : Cardinality({ u \in S : {u, v} \in joined }) = 2
          /\ Explored({Min(S)}, LAMBDA v : { u \in S : {u, v} \in joined }) = S

FillInExact(g, a) ==
    LET joined == { {e[1], e[2]} : e \in { f \in EdgeSet(g) : f[1] # f[2] } }
        missing == { {u, v} : u, v \in Vertices(g) } \ (joined \cup { {v} : v \in Vertices(g) })
        fill == { {p[1], p[2]} : p \in ToSet(a.fill) }
    IN  /\ Len(a.fill) = a.count /\ Cardinality(fill) = a.count /\ fill \subseteq missing
        /\ Chordal(Vertices(g), joined \cup fill)
        /\ \A F \in SUBSET missing : Cardinality(F) = a.count - 1 => ~Chordal(Vertices(g), joined \cup F)
        /\ IsPermutation(a.order, Vertices(g))
        /\ \A k \in DOMAIN a.order :
              LET later == { u \in ToSet(SubSeq(a.order, k, g.n)) : {u, a.order[k]} \in joined \cup fill } IN
              \A u, v \in later : u # v => {u, v} \in joined \cup fill

DensestExact(g, a) ==
    LET edges == ExtractUndirectedEdges(g)
        Count(S) == Len(SelectSeq(edges, LAMBDA e : {e[1], e[2]} \subseteq S))
    IN  IF \E k \in DOMAIN edges : edges[k][1] = edges[k][2] THEN a = Refused
        ELSE IF a = Overflow THEN Len(edges) * (g.n * g.n + 1) * (g.n + 2) > WeightMax
        ELSE /\ a.count = Count(a.vertices) /\ a.vertices \subseteq Vertices(g) /\ (g.n > 0 => a.vertices # {})
             /\ \A S \in SUBSET Vertices(g) : Count(S) * Cardinality(a.vertices) <= a.count * Cardinality(S)

Without(g, removed) ==
    [g EXCEPT !.adjacent = [v \in Vertices(g) |-> IF v \in removed THEN << >> ELSE SelectSeq(g.adjacent[v], LAMBDA arc : arc[1] \notin removed)]]

FeedbackExact(g, a) ==
    LET Breaks(S) == ~Cyclic(Without(g, S))
        kept == Vertices(g) \ a.removed
    IN  /\ Breaks(a.removed)
        /\ \A S \in SUBSET Vertices(g) : Breaks(S) =>
              S = a.removed \/ Precedes(<<Cardinality(a.removed)>> \o Ascending(a.removed), <<Cardinality(S)>> \o Ascending(S))
        /\ a.forced = { v \in Vertices(g) : <<v, v>> \in EdgeSet(g) }
        /\ IsPermutation(a.order, kept)
        /\ \A e \in EdgeSet(g) : {e[1], e[2]} \subseteq kept => PlaceOf(a.order, e[1]) < PlaceOf(a.order, e[2])

OrientationExact(g, a) ==
    LET edges == ExtractUndirectedEdges(g)
        bridges == { k \in DOMAIN edges :
            Cardinality(Classes(Vertices(g), { edges[j] : j \in DOMAIN edges \ {k} })) > Cardinality(Components(g)) }
    IN  IF Cardinality(Components(g)) > 1 THEN a.status = "disconnected"
        ELSE IF bridges # {} THEN a.status = "bridge" /\ a.edge = Min(bridges)
        ELSE /\ a.status = "success" /\ DOMAIN a.edges = DOMAIN edges
             /\ \A k \in DOMAIN edges : {a.edges[k][1], a.edges[k][2]} = {edges[k][1], edges[k][2]}
             /\ Cardinality(StrongClasses(GraphOf(g.n, TRUE, [k \in DOMAIN edges |-> a.edges[k] \o <<1>>]))) <= 1

(* Paths in a part of the graph are no longer than in all of it. *)
PartsKeepDistances(g) ==
    \A S \in SUBSET Vertices(g) : \A u \in Vertices(g) \ S :
        LET inside == HopDistances(Without(g, S), u)
            whole == HopDistances(g, u)
        IN  \A v \in DOMAIN inside : inside[v] = whole[v]

TamperedSteps(steps) ==
    UNION { { RemoveAt(steps, k), Append(steps, steps[k]), [steps EXCEPT ![k][3] = steps[k][2]],
              [steps EXCEPT ![k][1] = CASE @ = "true_twin" -> "false_twin" [] @ = "false_twin" -> "true_twin" [] OTHER -> "false_twin",
                            ![k][2] = -1] } : k \in DOMAIN steps }

HereditaryExact(g, a) ==
    IF a = Nothing THEN ~PartsKeepDistances(g)
    ELSE PartsKeepDistances(g) /\ a.valid /\ \A other \in a.tampered : ~other

DegreesExact(left, right, a) ==
    LET cells == (DOMAIN left) \X (DOMAIN right)
        Realizes(E) == /\ \A v \in DOMAIN left : Cardinality({ e \in E : e[1] = v }) = left[v]
                       /\ \A u \in DOMAIN right : Cardinality({ e \in E : e[2] = u }) = right[u]
        possible == \E E \in SUBSET cells : Realizes(E)
    IN  IF \E v \in DOMAIN left : left[v] > Len(right) THEN a.graphical = Refused /\ a.realization = Refused
        ELSE /\ a.graphical.graphical = possible
             /\ IF ~possible THEN a.realization = Nothing
                ELSE /\ a.valid /\ \A other \in a.tampered : ~other
                     /\ Realizes(ToSet(a.realization.edges))
                     /\ a.realization.steps = Cardinality({ v \in DOMAIN left : left[v] > 0 })

(* A graph of six vertices at most is planar unless it holds three vertices  *)
(* joined to three others, or five joined to each other, one of which may be *)
(* two adjacent ones.                                                        *)
HoldsKuratowski(g) ==
    LET Joined(u, v) == v \in Near(g, u)
        As(w, u) == { x \in Vertices(g) : Joined(u, x) \/ (Joined(w, u) /\ Joined(w, x)) }
    IN  \/ \E S \in SUBSET Vertices(g) : \E T \in SUBSET (Vertices(g) \ S) :
              Cardinality(S) = 3 /\ Cardinality(T) = 3 /\ \A u \in S : \A v \in T : Joined(u, v)
        \/ \E w \in Vertices(g) : \E F \in SUBSET (Vertices(g) \ {w}) :
              /\ Cardinality(F) = 5
              /\ \E x \in F : \A u, v \in F : u # v => IF u = x THEN v \in As(w, x) ELSE v = x \/ Joined(u, v)

PlanarityExact(g, a) ==
    IF a = Nothing THEN HoldsKuratowski(g)
    ELSE LET classes == ByLeast(Components(g))
             edgesIn(c) == Cardinality({ {e[1], e[2]} : e \in { f \in EdgeSet(g) : f[1] \in c /\ f[1] # f[2] } })
         IN  /\ ~HoldsKuratowski(g)
             /\ \A v \in Vertices(g) : IsPermutation(a.rotation[v], Near(g, v) \ {v})
             /\ a.faces = [k \in DOMAIN classes |-> edgesIn(classes[k]) - Cardinality(classes[k]) + 2]

StructureResult(t, i) ==
    CASE t = "suurballe" -> SuurballePaths(i.graph, i.start, i.target)
      [] t = "open_ear" -> OpenEarDecomposition(i.graph)
      [] t = "thorup_zwick" ->
            Once(ThorupZwickOracle(i.graph, i.drawn), LAMBDA oracle :
                IF oracle \in {Refused, Overflow} THEN oracle
                ELSE [query |-> [u, v \in Vertices(i.graph) |-> OracleQuery(oracle.index, u, v)]])
      [] t = "subtree_frequency" -> SubtreeFrequencies(i.graph, i.label, i.start)
      [] t = "rake_compress" ->
            Once(RakeCompressContraction(i.graph, i.start), LAMBDA a :
                IF a = Refused THEN a
                ELSE [rounds |-> a.rounds, valid |-> ValidContraction(i.graph, i.start, a.rounds),
                      tampered |-> { ValidContraction(i.graph, i.start, r) : r \in Tampered(a.rounds) }])
      [] t = "min_plus" -> MinPlusProduct(i.first, i.second)
      [] t = "walk_distances" -> ExactWalkDistances(i.graph, i.count)
      [] t = "isomorphism" -> ExactGraphIsomorphism(i.graph, i.other)
      [] t = "steiner_tree" -> MinimumSteinerTree(i.graph, i.chosen)
      [] t = "hamiltonian_cycle" -> MinimumHamiltonianCycle(i.graph)
      [] t = "cograph" ->
            Once(CographCotree(i.graph), LAMBDA a :
                IF a \in {Refused, Nothing} THEN a
                ELSE [nodes |-> a.nodes, valid |-> ValidCotree(i.graph, a.nodes, a.root),
                      tampered |-> { ValidCotree(i.graph, nodes, a.root) : nodes \in TamperedCotree(a.nodes) }])
      [] t = "cactus" -> AnalyzeCactusForest(i.graph)
      [] t = "tutte_polynomial" -> TuttePolynomial(i.graph)
      [] t = "strong_augmentation" -> StrongConnectivityAugmentation(i.graph)
      [] t = "dulmage_mendelsohn" -> DulmageMendelsohn(3, i.right, i.edges)
      [] t = "fill_in" -> ExactMinimumFillIn(i.graph)
      [] t = "densest_subgraph" -> DensestSubgraph(i.graph)
      [] t = "feedback_vertices" -> MinimumFeedbackVertexSet(i.graph)
      [] t = "strong_orientation" -> StrongOrientation(i.graph)
      [] t = "distance_hereditary" ->
            Once(DistanceHereditaryPruning(i.graph), LAMBDA a :
                IF a = Nothing THEN a
                ELSE [steps |-> a.steps, valid |-> ValidPruning(i.graph, a.steps, a.survivor),
                      tampered |-> { ValidPruning(i.graph, s, a.survivor) : s \in TamperedSteps(a.steps) }
                                   \cup { ValidPruning(i.graph, a.steps, s) : s \in {{}, {-1}, {i.graph.n}} \ {a.survivor} }])
      [] t = "degree_sequences" ->
            Once(HavelHakimi(i.left, i.right), LAMBDA a :
                [graphical |-> GaleRyser(i.left, i.right), realization |-> a,
                 valid |-> a \in {Refused, Nothing} \/ ValidDegreeRealization(i.left, i.right, a.edges),
                 tampered |-> IF a \in {Refused, Nothing} THEN {}
                              ELSE { ValidDegreeRealization(i.left, i.right, e) :
                                     e \in ({ RemoveAt(a.edges, k) : k \in DOMAIN a.edges } \cup { Reverse(a.edges), a.edges \o a.edges }) \ {a.edges} }])
      [] t = "planarity" -> PlanarRotationEmbedding(i.graph)

StructureExact(t, i, a) ==
    CASE t = "suurballe" -> SuurballeExact(i.graph, i.start, i.target, a)
      [] t = "open_ear" -> EarsExact(i.graph, a)
      [] t = "thorup_zwick" -> StretchExact(i.graph, a)
      [] t = "subtree_frequency" -> FrequenciesExact(i.graph, i.label, i.start, a)
      [] t = "rake_compress" -> ContractionExact(i.graph, i.start, a)
      [] t = "min_plus" ->
            LET sums == { i.first[1][k] + i.second[k][1] : k \in { j \in 1 .. 2 : Infinite \notin {i.first[1][j], i.second[j][1]} } } IN
            IF sums = {} THEN a.matrix[1][1] = Infinite
            ELSE IF Fits(Min(sums)) THEN a.matrix[1][1] = Min(sums) ELSE a = Overflow
      [] t = "walk_distances" ->
            LET Weights(u, v) == { sum \in WalkSums(i.graph, u, i.count) : sum[1] = v } IN
            IF \E u, v \in Vertices(i.graph) : Weights(u, v) # {} /\ \A s \in Weights(u, v) : s[2] > WeightMax
            THEN a = Overflow
            ELSE \A u, v \in Vertices(i.graph) :
                    a.matrix[u + 1][v + 1] = IF Weights(u, v) = {} THEN Infinite
                                             ELSE Min({ s[2] : s \in Weights(u, v) })
      [] t = "isomorphism" -> IsomorphismExact(i.graph, i.other, a)
      [] t = "steiner_tree" -> SteinerExact(i.graph, i.chosen, a)
      [] t = "hamiltonian_cycle" -> HamiltonianExact(i.graph, a)
      [] t = "cograph" -> CographExact(i.graph, a)
      [] t = "cactus" -> CactusExact(i.graph, a)
      [] t = "tutte_polynomial" -> TutteExact(i.graph, a)
      [] t = "strong_augmentation" -> AugmentationExact(i.graph, a)
      [] t = "dulmage_mendelsohn" -> RegionsExact(3, i.right, i.edges, a)
      [] t = "fill_in" -> FillInExact(i.graph, a)
      [] t = "densest_subgraph" -> DensestExact(i.graph, a)
      [] t = "feedback_vertices" -> FeedbackExact(i.graph, a)
      [] t = "strong_orientation" -> OrientationExact(i.graph, a)
      [] t = "distance_hereditary" -> HereditaryExact(i.graph, a)
      [] t = "degree_sequences" -> DegreesExact(i.left, i.right, a)
      [] t = "planarity" -> PlanarityExact(i.graph, a)

RouteArcs == << <<0, 1, 1>>, <<1, 2, 1>>, <<2, 3, 1>>, <<0, 2, 4>>, <<1, 3, 5>>, <<0, 1, 3>>, <<2, 3, WeightMax - 9>>, <<3, 0, 0>>, <<2, 1, 0>> >>
MeshEdges == << <<4, 0, 1>>, <<0, 1, 1>>, <<1, 2, 1>>, <<2, 3, 1>>, <<3, 4, 1>>, <<0, 2, 1>>, <<1, 3, 1>>, <<2, 4, 1>>, <<0, 5, 1>>, <<5, 3, 1>> >>
Meshes == { GraphOf(6, FALSE, e) : e \in { f \in Subsequences(MeshEdges) : Len(f) >= 6 } }
Labels == { [v \in 0 .. 4 |-> l[v + 1]] : l \in {<<7, -1, 7, -1, 7>>, <<3, 3, 2, 2, 1>>} }

Cubics ==
    { GraphOf(6, FALSE, [k \in DOMAIN e |-> <<e[k][1], e[k][2], 1>>]) : e \in {
        << <<0, 1>>, <<1, 2>>, <<2, 3>>, <<3, 4>>, <<4, 5>>, <<5, 0>> >>, << <<0, 2>>, <<2, 4>>, <<4, 0>>, <<1, 3>>, <<3, 5>>, <<5, 1>> >>,
        << <<0, 1>>, <<1, 2>>, <<2, 0>>, <<3, 4>>, <<4, 5>>, <<5, 3>>, <<0, 3>>, <<1, 4>>, <<2, 5>> >>,
        << <<0, 1>>, <<0, 3>>, <<0, 5>>, <<2, 1>>, <<2, 3>>, <<2, 5>>, <<4, 1>>, <<4, 3>>, <<4, 5>> >> } }

(* The graph of a list of edges with its vertices renamed and the list reversed, and with an edge moved. *)
Renamed(edges) == GraphOf(4, FALSE, Reverse([k \in DOMAIN edges |-> <<3 - edges[k][1], 3 - edges[k][2], 1>>]))
Moved(edges) == GraphOf(4, FALSE, [edges EXCEPT ![1] = <<2, 3, 1>>])

FiveCycles == { GraphOf(5, FALSE, e) : e \in Subsequences(<< <<0, 1, 1>>, <<1, 2, 1>>, <<2, 3, 1>>, <<3, 4, 1>>, <<4, 0, 1>>, <<0, 2, 1>>, <<1, 3, 1>> >>) }
Dense ==
    { GraphOf(6, FALSE, [k \in DOMAIN e |-> e[k] \o <<1>>]) : e \in {
        InOrder({0, 1, 2} \X {3, 4, 5}), InOrder({0, 2, 4} \X {1, 3, 5}),
        InOrder({ <<u, v>> \in (0 .. 4) \X (0 .. 4) : u < v }), InOrder({ <<u, v>> \in (0 .. 4) \X (0 .. 4) : u < v } \ {<<0, 1>>, <<3, 4>>}) } }

StructureInputs(t) ==
    CASE t = "suurballe" -> { [graph |-> GraphOf(4, TRUE, e), start |-> 0, target |-> 3] : e \in Subsequences(RouteArcs) }
      [] t = "open_ear" -> { [graph |-> g] : g \in Undirected \cup Meshes }
      [] t = "thorup_zwick" -> { [graph |-> g, drawn |-> d] : g \in Undirected, d \in {{}, {1}} }
      [] t = "subtree_frequency" ->
            { [graph |-> g, start |-> 2, label |-> l] : g \in { h \in Trees : h.arcs[1][2] # 3 }, l \in Labels }
            \cup { [graph |-> TreeFrom(up, TRUE), start |-> 0, label |-> [v \in 0 .. 5 |-> v % 3]] : up \in Hangings(6) }
      [] t = "rake_compress" ->
            { [graph |-> TreeFrom(up, FALSE), start |-> v] : up \in Hangings(6), v \in {0, 2, 5} }
            \cup { [graph |-> g, start |-> 0] : g \in Trees \cup {GraphOf(1, FALSE, << >>), TreeFrom([k \in 1 .. 9 |-> k - 1], TRUE)} }
      [] t = "min_plus" ->
            { [first |-> <<<<a, b>>>>, second |-> <<<<c>>, <<d>>>>] :
              a, b, c, d \in {-WeightMax - 1, -3, 5, WeightMax, Infinite} }
      [] t = "walk_distances" -> { [graph |-> g, count |-> k] : g \in { h \in Directed : Len(h.arcs) \in {0, 4, 6, 7} }, k \in {0, 2, 5} }
      [] t = "isomorphism" ->
            UNION { { [graph |-> GraphOf(4, FALSE, e), other |-> Renamed(e)], [graph |-> GraphOf(4, FALSE, e), other |-> Moved(e)] } :
                    e \in Subsequences(UndirectedEdges) \ {<< >>} }
            \cup { [graph |-> g, other |-> h] : g, h \in Cubics }
      [] t = "steiner_tree" ->
            { [graph |-> g, chosen |-> c] : g \in { h \in Undirected : Len(h.arcs) > 5 }, c \in {<<3, 0>>, <<1, 3, 0>>, <<2, 0, 1, 3>>} }
            \cup { [graph |-> GraphOf(4, FALSE, << <<0, 1, WeightMax>>, <<1, 3, w>> >>), chosen |-> <<0, 3>>] : w \in {-1, 0, 1} }
            \cup { [graph |-> g, chosen |-> <<0, 4, 3>>] : g \in { h \in Meshes : Len(h.arcs) > 18 } }
      [] t = "hamiltonian_cycle" ->
            { [graph |-> g] : g \in { h \in Directed \cup Signed : Len(h.arcs) >= 6 } }
      [] t = "cograph" -> { [graph |-> g] : g \in Undirected \cup { h \in Meshes : Len(h.arcs) > 16 } \cup { GraphOf(5, FALSE, e) : e \in Subsequences(AcyclicArcs) } }
      [] t = "cactus" -> { [graph |-> g] : g \in Undirected \cup Meshes }
      [] t = "tutte_polynomial" -> { [graph |-> g] : g \in { h \in Undirected : Len(h.arcs) < 14 } }
      [] t \in {"strong_augmentation", "feedback_vertices"} -> { [graph |-> g] : g \in { h \in Directed : Len(h.arcs) # 5 } }
      [] t = "dulmage_mendelsohn" -> { [edges |-> e, right |-> r] : e \in Subsequences(SideEdges), r \in {3} }
      [] t = "fill_in" -> { [graph |-> g] : g \in { h \in Undirected : Len(h.arcs) > 8 } \cup FiveCycles \cup { h \in Meshes : Len(h.arcs) = 14 } }
      [] t = "densest_subgraph" -> { [graph |-> g] : g \in { h \in Undirected : Len(h.arcs) \in {4, 9, 10} } \cup FiveCycles }
      [] t = "strong_orientation" -> { [graph |-> g] : g \in Undirected \cup FiveCycles }
      [] t = "distance_hereditary" -> { [graph |-> g] : g \in FiveCycles \cup { h \in Undirected : Len(h.arcs) \in {6, 8, 9} } }
      [] t = "degree_sequences" -> { [left |-> l, right |-> r] : l \in [1 .. 3 -> 0 .. 2] \cup {<<3, 0, 1>>}, r \in [1 .. 2 -> 0 .. 3] }
      [] t = "planarity" -> { [graph |-> g] : g \in { h \in Meshes : Len(h.arcs) > 16 } \cup Dense \cup FiveCycles }
-----------------------------------------------------------------------------
(***************************************************************************)
(* What the searches over preferences, clauses, games, automata, orders,   *)
(* trees and grammars should answer.                                       *)
(***************************************************************************)
CombinatorialTasks == {"stable_roommates", "cnf_sat", "parity_game",
                 "dfa_minimization", "top_trading_cycles", "exact_cover",
                 "poset_mobius", "tree_edit_distance", "optimal_bst",
                 "earley", "slr_parser",
                 "functional_graph", "vertex_connectivity", "k_shortest_paths", "a_star",
                 "prufer_encode", "prufer_decode", "treewidth", "coffman_graham", "degree_realization", "maximum_clique", "exact_coloring",
                 "nfa_determinization", "cyk_parser", "robinson_schensted", "inverse_robinson_schensted", "subset_sum", "dominating_set",
                 "matroid_intersection", "matroid_union", "weighted_matroid_intersection", "length_limited_huffman", "garsia_wachs", "smith_normal_form"}

RECURSIVE PerfectMatchings(_)
PerfectMatchings(people) ==
    IF people = {} THEN {<< >>}
    ELSE UNION { { (Min(people) :> q) @@ (q :> Min(people)) @@ m : m \in PerfectMatchings(people \ {Min(people), q}) } :
                 q \in people \ {Min(people)} }

Prefers(row, a, b) == \E k \in DOMAIN row : row[k] = a /\ \E j \in DOMAIN row : j > k /\ row[j] = b

StableMatching(preferences, partner) ==
    \A p \in DOMAIN preferences : \A q \in DOMAIN preferences \ {p} :
        ~(Prefers(preferences[p], q, partner[p]) /\ Prefers(preferences[q], p, partner[q]))

Satisfying(clauses, true) ==
    \A c \in ToSet(clauses) : \E l \in ToSet(c) : (l \div 2 \in true) <=> (l % 2 = 1)

(* The vertices from which the player loses no cycle, when it moves by choice. *)
WonBy(game, player, choice) ==
    LET Moves(v) == IF v \in DOMAIN choice THEN {choice[v]} ELSE ToSet(Targets(game.graph, v))
        Bad(v) == /\ game.priority[v] % 2 # player
                  /\ \E u \in Moves(v) : v \in Explored({u}, LAMBDA w :
                        IF game.priority[w] > game.priority[v] THEN {} ELSE Moves(w))
    IN  { v \in Vertices(game.graph) : \A u \in Explored({v}, Moves) : ~Bad(u) }

Strategies(game, player) ==
    LET mine == { v \in Vertices(game.graph) : game.owner[v] = player }
    IN  { c \in [mine -> Vertices(game.graph)] : \A v \in mine : c[v] \in ToSet(Targets(game.graph, v)) }

WinningRegion(game, player) == UNION { WonBy(game, player, c) : c \in Strategies(game, player) }

RECURSIVE RunFrom(_, _, _)
RunFrom(transitions, state, word) ==
    IF word = << >> THEN state ELSE RunFrom(transitions, transitions[state][Head(word)], Tail(word))

WordsUpTo(symbols, length) == UNION { [1 .. k -> symbols] : k \in 0 .. length }

(* The states no word of the length of the automaton tells apart. *)
Indistinguishable(dfa, p) ==
    { q \in ReachableStates(dfa) :
      \A w \in WordsUpTo(DOMAIN dfa.transitions[0], Cardinality(DOMAIN dfa.transitions) - 1) :
          RunFrom(dfa.transitions, p, w) \in dfa.accepting <=> RunFrom(dfa.transitions, q, w) \in dfa.accepting }

Likes(row, a, b) == a = b \/ Prefers(row, a, b)

(* No group does better with its own houses. *)
InCore(preferences, allocation) ==
    \A group \in SUBSET DOMAIN preferences \ {{}} :
        \A f \in { g \in [group -> group] : IsInjective(g) } :
            (\E p \in group : Prefers(preferences[p], f[p], allocation[p]))
            => \E p \in group : ~Likes(preferences[p], f[p], allocation[p])

Covers(rows, columns, chosen) ==
    \A c \in 0 .. columns - 1 : Cardinality({ r \in chosen : c \in ToSet(rows[r]) }) = 1

DownSet(g, v) == { u \in Vertices(g) : v \in Reach(g, u) }
PlainZeta(g, values) == [v \in Vertices(g) |-> SumOf(Ascending(DownSet(g, v)), LAMBDA u : values[u])]
RECURSIVE PlainMobius(_, _, _)
PlainMobius(g, zeta, v) == zeta[v] - SumOf(Ascending(DownSet(g, v) \ {v}), LAMBDA u : PlainMobius(g, zeta, u))

(* The nodes below a node; a mapping between trees keeps what is below what  *)
(* and what comes before what, and costs what it leaves out or relabels.     *)
Descendants(tree, v) == Explored({v}, LAMBDA u : ToSet(tree.children[u]))
TreeOrder(tree) == IF tree.root = NoVertex THEN << >> ELSE PostorderOf(tree, tree.root)
MappingCosts(source, target) ==
    LET a == TreeOrder(source)
        b == TreeOrder(target)
        Chosen(n, size) == { Ascending(c) : c \in { d \in SUBSET (1 .. n) : Cardinality(d) = size } }
    IN  UNION { { Len(a) + Len(b) - 2 * size + Cardinality({ k \in 1 .. size : source.label[a[f[k]]] # target.label[b[g[k]]] }) :
                  <<f, g>> \in { p \in Chosen(Len(a), size) \X Chosen(Len(b), size) :
                      \A j, k \in 1 .. size : a[p[1][j]] \in Descendants(source, a[p[1][k]])
                                              <=> b[p[2][j]] \in Descendants(target, b[p[2][k]]) } } :
                size \in 0 .. Min({Len(a), Len(b)}) }

BadTrees == { [label |-> [v \in 0 .. 2 |-> v], root |-> r, children |-> [v \in 0 .. 2 |-> c[v + 1]]] :
              r \in {0, 3}, c \in {<< <<1, 2>>, <<2>>, << >> >>, << << >>, <<2>>, <<1>> >>, << <<1>>, <<0>>, << >> >>} }

RECURSIVE LeastTreeCost(_, _, _, _)
LeastTreeCost(keys, gaps, begin, end) ==
    IF begin = end THEN gaps[begin + 1]
    ELSE IntervalWeight(keys, gaps, begin, end)
         + Min({ LeastTreeCost(keys, gaps, begin, r) + LeastTreeCost(keys, gaps, r + 1, end) : r \in begin .. end - 1 })

(* The words of at most three bytes each nonterminal derives. *)
Concatenations(symbols, language) ==
    Each(symbols, {<< >>}, LAMBDA x, words :
        { w \in { u \o v : u \in words, v \in (IF x[1] = 1 THEN {<<x[2]>>} ELSE language[x[2]]) } : Len(w) <= 3 })

Derivable(grammar) ==
    Stable([n \in 0 .. grammar.count - 1 |-> {}], LAMBDA language :
        [n \in 0 .. grammar.count - 1 |->
            UNION { Concatenations(r[2], language) : r \in { q \in ToSet(grammar.rules) : q[1] = n } }])

BadGrammar(g) == g.start >= g.count \/ \E r \in ToSet(g.rules) : r[1] >= g.count

(* The reductions backwards, each at the rightmost nonterminal. *)
RightmostDerivation(grammar, rules, trace) ==
    Each(Reverse(SelectSeq(trace, LAMBDA step : step[1] = "reduce")), << <<0, grammar.start>> >>, LAMBDA step, form :
        LET at == Max({ k \in DOMAIN form : form[k][1] = 0 } \cup {0})
        IN  IF at = 0 THEN << >>
            ELSE IF form[at][2] # rules[step[2]][1] THEN << >>
            ELSE SubSeq(form, 1, at - 1) \o rules[step[2]][2] \o SubSeq(form, at + 1, Len(form)))

RECURSIVE After(_, _, _)
After(successor, v, steps) == IF steps = 0 THEN v ELSE After(successor, successor[v], steps - 1)

FunctionalExact(successor, a) ==
    LET around == { v \in DOMAIN successor : \E k \in DOMAIN successor : After(successor, v, k + 1) = v } IN
    /\ UNION { ToSet(a.cycles[c]) : c \in DOMAIN a.cycles } = around
    /\ \A c \in DOMAIN a.cycles : LET cycle == a.cycles[c] IN
          /\ IsInjective(cycle) /\ cycle[1] = Min(ToSet(cycle))
          /\ \A k \in DOMAIN cycle : successor[cycle[k]] = cycle[(k % Len(cycle)) + 1]
          /\ c > 1 => a.cycles[c - 1][1] < cycle[1]
    /\ \A v \in DOMAIN successor :
          /\ a.place[v].distance = Min({ k \in 0 .. Cardinality(DOMAIN successor) : After(successor, v, k) \in around })
          /\ a.kth[v] = [j \in DOMAIN a.steps |-> After(successor, v, IF a.steps[j] < 8 THEN a.steps[j] ELSE 24 + (a.steps[j] % 60))]
          /\ \A w \in DOMAIN successor :
                LET hits == { k \in 0 .. Cardinality(DOMAIN successor) : After(successor, v, k) = w }
                IN  a.reach[v][w] = IF hits = {} THEN Nothing ELSE [steps |-> Min(hits)]

Separates(g, S) ==
    Cardinality(Classes(Vertices(g) \ S, { e \in EdgeSet(g) : {e[1], e[2]} \cap S = {} })) # 1

ConnectivityExact(g, a) ==
    /\ a.connected <=> (g.n = 1 \/ (g.n > 0 /\ ~Separates(g, {})))
    /\ a.complete <=> (g.n > 0 /\ \A v, w \in Vertices(g) : v = w \/ w \in Near(g, v))
    /\ a.connectivity = Cardinality(a.separator)
    /\ IF a.complete \/ g.n = 0 THEN a.connectivity = Max({0, g.n - 1})
       ELSE /\ a.connectivity = Min({ Cardinality(S) : S \in { T \in SUBSET Vertices(g) : T # Vertices(g) /\ Separates(g, T) } })
            /\ a.pair[1] < a.pair[2]
            /\ a.pair[2] \notin Explored({a.pair[1]}, LAMBDA v : Near(g, v) \ a.separator)

(* The simple paths, as arcs <<from, index>>. *)
RECURSIVE LooplessPaths(_, _, _, _)
LooplessPaths(g, from, to, avoided) ==
    IF from = to THEN {<< >>}
    ELSE UNION { { << <<from, k>> >> \o path : path \in LooplessPaths(g, g.adjacent[from][k][1], to, avoided \cup {from}) } :
                 k \in { j \in DOMAIN g.adjacent[from] : g.adjacent[from][j][1] \notin avoided \cup {from} } }

PathTotal(g, path) == SumOf(path, LAMBDA arc : g.adjacent[arc[1]][arc[2]][2])

YenExact(i, paths) ==
    LET all == LooplessPaths(i.graph, i.start, i.target, {})
        found == { paths[k].edges : k \in DOMAIN paths }
    IN  /\ IsInjective(paths) /\ found \subseteq all /\ Len(paths) = Min({i.k, Cardinality(all)})
        /\ \A k \in DOMAIN paths :
              /\ paths[k].total = PathTotal(i.graph, paths[k].edges)
              /\ paths[k].vertices = OnPath(i.graph, i.start, paths[k].edges)
              /\ k > 1 => paths[k - 1].total <= paths[k].total
              /\ \A path \in all \ found : paths[k].total <= PathTotal(i.graph, path)

AStarExact(i, a) ==
    Once(WeightedDistances(i.graph, i.start), LAMBDA distance :
        LET Estimate(v) == distance[v] + i.heuristic[v] IN
        IF i.target \notin DOMAIN distance
        THEN a.distance = Nothing /\ IsPermutation(a.order, DOMAIN distance)
        ELSE IF distance[i.target] > WeightMax THEN a = Overflow
        ELSE /\ a.distance.value = distance[i.target]
             /\ PathTotal(i.graph, a.edges) = distance[i.target]
             /\ a.edges \in LooplessPaths(i.graph, i.start, i.target, {})
             /\ IsInjective(a.order) /\ Last(a.order) = i.target
             /\ \A k \in 2 .. Len(a.order) : Estimate(a.order[k - 1]) <= Estimate(a.order[k])
             /\ { v \in DOMAIN distance : Estimate(v) < distance[i.target] } \subseteq ToSet(a.order))

LabelledTree(n, edges) ==
    /\ Cardinality(edges) = n - 1
    /\ Cardinality(Classes(0 .. n - 1, edges)) = 1

OccurrencesIn(list, x) == Cardinality({ k \in DOMAIN list : list[k] = x })

(* The width of the best order in which to eliminate the vertices.           *)
RECURSIVE LeastWidth(_, _)
LeastWidth(vertices, edges) ==
    IF vertices = {} THEN 0
    ELSE Min({ LET near == { u \in vertices \ {v} : {u, v} \in edges }
               IN  Max({Cardinality(near),
                        LeastWidth(vertices \ {v}, { e \in edges : v \notin e } \cup { {x, y} : x, y \in near })}) :
               v \in vertices })

TreewidthExact(g, a) ==
    LET order == [k \in DOMAIN a.steps |-> a.steps[k].vertex]
        Bag(k) == ToSet(a.steps[k].bag)
    IN  /\ a.width = LeastWidth(Vertices(g), { {e[1], e[2]} : e \in EdgeSet(g) })
        /\ IsPermutation(order, Vertices(g))
        /\ \A k \in DOMAIN order :
              /\ order[k] = a.steps[k].bag[1] /\ Cardinality(Bag(k)) <= a.width + 1
              /\ Bag(k) = {order[k]} \/ \E j \in DOMAIN order : j > k /\ Bag(k) \ {order[k]} \subseteq Bag(j)
        /\ \A e \in EdgeSet(g) : \E k \in DOMAIN order : {e[1], e[2]} \subseteq Bag(k)

RECURSIVE LeastMakespan(_, _)
LeastMakespan(after, left) ==
    IF left = {} THEN 0
    ELSE LET ready == { t \in left : \A u \in left : t \notin ToSet(after[u]) } IN
         1 + Min({ LeastMakespan(after, left \ S) : S \in { T \in SUBSET ready : Cardinality(T) = Min({2, Cardinality(ready)}) } })

AllAfter(after, t) == Explored(ToSet(after[t]), LAMBDA u : ToSet(after[u]))
WithoutDetours(after) == \A t \in DOMAIN after : \A u, v \in ToSet(after[t]) : v \notin AllAfter(after, u)

(* A legal schedule, by labels that respect the order.  That it is also the  *)
(* shortest is asked by ScheduleOptimal; here, of orders whose arcs are all  *)
(* needed, which the labels are made for.                                    *)
CoffmanExact(after, a) ==
    LET SlotOf(t) == CHOOSE k \in DOMAIN a.slots : t \in ToSet(a.slots[k]) IN
    /\ IsPermutation(FlattenSeq(a.slots), DOMAIN after)
    /\ \A k \in DOMAIN a.slots : Len(a.slots[k]) \in {1, 2}
    /\ \A t \in DOMAIN after : \A u \in ToSet(after[t]) : SlotOf(t) < SlotOf(u) /\ a.labels[t] > a.labels[u]
    /\ { a.labels[t] : t \in DOMAIN after } = 1 .. Cardinality(DOMAIN after)
    /\ WithoutDetours(after) => Len(a.slots) = LeastMakespan(after, DOMAIN after)

DegreeListsOf(n) ==
    { [k \in 1 .. n |-> Cardinality({ e \in E : k - 1 \in ToSet(e) })] :
      E \in SUBSET { <<u, v>> \in (0 .. n - 1) \X (0 .. n - 1) : u < v } }

Cliques(g) == { S \in SUBSET Vertices(g) : \A u, v \in S : u = v \/ v \in Near(g, u) }
LargestCliques(g) == { S \in Cliques(g) : \A T \in Cliques(g) : Cardinality(T) <= Cardinality(S) }
Colorable(g, k) == \E c \in [Vertices(g) -> 1 .. k] : \A e \in EdgeSet(g) : c[e[1]] # c[e[2]]

(* The states from which a word is accepted.                                 *)
RECURSIVE AcceptingFrom(_, _)
AcceptingFrom(nfa, word) ==
    Once(IF word = << >> THEN nfa.accepting
         ELSE Once(AcceptingFrom(nfa, Tail(word)), LAMBDA rest :
                  { q \in DOMAIN nfa.epsilon : ToSet(nfa.transitions[q][Head(word)]) \cap rest # {} }), LAMBDA after :
        { q \in DOMAIN nfa.epsilon : Explored({q}, LAMBDA p : ToSet(nfa.epsilon[p])) \cap after # {} })

DeterminizationExact(i, a) ==
    LET symbols == DOMAIN i.nfa.transitions[0]
        moves == <<1>> \o FlattenSeq(a.transitions)
        FirstAt(k) == Min({ j \in DOMAIN moves : moves[j] = k })
    IN
    /\ \A w \in WordsUpTo(symbols, 4) : RunFrom(a.transitions, 1, w) \in a.accepting <=> i.nfa.start \in AcceptingFrom(i.nfa, w)
    /\ IsInjective(a.subsets) /\ Len(a.subsets) <= i.limit
    /\ \A k \in DOMAIN a.subsets : \A q \in a.subsets[k] : ToSet(i.nfa.epsilon[q]) \subseteq a.subsets[k]
    /\ \A k \in 2 .. Len(a.subsets) : FirstAt(k - 1) < FirstAt(k)

PlainGrammar(g) ==
    [count |-> g.count, start |-> g.start,
     rules |-> [k \in DOMAIN g.terminal |-> <<g.terminal[k][1], << <<1, g.terminal[k][2]>> >> >>]
               \o [k \in DOMAIN g.binary |-> <<g.binary[k][1], << <<0, g.binary[k][2]>>, <<0, g.binary[k][3]>> >> >>]]

IsWitness(g, text, nodes) ==
    /\ Len(nodes) = 2 * Len(text) - 1
    /\ LET root == Last(nodes) IN root.lhs = g.start /\ root.begin = 0 /\ root.end = Len(text)
    /\ \A k \in DOMAIN nodes :
          LET node == nodes[k] IN
          IF node.children = << >>
          THEN node.end = node.begin + 1 /\ node.at = text[node.end] /\ <<node.lhs, node.at>> \in ToSet(g.terminal)
          ELSE LET left == nodes[node.children[1]]
                   right == nodes[node.children[2]]
               IN  /\ <<node.lhs, left.lhs, right.lhs>> \in ToSet(g.binary)
                   /\ left.begin = node.begin /\ left.end = node.at /\ right.begin = node.at /\ right.end = node.end
                   /\ node.children[2] < k /\ node.children[1] < node.children[2]

Monotone(list, less(_, _)) ==
    Max({ Len(s) : s \in { q \in Subsequences(list) : \A j \in 2 .. Len(q) : less(q[j - 1], q[j]) } })

InversePermutation(p) == [k \in DOMAIN p |-> (CHOOSE j \in DOMAIN p : p[j] = k - 1) - 1]

StandardTableaux ==
    {<< >>, << <<0, 1, 2>> >>, << <<0, 1>>, <<2>> >>, << <<0, 2>>, <<1>> >>, << <<0>>, <<1>>, <<2>> >>,
     << <<0, 1>>, <<2, 3>> >>, << <<0, 2>>, <<1, 3>> >>, << <<0, 1, 2>>, <<3>> >>, << <<0, 1, 3>>, <<2>> >>, << <<0, 2, 3>>, <<1>> >>}

SubsetSums(values) == { WeightOf(s) : s \in Subsequences(values) }

Dominates(g, S) == \A v \in Vertices(g) : v \in S \/ Near(g, v) \cap S # {}

LayerChoices(count, matroids) ==
    { f \in [0 .. count - 1 -> 0 .. Len(matroids)] :
        \A l \in DOMAIN matroids : { e \in 0 .. count - 1 : f[e] = l } \in matroids[l] }

(* The least cost of a code with no word longer than a limit.                *)
LeastCodeCost(frequencies, limit) ==
    LET active == { x \in DOMAIN frequencies : frequencies[x] > 0 } IN
    Min({ MapThenSumSet(LAMBDA x : frequencies[x] * f[x], active) :
          f \in { g \in [active -> 1 .. limit] : MapThenSumSet(LAMBDA x : 2 ^ (limit - g[x]), active) <= 2 ^ limit } })

(* The least cost of a tree whose leaves are i .. j in order.                *)
RECURSIVE AlphabeticCost(_, _, _)
AlphabeticCost(weights, i, j) ==
    IF i = j THEN 0
    ELSE WeightOf(SubSeq(weights, i, j))
         + Min({ AlphabeticCost(weights, i, k) + AlphabeticCost(weights, k + 1, j) : k \in i .. j - 1 })

(* The leaves of a tree from left to right, with their depths.               *)
RECURSIVE TreeLeaves(_, _, _, _)
TreeLeaves(nodes, count, v, depth) ==
    IF v < count THEN << <<v, depth>> >>
    ELSE TreeLeaves(nodes, count, nodes[v - count + 1][1], depth + 1) \o TreeLeaves(nodes, count, nodes[v - count + 1][2], depth + 1)

Product(a, b) ==
    [r \in DOMAIN a |-> [c \in DOMAIN b[1] |-> MapThenSumSet(LAMBDA k : a[r][k] * b[k][c], DOMAIN b)]]

RECURSIVE Determinant(_)
Determinant(m) ==
    IF m = << >> THEN 1
    ELSE MapThenSumSet(LAMBDA c : (IF c % 2 = 1 THEN 1 ELSE -1) * m[1][c]
                                  * Determinant([r \in 1 .. Len(m) - 1 |-> RemoveAt(m[r + 1], c)]), DOMAIN m)

SmithExact(m, a) ==
    /\ m = << >> \/ m[1] = << >> \/ Product(Product(a.left, m), a.right) = a.d
    /\ AbsoluteValue(Determinant(a.left)) = 1 /\ AbsoluteValue(Determinant(a.right)) = 1
    /\ \A r \in DOMAIN m : \A c \in DOMAIN m[r] :
          IF r = c /\ r <= Len(a.factors) THEN a.d[r][c] = a.factors[r] ELSE a.d[r][c] = 0
    /\ \A k \in DOMAIN a.factors : a.factors[k] > 0 /\ (k > 1 => a.factors[k] % a.factors[k - 1] = 0)

CombinatorialResult(t, i) ==
    CASE t = "stable_roommates" -> StableRoommates(i.preferences)
      [] t = "cnf_sat" -> SolveCnfSat(3, i.clauses)
      [] t = "parity_game" -> SolveParityGame(i)
      [] t = "dfa_minimization" -> MinimizeDfa(i)
      [] t = "top_trading_cycles" -> TopTradingCycles(i.preferences)
      [] t = "exact_cover" -> SolveExactCover(i.columns, i.rows)
      [] t = "poset_mobius" ->
            Once(FinitePosetIndex(i.graph), LAMBDA p :
                IF p = Refused THEN Refused
                ELSE [extension |-> p.extension, zeta |-> ZetaTransform(p, i.values), inverse |-> MobiusInvert(p, i.values)])
      [] t = "tree_edit_distance" -> OrderedTreeEditDistance(i.source, i.target)
      [] t = "optimal_bst" -> OptimalBinarySearchTree(i.keys, i.gaps)
      [] t = "earley" -> EarleyRecognize(i.grammar, i.text)
      [] t = "slr_parser" ->
            Once(BuildSlrParseTable(i.grammar), LAMBDA table :
                IF table = Refused THEN Refused
                ELSE [conflicts |-> table.conflicts, rules |-> table.rules, parse |-> SlrParse(table, i.text)])
      [] t = "functional_graph" ->
            Once(FunctionalGraphIndex(i.successor), LAMBDA index :
                IF index = Refused THEN Refused
                ELSE [cycles |-> index.cycles, place |-> index.place, steps |-> i.steps,
                      kth |-> [v \in DOMAIN i.successor |-> [j \in DOMAIN i.steps |-> KthSuccessor(index, v, i.steps[j])]],
                      reach |-> [v \in DOMAIN i.successor |-> [w \in DOMAIN i.successor |-> StepsToReach(index, v, w)]]])
      [] t = "vertex_connectivity" -> ExactVertexConnectivity(i.graph)
      [] t = "k_shortest_paths" -> YenKShortestLooplessPaths(i.graph, i.start, i.target, i.k)
      [] t = "a_star" -> AStarShortestPath(i.graph, i.start, i.target, i.heuristic)
      [] t = "prufer_encode" -> PruferEncode(i.graph)
      [] t = "prufer_decode" ->
            Once(PruferDecode(i.n, i.code), LAMBDA tree :
                IF tree = Refused THEN Refused
                ELSE [edges |-> tree.edges, again |-> PruferEncode(GraphOf(i.n, FALSE, [k \in DOMAIN tree.edges |-> tree.edges[k] \o <<1>>]))])
      [] t = "treewidth" -> ExactTreewidth(i.graph)
      [] t = "coffman_graham" -> CoffmanGrahamTwoProcessorSchedule(i.after)
      [] t = "degree_realization" ->
            Once(HavelHakimiRealization(i.degrees), LAMBDA r :
                IF r = Refused THEN Refused
                ELSE [graphical |-> ErdosGallaiGraphical(i.degrees), realization |-> r,
                      tampered |-> IF r = Nothing THEN << >>
                                   ELSE << ValidDegreeSequenceRealization(i.degrees, r),
                                           ValidDegreeSequenceRealization(i.degrees, [r EXCEPT !.edges = Reverse(@)]),
                                           ValidDegreeSequenceRealization(i.degrees, [r EXCEPT !.edges = SubSeq(@, 2, Len(@))]) >>])
      [] t = "maximum_clique" -> MaximumClique(i.graph)
      [] t = "exact_coloring" -> ExactGraphColoring(i.graph)
      [] t = "nfa_determinization" -> DeterminizeEpsilonNfa(i.nfa, i.limit)
      [] t = "cyk_parser" -> CykParse(i.grammar, i.text)
      [] t = "robinson_schensted" ->
            Once(RobinsonSchensted(i.permutation), LAMBDA r :
                IF r = Refused THEN Refused ELSE [tableaux |-> r, inverse |-> InverseRobinsonSchensted(r)])
      [] t = "inverse_robinson_schensted" ->
            Once(InverseRobinsonSchensted(i.tableaux), LAMBDA r :
                IF r = Refused THEN Refused ELSE [again |-> RobinsonSchensted(r.permutation)])
      [] t = "subset_sum" ->
            Once(SchroeppelShamirSubsetSum(i.values, i.target), LAMBDA w :
                [witness |-> w,
                 valid |-> w \notin {Overflow, Nothing} /\ ValidSubsetSumWitness(i.values, i.target, w),
                 tampered |-> ValidSubsetSumWitness(i.values, i.target, [sum |-> i.target, indices |-> i.claim])])
      [] t = "dominating_set" -> MinimumDominatingSet(i.graph)
      [] t = "matroid_intersection" -> MaximumCardinalityMatroidIntersection(4, i.first, i.second)
      [] t = "matroid_union" -> MaximumCardinalityMatroidUnion(i.count, i.matroids)
      [] t = "weighted_matroid_intersection" -> MaximumWeightMatroidIntersection(i.weights, i.first, i.second)
      [] t = "length_limited_huffman" -> LengthLimitedHuffman(i.frequencies, i.limit)
      [] t = "garsia_wachs" -> OptimalAlphabeticTree(i.weights)
      [] t = "smith_normal_form" -> SmithNormalForm(i.matrix)

CombinatorialExact(t, i, a) ==
    CASE t = "stable_roommates" ->
            IF i.preferences[0][1] = 0 THEN a = Refused
            ELSE LET stable == { m \in PerfectMatchings(DOMAIN i.preferences) : StableMatching(i.preferences, m) } IN
                 IF stable = {} THEN a = Nothing
                 ELSE a.partner \in stable /\ a.proposals <= Cardinality(DOMAIN i.preferences) ^ 2
      [] t = "cnf_sat" ->
            IF \E c \in ToSet(i.clauses) : 7 \in ToSet(c) THEN a = Refused
            ELSE LET models == { m \in SUBSET (0 .. 2) : Satisfying(i.clauses, m) } IN
                 /\ a.satisfiable <=> models # {}
                 /\ a.satisfiable => /\ a.assignment \in models
                                     /\ \A m \in models \ {a.assignment} :
                                           Min((m \ a.assignment) \cup (a.assignment \ m)) \in m
                                     /\ a.nodes <= 2 * a.decisions + 1
                 /\ ~a.satisfiable => a.assignment = {} /\ a.left = 0 /\ a.nodes = 2 * a.decisions + 1
      [] t = "parity_game" ->
            IF \E v \in Vertices(i.graph) : i.graph.adjacent[v] = << >> THEN a = Refused
            ELSE \A p \in {0, 1} : a.won[p] = WinningRegion(i, p)
      [] t = "dfa_minimization" ->
            IF DOMAIN i.transitions = {} \/ i.start \notin DOMAIN i.transitions THEN a = Refused
            ELSE LET Leading(k) == { w \in WordsUpTo(DOMAIN i.transitions[0], Len(a.classes) - 1) : RunFrom(a.transitions, 1, w) = k } IN
                 /\ ToSet(a.classes) = { Indistinguishable(i, q) : q \in ReachableStates(i) }
                 /\ IsInjective(a.classes) /\ i.start \in a.classes[1]
                 /\ \A k \in DOMAIN a.classes : \A q \in a.classes[k] :
                       /\ q \in i.accepting <=> k \in a.accepting
                       /\ \A s \in DOMAIN i.transitions[0] : i.transitions[q][s] \in a.classes[a.transitions[k][s]]
                 /\ \A k \in 2 .. Len(a.classes) :
                       Precedes(Least({ <<Len(w)>> \o w : w \in Leading(k - 1) }), Least({ <<Len(w)>> \o w : w \in Leading(k) }))
      [] t = "top_trading_cycles" ->
            IF 5 \in UNION { ToSet(i.preferences[p]) : p \in DOMAIN i.preferences } THEN a = Refused
            ELSE /\ IsInjective(a.allocation) /\ DOMAIN a.allocation = DOMAIN i.preferences
                 /\ InCore(i.preferences, a.allocation)
                 /\ IsPermutation(FlattenSeq(FlattenSeq(a.rounds)), DOMAIN i.preferences)
                 /\ \A r \in DOMAIN a.rounds : \A c \in DOMAIN a.rounds[r] : \A k \in DOMAIN a.rounds[r][c] :
                       LET cycle == a.rounds[r][c] IN a.allocation[cycle[k]] = cycle[(k % Len(cycle)) + 1]
      [] t = "exact_cover" ->
            IF \E r \in DOMAIN i.rows : ~IsInjective(i.rows[r]) \/ i.columns \in ToSet(i.rows[r]) THEN a = Refused
            ELSE /\ a.found <=> \E chosen \in SUBSET DOMAIN i.rows : Covers(i.rows, i.columns, chosen)
                 /\ IF a.found THEN Covers(i.rows, i.columns, ToSet(a.solution)) /\ IsInjective(a.solution) ELSE a.solution = << >>
                 /\ a.open = 0 .. i.columns - 1
                 /\ \A c \in a.open : a.live[c] = { r \in DOMAIN i.rows : c \in ToSet(i.rows[r]) }
      [] t = "poset_mobius" ->
            IF Cyclic(i.graph) THEN a = Refused
            ELSE /\ a.extension = Least({ o \in SetToSeqs(Vertices(i.graph)) :
                                          \A j, k \in DOMAIN o : o[k] \in Reach(i.graph, o[j]) => j <= k })
                 /\ Once(PlainZeta(i.graph, i.values), LAMBDA z :
                        IF \A v \in DOMAIN z : Fits(z[v]) THEN a.zeta = [values |-> z] ELSE a.zeta = Overflow)
                 /\ Once([v \in Vertices(i.graph) |-> PlainMobius(i.graph, i.values, v)], LAMBDA z :
                        IF \A v \in DOMAIN z : Fits(z[v]) THEN a.inverse = [values |-> z] ELSE a.inverse = Overflow)
      [] t = "tree_edit_distance" ->
            IF {i.source, i.target} \cap BadTrees # {} THEN a = Refused
            ELSE a = [distance |-> Min(MappingCosts(i.source, i.target))]
      [] t = "optimal_bst" ->
            IF Len(i.gaps) # Len(i.keys) + 1 THEN a = Refused
            ELSE LET n == Len(i.keys) IN
                 /\ a.cost = LeastTreeCost(i.keys, i.gaps, 0, n)
                 /\ a.cost = WeightOf([k \in 1 .. n |-> i.keys[k] * (a.keyDepths[k - 1] + 1)])
                             + WeightOf([k \in 1 .. n + 1 |-> i.gaps[k] * (a.gapDepths[k - 1] + 1)])
                 /\ \A k \in 0 .. n - 1 :
                       IF a.parent[k] = NoVertex THEN a.keyDepths[k] = 0 ELSE a.keyDepths[k] = a.keyDepths[a.parent[k]] + 1
                 /\ a.candidates <= 2 * n * n
      [] t = "earley" ->
            IF BadGrammar(i.grammar) THEN a = Refused
            ELSE /\ a.accepted <=> i.text \in Derivable(i.grammar)[i.grammar.start]
                 /\ a.accepted => \A k \in DOMAIN a.counts : a.counts[k] > 0
      [] t = "slr_parser" ->
            IF BadGrammar(i.grammar) THEN a = Refused
            ELSE LET words == Derivable(i.grammar)[i.grammar.start] IN
                 IF a.conflicts # << >> THEN a.parse = Refused
                 ELSE /\ a.parse.accepted <=> i.text \in words
                      /\ a.parse.accepted =>
                            /\ RightmostDerivation(i.grammar, a.rules, a.parse.trace) = [k \in DOMAIN i.text |-> <<1, i.text[k]>>]
                            /\ a.parse.consumed = Len(i.text)
      [] t = "functional_graph" ->
            IF \E v \in DOMAIN i.successor : i.successor[v] \notin DOMAIN i.successor THEN a = Refused
            ELSE FunctionalExact(i.successor, a)
      [] t = "vertex_connectivity" -> IF i.graph.directed THEN a = Refused ELSE ConnectivityExact(i.graph, a)
      [] t = "k_shortest_paths" ->
            IF ~i.graph.directed \/ \E e \in ToSet(i.graph.arcs) : e[3] < 0 THEN a = Refused
            ELSE IF a = Overflow THEN TotalMagnitude(i.graph) > WeightMax
            ELSE YenExact(i, a.paths)
      [] t = "a_star" ->
            IF i.heuristic[i.target] # 0 \/ \E e \in ToSet(i.graph.arcs) : i.heuristic[e[1]] > i.heuristic[e[2]] + e[3] THEN a = Refused
            ELSE AStarExact(i, a)
      [] t = "prufer_encode" ->
            LET g == i.graph IN
            IF g.directed \/ g.n = 0 \/ Len(g.arcs) # 2 * (g.n - 1) \/ ~LabelledTree(g.n, EdgeSet(g) \ { e \in EdgeSet(g) : e[1] >= e[2] })
            THEN a = Refused
            ELSE /\ Len(a.code) = Max({g.n - 2, 0})
                 /\ \A v \in Vertices(g) : g.n > 1 => OccurrencesIn(a.code, v) = Cardinality(Near(g, v)) - 1
                 /\ { ToSet(e) : e \in ToSet(PruferDecode(g.n, a.code).edges) } = { {e[1], e[2]} : e \in EdgeSet(g) }
      [] t = "prufer_decode" ->
            IF i.n = 0 \/ Len(i.code) # Max({i.n - 2, 0}) \/ \E k \in DOMAIN i.code : i.code[k] >= i.n THEN a = Refused
            ELSE LabelledTree(i.n, ToSet(a.edges)) /\ a.again = [code |-> i.code]
      [] t = "treewidth" -> IF i.graph.directed THEN a = Refused ELSE TreewidthExact(i.graph, a)
      [] t = "coffman_graham" ->
            IF \E v \in DOMAIN i.after : ~IsInjective(i.after[v]) \/ 9 \in ToSet(i.after[v]) THEN a = Refused
            ELSE IF \E v \in DOMAIN i.after : v \in AllAfter(i.after, v) THEN a = Refused
            ELSE CoffmanExact(i.after, a)
      [] t = "degree_realization" ->
            IF \E k \in DOMAIN i.degrees : i.degrees[k] >= Len(i.degrees) THEN a = Refused
            ELSE /\ a.graphical <=> i.degrees \in DegreeListsOf(Len(i.degrees))
                 /\ IF ~a.graphical THEN a.realization = Nothing
                    ELSE /\ a.tampered[1] /\ (a.tampered[2] <=> Len(a.realization.edges) < 2)
                         /\ a.tampered[3] <=> a.realization.edges = << >>
                         /\ IsInjective(a.realization.edges) /\ a.realization.steps <= Len(i.degrees)
      [] t = "maximum_clique" ->
            IF i.graph.directed THEN a = Refused
            ELSE LET all == Cliques(i.graph) IN
                 /\ a.vertices = Least({ Ascending(S) : S \in LargestCliques(i.graph) })
                 /\ a.maximal = Cardinality({ S \in all : \A T \in all : ~(S \subseteq T /\ S # T) })
      [] t = "exact_coloring" ->
            IF i.graph.directed THEN a = Refused
            ELSE IF \E e \in EdgeSet(i.graph) : e[1] = e[2] THEN a = Nothing
            ELSE /\ \A e \in EdgeSet(i.graph) : a.colors[e[1]] # a.colors[e[2]]
                 /\ { a.colors[v] : v \in Vertices(i.graph) } = 0 .. a.chromatic - 1
                 /\ a.chromatic > 0 => ~Colorable(i.graph, a.chromatic - 1)
                 /\ ToSet(a.clique) \in LargestCliques(i.graph) \cup {{}} /\ Len(a.clique) <= a.chromatic
                 /\ a.chromatic <= a.greedy /\ (a.greedy = Len(a.clique) => a.nodes = 0)
      [] t = "nfa_determinization" ->
            IF i.limit = 0 \/ i.nfa.start \notin DOMAIN i.nfa.epsilon \/ 9 \in ToSet(i.nfa.epsilon[0]) THEN a = Refused
            ELSE IF a = TooManyStates
                 THEN Cardinality(Explored({EpsilonClosure(i.nfa, {i.nfa.start})},
                                           LAMBDA S : { MoveThenClose(i.nfa, S, x) : x \in DOMAIN i.nfa.transitions[0] })) > i.limit
                 ELSE DeterminizationExact(i, a)
      [] t = "cyk_parser" ->
            IF i.grammar.start >= i.grammar.count \/ \E r \in ToSet(i.grammar.terminal) : r[1] >= i.grammar.count THEN a = Refused
            ELSE IF i.text = << >> THEN a = [accepted |-> i.grammar.empty, nodes |-> << >>]
            ELSE /\ a.accepted <=> i.text \in Derivable(PlainGrammar(i.grammar))[i.grammar.start]
                 /\ IF a.accepted THEN IsWitness(i.grammar, i.text, a.nodes) ELSE a.nodes = << >>
      [] t = "robinson_schensted" ->
            IF ~IsPermutation(i.permutation, 0 .. Len(i.permutation) - 1) THEN a = Refused
            ELSE /\ a.inverse = [permutation |-> i.permutation]
                 /\ ValidRobinsonSchensted(a.tableaux)
                 /\ Monotone(i.permutation, LAMBDA x, y : x < y) = (IF i.permutation = << >> THEN 0 ELSE Len(a.tableaux.insertion[1]))
                 /\ Monotone(i.permutation, LAMBDA x, y : x > y) = Len(a.tableaux.insertion)
                 /\ RobinsonSchensted(InversePermutation(i.permutation))
                    = [insertion |-> a.tableaux.recording, recording |-> a.tableaux.insertion]
      [] t = "inverse_robinson_schensted" ->
            IF {i.tableaux.insertion, i.tableaux.recording} \subseteq StandardTableaux
               /\ [r \in DOMAIN i.tableaux.insertion |-> Len(i.tableaux.insertion[r])]
                  = [r \in DOMAIN i.tableaux.recording |-> Len(i.tableaux.recording[r])]
            THEN a.again = i.tableaux ELSE a = Refused
      [] t = "subset_sum" ->
            IF \E s \in SubsetSums(i.values) : ~Fits(s) THEN a.witness = Overflow
            ELSE /\ a.witness # Nothing <=> i.target \in SubsetSums(i.values)
                 /\ a.valid <=> a.witness # Nothing
                 /\ a.tampered <=> /\ \A k \in 2 .. Len(i.claim) : i.claim[k - 1] < i.claim[k]
                                   /\ i.target = SumOf(i.claim, LAMBDA x : i.values[x + 1])
      [] t = "dominating_set" ->
            IF i.graph.directed THEN a = Refused
            ELSE /\ Dominates(i.graph, ToSet(a.vertices)) /\ IsInjective(a.vertices)
                 /\ \A S \in SUBSET Vertices(i.graph) : Dominates(i.graph, S) => Len(a.vertices) <= Cardinality(S)
                 /\ a.prunes <= a.explored
      [] t = "matroid_intersection" ->
            IF {} \notin i.first \cap i.second THEN a = Refused
            ELSE /\ a.selected \in i.first \cap i.second /\ a.augmentations = Cardinality(a.selected)
                 /\ \A S \in i.first \cap i.second : Cardinality(S) <= a.augmentations
      [] t = "matroid_union" ->
            IF {} \in ToSet(i.matroids) THEN a = Refused
            ELSE /\ \A l \in DOMAIN i.matroids : a.independent[l - 1] \in i.matroids[l]
                 /\ \A l \in DOMAIN i.matroids : a.independent[l - 1] = { e \in DOMAIN a.assigned : a.assigned[e] = l - 1 }
                 /\ Cardinality(DOMAIN a.assigned) = a.augmentations
                 /\ \A f \in LayerChoices(i.count, i.matroids) : Cardinality({ e \in DOMAIN f : f[e] # 0 }) <= a.augmentations
      [] t = "weighted_matroid_intersection" ->
            IF ~Fits(Magnitudes(i.weights)) THEN a = Overflow
            ELSE IF {} \notin i.first \cap i.second THEN a = Refused
            (* That no sum overflows is asked by SumsRepresentable.                       *)
            ELSE IF a = Overflow THEN ~Fits(2 * Magnitudes(i.weights))
            ELSE LET Weight(S) == MapThenSumSet(LAMBDA e : i.weights[e + 1], S) IN
                 /\ a # LogicError
                 /\ a.selected \in i.first \cap i.second /\ a.augmentations = Cardinality(a.selected)
                 /\ a.weight = Weight(a.selected)
                 /\ \A S \in i.first \cap i.second :
                       Cardinality(S) < a.augmentations \/ (Cardinality(S) = a.augmentations /\ Weight(S) <= a.weight)
      [] t = "length_limited_huffman" ->
            LET active == { x \in DOMAIN i.frequencies : i.frequencies[x] > 0 } IN
            IF active = {} THEN a = [codes |-> << >>, cost |-> 0]
            ELSE IF i.limit = 0 \/ 2 ^ i.limit < Cardinality(active) THEN a = Refused
            ELSE Once(LeastCodeCost(i.frequencies, Min({i.limit, 4})), LAMBDA least :
                 IF least > WideMax THEN a = Overflow
                 ELSE /\ a \notin {Overflow, Refused, LogicError}
                      /\ a.cost = least /\ DOMAIN a.codes = active
                      /\ least = MapThenSumSet(LAMBDA x : i.frequencies[x] * a.codes[x][1], active)
                      /\ \A x \in active : a.codes[x][1] \in 1 .. i.limit
                      /\ \A x, y \in active : x # y /\ a.codes[x][1] <= a.codes[y][1] =>
                            a.codes[y][2] \div 2 ^ (a.codes[y][1] - a.codes[x][1]) # a.codes[x][2]
                      /\ \A x, y \in active : x < y /\ a.codes[x][1] = a.codes[y][1] => a.codes[x][2] < a.codes[y][2])
      [] t = "garsia_wachs" ->
            IF i.weights = << >> THEN a = [depths |-> << >>, nodes |-> << >>, root |-> NoVertex, cost |-> 0]
            ELSE Once(AlphabeticCost(i.weights, 1, Len(i.weights)), LAMBDA least :
                 IF least > WideMax THEN a = Overflow
                 ELSE /\ a # Overflow
                      /\ a.cost = least /\ Len(a.nodes) = Len(i.weights) - 1
                      /\ TreeLeaves(a.nodes, Len(i.weights), a.root, 0) = [k \in DOMAIN i.weights |-> <<k - 1, a.depths[k - 1]>>])
      [] t = "smith_normal_form" ->
            IF \E r, s \in ToSet(i.matrix) : Len(r) # Len(s) THEN a = Refused
            ELSE IF a = Overflow THEN \E r \in ToSet(i.matrix) : \E x \in ToSet(r) : AbsoluteValue(x) > 50
            ELSE SmithExact(i.matrix, a)

Orders(set) == SetToSeqs(set)
FourPreferences == [p \in 0 .. 3 |-> Orders((0 .. 3) \ {p})]
(* Around a circle of six: near ones first, or across first, from a side. *)
SixPreferences(side, across) ==
    [p \in 0 .. 5 |-> LET ring == IF p \in side THEN <<1, 5, 2, 4>> ELSE <<4, 1, 2, 5>>
                          row == IF p \in across THEN <<3>> \o ring ELSE SubSeq(ring, 1, 2) \o <<3>> \o SubSeq(ring, 3, 4)
                      IN  [k \in DOMAIN row |-> (p + row[k]) % 6]]

Clauses == << <<1, 3, 5>>, <<0, 3>>, <<2, 5, 2>>, <<4, 1>>, <<0, 2, 4>>, <<3, 2, 0>>, <<5>>, <<0, 2>>, <<4>> >>

ParityArcs == << <<0, 1, 0>>, <<1, 2, 0>>, <<2, 3, 0>>, <<3, 0, 0>>, <<0, 2, 0>>, <<2, 0, 0>>, <<2, 2, 0>>, <<1, 3, 0>>, <<1, 2, 0>> >>

Priorities == { [v \in 0 .. 3 |-> l[v + 1]] : l \in {<<0, 1, 2, 3>>, <<3, 2, 1, 0>>, <<1, 2, 1, 2>>, <<2, 1, 0, 3>>} }

FourHouses == { <<0, 1, 2, 3>>, <<1, 2, 3, 0>>, <<3, 1, 0, 2>>, <<2, 0, 3, 1>>, <<1, 0, 3, 2>> }
CoverRows == << <<0, 3>>, <<4, 1>>, <<2>>, <<2, 0>>, <<3, 1, 4>>, <<4>>, <<1, 2, 0>>, <<3>>, <<0, 1>>, << >> >>

PosetValues == { [v \in 0 .. 4 |-> l[v + 1]] : l \in {<<5, -2, 7, 1, 0>>, <<WeightMax, WeightMax, -WeightMax - 1, -WeightMax - 1, 2>>,
                 <<WeightMax, WeightMax, WeightMax, WeightMax, 1>>, <<-WeightMax - 1, 0, -WeightMax - 1, WeightMax, -3>>,
                 <<-1, -WeightMax, WeightMax, 3, -2>>} }

OrderedTree(up, label) ==
    [label |-> label, root |-> 0,
     children |-> [v \in 0 .. Len(up) |-> SelectSeq(Reverse(Upto(Len(up) + 1)), LAMBDA w : w > 0 /\ up[w] = v)]]
OrderedTrees ==
    UNION { { OrderedTree(up, [v \in 0 .. n - 1 |-> (v * k) % 2]) : up \in Hangings(n), k \in {0, 1} } : n \in 2 .. 4 }
    \cup { OrderedTree(up, [v \in 0 .. 4 |-> v % 3]) : up \in {<<0, 1, 2, 0>>, <<0, 0, 1, 3>>, <<0, 1, 1, 0>>} }
    \cup {[label |-> << >>, children |-> << >>, root |-> NoVertex], OrderedTree(<< >>, 0 :> 1)}

GrammarRules == << <<1, << <<1, 7>>, <<0, 1>>, <<1, 8>> >> >>, <<0, << <<0, 0>>, <<0, 1>> >> >>, <<1, << >> >>,
                   <<0, << <<1, 7>> >> >>, <<1, << <<0, 0>> >> >>, <<0, << >> >>, <<0, << <<1, 8>>, <<0, 1>> >> >>,
                   <<1, << <<1, 8>> >> >>, <<1, << >> >> >>
Texts == UNION { [1 .. n -> {7, 8}] : n \in {0, 2, 3} } \cup {<<7>>}

YenArcs == << <<0, 1, 2>>, <<1, 3, 1>>, <<0, 2, 1>>, <<2, 3, 2>>, <<1, 2, 0>>, <<2, 1, 1>>, <<0, 1, 1>>, <<0, 3, WeightMax>>, <<3, 2, 300>>, <<2, 0, 300>> >>
Heuristics == { [v \in 0 .. 3 |-> h[v + 1]] : h \in {<<0, 0, 0, 0>>, <<3, 1, 2, 0>>, <<2, 1, 1, 0>>, <<1, 1, 2, 0>>, <<4, 0, 0, 1>>} }

(* A crown of four pairs: no vertex sees the other of its pair.              *)
Crown == GraphOf(8, FALSE, InOrder({ e \in (0 .. 3) \X (4 .. 7) \X {1} : e[2] # e[1] + 4 }))
SmallGraphs == { GraphOf(n, FALSE, << >>) : n \in 0 .. 2 } \cup {GraphOf(2, TRUE, << >>)}
After8 == << << >>, <<4>>, << >>, <<0, 6, 1, 4>>, << >>, <<0, 6, 2, 1>>, <<2, 4>>, <<6, 2, 1, 4>> >>

OtherTableaux == {<< <<1, 0>>, <<2>> >>, << <<0>>, <<1, 2>> >>, << <<0, 1>>, <<1>> >>, << <<0, 1>>, <<3>> >>, << << >> >>, << <<1, 2>>, <<0>> >>,
                  << <<0, 3>>, <<1, 2>> >>, << <<0, 1, 2>>, << >> >>}

Epsilons == { (0 :> e[1]) @@ (1 :> e[2]) @@ (2 :> e[3]) @@ (3 :> e[4]) :
              e \in {<< << >>, << >>, << >>, << >> >>, << <<1>>, <<2>>, << >>, <<0>> >>, << <<2, 2>>, << >>, <<0>>, << >> >>} }
NfaMoves == [q \in 0 .. 3 |-> << <<0, (q + 1) % 4>>, IF q = 1 THEN <<2, 1>> ELSE IF q = 3 THEN << >> ELSE <<3>> >>]

CnfTerminal == << <<0, 7>>, <<1, 7>>, <<1, 8>>, <<0, 8>>, <<1, 7>> >>
CnfBinary == << <<0, 1, 0>>, <<0, 0, 1>>, <<1, 0, 0>>, <<1, 1, 1>>, <<0, 1, 1>> >>
SubsetValues == {<<3, -5, 2, 7, 1, -4, 6>>, <<1, 2, 4, 8, 16>>, <<>>, <<4>>, <<WeightMax - 6, -WeightMax, 2, 4>>, <<WeightMax - 6, 3, 4>>, <<-WeightMax, -1, 5>>,
                 <<-WeightMax, -2, 5, 5>>, <<5, 5, -5, 0, 5, -5>>}

Matroids ==
    LET E == 0 .. 3
        Uniform(r) == { S \in SUBSET E : Cardinality(S) <= r }
        Partition(blocks) == { S \in SUBSET E : \A b \in blocks : Cardinality(S \cap b) <= 1 }
    IN  { Uniform(r) : r \in 0 .. 3 }
        \cup { Partition(p) : p \in {{{0, 1}, {2, 3}}, {{0, 2}, {1, 3}}, {{0, 3}}, {{0, 1, 2}}, {{1, 2, 3}, {0}}, {{0, 3}, {1, 2}}} }
        \cup {{ S \in SUBSET E : Cardinality(S) <= 2 /\ S # {0, 1} /\ 3 \notin S }, { S \in SUBSET E : Cardinality(S) <= 3 /\ ~({0, 1, 3} \subseteq S) }}

ThreeMatroids == { { S \in M : 3 \notin S } : M \in Matroids }

MatroidWeights == {<<5, 3, -4, 2>>, <<-1, -1, 2, 2>>, <<7, 7, 7, 7>>, <<-250, 250, 1, 3>>, <<200, -100, 100, -111>>, <<200, -100, 100, 112>>, <<0, -512, 0, 0>>, <<-9, 4, 4, 0>>}

SmithEntries == {0, 1, 2, -3, 4, 6}

CombinatorialInputs(t) ==
    CASE t = "stable_roommates" ->
            { [preferences |-> (0 :> a) @@ (1 :> b) @@ (2 :> c) @@ (3 :> d)] :
              a \in FourPreferences[0], b \in FourPreferences[1], c \in FourPreferences[2], d \in {<<0, 1, 2>>, <<2, 0, 1>>} }
            \cup { [preferences |-> SixPreferences(side, across)] : side, across \in { s \in SUBSET (0 .. 5) : Cardinality(s) # 3 } }
            \cup { [preferences |-> (0 :> <<1, 2>>) @@ (1 :> <<2, 0>>) @@ (2 :> <<0, 1>>)], [preferences |-> (0 :> <<0>>) @@ (1 :> <<0>>)] }
      [] t = "cnf_sat" -> { [clauses |-> c] : c \in Subsequences(Clauses) \cup {<<<<1, 7>>>>, << << >> >>} }
      [] t = "parity_game" ->
            { [graph |-> GraphOf(4, TRUE, e), owner |-> o, priority |-> p] : e \in { f \in Subsequences(ParityArcs) : Len(f) > 5 },
              o \in { f \in [0 .. 3 -> 0 .. 1] : f[1] = 1 }, p \in Priorities }
      [] t = "dfa_minimization" ->
            { [transitions |-> [q \in 0 .. 3 |-> <<f[q], g[q]>>], accepting |-> c, start |-> 0] :
              f \in { h \in [0 .. 3 -> 0 .. 3] : h[0] = 1 /\ h[1] > 0 },
              g \in { [q \in 0 .. 3 |-> (q + k) % 4] : k \in {1, 2, 3} } \cup {[q \in 0 .. 3 |-> 3 - q]}, c \in {{3}, {1, 3}, {0, 1, 2}, {}} }
            \cup { [transitions |-> [q \in 0 .. 4 |-> <<(q + 1) % 5>>], accepting |-> c, start |-> 2] : c \in SUBSET (0 .. 4) }
            \cup { [transitions |-> [q \in 0 .. 1 |-> << >>], accepting |-> {1}, start |-> s] : s \in 0 .. 2 }
      [] t = "top_trading_cycles" ->
            { [preferences |-> (0 :> a) @@ (1 :> b) @@ (2 :> c) @@ (3 :> d)] : a, b, c, d \in FourHouses }
            \cup { [preferences |-> 0 :> row] : row \in {<<0>>, <<5>>} }
      [] t = "exact_cover" ->
            { [columns |-> 5, rows |-> r] : r \in Subsequences(CoverRows) \cup {<< <<0, 0>> >>, << <<5>> >>} }
            \cup { [columns |-> 0, rows |-> r] : r \in {<< >>, << << >> >>} }
      [] t = "poset_mobius" -> { [graph |-> GraphOf(5, TRUE, e), values |-> v] : e \in { f \in Subsequences(AcyclicArcs) : Len(f) \in {0, 3, 5, 6} } \cup {<< <<1, 1, 0>> >>}, v \in PosetValues }
      [] t = "tree_edit_distance" ->
            { [source |-> x, target |-> y] : x \in OrderedTrees, y \in OrderedTrees }
            \cup { [source |-> x, target |-> OrderedTree(<<0>>, [v \in 0 .. 1 |-> 1])] : x \in BadTrees }
      [] t = "optimal_bst" ->
            { [keys |-> k, gaps |-> g] : k \in [1 .. 4 -> {0, 2, WideMax}], g \in { h \in [1 .. 5 -> {0, 3}] : h[1] = h[4] } }
            \cup { [keys |-> << >>, gaps |-> g] : g \in {<< >>, <<4>>} }
      [] t \in {"earley", "slr_parser"} ->
            { [grammar |-> [count |-> 2, start |-> 0, rules |-> r], text |-> w] :
              r \in Subsequences(GrammarRules), w \in { x \in Texts : t = "slr_parser" => Len(x) # 2 } }
            \cup { [grammar |-> [count |-> 1, start |-> s, rules |-> << <<x, << >> >> >>], text |-> << >>] : s, x \in {0, 1} }
      [] t = "functional_graph" ->
            { [successor |-> s, steps |-> <<0, 1, 3, 5, 7, WideMax - 1, WideMax \div 3>>] :
              s \in [0 .. 3 -> 0 .. 3] \cup {[v \in 0 .. 4 |-> (v * v + 1) % 5], [v \in 0 .. 1 |-> v + 1], << >>} }
      [] t = "vertex_connectivity" ->
            { [graph |-> g] : g \in Meshes \cup Undirected \cup { GraphOf(n, FALSE, << >>) : n \in 0 .. 2 } \cup {GraphOf(3, TRUE, << >>)} }
      [] t = "k_shortest_paths" ->
            { [graph |-> GraphOf(4, TRUE, e), start |-> s, target |-> 3, k |-> k] :
              e \in { f \in Subsequences(YenArcs) : Len(f) > 5 }, s \in {0, 2}, k \in {1, 2, 4, 20} }
            \cup { [graph |-> GraphOf(2, d, << <<0, 1, w>> >>), start |-> 0, target |-> v, k |-> k] :
                   d \in BOOLEAN, w \in {-1, 3}, v \in {0, 1}, k \in {0, 2} }
      [] t = "a_star" ->
            { [graph |-> GraphOf(4, TRUE, e), start |-> s, target |-> 3, heuristic |-> h] :
              e \in { f \in Subsequences(YenArcs) : Len(f) > 6 }, s \in {0, 2}, h \in Heuristics }
      [] t = "prufer_encode" -> { [graph |-> g] : g \in { GraphOf(5, FALSE, e) : e \in { f \in Subsequences(TreeEdges) : Len(f) \in {4, 5} } } \cup SmallGraphs
                                                         \cup { GraphOf(2, FALSE, << <<0, 1, 1>> >>) } }
      [] t = "prufer_decode" ->
            { [n |-> Len(c) + 2, code |-> c] : c \in UNION { [1 .. k -> 0 .. k + 1] : k \in 1 .. 3 } \cup {<<4, 0>>, << >>} }
            \cup { [n |-> n, code |-> c] : n \in 0 .. 4, c \in {<< >>, <<0>>} }
      [] t = "treewidth" -> { [graph |-> g] : g \in FiveCycles \cup SmallGraphs \cup Dense }
      [] t = "coffman_graham" ->
            { [after |-> [v \in 0 .. 4 |-> Targets(GraphOf(5, TRUE, e), v)]] : e \in Subsequences(AcyclicArcs) }
            \cup { [after |-> [v \in 0 .. n - 1 |-> Targets(GraphOf(n, TRUE, e), v)]] :
                   n \in 6 .. 7, e \in { f \in Subsequences(<< <<5, 3, 1>>, <<5, 4, 1>>, <<4, 1, 1>>, <<3, 0, 1>>, <<2, 0, 1>>, <<4, 2, 1>>, <<0, 1, 1>> >>) : Len(f) > 3 } }
            \cup { [after |-> [v \in 0 .. 7 |-> After8[v + 1]]], [after |-> << >>], [after |-> 0 :> <<0>>], [after |-> 0 :> <<9>>],
                   [after |-> (0 :> <<1, 1>>) @@ (1 :> << >>)], [after |-> (0 :> <<1>>) @@ (1 :> <<0>>)] }
      [] t = "degree_realization" ->
            { [degrees |-> d] : d \in [1 .. 4 -> 0 .. 3] \cup { f \in [1 .. 5 -> 0 .. 4] : \A k \in 1 .. 4 : f[k] <= f[k + 1] } \cup {<< >>, <<1>>, <<0, 2>>} }
      [] t \in {"maximum_clique", "exact_coloring"} -> { [graph |-> g] : g \in Meshes \cup Dense \cup SmallGraphs \cup {Crown} \cup { h \in Undirected : Len(h.arcs) > 8 } }
      [] t = "nfa_determinization" ->
            { [nfa |-> [start |-> s, accepting |-> c, epsilon |-> e, transitions |-> [q \in 0 .. 3 |-> IF q \in cut THEN << << >>, <<0>> >> ELSE NfaMoves[q]]],
               limit |-> n] : s \in {0, 2}, c \in {{3}, {1, 2}, {}}, e \in Epsilons, cut \in SUBSET (0 .. 3), n \in {3, 16} }
            \cup { [nfa |-> [start |-> s, accepting |-> {}, epsilon |-> 0 :> <<e>>, transitions |-> 0 :> << >>], limit |-> n] :
                   s \in {0, 1}, e \in {0, 9}, n \in {0, 1} }
      [] t = "cyk_parser" ->
            { [grammar |-> [count |-> 2, start |-> 0, empty |-> e, terminal |-> x, binary |-> y], text |-> w] :
              e \in {TRUE}, x \in { f \in Subsequences(CnfTerminal) : Len(f) \in 2 .. 3 }, y \in { f \in Subsequences(CnfBinary) : Len(f) \in {1, 2, 4} },
              w \in {<< >>, <<7>>, <<8, 7>>, <<7, 7, 8>>, <<8, 8, 8>>, <<7, 8, 7>>, <<8, 7, 7>>} }
            \cup { [grammar |-> [count |-> 1, start |-> s, empty |-> e, terminal |-> << <<x, 7>> >>, binary |-> << >>], text |-> << >>] :
                   s, x \in {0, 1}, e \in BOOLEAN }
      [] t = "robinson_schensted" ->
            { [permutation |-> p] : p \in [1 .. 3 -> 0 .. 3] \cup Orders(0 .. 4) \cup Orders(0 .. 3) \cup {<< >>, <<0>>, <<5, 1, 4, 0, 3, 2>>} }
      [] t = "inverse_robinson_schensted" ->
            { [tableaux |-> [insertion |-> x, recording |-> y]] : x, y \in StandardTableaux \cup OtherTableaux }
      [] t = "subset_sum" ->
            { [values |-> v, target |-> x, claim |-> << >>] : v \in SubsetValues, x \in (-12 .. 33) \cup {WeightMax, -WeightMax, WeightMax - 6} }
            \cup { [values |-> <<5, -5, WeightMax - 1, 3, 2>>, target |-> x, claim |-> c] :
                   x \in {5, 3, 0, WeightMax}, c \in {<< >>, <<0>>, <<0, 1, 3>>, <<3, 1, 0>>, <<3, 4>>, <<0, 0>>, <<1, 3, 4>>} }
      [] t = "dominating_set" -> { [graph |-> g] : g \in Meshes \cup Dense \cup SmallGraphs \cup {Crown} \cup Undirected }
      [] t = "matroid_intersection" -> { [first |-> x, second |-> y] : x, y \in Matroids \cup {{}} }
      [] t = "matroid_union" ->
            { [count |-> 3, matroids |-> <<x, y>>] : x, y \in ThreeMatroids \cup {{}} }
            \cup { [count |-> n, matroids |-> q] : n \in {0, 1, 2}, q \in {<< >>, << {{}, {0}} >>, << {{}, {1}}, {{}, {0}, {1}} >>} }
      [] t = "weighted_matroid_intersection" ->
            { [weights |-> w, first |-> x, second |-> y] : w \in MatroidWeights, x, y \in Matroids } \cup { [weights |-> <<1>>, first |-> {}, second |-> {{}}] }
      [] t = "length_limited_huffman" ->
            { [frequencies |-> f, limit |-> n] : f \in [1 .. 5 -> {1, 2, 5}] \cup [1 .. 4 -> {0, 1, 3}] \cup [1 .. 4 -> {3, 400, 600}], n \in 0 .. 4 }
      [] t = "garsia_wachs" -> { [weights |-> w] : w \in WordsUpTo({0, 1, 2, 5, 7}, 4) \cup [1 .. 6 -> {1, 3, 4}] \cup [1 .. 4 -> {100, 256, 511}] }
      [] t = "smith_normal_form" ->
            { [matrix |-> m] : m \in { << <<x, y>>, <<z, w>> >> : x, y, z, w \in SmithEntries }
                                \cup { << <<x, y, 2>>, <<4, z, 6>> >> : x, y, z \in SmithEntries } \cup { << <<x, 4>>, <<y, z>>, <<6, 0>> >> : x, y, z \in SmithEntries }
                                \cup { << <<x, 2, 3>>, <<0, y, 4>>, <<1, z, 2>> >> : x, y, z \in {0, 2, 3, -5} }
                                \cup { << <<x, y>>, <<z, 300>> >> : x, y, z \in {-WeightMax - 1, WeightMax, 7, 0} }
                                \cup {<< >>, << << >>, << >> >>, << <<1>>, << >> >>, << <<0, -2, 0>> >>, << <<-WeightMax - 1>> >>} }
-----------------------------------------------------------------------------
AllTasks == GraphTasks \cup NetworkTasks \cup StructureTasks \cup CombinatorialTasks

Inputs(t) ==
    CASE t \in GraphTasks -> GraphInputs(t)
      [] t \in NetworkTasks -> NetworkInputs(t)
      [] t \in StructureTasks -> StructureInputs(t)
      [] t \in CombinatorialTasks -> CombinatorialInputs(t)

Result(t, i) ==
    CASE t \in GraphTasks -> GraphResult(t, i)
      [] t \in NetworkTasks -> NetworkResult(t, i)
      [] t \in StructureTasks -> StructureResult(t, i)
      [] t \in CombinatorialTasks -> CombinatorialResult(t, i)

Init ==
    /\ task \in Tasks
    /\ input \in Inputs(task)
    /\ answer = << >>

Return ==
    /\ answer = << >>
    /\ answer' = Result(task, input)
    /\ UNCHANGED <<task, input>>

Spec == Init /\ [][Return]_vars

(* Graphs, flows and matchings.  Paths are shortest and trees least among  *)
(* all of them, cuts separate and matchings cover as the definitions over  *)
(* edges say, flows are conserved and as large and as cheap as any,        *)
(* whatever parallel arcs, loops and ties the input has; an overflow is    *)
(* reported only of numbers near the end of a word.                        *)
GraphAnswersExact ==
    answer # << >> => /\ task \in GraphTasks => GraphExact(task, input, answer)
                      /\ task \in NetworkTasks => NetworkExact(task, input, answer)

(* Decompositions, embeddings, orientations and exact searches.  What is   *)
(* returned is a decomposition by its definition, an empty answer means    *)
(* that there is none, a certificate of the code's own checker is right,   *)
(* and no smaller or cheaper solution exists.                              *)
StructureAnswersExact ==
    task \in StructureTasks /\ answer # << >> => StructureExact(task, input, answer)

(* Matchings by preference, formulas, games, automata, parsers, covers,    *)
(* posets, tableaux, matroids, codes and integer matrices.  Every witness  *)
(* is one, an empty answer means that there is none, and what is called    *)
(* least or most is so among all the candidates.                           *)
CombinatorialAnswersExact ==
    task \in CombinatorialTasks /\ answer # << >> => CombinatorialExact(task, input, answer)

(* What coffman_graham.hpp calls exact and its document globally optimal:  *)
(* the schedule of every accepted order takes as few slots as any.         *)
ScheduleOptimal ==
    task = "coffman_graham" /\ answer # << >> /\ answer # Refused
        => Len(answer.slots) = LeastMakespan(input.after, DOMAIN input.after)

(* What weighted_matroid_intersection.hpp says of its arithmetic: when the *)
(* absolute weights add up to a word, nothing it computes overflows.       *)
SumsRepresentable ==
    task = "weighted_matroid_intersection" /\ answer # << >> /\ Fits(Magnitudes(input.weights))
        => answer # Overflow
=============================================================================
