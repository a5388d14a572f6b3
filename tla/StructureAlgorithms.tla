------------------------ MODULE StructureAlgorithms ------------------------
(***************************************************************************)
(* Algorithms that take a graph apart: into disjoint paths, ears, rounds,  *)
(* classes, colors, cliques, separators and orders.                        *)
(***************************************************************************)
EXTENDS GraphAlgorithms

(* From a source along leaving[v], a list of entries <<to, id, cost>>: how a  *)
(* vertex is reached first, and how it is reached at the least cost.  A path  *)
(* is the list of <<from, id>> on it.                                         *)
FirstReached(source, leaving) ==
    While([by |-> source :> <<source, 0>>, queue |-> <<source>>], LAMBDA s : s.queue # << >>,
          LAMBDA s : Each(leaving[Head(s.queue)], [s EXCEPT !.queue = Tail(@)], LAMBDA entry, t :
              IF entry[1] \in DOMAIN t.by THEN t
              ELSE [by |-> Set(t.by, entry[1], <<Head(s.queue), entry[2]>>),
                    queue |-> Append(t.queue, entry[1])])).by

LeastCosts(source, leaving) ==
    While([distance |-> source :> 0, by |-> source :> <<source, 0>>, queue |-> {<<0, source>>}],
          LAMBDA s : s.queue # {},
          LAMBDA s : Once(Least(s.queue), LAMBDA current :
              LET rest == [s EXCEPT !.queue = @ \ {current}] IN
              IF current[1] # s.distance[current[2]] THEN rest
              ELSE Each(leaving[current[2]], rest, LAMBDA entry, t :
                       LET candidate == current[1] + entry[3] IN
                       IF ~Improves(t, entry[1], candidate) THEN t
                       ELSE [distance |-> Set(t.distance, entry[1], candidate),
                             by |-> Set(t.by, entry[1], <<current[2], entry[2]>>),
                             queue |-> t.queue \cup {<<candidate, entry[1]>>}])))

PathBetween(by, source, target) ==
    While([at |-> target, path |-> << >>], LAMBDA s : s.at # source,
          LAMBDA s : [at |-> by[s.at][1], path |-> <<by[s.at]>> \o s.path]).path

Firsts(list) == [k \in DOMAIN list |-> list[k][1]]
Seconds(list) == [k \in DOMAIN list |-> list[k][2]]
-----------------------------------------------------------------------------
(***************************************************************************)
(* suurballe.hpp.  Distances are in two words and exact.                   *)
(***************************************************************************)
OutgoingArcs(g, kept) ==
    Each(Upto(g.n), << >>, LAMBDA v, lists :
        LET ids == SelectSeq([i \in DOMAIN g.arcs |-> i], LAMBDA i : i \in kept /\ g.arcs[i][1] = v)
        IN  Set(lists, v, [k \in DOMAIN ids |-> <<g.arcs[ids[k]][2], ids[k], g.arcs[ids[k]][3]>>]))

(* The arcs of the first path turned round, at no cost; the others at what   *)
(* they cost more than the distances between their ends.                     *)
ResidualArcs(g, onPath, distance) ==
    Each([i \in DOMAIN g.arcs |-> i], [v \in Vertices(g) |-> << >>], LAMBDA i, lists :
        LET from == g.arcs[i][1]
            to == g.arcs[i][2]
        IN  IF i \in onPath THEN [lists EXCEPT ![to] = Append(@, <<from, i, 0>>)]
            ELSE IF from \notin DOMAIN distance THEN lists
            ELSE [lists EXCEPT ![from] = Append(@, <<to, i, distance[from] + g.arcs[i][3] - distance[to]>>)])

ExtractFlowPath(g, source, target, remaining) ==
    Once(PathBetween(FirstReached(source, OutgoingArcs(g, remaining)), source, target), LAMBDA path :
        [edges |-> Seconds(path), total |-> Each(path, 0, LAMBDA step, sum : sum + g.arcs[step[2]][3])])

DisjointPaths(g, source, target, selected) ==
    Once(ExtractFlowPath(g, source, target, selected), LAMBDA first :
    Once(ExtractFlowPath(g, source, target, selected \ ToSet(first.edges)), LAMBDA second :
        IF ~Fits(first.total + second.total) THEN Overflow
        ELSE [total |-> first.total + second.total, paths |-> <<first, second>>]))

SuurballePaths(g, source, target) ==
    IF ~g.directed \/ source = target \/ \E i \in DOMAIN g.arcs : g.arcs[i][3] < 0 THEN Refused
    ELSE Once(LeastCosts(source, OutgoingArcs(g, DOMAIN g.arcs)), LAMBDA first :
         IF target \notin DOMAIN first.by THEN Nothing
         ELSE Once(ToSet(Seconds(PathBetween(first.by, source, target))), LAMBDA onPath :
              Once(LeastCosts(source, ResidualArcs(g, onPath, first.distance)), LAMBDA second :
              IF target \notin DOMAIN second.by THEN Nothing
              ELSE Once(ToSet(Seconds(PathBetween(second.by, source, target))), LAMBDA augmenting :
                   DisjointPaths(g, source, target,
                                 (onPath \ augmenting) \cup (augmenting \ onPath))))))
-----------------------------------------------------------------------------
(***************************************************************************)
(* open_ear_decomposition.hpp                                              *)
(***************************************************************************)
CollectSimpleEdges(g) ==
    LET edges == SelectSeq(g.arcs, LAMBDA a : a[1] < a[2])
        pairs == { <<edges[i][1], edges[i][2]>> : i \in DOMAIN edges }
    IN  IF Cardinality(pairs) # Len(edges) \/ \E i \in DOMAIN g.arcs : g.arcs[i][1] = g.arcs[i][2]
        THEN Refused ELSE [edges |-> InOrder(pairs)]

SortedAdjacency(n, edges) ==
    Once(IncidenceLists(n, edges), LAMBDA lists : [v \in 0 .. n - 1 |-> SortSeq(lists[v], Precedes)])

PathExcludingEdge(source, target, excluded, adjacency) ==
    PathBetween(FirstReached(source, [v \in DOMAIN adjacency |->
                SelectSeq(adjacency[v], LAMBDA entry : entry[2] # excluded)]), source, target)

OutsideComponent(seed, incorporated, adjacency) ==
    Explored({seed}, LAMBDA v : ToSet(Firsts(adjacency[v])) \ incorporated)

ComponentPath(source, target, component, adjacency) ==
    PathBetween(FirstReached(source, [v \in DOMAIN adjacency |->
                SelectSeq(adjacency[v], LAMBDA entry : entry[1] \in component)]), source, target)

(* An ear through the component of the least vertex no ear has reached yet:  *)
(* from the first edge into it, to the first edge with another old end.      *)
NextEar(n, adjacency, s) ==
    Once(OutsideComponent(Min((0 .. n - 1) \ s.incorporated), s.incorporated, adjacency), LAMBDA component :
    Once(UNION { { <<e[1], v, e[2]>> : e \in ToSet(adjacency[v]) } : v \in component }, LAMBDA all :
    Once({ a \in all : a[1] \in s.incorporated }, LAMBDA attachments :
    Once(Least(attachments), LAMBDA left :
    Once(Least({ a \in attachments : a[1] # left[1] }), LAMBDA right :
    Once(ComponentPath(left[2], right[2], component, adjacency), LAMBDA inside :
    LET inner == Append(Firsts(inside), right[2]) IN
        [ears |-> Append(s.ears, <<left[1]>> \o inner \o <<right[1]>>),
         used |-> s.used \cup {left[3], right[3]} \cup ToSet(Seconds(inside)),
         incorporated |-> s.incorporated \cup ToSet(inner)]))))))

FirstEar(edges, adjacency) ==
    Once(PathExcludingEdge(edges[1][1], edges[1][2], 1, adjacency), LAMBDA path :
        [ears |-> << Firsts(path) \o <<edges[1][2], edges[1][1]>> >>,
         used |-> {1} \cup ToSet(Seconds(path)),
         incorporated |-> {edges[1][2]} \cup ToSet(Firsts(path))])

OpenEarDecomposition(g) ==
    IF g.directed \/ CollectSimpleEdges(g) = Refused THEN Refused
    ELSE Once(CollectSimpleEdges(g).edges, LAMBDA edges :
         IF g.n < 3 \/ ReachableVertices(g, 0) # Vertices(g) THEN [success |-> FALSE, blocking |-> {}]
         ELSE Once(VertexBiconnectedDecomposition(g).articulation, LAMBDA cuts :
              IF cuts # {} THEN [success |-> FALSE, blocking |-> {Min(cuts)}]
              ELSE Once(SortedAdjacency(g.n, edges), LAMBDA adjacency :
                   Once(While(FirstEar(edges, adjacency), LAMBDA s : s.incorporated # Vertices(g),
                              LAMBDA s : NextEar(g.n, adjacency, s)), LAMBDA s :
                       [success |-> TRUE,
                        ears |-> s.ears \o SelectSeq(edges, LAMBDA e :
                                     \A k \in s.used : edges[k] # e)]))))
-----------------------------------------------------------------------------
(***************************************************************************)
(* thorup_zwick_k2.hpp.  drawn are the vertices the generator draws.       *)
(***************************************************************************)
(* The distances of radix_dijkstra.hpp do not depend on how it breaks ties. *)
RadixHeapDistances(g, source) ==
    Once(Dijkstra(g, source), LAMBDA a : IF a \in {Overflow, Refused} THEN a ELSE [distance |-> a.distance])

CeilSqrt(value) ==
    While(<<Min({value, 1}), value>>, LAMBDA range : range[1] < range[2],
          LAMBDA range : LET middle == range[1] + (range[2] - range[1]) \div 2 IN
              IF middle > value \div middle \/ (middle = value \div middle /\ value % middle = 0)
              THEN <<range[1], middle>> ELSE <<middle + 1, range[2]>>)[1]

(* A divisor of one takes every vertex; every component has a landmark. *)
SampleLandmarks(g, drawn) ==
    LET sampled == IF CeilSqrt(g.n) = 1 THEN Vertices(g) ELSE drawn IN
    Each(ConnectedComponents(g), sampled, LAMBDA component, landmarks :
        IF ToSet(component) \cap landmarks # {} THEN landmarks
        ELSE landmarks \cup {Min(ToSet(component))})

(* The nearest landmark of a vertex, and the vertices nearer than it. *)
BunchOf(landmarks, distance) ==
    Once(Least({ <<distance[v], v>> : v \in landmarks \cap DOMAIN distance }), LAMBDA nearest :
        [pivot |-> nearest[2], pivotDistance |-> nearest[1],
         bunch |-> [v \in { u \in DOMAIN distance : u \in landmarks \/ distance[u] < nearest[1] } |-> distance[v]]])

ThorupZwickOracle(g, drawn) ==
    IF g.directed \/ \E i \in DOMAIN g.arcs : g.arcs[i][3] < 0 THEN Refused
    ELSE Once(SampleLandmarks(g, drawn), LAMBDA landmarks :
         Each(Upto(g.n), [index |-> << >>], LAMBDA v, s :
             IF s = Overflow THEN s
             ELSE Once(RadixHeapDistances(g, v), LAMBDA a :
                 IF a = Overflow THEN a ELSE [index |-> Set(s.index, v, BunchOf(landmarks, a.distance))])))

PivotDetours(index, owner, other) ==
    IF index[owner].pivot \notin DOMAIN index[other].bunch THEN {}
    ELSE {index[owner].pivotDistance + index[other].bunch[index[owner].pivot]}

OracleQuery(index, first, second) ==
    LET exact == (IF first \in DOMAIN index[second].bunch THEN {index[second].bunch[first]} ELSE {})
                 \cup (IF second \in DOMAIN index[first].bunch THEN {index[first].bunch[second]} ELSE {})
        detours == PivotDetours(index, second, first) \cup PivotDetours(index, first, second)
    IN  IF first = second THEN [distance |-> 0]
        ELSE IF exact # {} THEN [distance |-> Min(exact)]
        ELSE IF detours = {} THEN Nothing
        ELSE IF Min(detours) > WeightMax THEN Overflow ELSE [distance |-> Min(detours)]
-----------------------------------------------------------------------------
(***************************************************************************)
(* dsu_on_tree_frequency.hpp                                               *)
(***************************************************************************)
(* As the frames of the search leave it: the children in the order of their *)
(* edges, the vertices in preorder.                                         *)
RECURSIVE RootedFrom(_, _, _)
RootedFrom(g, vertex, before) ==
    Each([k \in DOMAIN g.adjacent[vertex] |-> k], [before EXCEPT !.order = Append(@, vertex)], LAMBDA k, s :
        LET to == g.adjacent[vertex][k][1]
            parent == s.parent[vertex]
        IN  IF s.refused THEN s
            ELSE IF to = parent /\ Cardinality({ j \in 1 .. k : g.adjacent[vertex][j][1] = to }) = 1 THEN s
            ELSE IF to \in DOMAIN s.parent THEN [s EXCEPT !.refused = TRUE]
            ELSE RootedFrom(g, to, [s EXCEPT !.parent = Set(@, to, vertex),
                                             !.children = Set(Set(@, to, << >>), vertex, Append(@[vertex], to))]))

BuildRootedTree(g, root) ==
    Once(RootedFrom(g, root, [order |-> << >>, parent |-> root :> NoVertex, children |-> root :> << >>,
                              refused |-> FALSE]),
         LAMBDA s : IF s.refused \/ Len(s.order) # g.n THEN Refused
                    ELSE [order |-> s.order, parent |-> s.parent, children |-> s.children])

SubtreeSizes(tree) ==
    Each(Reverse(tree.order), [v \in DOMAIN tree.parent |-> 1], LAMBDA v, size :
        IF tree.parent[v] = NoVertex THEN size ELSE [size EXCEPT ![tree.parent[v]] = @ + size[v]])

(* The child with the most vertices below it, the least of several. *)
HeavyChild(tree, size, vertex) ==
    IF tree.children[vertex] = << >> THEN NoVertex
    ELSE Least({ <<-size[c], c>> : c \in ToSet(tree.children[vertex]) })[2]

(* The vertices of a subtree are together in preorder. *)
SubtreeRange(tree, size, vertex) ==
    LET first == CHOOSE k \in DOMAIN tree.order : tree.order[k] = vertex
    IN  SubSeq(tree.order, first, first + size[vertex] - 1)

AddVertex(label, vertex, s) ==
    LET times == s.frequency[label[vertex]] + 1
        better == times > s.most \/ (times = s.most /\ label[vertex] < s.mode)
    IN  [s EXCEPT !.frequency[label[vertex]] = times, !.added = @ + 1,
                  !.distinct = IF times = 1 THEN @ + 1 ELSE @,
                  !.most = IF better THEN times ELSE @, !.mode = IF better THEN label[vertex] ELSE @]

(* Faulty: only the root of a light subtree is forgotten. *)
RemoveRoot(tree, size, label, vertex, s) ==
    [s EXCEPT !.frequency[label[vertex]] = @ - 1, !.removed = @ + 1, !.most = 0, !.mode = 0]

RemoveSubtree(tree, size, label, vertex, s) ==
    [Each(SubtreeRange(tree, size, vertex), s, LAMBDA v, t :
         [t EXCEPT !.frequency[label[v]] = @ - 1, !.removed = @ + 1,
                   !.distinct = IF t.frequency[label[v]] = 1 THEN @ - 1 ELSE @])
     EXCEPT !.most = 0, !.mode = 0]

(* The light children are counted and forgotten, then the heavy one is       *)
(* counted and kept, and the light ones are added to it.                     *)
RECURSIVE ProcessSubtree(_, _, _, _, _, _)
ProcessSubtree(tree, size, label, vertex, keep, before) ==
    LET heavy == HeavyChild(tree, size, vertex)
        light == SelectSeq(tree.children[vertex], LAMBDA c : c # heavy)
    IN  Once(Each(light, before, LAMBDA c, s : ProcessSubtree(tree, size, label, c, FALSE, s)), LAMBDA lights :
        Once(IF heavy = NoVertex THEN lights ELSE ProcessSubtree(tree, size, label, heavy, TRUE, lights), LAMBDA kept :
        Once(Each(FlattenSeq([k \in DOMAIN light |-> SubtreeRange(tree, size, light[k])]) \o <<vertex>>, kept,
                  LAMBDA v, s : AddVertex(label, v, s)), LAMBDA all :
        LET answered == [all EXCEPT !.summary = Set(@, vertex, <<size[vertex], all.distinct, all.most, all.mode>>)]
        IN  IF keep THEN answered ELSE RemoveSubtree(tree, size, label, vertex, answered))))

SubtreeFrequencies(g, label, root) ==
    IF g.directed \/ g.n = 0 \/ DOMAIN label # Vertices(g) THEN Refused
    ELSE Once(BuildRootedTree(g, root), LAMBDA tree :
         IF tree = Refused THEN Refused
         ELSE Once(SubtreeSizes(tree), LAMBDA size :
              ProcessSubtree(tree, size, label, root, TRUE,
                  [frequency |-> [l \in { label[v] : v \in Vertices(g) } |-> 0], most |-> 0, mode |-> 0,
                   distinct |-> 0, added |-> 0, removed |-> 0, summary |-> << >>])))

AmortizedAddBound(n) == n * BitWidth(n)
-----------------------------------------------------------------------------
(***************************************************************************)
(* rake_compress_tree_contraction.hpp                                      *)
(***************************************************************************)
StrictTreeState(g) ==
    IF ~IsSimpleTree(g) \/ g.n = 0 THEN Refused
    ELSE [adjacent |-> [v \in Vertices(g) |-> ToSet(Targets(g, v))]]

(* The inner vertices of paths, each unless a neighbor was chosen before it. *)
CompressionVertices(adjacent, root) ==
    Each(Ascending(DOMAIN adjacent), << >>, LAMBDA v, chosen :
        IF v = root \/ Cardinality(adjacent[v]) # 2 \/ adjacent[v] \cap ToSet(chosen) # {} THEN chosen
        ELSE Append(chosen, v))

RakeVertices(adjacent, root) ==
    SelectSeq(Ascending(DOMAIN adjacent), LAMBDA v : v # root /\ Cardinality(adjacent[v]) = 1)

(* A vertex goes, and the neighbors of a compressed one become neighbors.    *)
WithoutTreeVertex(adjacent, vertex) ==
    Once([v \in DOMAIN adjacent \ {vertex} |->
             IF v \in adjacent[vertex] THEN (adjacent[v] \cup adjacent[vertex]) \ {v, vertex} ELSE adjacent[v]],
         LAMBDA rest : << >> @@ rest)

Contracted(adjacent, vertices) == Each(vertices, adjacent, LAMBDA v, a : WithoutTreeVertex(a, v))

StepsOf(adjacent, vertices) == [k \in DOMAIN vertices |-> <<vertices[k], Ascending(adjacent[vertices[k]])>>]

ContractionRound(root, s) ==
    Once(CompressionVertices(s.adjacent, root), LAMBDA compressed :
    Once(Contracted(s.adjacent, compressed), LAMBDA between :
    Once(RakeVertices(between, root), LAMBDA raked :
    Once(Contracted(between, raked), LAMBDA after :
        [adjacent |-> after,
         rounds |-> Append(s.rounds, [before |-> Cardinality(DOMAIN s.adjacent), after |-> Cardinality(DOMAIN after),
                                      compressions |-> StepsOf(s.adjacent, compressed),
                                      rakes |-> StepsOf(between, raked)])]))))

RakeCompressContraction(g, root) ==
    Once(StrictTreeState(g), LAMBDA tree :
        IF tree = Refused THEN Refused
        ELSE [rounds |-> While([adjacent |-> tree.adjacent, rounds |-> << >>],
                               LAMBDA s : Cardinality(DOMAIN s.adjacent) > 1,
                               LAMBDA s : ContractionRound(root, s)).rounds])

(* The compressions of a round are apart, as many as can be, and ascending;  *)
(* the rakes are all the leaves after them.                                  *)
ValidRound(root, round, adjacent) ==
    LET vertices == Firsts(round.compressions)
        chosen == ToSet(vertices)
    IN  /\ round.before = Cardinality(DOMAIN adjacent) /\ round.before > 1
        /\ \A k \in DOMAIN vertices :
              /\ vertices[k] \in DOMAIN adjacent \ {root}
              /\ Cardinality(adjacent[vertices[k]]) = 2
              /\ k > 1 => vertices[k - 1] < vertices[k]
              /\ round.compressions[k][2] = Ascending(adjacent[vertices[k]])
              /\ adjacent[vertices[k]] \cap chosen = {}
        /\ \A v \in DOMAIN adjacent \ (chosen \cup {root}) :
              Cardinality(adjacent[v]) = 2 => adjacent[v] \cap chosen # {}
        /\ Once(Contracted(adjacent, vertices), LAMBDA between :
              /\ round.rakes = StepsOf(between, RakeVertices(between, root))
              /\ round.after = Cardinality(DOMAIN between) - Len(round.rakes))

ValidContraction(g, root, rounds) ==
    Once(StrictTreeState(g), LAMBDA tree :
        /\ tree # Refused
        /\ Once(Each(rounds, [valid |-> TRUE, adjacent |-> tree.adjacent], LAMBDA round, s :
                    IF ~s.valid \/ ~ValidRound(root, round, s.adjacent) THEN [s EXCEPT !.valid = FALSE]
                    ELSE [s EXCEPT !.adjacent = Contracted(Contracted(@, Firsts(round.compressions)),
                                                           Firsts(round.rakes))]),
                LAMBDA s : s.valid /\ DOMAIN s.adjacent = {root}))
-----------------------------------------------------------------------------
(***************************************************************************)
(* min_plus_matrix.hpp.  A matrix is a list of rows; no value is Infinite, *)
(* and a sum that no word holds is Above all words.                        *)
(***************************************************************************)
Above == WeightMax + 1
Infinite == WeightMax + 2

MinPlusIdentity(n) == [row \in 1 .. n |-> [column \in 1 .. n |-> IF row = column THEN 0 ELSE Infinite]]

MinPlusSums(first, second, row, column) ==
    { first[row][k] + second[k][column] :
        k \in { j \in DOMAIN second : first[row][j] # Infinite /\ second[j][column] # Infinite } }

MinPlusProduct(first, second) ==
    LET columns == IF second = << >> THEN {} ELSE DOMAIN second[1]
        Sums(row, column) == MinPlusSums(first, second, row, column)
        Entry(row, column) == IF Sums(row, column) = {} THEN Infinite ELSE Min(Sums(row, column))
    IN  IF \E row \in DOMAIN first : Len(first[row]) # Len(second) THEN Refused
        ELSE IF \E row \in DOMAIN first : \E column \in columns :
                   \/ \E sum \in Sums(row, column) : sum < -WeightMax - 1
                   \/ Sums(row, column) # {} /\ Entry(row, column) > WeightMax
        THEN Overflow
        ELSE [matrix |-> [row \in DOMAIN first |-> [column \in columns |-> Entry(row, column)]]]

(* Sums that are too large stay Above, to be dropped for any that is not.   *)
NonnegativeProduct(first, second) ==
    [row \in DOMAIN first |-> [column \in DOMAIN first |->
        LET sums == MinPlusSums(first, second, row, column)
        IN  IF sums = {} THEN Infinite ELSE Min({Above, Min(sums)})]]

MinPlusPower(matrix, exponent) ==
    IF \E row, column \in DOMAIN matrix : matrix[row][column] < 0 THEN Refused
    ELSE Once(While([power |-> MinPlusIdentity(Len(matrix)), factor |-> matrix, remaining |-> exponent],
                    LAMBDA s : s.remaining # 0,
                    LAMBDA s : [power |-> IF s.remaining % 2 = 0 THEN s.power ELSE NonnegativeProduct(s.power, s.factor),
                                factor |-> IF s.remaining = 1 THEN s.factor ELSE NonnegativeProduct(s.factor, s.factor),
                                remaining |-> s.remaining \div 2]).power,
              LAMBDA power : IF \E row, column \in DOMAIN power : power[row][column] = Above THEN Overflow
                             ELSE [matrix |-> power])

ExactWalkDistances(g, count) ==
    LET weights(u, v) == { g.arcs[i][3] : i \in { j \in DOMAIN g.arcs : g.arcs[j][1] = u /\ g.arcs[j][2] = v } } IN
    IF \E i \in DOMAIN g.arcs : g.arcs[i][3] < 0 THEN Refused
    ELSE MinPlusPower([row \in 1 .. g.n |-> [column \in 1 .. g.n |->
                          Min({Infinite} \cup weights(row - 1, column - 1))]], count)
-----------------------------------------------------------------------------
(***************************************************************************)
(* general_graph_isomorphism.hpp.  A matrix counts the edges between two   *)
(* vertices; the colors of both graphs are one list, the first graph's     *)
(* vertices before the second's.                                           *)
(***************************************************************************)
MultiplicityMatrix(g) ==
    Once([u, v \in Vertices(g) |-> Len(SelectSeq(g.adjacent[u], LAMBDA entry : entry[1] = v))],
         LAMBDA matrix : matrix)

StaticSignature(matrix, n, vertex) ==
    LET row == [k \in 1 .. n |-> matrix[vertex, k - 1]]
    IN  <<matrix[vertex, vertex], FoldLeft(LAMBDA sum, x : sum + x, 0, row)>> \o SortSeq(row, LAMBDA a, b : a < b)

(* The number of each element in the order in which they first appear. *)
FirstSeen(list) ==
    Once(Each(list, << >>, LAMBDA x, ids : IF x \in ToSet(ids) THEN ids ELSE Append(ids, x)), LAMBDA ids :
        [k \in DOMAIN list |-> CHOOSE id \in DOMAIN ids : ids[id] = list[k]])

(* The matrix and the vertex that the place k of a list of colors is of. *)
MatrixAt(pair, n, k) == IF k <= n THEN pair[1] ELSE pair[2]
VertexAt(n, k) == (k - 1) % n

(* A color of the next round: the one so far, and the edges to each color of *)
(* the vertex's own graph.                                                   *)
RefinedSignature(pair, n, color, k) ==
    <<color[k]>> \o
    [c \in 1 .. Max(ToSet(color)) |->
        LET base == IF k <= n THEN 0 ELSE n IN
        FoldLeft(LAMBDA sum, u : sum + (IF color[base + u + 1] = c THEN MatrixAt(pair, n, k)[VertexAt(n, k), u] ELSE 0),
                 0, Upto(n))]

EvenlyColored(n, color) ==
    \A c \in ToSet(color) : 2 * Cardinality({ k \in 1 .. n : color[k] = c }) = Cardinality({ k \in DOMAIN color : color[k] = c })

RefineJointColors(pair, n) ==
    While([color |-> FirstSeen([k \in 1 .. 2 * n |-> StaticSignature(MatrixAt(pair, n, k), n, VertexAt(n, k))]),
           even |-> TRUE, done |-> FALSE],
          LAMBDA s : s.even /\ ~s.done,
          LAMBDA s : Once(FirstSeen([k \in 1 .. 2 * n |-> RefinedSignature(pair, n, s.color, k)]), LAMBDA next :
              [color |-> next, even |-> EvenlyColored(n, next), done |-> next = s.color]))

(* The color of a vertex, and its edges to those that have been assigned;    *)
(* side is 1 for the first graph and 2 for the second.                       *)
DynamicSignature(pair, n, color, assigned, side, vertex) ==
    <<color[(side - 1) * n + vertex + 1]>> \o [k \in DOMAIN assigned |-> pair[side][vertex, assigned[k][side]]]

Unassigned(n, assigned, side) == (0 .. n - 1) \ { assigned[k][side] : k \in DOMAIN assigned }

Alike(pair, n, color, assigned, a) ==
    { b \in Unassigned(n, assigned, 2) :
        DynamicSignature(pair, n, color, assigned, 2, b) = DynamicSignature(pair, n, color, assigned, 1, a) }

PartitionCompatible(pair, n, color, assigned) ==
    LET Signatures(side) == [v \in Unassigned(n, assigned, side) |-> DynamicSignature(pair, n, color, assigned, side, v)]
        Times(f, x) == Cardinality({ v \in DOMAIN f : f[v] = x })
    IN  Once(Signatures(1), LAMBDA first : Once(Signatures(2), LAMBDA second :
            \A x \in { first[v] : v \in DOMAIN first } \cup { second[v] : v \in DOMAIN second } :
                Times(first, x) = Times(second, x)))

LeafMatches(pair, assigned) ==
    \A j, k \in DOMAIN assigned :
        pair[1][assigned[j][1], assigned[k][1]] = pair[2][assigned[j][2], assigned[k][2]]

(* The vertex with the fewest candidates is assigned to each of them in turn. *)
RECURSIVE IsomorphismSearch(_, _, _, _, _)
IsomorphismSearch(pair, n, color, assigned, nodes) ==
    IF ~PartitionCompatible(pair, n, color, assigned) THEN [found |-> FALSE, assigned |-> << >>, nodes |-> nodes + 1]
    ELSE IF Len(assigned) = n
    THEN [found |-> LeafMatches(pair, assigned), assigned |-> assigned, nodes |-> nodes + 1]
    ELSE Once(Least({ <<Cardinality(Alike(pair, n, color, assigned, a)), a>> : a \in Unassigned(n, assigned, 1) })[2],
         LAMBDA chosen :
             Each(Ascending(Alike(pair, n, color, assigned, chosen)),
                  [found |-> FALSE, assigned |-> << >>, nodes |-> nodes + 1],
                  LAMBDA candidate, s :
                      IF s.found \/ pair[1][chosen, chosen] # pair[2][candidate, candidate] THEN s
                      ELSE IsomorphismSearch(pair, n, color, Append(assigned, <<chosen, candidate>>), s.nodes)))

ExactGraphIsomorphism(g, h) ==
    IF g.directed \/ h.directed THEN Refused
    ELSE IF g.n # h.n THEN Nothing
    ELSE Once(<<MultiplicityMatrix(g), MultiplicityMatrix(h)>>, LAMBDA pair :
         Once(RefineJointColors(pair, g.n), LAMBDA refined :
         IF ~refined.even THEN Nothing
         ELSE Once(IsomorphismSearch(pair, g.n, refined.color, << >>, 0), LAMBDA s :
              IF ~s.found THEN Nothing
              ELSE [map |-> s.assigned, nodes |-> s.nodes])))
-----------------------------------------------------------------------------
(***************************************************************************)
(* steiner_tree.cpp.  A set of terminals is the set of their numbers, and  *)
(* its mask the number whose bits they are.  A state that is reached has   *)
(* its cost, which is saturated, and where it came from.                   *)
(***************************************************************************)
MaskOf(set) == Each(Listed(set), 0, LAMBDA k, sum : sum + 2 ^ k)
ByMask(sets) == SortSeq(Listed(sets), LAMBDA a, b : MaskOf(a) < MaskOf(b))

SteinerLeaving(g, edges) ==
    Each(Upto(g.n), << >>, LAMBDA v, lists : Set(lists, v, Incident(edges, v)))

BetterState(row, vertex, cost) == vertex \notin DOMAIN row \/ cost < row[vertex].cost

(* Two trees of fewer terminals with a vertex in common. *)
MergedStates(states, set, row) ==
    Each(Reverse(ByMask({ S \in SUBSET set : S # {} /\ S # set /\ MaskOf(S) <= MaskOf(set \ S) })), row, LAMBDA part, r :
        LET left == states[part]
            right == states[set \ part]
        IN  Each(Ascending(DOMAIN left \cap DOMAIN right), r, LAMBDA v, t :
                LET cost == SaturatedAdd(left[v].cost, right[v].cost) IN
                IF BetterState(t, v, cost) THEN Set(t, v, [cost |-> cost, kind |-> "merge", part |-> part]) ELSE t))

(* A tree continued along edges. *)
ExtendedStates(edges, leaving, row) ==
    While([row |-> row, heap |-> { <<row[v].cost, v>> : v \in DOMAIN row }], LAMBDA s : s.heap # {},
          LAMBDA s : Once(Least(s.heap), LAMBDA current :
              LET rest == [s EXCEPT !.heap = @ \ {current}] IN
              IF current[1] # s.row[current[2]].cost THEN rest
              ELSE Each(leaving[current[2]], rest, LAMBDA entry, t :
                       LET cost == SaturatedAdd(current[1], edges[entry[2]][3]) IN
                       IF ~BetterState(t.row, entry[1], cost) THEN t
                       ELSE [row |-> Set(t.row, entry[1], [cost |-> cost, kind |-> "path",
                                                          from |-> current[2], edge |-> entry[2]]),
                             heap |-> t.heap \cup {<<cost, entry[1]>>}]))).row

SteinerStates(g, edges, terminals) ==
    LET seed(set) == IF Cardinality(set) # 1 THEN << >>
                     ELSE terminals[Min(set)] :> [cost |-> 0, kind |-> "seed"]
    IN  Once(SteinerLeaving(g, edges), LAMBDA leaving :
        Each(ByMask(SUBSET DOMAIN terminals \ {{}}), << >>, LAMBDA set, states :
            Once(MergedStates(states, set, seed(set)), LAMBDA merged :
                Set(states, set, ExtendedStates(edges, leaving, merged)))))

RECURSIVE SteinerTrace(_, _, _)
SteinerTrace(states, set, vertex) ==
    LET state == states[set][vertex] IN
    CASE state.kind = "seed" -> {}
      [] state.kind = "merge" -> SteinerTrace(states, state.part, vertex) \cup SteinerTrace(states, set \ state.part, vertex)
      [] state.kind = "path" -> {state.edge} \cup SteinerTrace(states, set, state.from)

(* The selected edges that close no cycle. *)
ForestEdges(n, edges, selected) ==
    Each(Ascending(selected), [forest |-> Singletons(0 .. n - 1), edges |-> << >>], LAMBDA k, s :
        Once(United(s.forest, edges[k][1], edges[k][2]), LAMBDA united :
            [forest |-> united, edges |-> IF united.count < s.forest.count THEN Append(s.edges, k) ELSE s.edges])).edges

MinimumSteinerTree(g, chosen) ==
    LET terminals == Ascending(ToSet(chosen)) IN
    IF g.directed \/ \E i \in DOMAIN g.arcs : g.arcs[i][3] < 0 THEN Refused
    ELSE IF Len(terminals) <= 1 THEN [total |-> 0, edges |-> << >>]
    ELSE Once(ExtractUndirectedEdges(g), LAMBDA edges :
         Once(SteinerStates(g, edges, terminals), LAMBDA states :
         LET full == states[DOMAIN terminals] IN
         IF full = << >> THEN Nothing
         ELSE Once(Least({ <<full[v].cost, v>> : v \in DOMAIN full }), LAMBDA best :
              IF best[1] > WeightMax THEN Overflow
              ELSE [total |-> best[1],
                    edges |-> ForestEdges(g.n, edges, SteinerTrace(states, DOMAIN terminals, best[2]))])))
-----------------------------------------------------------------------------
(***************************************************************************)
(* hamiltonian_cycle.cpp.  Costs are in two words and a sign, and exact.   *)
(***************************************************************************)
(* The least weight from a vertex to another, and its first entry. *)
CanonicalArcs(g) ==
    LET between(u, v) == { <<g.adjacent[u][k][2], k>> : k \in { j \in DOMAIN g.adjacent[u] : g.adjacent[u][j][1] = v } }
        joined == { <<u, v>> \in Vertices(g) \X Vertices(g) : u # v /\ between(u, v) # {} }
    IN  Each(InOrder(joined), << >>, LAMBDA p, arcs : Set(arcs, p, Least(between(p[1], p[2]))))

(* The cheapest ways from 0 through a set to its vertices, with the vertex   *)
(* before; a tie goes to the least.                                          *)
HamiltonianRow(arcs, table, set) ==
    LET ways(last) == IF set = {last} THEN { <<arcs[<<0, last>>][1], 0>> : p \in {<<0, last>>} \cap DOMAIN arcs }
                      ELSE { <<table[set \ {last}][p][1] + arcs[<<p, last>>][1], p>> :
                             p \in { q \in DOMAIN table[set \ {last}] : <<q, last>> \in DOMAIN arcs } }
    IN  Each(SelectSeq(Ascending(set), LAMBDA last : ways(last) # {}), << >>,
             LAMBDA last, row : Set(row, last, Least(ways(last))))

HamiltonianTable(g, arcs) ==
    Each(ByMask(SUBSET (1 .. g.n - 1) \ {{}}), << >>, LAMBDA set, table :
        Set(table, set, HamiltonianRow(arcs, table, set)))

HamiltonianPath(table, all, last) ==
    While([set |-> all, path |-> <<last>>], LAMBDA s : Head(s.path) # 0,
          LAMBDA s : [set |-> s.set \ {Head(s.path)}, path |-> <<table[s.set][Head(s.path)][2]>> \o s.path]).path

MinimumHamiltonianCycle(g) ==
    IF ~g.directed THEN Refused
    ELSE IF g.n <= 1 THEN [total |-> 0, cycle |-> Upto(g.n), states |-> 0]
    ELSE Once(CanonicalArcs(g), LAMBDA arcs :
         Once(HamiltonianTable(g, arcs), LAMBDA table :
         LET all == 1 .. g.n - 1
             closing == { v \in DOMAIN table[all] : <<v, 0>> \in DOMAIN arcs }
         IN  IF closing = {} THEN Nothing
             ELSE Once(Least({ <<table[all][v][1] + arcs[<<v, 0>>][1], v>> : v \in closing }), LAMBDA best :
                  IF ~Fits(best[1]) THEN Overflow
                  ELSE [total |-> best[1],
                        cycle |-> Append(HamiltonianPath(table, all, best[2]), 0),
                        states |-> Each(Listed(DOMAIN table), 0, LAMBDA set, sum : sum + Cardinality(DOMAIN table[set]))])))
-----------------------------------------------------------------------------
(***************************************************************************)
(* cograph.hpp.  A cotree lists its nodes, children before their parents.  *)
(***************************************************************************)
SimpleAdjacency(g) == Once([v \in Vertices(g) |-> ToSet(Targets(g, v)) \ {v}], LAMBDA adjacent : adjacent)

InducedComponents(vertices, adjacent, complement) ==
    { Explored({v}, LAMBDA u : IF complement THEN vertices \ (adjacent[u] \cup {u}) ELSE vertices \cap adjacent[u]) :
        v \in vertices }

ByLeast(sets) == SortSeq(Listed(sets), LAMBDA a, b : Min(a) < Min(b))

(* root is 0 when the vertices have no cotree. *)
RECURSIVE BuildCotree(_, _, _)
BuildCotree(vertices, adjacent, before) ==
    LET Node(s, node) == [nodes |-> Append(s, node), root |-> Len(s) + 1] IN
    IF Cardinality(vertices) = 1 THEN Node(before, [kind |-> "leaf", vertices |-> vertices, children |-> << >>])
    ELSE Once(InducedComponents(vertices, adjacent, FALSE), LAMBDA unions :
         Once(IF Cardinality(unions) > 1 THEN unions ELSE InducedComponents(vertices, adjacent, TRUE), LAMBDA parts :
         IF Cardinality(parts) = 1 THEN [nodes |-> before, root |-> 0]
         ELSE Once(Each(ByLeast(parts), [nodes |-> before, children |-> << >>, failed |-> FALSE], LAMBDA part, s :
                       IF s.failed THEN s
                       ELSE Once(BuildCotree(part, adjacent, s.nodes), LAMBDA child :
                           [nodes |-> child.nodes, children |-> Append(s.children, child.root),
                            failed |-> child.root = 0])), LAMBDA built :
              IF built.failed THEN [nodes |-> built.nodes, root |-> 0]
              ELSE Node(built.nodes, [kind |-> IF Cardinality(unions) > 1 THEN "union" ELSE "join",
                                      vertices |-> {}, children |-> built.children]))))

CographCotree(g) ==
    IF g.directed THEN Refused
    ELSE IF g.n = 0 THEN [nodes |-> << >>, root |-> 0]
    ELSE Once(BuildCotree(Vertices(g), SimpleAdjacency(g), << >>), LAMBDA built :
         IF built.root = 0 THEN Nothing ELSE built)

(* The leaves below a node, if it is sound and was not met before. *)
RECURSIVE ValidateNode(_, _, _, _)
ValidateNode(nodes, adjacent, id, met) ==
    LET invalid == [valid |-> FALSE, leaves |-> {}, met |-> met]
        node == nodes[id]
        Join(left, right) == \A u \in left : \A v \in right : node.kind = IF v \in adjacent[u] THEN "join" ELSE "union"
    IN  IF id \notin DOMAIN nodes \ met THEN invalid
        ELSE IF node.kind = "leaf"
        THEN [valid |-> Cardinality(node.vertices) = 1 /\ node.vertices \subseteq DOMAIN adjacent /\ node.children = << >>,
              leaves |-> node.vertices, met |-> met \cup {id}]
        ELSE IF node.vertices # {} \/ Len(node.children) < 2 THEN invalid
        ELSE Each(node.children, [valid |-> TRUE, leaves |-> {}, met |-> met \cup {id}, least |-> NoVertex], LAMBDA child, s :
                 IF ~s.valid THEN s
                 ELSE IF child \notin DOMAIN nodes \/ nodes[child].kind = node.kind THEN [s EXCEPT !.valid = FALSE]
                 ELSE Once(ValidateNode(nodes, adjacent, child, s.met), LAMBDA below :
                     IF ~below.valid THEN [s EXCEPT !.valid = FALSE]
                     ELSE
                     [valid |-> /\ below.leaves \cap s.leaves = {} /\ s.least < Min(below.leaves)
                                /\ Join(s.leaves, below.leaves),
                      leaves |-> s.leaves \cup below.leaves, met |-> below.met, least |-> Min(below.leaves)]))

ValidCotree(g, nodes, root) ==
    IF g.directed THEN FALSE
    ELSE IF g.n = 0 THEN root = 0 /\ nodes = << >>
    ELSE Once(ValidateNode(nodes, SimpleAdjacency(g), root, {}), LAMBDA whole :
         whole.valid /\ whole.leaves = Vertices(g) /\ whole.met = DOMAIN nodes)
-----------------------------------------------------------------------------
(***************************************************************************)
(* cactus_decomposition.hpp                                                *)
(***************************************************************************)
CycleThrough(adjacent, start, next) ==
    While(<<start, next>>, LAMBDA walk : Last(walk) # start /\ Len(walk) <= Cardinality(DOMAIN adjacent),
          LAMBDA walk : Append(walk, CHOOSE v \in adjacent[Last(walk)] : v # walk[Len(walk) - 1]))

ClassifyBlock(block) ==
    LET vertices == UNION { {e[1], e[2]} : e \in block }
        adjacent == [v \in vertices |-> { OtherEnd(e, v) : e \in { f \in block : v \in {f[1], f[2]} } }]
    IN  IF Cardinality(block) = 1 THEN [kind |-> "bridge", edges |-> block, cycle |-> << >>]
        ELSE IF Cardinality(block) # Cardinality(vertices) \/ \E v \in vertices : Cardinality(adjacent[v]) # 2
        THEN [kind |-> "complex", edges |-> block, cycle |-> << >>]
        ELSE LET start == Min(vertices)
                 walk == CycleThrough(adjacent, start, Min(adjacent[start]))
             IN  IF Len(walk) # Cardinality(vertices) + 1 THEN [kind |-> "complex", edges |-> block, cycle |-> << >>]
                 ELSE [kind |-> "cycle", edges |-> block, cycle |-> Front(walk)]

AnalyzeCactusForest(g) ==
    IF g.directed \/ CollectSimpleEdges(g) = Refused THEN Refused
    ELSE Once(CollectSimpleEdges(g).edges, LAMBDA edges :
         Once(BlockSearch(g.n, edges), LAMBDA s :
         Once({ ClassifyBlock({ edges[k] : k \in block }) : block \in s.edgeBlocks }, LAMBDA blocks :
             [cactus |-> \A b \in blocks : b.kind # "complex",
              components |-> Cardinality(Vertices(g) \ DOMAIN s.parent),
              blocks |-> blocks])))
-----------------------------------------------------------------------------
(***************************************************************************)
(* tutte_polynomial.hpp.  A polynomial maps the degrees <<x, y>> of its    *)
(* terms to their coefficients, as a bag does.                             *)
(***************************************************************************)
CanonicalizeEdges(pairs) ==
    SortSeq([k \in DOMAIN pairs |-> <<Min({pairs[k][1], pairs[k][2]}), Max({pairs[k][1], pairs[k][2]})>>], Precedes)

EdgeIsBridge(state) ==
    LET rest == ToSet(Tail(state.edges))
        first == state.edges[1]
    IN  first[2] \notin Explored({first[1]}, LAMBDA v : { OtherEnd(e, v) : e \in { f \in rest : v \in {f[1], f[2]} } })

DeleteEdge(state) == [state EXCEPT !.edges = Tail(@)]

ContractEdge(state) ==
    LET low == state.edges[1][1]
        high == state.edges[1][2]
        Remap(v) == IF v = high THEN low ELSE IF v > high THEN v - 1 ELSE v
    IN  [n |-> state.n - 1,
         edges |-> CanonicalizeEdges([k \in 1 .. Len(state.edges) - 1 |->
                      <<Remap(state.edges[k + 1][1]), Remap(state.edges[k + 1][2])>>])]

(* The states the first edge of a state leaves to solve. *)
TutteParts(state) ==
    IF state.edges = << >> THEN {}
    ELSE IF state.edges[1][1] = state.edges[1][2] THEN {DeleteEdge(state)}
    ELSE IF EdgeIsBridge(state) THEN {ContractEdge(state)}
    ELSE {DeleteEdge(state), ContractEdge(state)}

Multiplied(polynomial, x, y) ==
    [d \in { <<e[1] + x, e[2] + y>> : e \in DOMAIN polynomial } |-> polynomial[<<d[1] - x, d[2] - y>>]]

RECURSIVE TutteSolve(_)
TutteSolve(state) ==
    IF state.edges = << >> THEN <<0, 0>> :> 1
    ELSE IF state.edges[1][1] = state.edges[1][2] THEN Once(TutteSolve(DeleteEdge(state)), LAMBDA p : Multiplied(p, 0, 1))
    ELSE IF EdgeIsBridge(state) THEN Once(TutteSolve(ContractEdge(state)), LAMBDA p : Multiplied(p, 1, 0))
    ELSE Once(TutteSolve(DeleteEdge(state)), LAMBDA p : Once(TutteSolve(ContractEdge(state)), LAMBDA q : p (+) q))

TuttePolynomial(g) ==
    IF g.directed THEN Refused
    ELSE LET edges == ExtractUndirectedEdges(g)
             state == [n |-> g.n, edges |-> CanonicalizeEdges(edges)]
         IN  [terms |-> TutteSolve(state), states |-> Cardinality(Explored({state}, TutteParts))]

TutteCoefficient(terms, x, y) == IF <<x, y>> \in DOMAIN terms THEN terms[<<x, y>>] ELSE 0
-----------------------------------------------------------------------------
(***************************************************************************)
(* strong_connectivity_augmentation.hpp.  A component is its least vertex. *)
(***************************************************************************)
RECURSIVE AugmentSource(_, _, _)
AugmentSource(reachable, source, before) ==
    Each(reachable[source], [before EXCEPT !.found = FALSE], LAMBDA sink, s :
        IF s.found \/ sink \in s.seen THEN s
        ELSE LET met == [s EXCEPT !.seen = @ \cup {sink}] IN
             Once(IF sink \in DOMAIN s.match THEN AugmentSource(reachable, s.match[sink], met) ELSE [met EXCEPT !.found = TRUE],
                  LAMBDA t : IF t.found THEN [t EXCEPT !.match = Set(@, sink, source)] ELSE t))

(* The sinks that sources are matched with. *)
MatchedSinks(reachable, sources) ==
    Each(sources, [match |-> << >>, seen |-> {}, found |-> FALSE], LAMBDA source, s :
        AugmentSource(reachable, source, [s EXCEPT !.seen = {}])).match

(* Arcs that close a cycle through the matched pairs, and then put each      *)
(* other source and sink on a cycle with it.                                 *)
ArcsToAdd(sources, sinks, match) ==
    LET matched == Ascending({ match[t] : t \in DOMAIN match })
        ends == [k \in DOMAIN matched |-> CHOOSE t \in DOMAIN match : match[t] = matched[k]]
        freeSources == SelectSeq(sources, LAMBDA v : v \notin ToSet(matched))
        freeSinks == SelectSeq(sinks, LAMBDA v : v \notin DOMAIN match)
        EndAt(k) == IF k \in DOMAIN freeSinks THEN freeSinks[k] ELSE ends[1]
        StartAt(k) == IF k \in DOMAIN freeSources THEN freeSources[k] ELSE matched[1]
    IN  [k \in DOMAIN matched |-> <<ends[k], matched[(k % Len(matched)) + 1]>>]
        \o [k \in 1 .. Max({Len(freeSources), Len(freeSinks)}) |-> <<EndAt(k), StartAt(k)>>]

StrongConnectivityAugmentation(g) ==
    IF ~g.directed THEN Refused
    ELSE Once(Tarjan(g).components, LAMBDA components :
         IF Len(components) <= 1 THEN [added |-> << >>]
         ELSE Once([k \in DOMAIN components |-> Min(ToSet(components[k]))], LAMBDA least :
              Once({ <<least[p[1] + 1], least[p[2] + 1]>> : p \in ToSet(CondensationGraph(g, components)) }, LAMBDA dag :
              LET sources == Ascending({ v \in ToSet(least) : \A e \in dag : e[2] # v })
                  sinks == Ascending({ v \in ToSet(least) : \A e \in dag : e[1] # v })
                  After(v) == Explored({v}, LAMBDA u : { e[2] : e \in { f \in dag : f[1] = u } })
              IN  Once(Each(sources, << >>, LAMBDA v, lists :
                           Set(lists, v, SelectSeq(sinks, LAMBDA sink : sink \in After(v)))), LAMBDA reachable :
                      [added |-> ArcsToAdd(sources, sinks, MatchedSinks(reachable, sources))]))))
-----------------------------------------------------------------------------
(***************************************************************************)
(* dulmage_mendelsohn.hpp.  The vertices on the right are numbered after   *)
(* those on the left.                                                      *)
(***************************************************************************)
AlternatingArcs(leftCount, edges, match) ==
    { IF e[1] \in DOMAIN match /\ match[e[1]] = e[2] THEN <<leftCount + e[2], e[1]>> ELSE <<e[1], leftCount + e[2]>> :
      e \in ToSet(edges) }

(* The pairs of the matching outside of what the deficient vertices reach,   *)
(* an arc between two when an edge joins one's left to the other's right,    *)
(* and its components by their least vertex.                                 *)
BalancedBlocks(edges, match, balanced) ==
    LET lefts == Ascending(balanced)
        PairOf(left) == CHOOSE k \in DOMAIN lefts : lefts[k] = left
        PairAt(right) == CHOOSE k \in DOMAIN lefts : match[lefts[k]] = right
        inside == { e \in ToSet(edges) : e[1] \in balanced /\ e[2] \in { match[l] : l \in balanced } /\ match[e[1]] # e[2] }
        joined == InOrder(inside)
        arcs == [k \in DOMAIN joined |-> <<PairOf(joined[k][1]) - 1, PairAt(joined[k][2]) - 1, 1>>]
    IN  Once(Tarjan(GraphOf(Len(lefts), TRUE, arcs)).components, LAMBDA components :
        Once(ByLeast({ { lefts[k + 1] : k \in ToSet(components[c]) } : c \in DOMAIN components }), LAMBDA sides :
        LET BlockOf(left) == CHOOSE b \in DOMAIN sides : left \in sides[b]
            BlockAt(right) == BlockOf(CHOOSE l \in balanced : match[l] = right)
        IN  [blocks |-> [b \in DOMAIN sides |-> [left |-> sides[b], right |-> { match[l] : l \in sides[b] }]],
             dag |-> { p \in { <<BlockOf(e[1]), BlockAt(e[2])>> : e \in inside } : p[1] # p[2] }]))

DulmageMendelsohn(leftCount, rightCount, edges) ==
    Once(HopcroftKarp(leftCount, edges).left, LAMBDA match :
    Once(AlternatingArcs(leftCount, edges, match), LAMBDA arcs :
    LET freeLeft == (0 .. leftCount - 1) \ DOMAIN match
        freeRight == { leftCount + r : r \in (0 .. rightCount - 1) \ { match[l] : l \in DOMAIN match } }
    IN  Once(Explored(freeLeft, LAMBDA v : { a[2] : a \in { b \in arcs : b[1] = v } }), LAMBDA fromLeft :
        Once(Explored(freeRight, LAMBDA v : { a[1] : a \in { b \in arcs : b[2] = v } }), LAMBDA toRight :
        Once(BalancedBlocks(edges, match, (0 .. leftCount - 1) \ (fromLeft \cup toRight)), LAMBDA balanced :
            [match |-> match, leftDeficient |-> fromLeft, rightDeficient |-> toRight,
             blocks |-> balanced.blocks, dag |-> balanced.dag])))))
-----------------------------------------------------------------------------
(***************************************************************************)
(* minimum_fill_in.hpp                                                     *)
(***************************************************************************)
(* What is adjacent once vertices have been eliminated: two neighbors of one *)
(* connected part of them are.                                               *)
BuildState(adjacent, eliminated) ==
    LET parts == { Explored({v}, LAMBDA u : adjacent[u] \cap eliminated) : v \in eliminated }
        boundaries == { UNION { adjacent[u] : u \in part } \ eliminated : part \in parts }
    IN  Once(boundaries, LAMBDA all :
        Each(Ascending(DOMAIN adjacent \ eliminated), << >>, LAMBDA v, torso :
            Set(torso, v, ((adjacent[v] \ eliminated) \cup UNION { b \in all : v \in b }) \ {v})))

MissingPairs(torso, v) == { <<a, b>> \in torso[v] \X torso[v] : a < b /\ b \notin torso[a] }

LocalFillCost(torso, v) == Cardinality(MissingPairs(torso, v))

(* The least fill from each set of eliminated vertices on. *)
SolveStates(adjacent) ==
    LET all == DOMAIN adjacent IN
    Each(Reverse(ByMask(SUBSET all \ {all})), all :> 0, LAMBDA eliminated, cost :
        Once(BuildState(adjacent, eliminated), LAMBDA torso :
            Set(cost, eliminated, Min({ LocalFillCost(torso, v) + cost[eliminated \cup {v}] : v \in all \ eliminated }))))

ExactMinimumFillIn(g) ==
    IF g.directed THEN Refused
    ELSE Once(SimpleAdjacency(g), LAMBDA adjacent : Once(SolveStates(adjacent), LAMBDA cost :
         Once(While([eliminated |-> {}, order |-> << >>, fill |-> << >>], LAMBDA s : s.eliminated # Vertices(g), LAMBDA s :
                  Once(BuildState(adjacent, s.eliminated), LAMBDA torso :
                  Once(Min({ v \in DOMAIN torso : LocalFillCost(torso, v) + cost[s.eliminated \cup {v}] = cost[s.eliminated] }),
                       LAMBDA v : [eliminated |-> s.eliminated \cup {v}, order |-> Append(s.order, v),
                                   fill |-> s.fill \o InOrder(MissingPairs(torso, v))]))), LAMBDA s :
             [count |-> cost[{}], order |-> s.order, fill |-> s.fill])))
-----------------------------------------------------------------------------
(***************************************************************************)
(* densest_subgraph.hpp                                                    *)
(***************************************************************************)
BuildContext(g) ==
    LET edges == ExtractUndirectedEdges(g)
        scale == g.n * g.n + 1
    IN  [n |-> g.n, edges |-> edges, degree |-> [v \in Vertices(g) |-> Len(g.adjacent[v])], scale |-> scale,
         edgeScale |-> Len(edges) * scale, baseline |-> Len(edges) * scale * g.n]

(* A cut of the network below the baseline is around vertices whose density, *)
(* scaled, is above the threshold.                                           *)
HasDensityAbove(context, threshold) ==
    LET n == context.n
        sinkCapacity(v) == context.edgeScale - context.degree[v] * context.scale + 2 * threshold
        both == FlattenSeq([v \in 1 .. n |-> << <<n, v - 1, context.edgeScale, 0>>, <<v - 1, n + 1, sinkCapacity(v - 1), 0>> >>])
        across == FlattenSeq([k \in DOMAIN context.edges |->
                      << <<context.edges[k][1], context.edges[k][2], context.scale, 0>>,
                         <<context.edges[k][2], context.edges[k][1], context.scale, 0>> >>])
    IN  IF \E v \in 0 .. n - 1 : sinkCapacity(v) > WeightMax THEN Overflow
        ELSE Once(DinicMaxFlow(n + 2, both \o across, n, n + 1), LAMBDA flow :
             [feasible |-> flow.value < context.baseline, selected |-> flow.side \cap (0 .. n - 1)])

DensestSubgraph(g) ==
    IF g.directed \/ \E k \in DOMAIN g.arcs : g.arcs[k][1] = g.arcs[k][2] THEN Refused
    ELSE Once(BuildContext(g), LAMBDA context :
         IF context.edges = << >> THEN [vertices |-> Vertices(g) \cap {0}, count |-> 0]
         ELSE IF context.baseline > WeightMax \/ HasDensityAbove(context, context.edgeScale) = Overflow THEN Overflow
         ELSE Once(While([low |-> 0, high |-> context.edgeScale], LAMBDA s : s.low + 1 < s.high, LAMBDA s :
                       Once(s.low + (s.high - s.low) \div 2, LAMBDA middle :
                           IF HasDensityAbove(context, middle).feasible THEN [s EXCEPT !.low = middle]
                           ELSE [s EXCEPT !.high = middle])), LAMBDA s :
              Once(HasDensityAbove(context, s.low).selected, LAMBDA selected :
                  [vertices |-> selected,
                   count |-> Len(SelectSeq(context.edges, LAMBDA e : {e[1], e[2]} \subseteq selected))])))
-----------------------------------------------------------------------------
(***************************************************************************)
(* feedback_vertex_set.hpp                                                 *)
(***************************************************************************)
(* A cycle met by continuing a path outside of a set; closed are the         *)
(* vertices no cycle has been found from.                                    *)
RECURSIVE CycleAlong(_, _, _, _)
CycleAlong(g, removed, path, before) ==
    Once(Each(Targets(g, Last(path)), before, LAMBDA next, s :
             IF s.cycle # {} \/ next \in removed \cup s.closed THEN s
             ELSE IF next \in ToSet(path)
             THEN [s EXCEPT !.cycle = { path[k] : k \in (CHOOSE j \in DOMAIN path : path[j] = next) .. Len(path) }]
             ELSE CycleAlong(g, removed, Append(path, next), s)),
         LAMBDA s : [s EXCEPT !.closed = @ \cup {Last(path)}])

FindDirectedCycle(g, removed) ==
    Each(SelectSeq(Upto(g.n), LAMBDA v : v \notin removed), [cycle |-> {}, closed |-> {}], LAMBDA v, s :
        IF s.cycle # {} \/ v \in s.closed THEN s ELSE CycleAlong(g, removed, <<v>>, s)).cycle

(* The least vertex that no other kept vertex must come before, each time. *)
LeastOrder(g, kept) ==
    While(<< >>, LAMBDA order : ToSet(order) # kept,
          LAMBDA order : LET left == kept \ ToSet(order) IN
              Append(order, Min({ v \in left : \A u \in left : v \notin ToSet(Targets(g, u)) })))

(* best is the set of sets found so far, empty before the first. *)
RECURSIVE SearchFeedback(_, _, _)
SearchFeedback(g, removed, s) ==
    LET used == Cardinality(removed)
        met == [s EXCEPT !.visited = @ \cup {removed}]
        Beaten(bound) == \E best \in s.best : used >= Cardinality(best) + bound
        Better == \A best \in s.best : Precedes(<<used>> \o Ascending(removed), <<Cardinality(best)>> \o Ascending(best))
    IN  IF removed \in s.visited THEN s
        ELSE IF Beaten(1) THEN met
        ELSE Once(FindDirectedCycle(g, removed), LAMBDA cycle :
             IF cycle = {} THEN [met EXCEPT !.best = IF Better THEN {removed} ELSE @]
             ELSE IF Beaten(0) THEN met
             ELSE Each(Ascending(cycle), met, LAMBDA v, t : SearchFeedback(g, removed \cup {v}, t)))

MinimumFeedbackVertexSet(g) ==
    IF ~g.directed THEN Refused
    ELSE LET forced == { v \in Vertices(g) : v \in ToSet(Targets(g, v)) } IN
         Once(SearchFeedback(g, forced, [visited |-> {}, best |-> {}]), LAMBDA s :
         Once(CHOOSE best \in s.best : TRUE, LAMBDA best :
             [removed |-> best, forced |-> forced, order |-> LeastOrder(g, Vertices(g) \ best),
              states |-> Cardinality(s.visited)]))
-----------------------------------------------------------------------------
(***************************************************************************)
(* strong_orientation.hpp.  The search is from 0; a vertex's time is how   *)
(* many were discovered before it.                                         *)
(***************************************************************************)
RECURSIVE OrientFrom(_, _, _, _)
OrientFrom(edges, vertex, entering, before) ==
    LET time == Cardinality(DOMAIN before.discovery) IN
    Each(Incident(edges, vertex),
         [before EXCEPT !.discovery = Set(@, vertex, time), !.low = Set(@, vertex, time)],
         LAMBDA entry, s :
             LET oriented == [s EXCEPT !.orientation = IF entry[2] \in DOMAIN @ THEN @ ELSE Set(@, entry[2], <<vertex, entry[1]>>)] IN
             IF entry[2] = entering THEN s
             ELSE IF entry[1] = vertex THEN oriented
             ELSE IF entry[1] \in DOMAIN s.discovery
             THEN [oriented EXCEPT !.low[vertex] = Min({@, s.discovery[entry[1]]})]
             ELSE Once(OrientFrom(edges, entry[1], entry[2], oriented), LAMBDA t :
                  [t EXCEPT !.low[vertex] = Min({@, t.low[entry[1]]}),
                            !.bridges = IF t.low[entry[1]] > t.discovery[vertex] THEN @ \cup {entry[2]} ELSE @]))

StrongOrientation(g) ==
    IF g.directed THEN Refused
    ELSE IF g.n = 0 THEN [status |-> "success", edges |-> << >>]
    ELSE Once(ExtractUndirectedEdges(g), LAMBDA edges :
         Once(OrientFrom(edges, 0, 0, [discovery |-> << >>, low |-> << >>, orientation |-> << >>, bridges |-> {}]), LAMBDA s :
         IF DOMAIN s.discovery # Vertices(g) THEN [status |-> "disconnected"]
         ELSE IF s.bridges # {} THEN [status |-> "bridge", edge |-> Min(s.bridges)]
         ELSE [status |-> "success", edges |-> [k \in DOMAIN edges |-> s.orientation[k]]]))
-----------------------------------------------------------------------------
(***************************************************************************)
(* distance_hereditary.hpp.  A step is <<kind, vertex, reference>>.        *)
(***************************************************************************)
Pendants(adjacent, active) == { <<v, u>> \in active \X active : adjacent[v] \cap active = {u} }

Twins(adjacent, active, first, second) ==
    (adjacent[first] \cap active) \ {second} = (adjacent[second] \cap active) \ {first}

TwinKind(adjacent, first, second) == IF second \in adjacent[first] THEN "true_twin" ELSE "false_twin"

ValidStep(adjacent, active, step) ==
    /\ {step[2], step[3]} \subseteq active /\ step[2] # step[3]
    /\ IF step[1] = "pendant" THEN <<step[2], step[3]>> \in Pendants(adjacent, active)
       ELSE Twins(adjacent, active, step[2], step[3]) /\ step[1] = TwinKind(adjacent, step[2], step[3])

DistanceHereditaryPruning(g) ==
    IF g.directed THEN Refused
    ELSE Once(SimpleAdjacency(g), LAMBDA adjacent :
         Once(While([steps |-> << >>, active |-> Vertices(g), failed |-> FALSE],
                    LAMBDA s : Cardinality(s.active) > 1 /\ ~s.failed,
                    LAMBDA s : LET pendants == Pendants(adjacent, s.active)
                                   twins == { p \in s.active \X s.active : p[1] < p[2] /\ Twins(adjacent, s.active, p[1], p[2]) }
                                   Pruned(kind, p) == [s EXCEPT !.steps = Append(@, <<kind, p[1], p[2]>>), !.active = @ \ {p[1]}]
                               IN  IF pendants # {} THEN Pruned("pendant", Least(pendants))
                                   ELSE IF twins = {} THEN [s EXCEPT !.failed = TRUE]
                                   ELSE Once(Least(twins), LAMBDA p : Pruned(TwinKind(adjacent, p[1], p[2]), p))), LAMBDA s :
              IF s.failed THEN Nothing ELSE [steps |-> s.steps, survivor |-> s.active]))

(* survivor is the set of what is left, one vertex or none. *)
ValidPruning(g, steps, survivor) ==
    IF g.directed THEN FALSE
    ELSE IF g.n = 0 THEN steps = << >> /\ survivor = {}
    ELSE Once(SimpleAdjacency(g), LAMBDA adjacent :
         /\ survivor \subseteq Vertices(g) /\ Cardinality(survivor) = 1 /\ Len(steps) = g.n - 1
         /\ Each(steps, [active |-> Vertices(g), valid |-> TRUE], LAMBDA step, s :
                [active |-> s.active \ {step[2]}, valid |-> s.valid /\ ValidStep(adjacent, s.active, step)])
            = [active |-> survivor, valid |-> TRUE])
-----------------------------------------------------------------------------
(***************************************************************************)
(* bipartite_degree_sequence.hpp.  Vertices are numbered from 1.           *)
(***************************************************************************)
InDegreeDomain(left, right) ==
    ToSet(left) \subseteq 0 .. Len(right) /\ ToSet(right) \subseteq 0 .. Len(left)

GaleRyser(left, right) ==
    LET Total(list) == FoldLeft(LAMBDA sum, d : sum + d, 0, list)
        descending == SortSeq(left, LAMBDA a, b : a > b)
    IN  IF ~InDegreeDomain(left, right) THEN Refused
        ELSE [graphical |->
                 /\ Total(left) = Total(right)
                 /\ \A k \in DOMAIN left :
                       Total(SubSeq(descending, 1, k)) <= Total([r \in DOMAIN right |-> Min({k, right[r]})])]

LargestFirst(degrees) ==
    SortSeq([v \in DOMAIN degrees |-> v], LAMBDA a, b : Precedes(<<-degrees[a], a>>, <<-degrees[b], b>>))

HavelHakimi(left, right) ==
    IF ~InDegreeDomain(left, right) THEN Refused
    ELSE Once(Each(SelectSeq(LargestFirst(left), LAMBDA v : left[v] > 0),
                   [edges |-> {}, left |-> right, steps |-> 0, failed |-> FALSE], LAMBDA v, s :
                  LET chosen == SubSeq(LargestFirst(s.left), 1, left[v]) IN
                  IF s.failed \/ \E u \in ToSet(chosen) : s.left[u] = 0 THEN [s EXCEPT !.failed = TRUE]
                  ELSE [s EXCEPT !.steps = @ + 1, !.edges = @ \cup { <<v, u>> : u \in ToSet(chosen) },
                                 !.left = [u \in DOMAIN @ |-> IF u \in ToSet(chosen) THEN @[u] - 1 ELSE @[u]]]), LAMBDA s :
         IF s.failed \/ \E u \in DOMAIN right : s.left[u] # 0 THEN Nothing
         ELSE [edges |-> InOrder(s.edges), steps |-> s.steps])

ValidDegreeRealization(left, right, edges) ==
    LET Times(side, v) == Cardinality({ k \in DOMAIN edges : edges[k][side] = v }) IN
    /\ ToSet(edges) \subseteq (DOMAIN left) \X (DOMAIN right)
    /\ \A k \in 1 .. Len(edges) - 1 : Precedes(edges[k], edges[k + 1])
    /\ \A v \in DOMAIN left : Times(1, v) = left[v]
    /\ \A u \in DOMAIN right : Times(2, u) = right[u]
-----------------------------------------------------------------------------
(***************************************************************************)
(* planarity.cpp.  A rotation lists the neighbors of each vertex in a      *)
(* cyclic order.                                                           *)
(***************************************************************************)
ComponentEdgeCount(adjacent, component) == Cardinality({ <<u, v>> \in component \X component : u < v /\ v \in adjacent[u] })

(* Around a face, the way into a vertex is followed by the way out to the    *)
(* neighbor next in its order.                                               *)
FaceCount(adjacent, component, rotation) ==
    LET ways == { <<u, v>> \in component \X component : v \in adjacent[u] }
        After(way) == LET cyclic == rotation[way[2]]
                          index == CHOOSE k \in DOMAIN cyclic : cyclic[k] = way[1]
                      IN  <<way[2], cyclic[(index % Len(cyclic)) + 1]>>
    IN  IF ways = {} THEN 1 ELSE Cardinality({ Explored({way}, LAMBDA w : {After(w)}) : way \in ways })

IsGenusZero(adjacent, component, faces) ==
    LET edges == ComponentEdgeCount(adjacent, component) IN
    IF edges = Cardinality(component) - 1 THEN faces = 1
    ELSE edges >= Cardinality(component) /\ faces = edges - Cardinality(component) + 2

(* The cyclic orders of neighbors, the first of which stays. *)
CyclicOrders(neighbors) ==
    IF Len(neighbors) <= 2 THEN <<neighbors>>
    ELSE LET rest == Tail(neighbors)
             orders == InOrder({ [k \in DOMAIN rest |-> order[rest[k]]] : order \in Permutations(ToSet(rest)) })
         IN  [k \in DOMAIN orders |-> <<neighbors[1]>> \o orders[k]]

RECURSIVE SearchRotation(_, _, _, _)
SearchRotation(adjacent, component, variables, s) ==
    IF variables = << >>
    THEN Once(FaceCount(adjacent, component, s.rotation), LAMBDA faces :
             [s EXCEPT !.tested = @ + 1, !.faces = faces, !.found = IsGenusZero(adjacent, component, faces)])
    ELSE Each(CyclicOrders(Ascending(adjacent[variables[1]])), s, LAMBDA order, t :
             IF t.found THEN t
             ELSE SearchRotation(adjacent, component, Tail(variables), [t EXCEPT !.rotation = Set(@, variables[1], order)]))

PlanarRotationEmbedding(g) ==
    IF g.directed THEN Refused
    ELSE Once(SimpleAdjacency(g), LAMBDA adjacent :
         Once(Each(ByLeast(InducedComponents(Vertices(g), adjacent, FALSE)),
                   [rotation |-> << >>, tested |-> 0, faces |-> << >>, failed |-> FALSE], LAMBDA component, s :
                  LET size == Cardinality(component)
                      variables == SortSeq(Ascending(component), LAMBDA a, b :
                                       Precedes(<<-Cardinality(adjacent[a]), a>>, <<-Cardinality(adjacent[b]), b>>))
                  IN  IF s.failed \/ (size >= 3 /\ ComponentEdgeCount(adjacent, component) > 3 * (size - 2))
                      THEN [s EXCEPT !.failed = TRUE]
                      ELSE Once(SearchRotation(adjacent, component, variables,
                                    [rotation |-> s.rotation, tested |-> s.tested, faces |-> 0, found |-> FALSE]), LAMBDA t :
                           [rotation |-> t.rotation, tested |-> t.tested, faces |-> Append(s.faces, t.faces),
                            failed |-> ~t.found])), LAMBDA s :
              IF s.failed THEN Nothing ELSE [rotation |-> s.rotation, tested |-> s.tested, faces |-> s.faces]))

(***************************************************************************)
(* vertex_connectivity.hpp.  A vertex v is split into 2v, which the arcs   *)
(* enter, and 2v + 1, which they leave.                                    *)
(***************************************************************************)
FirstDisconnectedPair(n, adjacent) ==
    LET seen == Explored({0}, LAMBDA v : adjacent[v])
        unseen == (0 .. n - 1) \ seen
    IN  IF unseen = {} THEN << >> ELSE <<0, Min(unseen)>>

SplitNetwork(n, adjacent, source, sink) ==
    [k \in 1 .. n |-> <<2 * (k - 1), 2 * (k - 1) + 1, IF k - 1 \in {source, sink} THEN n + 1 ELSE 1, 0>>]
    \o FlattenSeq([k \in 1 .. n |->
           LET left == k - 1
               beyond == Ascending({ right \in adjacent[left] : right > left })
           IN  FlattenSeq([j \in DOMAIN beyond |->
                   << <<2 * left + 1, 2 * beyond[j], n + 1, 0>>, <<2 * beyond[j] + 1, 2 * left, n + 1, 0>> >>])])

MinimumNonadjacentPairCut(n, adjacent, source, sink) ==
    Once(DinicMaxFlow(2 * n, SplitNetwork(n, adjacent, source, sink), 2 * source + 1, 2 * sink), LAMBDA flow :
        { v \in (0 .. n - 1) \ {source, sink} : 2 * v \in flow.side /\ 2 * v + 1 \notin flow.side })

LeastSeparator(n, adjacent) ==
    Each(SelectSeq(InOrder((0 .. n - 1) \X (0 .. n - 1)), LAMBDA p : p[1] < p[2] /\ p[2] \notin adjacent[p[1]]),
         [best |-> n, separator |-> {}, pair |-> << >>], LAMBDA p, s :
             Once(MinimumNonadjacentPairCut(n, adjacent, p[1], p[2]), LAMBDA cut :
                 IF Cardinality(cut) >= s.best THEN s
                 ELSE [best |-> Cardinality(cut), separator |-> cut, pair |-> p]))

ExactVertexConnectivity(g) ==
    LET Answer(connectivity, separator, pair, connected, complete) ==
            [connectivity |-> connectivity, separator |-> separator, pair |-> pair,
             connected |-> connected, complete |-> complete]
    IN  IF g.directed THEN Refused
        ELSE IF g.n < 2 THEN Answer(0, {}, << >>, g.n = 1, g.n = 1)
        ELSE Once(SimpleAdjacency(g), LAMBDA adjacent :
             IF FirstDisconnectedPair(g.n, adjacent) # << >>
             THEN Answer(0, {}, FirstDisconnectedPair(g.n, adjacent), FALSE, FALSE)
             ELSE IF \A v \in Vertices(g) : Vertices(g) \ {v} \subseteq adjacent[v]
             THEN Answer(g.n - 1, 0 .. g.n - 2, << >>, TRUE, TRUE)
             ELSE Once(LeastSeparator(g.n, adjacent), LAMBDA s : Answer(s.best, s.separator, s.pair, TRUE, FALSE)))
-----------------------------------------------------------------------------
(***************************************************************************)
(* k_shortest_paths.hpp.  An arc is <<from, index>>.                       *)
(***************************************************************************)
ArcsBackTo(parent, source, target) ==
    While(<< >>, LAMBDA p : (IF p = << >> THEN target ELSE p[1][1]) # source,
          LAMBDA p : <<parent[IF p = << >> THEN target ELSE p[1][1]]>> \o p)

OnPath(g, source, arcs) == <<source>> \o [k \in DOMAIN arcs |-> g.adjacent[arcs[k][1]][arcs[k][2]][1]]

RelaxOpen(g, vertices, arcs, from, k, s) ==
    LET to == g.adjacent[from][k][1]
        candidate == s.distance[from] + g.adjacent[from][k][2]
    IN  IF s.overflow \/ to \in vertices \cup s.settled \/ <<from, k>> \in arcs THEN s
        ELSE IF candidate > WeightMax THEN [s EXCEPT !.overflow = TRUE]
        ELSE IF to \in DOMAIN s.distance /\ s.distance[to] <= candidate THEN s
        ELSE [s EXCEPT !.distance = Set(@, to, candidate), !.parent = Set(@, to, <<from, k>>),
                       !.queue = @ \cup {<<candidate, to>>}]

SettleNext(g, target, vertices, arcs, s) ==
    LET top == Least(s.queue)
        popped == [s EXCEPT !.queue = @ \ {top}]
        settled == [popped EXCEPT !.settled = @ \cup {top[2]}]
    IN  IF top[1] # s.distance[top[2]] \/ top[2] \in s.settled THEN popped
        ELSE IF top[2] = target THEN settled
        ELSE Each([k \in DOMAIN g.adjacent[top[2]] |-> k], settled,
                  LAMBDA k, t : RelaxOpen(g, vertices, arcs, top[2], k, t))

ShortestPathWithExclusions(g, source, target, vertices, arcs) ==
    IF {source, target} \cap vertices # {} THEN Nothing
    ELSE IF source = target THEN [total |-> 0, vertices |-> <<source>>, edges |-> << >>]
    ELSE Once(While([distance |-> source :> 0, parent |-> << >>, queue |-> {<<0, source>>}, settled |-> {}, overflow |-> FALSE],
                    LAMBDA s : s.queue # {} /\ target \notin s.settled /\ ~s.overflow,
                    LAMBDA s : SettleNext(g, target, vertices, arcs, s)), LAMBDA s :
         IF s.overflow THEN Overflow
         ELSE IF target \notin DOMAIN s.distance THEN Nothing
         ELSE Once(ArcsBackTo(s.parent, source, target), LAMBDA path :
              [total |-> s.distance[target], vertices |-> OnPath(g, source, path), edges |-> path]))

(* The paths that leave the last accepted one at its k-th vertex.            *)
SpurAt(g, target, accepted, k, s) ==
    LET previous == Last(accepted)
        root == SubSeq(previous.edges, 1, k - 1)
        before == SubSeq(previous.vertices, 1, k - 1)
        taken == { p \in ToSet(accepted) : Len(p.edges) >= k /\ IsPrefix(root, p.edges) }
        arc == previous.edges[k]
        cost == s.root + g.adjacent[arc[1]][arc[2]][2]
    IN  IF s.overflow THEN s
        ELSE Once(ShortestPathWithExclusions(g, previous.vertices[k], target, ToSet(before), { p.edges[k] : p \in taken }),
                  LAMBDA spur :
             IF spur = Overflow THEN [s EXCEPT !.overflow = TRUE]
             ELSE IF spur = Nothing THEN [s EXCEPT !.root = cost]
             ELSE IF s.root + spur.total > WeightMax THEN [s EXCEPT !.overflow = TRUE]
             ELSE [s EXCEPT !.root = cost,
                            !.candidates = @ \cup ({[total |-> s.root + spur.total, vertices |-> before \o spur.vertices,
                                                     edges |-> root \o spur.edges]} \ ToSet(accepted))])

CheapestCandidate(candidates) ==
    LET Key(p) == <<p.total>> \o FlattenSeq(p.edges)
    IN  CHOOSE p \in candidates : \A q \in candidates \ {p} : Precedes(Key(p), Key(q))

NextLooplessPath(g, target, s) ==
    LET previous == Last(s.accepted) IN
    Once(Each([k \in DOMAIN previous.edges |-> k], [candidates |-> s.candidates, root |-> 0, overflow |-> FALSE],
              LAMBDA k, t : SpurAt(g, target, s.accepted, k, t)), LAMBDA t :
        IF t.overflow \/ t.candidates = {} THEN [s EXCEPT !.overflow = t.overflow, !.done = TRUE]
        ELSE Once(CheapestCandidate(t.candidates), LAMBDA best :
             [s EXCEPT !.accepted = Append(@, best), !.candidates = t.candidates \ {best}]))

YenKShortestLooplessPaths(g, source, target, k) ==
    LET Answer(paths) == [paths |-> paths]
    IN  IF ~g.directed \/ \E a \in ToSet(g.arcs) : a[3] < 0 THEN Refused
        ELSE IF k = 0 THEN Answer(<< >>)
        ELSE Once(ShortestPathWithExclusions(g, source, target, {}, {}), LAMBDA first :
             IF first = Overflow THEN Overflow
             ELSE IF first = Nothing THEN Answer(<< >>)
             ELSE IF source = target THEN Answer(<<first>>)
             ELSE Once(While([accepted |-> <<first>>, candidates |-> {}, done |-> FALSE, overflow |-> FALSE],
                             LAMBDA s : Len(s.accepted) < k /\ ~s.done,
                             LAMBDA s : NextLooplessPath(g, target, s)), LAMBDA s :
                  IF s.overflow THEN Overflow ELSE Answer(s.accepted)))
-----------------------------------------------------------------------------
(***************************************************************************)
(* prufer_code.hpp.  live are the vertices whose arcs are not erased.      *)
(***************************************************************************)
PruferRefused(g) ==
    LET edges == { {a[1], a[2]} : a \in ToSet(g.arcs) }
    IN  \/ g.directed \/ g.n = 0
        \/ \E a \in ToSet(g.arcs) : a[1] = a[2]
        \/ Len(g.arcs) # 2 * Cardinality(edges)
        \/ Cardinality(edges) # g.n - 1
        \/ Explored({0}, LAMBDA v : ToSet(Targets(g, v))) # Vertices(g)

PruferStep(adjacent, s) ==
    LET leaf == Min({ v \in s.live : Cardinality(adjacent[v] \cap s.live) = 1 })
    IN  [live |-> s.live \ {leaf}, code |-> s.code \o Listed(adjacent[leaf] \cap s.live)]

PruferEncode(g) ==
    IF PruferRefused(g) THEN Refused
    ELSE Once(SimpleAdjacency(g), LAMBDA adjacent :
         [code |-> While([live |-> Vertices(g), code |-> << >>], LAMBDA s : Len(s.code) < g.n - 2,
                         LAMBDA s : PruferStep(adjacent, s)).code])

(* degree[v] counts v and what is left of the code.                          *)
PruferDecode(n, code) ==
    IF n = 0 \/ Len(code) # Max({n - 2, 0}) THEN Refused
    ELSE IF n = 1 THEN [edges |-> << >>]
    ELSE IF \E k \in DOMAIN code : code[k] >= n THEN Refused
    ELSE Once(Each(code, [edges |-> << >>,
                          degree |-> [v \in 0 .. n - 1 |-> 1 + Cardinality({ k \in DOMAIN code : code[k] = v })]],
                   LAMBDA neighbor, s :
                       Once(Min({ v \in 0 .. n - 1 : s.degree[v] = 1 }), LAMBDA leaf :
                       [edges |-> Append(s.edges, <<leaf, neighbor>>),
                        degree |-> [s.degree EXCEPT ![leaf] = 0, ![neighbor] = @ - 1]])), LAMBDA s :
         [edges |-> Append(s.edges, Ascending({ v \in 0 .. n - 1 : s.degree[v] = 1 }))])
-----------------------------------------------------------------------------
(***************************************************************************)
(* treewidth.hpp.  The table is filled from the full set downwards; the    *)
(* search meets every set of eliminated vertices.                          *)
(***************************************************************************)
TorsoNeighbors(adjacent, eliminated, vertex) ==
    UNION { adjacent[v] : v \in {vertex} \cup Explored(adjacent[vertex] \cap eliminated, LAMBDA u : adjacent[u] \cap eliminated) }
    \ (eliminated \cup {vertex})

WidthOf(adjacent, widths, eliminated, vertex) ==
    Max({Cardinality(TorsoNeighbors(adjacent, eliminated, vertex)), widths[eliminated \cup {vertex}]})

EliminationWidths(vertices, adjacent) ==
    Each(Reverse(Upto(Cardinality(vertices))), vertices :> 0, LAMBDA size, widths :
        widths @@ [eliminated \in { S \in SUBSET vertices : Cardinality(S) = size } |->
                      Min({ WidthOf(adjacent, widths, eliminated, v) : v \in vertices \ eliminated })])

ExactTreewidth(g) ==
    IF g.directed THEN Refused
    ELSE Once(SimpleAdjacency(g), LAMBDA adjacent :
         Once(EliminationWidths(Vertices(g), adjacent), LAMBDA widths :
         [width |-> widths[{}],
          steps |-> While(<< >>, LAMBDA steps : Len(steps) < g.n, LAMBDA steps :
                        Once({ steps[k].vertex : k \in DOMAIN steps }, LAMBDA eliminated :
                        Once(Min({ v \in Vertices(g) \ eliminated : WidthOf(adjacent, widths, eliminated, v) <= widths[{}] }),
                             LAMBDA v : Append(steps, [vertex |-> v,
                                            bag |-> <<v>> \o Ascending(TorsoNeighbors(adjacent, eliminated, v))]))))]))
-----------------------------------------------------------------------------
(***************************************************************************)
(* maximum_clique.cpp                                                      *)
(***************************************************************************)
ChoosePivot(adjacent, candidates, excluded) ==
    Least({ <<-Cardinality(adjacent[v] \cap candidates), v>> : v \in candidates \cup excluded })[2]

UpdateBest(current, result) ==
    LET sorted == Ascending(current)
    IN  IF \/ Len(sorted) > Len(result.vertices)
           \/ Len(sorted) = Len(result.vertices) /\ Precedes(sorted, result.vertices)
        THEN [result EXCEPT !.vertices = sorted] ELSE result

RECURSIVE BronKerbosch(_, _, _, _, _)
BronKerbosch(adjacent, current, candidates, excluded, before) ==
    LET result == [before EXCEPT !.calls = @ + 1]
    IN  IF candidates \cup excluded = {} THEN UpdateBest(current, [result EXCEPT !.maximal = @ + 1])
        ELSE Each(Ascending(candidates \ adjacent[ChoosePivot(adjacent, candidates, excluded)]),
                  [candidates |-> candidates, excluded |-> excluded, result |-> result], LAMBDA v, s :
                  [candidates |-> s.candidates \ {v}, excluded |-> s.excluded \cup {v},
                   result |-> BronKerbosch(adjacent, current \cup {v}, s.candidates \cap adjacent[v],
                                           s.excluded \cap adjacent[v], s.result)]).result

MaximumClique(g) ==
    IF g.directed THEN Refused
    ELSE Once(SimpleAdjacency(g), LAMBDA adjacent :
         BronKerbosch(adjacent, {}, Vertices(g), {}, [vertices |-> << >>, calls |-> 0, maximal |-> 0]))
-----------------------------------------------------------------------------
(***************************************************************************)
(* exact_coloring.hpp.  A vertex that is not colored has no color.         *)
(***************************************************************************)
SaturationDegree(adjacent, colors, vertex) ==
    Cardinality({ colors[v] : v \in adjacent[vertex] \cap DOMAIN colors })

ChooseUncolored(adjacent, colors) ==
    Least({ <<-SaturationDegree(adjacent, colors, v), -Cardinality(adjacent[v]), v>> : v \in DOMAIN adjacent \ DOMAIN colors })[3]

ColorAllowed(adjacent, colors, vertex, color) ==
    \A v \in adjacent[vertex] \cap DOMAIN colors : colors[v] # color

UsedColorCount(colors) == Max({ colors[v] + 1 : v \in DOMAIN colors } \cup {0})

GreedyDsatur(adjacent) ==
    While(<< >>, LAMBDA colors : DOMAIN colors # DOMAIN adjacent, LAMBDA colors :
        Once(ChooseUncolored(adjacent, colors), LAMBDA vertex :
            Set(colors, vertex, Min({ c \in 0 .. UsedColorCount(colors) : ColorAllowed(adjacent, colors, vertex, c) }))))

(* Every used color, and one new color below the limit.                      *)
RECURSIVE SearchKColoring(_, _, _, _)
SearchKColoring(adjacent, limit, colors, nodes) ==
    LET used == UsedColorCount(colors)
    IN  IF DOMAIN colors = DOMAIN adjacent THEN [found |-> TRUE, colors |-> colors, nodes |-> nodes + 1]
        ELSE Once(ChooseUncolored(adjacent, colors), LAMBDA vertex :
             Each(SelectSeq(Upto(used), LAMBDA c : ColorAllowed(adjacent, colors, vertex, c))
                  \o (IF used < limit THEN <<used>> ELSE << >>),
                  [found |-> FALSE, colors |-> colors, nodes |-> nodes + 1], LAMBDA c, s :
                  IF s.found THEN s
                  ELSE Once(SearchKColoring(adjacent, limit, Set(colors, vertex, c), s.nodes), LAMBDA t :
                       IF t.found THEN t ELSE [s EXCEPT !.nodes = t.nodes])))

ExactGraphColoring(g) ==
    LET Answer(number, colors, clique, greedy, nodes) ==
            [chromatic |-> number, colors |-> colors, clique |-> clique, greedy |-> greedy, nodes |-> nodes]
    IN  IF g.directed THEN Refused
        ELSE IF \E a \in ToSet(g.arcs) : a[1] = a[2] THEN Nothing
        ELSE IF g.n = 0 THEN Answer(0, << >>, << >>, 0, 0)
        ELSE Once(SimpleAdjacency(g), LAMBDA adjacent :
             Once(MaximumClique(g).vertices, LAMBDA clique :
             Once(GreedyDsatur(adjacent), LAMBDA greedy :
             Once(UsedColorCount(greedy), LAMBDA upper :
             Once(While([limit |-> Len(clique), found |-> FALSE, colors |-> greedy, nodes |-> 0],
                        LAMBDA s : ~s.found /\ s.limit < upper, LAMBDA s :
                        Once(SearchKColoring(adjacent, s.limit, << >>, 0), LAMBDA t :
                            [limit |-> IF t.found THEN s.limit ELSE s.limit + 1, found |-> t.found,
                             colors |-> IF t.found THEN t.colors ELSE greedy, nodes |-> s.nodes + t.nodes])),
                  LAMBDA s : Answer(s.limit, s.colors, clique, upper, s.nodes))))))
-----------------------------------------------------------------------------
(***************************************************************************)
(* minimum_dominating_set.hpp                                              *)
(***************************************************************************)
ClosedNeighborhoods(g) == Once([v \in Vertices(g) |-> ToSet(Targets(g, v)) \cup {v}], LAMBDA closed : closed)

GreedyDominating(closed) ==
    While(<< >>, LAMBDA list : UNION { closed[v] : v \in ToSet(list) } # DOMAIN closed, LAMBDA list :
        LET dominated == UNION { closed[v] : v \in ToSet(list) }
        IN  Append(list, Least({ <<-Cardinality(closed[v] \ dominated), v>> : v \in DOMAIN closed })[2]))

(* Too many when no vertex dominates more.                                   *)
LowerBoundAdditional(closed, dominated, selected) ==
    LET remaining == DOMAIN closed \ dominated
        gain == Max({ Cardinality(closed[v] \cap remaining) : v \in DOMAIN closed \ selected } \cup {0})
    IN  IF remaining = {} THEN 0
        ELSE IF gain = 0 THEN Cardinality(DOMAIN closed) + 1
        ELSE (Cardinality(remaining) + gain - 1) \div gain

BranchCandidates(closed, dominated, selected) ==
    LET witness == Least({ <<Cardinality(closed[v]), v>> : v \in DOMAIN closed \ dominated })[2]
        Gain(v) == Cardinality(closed[v] \ dominated)
    IN  SortSeq(Ascending(closed[witness] \ selected), LAMBDA u, v : Gain(u) > Gain(v) \/ (Gain(u) = Gain(v) /\ u < v))

RECURSIVE SearchDominating(_, _, _)
SearchDominating(closed, selected, before) ==
    LET dominated == UNION { closed[v] : v \in selected }
        s == [before EXCEPT !.seen = @ \cup {selected}, !.explored = @ + 1]
        size == Cardinality(selected)
        limit == Cardinality(before.best)
    IN  IF selected \in before.seen THEN before
        ELSE IF dominated = DOMAIN closed THEN (IF size < limit THEN [s EXCEPT !.best = selected] ELSE s)
        ELSE IF size + LowerBoundAdditional(closed, dominated, selected) >= limit THEN [s EXCEPT !.prunes = @ + 1]
        ELSE Each(BranchCandidates(closed, dominated, selected), s,
                  LAMBDA v, t : SearchDominating(closed, selected \cup {v}, t))

MinimumDominatingSet(g) ==
    IF g.directed THEN Refused
    ELSE IF g.n = 0 THEN [vertices |-> << >>, explored |-> 0, prunes |-> 0]
    ELSE Once(ClosedNeighborhoods(g), LAMBDA closed :
         Once(SearchDominating(closed, {}, [seen |-> {}, best |-> ToSet(GreedyDominating(closed)), explored |-> 0, prunes |-> 0]),
              LAMBDA s : [vertices |-> Ascending(s.best), explored |-> s.explored, prunes |-> s.prunes]))
=============================================================================
