---------------------------- MODULE DominatorTree ----------------------------
(***************************************************************************)
(* The constructor of DominatorTree: Lengauer and Tarjan's algorithm, one  *)
(* iteration of one of its loops per step.  A depth-first search numbers   *)
(* the vertices; in decreasing order of the numbers the semidominator of   *)
(* each is found over a forest of the vertices already done, whose paths   *)
(* are compressed (evaluate_link_path); a last pass turns semidominators   *)
(* into immediate dominators; a walk over the tree they form gives each    *)
(* vertex the interval that dominates() compares.                          *)
(*                                                                         *)
(* Vertices are 0 .. n - 1 and so are the numbers of the reachable ones;   *)
(* semi, label, ancestor and idom relate numbers.                          *)
(***************************************************************************)
EXTENDS ControlFlow, SequencesExt

CONSTANT Inputs     \* records [succ, start]

ASSUME InputsAssumption ==
    \A i \in Inputs :
        LET n == Cardinality(Blocks(i.succ))
        IN  /\ IsFiniteSet(Blocks(i.succ))
            /\ i.succ \in [0 .. n - 1 -> Seq(0 .. n - 1)]
            /\ i.start \in 0 .. n - 1

None == -1          \* kNoIndex

VARIABLES input, phase,
          number,     \* dfs_number_by_vertex_
          preorder,   \* dfs_preorder_
          parent,     \* parent_by_dfs
          stack,      \* of the search and of the walk: [vertex, next]
          cursor,     \* the number the loops have reached
          waiting,    \* numbers the inner loop still has to look at
          semi, label, ancestor, bucket, idom,
          children,   \* tree_children_
          interval    \* vertex |-> <<tree_entry_, tree_exit_>>

search == <<number, preorder, parent>>
forest == <<semi, label, ancestor, bucket>>
tree == <<children, interval>>
vars == <<input, phase, number, preorder, parent, stack, cursor, waiting, semi, label,
          ancestor, bucket, idom, children, interval>>

Vertices == Blocks(input.succ)

Top == Last(stack)

Init ==
    /\ input \in Inputs
    /\ phase = "searching"
    /\ number = [ v \in Vertices |-> IF v = input.start THEN 0 ELSE None ]
    /\ preorder = <<input.start>>
    /\ parent = <<None>>
    /\ stack = <<[vertex |-> input.start, next |-> 1]>>
    /\ cursor = 0 /\ waiting = << >>
    /\ semi = << >> /\ label = << >> /\ ancestor = << >> /\ bucket = << >> /\ idom = << >>
    /\ children = [ v \in Vertices |-> << >> ]
    /\ interval = [ v \in Vertices |-> <<None, None>> ]

VertexOf(n) == preorder[n + 1]

Parent(n) == parent[n + 1]

Numbers == 0 .. Len(preorder) - 1

(* The sources of the arcs into a number, in the order they are recorded. *)
PredecessorNumbers(n) ==
    LET ArcsFrom(m) == { i \in DOMAIN input.succ[VertexOf(m)] :
                            number[input.succ[VertexOf(m)][i]] = n }
    IN  FlattenSeq([ k \in 1 .. Len(preorder) |->
                       [ i \in 1 .. Cardinality(ArcsFrom(k - 1)) |-> k - 1 ] ])
-----------------------------------------------------------------------------
Numbered(v) == number[v] # None

(* The search: an arc of the vertex on top of the stack, or its end. *)
SearchArc ==
    /\ phase = "searching"
    /\ stack # << >>
    /\ Top.next <= Len(input.succ[Top.vertex])
    /\ LET target   == input.succ[Top.vertex][Top.next]
           advanced == [stack EXCEPT ![Len(stack)].next = @ + 1]
       IN  \/ /\ Numbered(target)
              /\ stack' = advanced
              /\ UNCHANGED search
           \/ /\ ~ Numbered(target)
              /\ stack' = Append(advanced, [vertex |-> target, next |-> 1])
              /\ number' = [number EXCEPT ![target] = Len(preorder)]
              /\ preorder' = Append(preorder, target)
              /\ parent' = Append(parent, number[Top.vertex])
    /\ UNCHANGED <<input, phase, cursor, waiting, forest, idom, tree>>

SearchDone ==
    /\ phase = "searching"
    /\ stack # << >>
    /\ Top.next > Len(input.succ[Top.vertex])
    /\ stack' = Front(stack)
    /\ UNCHANGED <<input, phase, search, cursor, waiting, forest, idom, tree>>

(* The vertex to process next, and its predecessors. *)
StartVertex(n) ==
    /\ cursor' = n
    /\ phase' = IF n = 0 THEN "correcting" ELSE "predecessors"
    /\ waiting' = IF n = 0 THEN << >> ELSE PredecessorNumbers(n)

StartForest ==
    /\ phase = "searching"
    /\ stack = << >>
    /\ semi = << >>
    /\ semi' = [ n \in Numbers |-> n ]
    /\ label' = [ n \in Numbers |-> n ]
    /\ ancestor' = [ n \in Numbers |-> None ]
    /\ bucket' = [ n \in Numbers |-> << >> ]
    /\ idom' = [ n \in Numbers |-> IF n = 0 THEN 0 ELSE None ]
    /\ StartVertex(Len(preorder) - 1)
    /\ UNCHANGED <<input, search, stack, tree>>
-----------------------------------------------------------------------------
(* evaluate_link_path.  The nodes it compresses: those on the path from n  *)
(* that have a linked ancestor of a linked ancestor, the nearest to the    *)
(* root first.                                                             *)
PathFrom(n) ==
    LET Path[k \in 0 .. Len(preorder)] ==
            IF k = 0 THEN <<n>>
            ELSE LET before == Path[k - 1]
                 IN  IF ancestor[Last(before)] = None THEN before
                     ELSE Append(before, ancestor[Last(before)])
        whole == Path[Len(preorder)]
    IN  SubSeq(whole, 1, Len(whole) - 2)

(* Faulty: the node nearest to n is compressed first. *)
NearestFirst(n) == PathFrom(n)

CompressedPath(n) == Reverse(PathFrom(n))

(* Faulty: the ancestor is shortened first and its label read. *)
CompressAncestorFirst(state, n) ==
    LET above == state.ancestor[state.ancestor[n]]
    IN  [ ancestor |-> [state.ancestor EXCEPT ![n] = above],
          label    |-> [state.label EXCEPT ![n] =
                          IF semi[state.label[above]] < semi[@] THEN state.label[above]
                          ELSE @] ]

CompressNode(state, n) ==
    LET above == state.ancestor[n]
    IN  [ ancestor |-> [state.ancestor EXCEPT ![n] = state.ancestor[above]],
          label    |-> [state.label EXCEPT ![n] =
                          IF semi[state.label[above]] < semi[@] THEN state.label[above]
                          ELSE @] ]

Evaluated(n) ==
    LET Compressed[k \in 0 .. Len(CompressedPath(n))] ==
            IF k = 0 THEN [ancestor |-> ancestor, label |-> label]
            ELSE CompressNode(Compressed[k - 1], CompressedPath(n)[k])
    IN  IF ancestor[n] = None THEN [ancestor |-> ancestor, label |-> label]
        ELSE Compressed[Len(CompressedPath(n))]

(* One predecessor of the vertex that is processed. *)
ConsiderPredecessor ==
    /\ phase = "predecessors"
    /\ waiting # << >>
    /\ LET after     == Evaluated(Head(waiting))
           candidate == after.label[Head(waiting)]
       IN  /\ ancestor' = after.ancestor
           /\ label' = after.label
           /\ semi' = [semi EXCEPT ![cursor] =
                         IF semi[candidate] < @ THEN semi[candidate] ELSE @]
    /\ waiting' = Tail(waiting)
    /\ UNCHANGED <<input, phase, search, stack, cursor, bucket, idom, tree>>

(* The vertex joins the bucket of its semidominator and is linked to its   *)
(* parent, whose bucket is emptied next.                                   *)
LinkVertex ==
    /\ phase = "predecessors"
    /\ waiting = << >>
    /\ LET filled == [bucket EXCEPT ![semi[cursor]] = Append(@, cursor)]
       IN  /\ waiting' = filled[Parent(cursor)]
           /\ bucket' = [filled EXCEPT ![Parent(cursor)] = << >>]
    /\ ancestor' = [ancestor EXCEPT ![cursor] = Parent(cursor)]
    /\ phase' = "bucket"
    /\ UNCHANGED <<input, search, stack, cursor, semi, label, idom, tree>>

(* One vertex of that bucket. *)
EmptyBucket ==
    /\ phase = "bucket"
    /\ waiting # << >>
    /\ LET pending   == Head(waiting)
           after     == Evaluated(pending)
           candidate == after.label[pending]
       IN  /\ ancestor' = after.ancestor
           /\ label' = after.label
           /\ idom' = [idom EXCEPT ![pending] =
                         IF semi[candidate] < semi[pending] THEN candidate
                         ELSE Parent(cursor)]
    /\ waiting' = Tail(waiting)
    /\ UNCHANGED <<input, phase, search, stack, cursor, semi, bucket, tree>>

NextVertex ==
    /\ phase = "bucket"
    /\ waiting = << >>
    /\ StartVertex(cursor - 1)
    /\ UNCHANGED <<input, search, stack, forest, idom, tree>>
-----------------------------------------------------------------------------
(* Faulty: the dominator of the candidate is taken for the vertex itself. *)
UncorrectedDominator(n) == idom[n]

CorrectedDominator(n) == IF idom[n] # semi[n] THEN idom[idom[n]] ELSE idom[n]

(* The pass in increasing order of the numbers; the code throws if a       *)
(* vertex has no dominator.                                                *)
CorrectDominator ==
    /\ phase = "correcting"
    /\ cursor + 1 < Len(preorder)
    /\ \/ /\ idom[cursor + 1] = None
          /\ phase' = "logic_error"
          /\ UNCHANGED <<cursor, idom>>
       \/ /\ idom[cursor + 1] # None
          /\ idom' = [idom EXCEPT ![cursor + 1] = CorrectedDominator(cursor + 1)]
          /\ cursor' = cursor + 1
          /\ UNCHANGED phase
    /\ UNCHANGED <<input, search, stack, waiting, forest, tree>>

(* The tree: children in the order of their numbers.  cursor is the timer  *)
(* of the walk from here on.                                               *)
StartWalk ==
    /\ phase = "correcting"
    /\ cursor + 1 = Len(preorder)
    /\ children' = [ v \in Vertices |->
                       FlattenSeq([ n \in 1 .. Len(preorder) - 1 |->
                                      IF VertexOf(idom[n]) = v THEN <<VertexOf(n)>> ELSE << >> ]) ]
    /\ interval' = [interval EXCEPT ![input.start][1] = 0]
    /\ cursor' = 1
    /\ stack' = <<[vertex |-> input.start, next |-> 1]>>
    /\ phase' = "walking"
    /\ UNCHANGED <<input, search, waiting, forest, idom>>

WalkChild ==
    /\ phase = "walking"
    /\ stack # << >>
    /\ Top.next <= Len(children[Top.vertex])
    /\ LET child == children[Top.vertex][Top.next]
       IN  /\ interval' = [interval EXCEPT ![child][1] = cursor]
           /\ stack' = Append([stack EXCEPT ![Len(stack)].next = @ + 1],
                              [vertex |-> child, next |-> 1])
    /\ cursor' = cursor + 1
    /\ UNCHANGED <<input, phase, search, waiting, forest, idom, children>>

WalkDone ==
    /\ phase = "walking"
    /\ stack # << >>
    /\ Top.next > Len(children[Top.vertex])
    /\ interval' = [interval EXCEPT ![Top.vertex][2] = cursor]
    /\ stack' = Front(stack)
    /\ phase' = IF Len(stack) = 1 THEN "built" ELSE "walking"
    /\ UNCHANGED <<input, search, cursor, waiting, forest, idom, children>>

(* The constructor has returned. *)
Returned ==
    /\ phase \in {"built", "logic_error"}
    /\ UNCHANGED vars

Next ==
    \/ SearchArc \/ SearchDone \/ StartForest
    \/ ConsiderPredecessor \/ LinkVertex \/ EmptyBucket \/ NextVertex
    \/ CorrectDominator \/ StartWalk \/ WalkChild \/ WalkDone \/ Returned

Spec == Init /\ [][Next]_vars

(* Faulty: a vertex does not dominate itself. *)
EntersEarlier(d, v) ==
    /\ Numbered(d) /\ Numbered(v)
    /\ interval[d][1] < interval[v][1] /\ interval[v][2] <= interval[d][2]

(* The member function dominates. *)
Dominates(d, v) ==
    /\ Numbered(d) /\ Numbered(v)
    /\ interval[d][1] <= interval[v][1] /\ interval[v][2] <= interval[d][2]
-----------------------------------------------------------------------------
(* The ancestors of a number in the search tree that are linked, with it:  *)
(* the path evaluate_link_path would walk in an uncompressed forest.       *)
LinkedPath(n) ==
    LET Found[k \in 0 .. Len(preorder)] ==
            IF k = 0 THEN {n}
            ELSE LET before == Found[k - 1]
                 IN  before \cup { Parent(m) : m \in before \ {0} }
    IN  { m \in Found[Len(preorder)] : ancestor[m] # None }

(* Path compression never changes what an evaluation answers: a vertex of  *)
(* the linked path with the least semidominator on it.                     *)
EvaluationsExact ==
    phase \in {"predecessors", "bucket"} =>
        \A n \in Numbers :
            ancestor[n] # None =>
                LET answer == Evaluated(n).label[n]
                IN  /\ answer \in LinkedPath(n)
                    /\ \A m \in LinkedPath(n) : semi[answer] <= semi[m]

(* The numbers from which a path leads to n whose inner vertices have      *)
(* numbers above n.                                                        *)
SemidominatorCandidates(n) ==
    LET Entered(S) == { m \in Numbers : Targets(input.succ, VertexOf(m)) \cap S # {} }
        Back[k \in 0 .. Len(preorder)] ==
            IF k = 0 THEN Entered({VertexOf(n)})
            ELSE LET before == Back[k - 1]
                 IN  before \cup Entered({ VertexOf(m) : m \in { j \in before : j > n } })
    IN  Back[Len(preorder)]

(* The vertices that are done have their semidominator by its definition:  *)
(* the least number with a path over larger numbers only.                  *)
SemidominatorsExact ==
    semi # << >> =>
        \A n \in Numbers \ {0} :
            (n >= cursor /\ phase = "bucket") \/ phase = "built"
            => LET candidates == SemidominatorCandidates(n)
               IN  semi[n] \in candidates /\ \A m \in candidates : semi[n] <= m

(* The tree returned is the dominator tree: the parent of a vertex         *)
(* dominates it, and every other strict dominator dominates the parent, by *)
(* the definition with paths; and no vertex is left without one.           *)
ImmediateDominatorsExact ==
    /\ phase # "logic_error"
    /\ phase \in {"walking", "built"} =>
           \A d \in Vertices :
               ToSet(children[d]) = TreeChildren(input.succ, input.start, d)

(* The interval test of dominates() answers for every pair of vertices     *)
(* what the definition says, the ones out of reach included.               *)
IntervalsExact ==
    phase = "built" =>
        \A d \in Vertices :
            { v \in Vertices : Dominates(d, v) } = DominatedBy(input.succ, input.start, d)
=============================================================================
