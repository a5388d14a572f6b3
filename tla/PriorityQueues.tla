--------------------------- MODULE PriorityQueues ----------------------------
(***************************************************************************)
(* The priority queues of the library: first the heaps, as operators from  *)
(* a heap to the heap an operation leaves, BinaryHeap, MinMaxHeap,         *)
(* RadixHeap, PairingHeap, SoftHeap and FibonacciMinHeap; then two heaps   *)
(* of one kind in the hands of a program that calls their operations in    *)
(* any order.  Arrays are sequences, so that the children of position i    *)
(* are 2i and 2i + 1; the comparison is < on integers.  A loop over an     *)
(* array is a recursion on its position.                                   *)
(***************************************************************************)
EXTENDS Integers, SequencesExt, Bags

(* Body(value), with the value computed once. *)
Once(value, Body(_)) == CHOOSE result \in { Body(v) : v \in {value} } : TRUE

Null == << >>

Swapped(data, i, j) == [data EXCEPT ![i] = data[j], ![j] = data[i]]
-----------------------------------------------------------------------------
RECURSIVE SiftUp(_, _)
SiftUp(array, i) ==
    Once(array, LAMBDA data :
        IF i > 1 /\ data[i] < data[i \div 2] THEN SiftUp(Swapped(data, i, i \div 2), i \div 2)
        ELSE data)

BestChild(data, i) ==
    IF 2 * i + 1 <= Len(data) /\ data[2 * i + 1] < data[2 * i] THEN 2 * i + 1 ELSE 2 * i

RECURSIVE SiftDown(_, _)
SiftDown(array, i) ==
    Once(array, LAMBDA data :
        IF 2 * i <= Len(data) /\ data[BestChild(data, i)] < data[i]
        THEN SiftDown(Swapped(data, i, BestChild(data, i)), BestChild(data, i))
        ELSE data)

BinaryPush(data, value) == SiftUp(Append(data, value), Len(data) + 1)

(* Faulty: the last value is put at the root and left there. *)
LastAtRoot(data) == IF Len(data) = 1 THEN << >> ELSE [Front(data) EXCEPT ![1] = Last(data)]

BinaryPop(data) ==
    IF Len(data) = 1 THEN << >> ELSE SiftDown([Front(data) EXCEPT ![1] = Last(data)], 1)

ValidBinary(data) == \A i \in 2 .. Len(data) : ~(data[i] < data[i \div 2])
-----------------------------------------------------------------------------
(* Levels alternate between min (with the root) and max.  What the code    *)
(* has twice is here once: Beats(TRUE, a, b) on the way of minima.         *)
RECURSIVE IsMinLevel(_)
IsMinLevel(i) == i = 1 \/ ~IsMinLevel(i \div 2)

Beats(min, a, b) == IF min THEN a < b ELSE a > b

RECURSIVE BubbleUp(_, _, _)
BubbleUp(min, array, i) ==
    Once(array, LAMBDA data :
        IF i >= 4 /\ Beats(min, data[i], data[i \div 4])
        THEN BubbleUp(min, Swapped(data, i, i \div 4), i \div 4)
        ELSE data)

MinMaxPush(data, value) ==
    LET i     == Len(data) + 1
        added == Append(data, value)
        min   == IsMinLevel(i)
    IN  IF i = 1 THEN added
        ELSE IF Beats(~min, value, added[i \div 2])
             THEN BubbleUp(~min, Swapped(added, i, i \div 2), i \div 2)
        ELSE BubbleUp(min, added, i)

(* The children of a position and their children, in the order in which    *)
(* they are compared: the first of equals is taken.                        *)
Descendants(data, i) ==
    SelectSeq(<<2 * i, 4 * i, 4 * i + 1, 2 * i + 1, 4 * i + 2, 4 * i + 3>>,
              LAMBDA j : j <= Len(data))

BestDescendant(min, data, i) ==
    LET candidates == Descendants(data, i)
        best == CHOOSE k \in DOMAIN candidates :
                    /\ \A j \in DOMAIN candidates :
                           ~Beats(min, data[candidates[j]], data[candidates[k]])
                    /\ \A j \in 1 .. k - 1 : data[candidates[j]] # data[candidates[k]]
    IN  candidates[best]

(* A grandchild that came up may leave its place to a value that does not  *)
(* belong below its parent on the other kind of level.                     *)
AfterGrandchild(min, data, i, c) ==
    LET moved == Swapped(data, i, c)
    IN  IF Beats(~min, moved[c], moved[c \div 2]) THEN Swapped(moved, c, c \div 2) ELSE moved

RECURSIVE TrickleDown(_, _, _)
TrickleDown(min, array, i) ==
    Once(array, LAMBDA data :
        IF 2 * i > Len(data) THEN data
        ELSE Once(BestDescendant(min, data, i), LAMBDA c :
            IF ~Beats(min, data[c], data[i]) THEN data
            ELSE IF c \div 2 = i THEN Swapped(data, i, c)
            ELSE TrickleDown(min, AfterGrandchild(min, data, i, c), c)))

PositionOfMaximum(data) ==
    CASE Len(data) = 1 -> 1
      [] Len(data) = 2 -> 2
      [] Len(data) > 2 -> IF data[2] >= data[3] THEN 2 ELSE 3

MinMaxPopMinimum(data) ==
    IF Len(data) = 1 THEN << >> ELSE TrickleDown(TRUE, [Front(data) EXCEPT ![1] = Last(data)], 1)

MinMaxPopMaximum(data) ==
    LET i == PositionOfMaximum(data)
    IN  IF i = Len(data) THEN Front(data)
        ELSE TrickleDown(FALSE, [Front(data) EXCEPT ![i] = Last(data)], i)

ValidMinMax(data) ==
    \A i \in DOMAIN data : \A j \in ToSet(Descendants(data, i)) :
        ~Beats(IsMinLevel(i), data[j], data[i])
-----------------------------------------------------------------------------
(* Buckets by the highest bit in which a key differs from the last minimum,*)
(* for keys of a few bits.                                                 *)
BucketIndex(bits, key, last) ==
    CHOOSE b \in 0 .. bits : /\ key \div 2^b = last \div 2^b
                             /\ \A c \in 0 .. b - 1 : key \div 2^c # last \div 2^c

EmptyRadix(bits) == [ buckets |-> [ b \in 0 .. bits |-> << >> ], last |-> 0 ]

RadixPush(bits, heap, key) ==
    [heap EXCEPT !.buckets[BucketIndex(bits, key, heap.last)] = Append(@, key)]

(* The lowest bucket in use is spread by the least of its keys. *)
Redistributed(bits, heap) ==
    LET bucket == CHOOSE b \in 1 .. bits : /\ heap.buckets[b] # << >>
                                           /\ \A c \in 1 .. b - 1 : heap.buckets[c] = << >>
        moved  == heap.buckets[bucket]
        last   == CHOOSE k \in ToSet(moved) : \A j \in ToSet(moved) : k <= j
    IN  [ buckets |-> [ b \in 0 .. bits |->
              (IF b = bucket THEN << >> ELSE heap.buckets[b])
              \o SelectSeq(moved, LAMBDA k : BucketIndex(bits, k, last) = b) ],
          last |-> last ]

RadixReady(bits, heap) ==
    IF heap.buckets[0] = << >> THEN Redistributed(bits, heap) ELSE heap

ValidRadix(bits, heap) ==
    \A b \in 0 .. bits : \A k \in ToSet(heap.buckets[b]) :
        k >= heap.last /\ BucketIndex(bits, k, heap.last) = b
-----------------------------------------------------------------------------
(* A pairing heap is a tree of values; first_child and next_sibling make   *)
(* the sequence of the children.                                           *)
PairingNode(value) == [value |-> value, children |-> << >>]

Linked(parent, child) == [parent EXCEPT !.children = <<child>> \o @]

MeldNodes(first, second) ==
    IF first = Null THEN second
    ELSE IF second = Null THEN first
    ELSE IF second.value < first.value THEN Linked(second, first)
    ELSE Linked(first, second)

(* The first pass of a pop: neighbors are melded, an odd one is left over. *)
RECURSIVE PairUp(_)
PairUp(children) ==
    IF Len(children) <= 1 THEN children
    ELSE <<MeldNodes(children[1], children[2])>> \o PairUp(SubSeq(children, 3, Len(children)))

PairingPush(root, value) == MeldNodes(root, PairingNode(value))

(* The second pass melds the pairs from the last to the first. *)
PairingPop(root) == FoldRight(MeldNodes, PairUp(root.children), Null)

(* valid_structure: no child is better than its parent. *)
RECURSIVE ValidPairing(_)
ValidPairing(root) ==
    root = Null \/ \A i \in DOMAIN root.children :
        ~(root.children[i].value < root.value) /\ ValidPairing(root.children[i])

(* The values in a sequence of trees. *)
RECURSIVE PairingValues(_)
PairingValues(trees) ==
    Once(trees, LAMBDA list :
        IF list = << >> THEN << >>
        ELSE <<list[1].value>> \o PairingValues(list[1].children \o Tail(list)))
-----------------------------------------------------------------------------
(* Faulty: the rank threshold does not grow with the power of the rate. *)
FixedThreshold(error_rate_power, slack) ==
    [ roots |-> << >>, live_size |-> 0, insertion_count |-> 0,
      error_rate_power |-> error_rate_power, rank_threshold |-> slack ]

(* A soft heap of error rate 2^-error_rate_power, whose nodes up to a rank *)
(* that is slack more than the power corrupt no key (kThresholdSlack): its *)
(* trees by rank, each node with a list of items that share the node's     *)
(* current key, which may be worse than an item's own key; the number of   *)
(* items it holds, and of those that have been pushed into it or into heaps*)
(* melded into it.                                                         *)
EmptySoft(error_rate_power, slack) ==
    [ roots |-> << >>, live_size |-> 0, insertion_count |-> 0,
      error_rate_power |-> error_rate_power, rank_threshold |-> error_rate_power + slack ]

SoftNode(left, right, items, current_key, rank, target_size) ==
    [ left |-> left, right |-> right, items |-> items, current_key |-> current_key,
      rank |-> rank, target_size |-> target_size ]

IsLeaf(node) == node.left = Null /\ node.right = Null

NextTargetSize(threshold, rank, child_target) ==
    IF rank <= threshold THEN 1 ELSE (3 * child_target + 1) \div 2

(* The better child comes to the left and gives up its list, together with *)
(* its key, until the node has as many items as it is to have.             *)
RECURSIVE Sift(_)
Sift(unsifted) ==
    Once(unsifted, LAMBDA node :
        IF Len(node.items) >= node.target_size \/ IsLeaf(node) THEN node
        ELSE LET swap == \/ node.left = Null
                         \/ node.right # Null
                            /\ node.right.current_key < node.left.current_key
                 left  == IF swap THEN node.right ELSE node.left
                 right == IF swap THEN node.left ELSE node.right
             IN  Sift([node EXCEPT
                         !.items = @ \o left.items,
                         !.current_key = left.current_key,
                         !.left = IF IsLeaf(left) THEN Null
                                  ELSE Sift([left EXCEPT !.items = << >>]),
                         !.right = right]))

Combine(threshold, first, second) ==
    LET rank == first.rank + 1
    IN  Sift(SoftNode(first, second, << >>, 0, rank,
                      NextTargetSize(threshold, rank, first.target_size)))

(* Roots of one rank are combined, the later two of three.  before are the *)
(* roots that have been passed.                                            *)
RECURSIVE NormalizedAfter(_, _, _)
NormalizedAfter(threshold, before, list) ==
    Once(list, LAMBDA roots :
        IF Len(roots) < 2 THEN before \o roots
        ELSE IF \/ roots[1].rank # roots[2].rank
                \/ Len(roots) > 2 /\ roots[3].rank = roots[1].rank
             THEN NormalizedAfter(threshold, Append(before, roots[1]), Tail(roots))
        ELSE NormalizedAfter(threshold, before,
                 <<Combine(threshold, roots[1], roots[2])>> \o Tail(Tail(roots))))

Normalized(threshold, roots) == NormalizedAfter(threshold, << >>, roots)

SoftPush(heap, value) ==
    [heap EXCEPT !.roots = Normalized(heap.rank_threshold,
                               <<SoftNode(Null, Null, <<value>>, value, 0, 1)>> \o @),
                 !.live_size = @ + 1,
                 !.insertion_count = @ + 1]

(* The roots of both heaps by rank, those of the first before equal ones. *)
RECURSIVE MergedByRank(_, _)
MergedByRank(first, second) ==
    IF first = << >> \/ second = << >> THEN first \o second
    ELSE IF second[1].rank < first[1].rank
         THEN <<second[1]>> \o MergedByRank(first, Tail(second))
    ELSE <<first[1]>> \o MergedByRank(Tail(first), second)

(* Both heaps after the second is melded into the first: it hands over its *)
(* items and its insertions, unless it has no item to hand over.           *)
SoftMeld(first, second) ==
    IF second.live_size = 0 THEN <<first, second>>
    ELSE << [first EXCEPT !.roots = Normalized(first.rank_threshold,
                                               MergedByRank(@, second.roots)),
                          !.live_size = @ + second.live_size,
                          !.insertion_count = @ + second.insertion_count],
            [second EXCEPT !.roots = << >>, !.live_size = 0, !.insertion_count = 0] >>

(* refresh_min_root: the first root with the least current key. *)
MinRoot(roots) ==
    CHOOSE i \in DOMAIN roots :
        /\ \A j \in DOMAIN roots : roots[i].current_key <= roots[j].current_key
        /\ \A j \in 1 .. i - 1 : roots[j].current_key # roots[i].current_key

(* A root that has given up half of its items takes more from below, or    *)
(* disappears with its last one.                                           *)
AfterExtraction(root) ==
    IF Len(root.items) <= root.target_size \div 2 /\ ~IsLeaf(root) THEN Sift(root) ELSE root

SoftPop(heap) ==
    LET i    == MinRoot(heap.roots)
        root == AfterExtraction([heap.roots[i] EXCEPT !.items = Tail(@)])
    IN  [heap EXCEPT !.roots = IF root.items = << >> THEN RemoveAt(@, i)
                               ELSE ReplaceAt(@, i, root),
                     !.live_size = @ - 1]

(* The items in the lists of a tree, and of all trees, each with the key   *)
(* that its node knows it by.                                              *)
RECURSIVE ItemsBelow(_)
ItemsBelow(node) ==
    IF node = Null THEN << >>
    ELSE [ i \in DOMAIN node.items |-> <<node.items[i], node.current_key>> ]
         \o ItemsBelow(node.left) \o ItemsBelow(node.right)

SoftItems(roots) == FlattenSeq([ i \in DOMAIN roots |-> ItemsBelow(roots[i]) ])

(* The items whose node has a worse key than theirs. *)
CorruptedItems(roots) == SelectSeq(SoftItems(roots), LAMBDA item : item[1] < item[2])

(* How many items a heap may know by a worse key: error_rate_power halvings*)
(* of the number of items that were ever pushed.                           *)
CorruptionBudget(heap) == heap.insertion_count \div 2 ^ heap.error_rate_power

RECURSIVE TargetSizeForRank(_, _)
TargetSizeForRank(threshold, rank) ==
    IF rank <= threshold THEN 1
    ELSE NextTargetSize(threshold, rank, TargetSizeForRank(threshold, rank - 1))

(* valid_node: nodes of the size their rank calls for, none empty, with    *)
(* current keys that are not better than those of the items, exact up to   *)
(* the threshold, and heap-ordered.                                        *)
RECURSIVE ValidSoftNode(_, _)
ValidSoftNode(threshold, node) ==
    /\ node.items # << >>
    /\ node.target_size = TargetSizeForRank(threshold, node.rank)
    /\ \A k \in ToSet(node.items) :
           k <= node.current_key /\ (node.rank <= threshold => k = node.current_key)
    /\ \A child \in {node.left, node.right} \ {Null} :
           /\ child.rank + 1 = node.rank
           /\ node.current_key <= child.current_key
           /\ ValidSoftNode(threshold, child)

(* valid_structure. *)
ValidSoft(heap) ==
    /\ heap.live_size <= heap.insertion_count
    /\ heap.live_size = Len(SoftItems(heap.roots))
    /\ \A i \in 1 .. Len(heap.roots) - 1 : heap.roots[i].rank < heap.roots[i + 1].rank
    /\ \A root \in ToSet(heap.roots) : ValidSoftNode(heap.rank_threshold, root)
    /\ Len(CorruptedItems(heap.roots)) <= CorruptionBudget(heap)
-----------------------------------------------------------------------------
(* FibonacciMinHeap.  nodes maps the handles in use to nodes; a circular   *)
(* list is the sequence that starts at the node the code keeps a pointer   *)
(* to: the root list at min_, a list of children at child.  Handle 0 is    *)
(* the null node.                                                          *)

FibonacciNode(key) == [key |-> key, mark |-> FALSE, parent |-> 0, children |-> << >>]

EmptyFibonacci == [nodes |-> << >>, roots |-> << >>, root_count |-> 0, marked_count |-> 0]

RootBetter(nodes, first, second) ==
    \/ nodes[first].key < nodes[second].key
    \/ nodes[first].key = nodes[second].key /\ first < second

(* splice_after the node that the list begins with. *)
SplicedAfter(list, node) == IF list = << >> THEN <<node>> ELSE <<list[1], node>> \o Tail(list)

(* The list from another of its nodes on. *)
StartingAt(list, node) ==
    LET i == CHOOSE j \in DOMAIN list : list[j] = node
    IN  SubSeq(list, i, Len(list)) \o SubSeq(list, 1, i - 1)

Unmarked(heap, node) ==
    IF heap.nodes[node].mark
    THEN [heap EXCEPT !.nodes[node].mark = FALSE, !.marked_count = @ - 1]
    ELSE heap

AddRoot(before, added) ==
    LET heap  == Unmarked([before EXCEPT !.nodes[added].parent = 0], added)
        roots == SplicedAfter(heap.roots, added)
    IN  [heap EXCEPT !.roots = IF RootBetter(heap.nodes, added, roots[1])
                               THEN StartingAt(roots, added) ELSE roots,
                     !.root_count = @ + 1]

AddChild(before, child, parent) ==
    LET heap == Unmarked([before EXCEPT !.nodes[child].parent = parent], child)
    IN  [heap EXCEPT !.nodes[parent].children = SplicedAfter(@, child)]

Cut(heap, child, parent) ==
    AddRoot([heap EXCEPT !.nodes[parent].children = Remove(@, child)], child)

(* A node that is no root is marked when it loses its first child, and cut *)
(* itself when it loses its second one.                                    *)
RECURSIVE CascadingCut(_, _)
CascadingCut(before, node) ==
    Once(before, LAMBDA heap :
        IF heap.nodes[node].parent = 0 THEN heap
        ELSE IF ~heap.nodes[node].mark
             THEN [heap EXCEPT !.nodes[node].mark = TRUE, !.marked_count = @ + 1]
        ELSE CascadingCut(Cut(heap, node, heap.nodes[node].parent), heap.nodes[node].parent))

FibonacciInsert(heap, handle, key) ==
    AddRoot([heap EXCEPT !.nodes = (handle :> FibonacciNode(key)) @@ @], handle)

FibonacciDecrease(heap, node, key) ==
    LET lowered == [heap EXCEPT !.nodes[node].key = key]
        parent  == heap.nodes[node].parent
        after   == IF parent # 0 /\ RootBetter(lowered.nodes, node, parent)
                   THEN CascadingCut(Cut(lowered, node, parent), parent)
                   ELSE lowered
    IN  IF RootBetter(after.nodes, node, after.roots[1])
        THEN [after EXCEPT !.roots = StartingAt(@, node)] ELSE after

(* Trees of the same degree are linked as they meet: a node takes the      *)
(* place of its degree, or the one that holds it and moves on.             *)
RECURSIVE Placed(_, _, _)
Placed(before, by_degree, node) ==
    Once(before, LAMBDA heap :
        LET degree == Len(heap.nodes[node].children)
        IN  IF degree \notin DOMAIN by_degree
            THEN <<heap, (degree :> node) @@ by_degree>>
            ELSE LET peer   == by_degree[degree]
                     winner == IF RootBetter(heap.nodes, peer, node) THEN peer ELSE node
                     loser  == IF winner = peer THEN node ELSE peer
                 IN  Placed(AddChild(heap, loser, winner),
                            Restrict(by_degree, DOMAIN by_degree \ {degree}), winner))

Consolidated(heap) ==
    LET start  == <<[heap EXCEPT !.roots = << >>, !.root_count = 0], << >>>>
        placed == FoldLeft(LAMBDA state, root : Placed(state[1], state[2], root),
                           start, SubSeq(heap.roots, 1, heap.root_count))
        degrees == SelectSeq([ i \in 1 .. Cardinality(DOMAIN heap.nodes) |-> i - 1 ],
                             LAMBDA degree : degree \in DOMAIN placed[2])
    IN  FoldLeft(LAMBDA h, degree : AddRoot(h, placed[2][degree]), placed[1], degrees)

(* The children of the minimum become roots, then the node is erased. *)
FibonacciExtract(heap) ==
    LET removed  == heap.roots[1]
        children == heap.nodes[removed].children
        without  == [FoldLeft(Unmarked, heap, children) EXCEPT
                        !.roots = Tail(@), !.root_count = @ - 1]
        raised   == FoldLeft(AddRoot, without, children)
        left     == [raised EXCEPT !.nodes = Restrict(@, DOMAIN @ \ {removed})]
    IN  IF left.roots = << >> THEN left ELSE Consolidated(left)

(* The root list of the other heap is put after min_. *)
FibonacciMeld(heap, other) ==
    IF other.roots = << >> THEN heap
    ELSE IF heap.roots = << >> THEN other
    ELSE LET nodes == heap.nodes @@ other.nodes
             roots == <<heap.roots[1]>> \o other.roots \o Tail(heap.roots)
         IN  [ nodes |-> nodes,
               roots |-> IF RootBetter(nodes, other.roots[1], heap.roots[1])
                         THEN StartingAt(roots, other.roots[1]) ELSE roots,
               root_count   |-> heap.root_count + other.root_count,
               marked_count |-> heap.marked_count + other.marked_count ]

(* The nodes of a sequence of trees, each as often as it hangs in them. *)
RECURSIVE NodesBelow(_, _)
NodesBelow(nodes, roots) ==
    Once(roots, LAMBDA list :
        IF list = << >> THEN << >>
        ELSE <<list[1]>> \o NodesBelow(nodes, nodes[list[1]].children \o Tail(list)))

(* valid_structure, and what the time bounds rest on: a tree with a root   *)
(* of degree d has at least F(d + 2) nodes.                                *)
Fibonacci[n \in Nat] == IF n <= 2 THEN 1 ELSE Fibonacci[n - 1] + Fibonacci[n - 2]

ValidFibonacci(heap) ==
    LET nodes == heap.nodes
        all   == NodesBelow(nodes, heap.roots)
    IN  /\ heap.root_count = Len(heap.roots)
        /\ IsInjective(all) /\ Range(all) = DOMAIN nodes
        /\ \A i \in 2 .. Len(heap.roots) : RootBetter(nodes, heap.roots[1], heap.roots[i])
        /\ \A root \in Range(heap.roots) : nodes[root].parent = 0 /\ ~nodes[root].mark
        /\ heap.marked_count = Cardinality({n \in DOMAIN nodes : nodes[n].mark})
        /\ \A n \in DOMAIN nodes : \A child \in Range(nodes[n].children) :
               nodes[child].parent = n /\ ~RootBetter(nodes, child, n)
        /\ \A n \in DOMAIN nodes :
               Len(NodesBelow(nodes, <<n>>)) >= Fibonacci[Len(nodes[n].children) + 2]
-----------------------------------------------------------------------------
(***************************************************************************)
(* Keys[k], an interval of integers of Bits bits, and ItemMax[k] bound the *)
(* keys and the numbers of items in the two heaps of kind k.  HandleMax    *)
(* stands for the largest 64-bit handle; all heaps draw on one counter.    *)
(* Lowered are the handles whose keys are decreased.  Loads are the pairs  *)
(* of soft heaps that are taken up, each by the power and the slack of its *)
(* constructor and the keys that have been pushed into it.  InsertionMax[t]*)
(* bounds what is pushed into two of them of rank threshold t together.    *)
(***************************************************************************)
CONSTANTS Kinds, Keys, Bits, ItemMax, HandleMax, Lowered, Loads, InsertionMax

VARIABLES kind,          \* of both heaps
          heaps,         \* the heap on each side
          next_handle,   \* the handle for the next item of a Fibonacci heap
          answer,        \* what the last call returned or threw
          contents       \* what the heaps hold, read off them after every call

vars == <<kind, heaps, next_handle, answer, contents>>

Sides == {1, 2}

Empty(k) ==
    CASE k \in {"binary", "min_max"} -> << >>
      [] k = "radix"     -> EmptyRadix(Bits)
      [] k = "pairing"   -> Null
      [] k = "fibonacci" -> EmptyFibonacci

(* The items in a heap, as pairs of key and handle. *)
Keyed(keys) == [ i \in DOMAIN keys |-> <<keys[i], 0>> ]

ByOwnKey(soft_items) == Once(soft_items, LAMBDA list : [ i \in DOMAIN list |-> <<list[i][1], 0>> ])

ItemsOf(k, heap) ==
    CASE k \in {"binary", "min_max"} -> Keyed(heap)
      [] k = "radix"     -> Keyed(FlattenSeq([ b \in 1 .. Bits + 1 |-> heap.buckets[b - 1] ]))
      [] k = "pairing"   -> Keyed(PairingValues(IF heap = Null THEN << >> ELSE <<heap>>))
      [] k = "soft"      -> ByOwnKey(SoftItems(heap.roots))
      [] k = "fibonacci" -> LET handles == SelectSeq([ h \in 1 .. HandleMax |-> h ],
                                                     LAMBDA h : h \in DOMAIN heap.nodes)
                            IN  [ i \in DOMAIN handles |->
                                    <<heap.nodes[handles[i]].key, handles[i]>> ]

BagOf(items) == [ item \in Range(items) |->
                    Cardinality({ i \in DOMAIN items : items[i] = item }) ]

Contents(k, heap) ==
    [ items     |-> Once(ItemsOf(k, heap), BagOf),
      corrupted |-> IF k = "soft" THEN Once(ByOwnKey(CorruptedItems(heap.roots)), BagOf)
                    ELSE << >> ]

IsEmpty(side) == contents[side].items = << >>

HasRoom(side) ==
    IF kind = "soft"
    THEN heaps[1].insertion_count + heaps[2].insertion_count
             < InsertionMax[heaps[side].rank_threshold]
    ELSE BagCardinality(contents[side].items) < ItemMax[kind][side]

Becomes(side, heap) == heaps' = [heaps EXCEPT ![side] = heap]

Refused(error) == answer' = <<error>> /\ UNCHANGED <<heaps, next_handle>>
-----------------------------------------------------------------------------
(* Fibonacci heaps are taken up when handles are about to run out, or with *)
(* all handles in use: the largest key was inserted under each, and the    *)
(* first of them extracted, which has linked the others into one tree.     *)
RECURSIVE Inserted(_)
Inserted(n) ==
    IF n = 0 THEN EmptyFibonacci
    ELSE FibonacciInsert(Inserted(n - 1), n, Max(Keys["fibonacci"]))

(* Soft heaps are taken up filled: only large trees hold corrupted items. *)
RECURSIVE Loaded(_, _)
Loaded(heap, keys) ==
    CASE keys = << >>   -> heap
      [] Len(keys) = 1  -> SoftPush(heap, keys[1])
      [] OTHER          -> LET half == Len(keys) \div 2
                           IN  Once(Loaded(heap, SubSeq(keys, 1, half)),
                                    LAMBDA h : Loaded(h, SubSeq(keys, half + 1, Len(keys))))

Init ==
    /\ kind \in Kinds
    /\ answer = << >>
    /\ \/ /\ kind # "soft"
          /\ heaps = [ side \in Sides |-> Empty(kind) ]
          /\ next_handle = IF kind = "fibonacci" THEN HandleMax - 3 ELSE 1
       \/ /\ kind = "fibonacci"
          /\ heaps = <<FibonacciExtract(Inserted(HandleMax)), EmptyFibonacci>>
          /\ next_handle = 0
       \/ /\ kind = "soft"
          /\ \E load \in Loads :
                 heaps = [ side \in Sides |->
                             Loaded(EmptySoft(load[side].error_rate_power, load[side].slack),
                                    load[side].keys) ]
          /\ next_handle = 1
    /\ contents = [ side \in Sides |-> Contents(kind, heaps[side]) ]

Pushed(heap, key) ==
    CASE kind = "binary"    -> BinaryPush(heap, key)
      [] kind = "min_max"   -> MinMaxPush(heap, key)
      [] kind = "radix"     -> RadixPush(Bits, heap, key)
      [] kind = "pairing"   -> PairingPush(heap, key)
      [] kind = "soft"      -> SoftPush(heap, key)

Push(side, key) ==
    /\ kind # "fibonacci"
    /\ HasRoom(side)
    /\ IF kind = "radix" /\ key < heaps[side].last
       THEN Refused("invalid_argument")
       ELSE /\ Becomes(side, Pushed(heaps[side], key))
            /\ answer' = <<"pushed", 0>>
            /\ UNCHANGED next_handle

(* allocate_handle, then insert. *)
Insert(side, key) ==
    /\ kind = "fibonacci"
    /\ \/ next_handle = 0 /\ Refused("overflow_error")
       \/ /\ next_handle # 0
          /\ next_handle' = IF next_handle = HandleMax THEN 0 ELSE next_handle + 1
          /\ Becomes(side, FibonacciInsert(heaps[side], next_handle, key))
          /\ answer' = <<"pushed", next_handle>>

(* The item that a pop returns, and the heap it leaves. *)
Popped(heap) ==
    CASE kind = "binary"    -> <<<<heap[1], 0>>, BinaryPop(heap)>>
      [] kind = "min_max"   -> <<<<heap[1], 0>>, MinMaxPopMinimum(heap)>>
      [] kind = "radix"     -> Once(RadixReady(Bits, heap), LAMBDA h :
                                   <<<<Last(h.buckets[0]), 0>>,
                                     [h EXCEPT !.buckets[0] = Front(@)]>>)
      [] kind = "pairing"   -> <<<<heap.value, 0>>, PairingPop(heap)>>
      [] kind = "soft"      -> <<<<heap.roots[MinRoot(heap.roots)].items[1], 0>>,
                                 SoftPop(heap)>>
      [] kind = "fibonacci" -> <<<<heap.nodes[heap.roots[1]].key, heap.roots[1]>>,
                                 FibonacciExtract(heap)>>

Pop(side) ==
    \/ IsEmpty(side) /\ Refused("out_of_range")
    \/ /\ ~IsEmpty(side)
       /\ \E popped \in {Popped(heaps[side])} :
              answer' = <<"popped", popped[1]>> /\ Becomes(side, popped[2])
       /\ UNCHANGED next_handle

PopMaximum(side) ==
    /\ kind = "min_max"
    /\ \/ IsEmpty(side) /\ Refused("out_of_range")
       \/ /\ ~IsEmpty(side)
          /\ answer' = <<"popped", <<heaps[side][PositionOfMaximum(heaps[side])], 0>>>>
          /\ Becomes(side, MinMaxPopMaximum(heaps[side]))
          /\ UNCHANGED next_handle

DecreaseKey(side, handle, key) ==
    /\ kind = "fibonacci"
    /\ \/ handle \notin DOMAIN heaps[side].nodes /\ Refused("out_of_range")
       \/ /\ handle \in DOMAIN heaps[side].nodes
          /\ key > heaps[side].nodes[handle].key
          /\ Refused("invalid_argument")
       \/ /\ handle \in DOMAIN heaps[side].nodes
          /\ key <= heaps[side].nodes[handle].key
          /\ Becomes(side, FibonacciDecrease(heaps[side], handle, key))
          /\ answer' = <<"decreased">>
          /\ UNCHANGED next_handle

(* Two heaps after the second is melded into the first. *)
Melded(first, second) ==
    CASE kind = "pairing"   -> <<MeldNodes(first, second), Null>>
      [] kind = "soft"      -> SoftMeld(first, second)
      [] kind = "fibonacci" -> <<FibonacciMeld(first, second), EmptyFibonacci>>

(* Soft heaps are melded if they are of one error rate. *)
Alike == kind = "soft" => heaps[1].error_rate_power = heaps[2].error_rate_power

Meld ==
    /\ kind \in {"pairing", "soft", "fibonacci"}
    /\ BagCardinality(contents[1].items) + BagCardinality(contents[2].items)
           <= ItemMax[kind][1]
    /\ \/ ~Alike /\ ~IsEmpty(2) /\ Refused("invalid_argument")
       \/ /\ Alike \/ IsEmpty(2)
          /\ heaps' = Melded(heaps[1], heaps[2])
          /\ answer' = <<"melded">>
          /\ UNCHANGED next_handle

Next ==
    /\ UNCHANGED kind
    /\ \/ \E side \in Sides, key \in Keys[kind] : Push(side, key)
       \/ \E side \in Sides, key \in Keys[kind] : Insert(side, key)
       \/ \E side \in Sides : Pop(side)
       \/ \E side \in Sides : PopMaximum(side)
       \/ \E side \in Sides, handle \in Lowered, key \in Keys[kind] :
              DecreaseKey(side, handle, key)
       \/ Meld
    /\ contents' = [ side \in Sides |->
           IF heaps'[side] = heaps[side] THEN contents[side] ELSE Contents(kind, heaps'[side]) ]

Spec == Init /\ [][Next]_vars
-----------------------------------------------------------------------------
(* What the code never lets an operation leave behind: every kind's own    *)
(* check of its structure holds after every call, a soft heap's promise to *)
(* know no more items by a worse key than 1 in 2^error_rate_power of those *)
(* that were ever pushed among it, and the trees of a Fibonacci heap are   *)
(* as large as its time bounds need.  (BinaryHeap, MinMaxHeap, RadixHeap,  *)
(* PairingHeap, SoftHeap, FibonacciMinHeap.)                               *)
StructuresValid ==
    \A side \in Sides :
        CASE kind = "binary"    -> ValidBinary(heaps[side])
          [] kind = "min_max"   -> ValidMinMax(heaps[side])
          [] kind = "radix"     -> ValidRadix(Bits, heaps[side])
          [] kind = "pairing"   -> ValidPairing(heaps[side])
          [] kind = "soft"      -> ValidSoft(heaps[side])
          [] kind = "fibonacci" -> ValidFibonacci(heaps[side])

(* Whatever the calls, no item is lost, doubled or changed, and what a pop *)
(* returns is an item that no known better one is waiting behind; a refusal*)
(* has its reason and changes nothing.                                     *)
Promise == INSTANCE PriorityQueue WITH
    Key       <- UNION { Keys[k] : k \in Kinds },
    Handle    <- 1 .. HandleMax,
    traits    <- [ monotone |-> kind = "radix", addressed |-> kind = "fibonacci",
                   soft |-> kind = "soft", alike |-> Alike ],
    items     <- [ side \in Sides |-> contents[side].items ],
    corrupted <- [ side \in Sides |-> contents[side].corrupted ],
    floor     <- [ side \in Sides |-> IF kind = "radix" THEN heaps[side].last ELSE 0 ],
    unused    <- IF kind = "fibonacci" /\ next_handle # 0
                 THEN next_handle .. HandleMax ELSE {}

ImplementsPriorityQueue == Promise!Spec
==============================================================================
