------------------------------- MODULE KeySets -------------------------------
(***************************************************************************)
(* Sets of keys in the hands of a program that calls their operations in   *)
(* any order. The sets are operators from a set to the one an operation    *)
(* leaves: first the trees that compare keys (ScapegoatTreeSet, TreapSet,  *)
(* SplaySet, SkipListSet, BTreeSet), then the sets that follow the digits  *)
(* of their keys (VanEmdeBoasSet, XFastTrieSet, YFastTrieSet,              *)
(* CritBitStringSet, RoaringStyleBitmap32, PersistentHamtSet64), then      *)
(* those that follow the hashed values of their keys.  Keys are naturals,  *)
(* positive in the trees. A tree is Null or a node with its two subtrees;  *)
(* size is the field the code keeps, written where the code writes it.     *)
(* The draws that decide priorities and levels, and the widths fixed in    *)
(* the code, are parameters.                                               *)
(***************************************************************************)
EXTENDS Integers, SequencesExt

(* Body(value), with the value computed once. *)
Once(value, Body(_)) == CHOOSE result \in { Body(v) : v \in {value} } : TRUE

Null == << >>

TreeNode(key, priority) ==
    [key |-> key, priority |-> priority, size |-> 1, left |-> Null, right |-> Null]

SizeOf(tree) == IF tree = Null THEN 0 ELSE tree.size

Resized(node) == [node EXCEPT !.size = 1 + SizeOf(node.left) + SizeOf(node.right)]

RECURSIVE Holds(_, _)
Holds(tree, key) ==
    /\ tree # Null
    /\ \/ tree.key = key
       \/ key < tree.key /\ Holds(tree.left, key)
       \/ key > tree.key /\ Holds(tree.right, key)

RECURSIVE InOrder(_)
InOrder(tree) ==
    IF tree = Null THEN << >> ELSE InOrder(tree.left) \o <<tree.key>> \o InOrder(tree.right)

RECURSIVE Height(_)
Height(tree) ==
    IF tree = Null THEN 0 ELSE 1 + Max({Height(tree.left), Height(tree.right)})

RECURSIVE Nodes(_)
Nodes(tree) == IF tree = Null THEN {} ELSE {tree} \cup Nodes(tree.left) \cup Nodes(tree.right)

Increasing(keys) == \A i \in 1 .. Len(keys) - 1 : keys[i] < keys[i + 1]

SearchTree(tree) ==
    /\ Increasing(InOrder(tree))
    /\ \A node \in Nodes(tree) : node.size = Len(InOrder(node))
-----------------------------------------------------------------------------
(* A scapegoat tree: a new node that lies too deep has an ancestor with a  *)
(* child of more than two thirds of its size; the lowest one is rebuilt.   *)
EmptyScapegoat == [root |-> Null, size |-> 0, max |-> 0]

(* The largest depth d with (3/2)^d <= n. *)
AllowedDepth(n) ==
    IF n <= 1 THEN 0 ELSE CHOOSE d \in 0 .. n : 3^d <= n * 2^d /\ 3^(d + 1) > n * 2^(d + 1)

RECURSIVE Balanced(_)
Balanced(values) ==
    IF values = << >> THEN Null
    ELSE LET middle == Len(values) \div 2 + 1
         IN  Resized([TreeNode(values[middle], 0) EXCEPT
                         !.left  = Balanced(SubSeq(values, 1, middle - 1)),
                         !.right = Balanced(SubSeq(values, middle + 1, Len(values)))])

Rebuild(tree) == Balanced(InOrder(tree))

RECURSIVE RebuildAt(_, _)
RebuildAt(tree, key) ==
    IF tree.key = key THEN Rebuild(tree)
    ELSE IF key < tree.key THEN [tree EXCEPT !.left = RebuildAt(@, key)]
    ELSE [tree EXCEPT !.right = RebuildAt(@, key)]

RECURSIVE WithLeaf(_, _)
WithLeaf(tree, key) ==
    IF tree = Null THEN TreeNode(key, 0)
    ELSE IF key < tree.key THEN Resized([tree EXCEPT !.left = WithLeaf(@, key)])
    ELSE Resized([tree EXCEPT !.right = WithLeaf(@, key)])

(* The nodes from the root to a key. *)
RECURSIVE PathTo(_, _)
PathTo(tree, key) ==
    <<tree>> \o IF tree.key = key THEN << >>
                ELSE PathTo(IF key < tree.key THEN tree.left ELSE tree.right, key)

(* Faulty: the sizes above the new leaf are not what is compared. *)
NoScapegoat(tree, key, allowed) == tree

(* The tree after a key was added as a leaf. *)
Rebalanced(tree, key, allowed) ==
    LET path       == PathTo(tree, key)
        scapegoats == { i \in 1 .. Len(path) - 1 :
                            path[i + 1].size > (2 * path[i].size) \div 3 }
    IN  IF Len(path) - 1 > allowed /\ scapegoats # {}
        THEN RebuildAt(tree, path[Max(scapegoats)].key) ELSE tree

ScapegoatInsert(set, key) ==
    LET size == set.size + 1
        max  == IF size > set.max THEN size ELSE set.max
    IN  [ root |-> Once(WithLeaf(set.root, key), LAMBDA tree :
                       Rebalanced(tree, key, AllowedDepth(max))),
          size |-> size, max |-> max ]

RECURSIVE Least(_)
Least(tree) == IF tree.left = Null THEN tree.key ELSE Least(tree.left)

RECURSIVE Without(_, _)
Without(tree, key) ==
    IF key < tree.key THEN Resized([tree EXCEPT !.left = Without(@, key)])
    ELSE IF key > tree.key THEN Resized([tree EXCEPT !.right = Without(@, key)])
    ELSE IF tree.left = Null THEN tree.right
    ELSE IF tree.right = Null THEN tree.left
    ELSE Resized([tree EXCEPT !.key = Least(tree.right),
                              !.right = Without(@, Least(tree.right))])

(* Less than two thirds of the most keys since the last time: all is       *)
(* rebuilt.                                                                *)
ScapegoatErase(set, key) ==
    LET size == set.size - 1
        root == Without(set.root, key)
    IN  IF size = 0 THEN EmptyScapegoat
        ELSE IF 3 * size < 2 * set.max
             THEN [root |-> Rebuild(root), size |-> size, max |-> size]
        ELSE [root |-> root, size |-> size, max |-> set.max]

(* Beyond valid_structure: no node lies deeper than the depth that is      *)
(* allowed for the most keys since the last rebuilding, by more than one.  *)
ValidScapegoat(set) ==
    /\ SearchTree(set.root)
    /\ set.size = Len(InOrder(set.root))
    /\ set.max >= set.size
    /\ Height(set.root) - 1 <= AllowedDepth(set.max) + 1
-----------------------------------------------------------------------------
(* A treap: a search tree of the keys and a heap of their priorities. *)
HigherPriority(parent, child) ==
    \/ parent.priority > child.priority
    \/ parent.priority = child.priority /\ parent.key > child.key

RECURSIVE Split(_, _)
Split(root, key) ==
    IF root = Null THEN <<Null, Null>>
    ELSE IF root.key < key
         THEN Once(Split(root.right, key), LAMBDA parts :
                  <<Resized([root EXCEPT !.right = parts[1]]), parts[2]>>)
    ELSE Once(Split(root.left, key), LAMBDA parts :
             <<parts[1], Resized([root EXCEPT !.left = parts[2]])>>)

(* Faulty: the roots keep the sizes they had. *)
RECURSIVE MergedUnsized(_, _)
MergedUnsized(left, right) ==
    IF left = Null THEN right
    ELSE IF right = Null THEN left
    ELSE IF HigherPriority(left, right) THEN [left EXCEPT !.right = MergedUnsized(@, right)]
    ELSE [right EXCEPT !.left = MergedUnsized(left, @)]

RECURSIVE Merge(_, _)
Merge(left, right) ==
    IF left = Null THEN right
    ELSE IF right = Null THEN left
    ELSE IF HigherPriority(left, right) THEN Resized([left EXCEPT !.right = Merge(@, right)])
    ELSE Resized([right EXCEPT !.left = Merge(left, @)])

TreapInsert(root, key, priority) ==
    Once(Split(root, key), LAMBDA parts :
        Merge(Merge(parts[1], TreeNode(key, priority)), parts[2]))

(* The sizes on the way to the key are refreshed even if it is not there. *)
RECURSIVE TreapErase(_, _)
TreapErase(root, key) ==
    IF root = Null THEN Null
    ELSE IF key < root.key THEN Resized([root EXCEPT !.left = TreapErase(@, key)])
    ELSE IF key > root.key THEN Resized([root EXCEPT !.right = TreapErase(@, key)])
    ELSE Merge(root.left, root.right)

RECURSIVE Rank(_, _)
Rank(root, key) ==
    IF root = Null THEN 0
    ELSE IF key <= root.key THEN Rank(root.left, key)
    ELSE 1 + SizeOf(root.left) + Rank(root.right, key)

RECURSIVE Kth(_, _)
Kth(root, index) ==
    IF index < SizeOf(root.left) THEN Kth(root.left, index)
    ELSE IF index = SizeOf(root.left) THEN root.key
    ELSE Kth(root.right, index - (SizeOf(root.left) + 1))

ValidTreap(root) ==
    /\ SearchTree(root)
    /\ \A node \in Nodes(root) : \A child \in {node.left, node.right} \ {Null} :
           HigherPriority(node, child)
-----------------------------------------------------------------------------
(* A splay tree.  The way from a node up is a sequence of steps, each with *)
(* the node above and whether the way comes from its left; it stands for   *)
(* the parent pointers.                                                    *)
Step(node, left) == [node |-> node, left |-> left]

(* The rotation of the node above, which brings a node into its place. *)
Raised(node, step) ==
    IF step.left THEN [node EXCEPT !.right = [step.node EXCEPT !.left = node.right]]
    ELSE [node EXCEPT !.left = [step.node EXCEPT !.right = node.left]]

RECURSIVE SplayUp(_, _)
SplayUp(node, above) ==
    Once(<<node, above>>, LAMBDA at :
        LET n == at[1]  steps == at[2]
        IN  IF steps = << >> THEN n
            ELSE IF Len(steps) = 1 THEN Raised(n, steps[1])
            ELSE IF steps[1].left = steps[2].left
                 THEN SplayUp(Raised(n, Step(Raised(steps[1].node, steps[2]), steps[1].left)),
                              SubSeq(steps, 3, Len(steps)))
            ELSE SplayUp(Raised(Raised(n, steps[1]), steps[2]), SubSeq(steps, 3, Len(steps))))

(* The node with the key, or the last one on the way to it, comes up. *)
RECURSIVE SplayFrom(_, _, _)
SplayFrom(node, key, above) ==
    LET next == IF key < node.key THEN node.left ELSE node.right
    IN  IF key = node.key \/ next = Null THEN SplayUp(node, above)
        ELSE SplayFrom(next, key, <<Step(node, key < node.key)>> \o above)

Access(root, key) == IF root = Null THEN Null ELSE SplayFrom(root, key, << >>)

RECURSIVE WithNode(_, _)
WithNode(tree, key) ==
    IF tree = Null THEN TreeNode(key, 0)
    ELSE IF key < tree.key THEN [tree EXCEPT !.left = WithNode(@, key)]
    ELSE [tree EXCEPT !.right = WithNode(@, key)]

(* A key that is there comes up too. *)
SplayInsert(root, key) ==
    Access(IF Holds(root, key) THEN root ELSE WithNode(root, key), key)

(* The greatest key of the left part comes up and takes the right part. *)
SplayErase(root, key) ==
    Once(Access(root, key), LAMBDA top :
        IF top = Null \/ top.key # key THEN top
        ELSE IF top.left = Null THEN top.right
        ELSE [Access(top.left, Last(InOrder(top.left))) EXCEPT !.right = top.right])
-----------------------------------------------------------------------------
(* A skip list.  next maps the head, 0, and each key to its tower, the     *)
(* sequence of the keys that follow on each level, 0 at the end.           *)
EmptySkipList(max_level) ==
    [ next |-> (0 :> [ level \in 1 .. max_level |-> 0 ]), active_levels |-> 1, size |-> 0 ]

RECURSIVE WalkOn(_, _, _, _)
WalkOn(list, current, level, key) ==
    LET next == list.next[current][level]
    IN  IF next # 0 /\ next < key THEN WalkOn(list, next, level, key) ELSE current

(* The last nodes before a key, on every level from the lowest. *)
RECURSIVE Before(_, _, _, _)
Before(list, current, level, key) ==
    IF level = 0 THEN << >>
    ELSE Once(WalkOn(list, current, level, key), LAMBDA last :
             Append(Before(list, last, level - 1, key), last))

SkipContains(list, key) ==
    Once(Before(list, 0, list.active_levels, key), LAMBDA update :
        list.next[update[1]][1] = key)

SkipInsert(list, key, levels) ==
    Once(Before(list, 0, list.active_levels, key), LAMBDA found :
        LET update == [ level \in 1 .. levels |->
                          IF level <= list.active_levels THEN found[level] ELSE 0 ]
            tower  == [ level \in 1 .. levels |-> list.next[update[level]][level] ]
        IN  [ next |-> (key :> tower) @@
                  [ node \in DOMAIN list.next |->
                      [ level \in DOMAIN list.next[node] |->
                          IF level <= levels /\ update[level] = node THEN key
                          ELSE list.next[node][level] ] ],
              active_levels |-> Max({levels, list.active_levels}),
              size |-> list.size + 1 ])

SkipErase(list, key) ==
    Once(Before(list, 0, list.active_levels, key), LAMBDA update :
        LET next == [ node \in DOMAIN list.next \ {key} |->
                        [ level \in DOMAIN list.next[node] |->
                            IF /\ level \in DOMAIN list.next[key]
                               /\ update[level] = node
                               /\ list.next[node][level] = key
                            THEN list.next[key][level] ELSE list.next[node][level] ] ]
            used == { level \in 1 .. list.active_levels : next[0][level] # 0 }
        IN  [ next |-> next, active_levels |-> Max(used \cup {1}), size |-> list.size - 1 ])

(* The nodes that a level links, from a node on. *)
RECURSIVE Level(_, _, _)
Level(list, level, node) ==
    IF node = 0 THEN << >> ELSE <<node>> \o Level(list, level, list.next[node][level])

ValidSkipList(list) ==
    LET base == Level(list, 1, list.next[0][1])
    IN  /\ Increasing(base)
        /\ Range(base) = DOMAIN list.next \ {0}
        /\ list.size = Len(base)
        /\ \A level \in DOMAIN list.next[0] :
               /\ level > list.active_levels => list.next[0][level] = 0
               /\ Level(list, level, list.next[0][level])
                      = SelectSeq(base, LAMBDA key : level <= Len(list.next[key]))
        /\ list.active_levels > 1 => list.next[0][list.active_levels] # 0
-----------------------------------------------------------------------------
(* BTreeSet.  t is the minimum degree; a node has from t - 1 to 2t - 1     *)
(* keys, the root may have fewer.  Indices start at 1, so that the child   *)
(* left of key i is child i.                                               *)

BNode(leaf, keys, children) == [leaf |-> leaf, keys |-> keys, children |-> children]

EmptyBTree == BNode(TRUE, << >>, << >>)

LowerBound(node, key) == Len(SelectSeq(node.keys, LAMBDA k : k < key)) + 1

HasKeyAt(node, i, key) == i <= Len(node.keys) /\ node.keys[i] = key

RECURSIVE BContains(_, _)
BContains(node, key) ==
    LET i == LowerBound(node, key)
    IN  HasKeyAt(node, i, key) \/ (~node.leaf /\ BContains(node.children[i], key))
-----------------------------------------------------------------------------
(* A full child becomes two, with its median between them in the parent. *)
SplitChild(t, parent, i) ==
    LET child    == parent.children[i]
        part(seq, first, last) == IF seq = << >> THEN seq ELSE SubSeq(seq, first, last)
        lower    == BNode(child.leaf, SubSeq(child.keys, 1, t - 1), part(child.children, 1, t))
        sibling  == BNode(child.leaf, SubSeq(child.keys, t + 1, 2 * t - 1),
                          part(child.children, t + 1, 2 * t))
    IN  [parent EXCEPT !.keys = InsertAt(@, i, child.keys[t]),
                       !.children = InsertAt(ReplaceAt(@, i, lower), i + 1, sibling)]

IsFull(t, node) == Len(node.keys) = 2 * t - 1

RECURSIVE InsertNonFull(_, _, _)
InsertNonFull(t, before, key) ==
    Once(before, LAMBDA node :
        LET i == LowerBound(node, key)
        IN  IF node.leaf THEN [node EXCEPT !.keys = InsertAt(@, i, key)]
            ELSE IF IsFull(t, node.children[i])
                 THEN Once(SplitChild(t, node, i), LAMBDA split :
                          LET j == IF split.keys[i] < key THEN i + 1 ELSE i
                          IN  [split EXCEPT !.children[j] = InsertNonFull(t, @, key)])
            ELSE [node EXCEPT !.children[i] = InsertNonFull(t, @, key)])

(* For a key that is not contained. *)
BInsert(t, root, key) ==
    InsertNonFull(t, IF IsFull(t, root)
                     THEN SplitChild(t, BNode(FALSE, << >>, <<root>>), 1) ELSE root,
                  key)
-----------------------------------------------------------------------------
RECURSIVE SubtreeMinimum(_)
SubtreeMinimum(node) == IF node.leaf THEN Head(node.keys) ELSE SubtreeMinimum(Head(node.children))

RECURSIVE SubtreeMaximum(_)
SubtreeMaximum(node) == IF node.leaf THEN Last(node.keys) ELSE SubtreeMaximum(Last(node.children))

(* A key goes up from the sibling before the child, or after it, and the   *)
(* one that was there comes down, with the subtree between them.           *)
BorrowFromPrevious(parent, i) ==
    LET child   == parent.children[i]
        sibling == parent.children[i - 1]
    IN  [parent EXCEPT
            !.keys[i - 1] = Last(sibling.keys),
            !.children[i - 1] = [sibling EXCEPT
                !.keys = Front(@),
                !.children = IF child.leaf THEN @ ELSE Front(@)],
            !.children[i] = [child EXCEPT
                !.keys = <<parent.keys[i - 1]>> \o @,
                !.children = IF child.leaf THEN @ ELSE <<Last(sibling.children)>> \o @]]

(* Faulty: the subtree stays with the sibling. *)
BorrowKeyFromNext(parent, i) ==
    LET child   == parent.children[i]
        sibling == parent.children[i + 1]
    IN  [parent EXCEPT
            !.keys[i] = Head(sibling.keys),
            !.children[i + 1] = [sibling EXCEPT !.keys = Tail(@)],
            !.children[i] = [child EXCEPT !.keys = Append(@, parent.keys[i])]]

BorrowFromNext(parent, i) ==
    LET child   == parent.children[i]
        sibling == parent.children[i + 1]
    IN  [parent EXCEPT
            !.keys[i] = Head(sibling.keys),
            !.children[i + 1] = [sibling EXCEPT
                !.keys = Tail(@),
                !.children = IF child.leaf THEN @ ELSE Tail(@)],
            !.children[i] = [child EXCEPT
                !.keys = Append(@, parent.keys[i]),
                !.children = IF child.leaf THEN @ ELSE Append(@, Head(sibling.children))]]

(* The children on both sides of key i become one, around the key. *)
MergeChildren(parent, i) ==
    LET left  == parent.children[i]
        right == parent.children[i + 1]
    IN  [parent EXCEPT
            !.keys = RemoveAt(@, i),
            !.children = RemoveAt(ReplaceAt(@, i,
                BNode(left.leaf, Append(left.keys, parent.keys[i]) \o right.keys,
                      left.children \o right.children)), i + 1)]

CanLoseKey(t, node) == Len(node.keys) >= t

(* ensure_child_can_lose_key: the parent and the child's index in it. *)
Prepared(t, parent, i) ==
    CASE CanLoseKey(t, parent.children[i]) -> [node |-> parent, index |-> i]
      [] /\ ~CanLoseKey(t, parent.children[i])
         /\ i > 1 /\ CanLoseKey(t, parent.children[i - 1])
            -> [node |-> BorrowFromPrevious(parent, i), index |-> i]
      [] OTHER ->
            IF i <= Len(parent.keys)
            THEN IF CanLoseKey(t, parent.children[i + 1])
                 THEN [node |-> BorrowFromNext(parent, i), index |-> i]
                 ELSE [node |-> MergeChildren(parent, i), index |-> i]
            ELSE [node |-> MergeChildren(parent, i - 1), index |-> i - 1]

(* A key of an inner node is replaced by the nearest one of a child that   *)
(* can lose it, or goes down with the two children merged.                 *)
RECURSIVE EraseExisting(_, _, _)
EraseFromInternal(t, node, i, Erase(_, _, _)) ==
    LET left  == node.children[i]
        right == node.children[i + 1]
    IN  IF CanLoseKey(t, left)
        THEN [node EXCEPT !.keys[i] = SubtreeMaximum(left),
                          !.children[i] = Erase(t, @, SubtreeMaximum(left))]
        ELSE IF CanLoseKey(t, right)
        THEN [node EXCEPT !.keys[i] = SubtreeMinimum(right),
                          !.children[i + 1] = Erase(t, @, SubtreeMinimum(right))]
        ELSE [MergeChildren(node, i) EXCEPT !.children[i] = Erase(t, @, node.keys[i])]

EraseExisting(t, before, key) ==
    Once(before, LAMBDA node :
        LET i == LowerBound(node, key)
        IN  IF HasKeyAt(node, i, key)
            THEN IF node.leaf THEN [node EXCEPT !.keys = RemoveAt(@, i)]
                 ELSE EraseFromInternal(t, node, i, EraseExisting)
            ELSE Once(Prepared(t, node, i), LAMBDA prepared :
                     [prepared.node EXCEPT !.children[prepared.index] =
                         EraseExisting(t, @, key)]))

(* For a key that is contained. *)
BErase(t, root, key) ==
    Once(EraseExisting(t, root, key), LAMBDA after :
        IF ~after.leaf /\ after.keys = << >> THEN after.children[1] ELSE after)
-----------------------------------------------------------------------------
RECURSIVE CollectInOrder(_)
CollectInOrder(node) ==
    IF node.leaf THEN node.keys
    ELSE FlattenSeq([ i \in DOMAIN node.children |->
             CollectInOrder(node.children[i]) \o
             IF i > Len(node.keys) THEN << >> ELSE <<node.keys[i]>> ])

RECURSIVE LeafDepths(_)
LeafDepths(node) ==
    IF node.leaf THEN {0}
    ELSE { depth + 1 : depth \in UNION { LeafDepths(child) : child \in ToSet(node.children) } }

RECURSIVE BNodes(_)
BNodes(node) == {node} \cup UNION { BNodes(child) : child \in ToSet(node.children) }

ValidBTree(t, root) ==
    LET keys == CollectInOrder(root)
    IN  /\ \A i \in 1 .. Len(keys) - 1 : keys[i] < keys[i + 1]
        /\ Cardinality(LeafDepths(root)) = 1
        /\ \A node \in BNodes(root) :
               /\ Len(node.keys) <= 2 * t - 1
               /\ node # root => Len(node.keys) >= t - 1
               /\ IF node.leaf THEN node.children = << >>
                  ELSE /\ node.keys # << >>
                       /\ Len(node.children) = Len(node.keys) + 1
-----------------------------------------------------------------------------

(* std::nullopt *)
NoKey == -1

(* The neighbours of a key in a set. *)
Predecessor(keys, key) == Max({ k \in keys : k < key } \cup {NoKey})

Successor(keys, key) ==
    LET later == { k \in keys : k > key } IN IF later = {} THEN NoKey ELSE Min(later)
-----------------------------------------------------------------------------
(* A van Emde Boas tree of a number of bits: the minimum lies at the top   *)
(* and nowhere below, the others in the cluster of their upper bits, and a *)
(* tree of the upper bits tells which clusters are not empty.              *)
RECURSIVE EmptyVeb(_)
EmptyVeb(bits) ==
    [bits |-> bits, minimum |-> NoKey, maximum |-> NoKey] @@
    (IF bits = 1 THEN << >>
     ELSE [ summary  |-> EmptyVeb((bits + 1) \div 2),
            clusters |-> [ high \in 0 .. 2^((bits + 1) \div 2) - 1 |-> EmptyVeb(bits \div 2) ] ])

Upper(node, value) == value \div 2^(node.bits \div 2)
Lower(node, value) == value % 2^(node.bits \div 2)
Joined(node, high, low) == high * 2^(node.bits \div 2) + low

RECURSIVE VebContains(_, _)
VebContains(node, value) ==
    \/ value \in {node.minimum, node.maximum}
    \/ /\ node.bits > 1
       /\ node.minimum # NoKey
       /\ VebContains(node.clusters[Upper(node, value)], Lower(node, value))

OnlyVeb(node, value) == [node EXCEPT !.minimum = value, !.maximum = value]

(* For a value that is not contained; one below the minimum changes places *)
(* with it.                                                                *)
RECURSIVE VebInsert(_, _)
VebInsert(node, value) ==
    LET larger == Max({value, node.minimum})
        high   == Upper(node, larger)
        low    == Lower(node, larger)
        placed == IF node.bits = 1 THEN node
                  ELSE IF node.clusters[high].minimum = NoKey
                       THEN [node EXCEPT !.summary = VebInsert(@, high),
                                         !.clusters[high] = OnlyVeb(@, low)]
                  ELSE [node EXCEPT !.clusters[high] = VebInsert(@, low)]
    IN  IF node.minimum = NoKey THEN OnlyVeb(node, value)
        ELSE [placed EXCEPT !.minimum = Min({@, value}), !.maximum = Max({@, larger})]

(* For a value that is contained.  The next value takes the place of a     *)
(* minimum and is erased from its cluster.                                 *)
RECURSIVE VebErase(_, _)
VebErase(node, value) ==
    LET first   == node.summary.minimum
        next    == Joined(node, first, node.clusters[first].minimum)
        erased  == IF value = node.minimum THEN next ELSE value
        high    == Upper(node, erased)
    IN  IF node.minimum = node.maximum THEN OnlyVeb(node, NoKey)
        ELSE IF node.bits = 1 THEN OnlyVeb(node, 1 - value)
        ELSE Once(VebErase(node.clusters[high], Lower(node, erased)), LAMBDA cluster :
             Once([node EXCEPT !.minimum = IF value = @ THEN next ELSE @,
                               !.clusters[high] = cluster,
                               !.summary = IF cluster.minimum = NoKey
                                           THEN VebErase(@, high) ELSE @], LAMBDA left :
                IF erased # node.maximum THEN left
                ELSE IF cluster.minimum # NoKey
                     THEN [left EXCEPT !.maximum = Joined(node, high, cluster.maximum)]
                ELSE IF left.summary.maximum = NoKey
                     THEN [left EXCEPT !.maximum = left.minimum]
                ELSE LET last == left.summary.maximum
                     IN  [left EXCEPT !.maximum =
                             Joined(node, last, left.clusters[last].maximum)]))

RECURSIVE VebSuccessor(_, _)
VebSuccessor(node, value) ==
    IF node.minimum = NoKey \/ value < node.minimum THEN node.minimum
    ELSE IF node.bits = 1 THEN IF value = 0 /\ node.maximum = 1 THEN 1 ELSE NoKey
    ELSE LET high    == Upper(node, value)
             cluster == node.clusters[high]
             next    == VebSuccessor(node.summary, high)
         IN  IF cluster.maximum # NoKey /\ Lower(node, value) < cluster.maximum
             THEN Joined(node, high, VebSuccessor(cluster, Lower(node, value)))
             ELSE IF next = NoKey THEN NoKey
             ELSE Joined(node, next, node.clusters[next].minimum)

RECURSIVE VebPredecessor(_, _)
VebPredecessor(node, value) ==
    IF node.maximum = NoKey \/ value > node.maximum THEN node.maximum
    ELSE IF node.bits = 1 THEN IF value = 1 /\ node.minimum = 0 THEN 0 ELSE NoKey
    ELSE LET high     == Upper(node, value)
             cluster  == node.clusters[high]
             previous == VebPredecessor(node.summary, high)
         IN  IF cluster.minimum # NoKey /\ Lower(node, value) > cluster.minimum
             THEN Joined(node, high, VebPredecessor(cluster, Lower(node, value)))
             ELSE IF previous # NoKey
             THEN Joined(node, previous, node.clusters[previous].maximum)
             ELSE IF value > node.minimum THEN node.minimum ELSE NoKey

RECURSIVE VebValues(_)
VebValues(node) ==
    ({node.minimum, node.maximum} \ {NoKey}) \cup
    (IF node.bits = 1 THEN {}
     ELSE UNION { { Joined(node, high, low) : low \in VebValues(node.clusters[high]) } :
                      high \in DOMAIN node.clusters })

(* What the operations assume of a tree. *)
RECURSIVE ValidVeb(_)
ValidVeb(node) ==
    LET below == UNION { { Joined(node, high, low) : low \in VebValues(node.clusters[high]) } :
                             high \in DOMAIN node.clusters }
    IN  IF node.bits = 1 \/ node.minimum = NoKey
        THEN (node.minimum = NoKey) = (node.maximum = NoKey) /\ node.minimum <= node.maximum
        ELSE /\ \A value \in below : node.minimum < value /\ value <= node.maximum
             /\ node.maximum = Max(below \cup {node.minimum})
             /\ VebValues(node.summary) = { high \in DOMAIN node.clusters :
                                                VebValues(node.clusters[high]) # {} }
             /\ ValidVeb(node.summary)
             /\ \A high \in DOMAIN node.clusters : ValidVeb(node.clusters[high])
-----------------------------------------------------------------------------
(* An x-fast trie of a number of bits: the keys in a linked list, and for  *)
(* each prefix of one the number, the least and the greatest of its keys.  *)
EmptyXFast(bits) == [ leaves |-> << >>, levels |-> [ level \in 0 .. bits |-> << >> ] ]

Prefix(bits, key, level) == key \div 2^(bits - level)

XContains(trie, key) == key \in DOMAIN trie.leaves

XMinimum(trie) == IF trie.leaves = << >> THEN NoKey ELSE trie.levels[0][0].minimum
XMaximum(trie) == IF trie.leaves = << >> THEN NoKey ELSE trie.levels[0][0].maximum

(* longest_existing_prefix, by bisection. *)
RECURSIVE LongestPrefix(_, _, _, _, _)
LongestPrefix(bits, trie, key, low, high) ==
    LET middle == low + (high - low) \div 2
    IN  IF low + 1 >= high THEN low
        ELSE IF Prefix(bits, key, middle) \in DOMAIN trie.levels[middle]
             THEN LongestPrefix(bits, trie, key, middle, high)
        ELSE LongestPrefix(bits, trie, key, low, middle)

(* The neighbours of a key: at the parent where its way leaves the trie    *)
(* the other child ends the one, or begins the other.                      *)
XPredecessor(bits, trie, key) ==
    LET level  == LongestPrefix(bits, trie, key, 0, bits + 1)
        parent == Prefix(bits, key, level)
    IN  IF trie.leaves = << >> THEN NoKey
        ELSE IF XContains(trie, key) THEN trie.leaves[key].previous
        ELSE IF Prefix(bits, key, level + 1) % 2 = 1
             THEN trie.levels[level + 1][2 * parent].maximum
        ELSE trie.leaves[trie.levels[level][parent].minimum].previous

XSuccessor(bits, trie, key) ==
    LET level  == LongestPrefix(bits, trie, key, 0, bits + 1)
        parent == Prefix(bits, key, level)
    IN  IF trie.leaves = << >> THEN NoKey
        ELSE IF XContains(trie, key) THEN trie.leaves[key].next
        ELSE IF Prefix(bits, key, level + 1) % 2 = 0
             THEN trie.levels[level + 1][2 * parent + 1].minimum
        ELSE trie.leaves[trie.levels[level][parent].maximum].next

Relinked(leaves, previous, next, after, before) ==
    [ key \in DOMAIN leaves |->
        [ previous |-> IF key = next THEN before ELSE leaves[key].previous,
          next     |-> IF key = previous THEN after ELSE leaves[key].next ] ]

Counted(summaries, prefix, key) ==
    (prefix :> IF prefix \notin DOMAIN summaries
               THEN [count |-> 1, minimum |-> key, maximum |-> key]
               ELSE [ count   |-> summaries[prefix].count + 1,
                      minimum |-> Min({key, summaries[prefix].minimum}),
                      maximum |-> Max({key, summaries[prefix].maximum}) ]) @@ summaries

XInsert(bits, trie, key) ==
    LET previous == XPredecessor(bits, trie, key)
        next     == XSuccessor(bits, trie, key)
    IN  [ leaves |-> (key :> [previous |-> previous, next |-> next]) @@
                     Relinked(trie.leaves, previous, next, key, key),
          levels |-> [ level \in 0 .. bits |->
                         Counted(trie.levels[level], Prefix(bits, key, level), key) ] ]

(* A prefix that keeps some keys takes their bounds from its children. *)
BoundsOfChildren(levels, level, prefix) ==
    LET children == { child \in {2 * prefix, 2 * prefix + 1} : child \in DOMAIN levels[level + 1] }
    IN  [levels[level] EXCEPT ![prefix] =
            [ count   |-> @.count - 1,
              minimum |-> levels[level + 1][Min(children)].minimum,
              maximum |-> levels[level + 1][Max(children)].maximum ]]

(* From the deepest prefix of an erased key up. *)
RECURSIVE Discounted(_, _, _, _)
Discounted(bits, before, key, level) ==
    Once(before, LAMBDA levels :
        IF level < 0 THEN levels
        ELSE LET prefix == Prefix(bits, key, level)
             IN  Discounted(bits,
                     [levels EXCEPT ![level] =
                         IF @[prefix].count = 1 THEN Restrict(@, DOMAIN @ \ {prefix})
                         ELSE BoundsOfChildren(levels, level, prefix)],
                     key, level - 1))

XErase(bits, trie, key) ==
    LET links == trie.leaves[key]
    IN  [ leaves |-> Relinked(Restrict(trie.leaves, DOMAIN trie.leaves \ {key}),
                              links.previous, links.next, links.next, links.previous),
          levels |-> Discounted(bits, trie.levels, key, bits) ]

ValidXFast(bits, trie) ==
    LET keys == DOMAIN trie.leaves
    IN  /\ \A key \in keys :
               /\ trie.leaves[key].next = Successor(keys, key)
               /\ trie.leaves[key].previous = Predecessor(keys, key)
        /\ \A level \in 0 .. bits :
               LET under == [ prefix \in { Prefix(bits, key, level) : key \in keys } |->
                                { key \in keys : Prefix(bits, key, level) = prefix } ]
               IN  trie.levels[level] =
                       [ prefix \in DOMAIN under |->
                           [ count   |-> Cardinality(under[prefix]),
                             minimum |-> Min(under[prefix]), maximum |-> Max(under[prefix]) ] ]
-----------------------------------------------------------------------------
(* A y-fast trie: an x-fast trie of separators, the first of them 0, and   *)
(* for each a treap of the keys from it to the next.  target is the least  *)
(* size of a bucket among several, max(2, bits) in the code.               *)
EmptyYFast(bits) == [ representatives |-> EmptyXFast(bits), buckets |-> << >>, size |-> 0 ]

Above(child, parent) ==
    \/ child.priority < parent.priority
    \/ child.priority = parent.priority /\ child.key < parent.key

(* insert_node, with rotations on the way back up. *)
RECURSIVE BucketInsert(_, _)
BucketInsert(root, node) ==
    IF root = Null THEN node
    ELSE IF node.key < root.key
         THEN Once([root EXCEPT !.left = BucketInsert(@, node)], LAMBDA top :
                  IF Above(top.left, top)
                  THEN [top.left EXCEPT !.right = [top EXCEPT !.left = top.left.right]]
                  ELSE top)
    ELSE Once([root EXCEPT !.right = BucketInsert(@, node)], LAMBDA top :
             IF Above(top.right, top)
             THEN [top.right EXCEPT !.left = [top EXCEPT !.right = top.right.left]]
             ELSE top)

RECURSIVE MergedNodes(_, _)
MergedNodes(left, right) ==
    IF left = Null THEN right
    ELSE IF right = Null THEN left
    ELSE IF Above(left, right) THEN [left EXCEPT !.right = MergedNodes(@, right)]
    ELSE [right EXCEPT !.left = MergedNodes(left, @)]

RECURSIVE BucketErase(_, _)
BucketErase(root, key) ==
    IF key < root.key THEN [root EXCEPT !.left = BucketErase(@, key)]
    ELSE IF key > root.key THEN [root EXCEPT !.right = BucketErase(@, key)]
    ELSE MergedNodes(root.left, root.right)

RECURSIVE Entries(_)
Entries(root) ==
    IF root = Null THEN << >>
    ELSE Entries(root.left) \o <<TreeNode(root.key, root.priority)>> \o Entries(root.right)

BucketOf(entries) == FoldLeft(BucketInsert, Null, entries)

SeparatorFor(bits, set, key) ==
    IF XContains(set.representatives, key) THEN key
    ELSE XPredecessor(bits, set.representatives, key)

YContains(bits, set, key) ==
    set.size # 0 /\ Holds(set.buckets[SeparatorFor(bits, set, key)], key)

(* The entries from a separator on as two buckets, divided at the middle. *)
Halved(bits, set, separator, entries) ==
    LET middle == Len(entries) \div 2
        right  == entries[middle + 1].key
    IN  [set EXCEPT !.representatives = XInsert(bits, @, right),
                    !.buckets = (separator :> BucketOf(SubSeq(entries, 1, middle))) @@
                                (right :> BucketOf(SubSeq(entries, middle + 1, Len(entries)))) @@ @]

YInsert(bits, target, set, key, priority) ==
    IF set.size = 0
    THEN [ representatives |-> XInsert(bits, set.representatives, 0),
           buckets |-> (0 :> TreeNode(key, priority)), size |-> 1 ]
    ELSE Once(SeparatorFor(bits, set, key), LAMBDA separator :
         Once([set EXCEPT !.buckets[separator] = BucketInsert(@, TreeNode(key, priority)),
                          !.size = @ + 1], LAMBDA grown :
            LET entries == Entries(grown.buckets[separator])
            IN  IF Len(entries) > 4 * target THEN Halved(bits, grown, separator, entries)
                ELSE grown))

(* A bucket that has become too small is merged with the next one, or else *)
(* with the one before it, and divided again if the result is too large.   *)
RebalanceUnderfull(bits, target, set, separator) ==
    LET next    == XSuccessor(bits, set.representatives, separator)
        left    == IF next # NoKey THEN separator
                   ELSE XPredecessor(bits, set.representatives, separator)
        right   == IF next # NoKey THEN next ELSE separator
        entries == Entries(set.buckets[left]) \o Entries(set.buckets[right])
        merged  == [set EXCEPT !.representatives = XErase(bits, @, right),
                               !.buckets = Restrict(@, DOMAIN @ \ {right})]
    IN  IF Len(entries) <= 4 * target THEN [merged EXCEPT !.buckets[left] = BucketOf(entries)]
        ELSE Halved(bits, merged, left, entries)

YErase(bits, target, set, key) ==
    Once(SeparatorFor(bits, set, key), LAMBDA separator :
    Once([set EXCEPT !.buckets[separator] = BucketErase(@, key), !.size = @ - 1], LAMBDA left :
        IF left.size = 0
        THEN [left EXCEPT !.representatives = XErase(bits, @, 0), !.buckets = << >>]
        ELSE IF /\ Cardinality(DOMAIN left.buckets) > 1
                /\ Len(Entries(left.buckets[separator])) < target
             THEN RebalanceUnderfull(bits, target, left, separator)
        ELSE left))

(* The neighbour in the key's bucket, or the end of the bucket beside it.  *)
YPredecessor(bits, set, key) ==
    LET separator == SeparatorFor(bits, set, key)
        local     == { k \in ToSet(InOrder(set.buckets[separator])) : k < key }
        previous  == XPredecessor(bits, set.representatives, separator)
    IN  IF set.size = 0 THEN NoKey
        ELSE IF local # {} THEN Max(local)
        ELSE IF previous = NoKey THEN NoKey
        ELSE Last(InOrder(set.buckets[previous]))

YSuccessor(bits, set, key) ==
    LET separator == SeparatorFor(bits, set, key)
        local     == { k \in ToSet(InOrder(set.buckets[separator])) : k > key }
        next      == XSuccessor(bits, set.representatives, separator)
    IN  IF set.size = 0 THEN NoKey
        ELSE IF local # {} THEN Min(local)
        ELSE IF next = NoKey THEN NoKey
        ELSE Head(InOrder(set.buckets[next]))

ValidYFast(bits, target, set) ==
    LET separators == DOMAIN set.buckets
        keys(s)    == InOrder(set.buckets[s])
    IN  /\ ValidXFast(bits, set.representatives)
        /\ DOMAIN set.representatives.leaves = separators
        /\ (set.size = 0) = (separators = {})
        /\ separators # {} => 0 \in separators
        /\ \A s \in separators :
               /\ Increasing(keys(s))
               /\ \A node \in Nodes(set.buckets[s]) : \A child \in {node.left, node.right} \ {Null} :
                      ~Above(child, node)
               /\ \A i \in DOMAIN keys(s) : keys(s)[i] >= s /\ keys(s)[i] < 2^bits
               /\ Successor(separators, s) # NoKey => Last(keys(s)) < Successor(separators, s)
               /\ Len(keys(s)) \in (IF separators = {0} THEN 1 ELSE target) .. 4 * target
        /\ set.size = FoldSet(LAMBDA s, n : Len(keys(s)) + n, 0, separators)
-----------------------------------------------------------------------------
(* A crit-bit tree of byte strings.  words maps a key to its string; a     *)
(* byte is followed by its successor in width bits, and the end of a       *)
(* string by zeros, so that no string is a prefix of another.              *)
Leaf(key) == [leaf |-> TRUE, key |-> key]
Branch(bit, zero, one) == [leaf |-> FALSE, bit |-> bit, zero |-> zero, one |-> one]

BitAt(width, word, bit) ==
    LET position == bit \div width + 1
        symbol   == IF position > Len(word) THEN 0 ELSE word[position] + 1
    IN  (symbol \div 2^(width - 1 - (bit % width))) % 2

FirstDifferingBit(width, first, second) ==
    Min({ bit \in 0 .. width * (Max({Len(first), Len(second)}) + 1) - 1 :
              BitAt(width, first, bit) # BitAt(width, second, bit) })

RECURSIVE FindLeaf(_, _, _)
FindLeaf(width, word, tree) ==
    IF tree.leaf THEN tree.key
    ELSE FindLeaf(width, word, IF BitAt(width, word, tree.bit) = 1 THEN tree.one ELSE tree.zero)

CritContains(width, words, tree, key) ==
    tree # Null /\ FindLeaf(width, words[key], tree) = key

(* The new branch goes above the first node that decides on a later bit. *)
RECURSIVE Branched(_, _, _, _, _)
Branched(width, words, tree, key, bit) ==
    IF tree.leaf \/ tree.bit >= bit
    THEN IF BitAt(width, words[key], bit) = 1
         THEN Branch(bit, tree, Leaf(key)) ELSE Branch(bit, Leaf(key), tree)
    ELSE IF BitAt(width, words[key], tree.bit) = 1
         THEN [tree EXCEPT !.one = Branched(width, words, @, key, bit)]
    ELSE [tree EXCEPT !.zero = Branched(width, words, @, key, bit)]

CritInsert(width, words, tree, key) ==
    IF tree = Null THEN Leaf(key)
    ELSE Branched(width, words, tree, key,
                  FirstDifferingBit(width, words[key],
                                    words[FindLeaf(width, words[key], tree)]))

(* The sibling of the erased leaf takes the place of their parent. *)
RECURSIVE CritErase(_, _, _, _)
CritErase(width, words, tree, key) ==
    LET one == BitAt(width, words[key], tree.bit) = 1
    IN  IF tree.leaf THEN Null
        ELSE IF one /\ tree.one.leaf THEN tree.zero
        ELSE IF ~one /\ tree.zero.leaf THEN tree.one
        ELSE IF one THEN [tree EXCEPT !.one = CritErase(width, words, @, key)]
        ELSE [tree EXCEPT !.zero = CritErase(width, words, @, key)]

RECURSIVE CritKeys(_)
CritKeys(tree) ==
    IF tree = Null THEN {}
    ELSE IF tree.leaf THEN {tree.key}
    ELSE CritKeys(tree.zero) \cup CritKeys(tree.one)

(* Each branch decides on the first bit that divides the keys below it. *)
RECURSIVE ValidCrit(_, _, _)
ValidCrit(width, words, tree) ==
    \/ tree = Null
    \/ tree.leaf
    \/ /\ \A zero \in CritKeys(tree.zero), one \in CritKeys(tree.one) :
              /\ FirstDifferingBit(width, words[zero], words[one]) = tree.bit
              /\ BitAt(width, words[zero], tree.bit) = 0
       /\ \A child \in {tree.zero, tree.one} :
              /\ ~child.leaf => child.bit > tree.bit
              /\ ValidCrit(width, words, child)
-----------------------------------------------------------------------------
(* A bitmap in containers, one for all values with the same upper digits:  *)
(* a sorted array up to a limit, and a bitmap beyond it.  span is the      *)
(* number of the values of a container.                                    *)
Container(span, roaring, key) ==
    Len(SelectSeq(roaring, LAMBDA c : c.high < key \div span)) + 1

HasContainer(span, roaring, key) ==
    LET i == Container(span, roaring, key)
    IN  i <= Len(roaring) /\ roaring[i].high = key \div span

RoaringContains(span, roaring, key) ==
    /\ HasContainer(span, roaring, key)
    /\ LET c == roaring[Container(span, roaring, key)]
       IN  IF c.is_array THEN (key % span) \in ToSet(c.values) ELSE (key % span) \in c.bits

(* The place of a value in a sorted array. *)
Place(values, low) == Len(SelectSeq(values, LAMBDA v : v < low)) + 1

RoaringInsert(span, limit, roaring, key) ==
    LET i     == Container(span, roaring, key)
        low   == key % span
        fresh == [ high |-> key \div span, cardinality |-> 1, is_array |-> TRUE,
                   values |-> <<low>>, bits |-> {} ]
        c     == roaring[i]
        grown == [c EXCEPT !.cardinality = @ + 1]
    IN  IF ~HasContainer(span, roaring, key) THEN InsertAt(roaring, i, fresh)
        ELSE ReplaceAt(roaring, i,
            IF ~c.is_array THEN [grown EXCEPT !.bits = @ \cup {low}]
            ELSE IF c.cardinality = limit
                 THEN [grown EXCEPT !.is_array = FALSE, !.values = << >>,
                                    !.bits = ToSet(c.values) \cup {low}]
            ELSE [grown EXCEPT !.values = InsertAt(@, Place(@, low), low)])

(* A container without values goes; a bitmap at the limit is an array again. *)
RoaringErase(span, limit, roaring, key) ==
    LET i    == Container(span, roaring, key)
        low  == key % span
        c    == roaring[i]
        less == [c EXCEPT !.cardinality = @ - 1]
    IN  IF c.is_array /\ c.cardinality = 1 THEN RemoveAt(roaring, i)
        ELSE ReplaceAt(roaring, i,
            IF c.is_array THEN [less EXCEPT !.values = RemoveAt(@, Place(@, low))]
            ELSE IF c.cardinality = limit + 1
                 THEN [less EXCEPT !.is_array = TRUE, !.bits = {},
                                   !.values = SelectSeq([ v \in 1 .. span |-> v - 1 ],
                                                        LAMBDA v : v \in c.bits \ {low})]
            ELSE [less EXCEPT !.bits = @ \ {low}])

(* The number of the values up to a key. *)
RoaringRank(span, roaring, key) ==
    LET i      == Container(span, roaring, key)
        before == FoldLeft(LAMBDA n, c : n + c.cardinality, 0, SubSeq(roaring, 1, i - 1))
        c      == roaring[i]
    IN  before + IF ~HasContainer(span, roaring, key) THEN 0
                 ELSE IF c.is_array THEN Place(c.values, (key % span) + 1) - 1
                 ELSE Cardinality({ bit \in c.bits : bit <= (key % span) })

(* The value with a number of smaller ones. *)
RECURSIVE RoaringSelect(_, _, _)
RoaringSelect(span, roaring, index) ==
    LET c == Head(roaring)
    IN  IF index >= c.cardinality THEN RoaringSelect(span, Tail(roaring), index - c.cardinality)
        ELSE c.high * span +
             IF c.is_array THEN c.values[index + 1]
             ELSE CHOOSE bit \in c.bits : Cardinality({ b \in c.bits : b < bit }) = index

RoaringValues(span, roaring) ==
    UNION { { c.high * span + low : low \in ToSet(c.values) \cup c.bits } : c \in ToSet(roaring) }

ValidRoaring(span, limit, roaring) ==
    /\ \A i \in 2 .. Len(roaring) : roaring[i - 1].high < roaring[i].high
    /\ \A c \in ToSet(roaring) :
           /\ c.cardinality > 0
           /\ c.is_array = (c.cardinality <= limit)
           /\ IF c.is_array THEN Increasing(c.values) /\ Len(c.values) = c.cardinality
              ELSE Cardinality(c.bits) = c.cardinality
-----------------------------------------------------------------------------
(* A hash array mapped trie.  path[key] are the chunks of a key's hash;    *)
(* different keys have different ones.  A branch has a child for each      *)
(* chunk in its bitmap, in order.                                          *)
HamtBranch(bitmap, children) == [leaf |-> FALSE, bitmap |-> bitmap, children |-> children]

Slot(bitmap, chunk) == Cardinality({ c \in bitmap : c < chunk }) + 1

RECURSIVE HamtContains(_, _, _, _)
HamtContains(path, node, key, depth) ==
    /\ node # Null
    /\ IF node.leaf THEN node.key = key
       ELSE /\ path[key][depth] \in node.bitmap
            /\ HamtContains(path, node.children[Slot(node.bitmap, path[key][depth])],
                            key, depth + 1)

RECURSIVE MergeLeaves(_, _, _, _)
MergeLeaves(path, first, second, depth) ==
    LET a == path[first.key][depth]
        b == path[second.key][depth]
    IN  HamtBranch({a, b},
                   IF a = b THEN <<MergeLeaves(path, first, second, depth + 1)>>
                   ELSE IF a < b THEN <<first, second>> ELSE <<second, first>>)

RECURSIVE HamtInsert(_, _, _, _)
HamtInsert(path, node, key, depth) ==
    IF node = Null THEN Leaf(key)
    ELSE IF node.leaf THEN MergeLeaves(path, node, Leaf(key), depth)
    ELSE LET chunk == path[key][depth]
             slot  == Slot(node.bitmap, chunk)
         IN  IF chunk \in node.bitmap
             THEN [node EXCEPT !.children[slot] = HamtInsert(path, @, key, depth + 1)]
             ELSE HamtBranch(node.bitmap \cup {chunk}, InsertAt(node.children, slot, Leaf(key)))

(* A branch that is left with one leaf is replaced by it. *)
NormalizedBranch(branch) ==
    IF branch.children = << >> THEN Null
    ELSE IF Len(branch.children) = 1 /\ branch.children[1].leaf THEN branch.children[1]
    ELSE branch

RECURSIVE HamtErase(_, _, _, _)
HamtErase(path, node, key, depth) ==
    IF node.leaf THEN Null
    ELSE LET chunk == path[key][depth]
             slot  == Slot(node.bitmap, chunk)
         IN  Once(HamtErase(path, node.children[slot], key, depth + 1), LAMBDA child :
                 NormalizedBranch(IF child = Null
                            THEN HamtBranch(node.bitmap \ {chunk}, RemoveAt(node.children, slot))
                            ELSE [node EXCEPT !.children[slot] = child]))

RECURSIVE HamtKeys(_)
HamtKeys(node) ==
    IF node = Null THEN {}
    ELSE IF node.leaf THEN {node.key}
    ELSE UNION { HamtKeys(node.children[i]) : i \in DOMAIN node.children }

RECURSIVE ValidHamt(_, _, _)
ValidHamt(path, node, depth) ==
    \/ node = Null
    \/ node.leaf
    \/ /\ Len(node.children) = Cardinality(node.bitmap)
       /\ node.children # << >> /\ NormalizedBranch(node) = node
       /\ \A chunk \in node.bitmap :
              LET child == node.children[Slot(node.bitmap, chunk)]
              IN  /\ child # Null
                  /\ \A key \in HamtKeys(child) : path[key][depth] = chunk
                  /\ ValidHamt(path, child, depth + 1)
-----------------------------------------------------------------------------
(***************************************************************************)
(* CuckooHashSet, RobinHoodHashSet64 and QuotientFilter64, as operators    *)
(* from a table to the table an operation leaves.  The mixing functions    *)
(* are parameters: any function may come out of a seed.  A slot without a  *)
(* key holds None.  Capacities are powers of two, so that masking is %.    *)
(***************************************************************************)
None == -1

(* The slots of a circular array of a capacity from i on. *)
Following(i, capacity) == (i + 1) % capacity
Preceding(i, capacity) == (i + capacity - 1) % capacity
-----------------------------------------------------------------------------
(* Cuckoo hashing.  hash[generation][lane][key] is the mixed value under   *)
(* the salt of a lane in a rehash generation; limits holds the budgets.    *)
EmptyLane(capacity) == [ i \in 0 .. capacity - 1 |-> None ]

CuckooTable(capacity, generation) ==
    [ lanes |-> << EmptyLane(capacity), EmptyLane(capacity) >>,
      capacity |-> capacity, generation |-> generation, size |-> 0 ]

CuckooBucket(hash, table, lane, key) == hash[table.generation][lane][key] % table.capacity

CuckooContains(hash, table, key) ==
    \E lane \in {1, 2} : table.lanes[lane][CuckooBucket(hash, table, lane, key)] = key

(* A key takes its place in one lane and sends the key it finds there to   *)
(* the other one, until a place was free or the kicks have run out.  The   *)
(* result is the table, the key that is left over, and the changes that    *)
(* were made to places.                                                    *)
RECURSIVE KickedAfter(_, _, _, _, _, _)
KickedAfter(hash, changes, before, lane, pending, kicks) ==
    Once(before, LAMBDA table :
        IF pending = None \/ kicks = 0
        THEN [table |-> table, left_over |-> pending, changes |-> changes]
        ELSE LET index    == CuckooBucket(hash, table, lane, pending)
                 previous == table.lanes[lane][index]
             IN  KickedAfter(hash,
                     Append(changes, [lane |-> lane, slot |-> index, previous |-> previous]),
                     [table EXCEPT !.lanes[lane][index] = pending], 3 - lane, previous, kicks - 1))

Kicked(hash, table, key, kicks) == KickedAfter(hash, << >>, table, 1, key, kicks)

Undone(table, change) == [table EXCEPT !.lanes[change.lane][change.slot] = change.previous]

(* Faulty: from the first change to the last, so that a place that changed *)
(* twice keeps what the first of the changes put there.                    *)
RECURSIVE PutBackForwards(_, _)
PutBackForwards(table, changes) ==
    IF changes = << >> THEN table
    ELSE PutBackForwards(Undone(table, Head(changes)), Tail(changes))

(* From the last change to the first. *)
RECURSIVE PutBack(_, _)
PutBack(table, changes) ==
    IF changes = << >> THEN table
    ELSE PutBack(Undone(table, Last(changes)), Front(changes))

(* try_place_current: undone if a key is left over. *)
TryPlace(hash, limits, table, key) ==
    Once(Kicked(hash, table, key, limits.kicks), LAMBDA kicked :
        IF kicked.left_over = None THEN [placed |-> TRUE, table |-> kicked.table]
        ELSE [placed |-> FALSE, table |-> PutBack(kicked.table, kicked.changes)])

CuckooKeys(table) ==
    UNION { { table.lanes[lane][i] : i \in 0 .. table.capacity - 1 } : lane \in {1, 2} } \ {None}

(* All keys of a sequence placed in an empty table of a generation, or     *)
(* not placed if there is one that finds no place.                         *)
RECURSIVE PlacedAll(_, _, _, _)
PlacedAll(hash, limits, before, keys) ==
    Once(before, LAMBDA table :
        IF keys = << >> THEN [placed |-> TRUE, table |-> table]
        ELSE Once(Kicked(hash, table, keys[1], limits.kicks), LAMBDA kicked :
            IF kicked.left_over # None THEN [placed |-> FALSE, table |-> table]
            ELSE PlacedAll(hash, limits, [kicked.table EXCEPT !.size = @ + 1], Tail(keys))))

(* One generation after the other is tried; the capacity doubles after     *)
(* every few attempts, and when the attempts have run out nothing changes. *)
RECURSIVE Rebuilt(_, _, _, _, _, _, _)
Rebuilt(hash, limits, table, keys, capacity, generation, attempt) ==
    IF attempt = limits.attempts THEN [placed |-> FALSE, table |-> table]
    ELSE Once(PlacedAll(hash, limits, CuckooTable(capacity, generation + 1), keys),
              LAMBDA candidate :
        IF candidate.placed THEN candidate
        ELSE Rebuilt(hash, limits, table, keys,
                     IF (attempt + 1) % limits.per_capacity = 0
                     THEN 2 * capacity ELSE capacity,
                     generation + 1, attempt + 1))

RebuildIncluding(hash, limits, table, key, capacity) ==
    Rebuilt(hash, limits, table,
            Append(SetToSortSeq(CuckooKeys(table), LAMBDA a, b : a < b), key),
            capacity, table.generation, 0)

(* The table with a key it does not contain; not placed: runtime_error. *)
CuckooInsert(hash, limits, table, key) ==
    IF table.size + 1 > table.capacity
    THEN RebuildIncluding(hash, limits, table, key, 2 * table.capacity)
    ELSE Once(TryPlace(hash, limits, table, key), LAMBDA tried :
        IF tried.placed THEN [tried EXCEPT !.table.size = @ + 1]
        ELSE RebuildIncluding(hash, limits, tried.table, key, table.capacity))

CuckooErase(hash, table, key) ==
    LET lane == CHOOSE l \in {1, 2} :
            /\ table.lanes[l][CuckooBucket(hash, table, l, key)] = key
            /\ l = 2 => table.lanes[1][CuckooBucket(hash, table, 1, key)] # key
    IN  [table EXCEPT !.lanes[lane][CuckooBucket(hash, table, lane, key)] = None,
                      !.size = @ - 1]

ValidCuckoo(hash, table) ==
    LET places == { <<lane, i>> \in {1, 2} \X (0 .. table.capacity - 1) :
                        table.lanes[lane][i] # None }
    IN  /\ \A p \in places :
               CuckooBucket(hash, table, p[1], table.lanes[p[1]][p[2]]) = p[2]
        /\ \A p, q \in places :
               table.lanes[p[1]][p[2]] = table.lanes[q[1]][q[2]] => p = q
        /\ table.size = Cardinality(places)
-----------------------------------------------------------------------------
(* Robin Hood hashing: a key that is farther from its home displaces one   *)
(* that is nearer to its own.  home[key] is the mixed value.               *)
FreeSlot == [key |-> None, distance |-> 0]

RobinHoodTable(capacity) ==
    [ slots |-> [ i \in 0 .. capacity - 1 |-> FreeSlot ], capacity |-> capacity, size |-> 0 ]

(* Where a search ends: at the key, or at a slot that shows its absence. *)
RECURSIVE Found(_, _, _, _)
Found(table, key, index, distance) ==
    IF distance = table.capacity THEN None
    ELSE IF \/ table.slots[index].key = None
            \/ table.slots[index].distance < distance THEN None
    ELSE IF table.slots[index].key = key THEN index
    ELSE Found(table, key, Following(index, table.capacity), distance + 1)

FindIndex(home, table, key) == Found(table, key, home[key] % table.capacity, 0)

RobinHoodContains(home, table, key) == FindIndex(home, table, key) # None

RECURSIVE Settled(_, _, _)
Settled(before, incoming, index) ==
    Once(before, LAMBDA table :
        LET resident == table.slots[index]
            next     == Following(index, table.capacity)
        IN  IF resident.key = None THEN [table EXCEPT !.slots[index] = incoming]
            ELSE IF resident.distance < incoming.distance
                 THEN Settled([table EXCEPT !.slots[index] = incoming],
                              [resident EXCEPT !.distance = @ + 1], next)
            ELSE Settled(table, [incoming EXCEPT !.distance = @ + 1], next))

InsertNoGrow(home, table, key) ==
    Settled(table, [key |-> key, distance |-> 0], home[key] % table.capacity)

RECURSIVE Moved(_, _, _, _)
Moved(home, slots, i, grown) ==
    Once(grown, LAMBDA table :
        IF i \notin DOMAIN slots THEN table
        ELSE Moved(home, slots, i + 1,
                   IF slots[i].key = None THEN table
                   ELSE InsertNoGrow(home, table, slots[i].key)))

(* ensure_insert_capacity: one eighth of the slots stays free. *)
Roomy(home, table) ==
    IF table.size < table.capacity - table.capacity \div 8 THEN table
    ELSE [Moved(home, table.slots, 0, RobinHoodTable(2 * table.capacity))
             EXCEPT !.size = table.size]

RobinHoodInsert(home, table, key) ==
    [InsertNoGrow(home, Roomy(home, table), key) EXCEPT !.size = @ + 1]

(* The slots after the erased one are shifted back up to the next slot     *)
(* that is free or holds a key at its home.                                *)
RECURSIVE ShiftedBack(_, _)
ShiftedBack(before, hole) ==
    Once(before, LAMBDA table :
        LET next == Following(hole, table.capacity)
        IN  IF table.slots[next].key # None /\ table.slots[next].distance # 0
            THEN ShiftedBack([table EXCEPT !.slots[hole] =
                                 [table.slots[next] EXCEPT !.distance = @ - 1]], next)
            ELSE [table EXCEPT !.slots[hole] = FreeSlot])

RobinHoodErase(home, table, key) ==
    [ShiftedBack(table, FindIndex(home, table, key)) EXCEPT !.size = @ - 1]

ValidRobinHood(home, table) ==
    LET taken == { i \in DOMAIN table.slots : table.slots[i].key # None }
    IN  /\ \A i \in taken :
               /\ table.slots[i].distance
                      = ((i + table.capacity) - (home[table.slots[i].key] % table.capacity))
                        % table.capacity
               /\ FindIndex(home, table, table.slots[i].key) = i
        /\ table.size = Cardinality(taken)
        /\ table.size <= table.capacity - table.capacity \div 8
-----------------------------------------------------------------------------
(* The quotient filter keeps fingerprints <<quotient, remainder>>: each    *)
(* quotient's remainders in a run, in order, as near to the quotient's own *)
(* slot as the runs before it allow.                                       *)
EmptySlot == [occupied |-> FALSE, continuation |-> FALSE, shifted |-> FALSE, remainder |-> 0]

EmptyFilter(capacity) ==
    [ slots |-> [ i \in 0 .. capacity - 1 |-> EmptySlot ], capacity |-> capacity, size |-> 0 ]

IsEmptySlot(slot) == ~slot.occupied /\ ~slot.continuation /\ ~slot.shifted

(* The first slot from i on, backwards or forwards, where a flag is off or *)
(* on.                                                                     *)
RECURSIVE ClusterStart(_, _)
ClusterStart(filter, i) ==
    IF filter.slots[i].shifted THEN ClusterStart(filter, Preceding(i, filter.capacity)) ELSE i

RECURSIVE NextRun(_, _)
NextRun(filter, i) ==
    IF filter.slots[i].continuation THEN NextRun(filter, Following(i, filter.capacity)) ELSE i

RECURSIVE NextOccupied(_, _)
NextOccupied(filter, i) ==
    IF filter.slots[i].occupied THEN i ELSE NextOccupied(filter, Following(i, filter.capacity))

RECURSIVE RunOf(_, _, _, _)
RunOf(filter, quotient, bucket, run) ==
    IF bucket = quotient THEN run
    ELSE RunOf(filter, quotient,
               NextOccupied(filter, Following(bucket, filter.capacity)),
               NextRun(filter, Following(run, filter.capacity)))

FindRunStart(filter, quotient) ==
    Once(ClusterStart(filter, quotient), LAMBDA start : RunOf(filter, quotient, start, start))

RECURSIVE InRun(_, _, _)
InRun(filter, i, remainder) ==
    \/ filter.slots[i].remainder = remainder
    \/ /\ filter.slots[i].remainder < remainder
       /\ filter.slots[Following(i, filter.capacity)].continuation
       /\ InRun(filter, Following(i, filter.capacity), remainder)

FilterContains(filter, fingerprint) ==
    /\ filter.slots[fingerprint[1]].occupied
    /\ InRun(filter, FindRunStart(filter, fingerprint[1]), fingerprint[2])

(* The slot after those of a run with smaller remainders. *)
RECURSIVE AfterSmaller(_, _, _)
AfterSmaller(filter, i, remainder) ==
    LET next == Following(i, filter.capacity)
    IN  IF \/ ~filter.slots[next].continuation
           \/ remainder < filter.slots[next].remainder THEN next
        ELSE AfterSmaller(filter, next, remainder)

(* An entry is put into a slot and pushes the ones it meets along.  force  *)
(* says that the first of these was the first of the entry's run.  Whether *)
(* a slot's own quotient is in use stays with the slot.                    *)
RECURSIVE ShiftInsert(_, _, _, _)
ShiftInsert(before, i, entry, force) ==
    Once(before, LAMBDA filter :
        LET slot   == filter.slots[i]
            placed == [filter EXCEPT !.slots[i] = [entry EXCEPT !.occupied = slot.occupied]]
        IN  IF IsEmptySlot(slot) THEN placed
            ELSE ShiftInsert(placed, Following(i, filter.capacity),
                             [slot EXCEPT !.shifted = TRUE,
                                          !.continuation = @ \/ force],
                             FALSE))

(* For a fingerprint that is not contained, with a slot to spare. *)
FilterInsert(filter, fingerprint) ==
    LET quotient  == fingerprint[1]
        remainder == fingerprint[2]
        was_empty == IsEmptySlot(filter.slots[quotient])
        was_used  == filter.slots[quotient].occupied
        marked    == [filter EXCEPT !.slots[quotient].occupied = TRUE, !.size = @ + 1]
        start     == FindRunStart(marked, quotient)
        first     == was_used /\ remainder < marked.slots[start].remainder
        position  == IF was_used /\ ~first THEN AfterSmaller(marked, start, remainder) ELSE start
    IN  IF was_empty
        THEN [marked EXCEPT !.slots[quotient] =
                 [EmptySlot EXCEPT !.occupied = TRUE, !.remainder = remainder]]
        ELSE ShiftInsert(marked, position,
                         [ occupied |-> FALSE, continuation |-> was_used /\ ~first,
                           shifted |-> position # quotient, remainder |-> remainder ],
                         first)

(* The slots of the run that starts at i. *)
RECURSIVE RunFrom(_, _)
RunFrom(filter, i) ==
    LET next == Following(i, filter.capacity)
    IN  <<i>> \o IF filter.slots[next].continuation THEN RunFrom(filter, next) ELSE << >>

(* The fingerprints of a filter, run by run. *)
Fingerprints(filter) ==
    UNION { { <<q, filter.slots[i].remainder>> : i \in ToSet(RunFrom(filter, FindRunStart(filter, q))) } :
                q \in { q \in DOMAIN filter.slots : filter.slots[q].occupied } }

ValidFilter(filter) ==
    LET used    == { q \in DOMAIN filter.slots : filter.slots[q].occupied }
        taken   == { i \in DOMAIN filter.slots : ~IsEmptySlot(filter.slots[i]) }
        run     == [ q \in used |-> RunFrom(filter, FindRunStart(filter, q)) ]
    IN  /\ filter.size = Cardinality(taken)
        /\ taken = UNION { Range(run[q]) : q \in used }
        /\ \A p, q \in used : p # q => Range(run[p]) \cap Range(run[q]) = {}
        /\ \A q \in used :
               /\ ~filter.slots[run[q][1]].continuation
               /\ \A k \in DOMAIN run[q] : filter.slots[run[q][k]].shifted = (run[q][k] # q)
               /\ \A k \in 2 .. Len(run[q]) :
                      filter.slots[run[q][k - 1]].remainder < filter.slots[run[q][k]].remainder
-----------------------------------------------------------------------------
(***************************************************************************)
(* Keys[k] are the keys of kind k.  Seeds[k] are the values that a hash    *)
(* function or an encoding gives the keys, one of which is in force; where *)
(* insertions draw a priority or a number of levels, Draws[k][key] are the *)
(* draws.  Sizes hold the sizes that the code fixes or derives from its    *)
(* word size.                                                              *)
(***************************************************************************)
CONSTANTS Kinds, Keys, Seeds, Draws, Sizes

VARIABLES kind,
          seed,
          set,
          answer,        \* what the last call returned or threw
          members        \* the keys in the set, read off it after every call

vars == <<kind, seed, set, answer, members>>

Empty(k) ==
    CASE k = "cuckoo"     -> CuckooTable(Sizes.cuckoo, 0)
      [] k = "robin_hood" -> RobinHoodTable(Sizes.robin_hood)
      [] k = "quotient"   -> EmptyFilter(Sizes.quotient)
      [] k = "scapegoat"  -> EmptyScapegoat
      [] k = "skip_list"  -> EmptySkipList(Sizes.levels)
      [] k = "b_tree"     -> EmptyBTree
      [] k = "veb"        -> EmptyVeb(Sizes.bits[k])
      [] k = "x_fast"     -> EmptyXFast(Sizes.bits[k])
      [] k = "y_fast"     -> EmptyYFast(Sizes.bits[k])
      [] k \in {"treap", "splay", "crit_bit", "roaring", "hamt"} -> << >>

Members(k, s) ==
    CASE k = "cuckoo"     -> CuckooKeys(s)
      [] k = "robin_hood" -> { slot.key : slot \in Range(s.slots) } \ {None}
      [] k = "quotient"   -> { key \in Keys[k] : seed[key] \in Fingerprints(s) }
      [] k = "scapegoat"  -> ToSet(InOrder(s.root))
      [] k \in {"treap", "splay"} -> ToSet(InOrder(s))
      [] k = "skip_list"  -> DOMAIN s.next \ {0}
      [] k = "b_tree"     -> ToSet(CollectInOrder(s))
      [] k = "veb"        -> VebValues(s)
      [] k = "x_fast"     -> DOMAIN s.leaves
      [] k = "y_fast"     -> UNION { ToSet(InOrder(s.buckets[b])) : b \in DOMAIN s.buckets }
      [] k = "crit_bit"   -> CritKeys(s)
      [] k = "roaring"    -> RoaringValues(Sizes.span, s)
      [] k = "hamt"       -> HamtKeys(s)
-----------------------------------------------------------------------------
Init ==
    /\ kind \in Kinds
    /\ seed \in Seeds[kind]
    /\ set = Empty(kind)
    /\ answer = "none"
    /\ members = {}

Present(key) ==
    CASE kind = "cuckoo"     -> CuckooContains(seed, set, key)
      [] kind = "robin_hood" -> RobinHoodContains(seed, set, key)
      [] kind = "quotient"   -> FilterContains(set, seed[key])
      [] kind = "scapegoat"  -> Holds(set.root, key)
      [] kind = "treap"      -> Holds(set, key)
      [] kind = "splay"      -> Holds(set, key)
      [] kind = "skip_list"  -> SkipContains(set, key)
      [] kind = "b_tree"     -> BContains(set, key)
      [] kind = "veb"        -> VebContains(set, key)
      [] kind = "x_fast"     -> XContains(set, key)
      [] kind = "y_fast"     -> YContains(Sizes.bits[kind], set, key)
      [] kind = "crit_bit"   -> CritContains(Sizes.width, seed, set, key)
      [] kind = "roaring"    -> RoaringContains(Sizes.span, set, key)
      [] kind = "hamt"       -> HamtContains(seed, set, key, 1)

Says(truth) == answer' = IF truth THEN "true" ELSE "false"

(* The set with a key that is not present, from a draw. *)
With(key, draw) ==
    CASE kind = "robin_hood" -> RobinHoodInsert(seed, set, key)
      [] kind = "quotient"   -> FilterInsert(set, seed[key])
      [] kind = "scapegoat"  -> ScapegoatInsert(set, key)
      [] kind = "treap"      -> TreapInsert(set, key, draw)
      [] kind = "skip_list"  -> SkipInsert(set, key, draw)
      [] kind = "b_tree"     -> BInsert(Sizes.degree, set, key)
      [] kind = "veb"        -> VebInsert(set, key)
      [] kind = "x_fast"     -> XInsert(Sizes.bits[kind], set, key)
      [] kind = "y_fast"     -> YInsert(Sizes.bits[kind], Sizes.target, set, key, draw)
      [] kind = "crit_bit"   -> CritInsert(Sizes.width, seed, set, key)
      [] kind = "roaring"    -> RoaringInsert(Sizes.span, Sizes.limit, set, key)
      [] kind = "hamt"       -> HamtInsert(seed, set, key, 1)

(* The kinds that never refuse a key. *)
Insert(key) ==
    /\ kind \notin {"cuckoo", "quotient", "splay"}
    /\ \/ Present(key) /\ Says(FALSE) /\ UNCHANGED set
       \/ ~Present(key) /\ Says(TRUE) /\ \E draw \in Draws[kind][key] : set' = With(key, draw)

(* A cuckoo table gives up when no rehash has placed every key. *)
InsertCuckoo(key) ==
    /\ kind = "cuckoo"
    /\ \/ Present(key) /\ Says(FALSE) /\ UNCHANGED set
       \/ /\ ~Present(key)
          /\ \E result \in {CuckooInsert(seed, Sizes.kicks, set, key)} :
                 /\ set' = result.table
                 /\ answer' = IF result.placed THEN "true" ELSE "refused"

(* A quotient filter keeps one slot free, so that every search ends. *)
InsertFingerprint(key) ==
    /\ kind = "quotient"
    /\ \/ Present(key) /\ Says(FALSE) /\ UNCHANGED set
       \/ /\ ~Present(key)
          /\ set.size >= set.capacity - 1
          /\ answer' = "refused"
          /\ UNCHANGED set
       \/ ~Present(key) /\ set.size < set.capacity - 1 /\ Says(TRUE) /\ set' = With(key, 0)

(* The set without a key that is present. *)
WithoutKey(key) ==
    CASE kind = "cuckoo"     -> CuckooErase(seed, set, key)
      [] kind = "robin_hood" -> RobinHoodErase(seed, set, key)
      [] kind = "scapegoat"  -> ScapegoatErase(set, key)
      [] kind = "treap"      -> TreapErase(set, key)
      [] kind = "skip_list"  -> SkipErase(set, key)
      [] kind = "b_tree"     -> BErase(Sizes.degree, set, key)
      [] kind = "veb"        -> VebErase(set, key)
      [] kind = "x_fast"     -> XErase(Sizes.bits[kind], set, key)
      [] kind = "y_fast"     -> YErase(Sizes.bits[kind], Sizes.target, set, key)
      [] kind = "crit_bit"   -> CritErase(Sizes.width, seed, set, key)
      [] kind = "roaring"    -> RoaringErase(Sizes.span, Sizes.limit, set, key)
      [] kind = "hamt"       -> HamtErase(seed, set, key, 1)

Erase(key) ==
    /\ kind \notin {"quotient", "splay"}
    /\ Says(Present(key))
    /\ set' = IF Present(key) THEN WithoutKey(key) ELSE set

Lookup(key) == kind # "splay" /\ Says(Present(key)) /\ UNCHANGED set

(* Every operation of a splay tree brings the key up, or where it stops. *)
SplayOperation(key) ==
    /\ kind = "splay"
    /\ \/ Says(~Present(key)) /\ set' = SplayInsert(set, key)
       \/ Says(Present(key)) /\ set' = SplayErase(set, key)
       \/ Says(Present(key)) /\ set' = Access(set, key)

Clear ==
    /\ kind \in {"quotient", "splay"}
    /\ set' = Empty(kind)
    /\ answer' = "none"

Next ==
    /\ UNCHANGED <<kind, seed>>
    /\ \/ \E key \in Keys[kind] : Insert(key)
       \/ \E key \in Keys[kind] : InsertCuckoo(key)
       \/ \E key \in Keys[kind] : InsertFingerprint(key)
       \/ \E key \in Keys[kind] : Erase(key)
       \/ \E key \in Keys[kind] : Lookup(key)
       \/ \E key \in Keys[kind] : SplayOperation(key)
       \/ Clear
    /\ members' = IF set' = set THEN members ELSE Members(kind, set')

Spec == Init /\ [][Next]_vars
-----------------------------------------------------------------------------
(* Every structure keeps what its searches rely on after every operation:  *)
(* the valid_structure of each class, and where the code has none, or less *)
(* than its bounds need, the conditions beside the operations.             *)
(* (CuckooHashSet, RobinHoodHashSet64, QuotientFilter64, ScapegoatTreeSet, *)
(* TreapSet, SplaySet, SkipListSet, BTreeSet, VanEmdeBoasSet, XFastTrieSet,*)
(* YFastTrieSet, CritBitStringSet, RoaringStyleBitmap32,                   *)
(* PersistentHamtSet64.)                                                   *)
StructuresValid ==
    CASE kind = "cuckoo"     -> ValidCuckoo(seed, set)
      [] kind = "robin_hood" -> ValidRobinHood(seed, set)
      [] kind = "quotient"   -> ValidFilter(set)
      [] kind = "scapegoat"  -> ValidScapegoat(set)
      [] kind = "treap"      -> ValidTreap(set)
      [] kind = "splay"      -> Increasing(InOrder(set))
      [] kind = "skip_list"  -> ValidSkipList(set)
      [] kind = "b_tree"     -> ValidBTree(Sizes.degree, set)
      [] kind = "veb"        -> ValidVeb(set)
      [] kind = "x_fast"     -> ValidXFast(Sizes.bits[kind], set)
      [] kind = "y_fast"     -> ValidYFast(Sizes.bits[kind], Sizes.target, set)
      [] kind = "crit_bit"   -> ValidCrit(Sizes.width, seed, set)
      [] kind = "roaring"    -> ValidRoaring(Sizes.span, Sizes.limit, set)
      [] kind = "hamt"       -> ValidHamt(seed, set, 1)

(* A set that can tell a key's neighbours, its rank, or the key of a rank, *)
(* tells them of the keys it has, whether or not it has the key, and       *)
(* however its summaries, links and buckets came about.  (predecessor,     *)
(* successor, minimum, maximum, rank, kth, select.)                        *)
QueriesExact ==
    LET smaller(key)     == Cardinality({ k \in members : k < key })
        neighbours(p, s) == \A key \in Keys[kind] :
                                /\ p[key] = Predecessor(members, key)
                                /\ s[key] = Successor(members, key)
        bits             == Sizes.bits[kind]
    IN  CASE kind = "veb" ->
                neighbours([ key \in Keys[kind] |-> VebPredecessor(set, key) ],
                           [ key \in Keys[kind] |-> VebSuccessor(set, key) ])
          [] kind = "x_fast" ->
                /\ neighbours([ key \in Keys[kind] |-> XPredecessor(bits, set, key) ],
                              [ key \in Keys[kind] |-> XSuccessor(bits, set, key) ])
                /\ members # {} => XMinimum(set) = Min(members) /\ XMaximum(set) = Max(members)
          [] kind = "y_fast" ->
                neighbours([ key \in Keys[kind] |-> YPredecessor(bits, set, key) ],
                           [ key \in Keys[kind] |-> YSuccessor(bits, set, key) ])
          [] kind = "treap" ->
                /\ \A key \in Keys[kind] : Rank(set, key) = smaller(key)
                /\ \A key \in members : Kth(set, smaller(key)) = key
          [] kind = "roaring" ->
                /\ \A key \in Keys[kind] : RoaringRank(Sizes.span, set, key) = smaller(key + 1)
                /\ \A key \in members : RoaringSelect(Sizes.span, set, smaller(key)) = key
          [] OTHER -> TRUE

(* Whatever the calls, the draws and the hash functions, every operation   *)
(* answers as a set does, and one that fails leaves the keys as they were. *)
(* (insert, erase, contains and clear of the classes above.)               *)
Promise == INSTANCE KeySet WITH
    Key     <- UNION { Keys[k] : k \in Kinds },
    limited <- kind \in {"cuckoo", "quotient"}

ImplementsKeySet == Promise!Spec
==============================================================================
