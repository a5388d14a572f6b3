------------------------- MODULE DominatorTreeProofs -------------------------
(***************************************************************************)
(* Proofs about DominatorTree, for every graph: path compression never     *)
(* changes an evaluation, semidominators and immediate dominators are      *)
(* those of their definitions with paths, and the intervals of the tree    *)
(* answer dominates().                                                     *)
(*                                                                         *)
(* The first part is about trees and arcs on the numbers of a depth-first  *)
(* search, without the program; the second about the steps of the program. *)
(***************************************************************************)
EXTENDS DominatorTree, FiniteSetTheorems, SequenceTheorems, TLAPS

(* P is a tree on 0 .. Len(P) - 1 given by the parents, parent_by_dfs: the *)
(* parent of a node has a smaller number.                                  *)
Nodes(P) == 0 .. Len(P) - 1

Tree(P) == P \in Seq(Int) /\ \A n \in 1 .. Len(P) - 1 : P[n + 1] \in 0 .. n - 1

(* A set of nodes with the parents of its members. *)
Up(P, S) == \A n \in S : n # 0 => P[n + 1] \in S

(* Node m is n or an ancestor of n. *)
Ancestor(P, m, n) ==
    /\ m \in Nodes(P) /\ n \in Nodes(P)
    /\ \A S \in SUBSET Nodes(P) : n \in S /\ Up(P, S) => m \in S

(* Node y lies on the path of the tree from e to w, below e. *)
Between(P, e, y, w) == Ancestor(P, e, y) /\ y # e /\ Ancestor(P, y, w)
-----------------------------------------------------------------------------
(* A set of natural numbers that is not empty has a least one, from the    *)
(* well-founded order of the natural numbers.                              *)
LEMMA LeastNatural ==
    ASSUME NEW S, S \subseteq Nat, S # {}
    PROVE  \E x \in S : \A y \in S : x <= y
  <1> DEFINE R == OpToRel(<, Nat)
  <1>1. IsWellFoundedOn(R, Nat)
    BY NatLessThanWellFounded
  <1>2. \A x, y \in S : <<y, x>> \in R <=> y < x
    BY DEF OpToRel
  <1> HIDE DEF R
  <1>3. PICK x \in S : \A y \in S : <<y, x>> \notin R
    BY <1>1, WFMin
  <1>4. ASSUME NEW y \in S PROVE x <= y
    <2>1. ~(y < x) /\ x \in Nat /\ y \in Nat
      BY <1>2, <1>3
    <2> QED
      BY <2>1
  <1> QED
    BY <1>4

(* Induction: a set that holds zero and the successors of its members      *)
(* holds every natural number.                                             *)
LEMMA InductiveSet ==
    ASSUME NEW S, 0 \in S, \A n \in Nat : n \in S => n + 1 \in S
    PROVE  Nat \subseteq S
  <1> DEFINE T == Nat \ S
  <1>1. SUFFICES ASSUME T # {} PROVE FALSE
    OBVIOUS
  <1>2. PICK m \in T : \A y \in T : m <= y
    BY <1>1, LeastNatural
  <1> QED
    BY <1>2
-----------------------------------------------------------------------------
(* What the other lemmas use of a tree: types, and the parent is smaller.  *)
LEMMA TreeFacts ==
    ASSUME NEW P, Tree(P)
    PROVE  /\ Len(P) \in Nat
           /\ Nodes(P) \subseteq Nat
           /\ \A n \in Nodes(P) : n # 0 => P[n + 1] \in Nodes(P) /\ P[n + 1] < n
           /\ \A n \in Nodes(P) : n # 0 => 0 \in Nodes(P)
  <1>1. Len(P) \in Nat
    BY DEF Tree
  <1>2. ASSUME NEW n \in Nodes(P), n # 0
        PROVE  P[n + 1] \in 0 .. n - 1 /\ n \in 1 .. Len(P) - 1
    BY <1>1, <1>2 DEF Tree, Nodes
  <1> QED
    BY <1>1, <1>2 DEF Nodes

LEMMA AncestorOfSelf ==
    ASSUME NEW P, NEW n \in Nodes(P)
    PROVE  Ancestor(P, n, n)
  BY DEF Ancestor

LEMMA AncestorTransitive ==
    ASSUME NEW P, NEW a, NEW b, NEW c, Ancestor(P, a, b), Ancestor(P, b, c)
    PROVE  Ancestor(P, a, c)
  BY DEF Ancestor

LEMMA ParentIsAncestor ==
    ASSUME NEW P, Tree(P), NEW n \in Nodes(P), n # 0
    PROVE  Ancestor(P, P[n + 1], n)
  BY TreeFacts DEF Ancestor, Up

(* The ancestors of a node are the node and those of its parent. *)
LEMMA AncestorByParent ==
    ASSUME NEW P, Tree(P), NEW m, NEW n, Ancestor(P, m, n), m # n
    PROVE  n # 0 /\ Ancestor(P, m, P[n + 1])
  <1>1. m \in Nodes(P) /\ n \in Nodes(P)
    BY DEF Ancestor
  <1>2. n # 0
    <2> SUFFICES ASSUME n = 0 PROVE FALSE
      OBVIOUS
    <2>1. {0} \in SUBSET Nodes(P) /\ Up(P, {0}) /\ n \in {0}
      BY <1>1 DEF Up
    <2> QED
      BY <2>1 DEF Ancestor
  <1>4. ASSUME NEW S \in SUBSET Nodes(P), P[n + 1] \in S, Up(P, S)
        PROVE  m \in S
    <2>2. m \in S \cup {n}
      BY <1>1, <1>4 DEF Ancestor, Up
    <2> QED
      BY <2>2
  <1> QED
    BY <1>1, <1>2, TreeFacts, <1>4 DEF Ancestor

LEMMA AncestorIsLess ==
    ASSUME NEW P, Tree(P), NEW m, NEW n, Ancestor(P, m, n)
    PROVE  m \in Nodes(P) /\ n \in Nodes(P) /\ m <= n /\ m \in Nat /\ n \in Nat
  <1>1. m \in Nodes(P) /\ n \in Nodes(P) /\ m \in Nat /\ n \in Nat
    BY TreeFacts DEF Ancestor
  <1> DEFINE S == { k \in Nodes(P) : k <= n }
  <1>2. Up(P, S)
    <2> SUFFICES ASSUME NEW k \in S, k # 0 PROVE P[k + 1] \in S
      BY DEF Up
    <2> QED
      BY <1>1, TreeFacts
  <1>3. n \in S /\ S \in SUBSET Nodes(P)
    BY <1>1
  <1>4. m \in S
    <2> HIDE DEF S
    <2> QED
      BY <1>2, <1>3 DEF Ancestor
  <1> QED
    BY <1>1, <1>4

(* Of two ancestors of a node one is an ancestor of the other. *)
LEMMA AncestorsComparable ==
    ASSUME NEW P, Tree(P), NEW a, NEW b, NEW n, Ancestor(P, a, n), Ancestor(P, b, n), a <= b
    PROVE  Ancestor(P, a, b)
  <1> SUFFICES ASSUME ~Ancestor(P, a, b) PROVE FALSE
    OBVIOUS
  <1> DEFINE S == { k \in Nodes(P) : Ancestor(P, a, k) /\ Ancestor(P, b, k) }
  <1>1. S \subseteq Nat /\ S # {}
    BY TreeFacts DEF Ancestor
  <1>2. PICK k \in S : \A y \in S : k <= y
    <2> HIDE DEF S
    <2> QED
      BY <1>1, LeastNatural
  <1>3. k # b
    BY <1>2
  <1>4. k # a
    <2> SUFFICES ASSUME k = a PROVE FALSE
      OBVIOUS
    <2> QED
      BY <1>3, <1>2, AncestorIsLess
  <1> QED
    BY <1>2, <1>3, <1>4, AncestorByParent, TreeFacts

(* The paths of a tree stay when it gets another leaf. *)
LEMMA AncestorExtends ==
    ASSUME NEW P, NEW x \in Nat, Tree(P), x < Len(P), NEW n \in Nodes(P), NEW m
    PROVE  Ancestor(Append(P, x), m, n) <=> Ancestor(P, m, n)
  <1> DEFINE Q == Append(P, x)
  <1>1. /\ Len(P) \in Nat /\ Len(Q) = Len(P) + 1
        /\ \A k \in Nodes(P) : k \in Nodes(Q) /\ Q[k + 1] = P[k + 1]
        /\ n \in Nat /\ n < Len(P)
    BY DEF Tree, Nodes
  <1> HIDE DEF Q
  <1>2. ASSUME Ancestor(P, m, n)
        PROVE  Ancestor(Q, m, n)
    <2> SUFFICES ASSUME NEW S \in SUBSET Nodes(Q), n \in S, Up(Q, S)
                 PROVE  m \in S
      BY <1>1, <1>2 DEF Ancestor
    <2>3. m \in S \cap Nodes(P)
      BY <1>2, <1>1, TreeFacts DEF Ancestor, Up
    <2> QED
      BY <2>3
  <1>3. ASSUME Ancestor(Q, m, n)
        PROVE  Ancestor(P, m, n)
    BY <1>1, <1>3, TreeFacts DEF Up, Ancestor
  <1> QED
    BY <1>2, <1>3 DEF Q
-----------------------------------------------------------------------------
(* A is the arcs between the numbers of a depth-first search with the tree *)
(* P: a node numbered between a parent and its child is below the parent,  *)
(* and an arc to a larger number goes down the tree.                       *)
DepthFirst(P, A) ==
    /\ Tree(P) /\ P # << >>
    /\ A \subseteq Nodes(P) \X Nodes(P)
    /\ \A n \in Nodes(P) : n # 0 => <<P[n + 1], n>> \in A
    /\ \A n \in Nodes(P) : n # 0 => \A m \in P[n + 1] .. n : Ancestor(P, P[n + 1], m)
    /\ \A e \in A : e[1] <= e[2] => Ancestor(P, e[1], e[2])

(* Node m is a candidate for the semidominator of n: a path of arcs leads  *)
(* from m to n over larger numbers than n.  The candidates are the least   *)
(* set that holds the source of an arc whose target is n, or larger and a  *)
(* candidate.                                                              *)
BackClosed(A, n, C) == \A e \in A : e[2] = n \/ (e[2] > n /\ e[2] \in C) => e[1] \in C

Candidate(P, A, m, n) ==
    m \in Nodes(P) /\ \A C \in SUBSET Nodes(P) : BackClosed(A, n, C) => m \in C

(* Node s is the semidominator of n. *)
Semidominator(P, A, s, n) ==
    Candidate(P, A, s, n) /\ \A m \in Nodes(P) : Candidate(P, A, m, n) => s <= m
-----------------------------------------------------------------------------
(* A node numbered between a node and a descendant is a descendant. *)
LEMMA DescendantsAreContiguous ==
    ASSUME NEW P, NEW A, DepthFirst(P, A), NEW u, NEW x, NEW y \in Nat,
           Ancestor(P, u, x), u <= y, y <= x
    PROVE  Ancestor(P, u, y)
  <1> SUFFICES ASSUME ~Ancestor(P, u, y) PROVE FALSE
    OBVIOUS
  <1>1. Tree(P)
    BY DEF DepthFirst
  <1> DEFINE S == { k \in Nodes(P) : Ancestor(P, u, k) /\ y <= k }
  <1>2. x \in S /\ S \subseteq Nat
    BY <1>1, TreeFacts DEF Ancestor
  <1>3. PICK k \in S : \A z \in S : k <= z
    <2> HIDE DEF S
    <2> QED
      BY <1>2, LeastNatural
  <1>4. k # u
    <2> SUFFICES ASSUME k = u PROVE FALSE
      OBVIOUS
    <2> QED
      BY <1>3, <1>1, AncestorIsLess
  <1> QED
    BY <1>1, <1>3, <1>4, AncestorByParent, TreeFacts, AncestorTransitive DEF DepthFirst

(* An arc never leaves the descendants of a node for a larger number. *)
LEMMA ArcStaysBelow ==
    ASSUME NEW P, NEW A, DepthFirst(P, A), NEW q, NEW r, <<q, r>> \in A,
           NEW x, Ancestor(P, x, q), x <= r
    PROVE  Ancestor(P, x, r)
  <1>2. q \in Nat /\ r \in Nat
    BY TreeFacts DEF DepthFirst
  <1>3. CASE q <= r
    BY <1>3, AncestorTransitive DEF DepthFirst
  <1>4. CASE ~(q <= r)
    BY <1>2, <1>4, DescendantsAreContiguous
  <1> QED
    BY <1>3, <1>4

(* The source of an arc into n, and the source of one into a candidate     *)
(* larger than n, are candidates.                                          *)
LEMMA CandidatesClosed ==
    ASSUME NEW P, NEW A, DepthFirst(P, A), NEW m, NEW j, <<m, j>> \in A, NEW n,
           j = n \/ (j > n /\ Candidate(P, A, j, n))
    PROVE  Candidate(P, A, m, n)
  <1>2. ASSUME NEW C \in SUBSET Nodes(P), BackClosed(A, n, C)
        PROVE  m \in C
    BY <1>2 DEF BackClosed, Candidate
  <1> QED
    BY <1>2 DEF Candidate, DepthFirst

(* A candidate of a candidate larger than w is a candidate of w. *)
LEMMA CandidateTransitive ==
    ASSUME NEW P, NEW A, NEW m, NEW u \in Nat, NEW w \in Nat, u > w,
           A \subseteq Nodes(P) \X Nodes(P), Len(P) \in Nat,
           Candidate(P, A, m, u), Candidate(P, A, u, w)
    PROVE  Candidate(P, A, m, w)
  <1> SUFFICES ASSUME NEW C \in SUBSET Nodes(P), BackClosed(A, w, C)
               PROVE  m \in C
    BY DEF Candidate
  <1>1. u \in C
    BY DEF Candidate
  <1>2. BackClosed(A, u, C)
    <2> SUFFICES ASSUME NEW e \in A, e[2] = u \/ (e[2] > u /\ e[2] \in C)
                 PROVE  e[1] \in C
      BY DEF BackClosed
    <2> QED
      BY <1>1 DEF BackClosed, Nodes
  <1> QED
    BY <1>2 DEF Candidate

(* So is an ancestor of a candidate, while it is larger than w. *)
LEMMA CandidateAncestor ==
    ASSUME NEW P, NEW A, DepthFirst(P, A), NEW u, NEW v, NEW w \in Nat,
           Ancestor(P, u, v), u > w, Candidate(P, A, v, w)
    PROVE  Candidate(P, A, u, w)
  <1> DEFINE S == { x \in Nodes(P) : x > w => Candidate(P, A, x, w) }
  <1>1. Tree(P)
    BY DEF DepthFirst
  <1>2. Up(P, S)
    <2> SUFFICES ASSUME NEW x \in S, x # 0, P[x + 1] > w
                 PROVE  Candidate(P, A, P[x + 1], w)
      BY <1>1, TreeFacts DEF Up
    <2>2. x > w
      BY <1>1, TreeFacts
    <2> QED
      BY <2>2, CandidatesClosed DEF DepthFirst
  <1>3. v \in S /\ S \in SUBSET Nodes(P)
    BY DEF Ancestor
  <1>4. u \in S
    <2> HIDE DEF S
    <2> QED
      BY <1>2, <1>3 DEF Ancestor
  <1> QED
    BY <1>4

(* A path over numbers larger than u stays below the ancestors of its      *)
(* first node.                                                             *)
LEMMA CandidateDescends ==
    ASSUME NEW P, NEW A, DepthFirst(P, A), NEW m, NEW u \in Nat, Candidate(P, A, m, u),
           NEW x, Ancestor(P, x, m), x <= u
    PROVE  Ancestor(P, x, u)
  <1> DEFINE T == { k \in Nodes(P) : Ancestor(P, x, k) => Ancestor(P, x, u) }
  <1>1. Tree(P) /\ A \subseteq Nodes(P) \X Nodes(P)
    BY DEF DepthFirst
  <1>2. x \in Nat
    BY <1>1, AncestorIsLess
  <1>3. BackClosed(A, u, T)
    <2> SUFFICES ASSUME NEW e \in A, e[2] = u \/ (e[2] > u /\ e[2] \in T),
                        Ancestor(P, x, e[1])
                 PROVE  Ancestor(P, x, u)
      BY <1>1 DEF BackClosed
    <2> QED
      BY <1>1, <1>2, TreeFacts, ArcStaysBelow
  <1>4. m \in T
    <2> HIDE DEF T
    <2> QED
      BY <1>3 DEF Candidate, T
  <1> QED
    BY <1>4

(* A semidominator is a proper ancestor. *)
LEMMA SemidominatorIsAncestor ==
    ASSUME NEW P, NEW A, DepthFirst(P, A), NEW n \in Nodes(P), n # 0, NEW s,
           Semidominator(P, A, s, n)
    PROVE  Ancestor(P, s, n) /\ s < n /\ s \in Nat /\ n \in Nat /\ s \in Nodes(P)
  <1>1. Tree(P) /\ <<P[n + 1], n>> \in A
    BY DEF DepthFirst
  <1>2. P[n + 1] \in Nodes(P) /\ P[n + 1] < n /\ n \in Nat /\ P[n + 1] \in Nat
    BY <1>1, TreeFacts
  <1>4. s <= P[n + 1] /\ s \in Nodes(P) /\ Candidate(P, A, s, n)
    BY <1>2, <1>1, CandidatesClosed DEF Semidominator, Candidate
  <1> QED
    BY <1>2, <1>4, <1>1, TreeFacts, AncestorOfSelf, CandidateDescends
-----------------------------------------------------------------------------
(* What an arc <<v, w>> contributes: the candidates of the ancestors of v  *)
(* that are larger than w are candidates of w.                             *)
LEMMA CandidateByEvaluation ==
    ASSUME NEW P, NEW A, DepthFirst(P, A), NEW v, NEW w \in Nat, <<v, w>> \in A,
           NEW u, Ancestor(P, u, v), u > w, NEW m, Candidate(P, A, m, u)
    PROVE  Candidate(P, A, m, w)
  <1>4. Candidate(P, A, u, w)
    BY CandidatesClosed, CandidateAncestor
  <1> QED
    BY AncestorIsLess, <1>4, CandidateTransitive DEF DepthFirst, Tree

(* And nothing else does: a bound of the smaller sources of arcs into w    *)
(* and of the candidates of those ancestors bounds all candidates of w.    *)
BoundsArcs(P, A, k, w) ==
    \A v \in Nodes(P) : <<v, w>> \in A =>
        /\ v < w => k <= v
        /\ \A u \in Nodes(P) : u > w /\ Ancestor(P, u, v) =>
               \A x \in Nodes(P) : Candidate(P, A, x, u) => k <= x

LEMMA CandidatesBounded ==
    ASSUME NEW P, NEW A, DepthFirst(P, A), NEW w \in Nat, NEW k \in Nat, k <= w,
           BoundsArcs(P, A, k, w),
           NEW m, Candidate(P, A, m, w)
    PROVE  k <= m
  <1> DEFINE Inner(x) == \E u, v \in Nodes(P) :
                             /\ u > w /\ u <= x /\ Ancestor(P, u, v) /\ <<v, w>> \in A
                             /\ x = u \/ Candidate(P, A, x, u)
             S == { x \in Nodes(P) : k <= x /\ (x > w => Inner(x)) }
  <1>1. /\ Tree(P) /\ A \subseteq Nodes(P) \X Nodes(P)
        /\ \A x \in Nodes(P) : x \in Nat
    BY TreeFacts DEF DepthFirst
  <1>2. ASSUME NEW x \in Nodes(P), NEW j \in Nodes(P), <<x, j>> \in A,
               j = w \/ (j > w /\ j \in S)
        PROVE  x \in S
    <2>1. x \in Nat /\ j \in Nat
      BY <1>1
    <2>2. CASE j = w
      <3>1. CASE x < w
        BY <1>2, <2>1, <2>2, <3>1 DEF BoundsArcs
      <3>2. CASE x = w
        BY <2>1, <3>2
      <3>3. CASE x > w
        <4>2. Inner(x)
          BY <1>2, <2>1, <2>2, <3>3, AncestorOfSelf
        <4> HIDE DEF Inner
        <4> QED
          BY <2>1, <3>3, <4>2
      <3> QED
        BY <2>1, <3>1, <3>2, <3>3
    <2>3. CASE j > w /\ j \in S
      <3>1. PICK u \in Nodes(P), v \in Nodes(P) :
                /\ u > w /\ u <= j /\ Ancestor(P, u, v) /\ <<v, w>> \in A
                /\ j = u \/ Candidate(P, A, j, u)
        BY <2>3
      <3>2. u \in Nat /\ v \in Nat
        BY <1>1
      <3>3. Candidate(P, A, x, u)
        BY <2>1, <3>1, <3>2, <1>2, CandidatesClosed
      <3>5. ASSUME x > w
            PROVE  Inner(x)
        BY <3>1, <3>3, <2>1, <3>2, AncestorOfSelf, CandidateDescends, AncestorTransitive,
           <3>5
      <3> HIDE DEF Inner
      <3> QED
        BY <3>5, <2>1, <3>1, <3>3 DEF BoundsArcs
    <2> QED
      BY <1>2, <2>2, <2>3
  <1> HIDE DEF S
  <1>3. BackClosed(A, w, S)
    <2> SUFFICES ASSUME NEW e \in A, e[2] = w \/ (e[2] > w /\ e[2] \in S)
                 PROVE  e[1] \in S
      BY DEF BackClosed
    <2> QED
      BY <1>2, <1>1
  <1> QED
    BY <1>3 DEF Candidate, S
-----------------------------------------------------------------------------
(* Node m is reached from node 0 without entering d: it is in every set    *)
(* that holds 0, unless d is 0, and that no arc leaves but into d.         *)
ForwardClosed(A, d, C) ==
    /\ d # 0 => 0 \in C
    /\ \A e \in A : e[1] \in C /\ e[2] # d => e[2] \in C

Avoids(P, A, d, m) ==
    m \in Nodes(P) /\ \A C \in SUBSET Nodes(P) : ForwardClosed(A, d, C) => m \in C

LEMMA AvoidingClosed ==
    ASSUME NEW P, NEW A, DepthFirst(P, A), NEW d, NEW q, NEW r, <<q, r>> \in A,
           Avoids(P, A, d, q), r # d
    PROVE  Avoids(P, A, d, r)
  <1>2. ASSUME NEW C \in SUBSET Nodes(P), ForwardClosed(A, d, C)
        PROVE  r \in C
    BY <1>2 DEF ForwardClosed, Avoids
  <1> QED
    BY <1>2 DEF Avoids, DepthFirst

(* Who is not below d is reached along the tree. *)
LEMMA OutsidersAvoid ==
    ASSUME NEW P, NEW A, DepthFirst(P, A), NEW d \in Nodes(P), NEW w \in Nodes(P),
           ~Ancestor(P, d, w)
    PROVE  Avoids(P, A, d, w)
  <1> SUFFICES ASSUME ~Avoids(P, A, d, w) PROVE FALSE
    OBVIOUS
  <1> DEFINE S == { k \in Nodes(P) : ~Ancestor(P, d, k) /\ ~Avoids(P, A, d, k) }
  <1>1. Tree(P)
    BY DEF DepthFirst
  <1>2. S \subseteq Nat /\ w \in S
    BY <1>1, TreeFacts
  <1>3. PICK k \in S : \A z \in S : k <= z
    <2> HIDE DEF S
    <2> QED
      BY <1>2, LeastNatural
  <1>4. k # 0
    <2> SUFFICES ASSUME k = 0 PROVE FALSE
      OBVIOUS
    <2> QED
      BY <1>3, AncestorOfSelf DEF Avoids, ForwardClosed
  <1>5. P[k + 1] \in Nodes(P) /\ P[k + 1] < k /\ k \in Nat /\ P[k + 1] \in Nat
        /\ <<P[k + 1], k>> \in A /\ Ancestor(P, P[k + 1], k)
    BY <1>1, <1>3, <1>4, TreeFacts, ParentIsAncestor DEF DepthFirst
  <1> QED
    BY <1>3, <1>5, AncestorTransitive, AncestorOfSelf, AvoidingClosed

(* The descendants of a node that is reached are reached. *)
LEMMA DescendantsAvoid ==
    ASSUME NEW P, NEW A, DepthFirst(P, A), NEW d \in Nat, NEW y, NEW w,
           Ancestor(P, y, w), d < y, Avoids(P, A, d, y)
    PROVE  Avoids(P, A, d, w)
  <1> SUFFICES ASSUME ~Avoids(P, A, d, w) PROVE FALSE
    OBVIOUS
  <1> DEFINE S == { k \in Nodes(P) : Ancestor(P, y, k) /\ ~Avoids(P, A, d, k) }
  <1>1. Tree(P)
    BY DEF DepthFirst
  <1>2. S \subseteq Nat /\ w \in S
    BY <1>1, TreeFacts DEF Ancestor
  <1>3. PICK k \in S : \A z \in S : k <= z
    <2> HIDE DEF S
    <2> QED
      BY <1>2, LeastNatural
  <1>5. k # 0 /\ Ancestor(P, y, P[k + 1])
    BY <1>1, <1>3, AncestorByParent
  <1>6. P[k + 1] \in Nodes(P) /\ P[k + 1] < k /\ k \in Nat /\ P[k + 1] \in Nat
        /\ <<P[k + 1], k>> \in A
    BY <1>1, <1>3, <1>5, TreeFacts DEF DepthFirst
  <1> QED
    BY <1>3, <1>6, <1>5, <1>1, AncestorIsLess, AvoidingClosed
-----------------------------------------------------------------------------
(* A node dominates a descendant exactly when no candidate of a node       *)
(* between them is smaller: no path enters the part of the tree between    *)
(* them from above.                                                        *)
Sheltered(P, A, e, w) ==
    \A y \in Nodes(P) : Between(P, e, y, w) =>
        \A x \in Nodes(P) : Candidate(P, A, x, y) => e <= x

(* One direction.  The nodes reached without entering e are smaller, or,   *)
(* for every y between, either a path leads there from a smaller node over *)
(* numbers larger than y, and they are no candidates of y, or they are     *)
(* below some u that is smaller than y and not above it.                   *)
LEMMA ShelteredIsDominated ==
    ASSUME NEW P, NEW A, DepthFirst(P, A), NEW e, NEW w, Ancestor(P, e, w), e # w,
           Sheltered(P, A, e, w)
    PROVE  ~Avoids(P, A, e, w)
  <1> DEFINE Off(q, y) == \/ q > y /\ ~Candidate(P, A, q, y)
                          \/ \E u \in Nodes(P) : /\ e < u /\ u < y
                                                 /\ Ancestor(P, u, q) /\ ~Ancestor(P, u, y)
             S == { q \in Nodes(P) : /\ q # e
                                     /\ q < e \/ \A y \in Nodes(P) :
                                                     Between(P, e, y, w) => Off(q, y) }
  <1>1. /\ Tree(P) /\ A \subseteq Nodes(P) \X Nodes(P)
        /\ \A x \in Nodes(P) : x \in Nat
        /\ e \in Nodes(P) /\ w \in Nodes(P)
    BY TreeFacts DEF DepthFirst, Ancestor
  <1>2. ASSUME NEW y \in Nodes(P), Between(P, e, y, w)
        PROVE  e < y
    BY <1>1, <1>2, AncestorIsLess DEF Between
  <1>3. ASSUME NEW q \in Nodes(P), NEW r \in Nodes(P), <<q, r>> \in A, q \in S, r # e
        PROVE  r \in S
    <2>1. q \in Nat /\ r \in Nat /\ e \in Nat
      BY <1>1
    <2> SUFFICES ASSUME r > e, NEW y \in Nodes(P), Between(P, e, y, w)
                 PROVE  Off(r, y)
      BY <1>3, <2>1
    <2>2. y \in Nat /\ e < y
      BY <1>1, <1>2
    <2>3. ASSUME NEW z \in Nodes(P), Between(P, e, z, w)
          PROVE  r # z /\ ~(r < z /\ Ancestor(P, r, z))
      <3>1. ~Between(P, e, r, w)
        <4> SUFFICES ASSUME Between(P, e, r, w) PROVE FALSE
          OBVIOUS
        <4>4. PICK u \in Nodes(P) : /\ e < u /\ u < r
                                    /\ Ancestor(P, u, q) /\ ~Ancestor(P, u, r)
          BY <1>3, CandidatesClosed, <2>1 DEF Sheltered
        <4> QED
          BY <1>3, <4>4, <1>1, <2>1, ArcStaysBelow
      <3>2. ASSUME r < z, Ancestor(P, r, z)
            PROVE  FALSE
        BY <1>1, <2>1, <2>3, <3>2, AncestorsComparable, AncestorTransitive, <1>3, <3>1 DEF
           Between
      <3> QED
        BY <2>3, <3>1, <3>2
    <2>4. CASE r < y
      BY <2>3, <2>4, AncestorOfSelf
    <2>5. CASE r > y
      <3>1. CASE Candidate(P, A, r, y)
        <4>4. PICK u \in Nodes(P) : /\ e < u /\ u < y
                                    /\ Ancestor(P, u, q) /\ ~Ancestor(P, u, y)
          BY <1>3, <2>5, <3>1, CandidatesClosed, <2>1 DEF Sheltered
        <4> QED
          BY <4>4, <1>3, <1>1, <2>1, <2>2, <2>5, ArcStaysBelow
      <3>2. CASE ~Candidate(P, A, r, y)
        BY <2>5, <3>2
      <3> QED
        BY <3>1, <3>2
    <2> HIDE DEF Off
    <2> QED
      BY <2>1, <2>2, <2>3, <2>4, <2>5
  <1>4. e # 0 => 0 \in S
    BY <1>1, TreeFacts
  <1>5. w \notin S
    <2> SUFFICES ASSUME w \in S PROVE FALSE
      OBVIOUS
    <2> QED
      BY <1>1, <1>2, AncestorOfSelf DEF Between
  <1>6. S \in SUBSET Nodes(P)
    OBVIOUS
  <1> HIDE DEF S
  <1>7. ForwardClosed(A, e, S)
    <2> SUFFICES ASSUME NEW a \in A, a[1] \in S, a[2] # e
                 PROVE  a[2] \in S
      BY <1>4 DEF ForwardClosed
    <2> QED
      BY <1>3, <1>1
  <1> QED
    BY <1>5, <1>6, <1>7 DEF Avoids

(* The other direction: the path that makes a smaller node a candidate     *)
(* leads around e.                                                         *)
LEMMA DominatedIsSheltered ==
    ASSUME NEW P, NEW A, DepthFirst(P, A), NEW e \in Nodes(P), NEW w \in Nodes(P),
           ~Avoids(P, A, e, w)
    PROVE  Ancestor(P, e, w) /\ Sheltered(P, A, e, w)
  <1>1. /\ Tree(P) /\ A \subseteq Nodes(P) \X Nodes(P)
        /\ \A x \in Nodes(P) : x \in Nat
    BY TreeFacts DEF DepthFirst
  <1>3. ASSUME NEW y \in Nodes(P), Between(P, e, y, w), NEW x \in Nodes(P),
               Candidate(P, A, x, y), x < e
        PROVE  FALSE
    <2>1. e < y /\ y \in Nat /\ e \in Nat
      BY <1>1, <1>3, AncestorIsLess DEF Between
    <2> DEFINE T == { m \in Nodes(P) : Avoids(P, A, e, m) => Avoids(P, A, e, y) }
    <2>4. BackClosed(A, y, T)
      <3> SUFFICES ASSUME NEW a \in A, a[2] = y \/ (a[2] > y /\ a[2] \in T),
                          Avoids(P, A, e, a[1])
                   PROVE  Avoids(P, A, e, y)
        BY <1>1 DEF BackClosed
      <3> QED
        BY <1>1, <2>1, AvoidingClosed
    <2>5. x \in T
      <3>1. T \in SUBSET Nodes(P)
        OBVIOUS
      <3> HIDE DEF T
      <3> QED
        BY <1>3, <2>4, <3>1 DEF Candidate
    <2> QED
      BY <1>3, <2>1, <1>1, AncestorIsLess, OutsidersAvoid, <2>5, DescendantsAvoid DEF
         Between
  <1>4. Sheltered(P, A, e, w)
    <2> SUFFICES ASSUME NEW y \in Nodes(P), Between(P, e, y, w), NEW x \in Nodes(P),
                        Candidate(P, A, x, y)
                 PROVE  e <= x
      BY DEF Sheltered
    <2> QED
      BY <1>1, <1>3
  <1> QED
    BY OutsidersAvoid, <1>4
-----------------------------------------------------------------------------
(* Node e dominates w: w is not reached without e.  Node i is the          *)
(* immediate dominator of w: its strict dominator with the largest number. *)
Dominator(P, A, e, w) == e \in Nodes(P) /\ w \in Nodes(P) /\ ~Avoids(P, A, e, w)

ImmediateDominator(P, A, i, w) ==
    /\ Dominator(P, A, i, w) /\ i # w
    /\ \A e \in Nodes(P) : Dominator(P, A, e, w) /\ e # w => e <= i

LEMMA DominatorOfSelf ==
    ASSUME NEW P, NEW A, DepthFirst(P, A), NEW e \in Nodes(P)
    PROVE  Dominator(P, A, e, e)
  <1> DEFINE C == Nodes(P) \ {e}
  <1>3. ForwardClosed(A, e, C)
    BY TreeFacts DEF ForwardClosed, DepthFirst
  <1> QED
    BY <1>3 DEF Dominator, Avoids

(* A dominator is an ancestor, and shelters what is between. *)
LEMMA DominatorIsAncestor ==
    ASSUME NEW P, NEW A, DepthFirst(P, A), NEW e, NEW w, Dominator(P, A, e, w)
    PROVE  Ancestor(P, e, w) /\ Sheltered(P, A, e, w)
  BY DominatedIsSheltered DEF Dominator

LEMMA DominatorByShelter ==
    ASSUME NEW P, NEW A, DepthFirst(P, A), NEW e, NEW w, Ancestor(P, e, w),
           Sheltered(P, A, e, w)
    PROVE  Dominator(P, A, e, w)
  <1>1. e \in Nodes(P) /\ w \in Nodes(P)
    BY DEF Ancestor
  <1>2. CASE e = w
    BY <1>1, <1>2, DominatorOfSelf
  <1>3. CASE e # w
    BY <1>1, <1>3, ShelteredIsDominated DEF Dominator
  <1> QED
    BY <1>2, <1>3

LEMMA DominatorTransitive ==
    ASSUME NEW P, NEW A, DepthFirst(P, A), NEW e, NEW i, NEW w,
           Dominator(P, A, e, i), Dominator(P, A, i, w)
    PROVE  Dominator(P, A, e, w)
  <1>1. Tree(P) /\ \A x \in Nodes(P) : x \in Nat
    BY TreeFacts DEF DepthFirst
  <1>2. /\ Ancestor(P, e, i) /\ Sheltered(P, A, e, i)
        /\ Ancestor(P, i, w) /\ Sheltered(P, A, i, w)
    BY DominatorIsAncestor
  <1>3. Ancestor(P, e, w) /\ e <= i /\ e \in Nat /\ i \in Nat
    BY <1>1, <1>2, AncestorTransitive, AncestorIsLess
  <1>4. ASSUME NEW y \in Nodes(P), Between(P, e, y, w), NEW x \in Nodes(P),
               Candidate(P, A, x, y)
        PROVE  e <= x
    <2>1. y \in Nat /\ x \in Nat /\ Ancestor(P, y, w)
      BY <1>1, <1>4 DEF Between
    <2>2. CASE y <= i
      BY <1>1, <1>2, <1>4, <2>1, <2>2, AncestorsComparable DEF Between, Sheltered
    <2>3. CASE ~(y <= i)
      BY ONLY <1>3, <2>1, <2>3, <1>1, <1>2, AncestorsComparable, <1>4 DEF Between, Sheltered
    <2> QED
      BY <2>2, <2>3
  <1> QED
    BY <1>3, <1>4, DominatorByShelter DEF Sheltered

(* The dominators of a node are a chain. *)
LEMMA DominatorsAreAChain ==
    ASSUME NEW P, NEW A, DepthFirst(P, A), NEW e, NEW i, NEW w,
           Dominator(P, A, e, w), Dominator(P, A, i, w), e <= i
    PROVE  Dominator(P, A, e, i)
  <1>2. /\ Ancestor(P, e, w) /\ Sheltered(P, A, e, w) /\ Ancestor(P, i, w)
    BY DominatorIsAncestor
  <1>4. ASSUME NEW y \in Nodes(P), Between(P, e, y, i)
        PROVE  Between(P, e, y, w)
    BY <1>2, <1>4, AncestorTransitive DEF Between
  <1> QED
    BY <1>2, AncestorsComparable, <1>4, DominatorByShelter DEF Sheltered, DepthFirst

(* The two cases of the algorithm, where t is the least semidominator      *)
(* between the semidominator s of w and w.  Either s itself is ...         *)
LEMMA SemidominatorDominates ==
    ASSUME NEW P, NEW A, DepthFirst(P, A), NEW w \in Nodes(P), w # 0, NEW s,
           Semidominator(P, A, s, w), Sheltered(P, A, s, w)
    PROVE  ImmediateDominator(P, A, s, w)
  <1>1. Ancestor(P, s, w) /\ s < w /\ s \in Nat /\ w \in Nat /\ s \in Nodes(P)
    BY SemidominatorIsAncestor
  <1>3. ASSUME NEW e \in Nodes(P), Dominator(P, A, e, w), e # w
        PROVE  e <= s
    BY <1>3, DominatorIsAncestor, AncestorOfSelf, <1>1 DEF Between, Sheltered,
       Semidominator
  <1> QED
    BY <1>1, DominatorByShelter, <1>3 DEF ImmediateDominator

(* ... or the node u whose semidominator is t has the same dominators.     *)
LEMMA DominatorsOfTheLeast ==
    ASSUME NEW P, NEW A, DepthFirst(P, A), NEW w \in Nodes(P), w # 0, NEW s,
           Semidominator(P, A, s, w),
           NEW u, Between(P, s, u, w), NEW t, Semidominator(P, A, t, u), t < s,
           \A y \in Nodes(P) : Between(P, s, y, w) =>
               \A x \in Nodes(P) : Candidate(P, A, x, y) => t <= x,
           NEW i, ImmediateDominator(P, A, i, u)
    PROVE  ImmediateDominator(P, A, i, w)
  <1>1. Tree(P) /\ \A x \in Nodes(P) : x \in Nat
    BY TreeFacts DEF DepthFirst
  <1>2. Ancestor(P, s, w) /\ s < w /\ s \in Nat /\ w \in Nat /\ s \in Nodes(P)
    BY SemidominatorIsAncestor
  <1>3. /\ Ancestor(P, s, u) /\ u # s /\ Ancestor(P, u, w)
        /\ u \in Nodes(P) /\ u \in Nat /\ s < u /\ u <= w
    BY <1>1, <1>2, AncestorIsLess DEF Between
  <1>4. t < u /\ t \in Nat /\ t \in Nodes(P) /\ Candidate(P, A, t, u)
    BY <1>2, <1>3, SemidominatorIsAncestor DEF Semidominator
  <1>5. ASSUME NEW e \in Nodes(P), Dominator(P, A, e, w), e # w
        PROVE  Dominator(P, A, e, u) /\ e # u
    <2>1. Ancestor(P, e, w) /\ Sheltered(P, A, e, w) /\ e \in Nat
      BY <1>1, <1>5, DominatorIsAncestor
    <2>4. e <= u /\ e # u
      BY <1>2, <1>3, <2>1, <1>5, AncestorOfSelf DEF Sheltered, Semidominator, Between
    <2>6. ASSUME NEW y \in Nodes(P), Between(P, e, y, u)
          PROVE  Between(P, e, y, w)
      BY <1>3, <2>6, AncestorTransitive DEF Between
    <2> QED
      BY <2>4, <1>1, <1>3, <2>1, AncestorsComparable, <2>6, DominatorByShelter DEF
         Sheltered
  <1>6. Dominator(P, A, i, u) /\ i # u /\ i \in Nodes(P) /\ i \in Nat
    BY <1>1 DEF ImmediateDominator, Dominator
  <1>7. Ancestor(P, i, u) /\ Sheltered(P, A, i, u)
    BY <1>6, DominatorIsAncestor
  <1>8. i <= t
    BY <1>3, <1>6, <1>7, AncestorOfSelf, <1>4 DEF Between, Sheltered
  <1>9. ASSUME NEW y \in Nodes(P), Between(P, i, y, w), NEW x \in Nodes(P),
               Candidate(P, A, x, y)
        PROVE  i <= x
    <2>1. y \in Nat /\ x \in Nat /\ Ancestor(P, y, w) /\ Ancestor(P, i, y) /\ y # i
      BY <1>1, <1>9 DEF Between
    <2>2. CASE y <= u
      BY <1>1, <1>3, <2>1, <2>2, AncestorsComparable, <1>7, <1>9 DEF Between, Sheltered
    <2>3. CASE ~(y <= u)
      <3>2. Between(P, s, y, w)
        BY <1>1, <1>2, <2>1, <1>3, <2>3, AncestorsComparable DEF Between
      <3> QED
        BY <1>4, <1>6, <1>8, <2>1, <1>9, <3>2
    <2> QED
      BY <2>2, <2>3
  <1>11. i # w
    BY <1>2, <1>3, <1>4, <1>6, <1>8
  <1>12. ASSUME NEW e \in Nodes(P), Dominator(P, A, e, w), e # w
         PROVE  e <= i
    BY <1>5, <1>12 DEF ImmediateDominator
  <1> QED
    BY <1>3, <1>7, AncestorTransitive, <1>9, DominatorByShelter, <1>11, <1>12 DEF
       ImmediateDominator, Sheltered
-----------------------------------------------------------------------------
(* The search.  The arcs of the graph between numbered vertices:           *)
Arcs == { a \in Nodes(parent) \X Nodes(parent) :
            VertexOf(a[2]) \in Targets(input.succ, VertexOf(a[1])) }

SearchTypes ==
    /\ input \in Inputs
    /\ Tree(parent) /\ parent # << >> /\ Len(preorder) = Len(parent)
    /\ preorder \in Seq(Vertices) /\ number \in [Vertices -> Int]
    /\ \A n \in Nodes(parent) : number[VertexOf(n)] = n
    /\ \A v \in Vertices : Numbered(v) => number[v] \in Nodes(parent) /\ VertexOf(number[v]) = v
    /\ VertexOf(0) = input.start

(* A vertex is numbered from its parent, with the descendants of the       *)
(* parent only in between.                                                 *)
TreeFromArcs ==
    \A n \in Nodes(parent) : n # 0 =>
        /\ VertexOf(n) \in Targets(input.succ, VertexOf(Parent(n)))
        /\ \A m \in Parent(n) .. n : Ancestor(parent, Parent(n), m)

(* The numbers N and the parents P after the search has taken an arc from  *)
(* v to w.                                                                 *)
Seen(N, P, v, w) == N[w] # None /\ (N[v] <= N[w] => Ancestor(P, N[v], N[w]))

Explored ==
    \A v \in Vertices : Numbered(v) =>
        \A i \in DOMAIN input.succ[v] : Seen(number, parent, v, input.succ[v][i])

(* The stack is a path of the tree; everything numbered after a vertex     *)
(* that is on it is a descendant of that vertex; a vertex that has left it *)
(* has no arc the search has not taken.                                    *)
EntryKept(N, P, arcs, v, next) ==
    /\ N[v] # None
    /\ \A i \in DOMAIN arcs : i < next => Seen(N, P, v, arcs[i])
    /\ \A m \in Nodes(P) : N[v] <= m => Ancestor(P, N[v], m)

OnStack(S, v) == \E k \in DOMAIN S : S[k].vertex = v

StackKept ==
    /\ stack \in Seq([vertex : Vertices, next : Nat \ {0}])
    /\ \A k \in DOMAIN stack :
           EntryKept(number, parent, input.succ[stack[k].vertex], stack[k].vertex, stack[k].next)
    /\ \A j, k \in DOMAIN stack :
           j <= k => Ancestor(parent, number[stack[j].vertex], number[stack[k].vertex])
    /\ \A v \in Vertices : Numbered(v) /\ ~OnStack(stack, v) =>
           \A i \in DOMAIN input.succ[v] : Seen(number, parent, v, input.succ[v][i])

SearchInv ==
    /\ SearchTypes
    /\ TreeFromArcs
    /\ phase = "searching" => StackKept
    /\ phase # "searching" => Explored
-----------------------------------------------------------------------------
(* The vertices are numbers, and the targets of their arcs are vertices. *)
LEMMA GraphTypes ==
    ASSUME input \in Inputs
    PROVE  /\ IsFiniteSet(Vertices) /\ Vertices \subseteq Int
           /\ DOMAIN input.succ = Vertices
           /\ \A v \in Vertices : input.succ[v] \in Seq(Vertices)
           /\ input.start \in Vertices
  <1> DEFINE n == Cardinality(Blocks(input.succ))
  <1>1. input.succ \in [0 .. n - 1 -> Seq(0 .. n - 1)] /\ input.start \in 0 .. n - 1
        /\ n \in Nat
    BY InputsAssumption, FS_CardinalityType
  <1> HIDE DEF n
  <1>2. Vertices = 0 .. n - 1
    BY <1>1 DEF Vertices, Blocks
  <1>3. n - 1 \in Int
    BY <1>1
  <1>4. IsFiniteSet(0 .. n - 1)
    BY <1>3, FS_Interval
  <1> QED
    BY <1>1, <1>2, <1>4 DEF Vertices, Blocks

(* The search starts with the start on the stack. *)
LEMMA SearchStarts ==
    ASSUME Init
    PROVE  SearchInv
  <1> USE DEF Init
  <1>1. input \in Inputs /\ input.start \in Vertices /\ Vertices \subseteq Int
    BY GraphTypes
  <1>2. Tree(parent) /\ parent # << >> /\ Len(parent) = 1 /\ Nodes(parent) = {0}
    <2>1. parent = <<-1>>
      BY DEF None
    <2>2. parent \in Seq(Int) /\ Len(parent) = 1
      BY <2>1
    <2> QED
      BY <2>2 DEF Tree, Nodes
  <1>3. /\ Len(preorder) = 1 /\ preorder \in Seq(Vertices) /\ preorder[1] = input.start
        /\ VertexOf(0) = input.start
    BY <1>1 DEF VertexOf
  <1>4. number \in [Vertices -> Int] /\ number[input.start] = 0
    BY <1>1 DEF None
  <1>5. \A v \in Vertices : Numbered(v) => v = input.start
    BY DEF Numbered
  <1>6. SearchTypes
    BY <1>1, <1>2, <1>3, <1>4, <1>5 DEF SearchTypes
  <1>7. TreeFromArcs
    BY <1>2 DEF TreeFromArcs
  <1>8. StackKept
    <2> DEFINE entry == [vertex |-> input.start, next |-> 1]
    <2>1. entry \in [vertex : Vertices, next : Nat \ {0}] /\ stack = <<entry>>
      BY <1>1
    <2>2. entry.vertex = input.start /\ entry.next = 1
      OBVIOUS
    <2> HIDE DEF entry
    <2>3. /\ stack \in Seq([vertex : Vertices, next : Nat \ {0}])
          /\ DOMAIN stack = {1} /\ stack[1] = entry
      BY <2>1
    <2>4. Ancestor(parent, 0, 0)
      BY <1>2, AncestorOfSelf
    <2>5. EntryKept(number, parent, input.succ[input.start], input.start, 1)
      <3>1. number[input.start] # None
        BY <1>4 DEF None
      <3>2. input.succ[input.start] \in Seq(Vertices)
        BY <1>1, GraphTypes
      <3>3. \A i \in DOMAIN input.succ[input.start] : ~(i < 1)
        BY <3>2
      <3> QED
        BY <1>2, <1>4, <2>4, <3>1, <3>3 DEF EntryKept
    <2>6. \A v \in Vertices : Numbered(v) => OnStack(stack, v)
      BY <1>5, <2>2, <2>3 DEF OnStack
    <2> QED
      BY <1>4, <2>2, <2>3, <2>4, <2>5, <2>6 DEF StackKept
  <1> QED
    BY <1>6, <1>7, <1>8 DEF SearchInv

(* The entry on top of the stack. *)
LEMMA TopFacts ==
    ASSUME SearchInv, phase = "searching", stack # << >>
    PROVE  /\ Len(stack) \in Nat \ {0} /\ Top = stack[Len(stack)]
           /\ Len(stack) \in DOMAIN stack /\ DOMAIN stack = 1 .. Len(stack)
           /\ Top \in [vertex : Vertices, next : Nat \ {0}]
           /\ EntryKept(number, parent, input.succ[Top.vertex], Top.vertex, Top.next)
           /\ Top.vertex \in Vertices /\ number[Top.vertex] \in Nodes(parent)
           /\ input.succ[Top.vertex] \in Seq(Vertices)
  <1>1. StackKept /\ SearchTypes
    BY DEF SearchInv
  <1>2. stack \in Seq([vertex : Vertices, next : Nat \ {0}])
    BY <1>1 DEF StackKept
  <1>3. /\ Len(stack) \in Nat \ {0} /\ Top = stack[Len(stack)]
        /\ Len(stack) \in DOMAIN stack /\ DOMAIN stack = 1 .. Len(stack)
    BY <1>2 DEF Top, Last
  <1>4. Top \in [vertex : Vertices, next : Nat \ {0}] /\ Top.vertex \in Vertices
    <2> DEFINE R == [vertex : Vertices, next : Nat \ {0}]
    <2>1. stack \in Seq(R)
      BY <1>2
    <2> HIDE DEF R
    <2>2. stack[Len(stack)] \in R
      BY <1>3, <2>1
    <2> QED
      BY <1>3, <2>2 DEF R
  <1> QED
    BY <1>3, <1>4, <1>1, GraphTypes DEF SearchTypes, EntryKept, Numbered, StackKept

LEMMA MemberOfSequence ==
    ASSUME NEW S, NEW s \in Seq(S), NEW k \in 1 .. Len(s)
    PROVE  s[k] \in S
  OBVIOUS

LEMMA FrontFacts ==
    ASSUME NEW S, NEW s \in Seq(S), Len(s) \in Nat \ {0}
    PROVE  /\ Front(s) \in Seq(S) /\ Len(Front(s)) = Len(s) - 1
           /\ \A k \in 1 .. Len(s) - 1 : Front(s)[k] = s[k]
  <1> DEFINE m == Len(s) - 1
             q == SubSeq(s, 1, m)
  <1>2. m \in Nat /\ m \in Int /\ \A i \in 1 .. m : s[i] \in S
    OBVIOUS
  <1> HIDE DEF m
  <1>4. /\ q \in Seq(S)
        /\ Len(q) = (IF 1 <= m THEN m - 1 + 1 ELSE 0)
        /\ \A i \in 1 .. m - 1 + 1 : q[i] = s[1 + i - 1]
    BY <1>2, SubSeqProperties
  <1> HIDE DEF q
  <1>5. Len(q) = m
    BY <1>2, <1>4
  <1>6. ASSUME NEW k \in 1 .. m
        PROVE  q[k] = s[k]
    BY <1>2, <1>4
  <1> QED
    BY <1>4, <1>5, <1>6 DEF m, Front

(* The stack when the arc of its top vertex has been taken. *)
Advanced == [stack EXCEPT ![Len(stack)].next = @ + 1]

LEMMA AdvancedFacts ==
    ASSUME SearchInv, phase = "searching", stack # << >>
    PROVE  /\ Advanced \in Seq([vertex : Vertices, next : Nat \ {0}])
           /\ Len(Advanced) = Len(stack) /\ DOMAIN Advanced = 1 .. Len(stack)
           /\ \A k \in 1 .. Len(stack) : Advanced[k].vertex = stack[k].vertex
           /\ \A k \in 1 .. Len(stack) : k # Len(stack) => Advanced[k] = stack[k]
           /\ Advanced[Len(stack)].next = Top.next + 1
           /\ Advanced[Len(stack)].vertex = Top.vertex
  <1> DEFINE R == [vertex : Vertices, next : Nat \ {0}]
             top == stack[Len(stack)]
             advanced == [top EXCEPT !.next = @ + 1]
  <1>1. stack \in Seq(R) /\ Len(stack) \in Nat \ {0} /\ top \in R /\ Top = top
    BY TopFacts DEF SearchInv, StackKept
  <1>2. advanced \in R /\ advanced.next = top.next + 1 /\ advanced.vertex = top.vertex
    BY <1>1
  <1>3. Advanced = [stack EXCEPT ![Len(stack)] = advanced]
    BY DEF Advanced
  <1> HIDE DEF R, advanced, top
  <1> QED
    BY <1>1, <1>2, <1>3 DEF R, top
-----------------------------------------------------------------------------
(* An arc to a vertex that has its number: if the number is larger than    *)
(* that of the source, which is on the stack, it is a descendant.          *)
LEMMA ArcToNumbered ==
    ASSUME SearchInv, phase = "searching", stack # << >>,
           Top.next \in DOMAIN input.succ[Top.vertex],
           Numbered(input.succ[Top.vertex][Top.next]),
           stack' = Advanced, UNCHANGED <<input, phase, search>>
    PROVE  SearchInv'
  <1> DEFINE v == Top.vertex
             Kept(k, S) == EntryKept(number, parent, input.succ[S[k].vertex], S[k].vertex, S[k].next)
  <1>1. SearchTypes /\ TreeFromArcs /\ StackKept
    BY DEF SearchInv
  <1>2. /\ number' = number /\ preorder' = preorder /\ parent' = parent
        /\ input' = input /\ phase' = phase /\ Vertices' = Vertices
    BY DEF search, Vertices
  <1>3. v \in Vertices /\ number[v] \in Nodes(parent)
        /\ EntryKept(number, parent, input.succ[v], v, Top.next)
        /\ input.succ[v] \in Seq(Vertices) /\ Top.next \in Nat
    BY TopFacts
  <1>4. Seen(number, parent, v, input.succ[v][Top.next])
    <2> DEFINE w == input.succ[v][Top.next]
    <2> QED
      BY <1>3, <1>1 DEF Seen, EntryKept, Numbered, SearchTypes
  <1>5. ASSUME NEW k \in 1 .. Len(stack)
        PROVE  Kept(k, Advanced)
    <2>1. CASE k # Len(stack)
      BY <1>1, <1>5, TopFacts, <2>1, AdvancedFacts DEF StackKept
    <2>2. CASE k = Len(stack)
      <3>2. \A i \in DOMAIN input.succ[v] :
                i < Top.next + 1 => Seen(number, parent, v, input.succ[v][i])
        BY ONLY <1>3, <1>4, SMTT(30) DEF EntryKept
      <3> QED
        BY <1>3, <2>2, AdvancedFacts, <3>2 DEF EntryKept
    <2> QED
      BY <2>1, <2>2
  <1>6. /\ DOMAIN stack = 1 .. Len(stack) /\ DOMAIN Advanced = 1 .. Len(stack)
        /\ \A k \in 1 .. Len(stack) : Advanced[k].vertex = stack[k].vertex
        /\ Advanced \in Seq([vertex : Vertices, next : Nat \ {0}])
    BY AdvancedFacts, TopFacts
  <1>7. \A w : OnStack(Advanced, w) <=> OnStack(stack, w)
    BY <1>6 DEF OnStack
  <1>8. StackKept'
    <2>2. \A j, k \in DOMAIN Advanced : j <= k =>
              Ancestor(parent, number[Advanced[j].vertex], number[Advanced[k].vertex])
      <3> SUFFICES ASSUME NEW j \in 1 .. Len(stack), NEW k \in 1 .. Len(stack), j <= k
                   PROVE  Ancestor(parent, number[Advanced[j].vertex],
                                   number[Advanced[k].vertex])
        BY <1>6
      <3> QED
        BY <1>6, <1>1 DEF StackKept
    <2> QED
      BY <1>2, <1>6, <1>5, <2>2, <1>1, <1>7 DEF StackKept, Numbered
  <1> QED
    BY <1>2, <1>8, <1>1 DEF SearchInv, SearchTypes, TreeFromArcs, Numbered, VertexOf,
       Parent

(* The vertex the search goes to next gets the number of those before.     *)
LEMMA NumberingFacts ==
    ASSUME SearchInv, NEW v \in Vertices, Numbered(v), NEW t \in Vertices, ~Numbered(t),
           t \in Targets(input.succ, v),
           UNCHANGED input,
           number' = [number EXCEPT ![t] = Len(preorder)],
           preorder' = Append(preorder, t),
           parent' = Append(parent, number[v]),
           \A m \in Nodes(parent) : number[v] <= m => Ancestor(parent, number[v], m)
    PROVE  /\ SearchTypes' /\ TreeFromArcs' /\ Vertices' = Vertices
           /\ Nodes(parent') = Nodes(parent) \cup {Len(parent)} /\ Len(parent) \notin Nodes(parent)
           /\ Len(parent) \in Nat
           /\ \A n \in Nodes(parent) : \A m : Ancestor(parent', m, n) <=> Ancestor(parent, m, n)
           /\ Ancestor(parent', number[v], Len(parent))
           /\ number'[t] = Len(parent)
           /\ \A w \in Vertices : w # t => number'[w] = number[w]
           /\ \A w \in Vertices : Numbered(w)' <=> Numbered(w) \/ w = t
  <1> PICK n0 : n0 = Len(parent)
    OBVIOUS
  <1> PICK p : p = number[v]
    OBVIOUS
  <1>1. SearchTypes /\ TreeFromArcs
    BY DEF SearchInv
  <1>2. /\ Tree(parent) /\ n0 \in Nat /\ n0 # 0 /\ Len(preorder) = n0
        /\ parent \in Seq(Int) /\ preorder \in Seq(Vertices)
    BY <1>1 DEF SearchTypes, Tree
  <1>3. p \in Nodes(parent) /\ p \in Nat /\ p < n0
    BY <1>1, <1>2 DEF SearchTypes, Nodes
  <1>4. /\ Len(parent') = n0 + 1 /\ parent' \in Seq(Int) /\ parent'[n0 + 1] = p
        /\ \A k \in 1 .. n0 : parent'[k] = parent[k]
    BY <1>2, <1>3
  <1>5. /\ Len(preorder') = n0 + 1 /\ preorder' \in Seq(Vertices) /\ preorder'[n0 + 1] = t
        /\ \A k \in 1 .. n0 : preorder'[k] = preorder[k]
    BY <1>2
  <1>6. Nodes(parent') = Nodes(parent) \cup {n0} /\ n0 \notin Nodes(parent)
        /\ \A n \in Nodes(parent) : n \in Nat /\ n < n0 /\ n + 1 \in 1 .. n0
    BY <1>2, <1>4 DEF Nodes
  <1>7. Tree(parent')
    <2> SUFFICES ASSUME NEW n \in 1 .. Len(parent') - 1 PROVE parent'[n + 1] \in 0 .. n - 1
      BY <1>4 DEF Tree
    <2>1. CASE n = n0
      BY <1>3, <1>4, <2>1
    <2>2. CASE n # n0
      BY <1>2, <1>4, <2>2 DEF Tree
    <2> QED
      BY <2>1, <2>2
  <1>8. \A n \in Nodes(parent) : \A m : Ancestor(parent', m, n) <=> Ancestor(parent, m, n)
    BY <1>2, <1>3, AncestorExtends
  <1>9. Ancestor(parent', p, n0)
    BY <1>2, <1>4, <1>6, <1>7, ParentIsAncestor
  <1>10. number'[t] = n0 /\ \A w \in Vertices : w # t => number'[w] = number[w]
    BY <1>1, <1>2 DEF SearchTypes
  <1>11. \A w \in Vertices : Numbered(w)' <=> Numbered(w) \/ w = t
    BY <1>2, <1>10 DEF Numbered, None
  <1>12. Vertices' = Vertices
    BY DEF Vertices
  <1>13. ASSUME NEW n \in Nodes(parent)
         PROVE  /\ preorder'[n + 1] = VertexOf(n) /\ parent'[n + 1] = Parent(n)
                /\ VertexOf(n) \in Vertices /\ VertexOf(n) # t
    <2>2. n + 1 \in DOMAIN parent /\ number[VertexOf(n)] = n /\ n # None
      BY <1>1, <1>2, <1>6 DEF SearchTypes, None
    <2> QED
      BY <1>4, <1>5, <1>2, <1>6, <2>2 DEF VertexOf, Parent, Numbered
  <1>15. SearchTypes'
    <2>1. number' \in [Vertices -> Int]
      BY <1>1, <1>2 DEF SearchTypes
    <2>2. \A n \in Nodes(parent') : number'[preorder'[n + 1]] = n
      <3> SUFFICES ASSUME NEW n \in Nodes(parent') PROVE number'[preorder'[n + 1]] = n
        OBVIOUS
      <3>1. CASE n = n0
        BY <1>5, <1>10, <3>1
      <3>2. CASE n # n0
        BY ONLY <1>1, <1>6, <1>10, <1>13, <3>2 DEF SearchTypes
      <3> QED
        BY <3>1, <3>2
    <2>3. \A w \in Vertices : Numbered(w)' =>
              number'[w] \in Nodes(parent') /\ preorder'[number'[w] + 1] = w
      <3> SUFFICES ASSUME NEW w \in Vertices, Numbered(w)'
                   PROVE  number'[w] \in Nodes(parent') /\ preorder'[number'[w] + 1] = w
        OBVIOUS
      <3>1. CASE w = t
        BY <1>10, <3>1, <1>5, <1>6
      <3>2. CASE w # t
        BY <1>10, <1>11, <3>2, <1>1, <1>6, <1>13 DEF SearchTypes
      <3> QED
        BY <3>1, <3>2
    <2>4. 0 \in Nodes(parent) /\ preorder'[0 + 1] = input.start
      BY <1>2, <1>1, <1>13, SMTT(30) DEF Nodes, SearchTypes
    <2>5. input' \in Inputs /\ parent' # << >> /\ Len(preorder') = Len(parent')
          /\ input'.start = input.start
      BY <1>1, <1>2, <1>4, <1>5 DEF SearchTypes
    <2> QED
      BY <1>5, <1>7, <1>12, <2>1, <2>2, <2>3, <2>4, <2>5 DEF SearchTypes, VertexOf
  <1>16. TreeFromArcs'
    <2> SUFFICES ASSUME NEW n \in Nodes(parent'), n # 0
                 PROVE  /\ preorder'[n + 1]
                             \in Targets(input.succ, preorder'[parent'[n + 1] + 1])
                        /\ \A m \in parent'[n + 1] .. n : Ancestor(parent', parent'[n + 1], m)
      BY DEF TreeFromArcs, VertexOf, Parent
    <2>1. CASE n = n0
      <3>3. ASSUME NEW m \in p .. n0
            PROVE  Ancestor(parent', p, m)
        <4>1. CASE m = n0
          BY <1>9, <4>1
        <4>2. CASE m # n0
          BY <1>2, <1>3, <4>2, <1>8 DEF Nodes
        <4> QED
          BY <4>1, <4>2
      <3> QED
        BY <1>4, <1>5, <2>1, <1>3, <1>13, <1>1, <3>3, SMTT(30) DEF SearchTypes
    <2>2. CASE n # n0
      <3>1. n \in Nodes(parent)
        BY <1>6, <2>2
      <3>2. Parent(n) \in Nodes(parent) /\ Parent(n) \in Nat
        BY <1>2, <3>1, TreeFacts DEF Parent
      <3>4. ASSUME NEW m \in Parent(n) .. n
            PROVE  Ancestor(parent', Parent(n), m)
        <4>1. m \in Nodes(parent)
          BY <1>2, <1>6, <3>1, <3>2 DEF Nodes
        <4> QED
          BY <1>1, <1>8, <3>1, <4>1 DEF TreeFromArcs
      <3> QED
        BY <1>1, <3>1, <1>13, <3>2, <3>4 DEF TreeFromArcs
    <2> QED
      BY <2>1, <2>2
  <1> QED
    BY <1>2, <1>6, <1>8, <1>9, <1>10, <1>11, <1>12, <1>15, <1>16

(* An arc to a vertex without a number: the vertex goes on the stack. *)
LEMMA ArcToNew ==
    ASSUME SearchInv, phase = "searching", stack # << >>,
           Top.next \in DOMAIN input.succ[Top.vertex],
           NEW t, t = input.succ[Top.vertex][Top.next], ~Numbered(t),
           stack' = Append(Advanced, [vertex |-> t, next |-> 1]),
           number' = [number EXCEPT ![t] = Len(preorder)],
           preorder' = Append(preorder, t),
           parent' = Append(parent, number[Top.vertex]),
           UNCHANGED <<input, phase>>
    PROVE  SearchInv'
  <1> PICK v : v = Top.vertex
    OBVIOUS
  <1> PICK n0 : n0 = Len(parent)
    OBVIOUS
  <1> PICK len : len = Len(stack)
    OBVIOUS
  <1>1. SearchTypes /\ TreeFromArcs /\ StackKept
    BY DEF SearchInv
  <1>2. /\ v \in Vertices /\ number[v] \in Nodes(parent)
        /\ EntryKept(number, parent, input.succ[v], v, Top.next)
        /\ input.succ[v] \in Seq(Vertices) /\ Top.next \in Nat
        /\ t = input.succ[v][Top.next] /\ t \in Vertices /\ t \in Targets(input.succ, v)
        /\ len \in Nat \ {0} /\ DOMAIN stack = 1 .. len /\ stack[len].vertex = v
    BY TopFacts DEF Targets
  <1>3. /\ SearchTypes' /\ TreeFromArcs' /\ Vertices' = Vertices
        /\ Nodes(parent') = Nodes(parent) \cup {n0} /\ n0 \notin Nodes(parent) /\ n0 \in Nat
        /\ \A n \in Nodes(parent) : \A m : Ancestor(parent', m, n) <=> Ancestor(parent, m, n)
        /\ Ancestor(parent', number[v], n0)
        /\ number'[t] = n0
        /\ \A w \in Vertices : w # t => number'[w] = number[w]
        /\ \A w \in Vertices : Numbered(w)' <=> Numbered(w) \/ w = t
    BY <1>2, NumberingFacts DEF EntryKept, Numbered
  <1>4. \A w \in Vertices : Numbered(w) => number[w] \in Nodes(parent) /\ w # t
    BY <1>1 DEF SearchTypes
  <1>5. ASSUME NEW a \in Vertices, NEW b \in Vertices, Numbered(a), Seen(number, parent, a, b)
        PROVE  Seen(number', parent', a, b)
    BY ONLY <1>5, <1>3, <1>4 DEF Seen, Numbered
  <1>6. Seen(number', parent', v, t)
    BY <1>2, <1>3, <1>4 DEF EntryKept, Numbered, None, Seen
  <1> PICK new : new = [vertex |-> t, next |-> 1]
    OBVIOUS
  <1> PICK entries : entries = [vertex : Vertices, next : Nat \ {0}]
    OBVIOUS
  <1>7. new \in entries /\ new.vertex = t /\ new.next = 1
    BY <1>2
  <1>8. /\ Advanced \in Seq(entries) /\ Len(Advanced) = len
        /\ \A k \in 1 .. len : Advanced[k].vertex = stack[k].vertex
        /\ \A k \in 1 .. len : k # len => Advanced[k] = stack[k]
        /\ Advanced[len].next = Top.next + 1 /\ Advanced[len].vertex = v
    BY AdvancedFacts
  <1>9. /\ stack' \in Seq(entries) /\ DOMAIN stack' = 1 .. len + 1
        /\ stack'[len + 1] = new
        /\ \A k \in 1 .. len : stack'[k] = Advanced[k]
    <2> PICK A : A = Advanced
      OBVIOUS
    <2>1. A \in Seq(entries) /\ Len(A) = len /\ stack' = Append(A, new) /\ A = Advanced
      BY <1>8
    <2> QED
      BY ONLY <2>1, <1>2, <1>7
  <1>10. \A k \in 1 .. len : stack[k].vertex \in Vertices
    <2>1. \A k \in 1 .. len : Advanced[k] \in entries
      BY ONLY <1>8, MemberOfSequence
    <2> QED
      BY <1>8, <2>1
  <1>11. \A j, k \in 1 .. len : j <= k =>
             Ancestor(parent, number[stack[j].vertex], number[stack[k].vertex])
    BY <1>1, <1>2 DEF StackKept
  <1>12. ASSUME NEW k \in 1 .. len
         PROVE  /\ EntryKept(number, parent, input.succ[stack[k].vertex], stack[k].vertex,
                             stack[k].next)
                /\ Numbered(stack[k].vertex)
                /\ number'[stack[k].vertex] = number[stack[k].vertex]
                /\ Ancestor(parent', number[stack[k].vertex], n0)
                /\ stack[k].vertex \in Vertices
    <2>7. Ancestor(parent', number[stack[k].vertex], n0)
      BY ONLY <1>3, <1>2, <1>11, AncestorTransitive
    <2> QED
      BY ONLY <1>10, <1>1, <1>2, <1>3, <1>4, <2>7 DEF EntryKept, Numbered, StackKept
  <1>13. ASSUME NEW k \in 1 .. len
         PROVE  EntryKept(number', parent', input.succ[stack[k].vertex], stack[k].vertex,
                          Advanced[k].next)
    <2> PICK u : u = stack[k].vertex
      OBVIOUS
    <2>1. /\ u \in Vertices /\ Numbered(u) /\ number'[u] = number[u]
          /\ EntryKept(number, parent, input.succ[u], u, stack[k].next)
          /\ input.succ[u] \in Seq(Vertices)
      BY <1>1, <1>12, GraphTypes DEF SearchTypes
    <2>3. ASSUME NEW m \in Nodes(parent'), number'[u] <= m
          PROVE  Ancestor(parent', number'[u], m)
      BY ONLY <1>12, <2>1, <1>3, <2>3, u = stack[k].vertex, k \in 1 .. len DEF EntryKept
    <2>4. ASSUME NEW i \in DOMAIN input.succ[u], i < Advanced[k].next
          PROVE  Seen(number', parent', u, input.succ[u][i])
      <3>1. CASE i < stack[k].next
        <4>2. input.succ[u][i] \in Vertices
          BY ONLY <2>1, <2>4
        <4> QED
          BY <1>5, <2>1, <3>1, <4>2 DEF EntryKept
      <3>2. CASE ~(i < stack[k].next)
        <4>1. k = len
          BY <1>8, <2>4, <3>2
        <4>2. u = v /\ stack[k].next = Top.next /\ i \in Int
          BY <1>2, <2>1, <2>4, <4>1, TopFacts
        <4>3. i = Top.next
          BY ONLY <1>2, <1>8, <2>4, <3>2, <4>1, <4>2
        <4> QED
          BY <1>2, <1>6, <4>2, <4>3
      <3> QED
        BY ONLY <3>1, <3>2
    <2> QED
      BY <2>1, <2>3, <2>4 DEF EntryKept, Numbered
  <1>14. EntryKept(number', parent', input.succ[t], t, 1)
    <2>1. input.succ[t] \in Seq(Vertices)
      BY <1>1, <1>2, GraphTypes DEF SearchTypes
    <2>2. \A i \in DOMAIN input.succ[t] : ~(i < 1)
      BY <2>1
    <2>3. n0 # None
      BY <1>3 DEF None
    <2>4. \A m \in Nodes(parent') : n0 <= m => m = n0
      BY <1>3 DEF Nodes
    <2>5. Ancestor(parent', n0, n0)
      BY ONLY <1>3, AncestorOfSelf
    <2> QED
      BY ONLY <1>3, <2>2, <2>3, <2>4, <2>5 DEF EntryKept
  <1>15. \A k \in 1 .. len + 1 :
             EntryKept(number', parent', input.succ[stack'[k].vertex], stack'[k].vertex,
                       stack'[k].next)
    <2> SUFFICES ASSUME NEW k \in 1 .. len + 1
                 PROVE  EntryKept(number', parent', input.succ[stack'[k].vertex],
                                  stack'[k].vertex, stack'[k].next)
      OBVIOUS
    <2>1. CASE k = len + 1
      BY ONLY <1>7, <1>9, <1>14, <2>1
    <2>2. CASE k # len + 1
      <3>1. k \in 1 .. len
        BY <1>2, <2>2
      <3> QED
        BY <1>13, <3>1, <1>8, <1>9
    <2> QED
      BY <2>1, <2>2
  <1>16. \A j, k \in 1 .. len + 1 : j <= k =>
             Ancestor(parent', number'[stack'[j].vertex], number'[stack'[k].vertex])
    <2> SUFFICES ASSUME NEW j \in 1 .. len + 1, NEW k \in 1 .. len + 1, j <= k
                 PROVE  Ancestor(parent', number'[stack'[j].vertex],
                                 number'[stack'[k].vertex])
      OBVIOUS
    <2>1. CASE k # len + 1
      <3>1. k \in 1 .. len /\ j \in 1 .. len
        BY <1>2, <2>1
      <3>2. stack'[k].vertex = stack[k].vertex /\ stack'[j].vertex = stack[j].vertex
        BY ONLY <1>8, <1>9, <3>1
      <3> QED
        BY <1>3, <3>2, <1>4, <1>12, <3>1, <1>11, ZenonT(60)
    <2>2. CASE k = len + 1 /\ j # len + 1
      <3>1. j \in 1 .. len
        BY <1>2, <2>2
      <3>2. stack'[j].vertex = stack[j].vertex /\ stack'[k].vertex = t
        BY ONLY <1>7, <1>8, <1>9, <2>2, <3>1
      <3>3. number'[stack'[j].vertex] = number[stack[j].vertex] /\ number'[stack'[k].vertex] = n0
        BY <1>3, <1>12, <3>1, <3>2
      <3> QED
        BY <3>3, <1>12, <3>1
    <2>3. CASE k = len + 1 /\ j = len + 1
      <3>1. stack'[k].vertex = t
        BY ONLY <1>7, <1>9, <2>3
      <3> QED
        BY <1>3, <2>3, <3>1, AncestorOfSelf
    <2> QED
      BY <2>1, <2>2, <2>3
  <1>17. ASSUME NEW w \in Vertices, Numbered(w)', ~OnStack(stack', w),
                NEW i \in DOMAIN input.succ[w]
         PROVE  Seen(number', parent', w, input.succ[w][i])
    <2>1. w # t
      <3>1. len + 1 \in DOMAIN stack' /\ stack'[len + 1].vertex = t
        BY <1>2, <1>7, <1>9
      <3> QED
        BY <1>17, <3>1 DEF OnStack
    <2>2. ~OnStack(stack, w)
      <3> SUFFICES ASSUME NEW k \in 1 .. len, stack[k].vertex = w PROVE FALSE
        BY <1>2 DEF OnStack
      <3>1. k \in DOMAIN stack' /\ stack'[k].vertex = w
        BY <1>2, <1>8, <1>9, SMTT(30)
      <3> QED
        BY <1>17, <3>1 DEF OnStack
    <2>5. input.succ[w][i] \in Vertices
      <3>1. input.succ[w] \in Seq(Vertices)
        BY <1>1, GraphTypes DEF SearchTypes
      <3> QED
        BY <3>1
    <2> QED
      BY <1>5, <1>3, <1>17, <2>1, <1>1, <2>2, <2>5 DEF StackKept
  <1> QED
    BY <1>3, <1>9, <1>15, <1>16, <1>17, ZenonT(60) DEF SearchInv, StackKept

(* A vertex whose arcs have all been taken leaves the stack. *)
LEMMA VertexLeaves ==
    ASSUME SearchInv, phase = "searching", SearchDone
    PROVE  SearchInv'
  <1> PICK len : len = Len(stack)
    OBVIOUS
  <1> PICK entries : entries = [vertex : Vertices, next : Nat \ {0}]
    OBVIOUS
  <1>1. SearchTypes /\ TreeFromArcs /\ StackKept
    BY DEF SearchInv
  <1>2. /\ number' = number /\ preorder' = preorder /\ parent' = parent
        /\ input' = input /\ phase' = phase /\ Vertices' = Vertices
        /\ stack # << >> /\ Top.next > Len(input.succ[Top.vertex]) /\ stack' = Front(stack)
    BY DEF SearchDone, search, Vertices
  <1>3. /\ len \in Nat \ {0} /\ DOMAIN stack = 1 .. len /\ stack \in Seq(entries)
        /\ Top = stack[len] /\ Top.next \in Nat
        /\ EntryKept(number, parent, input.succ[Top.vertex], Top.vertex, Top.next)
        /\ input.succ[Top.vertex] \in Seq(Vertices)
    BY <1>1, <1>2, TopFacts DEF StackKept
  <1>4. /\ stack' \in Seq(entries) /\ DOMAIN stack' = 1 .. len - 1
        /\ \A k \in 1 .. len - 1 : stack'[k] = stack[k] /\ k \in 1 .. len
    <2>1. Front(stack) \in Seq(entries) /\ Len(Front(stack)) = len - 1
          /\ \A k \in 1 .. len - 1 : Front(stack)[k] = stack[k]
      BY <1>3, FrontFacts
    <2>2. \A k \in 1 .. len - 1 : k \in 1 .. len
      BY <1>3
    <2> QED
      BY <1>2, <1>3, <2>1, <2>2
  <1>6. \A j, k \in DOMAIN stack' : j <= k =>
            Ancestor(parent, number[stack'[j].vertex], number[stack'[k].vertex])
    <2> SUFFICES ASSUME NEW j \in 1 .. len - 1, NEW k \in 1 .. len - 1, j <= k
                 PROVE  Ancestor(parent, number[stack'[j].vertex], number[stack'[k].vertex])
      BY <1>4
    <2> QED
      BY <1>4, <1>1, <1>3 DEF StackKept
  <1>7. ASSUME NEW w \in Vertices, Numbered(w), ~OnStack(stack', w),
               NEW i \in DOMAIN input.succ[w]
        PROVE  Seen(number, parent, w, input.succ[w][i])
    <2>1. CASE OnStack(stack, w)
      <3>1. PICK k \in 1 .. len : stack[k].vertex = w
        BY <1>3, <2>1 DEF OnStack
      <3>2. k = len
        <4> SUFFICES ASSUME k # len PROVE FALSE
          OBVIOUS
        <4>1. k \in 1 .. len - 1
          BY <1>3, <3>1
        <4> QED
          BY <1>7, <1>4, <3>1, <4>1 DEF OnStack
      <3> QED
        BY <1>3, <1>7, <3>1, <3>2, <1>2, SMTT(30) DEF EntryKept
    <2>2. CASE ~OnStack(stack, w)
      BY <1>1, <1>7, <2>2 DEF StackKept
    <2> QED
      BY <2>1, <2>2
  <1>8. StackKept'
    BY <1>2, <1>4, <1>1, <1>3, <1>6, <1>7 DEF StackKept, Numbered
  <1> QED
    BY <1>2, <1>8, <1>1 DEF SearchInv, SearchTypes, TreeFromArcs, Numbered, VertexOf,
       Parent

(* The search is over when the stack is empty. *)
LEMMA SearchEnds ==
    ASSUME SearchInv, phase = "searching", stack = << >>
    PROVE  Explored
  <1> QED
    BY DEF StackKept, Explored, SearchInv, OnStack

LEMMA SearchInvariant ==
    ASSUME SearchInv, [Next]_vars
    PROVE  SearchInv'
  <1>1. CASE SearchArc
    <2>1. /\ phase = "searching" /\ stack # << >>
          /\ Top.next <= Len(input.succ[Top.vertex]) /\ UNCHANGED <<input, phase>>
      BY <1>1 DEF SearchArc
    <2>2. Top.next \in DOMAIN input.succ[Top.vertex]
      BY <2>1, TopFacts
    <2> PICK t : t = input.succ[Top.vertex][Top.next]
      OBVIOUS
    <2>4. CASE Numbered(t) /\ stack' = Advanced /\ UNCHANGED search
      BY <2>1, <2>2, <2>4, ArcToNumbered
    <2>5. CASE /\ ~Numbered(t)
               /\ stack' = Append(Advanced, [vertex |-> t, next |-> 1])
               /\ number' = [number EXCEPT ![t] = Len(preorder)]
               /\ preorder' = Append(preorder, t)
               /\ parent' = Append(parent, number[Top.vertex])
      BY <2>1, <2>2, <2>5, ArcToNew
    <2> QED
      BY <1>1, <2>4, <2>5 DEF SearchArc, Advanced
  <1>2. CASE SearchDone
    BY <1>2, VertexLeaves DEF SearchDone
  <1>3. ASSUME UNCHANGED <<input, search>>, phase = "searching" => Explored,
               phase' # "searching"
        PROVE  SearchInv'
    <2>1. /\ number' = number /\ preorder' = preorder /\ parent' = parent
          /\ input' = input /\ Vertices' = Vertices
      BY <1>3 DEF search, Vertices
    <2> QED
      BY <1>3, <2>1 DEF SearchInv, SearchTypes, TreeFromArcs, Explored, Numbered, VertexOf,
         Parent
  <1>4. CASE StartForest
    BY <1>4, <1>3, SearchEnds DEF StartForest, StartVertex
  <1>5. CASE ConsiderPredecessor
    BY <1>3, <1>5 DEF ConsiderPredecessor
  <1>6. CASE LinkVertex
    BY <1>3, <1>6 DEF LinkVertex
  <1>7. CASE EmptyBucket
    BY <1>3, <1>7 DEF EmptyBucket
  <1>8. CASE NextVertex
    BY <1>3, <1>8 DEF NextVertex, StartVertex
  <1>9. CASE CorrectDominator
    BY <1>3, <1>9 DEF CorrectDominator
  <1>10. CASE StartWalk
    BY <1>3, <1>10 DEF StartWalk
  <1>11. CASE WalkChild
    BY <1>3, <1>11 DEF WalkChild
  <1>12. CASE WalkDone
    BY <1>3, <1>12 DEF WalkDone
  <1>13. CASE UNCHANGED vars
    BY <1>13 DEF vars, search, SearchInv, SearchTypes, TreeFromArcs, StackKept, Explored,
                 Numbered, VertexOf, Parent, Vertices
  <1> QED
    BY <1>1, <1>2, <1>4, <1>5, <1>6, <1>7, <1>8, <1>9, <1>10, <1>11, <1>12, <1>13
       DEF Next, Returned
-----------------------------------------------------------------------------
(* The forest: the numbers larger than c are linked.  A linked number has  *)
(* for its ancestor one in the tree with only linked numbers between, and  *)
(* for its label one of these with the least semidominator s.              *)
Forest(P, a, l, s, c) ==
    /\ a \in [Nodes(P) -> Int] /\ l \in [Nodes(P) -> Nodes(P)] /\ s \in [Nodes(P) -> Nodes(P)]
    /\ \A n \in Nodes(P) : n <= c => a[n] = None /\ l[n] = n
    /\ \A n \in Nodes(P) : n > c =>
           /\ Ancestor(P, a[n], n) /\ a[n] # n /\ Between(P, a[n], l[n], n)
           /\ \A y \in Nodes(P) : Between(P, a[n], y, n) => y > c /\ s[l[n]] <= s[y]

(* What an evaluation of n answers: a linked number of its path with the   *)
(* least semidominator; n itself, if it is not linked.                     *)
Answers(P, s, c, n, x) ==
    /\ x \in Nodes(P)
    /\ n <= c => x = n
    /\ n > c => /\ Ancestor(P, x, n) /\ x > c
                /\ \A y \in Nodes(P) : y > c /\ Ancestor(P, y, n) => s[x] <= s[y]

(* The semidominators of the linked numbers are found, those of the        *)
(* numbers still to come are the numbers themselves.                       *)
SemidominatorsFound(P, A, s, c) ==
    /\ s \in [Nodes(P) -> Nodes(P)]
    /\ \A n \in Nodes(P) : n > c => Semidominator(P, A, s[n], n)

(* That of w after all arcs into it but those from the numbers in left.    *)
SemidominatorBounded(P, A, s, w, left) ==
    /\ s[w] = w \/ Candidate(P, A, s[w], w)
    /\ \A v \in Nodes(P) : <<v, w>> \in A /\ v \notin left =>
           /\ v < w => s[w] <= v
           /\ \A u \in Nodes(P) : u > w /\ Ancestor(P, u, v) => s[w] <= s[u]

(* The immediate dominator of w is known, or is that of d.                 *)
Resolved(P, s, d, w) ==
    \/ d = s[w] /\ \A y \in Nodes(P) : Between(P, s[w], y, w) => s[w] <= s[y]
    \/ /\ Between(P, s[w], d, w) /\ s[d] < s[w]
       /\ \A y \in Nodes(P) : Between(P, s[w], y, w) => s[d] <= s[y]

(* It is known, and nothing above w up to its semidominator is still to be *)
(* linked.                                                                 *)
Settled(P, s, d, w, c) ==
    /\ Resolved(P, s, d, w)
    /\ \A y \in Nodes(P) : Between(P, s[w], y, w) => y > c

(* The buckets hold linked numbers that have the bucket's number for their *)
(* semidominator, and whose path to it is not linked yet.                  *)
Buckets(P, s, b, c) ==
    /\ b \in [Nodes(P) -> Seq(Nodes(P))]
    /\ \A n \in Nodes(P) : \A w \in ToSet(b[n]) :
           /\ w > c /\ s[w] = n
           /\ \E y \in Nodes(P) : Between(P, n, y, w) /\ y <= c

(* The numbers larger than c are settled, in their bucket or in left.      *)
Tracked(P, s, b, d, c, left) ==
    \A w \in Nodes(P) : w > c =>
        Settled(P, s, d[w], w, c) \/ w \in ToSet(b[s[w]]) \/ w \in left

(* The numbers up to c are not linked.                                     *)
Threshold ==
    IF phase = "predecessors" THEN cursor ELSE IF phase = "bucket" THEN cursor - 1 ELSE 0

Linking ==
    /\ cursor \in 1 .. Len(parent) - 1
    /\ waiting \in Seq(Nodes(parent))
    /\ Forest(parent, ancestor, label, semi, Threshold)
    /\ \A n \in 0 .. cursor - 1 : semi[n] = n
    /\ Buckets(parent, semi, bucket, Threshold)
    /\ phase = "predecessors" =>
           /\ semi[cursor] <= cursor
           /\ \A v \in ToSet(waiting) : <<v, cursor>> \in Arcs
           /\ SemidominatorBounded(parent, Arcs, semi, cursor, ToSet(waiting))
           /\ Tracked(parent, semi, bucket, idom, Threshold, {})
    /\ phase = "bucket" =>
           /\ \A w \in ToSet(waiting) : w >= cursor /\ semi[w] = Parent(cursor)
           /\ Tracked(parent, semi, bucket, idom, Threshold, ToSet(waiting))

Correcting ==
    /\ cursor \in 0 .. Len(parent) - 1
    /\ \A n \in 1 .. cursor : ImmediateDominator(parent, Arcs, idom[n], n)
    /\ \A n \in cursor + 1 .. Len(parent) - 1 : Resolved(parent, semi, idom[n], n)

DominatorsFound ==
    phase # "searching" =>
        /\ phase # "logic_error"
        /\ SemidominatorsFound(parent, Arcs, semi, Threshold)
        /\ idom \in [Nodes(parent) -> Int]
        /\ phase \in {"predecessors", "bucket"} => Linking
        /\ phase = "correcting" => Correcting
        /\ phase \in {"walking", "built"} =>
               \A n \in 1 .. Len(parent) - 1 : ImmediateDominator(parent, Arcs, idom[n], n)
-----------------------------------------------------------------------------
(* Between the nodes of a path: y lies below e and above w exactly if it   *)
(* lies below e and above m, or below m and above w.                       *)
LEMMA BetweenThrough ==
    ASSUME NEW P, Tree(P), NEW e, NEW m, NEW w, Ancestor(P, e, m), Ancestor(P, m, w),
           NEW y
    PROVE  /\ Between(P, e, y, w) => Between(P, e, y, m) \/ Between(P, m, y, w)
           /\ Between(P, e, y, m) => Between(P, e, y, w)
           /\ Between(P, m, y, w) => Between(P, e, y, w)
  <1>1. ASSUME Between(P, e, y, w)
        PROVE  Between(P, e, y, m) \/ Between(P, m, y, w)
    BY <1>1, AncestorIsLess, AncestorsComparable DEF Between
  <1>2. ASSUME Between(P, e, y, m)
        PROVE  Between(P, e, y, w)
    BY <1>2, AncestorTransitive DEF Between
  <1>3. ASSUME Between(P, m, y, w)
        PROVE  Between(P, e, y, w)
    BY <1>3, AncestorTransitive, AncestorIsLess DEF Between
  <1> QED
    BY <1>1, <1>2, <1>3

(* What the other lemmas use of a forest. *)
LEMMA ForestFacts ==
    ASSUME NEW P, NEW a, NEW l, NEW s, NEW c \in Nat, Tree(P), Forest(P, a, l, s, c),
           NEW n \in Nodes(P)
    PROVE  /\ n \in Nat /\ l[n] \in Nodes(P) /\ s[n] \in Nodes(P) /\ s[l[n]] \in Nodes(P)
           /\ s[n] \in Nat /\ s[l[n]] \in Nat /\ l[n] \in Nat /\ a[n] \in Int
           /\ n <= c => a[n] = None /\ l[n] = n
           /\ n > c => /\ a[n] \in Nodes(P) /\ a[n] < n /\ a[n] # None
                       /\ Ancestor(P, a[n], n) /\ Between(P, a[n], l[n], n)
                       /\ l[n] > c
                       /\ \A y \in Nodes(P) : Between(P, a[n], y, n) => y > c /\ s[l[n]] <= s[y]
  <1>1. /\ a \in [Nodes(P) -> Int] /\ l \in [Nodes(P) -> Nodes(P)]
        /\ s \in [Nodes(P) -> Nodes(P)]
    BY DEF Forest
  <1>3. l[n] \in Nodes(P) /\ s[n] \in Nodes(P) /\ a[n] \in Int
    BY <1>1
  <1>6. ASSUME n > c
        PROVE  /\ a[n] \in Nodes(P) /\ a[n] < n /\ a[n] # None
               /\ Ancestor(P, a[n], n) /\ Between(P, a[n], l[n], n)
               /\ l[n] > c
               /\ \A y \in Nodes(P) : Between(P, a[n], y, n) => y > c /\ s[l[n]] <= s[y]
    <2>1. /\ Ancestor(P, a[n], n) /\ a[n] # n /\ Between(P, a[n], l[n], n)
          /\ \A y \in Nodes(P) : Between(P, a[n], y, n) => y > c /\ s[l[n]] <= s[y]
      BY <1>6 DEF Forest
    <2>2. a[n] \in Nodes(P) /\ a[n] <= n /\ a[n] \in Nat /\ n \in Nat
      BY <2>1, AncestorIsLess
    <2>3. a[n] < n /\ a[n] # None
      BY <2>1, <2>2 DEF None
    <2> QED
      BY <1>3, <2>1, <2>2, <2>3
  <1> QED
    BY TreeFacts, <1>3, <1>1, <1>6 DEF Forest

(* A number whose ancestor is not linked has its answer in its label. *)
LEMMA LabelAnswers ==
    ASSUME NEW P, NEW a, NEW l, NEW s, NEW c \in Nat, Tree(P), Forest(P, a, l, s, c),
           NEW n \in Nodes(P), n > c => a[n] <= c
    PROVE  Answers(P, s, c, n, l[n])
  <1>1. CASE n <= c
    BY <1>1, ForestFacts DEF Answers
  <1>2. CASE n > c
    <2>1. /\ Ancestor(P, a[n], n) /\ Between(P, a[n], l[n], n) /\ l[n] > c /\ l[n] \in Nodes(P)
          /\ \A y \in Nodes(P) : Between(P, a[n], y, n) => y > c /\ s[l[n]] <= s[y]
          /\ a[n] \in Int /\ n \in Nat
      BY <1>2, ForestFacts
    <2>2. ASSUME NEW y \in Nodes(P), y > c, Ancestor(P, y, n)
          PROVE  s[l[n]] <= s[y]
      <3>2. a[n] <= y /\ y # a[n]
        BY <1>2, <2>1, <2>2, TreeFacts
      <3> QED
        BY <2>1, <2>2, <3>2, AncestorsComparable DEF Between
    <2> QED
      BY <1>2, <2>1, <2>2 DEF Answers, Between
  <1> QED
    BY <1>1, <1>2, TreeFacts

(* One step of the compression. *)
LEMMA CompressionKeepsForest ==
    ASSUME NEW P, NEW a, NEW l, NEW s, NEW c \in Nat, Tree(P), Forest(P, a, l, s, c),
           NEW n \in Nodes(P), n > c, NEW m, m = a[n], m > c,
           NEW x, x = IF s[l[m]] < s[l[n]] THEN l[m] ELSE l[n]
    PROVE  Forest(P, [a EXCEPT ![n] = a[m]], [l EXCEPT ![n] = x], s, c)
  <1> PICK b : b = [a EXCEPT ![n] = a[m]]
    OBVIOUS
  <1> PICK k : k = [l EXCEPT ![n] = x]
    OBVIOUS
  <1>1. /\ m \in Nodes(P) /\ Ancestor(P, m, n) /\ n \in Nat /\ m \in Nat
        /\ Between(P, m, l[n], n) /\ l[n] \in Nodes(P) /\ s[l[n]] \in Nat
        /\ \A y \in Nodes(P) : Between(P, m, y, n) => y > c /\ s[l[n]] <= s[y]
    BY ForestFacts
  <1>2. /\ a[m] \in Nodes(P) /\ Ancestor(P, a[m], m) /\ a[m] < m
        /\ Between(P, a[m], l[m], m) /\ l[m] \in Nodes(P) /\ s[l[m]] \in Nat
        /\ \A y \in Nodes(P) : Between(P, a[m], y, m) => y > c /\ s[l[m]] <= s[y]
    BY <1>1, ForestFacts
  <1>3. x \in Nodes(P) /\ s[x] <= s[l[m]] /\ s[x] <= s[l[n]] /\ s[x] \in Nat
        /\ (x = l[m] \/ x = l[n])
    BY <1>1, <1>2
  <1>5. ASSUME NEW y \in Nodes(P), Between(P, a[m], y, n)
        PROVE  y > c /\ s[x] <= s[y]
    BY ForestFacts, <1>1, <1>2, <1>5, BetweenThrough, <1>3
  <1>6. a[m] \in Nat
    BY <1>2, TreeFacts
  <1>7. Ancestor(P, a[m], n) /\ a[m] # n
    BY <1>1, AncestorIsLess, <1>2, <1>6, AncestorTransitive
  <1>8. /\ a \in [Nodes(P) -> Int] /\ l \in [Nodes(P) -> Nodes(P)]
        /\ s \in [Nodes(P) -> Nodes(P)]
    BY DEF Forest
  <1>9. /\ b \in [Nodes(P) -> Int] /\ k \in [Nodes(P) -> Nodes(P)]
        /\ b[n] = a[m] /\ k[n] = x
        /\ \A i \in Nodes(P) : i # n => b[i] = a[i] /\ k[i] = l[i]
    BY <1>3, <1>6, <1>8
  <1>10. ASSUME NEW i \in Nodes(P), i <= c
         PROVE  b[i] = None /\ k[i] = i
    BY <1>1, <1>10, <1>9 DEF Forest
  <1>11. ASSUME NEW i \in Nodes(P), i > c
         PROVE  /\ Ancestor(P, b[i], i) /\ b[i] # i /\ Between(P, b[i], k[i], i)
                /\ \A y \in Nodes(P) : Between(P, b[i], y, i) => y > c /\ s[k[i]] <= s[y]
    BY <1>1, <1>2, <1>3, BetweenThrough, <1>5, <1>7, <1>9, <1>11 DEF Forest
  <1> QED
    BY <1>8, <1>9, <1>10, <1>11 DEF Forest

(* A number is linked to its parent. *)
LEMMA LinkKeepsForest ==
    ASSUME NEW P, NEW a, NEW l, NEW s, NEW c \in Nat, Tree(P), Forest(P, a, l, s, c),
           c \in Nodes(P), c # 0
    PROVE  Forest(P, [a EXCEPT ![c] = P[c + 1]], l, s, c - 1)
  <1> PICK b : b = [a EXCEPT ![c] = P[c + 1]]
    OBVIOUS
  <1>1. P[c + 1] \in Nodes(P) /\ P[c + 1] < c /\ P[c + 1] \in Nat /\ Ancestor(P, P[c + 1], c)
    BY TreeFacts, ParentIsAncestor
  <1>2. /\ a \in [Nodes(P) -> Int] /\ l \in [Nodes(P) -> Nodes(P)]
        /\ s \in [Nodes(P) -> Nodes(P)]
    BY DEF Forest
  <1>3. /\ b \in [Nodes(P) -> Int] /\ b[c] = P[c + 1]
        /\ \A i \in Nodes(P) : i # c => b[i] = a[i]
    BY <1>1, <1>2
  <1>4. \A i \in Nodes(P) : i \in Nat
    BY TreeFacts
  <1>5. ASSUME NEW i \in Nodes(P), i <= c - 1
        PROVE  b[i] = None /\ l[i] = i
    BY <1>4, <1>5, <1>3 DEF Forest
  <1>6. ASSUME NEW i \in Nodes(P), i > c - 1
        PROVE  /\ Ancestor(P, b[i], i) /\ b[i] # i /\ Between(P, b[i], l[i], i)
               /\ \A y \in Nodes(P) : Between(P, b[i], y, i) => y > c - 1 /\ s[l[i]] <= s[y]
    <2>1. CASE i = c
      <3>2. ASSUME NEW y \in Nodes(P), Between(P, P[c + 1], y, c)
            PROVE  y = c
        <4> SUFFICES ASSUME y # c PROVE FALSE
          OBVIOUS
        <4> QED
          BY <1>1, <3>2, AncestorByParent, AncestorIsLess DEF Between
      <3>4. s[c] \in Nat
        BY ForestFacts
      <3> QED
        BY <1>1, <1>3, <2>1, <3>2, AncestorOfSelf, <3>4 DEF Forest, Between
    <2>2. CASE i # c
      BY <1>3, <1>4, <1>6, <2>2 DEF Forest
    <2> QED
      BY <2>1, <2>2
  <1> QED
    BY <1>2, <1>3, <1>5, <1>6 DEF Forest

(* The semidominators of the numbers that are not linked do not matter. *)
LEMMA ForestOfLinked ==
    ASSUME NEW P, NEW a, NEW l, NEW s, NEW c \in Nat, Tree(P), Forest(P, a, l, s, c),
           NEW r \in [Nodes(P) -> Nodes(P)], \A n \in Nodes(P) : n > c => r[n] = s[n]
    PROVE  Forest(P, a, l, r, c)
  <1>1. ASSUME NEW n \in Nodes(P), n > c
        PROVE  \A y \in Nodes(P) : Between(P, a[n], y, n) => y > c /\ r[l[n]] <= r[y]
    BY <1>1, ForestFacts
  <1> QED
    BY <1>1 DEF Forest
-----------------------------------------------------------------------------
(* What a loop computes: from a first value, one step after the other.     *)
LEMMA Recursion ==
    ASSUME NEW V, NEW b \in V, NEW n \in Nat, NEW step \in [1 .. n -> [V -> V]]
    PROVE  \E g \in [0 .. n -> V] :
               g[0] = b /\ \A k \in 1 .. n : g[k] = step[k][g[k - 1]]
  <1> DEFINE Good(m, g) == /\ g \in [0 .. m -> V] /\ g[0] = b
                           /\ \A k \in 1 .. m : g[k] = step[k][g[k - 1]]
             S == { m \in Nat : m <= n => \E g : Good(m, g) }
  <1>1. 0 \in S
    <2>1. Good(0, [ k \in 0 .. 0 |-> b ])
      OBVIOUS
    <2> QED
      BY <2>1
  <1>2. ASSUME NEW m \in Nat, m \in S
        PROVE  m + 1 \in S
    <2> SUFFICES ASSUME m + 1 <= n PROVE \E h : Good(m + 1, h)
      OBVIOUS
    <2>1. PICK g : Good(m, g)
      BY <1>2
    <2> DEFINE v == step[m + 1][g[m]]
               h == [ k \in 0 .. m + 1 |-> IF k = m + 1 THEN v ELSE g[k] ]
    <2>2. g \in [0 .. m -> V] /\ g[m] \in V
      BY <2>1
    <2>4. v \in V
      BY <2>2
    <2> HIDE DEF v
    <2>5. h \in [0 .. m + 1 -> V] /\ h[0] = b
      BY <2>1, <2>2, <2>4
    <2>6. ASSUME NEW k \in 1 .. m + 1
          PROVE  h[k] = step[k][h[k - 1]]
      BY <2>1 DEF v
    <2> HIDE DEF h
    <2>7. Good(m + 1, h)
      BY <2>5, <2>6
    <2> HIDE DEF Good
    <2> QED
      BY <2>7
  <1>3. n \in S
    <2> HIDE DEF S
    <2> QED
      BY <1>1, <1>2, InductiveSet
  <1>4. PICK g : Good(n, g)
    BY <1>3
  <1> QED
    BY <1>4

(* The path of ancestors from n to the first number that is not linked.    *)
AncestorPath(P, a, c, n, W) ==
    /\ W \in Seq(Nodes(P)) /\ Len(W) >= 1 /\ W[1] = n
    /\ \A i \in 1 .. Len(W) - 1 : W[i] > c /\ W[i + 1] = a[W[i]]
    /\ \A i \in 1 .. Len(W) : W[i] <= n - (i - 1)
    /\ \A i, j \in 1 .. Len(W) : i < j => W[j] < W[i]

(* One more number, if there is one. *)
Longer(a, p) == IF a[Last(p)] = None THEN p ELSE Append(p, a[Last(p)])

LEMMA LongerPath ==
    ASSUME NEW P, NEW a, NEW l, NEW s, NEW c \in Nat, Tree(P), Forest(P, a, l, s, c),
           NEW n \in Nodes(P), NEW W, AncestorPath(P, a, c, n, W)
    PROVE  /\ AncestorPath(P, a, c, n, Longer(a, W))
           /\ Last(W) \in Nodes(P) /\ Len(W) \in Nat
           /\ Last(W) > c => Len(Longer(a, W)) = Len(W) + 1
           /\ Last(W) <= c => Longer(a, W) = W
  <1> PICK len : len = Len(W)
    OBVIOUS
  <1> PICK z : z = W[len]
    OBVIOUS
  <1>1. W \in Seq(Nodes(P)) /\ len \in Nat /\ len >= 1 /\ W[1] = n /\ Last(W) = z
    BY DEF AncestorPath, Last
  <1>2. z \in Nodes(P) /\ z <= n - (len - 1) /\ z \in Nat /\ n \in Nat
    BY <1>1, TreeFacts DEF AncestorPath
  <1>3. CASE z <= c
    BY <1>2, <1>3, ForestFacts, <1>1 DEF Longer
  <1>4. CASE ~(z <= c)
    <2>1. z > c
      BY <1>2, <1>4
    <2>2. a[z] \in Nodes(P) /\ a[z] < z /\ a[z] # None
      BY <1>2, <2>1, ForestFacts
    <2> PICK x : x = a[z]
      OBVIOUS
    <2> PICK V : V = Append(W, x)
      OBVIOUS
    <2>4. /\ V \in Seq(Nodes(P)) /\ Len(V) = len + 1 /\ V[len + 1] = x
          /\ \A i \in 1 .. len : V[i] = W[i]
      BY <1>1, <2>2
    <2>5. ASSUME NEW i \in 1 .. Len(V) - 1
          PROVE  V[i] > c /\ V[i + 1] = a[V[i]]
      BY <1>1, <2>1, <2>4 DEF AncestorPath
    <2>6. ASSUME NEW i \in 1 .. Len(V)
          PROVE  V[i] <= n - (i - 1)
      BY <2>2, TreeFacts, <2>4, <1>1, <1>2, SMTT(30) DEF AncestorPath
    <2>8. ASSUME NEW i \in 1 .. Len(V), NEW j \in 1 .. Len(V), i < j
          PROVE  V[j] < V[i]
      <3>1. i \in 1 .. len /\ V[i] = W[i] /\ W[i] \in Nodes(P)
        BY <1>1, <2>4, <2>8
      <3>2. W[i] \in Nat /\ x \in Nat
        BY <2>2, <3>1, TreeFacts
      <3>3. CASE j = len + 1
        BY <1>2, <1>1, <3>1, <3>2, <2>4, <3>3, <2>2 DEF AncestorPath
      <3>4. CASE j # len + 1
        BY <1>1, <2>4, <3>4, <2>8, <3>1 DEF AncestorPath
      <3> QED
        BY <3>3, <3>4
    <2>7. AncestorPath(P, a, c, n, V)
      BY <1>1, <2>4, <2>5, <2>6, <2>8 DEF AncestorPath
    <2> QED
      BY <1>1, <1>2, <1>4, <2>1, <2>2, <2>4, <2>7 DEF Longer
  <1> QED
    BY <1>3, <1>4

(* The path of evaluate_link_path: it ends at a number that is not linked. *)
LEMMA PathEnds ==
    ASSUME Tree(parent), Len(preorder) = Len(parent), NEW c \in Nat,
           Forest(parent, ancestor, label, semi, c), NEW n \in Nodes(parent)
    PROVE  \E W : /\ AncestorPath(parent, ancestor, c, n, W) /\ Last(W) <= c
                  /\ PathFrom(n) = SubSeq(W, 1, Len(W) - 2)
  <1> DEFINE len == Len(preorder)
             Steps(g) == [ k \in 0 .. len |->
                             IF k = 0 THEN <<n>>
                             ELSE LET before == g[k - 1]
                                  IN  IF ancestor[Last(before)] = None THEN before
                                      ELSE Append(before, ancestor[Last(before)]) ]
             F == CHOOSE g : g = Steps(g)
  <1>1. PathFrom(n) = SubSeq(F[len], 1, Len(F[len]) - 2)
    BY DEF PathFrom
  <1>2. len \in Nat
    BY DEF Tree
  <1>3. F = Steps(F)
    <2>1. \E g : g = Steps(g)
      <3> DEFINE V == { W \in Seq(Nodes(parent)) : AncestorPath(parent, ancestor, c, n, W) }
                 b == <<n>>
                 step == [ k \in 1 .. len |-> [ p \in V |-> Longer(ancestor, p) ] ]
      <3>1. b \in V
        BY TreeFacts DEF AncestorPath
      <3>2. \A p \in V : Longer(ancestor, p) \in V
        BY LongerPath, SMTT(30) DEF AncestorPath
      <3>3. step \in [1 .. len -> [V -> V]]
        <4> HIDE DEF V, len
        <4> QED
          BY <3>2
      <3>4. PICK g \in [0 .. len -> V] :
                g[0] = b /\ \A k \in 1 .. len : g[k] = step[k][g[k - 1]]
        <4> HIDE DEF step, V, b, len
        <4> QED
          BY <1>2, <3>1, <3>3, Recursion, SMTT(30)
      <3>5. \A k \in 1 .. len : g[k] = Longer(ancestor, g[k - 1])
        <4> SUFFICES ASSUME NEW k \in 1 .. len PROVE g[k] = Longer(ancestor, g[k - 1])
          OBVIOUS
        <4> HIDE DEF V, len
        <4>2. g[k - 1] \in V
          BY <1>2
        <4> QED
          BY <3>4, <4>2
      <3>6. g = [ k \in 0 .. len |-> g[k] ]
        <4> HIDE DEF V, len
        <4> QED
          OBVIOUS
      <3>7. \A k \in 0 .. len : g[k] = Steps(g)[k]
        <4> SUFFICES ASSUME NEW k \in 0 .. len PROVE g[k] = Steps(g)[k]
          OBVIOUS
        <4> HIDE DEF V, len, step
        <4>1. CASE k = 0
          BY <3>4, <4>1
        <4>2. CASE k # 0
          <5>2. g[k] = Longer(ancestor, g[k - 1])
            BY <3>5, <1>2, <4>2
          <5> QED
            BY <4>2, <5>2 DEF Longer
        <4> QED
          BY <4>1, <4>2
      <3>8. Steps(g) = [ k \in 0 .. len |-> Steps(g)[k] ]
        <4> HIDE DEF len
        <4> QED
          OBVIOUS
      <3>9. g = Steps(g)
        <4> HIDE DEF Steps, len, V, step
        <4> QED
          BY <3>6, <3>7, <3>8
      <3> QED
        BY <3>9
    <2> HIDE DEF Steps
    <2> QED
      BY <2>1
  <1> HIDE DEF F
  <1>4. F[0] = <<n>>
    <2> HIDE DEF len
    <2> QED
      BY <1>2, <1>3
  <1>5. ASSUME NEW k \in 1 .. len
        PROVE  F[k] = Longer(ancestor, F[k - 1])
    <2>1. F[k] = Steps(F)[k]
      <3> HIDE DEF Steps
      <3> QED
        BY <1>3
    <2>2. k \in 0 .. len /\ k # 0
      <3> HIDE DEF len
      <3> QED
        BY <1>2
    <2> HIDE DEF len
    <2> QED
      BY <2>1, <2>2 DEF Longer
  <1> HIDE DEF Steps
  <1> DEFINE Good(k) == /\ AncestorPath(parent, ancestor, c, n, F[k])
                        /\ Len(F[k]) = k + 1 \/ Last(F[k]) <= c
             S == { k \in Nat : k <= len => Good(k) }
  <1>6. 0 \in S
    <2>2. AncestorPath(parent, ancestor, c, n, <<n>>) /\ Len(<<n>>) = 0 + 1
      BY TreeFacts DEF AncestorPath
    <2> QED
      BY <1>4, <2>2
  <1>7. ASSUME NEW k \in Nat, k \in S
        PROVE  k + 1 \in S
    <2> SUFFICES ASSUME k + 1 <= len PROVE Good(k + 1)
      OBVIOUS
    <2> PICK p : p = F[k]
      OBVIOUS
    <2> QED
      BY <1>7, <1>2, <1>5, LongerPath, TreeFacts
  <1>8. Good(len)
    <2>1. len \in S
      <3> HIDE DEF S, len
      <3> QED
        BY <1>2, <1>6, <1>7, InductiveSet
    <2> HIDE DEF Good, len
    <2> QED
      BY <1>2, <2>1
  <1>9. Last(F[len]) <= c
    <2> SUFFICES ASSUME Len(F[len]) = len + 1 PROVE FALSE
      BY <1>8
    <2>3. F[len][len + 1] \in Nat /\ n \in Nat /\ n < len
      BY <1>2, <1>8, LongerPath, TreeFacts DEF Nodes, Last
    <2> QED
      BY <1>2, <1>8, <2>3 DEF AncestorPath
  <1> QED
    BY <1>1, <1>8, <1>9

(* The forest after k nodes of the path W have been compressed, the        *)
(* nearest to the end of the path first: these have that end for their     *)
(* ancestor, the others are as they were.                                  *)
Compressed(P, s, c, W, k, st) ==
    /\ st \in [ancestor : [Nodes(P) -> Int], label : [Nodes(P) -> Nodes(P)]]
    /\ Forest(P, st.ancestor, st.label, s, c)
    /\ \A i \in 1 .. Len(W) - 2 - k : st.ancestor[W[i]] = W[i + 1]
    /\ st.ancestor[W[Len(W) - 1 - k]] = W[Len(W)]

LEMMA CompressionStep ==
    ASSUME Tree(parent), NEW c \in Nat, NEW n \in Nodes(parent), NEW a, NEW W,
           AncestorPath(parent, a, c, n, W), NEW k \in Nat, k <= Len(W) - 3,
           NEW st, Compressed(parent, semi, c, W, k, st)
    PROVE  Compressed(parent, semi, c, W, k + 1, CompressNode(st, W[Len(W) - 2 - k]))
  <1> PICK len : len = Len(W)
    OBVIOUS
  <1> PICK j : j = len - 2 - k
    OBVIOUS
  <1> PICK node : node = W[j]
    OBVIOUS
  <1> PICK above : above = st.ancestor[node]
    OBVIOUS
  <1> PICK x : x = IF semi[st.label[above]] < semi[st.label[node]] THEN st.label[above]
                   ELSE st.label[node]
    OBVIOUS
  <1> PICK new : new = CompressNode(st, W[Len(W) - 2 - k])
    OBVIOUS
  <1>1. W \in Seq(Nodes(parent)) /\ len \in Nat /\ j \in 1 .. len - 2 /\ j \in 1 .. len
        /\ j + 1 \in 1 .. len - 1 /\ j \in 1 .. len - 1
        /\ len - 2 - (k + 1) = j - 1 /\ len - 1 - (k + 1) = j /\ len - 1 - k = j + 1
    BY DEF AncestorPath
  <1>2. /\ st \in [ancestor : [Nodes(parent) -> Int], label : [Nodes(parent) -> Nodes(parent)]]
        /\ Forest(parent, st.ancestor, st.label, semi, c)
        /\ \A i \in 1 .. j : st.ancestor[W[i]] = W[i + 1]
        /\ st.ancestor[W[j + 1]] = W[len]
    BY <1>1 DEF Compressed
  <1>3. node \in Nodes(parent) /\ node > c /\ W[j + 1] > c
    BY <1>1, SMTT(30) DEF AncestorPath
  <1>4. above = W[j + 1] /\ st.ancestor[above] = W[len]
    <2>1. j \in 1 .. j
      BY <1>1
    <2> QED
      BY <1>2, <2>1
  <1>5. new = [ ancestor |-> [st.ancestor EXCEPT ![node] = st.ancestor[above]],
                label |-> [st.label EXCEPT ![node] = x] ]
    BY DEF CompressNode
  <1>6. Forest(parent, new.ancestor, new.label, semi, c)
    <2>1. above > c
      BY <1>3, <1>4
    <2>2. Forest(parent, [st.ancestor EXCEPT ![node] = st.ancestor[above]],
                 [st.label EXCEPT ![node] = x], semi, c)
      BY <1>2, <1>3, <2>1, CompressionKeepsForest
    <2>3. /\ new.ancestor = [st.ancestor EXCEPT ![node] = st.ancestor[above]]
          /\ new.label = [st.label EXCEPT ![node] = x]
      BY ONLY <1>5
    <2> QED
      BY <2>2, <2>3
  <1>8. new.ancestor[node] = W[len]
    BY <1>2, <1>4, <1>5, <1>3
  <1>9. ASSUME NEW i \in 1 .. j - 1
        PROVE  new.ancestor[W[i]] = W[i + 1]
    <2>1. i \in 1 .. len /\ i < j /\ i \in 1 .. j
      BY <1>1
    <2>2. W[i] \in Nodes(parent) /\ W[j] < W[i]
      BY <1>1, <2>1, MemberOfSequence DEF AncestorPath
    <2>5. new.ancestor = [st.ancestor EXCEPT ![node] = W[len]]
      BY <1>4, <1>5
    <2>6. new.ancestor[W[i]] = st.ancestor[W[i]]
      BY <2>2, <1>3, TreeFacts, <1>2, <2>5
    <2> QED
      BY <1>2, <2>1, <2>6
  <1>10. Compressed(parent, semi, c, W, k + 1, new)
    BY <1>1, <1>6, <1>5, <1>8, <1>9 DEF Compressed, Forest
  <1> QED
    BY <1>10

(* An evaluation keeps the forest and answers.                             *)
LEMMA EvaluationFacts ==
    ASSUME Tree(parent), Len(preorder) = Len(parent), NEW c \in Nat,
           Forest(parent, ancestor, label, semi, c), NEW n \in Nodes(parent)
    PROVE  /\ Forest(parent, Evaluated(n).ancestor, Evaluated(n).label, semi, c)
           /\ Answers(parent, semi, c, n, Evaluated(n).label[n])
           /\ n > c => Evaluated(n).ancestor[n] <= c
           /\ ancestor[n] # None <=> n > c
  <1> DEFINE b == [ancestor |-> ancestor, label |-> label]
             path == CompressedPath(n)
             Steps(g) == [ k \in 0 .. Len(path) |->
                             IF k = 0 THEN b ELSE CompressNode(g[k - 1], path[k]) ]
             F == CHOOSE g : g = Steps(g)
  <1>1. Evaluated(n) = IF ancestor[n] = None THEN b ELSE F[Len(path)]
    BY DEF Evaluated
  <1>2. n \in Nat /\ (ancestor[n] # None <=> n > c)
    BY ForestFacts
  <1>3. /\ ancestor \in [Nodes(parent) -> Int] /\ label \in [Nodes(parent) -> Nodes(parent)]
    BY DEF Forest
  <1>4. CASE n <= c
    <2>2. b.ancestor = ancestor /\ b.label = label
      OBVIOUS
    <2> HIDE DEF b, F
    <2> QED
      BY <1>2, <1>1, <1>4, <2>2, LabelAnswers
  <1>5. CASE n > c
    <2> HIDE DEF F
    <2>2. PICK W : /\ AncestorPath(parent, ancestor, c, n, W) /\ Last(W) <= c
                   /\ PathFrom(n) = SubSeq(W, 1, Len(W) - 2)
      BY PathEnds
    <2> PICK len : len = Len(W)
      OBVIOUS
    <2> PICK m : m = len - 2
      OBVIOUS
    <2>3. /\ W \in Seq(Nodes(parent)) /\ len \in Nat /\ len >= 1 /\ W[1] = n
          /\ W[len] <= c /\ len # 1 /\ m \in Nat /\ len = m + 2
      BY <2>2, <1>2, <1>5 DEF AncestorPath, Last
    <2>4. Len(path) = m /\ \A k \in 1 .. m : path[k] = W[m - (k - 1)]
      <3> DEFINE p == SubSeq(W, 1, m)
      <3>3. /\ p \in Seq(Nodes(parent))
            /\ Len(p) = (IF 1 <= m THEN m - 1 + 1 ELSE 0)
            /\ \A i \in 1 .. m - 1 + 1 : p[i] = W[1 + i - 1]
        BY <2>3, MemberOfSequence, SubSeqProperties
      <3>4. path = Reverse(p)
        BY <2>2 DEF CompressedPath
      <3> HIDE DEF p, path
      <3>6. path = [ i \in 1 .. m |-> p[(m - i) + 1] ]
        BY <3>4, <2>3, <3>3 DEF Reverse
      <3>8. ASSUME NEW k \in 1 .. m
            PROVE  path[k] = W[m - (k - 1)]
        <4>1. m - (k - 1) \in 1 .. m - 1 + 1 /\ (m - k) + 1 = m - (k - 1)
              /\ 1 + (m - (k - 1)) - 1 = m - (k - 1)
          BY <2>3
        <4> QED
          BY <3>3, <4>1, <3>6
      <3> QED
        BY <2>3, <3>6, <3>8
    <2>5. Compressed(parent, semi, c, W, 0, b)
      <3>1. b \in [ancestor : [Nodes(parent) -> Int], label : [Nodes(parent) -> Nodes(parent)]]
            /\ b.ancestor = ancestor /\ b.label = label
        BY <1>3
      <3>4. len - 1 - 0 \in 1 .. len - 1 /\ len - 1 - 0 + 1 = len
        BY <2>3
      <3> HIDE DEF b
      <3> QED
        BY <3>1, <2>2, <2>3, <3>4, SMTT(30) DEF Compressed, AncestorPath
    <2>6. ASSUME NEW k \in Nat, k + 1 <= m, NEW st, Compressed(parent, semi, c, W, k, st)
          PROVE  Compressed(parent, semi, c, W, k + 1, CompressNode(st, path[k + 1]))
      <3>1. k + 1 \in 1 .. m /\ m - ((k + 1) - 1) = len - 2 - k /\ k <= len - 3
        BY <2>3, <2>6
      <3>3. Compressed(parent, semi, c, W, k + 1, CompressNode(st, W[Len(W) - 2 - k]))
        BY <2>2, <2>6, <3>1, CompressionStep
      <3> HIDE DEF path
      <3> QED
        BY <2>4, <3>1, <3>3
    <2> HIDE DEF b, path
    <2>7. ASSUME NEW h, h[0] = b,
                 \A k \in 1 .. m : Compressed(parent, semi, c, W, k - 1, h[k - 1]) =>
                                       h[k] = CompressNode(h[k - 1], path[k])
          PROVE  \A k \in 0 .. m : Compressed(parent, semi, c, W, k, h[k])
      <3> DEFINE S == { k \in Nat : k <= m => Compressed(parent, semi, c, W, k, h[k]) }
      <3>1. 0 \in S
        BY <2>5, <2>7
      <3>2. ASSUME NEW k \in Nat, k \in S
            PROVE  k + 1 \in S
        <4> SUFFICES ASSUME k + 1 <= m
                     PROVE  Compressed(parent, semi, c, W, k + 1, h[k + 1])
          OBVIOUS
        <4> QED
          BY <2>6, <3>2, <2>3, <2>7
      <3>3. Nat \subseteq S
        <4> HIDE DEF S
        <4> QED
          BY <3>1, <3>2, InductiveSet
      <3> QED
        BY <3>3, <2>3
    <2>8. \E g : g = Steps(g)
      <3> DEFINE V == [ancestor : [Nodes(parent) -> Int], label : [Nodes(parent) -> Nodes(parent)]]
                 Step(k, st) == IF Compressed(parent, semi, c, W, k - 1, st)
                                THEN CompressNode(st, path[k]) ELSE st
                 step == [ k \in 1 .. m |-> [ st \in V |-> Step(k, st) ] ]
      <3>1. b \in V
        BY <2>5 DEF Compressed
      <3>2. ASSUME NEW k \in 1 .. m, NEW st \in V
            PROVE  Step(k, st) \in V
        <4>1. CASE Compressed(parent, semi, c, W, k - 1, st)
          <5>3. Compressed(parent, semi, c, W, k, CompressNode(st, path[k]))
            BY <2>3, <2>6, <4>1
          <5> QED
            BY <4>1, <5>3 DEF Compressed
        <4>2. CASE ~Compressed(parent, semi, c, W, k - 1, st)
          BY <4>2
        <4> QED
          BY <4>1, <4>2
      <3>3. step \in [1 .. m -> [V -> V]]
        <4> HIDE DEF V, Step
        <4> QED
          BY <3>2
      <3>4. PICK g \in [0 .. m -> V] :
                g[0] = b /\ \A k \in 1 .. m : g[k] = step[k][g[k - 1]]
        <4> HIDE DEF step, V, Step
        <4>1. m \in Nat
          BY <2>3
        <4>2. \E g \in [0 .. m -> V] :
                  g[0] = b /\ \A k \in 1 .. m : g[k] = step[k][g[k - 1]]
          BY ONLY <3>1, <3>3, <4>1, Recursion, SMTT(30)
        <4> QED
          BY <4>2
      <3>5. ASSUME NEW k \in 1 .. m
            PROVE  g[k] = Step(k, g[k - 1])
        <4> HIDE DEF V, Step
        <4>2. g[k - 1] \in V
          BY <2>3
        <4> QED
          BY <3>4, <4>2
      <3>6. \A k \in 1 .. m : Compressed(parent, semi, c, W, k - 1, g[k - 1]) =>
                                  g[k] = CompressNode(g[k - 1], path[k])
        BY <3>5
      <3>7. \A k \in 0 .. m : Compressed(parent, semi, c, W, k, g[k])
        BY <2>7, <3>4, <3>6
      <3>8. ASSUME NEW k \in 0 .. m
            PROVE  g[k] = IF k = 0 THEN b ELSE CompressNode(g[k - 1], path[k])
        <4>1. CASE k = 0
          BY <3>4, <4>1
        <4>2. CASE k # 0
          <5>1. k \in 1 .. m /\ k - 1 \in 0 .. m
            BY <2>3, <4>2
          <5> QED
            BY <3>6, <3>7, <4>2, <5>1
        <4> QED
          BY <4>1, <4>2
      <3>9. g = [ k \in 0 .. m |-> g[k] ]
        <4> HIDE DEF V, step
        <4> QED
          BY <3>4
      <3> QED
        BY <2>4, <3>9, <3>8
    <2>9. F = Steps(F)
      <3> HIDE DEF Steps
      <3> QED
        BY <2>8 DEF F
    <2>10. F = [ k \in 0 .. m |-> IF k = 0 THEN b ELSE CompressNode(F[k - 1], path[k]) ]
      BY <2>4, <2>9
    <2> HIDE DEF Steps
    <2>11. F[0] = b
      BY <2>3, <2>10
    <2>12. ASSUME NEW k \in 1 .. m
           PROVE  F[k] = CompressNode(F[k - 1], path[k])
      BY <2>3, <2>10
    <2>13. Compressed(parent, semi, c, W, m, F[m])
      BY <2>3, <2>7, <2>11, <2>12
    <2> PICK st : st = F[m]
      OBVIOUS
    <2> QED
      BY <1>2, <1>1, <1>5, <2>4, <2>3, <2>13, LabelAnswers, SMTT(30) DEF Compressed
  <1> QED
    BY <1>2, <1>4, <1>5
-----------------------------------------------------------------------------
(* Closures by n rounds in the finite set U, from the set b: ext[X] is     *)
(* what a round adds to the set X.                                         *)
Rounds(U, b, ext, n) ==
    /\ n \in Nat /\ IsFiniteSet(U) /\ Cardinality(U) <= n
    /\ b \in SUBSET U /\ ext \in [SUBSET U -> SUBSET U]

RoundsTaken(U, b, ext, n, f) ==
    /\ f[0] = b
    /\ \A k \in 1 .. n : f[k - 1] \in SUBSET U => f[k] = f[k - 1] \cup ext[f[k - 1]]

LEMMA RoundsExist ==
    ASSUME NEW U, NEW b, NEW ext, NEW n, Rounds(U, b, ext, n)
    PROVE  \E f \in [0 .. n -> SUBSET U] :
               f[0] = b /\ \A k \in 1 .. n : f[k] = f[k - 1] \cup ext[f[k - 1]]
  <1> DEFINE V == SUBSET U
             step == [ k \in 1 .. n |-> [ X \in V |-> X \cup ext[X] ] ]
  <1> USE DEF Rounds
  <1>1. \A X \in V : X \cup ext[X] \in V
    OBVIOUS
  <1>2. step \in [1 .. n -> [V -> V]] /\ b \in V
    <2> HIDE DEF V
    <2> QED
      BY <1>1 DEF V
  <1>3. PICK f \in [0 .. n -> V] : f[0] = b /\ \A k \in 1 .. n : f[k] = step[k][f[k - 1]]
    <2> HIDE DEF step, V
    <2> QED
      BY <1>2, Recursion, SMTT(30)
  <1>4. \A k \in 1 .. n : f[k] = f[k - 1] \cup ext[f[k - 1]]
    <2> SUFFICES ASSUME NEW k \in 1 .. n PROVE f[k] = f[k - 1] \cup ext[f[k - 1]]
      OBVIOUS
    <2> HIDE DEF V
    <2>1. f[k - 1] \in V
      OBVIOUS
    <2> QED
      BY <1>3, <2>1
  <1> QED
    BY <1>3, <1>4

(* After as many rounds as there are elements the set is closed, and it is *)
(* the least closed one.                                                   *)
LEMMA ClosureByRounds ==
    ASSUME NEW U, NEW b, NEW ext, NEW n, Rounds(U, b, ext, n),
           NEW f, RoundsTaken(U, b, ext, n, f)
    PROVE  /\ f[n] \in SUBSET U /\ b \subseteq f[n] /\ ext[f[n]] \subseteq f[n]
           /\ \A C : b \subseteq C /\ (\A X \in SUBSET U : X \subseteq C => ext[X] \subseteq C)
                     => f[n] \subseteq C
  <1> DEFINE Typed(k) == f[k] \in SUBSET U /\ b \subseteq f[k]
             S == { k \in Nat : k <= n => Typed(k) }
  <1> USE DEF Rounds, RoundsTaken
  <1>1. 0 \in S
    OBVIOUS
  <1>2. ASSUME NEW k \in Nat, k \in S
        PROVE  k + 1 \in S
    <2> SUFFICES ASSUME k + 1 <= n PROVE Typed(k + 1)
      OBVIOUS
    <2> QED
      BY <1>2
  <1>3. \A k \in Nat : k <= n => Typed(k)
    <2>1. Nat \subseteq S
      <3> HIDE DEF S
      <3> QED
        BY <1>1, <1>2, InductiveSet
    <2> HIDE DEF Typed
    <2> QED
      BY <2>1
  <1>4. ASSUME NEW k \in Nat, k + 1 <= n
        PROVE  f[k + 1] = f[k] \cup ext[f[k]] /\ f[k] \in SUBSET U
    BY <1>4, <1>3
  <1>5. ASSUME NEW C, b \subseteq C, \A X \in SUBSET U : X \subseteq C => ext[X] \subseteq C
        PROVE  f[n] \subseteq C
    <2> DEFINE T == { k \in Nat : k <= n => f[k] \subseteq C }
    <2>1. 0 \in T
      BY <1>5
    <2>2. ASSUME NEW k \in Nat, k \in T
          PROVE  k + 1 \in T
      <3> SUFFICES ASSUME k + 1 <= n PROVE f[k + 1] \subseteq C
        OBVIOUS
      <3> QED
        BY <1>4, <1>5, <2>2
    <2>3. n \in T
      <3> HIDE DEF T
      <3> QED
        BY <2>1, <2>2, InductiveSet
    <2> QED
      BY <2>3
  <1>6. ext[f[n]] \subseteq f[n]
    <2> DEFINE T == { k \in Nat : k <= n => ext[f[k]] \subseteq f[k] \/ Cardinality(f[k]) >= k }
    <2>1. \A X \in SUBSET U : IsFiniteSet(X) /\ Cardinality(X) \in Nat
      BY FS_Subset, FS_CardinalityType
    <2>2. 0 \in T
      BY <2>1
    <2>3. ASSUME NEW k \in Nat, k \in T
          PROVE  k + 1 \in T
      <3> SUFFICES ASSUME k + 1 <= n
                   PROVE  \/ ext[f[k + 1]] \subseteq f[k + 1]
                          \/ Cardinality(f[k + 1]) >= k + 1
        OBVIOUS
      <3>1. /\ f[k + 1] = f[k] \cup ext[f[k]] /\ f[k] \in SUBSET U
            /\ f[k + 1] \in SUBSET U
        BY <1>3, <1>4
      <3>3. CASE f[k + 1] = f[k]
        BY <3>1, <3>3
      <3>4. CASE f[k + 1] # f[k]
        BY <3>1, <3>4, <2>3, <2>1, FS_Subset
      <3> QED
        BY <3>3, <3>4
    <2>4. ext[f[n]] \subseteq f[n] \/ Cardinality(f[n]) >= n
      <3>1. n \in T
        <4> HIDE DEF T
        <4> QED
          BY <2>2, <2>3, InductiveSet
      <3> QED
        BY <3>1
    <2>5. CASE Cardinality(f[n]) >= n
      <3>1. f[n] \in SUBSET U
        BY <1>3
      <3>2. f[n] = U
        <4> SUFFICES ASSUME f[n] # U PROVE FALSE
          OBVIOUS
        <4> QED
          BY <2>5, <3>1, FS_Subset, <2>1
      <3> QED
        BY <3>2, <3>1
    <2> QED
      BY <2>4, <2>5
  <1> QED
    BY <1>5, <1>6, <1>3

LEMMA NodesFinite ==
    ASSUME NEW P, Tree(P)
    PROVE  IsFiniteSet(Nodes(P)) /\ Cardinality(Nodes(P)) <= Len(P) /\ Len(P) \in Nat
  <1>1. Len(P) \in Nat
    BY TreeFacts
  <1>2. /\ IsFiniteSet(0 .. Len(P) - 1)
        /\ Cardinality(0 .. Len(P) - 1)
               = (IF 0 > Len(P) - 1 THEN 0 ELSE (Len(P) - 1) - 0 + 1)
    BY <1>1, FS_Interval, SMTT(30)
  <1> QED
    BY <1>1, <1>2 DEF Nodes

(* The linked path is that of the linked ancestors in the search tree. *)
LEMMA LinkedPathFacts ==
    ASSUME Tree(parent), Len(preorder) = Len(parent), NEW n \in Nodes(parent)
    PROVE  LinkedPath(n)
               = { m \in Nodes(parent) : Ancestor(parent, m, n) /\ ancestor[m] # None }
  <1> DEFINE len == Len(preorder)
             U == Nodes(parent)
             Above(X) == { Parent(m) : m \in X \ {0} }
             ext == [ X \in SUBSET U |-> Above(X) ]
             Steps(g) == [ k \in 0 .. len |->
                             IF k = 0 THEN {n}
                             ELSE LET before == g[k - 1]
                                  IN  before \cup { Parent(m) : m \in before \ {0} } ]
             F == CHOOSE g : g = Steps(g)
  <1>1. LinkedPath(n) = { m \in F[len] : ancestor[m] # None }
    BY DEF LinkedPath
  <1>2. len \in Nat /\ IsFiniteSet(U) /\ Cardinality(U) <= len
    BY NodesFinite
  <1>4. \A X \in SUBSET U : Above(X) \in SUBSET U
    BY TreeFacts DEF Parent
  <1>5. ext \in [SUBSET U -> SUBSET U]
    <2> HIDE DEF U, Above
    <2> QED
      BY <1>4
  <1>6. Rounds(U, {n}, ext, len)
    <2>1. {n} \in SUBSET U
      OBVIOUS
    <2> HIDE DEF U, ext, len
    <2> QED
      BY <1>2, <1>5, <2>1 DEF Rounds
  <1>7. F = Steps(F)
    <2>1. PICK g \in [0 .. len -> SUBSET U] :
              g[0] = {n} /\ \A k \in 1 .. len : g[k] = g[k - 1] \cup ext[g[k - 1]]
      <3> HIDE DEF U, ext, len
      <3> QED
        BY <1>6, RoundsExist
    <2>2. ASSUME NEW k \in 0 .. len
          PROVE  g[k] = IF k = 0 THEN {n} ELSE g[k - 1] \cup Above(g[k - 1])
      <3> HIDE DEF U, len, Above
      <3>1. CASE k = 0
        BY <2>1, <3>1
      <3>2. CASE k # 0
        <4>1. k \in 1 .. len /\ k - 1 \in 0 .. len
          BY <1>2, <3>2
        <4> QED
          BY <3>2, <4>1, <2>1
      <3> QED
        BY <3>1, <3>2
    <2>3. g = [ k \in 0 .. len |-> g[k] ]
      <3> HIDE DEF U, len
      <3> QED
        OBVIOUS
    <2>4. [ k \in 0 .. len |-> g[k] ]
              = [ k \in 0 .. len |-> IF k = 0 THEN {n} ELSE g[k - 1] \cup Above(g[k - 1]) ]
      <3> HIDE DEF U, len, Above
      <3> QED
        BY <2>2
    <2> HIDE DEF Steps
    <2> QED
      BY <2>3, <2>4
  <1> HIDE DEF F
  <1>8. F = [ k \in 0 .. len |-> IF k = 0 THEN {n} ELSE F[k - 1] \cup Above(F[k - 1]) ]
    BY <1>7
  <1> HIDE DEF Steps, len, Above
  <1>9. F[0] = {n}
    BY <1>2, <1>8
  <1>10. ASSUME NEW k \in 1 .. len, F[k - 1] \in SUBSET U
         PROVE  F[k] = F[k - 1] \cup ext[F[k - 1]]
    <2>1. k \in 0 .. len /\ k # 0
      BY <1>2
    <2> HIDE DEF U
    <2> QED
      BY <1>10, <1>8, <2>1
  <1>11. /\ F[len] \in SUBSET U /\ {n} \subseteq F[len] /\ ext[F[len]] \subseteq F[len]
         /\ \A C : {n} \subseteq C /\ (\A X \in SUBSET U : X \subseteq C => ext[X] \subseteq C)
                   => F[len] \subseteq C
    <2> HIDE DEF U, ext
    <2>1. RoundsTaken(U, {n}, ext, len, F)
      BY <1>9, <1>10 DEF RoundsTaken
    <2> QED
      BY <1>6, <2>1, ClosureByRounds
  <1>13. ASSUME NEW m \in Nodes(parent), Ancestor(parent, m, n)
         PROVE  m \in F[len]
    BY <1>11, <1>13 DEF Ancestor, Above, Up, Parent
  <1>14. ASSUME NEW m \in F[len]
         PROVE  m \in Nodes(parent) /\ Ancestor(parent, m, n)
    <2> DEFINE C == { i \in Nodes(parent) : Ancestor(parent, i, n) }
    <2>1. {n} \subseteq C
      BY AncestorOfSelf
    <2>2. ASSUME NEW X \in SUBSET U, X \subseteq C, NEW i \in Above(X)
          PROVE  i \in C
      <3>1. PICK j \in X : j # 0 /\ i = Parent(j)
        BY <2>2 DEF Above
      <3> QED
        BY <2>2, <3>1, ParentIsAncestor, AncestorTransitive DEF Ancestor, Parent
    <2>3. \A X \in SUBSET U : X \subseteq C => ext[X] \subseteq C
      <3> HIDE DEF C
      <3> QED
        BY <2>2
    <2>4. F[len] \subseteq C
      <3> HIDE DEF C, U, ext
      <3> QED
        BY <1>11, <2>1, <2>3
    <2> QED
      BY <2>4
  <1> HIDE DEF U
  <1> QED
    BY <1>1, <1>13, <1>14

(* Path compression never changes an evaluation. *)
LEMMA EvaluationsAreExact ==
    ASSUME SearchInv, DominatorsFound
    PROVE  EvaluationsExact
  <1> SUFFICES ASSUME phase \in {"predecessors", "bucket"}, NEW n \in Numbers,
                      ancestor[n] # None
               PROVE  /\ Evaluated(n).label[n] \in LinkedPath(n)
                      /\ \A m \in LinkedPath(n) : semi[Evaluated(n).label[n]] <= semi[m]
    BY DEF EvaluationsExact
  <1>1. Tree(parent) /\ Len(preorder) = Len(parent)
    BY DEF SearchInv, SearchTypes
  <1> PICK c : c = Threshold
    OBVIOUS
  <1>4. n \in Nodes(parent)
    BY <1>1 DEF Numbers, Nodes
  <1> PICK x : x = Evaluated(n).label[n]
    OBVIOUS
  <1>8. LinkedPath(n)
            = { m \in Nodes(parent) : Ancestor(parent, m, n) /\ ancestor[m] # None }
    BY <1>1, <1>4, LinkedPathFacts
  <1> QED
    BY <1>1, <1>4, EvaluationFacts, <1>8 DEF Answers, Threshold, DominatorsFound, Linking
-----------------------------------------------------------------------------
(* Semidominators.  What an arc into c contributes is in the answer of its *)
(* source, q.                                                              *)
Improved(s, c, q) == [s EXCEPT ![c] = IF s[q] < s[c] THEN s[q] ELSE s[c]]

Considering(P, A, s, c, left) ==
    /\ SemidominatorsFound(P, A, s, c)
    /\ \A n \in 0 .. c - 1 : s[n] = n
    /\ s[c] <= c
    /\ SemidominatorBounded(P, A, s, c, left)

LEMMA ConsideredArc ==
    ASSUME NEW P, NEW A, DepthFirst(P, A), NEW c \in Nodes(P), c # 0, NEW s,
           NEW left, Considering(P, A, s, c, left),
           NEW v, <<v, c>> \in A, NEW q, Answers(P, s, c, v, q),
           NEW rest, \A u \in left : u = v \/ u \in rest,
           NEW r, r = Improved(s, c, q)
    PROVE  /\ Considering(P, A, r, c, rest)
           /\ r \in [Nodes(P) -> Nodes(P)]
           /\ \A n \in Nodes(P) : n > c => r[n] = s[n]
  <1> USE DEF Improved, Considering
  <1>1. /\ Tree(P) /\ A \subseteq Nodes(P) \X Nodes(P) /\ v \in Nodes(P) /\ q \in Nodes(P)
        /\ s \in [Nodes(P) -> Nodes(P)]
    BY DEF DepthFirst, Answers, SemidominatorsFound
  <1>2. \A n \in Nodes(P) : n \in Nat
    BY <1>1, TreeFacts
  <1>3. /\ c \in Nat /\ v \in Nat /\ q \in Nat /\ s[q] \in Nodes(P) /\ s[c] \in Nodes(P)
        /\ s[q] \in Nat /\ s[c] \in Nat
    BY <1>1, <1>2
  <1>4. /\ r \in [Nodes(P) -> Nodes(P)] /\ r[c] = (IF s[q] < s[c] THEN s[q] ELSE s[c])
        /\ \A n \in Nodes(P) : n # c => r[n] = s[n]
    BY <1>1, <1>3
  <1>5. r[c] <= s[c] /\ r[c] <= s[q] /\ r[c] \in Nat
    BY <1>3, <1>4
  <1>6. \A n \in Nodes(P) : n > c => r[n] = s[n]
    BY <1>2, <1>3, <1>4
  <1>9. r[c] = c \/ Candidate(P, A, r[c], c)
    BY <1>4, <1>3, CandidatesClosed, <1>1, CandidateByEvaluation DEF SemidominatorBounded,
       Answers, SemidominatorsFound, Semidominator
  <1>10. ASSUME NEW z \in Nodes(P), <<z, c>> \in A, z \notin rest
         PROVE  /\ z < c => r[c] <= z
                /\ \A u \in Nodes(P) : u > c /\ Ancestor(P, u, z) => r[c] <= r[u]
    <2>1. CASE z # v
      <3>2. /\ z < c => s[c] <= z
            /\ \A u \in Nodes(P) : u > c /\ Ancestor(P, u, z) => s[c] <= s[u]
        BY <1>10, <2>1 DEF SemidominatorBounded
      <3>4. ASSUME NEW u \in Nodes(P), u > c, Ancestor(P, u, z)
            PROVE  r[c] <= r[u]
        <4>1. s[c] <= s[u] /\ r[u] = s[u] /\ s[u] \in Nodes(P)
          BY <1>1, <1>6, <3>2, <3>4
        <4> QED
          BY <1>2, <1>3, <1>5, <4>1
      <3> QED
        BY <1>2, <1>3, <1>5, <3>2, <3>4
    <2>2. CASE z = v
      <3>1. ASSUME z < c
            PROVE  r[c] <= z
        BY <1>3, <2>2, <3>1, <1>5 DEF Answers
      <3>2. ASSUME NEW u \in Nodes(P), u > c, Ancestor(P, u, z)
            PROVE  r[c] <= r[u]
        <4>3. s[q] <= s[u] /\ r[u] = s[u] /\ s[u] \in Nodes(P)
          BY <1>1, <1>6, <2>2, <3>2, <1>2, <1>3, AncestorIsLess DEF Answers
        <4> QED
          BY <1>2, <1>3, <1>5, <4>3
      <3> QED
        BY <3>1, <3>2
    <2> QED
      BY <2>1, <2>2
  <1>11. SemidominatorBounded(P, A, r, c, rest)
    BY <1>9, <1>10 DEF SemidominatorBounded
  <1> QED
    BY <1>4, <1>6, <1>2, <1>3, <1>11, <1>5, SMTT(30) DEF Nodes, SemidominatorsFound

(* When every arc has been considered the semidominator is found. *)
LEMMA ArcsConsidered ==
    ASSUME NEW P, NEW A, DepthFirst(P, A), NEW c \in Nodes(P), c # 0, NEW s,
           SemidominatorsFound(P, A, s, c), s[c] <= c, SemidominatorBounded(P, A, s, c, {})
    PROVE  SemidominatorsFound(P, A, s, c - 1)
  <1>1. Tree(P) /\ s \in [Nodes(P) -> Nodes(P)] /\ \A n \in Nodes(P) : n \in Nat
    BY TreeFacts DEF DepthFirst, SemidominatorsFound
  <1>2. c \in Nat /\ s[c] \in Nodes(P) /\ s[c] \in Nat
    BY <1>1
  <1>3. BoundsArcs(P, A, s[c], c)
    <2> SUFFICES ASSUME NEW v \in Nodes(P), <<v, c>> \in A
                 PROVE  /\ v < c => s[c] <= v
                        /\ \A u \in Nodes(P) : u > c /\ Ancestor(P, u, v) =>
                               \A x \in Nodes(P) : Candidate(P, A, x, u) => s[c] <= x
      BY DEF BoundsArcs
    <2>1. /\ v < c => s[c] <= v
          /\ \A u \in Nodes(P) : u > c /\ Ancestor(P, u, v) => s[c] <= s[u]
      BY DEF SemidominatorBounded
    <2>2. ASSUME NEW u \in Nodes(P), u > c, Ancestor(P, u, v),
                 NEW x \in Nodes(P), Candidate(P, A, x, u)
          PROVE  s[c] <= x
      <3>2. s[c] <= s[u] /\ s[u] \in Nat /\ x \in Nat
        BY <1>1, <2>1, <2>2
      <3> QED
        BY <1>2, <2>2, <3>2 DEF SemidominatorsFound, Semidominator
    <2> QED
      BY <2>1, <2>2
  <1>4. \A m \in Nodes(P) : Candidate(P, A, m, c) => s[c] <= m
    BY <1>2, <1>3, CandidatesBounded
  <1>5. Candidate(P, A, s[c], c)
    BY <1>1, TreeFacts, CandidatesClosed, <1>2, <1>4 DEF DepthFirst, SemidominatorBounded
  <1>6. ASSUME NEW n \in Nodes(P), n > c - 1
        PROVE  Semidominator(P, A, s[n], n)
    BY <1>1, <1>2, <1>6, <1>4, <1>5 DEF Semidominator, SemidominatorsFound
  <1> QED
    BY <1>1, <1>6 DEF SemidominatorsFound
-----------------------------------------------------------------------------
(* Buckets.  When c is linked, the numbers left in the buckets have an     *)
(* unlinked number on their paths yet, and those in the bucket that is     *)
(* emptied next have the parent of c for their semidominator.              *)
Filled(b, s, c) == [b EXCEPT ![s[c]] = Append(@, c)]

Emptied(b, p) == [b EXCEPT ![p] = << >>]

LEMMA BucketsAfterLink ==
    ASSUME NEW P, NEW A, DepthFirst(P, A), NEW c \in Nodes(P), c # 0, NEW s,
           SemidominatorsFound(P, A, s, c - 1), NEW b, Buckets(P, s, b, c),
           NEW p, p = P[c + 1],
           NEW filled, filled = Filled(b, s, c), NEW e, e = Emptied(filled, p)
    PROVE  /\ Buckets(P, s, e, c - 1)
           /\ filled[p] \in Seq(Nodes(P))
           /\ \A w \in ToSet(filled[p]) : w >= c /\ s[w] = p
           /\ \A d : Tracked(P, s, b, d, c, {}) => Tracked(P, s, e, d, c - 1, ToSet(filled[p]))
  <1> USE DEF Filled, Emptied
  <1>1. /\ Tree(P) /\ s \in [Nodes(P) -> Nodes(P)] /\ b \in [Nodes(P) -> Seq(Nodes(P))]
        /\ \A n \in Nodes(P) : n \in Nat
    BY TreeFacts DEF DepthFirst, SemidominatorsFound, Buckets
  <1>2. c \in Nat /\ s[c] \in Nodes(P) /\ s[c] \in Nat
    BY <1>1
  <1>3. p \in Nodes(P) /\ p < c /\ p \in Nat /\ Ancestor(P, p, c)
    BY <1>1, TreeFacts, ParentIsAncestor
  <1>5. Ancestor(P, s[c], c) /\ s[c] < c
    BY <1>2, SemidominatorIsAncestor DEF SemidominatorsFound
  <1> PICK f : f = Append(b[s[c]], c)
    OBVIOUS
  <1>6. f \in Seq(Nodes(P)) /\ ToSet(f) = ToSet(b[s[c]]) \cup {c}
    <2> PICK g : g = b[s[c]]
      OBVIOUS
    <2>2. g \in Seq(Nodes(P)) /\ f = Append(g, c) /\ Len(g) \in Nat
      BY <1>1, <1>2
    <2>3. /\ f \in Seq(Nodes(P)) /\ DOMAIN f = 1 .. Len(g) + 1 /\ DOMAIN g = 1 .. Len(g)
          /\ f[Len(g) + 1] = c /\ \A i \in 1 .. Len(g) : f[i] = g[i]
      BY <2>2
    <2>4. ToSet(f) \subseteq ToSet(g) \cup {c}
      <3> SUFFICES ASSUME NEW i \in 1 .. Len(g) + 1 PROVE f[i] \in ToSet(g) \cup {c}
        BY <2>3 DEF ToSet
      <3>1. CASE i = Len(g) + 1
        BY <2>3, <3>1
      <3>2. CASE i # Len(g) + 1
        BY ONLY <2>2, <3>2, <2>3 DEF ToSet
      <3> QED
        BY <3>1, <3>2
    <2> QED
      BY <2>3, <2>4, <2>2 DEF ToSet
  <1>7. /\ filled \in [Nodes(P) -> Seq(Nodes(P))] /\ filled[s[c]] = f
        /\ \A n \in Nodes(P) : n # s[c] => filled[n] = b[n]
    <2> PICK S : S = Seq(Nodes(P))
      OBVIOUS
    <2> QED
      BY <1>1, <1>2, <1>6
  <1>8. /\ e \in [Nodes(P) -> Seq(Nodes(P))] /\ e[p] = << >>
        /\ \A n \in Nodes(P) : n # p => e[n] = filled[n]
    <2> PICK S : S = Seq(Nodes(P))
      OBVIOUS
    <2>1. filled \in [Nodes(P) -> S] /\ << >> \in S
      BY <1>7
    <2>2. e \in [Nodes(P) -> S]
      BY ONLY <1>3, <2>1, e = [filled EXCEPT ![p] = << >>]
    <2> QED
      BY <1>3, <1>7, <2>2
  <1>9. ASSUME NEW n \in Nodes(P), NEW w \in ToSet(filled[n])
        PROVE  /\ w \in Nodes(P) /\ s[w] = n /\ w >= c /\ w > c - 1
               /\ w = c \/ w \in ToSet(b[n])
    <2>2. CASE w = c /\ n = s[c]
      BY <1>2, <2>2
    <2>3. CASE w \in ToSet(b[n])
      <3>3. w \in Nodes(P)
        BY <2>3, <1>1 DEF ToSet
      <3> QED
        BY <1>2, <2>3, <3>3, <1>1 DEF Buckets
    <2> QED
      BY <1>6, <1>7, <1>9, <2>2, <2>3
  <1>10. ASSUME NEW n \in Nodes(P), NEW w \in ToSet(e[n])
         PROVE  /\ w > c - 1 /\ s[w] = n
                /\ \E y \in Nodes(P) : Between(P, n, y, w) /\ y <= c - 1
    <2>1. n # p
      BY <1>8, <1>10 DEF ToSet
    <2>3. /\ w \in Nodes(P) /\ s[w] = n /\ w > c - 1 /\ (w = c \/ w \in ToSet(b[n]))
      BY <1>9, <1>8, <1>10, <2>1
    <2>4. \E y \in Nodes(P) : Between(P, n, y, w) /\ y <= c
      <3>1. CASE w = c
        BY <1>2, <1>5, <2>3, <3>1, AncestorOfSelf DEF Between
      <3>2. CASE w \in ToSet(b[n])
        BY <3>2 DEF Buckets
      <3> QED
        BY <2>3, <3>1, <3>2
    <2>5. PICK y \in Nodes(P) : Between(P, n, y, w) /\ y <= c
      BY <2>4
    <2>7. CASE y # c
      BY <1>2, <2>5, <1>1, <2>7, <2>3
    <2>8. CASE y = c
      <3>3. Between(P, n, p, w)
        BY <1>3, <2>1, <2>5, <2>8, <1>1, AncestorByParent, AncestorTransitive DEF Between
      <3> QED
        BY <1>3, <2>3, <3>3, <1>2
    <2> QED
      BY <2>7, <2>8
  <1>11. Buckets(P, s, e, c - 1)
    BY <1>8, <1>10 DEF Buckets
  <1>12. ASSUME NEW d, Tracked(P, s, b, d, c, {}), NEW w \in Nodes(P), w > c - 1
         PROVE  Settled(P, s, d[w], w, c - 1) \/ w \in ToSet(e[s[w]]) \/ w \in ToSet(filled[p])
    <2>2. Settled(P, s, d[w], w, c - 1) \/ w \in ToSet(filled[s[w]])
      BY <1>6, <1>7, <1>12, <1>1, <1>2 DEF Tracked, Settled
    <2>3. CASE s[w] = p
      BY <2>2, <2>3
    <2>4. CASE s[w] # p
      BY <1>1, <1>8, <2>2, <2>4
    <2> QED
      BY <2>3, <2>4
  <1> QED
    BY ONLY <1>3, <1>9, <1>11, <1>12, <1>7 DEF Tracked

(* A number of the bucket that is emptied: all numbers between the parent  *)
(* of c and it are linked, and its answer tells its dominator.             *)
LEMMA PendingSettled ==
    ASSUME NEW P, NEW A, DepthFirst(P, A), NEW c \in Nodes(P), c # 0, NEW s,
           SemidominatorsFound(P, A, s, c - 1), NEW w \in Nodes(P), w >= c,
           NEW p, p = P[c + 1], s[w] = p, NEW q, Answers(P, s, c - 1, w, q),
           NEW x, x = IF s[q] < s[w] THEN q ELSE p
    PROVE  Settled(P, s, x, w, c - 1)
  <1>1. /\ Tree(P) /\ s \in [Nodes(P) -> Nodes(P)] /\ \A n \in Nodes(P) : n \in Nat
    BY TreeFacts DEF DepthFirst, SemidominatorsFound
  <1>2. c \in Nat /\ w \in Nat /\ w > c - 1 /\ w # 0 /\ s[w] \in Nat
    BY <1>1
  <1>3. p \in Nodes(P) /\ p < c /\ p \in Nat
    BY <1>1, TreeFacts
  <1>4. Ancestor(P, p, w)
    BY <1>2, SemidominatorIsAncestor DEF SemidominatorsFound
  <1>5. ASSUME NEW y \in Nodes(P), Between(P, p, y, w)
        PROVE  y > c - 1
    <2>1. Ancestor(P, p, y) /\ y # p /\ Ancestor(P, y, w) /\ y \in Nat
      BY <1>1, <1>5 DEF Between
    <2> SUFFICES ASSUME y < c PROVE FALSE
      BY <1>2, <2>1
    <2>3. y <= c /\ c <= w /\ y # c
      BY <1>2, <2>1
    <2>6. y <= p
      BY <1>1, <2>3, <1>2, <2>1, DescendantsAreContiguous, AncestorByParent, AncestorIsLess
    <2> QED
      BY <1>3, <2>1, <1>1, AncestorIsLess, <2>6
  <1>6. /\ q \in Nodes(P) /\ Ancestor(P, q, w) /\ q > c - 1
        /\ \A y \in Nodes(P) : y > c - 1 /\ Ancestor(P, y, w) => s[q] <= s[y]
    BY <1>2 DEF Answers
  <1>7. q \in Nat /\ s[q] \in Nat
    BY <1>1, <1>6
  <1>8. Between(P, p, q, w)
    BY <1>2, <1>3, <1>6, <1>7, <1>1, <1>4, AncestorsComparable DEF Between
  <1>9. \A y \in Nodes(P) : Between(P, p, y, w) => s[q] <= s[y] /\ s[y] \in Nat
    BY <1>1, <1>5, <1>6 DEF Between
  <1>10. ASSUME s[q] < s[w]
         PROVE  Resolved(P, s, x, w)
    BY <1>8, <1>9, <1>10 DEF Resolved
  <1>11. ASSUME ~(s[q] < s[w])
         PROVE  Resolved(P, s, x, w)
    BY <1>2, <1>7, <1>11, <1>9 DEF Resolved
  <1> QED
    BY <1>5, <1>10, <1>11 DEF Settled

(* When all numbers but the root are linked the buckets are empty. *)
LEMMA BucketsEmpty ==
    ASSUME NEW P, Tree(P), NEW s, NEW b, NEW d, Buckets(P, s, b, 0), Tracked(P, s, b, d, 0, {}),
           s \in [Nodes(P) -> Nodes(P)]
    PROVE  \A w \in Nodes(P) : w > 0 => Resolved(P, s, d[w], w)
  <1> SUFFICES ASSUME NEW w \in Nodes(P), w > 0, w \in ToSet(b[s[w]])
               PROVE  FALSE
    BY DEF Tracked, Settled
  <1>1. s[w] \in Nodes(P) /\ \A n \in Nodes(P) : n \in Nat
    BY TreeFacts
  <1>2. PICK y \in Nodes(P) : Between(P, s[w], y, w) /\ y <= 0
    BY <1>1 DEF Buckets
  <1> QED
    BY <1>1, <1>2, AncestorIsLess DEF Between

(* The last pass. *)
LEMMA Corrected ==
    ASSUME NEW P, NEW A, DepthFirst(P, A), NEW s, SemidominatorsFound(P, A, s, 0),
           NEW w \in Nodes(P), w # 0, NEW d, Resolved(P, s, d[w], w),
           \A n \in 1 .. w - 1 : ImmediateDominator(P, A, d[n], n),
           NEW x, x = IF d[w] # s[w] THEN d[d[w]] ELSE d[w]
    PROVE  ImmediateDominator(P, A, x, w) /\ d[w] # None
  <1>1. /\ Tree(P) /\ s \in [Nodes(P) -> Nodes(P)] /\ \A n \in Nodes(P) : n \in Nat
    BY TreeFacts DEF DepthFirst, SemidominatorsFound
  <1>2. w \in Nat /\ s[w] \in Nodes(P) /\ s[w] \in Nat
    BY <1>1
  <1>3. \A y \in Nodes(P) : y # 0 => Semidominator(P, A, s[y], y)
    BY <1>1 DEF SemidominatorsFound
  <1>4. ASSUME NEW y \in Nodes(P), Between(P, s[w], y, w), NEW t \in Nat, t <= s[y],
               NEW m \in Nodes(P), Candidate(P, A, m, y)
        PROVE  t <= m
    <2>2. s[y] <= m
      BY <1>3, <1>4, <1>1, AncestorIsLess, <1>2 DEF Semidominator, Between
    <2> QED
      BY <1>4, <2>2, <1>1
  <1>5. CASE d[w] = s[w] /\ \A y \in Nodes(P) : Between(P, s[w], y, w) => s[w] <= s[y]
    BY <1>2, <1>4, <1>5, <1>3, SemidominatorDominates DEF Sheltered, None
  <1>6. CASE /\ Between(P, s[w], d[w], w) /\ s[d[w]] < s[w]
             /\ \A y \in Nodes(P) : Between(P, s[w], y, w) => s[d[w]] <= s[y]
    <2> PICK u : u = d[w]
      OBVIOUS
    <2>1. Ancestor(P, s[w], u) /\ u # s[w] /\ Ancestor(P, u, w) /\ s[u] < s[w]
      BY <1>6 DEF Between
    <2>2. u \in Nodes(P) /\ u \in Nat /\ u <= w /\ s[w] <= u
      BY <1>1, <2>1, AncestorIsLess
    <2>3. u # w /\ u # 0
      BY <1>1, <2>2, <1>2, <2>1
    <2>5. ImmediateDominator(P, A, d[u], u) /\ x = d[u]
      BY <2>1, <1>2, <2>2, <2>3
    <2>10. ImmediateDominator(P, A, d[u], w)
      BY <2>1, <2>5, <1>4, <1>6, <1>1, <2>2, <1>3, <2>3, DominatorsOfTheLeast
    <2> QED
      BY <2>2, <2>5, <2>10 DEF None
  <1> QED
    BY <1>5, <1>6 DEF Resolved
-----------------------------------------------------------------------------
(* F[k] is the first k of n sequences, one after the other.                *)
Joins(T, n, s, F) ==
    /\ n \in Nat
    /\ \A k \in 1 .. n : s[k] \in Seq(T)
    /\ F \in [0 .. n -> Seq(T)]
    /\ F[0] = << >>
    /\ \A k \in 1 .. n : F[k] = F[k - 1] \o s[k]

(* The sequences of a sequence can be joined one after the other.          *)
LEMMA Concatenations ==
    ASSUME NEW T, NEW n \in Nat, NEW s, \A k \in 1 .. n : s[k] \in Seq(T)
    PROVE  \E F : Joins(T, n, s, F)
  <1> DEFINE V == Seq(T)
             b == << >>
             step == [ k \in 1 .. n |-> [ v \in V |-> v \o s[k] ] ]
  <1>1. b \in V
    OBVIOUS
  <1>2. \A k \in 1 .. n : \A v \in V : v \o s[k] \in V
    OBVIOUS
  <1>3. step \in [1 .. n -> [V -> V]]
    <2> HIDE DEF V
    <2> QED
      BY <1>2
  <1>4. PICK g \in [0 .. n -> V] : g[0] = b /\ \A k \in 1 .. n : g[k] = step[k][g[k - 1]]
    <2> HIDE DEF step, V, b
    <2> QED
      BY ONLY <1>1, <1>3, Recursion
  <1>5. \A k \in 1 .. n : g[k] = g[k - 1] \o s[k]
    <2> SUFFICES ASSUME NEW k \in 1 .. n PROVE g[k] = g[k - 1] \o s[k]
      OBVIOUS
    <2> HIDE DEF V
    <2>1. g[k - 1] \in V
      OBVIOUS
    <2> QED
      BY <1>4, <2>1
  <1>6. g \in [0 .. n -> Seq(T)] /\ g[0] = << >>
    BY <1>4
  <1> HIDE DEF step, V, b
  <1> QED
    BY <1>5, <1>6 DEF Joins

(* That is what flattening computes.                                       *)
LEMMA Flattened ==
    ASSUME NEW T, NEW s \in Seq(Seq(T)), NEW F, Joins(T, Len(s), s, F)
    PROVE  FlattenSeq(s) = F[Len(s)]
  <1> USE DEF Joins
  <1> DEFINE n == Len(s)
             Steps(f) == [ i \in 1 .. n |-> IF i = 1 THEN s[i] ELSE f[i - 1] \o s[i] ]
             G == [ i \in 1 .. n |-> F[i] ]
             H == CHOOSE f : f = Steps(f)
  <1>1. n \in Nat
    OBVIOUS
  <1>2. CASE n = 0
    <2>1. s = << >>
      BY <1>2
    <2> QED
      BY <1>2, <2>1 DEF FlattenSeq
  <1>3. CASE n # 0
    <2>1. \A i \in 1 .. n : G[i] = IF i = 1 THEN s[i] ELSE G[i - 1] \o s[i]
      <3> SUFFICES ASSUME NEW i \in 1 .. n
                   PROVE  G[i] = IF i = 1 THEN s[i] ELSE G[i - 1] \o s[i]
        OBVIOUS
      <3>1. G[i] = F[i] /\ F[i] = F[i - 1] \o s[i]
        OBVIOUS
      <3>2. CASE i = 1
        <4>1. s[i] \in Seq(T) /\ i - 1 = 0
          BY <3>2
        <4>2. << >> \o s[i] = s[i]
          BY <4>1
        <4> QED
          BY <3>1, <3>2, <4>1, <4>2
      <3>3. CASE i # 1
        <4>1. i - 1 \in 1 .. n
          BY <1>1, <3>3
        <4> QED
          BY <3>1, <3>3, <4>1
      <3> QED
        BY <3>2, <3>3
    <2>2. G = Steps(G)
      <3> HIDE DEF n
      <3> QED
        BY <2>1
    <2>3. H = Steps(H)
      <3> HIDE DEF Steps, G
      <3> QED
        BY <2>2
    <2> HIDE DEF H
    <2>4. \A i \in 1 .. n : H[i] = IF i = 1 THEN s[i] ELSE H[i - 1] \o s[i]
      <3> SUFFICES ASSUME NEW i \in 1 .. n
                   PROVE  H[i] = IF i = 1 THEN s[i] ELSE H[i - 1] \o s[i]
        OBVIOUS
      <3>1. H[i] = Steps(H)[i]
        BY <2>3
      <3> QED
        BY <3>1
    <2> DEFINE S == { i \in Nat : 1 <= i /\ i <= n => H[i] = F[i] }
    <2>5. 0 \in S
      OBVIOUS
    <2>6. ASSUME NEW i \in Nat, i \in S PROVE i + 1 \in S
      <3> SUFFICES ASSUME i + 1 <= n PROVE H[i + 1] = F[i + 1]
        OBVIOUS
      <3> DEFINE j == i + 1
      <3>0. j \in 1 .. n /\ j - 1 = i /\ (j # 1 => H[i] = F[i])
        BY <1>1, <2>6
      <3> HIDE DEF j, n, S, G
      <3>2. G[j] = F[j]
        BY <3>0 DEF G
      <3>1. j \in 1 .. n /\ j - 1 = i /\ (j # 1 => H[i] = F[i]) /\ (j = 1 => G[j] = s[j])
        BY <2>1, <3>0
      <3>3. H[j] = F[j]
        <4>1. CASE j = 1
          BY <2>4, <3>1, <3>2, <4>1
        <4>2. CASE j # 1
          <5>1. H[j] = H[j - 1] \o s[j]
            BY <2>4, <3>1, <4>2
          <5>2. F[j] = F[j - 1] \o s[j]
            BY <3>1 DEF n
          <5> QED
            BY <3>1, <4>2, <5>1, <5>2
        <4> QED
          BY <4>1, <4>2
      <3> QED
        BY <3>3 DEF j
    <2>7. Nat \subseteq S
      <3> HIDE DEF S
      <3> QED
        BY <2>5, <2>6, InductiveSet
    <2>8. H[n] = F[n]
      <3> HIDE DEF n
      <3> QED
        BY <1>1, <1>3, <2>7
    <2>9. FlattenSeq(s) = H[n]
      BY <1>3 DEF FlattenSeq, H
    <2> QED
      BY <2>8, <2>9
  <1> QED
    BY <1>2, <1>3

(* Two sequences, one after the other.                                     *)
LEMMA Joined ==
    ASSUME NEW T, NEW a \in Seq(T), NEW b \in Seq(T), NEW c, c = a \o b
    PROVE  /\ c \in Seq(T) /\ Len(a) \in Nat /\ Len(b) \in Nat
           /\ Len(c) = Len(a) + Len(b)
           /\ \A i \in 1 .. Len(a) : c[i] = a[i]
           /\ \A i \in 1 .. Len(b) : c[Len(a) + i] = b[i]
  OBVIOUS

(* Their members. *)
LEMMA JoinedMembers ==
    ASSUME NEW T, NEW a \in Seq(T), NEW b \in Seq(T), NEW c, c = a \o b
    PROVE  \A x : x \in ToSet(c) <=> x \in ToSet(a) \/ x \in ToSet(b)
  <1> PICK la : la = Len(a)
    OBVIOUS
  <1> PICK lb : lb = Len(b)
    OBVIOUS
  <1>1. la \in Nat /\ lb \in Nat /\ DOMAIN a = 1 .. la /\ DOMAIN b = 1 .. lb
    OBVIOUS
  <1>2. DOMAIN c = 1 .. la + lb
    BY Joined
  <1>3. \A i \in 1 .. la : c[i] = a[i]
    BY Joined
  <1>4. \A i \in 1 .. lb : c[la + i] = b[i]
    BY Joined
  <1>5. ASSUME NEW i \in 1 .. la + lb, ~(i <= la)
        PROVE  \E j \in 1 .. lb : c[i] = b[j]
    <2>1. i - la \in 1 .. lb /\ la + (i - la) = i
      BY ONLY <1>1, <1>5
    <2> QED
      BY ONLY <2>1, <1>4
  <1>9. ToSet(c) = { c[i] : i \in 1 .. la + lb } /\ ToSet(a) = { a[i] : i \in 1 .. la }
        /\ ToSet(b) = { b[i] : i \in 1 .. lb }
    BY ONLY <1>1, <1>2 DEF ToSet
  <1>10. ASSUME NEW i \in 1 .. la + lb
         PROVE  c[i] \in ToSet(a) \/ c[i] \in ToSet(b)
    BY ONLY <1>3, <1>5, <1>1, <1>9, <1>10
  <1>11. \A i \in 1 .. la : a[i] \in ToSet(c)
    BY ONLY <1>3, <1>1, <1>9
  <1>12. \A i \in 1 .. lb : b[i] \in ToSet(c)
    BY ONLY <1>4, <1>1, <1>9
  <1> QED
    BY ONLY <1>9, <1>10, <1>11, <1>12

(* Flattening: the members are those of the sequences that are joined. *)
LEMMA FlattenedMembers ==
    ASSUME NEW T, NEW s \in Seq(Seq(T))
    PROVE  /\ FlattenSeq(s) \in Seq(T)
           /\ \A x : x \in ToSet(FlattenSeq(s)) <=> \E k \in 1 .. Len(s) : x \in ToSet(s[k])
  <1> PICK n : n = Len(s)
    OBVIOUS
  <1>1. n \in Nat /\ \A k \in 1 .. n : s[k] \in Seq(T)
    OBVIOUS
  <1>2. PICK F : Joins(T, n, s, F)
    BY <1>1, Concatenations
  <1>4. /\ F \in [0 .. n -> Seq(T)] /\ F[0] = << >>
        /\ \A k \in 1 .. n : F[k] = F[k - 1] \o s[k]
    BY <1>2 DEF Joins
  <1> DEFINE Has(k) == \A x : x \in ToSet(F[k]) <=> \E j \in 1 .. k : x \in ToSet(s[j])
             S == { k \in Nat : k <= n => Has(k) }
  <1>5. 0 \in S
    BY <1>4 DEF ToSet
  <1>6. ASSUME NEW k \in Nat, k \in S
        PROVE  k + 1 \in S
    <2> SUFFICES ASSUME k + 1 <= n PROVE Has(k + 1)
      OBVIOUS
    <2> PICK a : a = F[k]
      OBVIOUS
    <2> PICK b : b = s[k + 1]
      OBVIOUS
    <2> PICK c : c = F[k + 1]
      OBVIOUS
    <2>1. k \in 0 .. n /\ k <= n /\ k + 1 \in 1 .. n /\ (k + 1) - 1 = k
      BY <1>1
    <2>2. a \in Seq(T) /\ b \in Seq(T) /\ c = a \o b
      BY <1>1, <1>4, <2>1
    <2>8. \A x : x \in ToSet(c) <=> x \in ToSet(a) \/ x \in ToSet(b)
      <3>1. a \in Seq(T)
        BY <2>2
      <3>2. b \in Seq(T)
        BY <2>2
      <3>3. c = a \o b
        BY <2>2
      <3> QED
        BY ONLY <3>1, <3>2, <3>3, JoinedMembers
    <2>10. \A j \in 1 .. k + 1 : j = k + 1 \/ j \in 1 .. k
      BY <2>1
    <2>11. \A j \in 1 .. k : j \in 1 .. k + 1
      OBVIOUS
    <2>12. k + 1 \in 1 .. k + 1
      OBVIOUS
    <2> QED
      BY <2>8, <1>6, <2>1, <2>10, <2>11, <2>12
  <1>7. Has(n)
    <2>1. n \in S
      <3> HIDE DEF S
      <3> QED
        BY <1>1, <1>5, <1>6, InductiveSet
    <2> QED
      BY <2>1
  <1> QED
    BY <1>2, Flattened, <1>7, <1>1, <1>4
-----------------------------------------------------------------------------
(* The arcs between the numbers are those of a depth-first search. *)
LEMMA SearchIsDepthFirst ==
    ASSUME SearchInv, Explored
    PROVE  DepthFirst(parent, Arcs)
  <1>1. SearchTypes /\ TreeFromArcs
    BY DEF SearchInv
  <1>2. Tree(parent) /\ parent # << >> /\ Arcs \subseteq Nodes(parent) \X Nodes(parent)
    BY <1>1 DEF SearchTypes, Arcs
  <1>3. ASSUME NEW n \in Nodes(parent), n # 0
        PROVE  /\ <<parent[n + 1], n>> \in Arcs
               /\ \A m \in parent[n + 1] .. n : Ancestor(parent, parent[n + 1], m)
    BY <1>2, <1>3, TreeFacts, <1>1 DEF TreeFromArcs, Parent, Arcs
  <1>4. ASSUME NEW e \in Arcs, e[1] <= e[2]
        PROVE  Ancestor(parent, e[1], e[2])
    <2> PICK v : v = VertexOf(e[1])
      OBVIOUS
    <2>1. /\ e[1] \in Nodes(parent) /\ e[2] \in Nodes(parent)
          /\ VertexOf(e[2]) \in Targets(input.succ, v)
      BY DEF Arcs
    <2>2. PICK i \in DOMAIN input.succ[v] : input.succ[v][i] = VertexOf(e[2])
      BY <2>1 DEF Targets
    <2>3. number[v] = e[1] /\ number[VertexOf(e[2])] = e[2]
      BY <1>1, <2>1 DEF SearchTypes
    <2>4. v \in Vertices
      BY <1>1, <2>1, MemberOfSequence, SMTT(30) DEF SearchTypes, Nodes, Tree, VertexOf
    <2>6. Seen(number, parent, v, VertexOf(e[2]))
      BY <2>2, <2>4, <1>2, <2>1, TreeFacts, <2>3 DEF Explored, Numbered, None
    <2> QED
      BY <1>4, <2>3, <2>6 DEF Seen
  <1> QED
    BY <1>2, <1>3, <1>4 DEF DepthFirst

(* The predecessors that the loop looks at are the sources of the arcs. *)
LEMMA PredecessorFacts ==
    ASSUME SearchInv, NEW n \in Nodes(parent)
    PROVE  /\ PredecessorNumbers(n) \in Seq(Nodes(parent))
           /\ \A v : v \in ToSet(PredecessorNumbers(n)) <=> <<v, n>> \in Arcs
  <1> DEFINE From(m) == { i \in DOMAIN input.succ[VertexOf(m)] :
                             number[input.succ[VertexOf(m)][i]] = n }
             part(k) == [ i \in 1 .. Cardinality(From(k - 1)) |-> k - 1 ]
             s == [ k \in 1 .. Len(preorder) |-> part(k) ]
  <1>1. SearchTypes
    BY DEF SearchInv
  <1>2. Len(preorder) \in Nat /\ Nodes(parent) = 0 .. Len(preorder) - 1
    BY <1>1 DEF SearchTypes, Tree, Nodes
  <1>3. ASSUME NEW m \in Nodes(parent)
        PROVE  /\ VertexOf(m) \in Vertices /\ input.succ[VertexOf(m)] \in Seq(Vertices)
               /\ IsFiniteSet(From(m)) /\ Cardinality(From(m)) \in Nat
    <2>1. VertexOf(m) \in Vertices
      BY <1>1, <1>2, MemberOfSequence DEF SearchTypes, VertexOf
    <2>2. input.succ[VertexOf(m)] \in Seq(Vertices)
      BY <1>1, <2>1, GraphTypes DEF SearchTypes
    <2> PICK arcs : arcs = input.succ[VertexOf(m)]
      OBVIOUS
    <2>4. IsFiniteSet(DOMAIN arcs)
      BY <2>2, FS_Interval
    <2>5. From(m) \in SUBSET DOMAIN arcs
      OBVIOUS
    <2>6. IsFiniteSet(From(m)) /\ Cardinality(From(m)) \in Nat
      <3> HIDE DEF From
      <3> QED
        BY <2>4, <2>5, FS_Subset, FS_CardinalityType
    <2> QED
      BY <2>1, <2>2, <2>6
  <1>4. ASSUME NEW m \in Nodes(parent)
        PROVE  From(m) # {} <=> <<m, n>> \in Arcs
    <2>1. ASSUME NEW i \in DOMAIN input.succ[VertexOf(m)],
                 number[input.succ[VertexOf(m)][i]] = n
          PROVE  input.succ[VertexOf(m)][i] = VertexOf(n)
      <3> PICK w : w = input.succ[VertexOf(m)][i]
        OBVIOUS
      <3>1. w \in Vertices
        <4> PICK arcs : arcs = input.succ[VertexOf(m)]
          OBVIOUS
        <4>1. arcs \in Seq(Vertices)
          BY <1>3
        <4> QED
          BY <4>1, <2>1, MemberOfSequence
      <3> QED
        BY <2>1, <1>1, <3>1, <1>2 DEF SearchTypes, None, Numbered
    <2> QED
      BY <2>1, <1>1 DEF Targets, SearchTypes, Arcs
  <1> HIDE DEF From
  <1>5. ASSUME NEW k \in 1 .. Len(preorder)
        PROVE  /\ part(k) \in Seq(Nodes(parent)) /\ k - 1 \in Nodes(parent)
               /\ \A v : v \in ToSet(part(k)) <=> v = k - 1 /\ <<v, n>> \in Arcs
    <2> PICK h : h = Cardinality(From(k - 1))
      OBVIOUS
    <2>1. k - 1 \in Nodes(parent) /\ h \in Nat /\ (h = 0 <=> From(k - 1) = {})
      BY <1>2, <1>3, FS_EmptySet
    <2>3. ASSUME NEW v
          PROVE  v \in ToSet(part(k)) <=> v = k - 1 /\ h # 0
      <3>1. DOMAIN part(k) = 1 .. h /\ \A i \in 1 .. h : part(k)[i] = k - 1
        OBVIOUS
      <3> HIDE DEF part
      <3> QED
        BY <3>1, <2>1 DEF ToSet
    <2> QED
      BY <2>1, <2>3, <1>4
  <1> HIDE DEF part
  <1>6. s \in Seq(Seq(Nodes(parent))) /\ Len(s) = Len(preorder)
        /\ \A k \in 1 .. Len(preorder) : s[k] = part(k)
    BY <1>2, <1>5
  <1>7. PredecessorNumbers(n) = FlattenSeq(s)
    BY DEF PredecessorNumbers, From, part
  <1> HIDE DEF s
  <1>8. /\ FlattenSeq(s) \in Seq(Nodes(parent))
        /\ \A x : x \in ToSet(FlattenSeq(s)) <=> \E k \in 1 .. Len(s) : x \in ToSet(s[k])
    BY <1>6, FlattenedMembers
  <1>9. ASSUME NEW v
        PROVE  v \in ToSet(FlattenSeq(s)) <=> <<v, n>> \in Arcs
    <2>2. ASSUME <<v, n>> \in Arcs
          PROVE  \E k \in 1 .. Len(preorder) : v = k - 1
      <3>2. v + 1 \in 1 .. Len(preorder) /\ v = (v + 1) - 1
        BY <1>2, <2>2 DEF Arcs
      <3> QED
        BY <3>2
    <2> QED
      BY <1>5, <1>6, <1>8, <2>2
  <1> QED
    BY <1>7, <1>8, <1>9
-----------------------------------------------------------------------------
(* The loops.  The numbers and the arcs do not change any more. *)
LEMMA NumbersKept ==
    ASSUME UNCHANGED <<input, search>>
    PROVE  /\ Arcs' = Arcs /\ parent' = parent /\ preorder' = preorder /\ number' = number
           /\ input' = input /\ Vertices' = Vertices
  BY DEF search, Arcs, VertexOf, Vertices

LEMMA LoopFacts ==
    ASSUME SearchInv, DominatorsFound, phase # "searching"
    PROVE  /\ DepthFirst(parent, Arcs) /\ Tree(parent) /\ parent # << >>
           /\ Len(preorder) = Len(parent)
           /\ Len(parent) \in Nat \ {0} /\ Nodes(parent) = 0 .. Len(parent) - 1
           /\ phase # "logic_error"
           /\ SemidominatorsFound(parent, Arcs, semi, Threshold)
           /\ semi \in [Nodes(parent) -> Nodes(parent)]
           /\ idom \in [Nodes(parent) -> Int]
           /\ phase \in {"predecessors", "bucket"} => Linking
           /\ phase = "correcting" => Correcting
  <1> QED
    BY SearchIsDepthFirst DEF DominatorsFound, SemidominatorsFound, Nodes, SearchInv, Tree,
       SearchTypes

(* The next vertex, when the numbers larger than n are linked. *)
LEMMA VertexStarts ==
    ASSUME SearchInv, DepthFirst(parent, Arcs), NEW n \in Nodes(parent), StartVertex(n),
           UNCHANGED <<input, search>>,
           NEW a, NEW l, NEW s, NEW b, NEW d,
           a = ancestor', l = label', s = semi', b = bucket', d = idom',
           Forest(parent, a, l, s, n), SemidominatorsFound(parent, Arcs, s, n),
           \A k \in 0 .. n : s[k] = k,
           Buckets(parent, s, b, n), Tracked(parent, s, b, d, n, {}),
           d \in [Nodes(parent) -> Int]
    PROVE  DominatorsFound'
  <1> PICK P : P = parent
    OBVIOUS
  <1> PICK A : A = Arcs
    OBVIOUS
  <1>1. P' = parent' /\ Arcs' = A /\ parent' = P
    BY NumbersKept
  <1>2. /\ Tree(P) /\ Len(P) \in Nat /\ Nodes(P) = 0 .. Len(P) - 1 /\ n \in Nat
        /\ s \in [Nodes(P) -> Nodes(P)]
    BY DEF DepthFirst, Tree, Nodes, Forest
  <1>3. CASE n = 0
    BY <1>3, <1>2, BucketsEmpty, <1>1, SMTT(30) DEF StartVertex, Threshold, Correcting,
       DominatorsFound
  <1>4. CASE n # 0
    <2>1. phase' = "predecessors" /\ cursor' = n /\ waiting' = PredecessorNumbers(n)
          /\ Threshold' = n
      BY <1>4 DEF StartVertex, Threshold
    <2> PICK q : q = PredecessorNumbers(n)
      OBVIOUS
    <2>3. s[n] = n /\ n \in 1 .. Len(P) - 1 /\ s[n] <= n
      BY <1>2, <1>4
    <2>6. Linking'
      BY <1>1, <2>1, PredecessorFacts, <2>3, <1>2 DEF Linking, SemidominatorBounded
    <2> QED
      BY <1>1, <2>1, <2>6 DEF DominatorsFound
  <1> QED
    BY <1>3, <1>4

(* When the search is done no number is linked. *)
LEMMA ForestStarts ==
    ASSUME SearchInv, StartForest
    PROVE  DominatorsFound'
  <1> PICK P : P = parent
    OBVIOUS
  <1> PICK A : A = Arcs
    OBVIOUS
  <1> PICK n : n = Len(P) - 1
    OBVIOUS
  <1> PICK s : s = semi'
    OBVIOUS
  <1> PICK b : b = bucket'
    OBVIOUS
  <1> PICK d : d = idom'
    OBVIOUS
  <1> PICK a : a = ancestor'
    OBVIOUS
  <1> PICK l : l = label'
    OBVIOUS
  <1>1. phase = "searching" /\ stack = << >> /\ UNCHANGED <<input, search>>
        /\ StartVertex(Len(preorder) - 1)
    BY DEF StartForest
  <1>2. DepthFirst(P, A)
    BY <1>1, SearchEnds, SearchIsDepthFirst
  <1>3. Tree(P) /\ P # << >> /\ Len(preorder) = Len(P)
    BY DEF SearchInv, SearchTypes
  <1>4. /\ Len(P) \in Nat \ {0} /\ Nodes(P) = 0 .. n /\ Numbers = Nodes(P) /\ n \in Nodes(P)
        /\ n \in Nat
    BY <1>3 DEF Tree, Nodes, Numbers
  <1>5. /\ s = [ k \in Nodes(P) |-> k ] /\ l = [ k \in Nodes(P) |-> k ]
        /\ a = [ k \in Nodes(P) |-> None ] /\ b = [ k \in Nodes(P) |-> << >> ]
        /\ d = [ k \in Nodes(P) |-> IF k = 0 THEN 0 ELSE None ]
    BY <1>4 DEF StartForest
  <1>6. \A k \in Nodes(P) : k <= n /\ ~(k > n) /\ k \in Int
    BY <1>4
  <1>7. Forest(P, a, l, s, n)
    BY <1>5, <1>6 DEF Forest, None
  <1>8. SemidominatorsFound(P, A, s, n) /\ \A k \in 0 .. n : s[k] = k
    BY <1>4, <1>5, <1>6 DEF SemidominatorsFound
  <1>9. Buckets(P, s, b, n)
    BY <1>5 DEF ToSet, Buckets
  <1>10. Tracked(P, s, b, d, n, {}) /\ d \in [Nodes(P) -> Int]
    BY <1>5, <1>6 DEF Tracked, None
  <1> QED
    BY <1>1, <1>2, <1>3, <1>4, <1>7, <1>8, <1>9, <1>10, VertexStarts
-----------------------------------------------------------------------------
(* The first of the numbers that wait, and the others. *)
LEMMA FirstAndOthers ==
    ASSUME NEW S, NEW s \in Seq(S), s # << >>
    PROVE  /\ Head(s) \in S /\ Head(s) \in ToSet(s) /\ Tail(s) \in Seq(S)
           /\ ToSet(Tail(s)) \subseteq ToSet(s)
           /\ ToSet(s) \subseteq ToSet(Tail(s)) \cup {Head(s)}
  <1> PICK len : len = Len(s)
    OBVIOUS
  <1> PICK t : t = Tail(s)
    OBVIOUS
  <1>1. /\ len \in Nat /\ len # 0 /\ DOMAIN s = 1 .. len /\ Head(s) = s[1]
        /\ t \in Seq(S) /\ DOMAIN t = 1 .. len - 1
    OBVIOUS
  <1>2. \A i \in 1 .. len - 1 : t[i] = s[i + 1]
    OBVIOUS
  <1>5. ToSet(s) = { s[i] : i \in 1 .. len } /\ ToSet(t) = { t[i] : i \in 1 .. len - 1 }
    BY ONLY <1>1 DEF ToSet
  <1>8. \A i \in 1 .. len : s[i] \in ToSet(t) \cup {s[1]}
    BY ONLY <1>2, <1>1, <1>5
  <1> QED
    BY <1>1, <1>5, <1>2, <1>8

LEMMA PredecessorConsidered ==
    ASSUME SearchInv, DominatorsFound, ConsiderPredecessor
    PROVE  DominatorsFound'
  <1> PICK P : P = parent
    OBVIOUS
  <1> PICK A : A = Arcs
    OBVIOUS
  <1> PICK c : c = cursor
    OBVIOUS
  <1> PICK s : s = semi
    OBVIOUS
  <1> PICK v : v = Head(waiting)
    OBVIOUS
  <1> PICK rest : rest = Tail(waiting)
    OBVIOUS
  <1> PICK q : q = Evaluated(v).label[v]
    OBVIOUS
  <1> PICK r : r = Improved(s, c, q)
    OBVIOUS
  <1>1. /\ phase = "predecessors" /\ waiting # << >> /\ UNCHANGED <<input, search>>
        /\ ancestor' = Evaluated(v).ancestor /\ label' = Evaluated(v).label /\ semi' = r
        /\ waiting' = rest /\ phase' = phase /\ cursor' = c /\ bucket' = bucket /\ idom' = idom
    BY DEF ConsiderPredecessor, Improved
  <1>2. Arcs' = A /\ parent' = P
    BY <1>1, NumbersKept
  <1>3. /\ DepthFirst(P, A) /\ Tree(P) /\ Len(preorder) = Len(P) /\ Nodes(P) = 0 .. Len(P) - 1
        /\ Len(P) \in Nat
        /\ SemidominatorsFound(P, A, s, Threshold) /\ Linking
        /\ s \in [Nodes(P) -> Nodes(P)] /\ idom \in [Nodes(P) -> Int]
    BY <1>1, LoopFacts
  <1>4. Threshold = c /\ Threshold' = c
    BY <1>1 DEF Threshold
  <1>5. /\ c \in 1 .. Len(P) - 1 /\ waiting \in Seq(Nodes(P))
        /\ Forest(P, ancestor, label, s, c) /\ \A n \in 0 .. c - 1 : s[n] = n
        /\ Buckets(P, s, bucket, c) /\ s[c] <= c
        /\ \A u \in ToSet(waiting) : <<u, c>> \in A
        /\ SemidominatorBounded(P, A, s, c, ToSet(waiting))
        /\ Tracked(P, s, bucket, idom, c, {})
    BY <1>1, <1>3, <1>4 DEF Linking
  <1>6. c \in Nodes(P) /\ c # 0 /\ c \in Nat
    BY <1>3, <1>5
  <1>7. /\ v \in Nodes(P) /\ v \in ToSet(waiting) /\ rest \in Seq(Nodes(P))
        /\ ToSet(rest) \subseteq ToSet(waiting)
        /\ ToSet(waiting) \subseteq ToSet(rest) \cup {v}
    BY <1>1, <1>5, FirstAndOthers
  <1>8. Forest(P, Evaluated(v).ancestor, Evaluated(v).label, s, c) /\ Answers(P, s, c, v, q)
    BY <1>3, <1>5, <1>6, <1>7, EvaluationFacts
  <1>9. <<v, c>> \in A
    BY <1>5, <1>7
  <1>10. /\ SemidominatorsFound(P, A, r, c) /\ \A n \in 0 .. c - 1 : r[n] = n
         /\ r[c] <= c /\ SemidominatorBounded(P, A, r, c, ToSet(rest))
         /\ r \in [Nodes(P) -> Nodes(P)] /\ \A n \in Nodes(P) : n > c => r[n] = s[n]
    <2> PICK left : left = ToSet(waiting)
      OBVIOUS
    <2> PICK other : other = ToSet(rest)
      OBVIOUS
    <2>1. Considering(P, A, s, c, left)
      BY <1>3, <1>4, <1>5 DEF Considering
    <2>2. DepthFirst(P, A) /\ c \in Nodes(P) /\ c # 0 /\ <<v, c>> \in A
          /\ Answers(P, s, c, v, q)
      BY <1>3, <1>6, <1>8, <1>9
    <2>3. \A u \in left : u = v \/ u \in other
      BY <1>7
    <2>4. r = Improved(s, c, q)
      OBVIOUS
    <2>5. /\ Considering(P, A, r, c, other)
          /\ r \in [Nodes(P) -> Nodes(P)]
          /\ \A n \in Nodes(P) : n > c => r[n] = s[n]
      BY ONLY <2>1, <2>2, <2>3, <2>4, ConsideredArc
    <2> QED
      BY <2>5 DEF Considering
  <1>11. Forest(P, Evaluated(v).ancestor, Evaluated(v).label, r, c)
    <2> PICK a : a = Evaluated(v).ancestor
      OBVIOUS
    <2> PICK l : l = Evaluated(v).label
      OBVIOUS
    <2>1. Tree(P) /\ c \in Nat /\ Forest(P, a, l, s, c)
      BY <1>3, <1>6, <1>8
    <2> QED
      BY <2>1, <1>10, ForestOfLinked
  <1>12. Buckets(P, r, bucket, c)
    <2> SUFFICES ASSUME NEW n \in Nodes(P), NEW w \in ToSet(bucket[n])
                 PROVE  w > c /\ r[w] = n /\ \E y \in Nodes(P) : Between(P, n, y, w) /\ y <= c
      BY <1>5 DEF Buckets
    <2> QED
      BY <1>10, <1>5 DEF Between, Ancestor, Buckets
  <1>13. Tracked(P, r, bucket, idom, c, {})
    <2> SUFFICES ASSUME NEW w \in Nodes(P), w > c
                 PROVE  Settled(P, r, idom[w], w, c) \/ w \in ToSet(bucket[r[w]])
      BY DEF Tracked
    <2>1. r[w] = s[w]
      BY <1>10
    <2>2. ASSUME Settled(P, s, idom[w], w, c)
          PROVE  Settled(P, r, idom[w], w, c)
      BY ONLY <1>10, <2>2, <2>1 DEF Settled, Between, Ancestor, Resolved
    <2> QED
      BY <2>1, <2>2, <1>5 DEF Tracked
  <1>14. \A u \in ToSet(rest) : <<u, c>> \in A
    BY <1>5, <1>7
  <1>15. Linking'
    BY <1>1, <1>2, <1>4, <1>5, <1>7, <1>10, <1>11, <1>12, <1>13, <1>14 DEF Linking
  <1> QED
    BY <1>1, <1>2, <1>3, <1>4, <1>10, <1>15 DEF DominatorsFound

LEMMA VertexLinked ==
    ASSUME SearchInv, DominatorsFound, LinkVertex
    PROVE  DominatorsFound'
  <1> PICK P : P = parent
    OBVIOUS
  <1> PICK A : A = Arcs
    OBVIOUS
  <1> PICK c : c = cursor
    OBVIOUS
  <1> PICK s : s = semi
    OBVIOUS
  <1> PICK p : p = P[c + 1]
    OBVIOUS
  <1> PICK b : b = bucket
    OBVIOUS
  <1> PICK filled : filled = Filled(b, s, c)
    OBVIOUS
  <1> PICK e : e = Emptied(filled, p)
    OBVIOUS
  <1> PICK a : a = [ancestor EXCEPT ![c] = P[c + 1]]
    OBVIOUS
  <1>1. /\ phase = "predecessors" /\ waiting = << >> /\ UNCHANGED <<input, search>>
        /\ waiting' = filled[p] /\ bucket' = e /\ ancestor' = a /\ phase' = "bucket"
        /\ cursor' = c /\ semi' = s /\ label' = label /\ idom' = idom /\ Parent(c) = p
    BY DEF LinkVertex, Parent, Filled, Emptied
  <1>2. Arcs' = A /\ parent' = P
    BY <1>1, NumbersKept
  <1>3. /\ DepthFirst(P, A) /\ Tree(P) /\ Nodes(P) = 0 .. Len(P) - 1 /\ Len(P) \in Nat
        /\ SemidominatorsFound(P, A, s, Threshold) /\ Linking
        /\ s \in [Nodes(P) -> Nodes(P)] /\ idom \in [Nodes(P) -> Int]
    BY <1>1, LoopFacts
  <1>4. Threshold = c /\ Threshold' = c - 1
    BY <1>1 DEF Threshold
  <1>5. /\ c \in 1 .. Len(P) - 1
        /\ Forest(P, ancestor, label, s, c) /\ \A n \in 0 .. c - 1 : s[n] = n
        /\ Buckets(P, s, b, c) /\ s[c] <= c
        /\ SemidominatorBounded(P, A, s, c, ToSet(waiting))
        /\ Tracked(P, s, b, idom, c, {})
    BY <1>1, <1>3, <1>4 DEF Linking
  <1>6. c \in Nodes(P) /\ c # 0 /\ c \in Nat
    BY <1>3, <1>5
  <1>7. SemidominatorsFound(P, A, s, c - 1)
    <2>2. ToSet(waiting) = {}
      BY <1>1 DEF ToSet
    <2> QED
      BY <1>3, <1>5, <1>6, <1>4, <2>2, ArcsConsidered
  <1>8. Forest(P, a, label, s, c - 1)
    BY <1>3, <1>5, <1>6, LinkKeepsForest
  <1>9. /\ Buckets(P, s, e, c - 1)
        /\ filled[p] \in Seq(Nodes(P))
        /\ \A w \in ToSet(filled[p]) : w >= c /\ s[w] = p
        /\ \A d : Tracked(P, s, b, d, c, {}) => Tracked(P, s, e, d, c - 1, ToSet(filled[p]))
    <2>1. DepthFirst(P, A) /\ Buckets(P, s, b, c) /\ p = P[c + 1]
          /\ filled = Filled(b, s, c) /\ e = Emptied(filled, p)
      BY <1>3, <1>5
    <2> QED
      BY ONLY <1>6, <1>7, <2>1, BucketsAfterLink
  <1>12. Linking'
    BY <1>1, <1>2, <1>4, <1>5, <1>8, <1>9 DEF Linking, Parent
  <1> QED
    BY <1>1, <1>2, <1>3, <1>4, <1>7, <1>12 DEF DominatorsFound

LEMMA BucketEmptied ==
    ASSUME SearchInv, DominatorsFound, EmptyBucket
    PROVE  DominatorsFound'
  <1> PICK P : P = parent
    OBVIOUS
  <1> PICK A : A = Arcs
    OBVIOUS
  <1> PICK c : c = cursor
    OBVIOUS
  <1> PICK s : s = semi
    OBVIOUS
  <1> PICK p : p = P[c + 1]
    OBVIOUS
  <1> PICK w : w = Head(waiting)
    OBVIOUS
  <1> PICK rest : rest = Tail(waiting)
    OBVIOUS
  <1> PICK q : q = Evaluated(w).label[w]
    OBVIOUS
  <1> PICK x : x = IF s[q] < s[w] THEN q ELSE p
    OBVIOUS
  <1> PICK d : d = [idom EXCEPT ![w] = x]
    OBVIOUS
  <1>1. /\ phase = "bucket" /\ waiting # << >> /\ UNCHANGED <<input, search>>
        /\ ancestor' = Evaluated(w).ancestor /\ label' = Evaluated(w).label /\ semi' = s
        /\ waiting' = rest /\ phase' = phase /\ cursor' = c /\ bucket' = bucket /\ idom' = d
        /\ Parent(c) = p
    BY DEF EmptyBucket, Parent
  <1>2. Arcs' = A /\ parent' = P
    BY <1>1, NumbersKept
  <1>3. /\ DepthFirst(P, A) /\ Tree(P) /\ Len(preorder) = Len(P) /\ Nodes(P) = 0 .. Len(P) - 1
        /\ Len(P) \in Nat
        /\ SemidominatorsFound(P, A, s, Threshold) /\ Linking
        /\ s \in [Nodes(P) -> Nodes(P)] /\ idom \in [Nodes(P) -> Int]
    BY <1>1, LoopFacts
  <1>4. Threshold = c - 1 /\ Threshold' = c - 1
    BY <1>1 DEF Threshold
  <1>5. /\ c \in 1 .. Len(P) - 1 /\ waiting \in Seq(Nodes(P))
        /\ Forest(P, ancestor, label, s, c - 1) /\ \A n \in 0 .. c - 1 : s[n] = n
        /\ Buckets(P, s, bucket, c - 1)
        /\ \A u \in ToSet(waiting) : u >= c /\ s[u] = p
        /\ Tracked(P, s, bucket, idom, c - 1, ToSet(waiting))
    BY <1>1, <1>3, <1>4 DEF Linking
  <1>6. c \in Nodes(P) /\ c # 0 /\ c - 1 \in Nat
    BY <1>3, <1>5
  <1>7. /\ w \in Nodes(P) /\ w \in ToSet(waiting) /\ rest \in Seq(Nodes(P))
        /\ ToSet(rest) \subseteq ToSet(waiting)
        /\ ToSet(waiting) \subseteq ToSet(rest) \cup {w}
    BY <1>1, <1>5, FirstAndOthers
  <1>8. /\ Forest(P, Evaluated(w).ancestor, Evaluated(w).label, s, c - 1)
        /\ Answers(P, s, c - 1, w, q)
    BY <1>3, <1>5, <1>6, <1>7, EvaluationFacts
  <1>9. Settled(P, s, x, w, c - 1)
    BY <1>5, <1>7, <1>3, <1>4, <1>8, <1>6, PendingSettled
  <1>10. d[w] = x /\ d \in [Nodes(P) -> Int] /\ \A u \in Nodes(P) : u # w => d[u] = idom[u]
    <2>1. x \in Nodes(P)
      BY <1>3, <1>6, TreeFacts, <1>8 DEF Answers
    <2> QED
      BY <1>3, <1>7, <2>1
  <1>11. Tracked(P, s, bucket, d, c - 1, ToSet(rest))
    <2> SUFFICES ASSUME NEW u \in Nodes(P), u > c - 1
                 PROVE  \/ Settled(P, s, d[u], u, c - 1) \/ u \in ToSet(bucket[s[u]])
                        \/ u \in ToSet(rest)
      BY DEF Tracked
    <2>1. CASE u = w
      BY <1>9, <1>10, <2>1
    <2>2. CASE u # w
      BY <1>5, <1>7, <1>10, <2>2 DEF Tracked
    <2> QED
      BY <2>1, <2>2
  <1>14. Linking'
    BY <1>1, <1>2, <1>4, <1>5, <1>7, <1>8, <1>11 DEF Linking, Parent
  <1> QED
    BY <1>1, <1>2, <1>3, <1>4, <1>10, <1>14 DEF DominatorsFound

LEMMA NextStarts ==
    ASSUME SearchInv, DominatorsFound, NextVertex
    PROVE  DominatorsFound'
  <1> PICK P : P = parent
    OBVIOUS
  <1> PICK n : n = cursor - 1
    OBVIOUS
  <1>1. /\ phase = "bucket" /\ waiting = << >> /\ UNCHANGED <<input, search>>
        /\ StartVertex(n)
        /\ ancestor' = ancestor /\ label' = label /\ semi' = semi /\ bucket' = bucket
        /\ idom' = idom
    BY DEF NextVertex, forest
  <1>2. /\ DepthFirst(P, Arcs) /\ Nodes(P) = 0 .. Len(P) - 1 /\ Len(P) \in Nat
        /\ SemidominatorsFound(P, Arcs, semi, Threshold) /\ Linking
        /\ idom \in [Nodes(P) -> Int]
    BY <1>1, LoopFacts
  <1>3. Threshold = n
    BY <1>1 DEF Threshold
  <1>4. /\ cursor \in 1 .. Len(P) - 1 /\ Forest(P, ancestor, label, semi, n)
        /\ \A k \in 0 .. n : semi[k] = k
        /\ Buckets(P, semi, bucket, n)
        /\ Tracked(P, semi, bucket, idom, n, ToSet(waiting))
    BY <1>1, <1>2, <1>3 DEF Linking
  <1>6. Tracked(P, semi, bucket, idom, n, {})
    <2>1. ToSet(waiting) = {}
      BY <1>1 DEF ToSet
    <2> QED
      BY <1>4, <2>1
  <1> QED
    BY <1>1, <1>2, <1>4, <1>6, <1>3, VertexStarts

(* The last pass never meets a vertex without a dominator. *)
LEMMA DominatorCorrected ==
    ASSUME SearchInv, DominatorsFound, CorrectDominator
    PROVE  DominatorsFound'
  <1> PICK P : P = parent
    OBVIOUS
  <1> PICK A : A = Arcs
    OBVIOUS
  <1> PICK s : s = semi
    OBVIOUS
  <1> PICK w : w = cursor + 1
    OBVIOUS
  <1> PICK d : d = idom
    OBVIOUS
  <1> PICK x : x = IF d[w] # s[w] THEN d[d[w]] ELSE d[w]
    OBVIOUS
  <1>1. /\ phase = "correcting" /\ w < Len(preorder) /\ UNCHANGED <<input, search>>
        /\ semi' = s
        /\ d[w] # None => idom' = [d EXCEPT ![w] = x] /\ cursor' = w /\ phase' = "correcting"
    BY DEF CorrectDominator, forest, CorrectedDominator
  <1>2. Arcs' = A /\ parent' = P
    BY <1>1, NumbersKept
  <1>3. /\ DepthFirst(P, A) /\ Tree(P) /\ Nodes(P) = 0 .. Len(P) - 1 /\ Len(P) \in Nat
        /\ Len(preorder) = Len(P)
        /\ SemidominatorsFound(P, A, s, Threshold) /\ Correcting
        /\ d \in [Nodes(P) -> Int]
    BY <1>1, LoopFacts
  <1>4. Threshold = 0
    BY <1>1 DEF Threshold
  <1>5. /\ cursor \in 0 .. Len(P) - 1
        /\ \A n \in 1 .. cursor : ImmediateDominator(P, A, d[n], n)
        /\ \A n \in cursor + 1 .. Len(P) - 1 : Resolved(P, s, d[n], n)
    BY <1>3 DEF Correcting
  <1>6. w \in 1 .. Len(P) - 1 /\ cursor = w - 1
    BY <1>1, <1>3, <1>5
  <1>7. ImmediateDominator(P, A, x, w) /\ d[w] # None
    <2>1. SemidominatorsFound(P, A, s, 0) /\ DepthFirst(P, A)
      BY <1>3, <1>4
    <2>2. w \in Nodes(P) /\ w # 0
      BY <1>3, <1>6
    <2>3. Resolved(P, s, d[w], w)
      BY <1>5, <1>6
    <2>4. \A n \in 1 .. w - 1 : ImmediateDominator(P, A, d[n], n)
      BY <1>5, <1>6
    <2>5. x = IF d[w] # s[w] THEN d[d[w]] ELSE d[w]
      OBVIOUS
    <2> QED
      BY ONLY <2>1, <2>2, <2>3, <2>4, <2>5, Corrected
  <1>8. idom' = [d EXCEPT ![w] = x] /\ cursor' = w /\ phase' = "correcting" /\ Threshold' = 0
    BY <1>1, <1>7 DEF Threshold
  <1> PICK r : r = idom'
    OBVIOUS
  <1>9. r[w] = x /\ r \in [Nodes(P) -> Int] /\ \A u \in Nodes(P) : u # w => r[u] = d[u]
    BY <1>7, <1>3, <1>6, <1>8 DEF ImmediateDominator, Dominator
  <1>10. \A n \in 1 .. w : ImmediateDominator(P, A, r[n], n)
    <2> SUFFICES ASSUME NEW n \in 1 .. w PROVE ImmediateDominator(P, A, r[n], n)
      OBVIOUS
    <2>1. CASE n = w
      BY <1>7, <1>9, <2>1
    <2>2. CASE n # w
      <3>1. n \in 1 .. cursor /\ n \in Nodes(P)
        BY <1>3, <1>5, <1>6, <2>2
      <3> QED
        BY <1>5, <1>9, <2>2, <3>1
    <2> QED
      BY <2>1, <2>2
  <1>11. \A n \in w + 1 .. Len(P) - 1 : Resolved(P, s, r[n], n)
    <2> SUFFICES ASSUME NEW n \in w + 1 .. Len(P) - 1 PROVE Resolved(P, s, r[n], n)
      OBVIOUS
    <2> QED
      BY <1>5, <1>9, <1>3, <1>6, SMTT(30)
  <1>13. Correcting'
    BY <1>1, <1>2, <1>8, <1>10, <1>11, <1>3, <1>6 DEF Correcting
  <1> QED
    BY <1>1, <1>2, <1>3, <1>4, <1>8, <1>9, <1>13 DEF DominatorsFound

LEMMA DominatorsInvariant ==
    ASSUME SearchInv, DominatorsFound, [Next]_vars
    PROVE  DominatorsFound'
  <1>1. CASE SearchArc \/ SearchDone
    BY <1>1 DEF SearchArc, SearchDone, DominatorsFound
  <1>2. CASE StartForest
    BY <1>2, ForestStarts
  <1>3. CASE ConsiderPredecessor
    BY <1>3, PredecessorConsidered
  <1>4. CASE LinkVertex
    BY <1>4, VertexLinked
  <1>5. CASE EmptyBucket
    BY <1>5, BucketEmptied
  <1>6. CASE NextVertex
    BY <1>6, NextStarts
  <1>7. CASE CorrectDominator
    BY <1>7, DominatorCorrected
  <1>8. CASE StartWalk
    BY <1>8, NumbersKept, LoopFacts DEF StartWalk, forest, Threshold, Correcting,
       DominatorsFound
  <1>9. CASE WalkChild \/ WalkDone
    BY <1>9, NumbersKept DEF WalkChild, WalkDone, forest, Threshold, DominatorsFound
  <1>10. CASE UNCHANGED vars
    BY <1>10 DEF vars, forest, search, DominatorsFound, Threshold, Linking, Correcting,
                 Arcs, VertexOf, Vertices, Parent
  <1> QED
    BY <1>1, <1>2, <1>3, <1>4, <1>5, <1>6, <1>7, <1>8, <1>9, <1>10 DEF Next, Returned

(* The inductive invariant of the construction.                            *)
ConstructionInv == SearchInv /\ DominatorsFound

(* The search numbers the vertices depth-first, and every loop of the      *)
(* constructor leaves to the next what that one needs, for every graph.    *)
THEOREM InductiveInvariant == Spec => []ConstructionInv
  <1>1. Init => ConstructionInv
    BY SearchStarts DEF ConstructionInv, DominatorsFound, Init
  <1>2. ConstructionInv /\ [Next]_vars => ConstructionInv'
    BY SearchInvariant, DominatorsInvariant DEF ConstructionInv
  <1> QED
    BY <1>1, <1>2, PTL DEF Spec

(* Path compression never changes what an evaluation answers: the vertex   *)
(* evaluate_link_path returns is a linked ancestor with the least          *)
(* semidominator, whatever has been compressed before.                     *)
THEOREM EvaluationIsExact == Spec => []EvaluationsExact
  <1>1. ConstructionInv => EvaluationsExact
    BY EvaluationsAreExact DEF ConstructionInv
  <1> QED
    BY <1>1, InductiveInvariant, PTL
-----------------------------------------------------------------------------
(* The candidates that the paths of the graph give are those of the arcs. *)
LEMMA CandidateFacts ==
    ASSUME SearchTypes, Arcs \subseteq Nodes(parent) \X Nodes(parent), NEW n \in Nodes(parent)
    PROVE  SemidominatorCandidates(n) = { m \in Nodes(parent) : Candidate(parent, Arcs, m, n) }
  <1> DEFINE len == Len(preorder)
             U == Nodes(parent)
             Entered(S) == { m \in Numbers : Targets(input.succ, VertexOf(m)) \cap S # {} }
             More(X) == Entered({ VertexOf(m) : m \in { j \in X : j > n } })
             b == Entered({VertexOf(n)})
             ext == [ X \in SUBSET U |-> More(X) ]
             Steps(g) == [ k \in 0 .. len |->
                             IF k = 0 THEN Entered({VertexOf(n)})
                             ELSE LET before == g[k - 1]
                                  IN  before \cup
                                      Entered({ VertexOf(m) : m \in { j \in before : j > n } }) ]
             F == CHOOSE g : g = Steps(g)
  <1>1. SemidominatorCandidates(n) = F[len]
    BY DEF SemidominatorCandidates
  <1>2. len \in Nat /\ IsFiniteSet(U) /\ Cardinality(U) <= len /\ Numbers = U
    BY NodesFinite DEF SearchTypes, Numbers, Nodes
  <1>3. /\ \A m \in U : m \in b <=> <<m, n>> \in Arcs
        /\ b \in SUBSET U
    BY <1>2 DEF Arcs
  <1>4. ASSUME NEW X \in SUBSET U
        PROVE  /\ More(X) \in SUBSET U
               /\ \A m \in U : m \in More(X) <=> \E j \in X : j > n /\ <<m, j>> \in Arcs
    BY <1>2, ZenonT(60) DEF Arcs
  <1> HIDE DEF Entered
  <1>5. ext \in [SUBSET U -> SUBSET U]
    <2> HIDE DEF U, More
    <2> QED
      BY <1>4
  <1>6. Rounds(U, b, ext, len)
    <2> HIDE DEF U, ext, len, b
    <2> QED
      BY <1>2, <1>3, <1>5 DEF Rounds
  <1>7. F = Steps(F)
    <2>1. PICK g \in [0 .. len -> SUBSET U] :
              g[0] = b /\ \A k \in 1 .. len : g[k] = g[k - 1] \cup ext[g[k - 1]]
      <3> HIDE DEF U, ext, len, b, Steps, F, More
      <3> QED
        BY ONLY <1>6, RoundsExist
    <2>2. ASSUME NEW k \in 0 .. len
          PROVE  g[k] = IF k = 0 THEN b ELSE g[k - 1] \cup More(g[k - 1])
      <3> HIDE DEF U, len, More, b
      <3>1. CASE k = 0
        BY <2>1, <3>1
      <3>2. CASE k # 0
        <4>1. k \in 1 .. len /\ k - 1 \in 0 .. len
          BY <1>2, <3>2
        <4> QED
          BY <3>2, <4>1, <2>1
      <3> QED
        BY <3>1, <3>2
    <2>3. g = [ k \in 0 .. len |-> g[k] ]
      <3> HIDE DEF U, len
      <3> QED
        OBVIOUS
    <2>4. [ k \in 0 .. len |-> g[k] ]
              = [ k \in 0 .. len |-> IF k = 0 THEN b ELSE g[k - 1] \cup More(g[k - 1]) ]
      <3> HIDE DEF U, len, More, b
      <3> QED
        BY <2>2
    <2> HIDE DEF Steps
    <2> QED
      BY <2>3, <2>4
  <1> HIDE DEF F
  <1>8. F = [ k \in 0 .. len |-> IF k = 0 THEN b ELSE F[k - 1] \cup More(F[k - 1]) ]
    BY <1>7
  <1> HIDE DEF Steps, len, More, b
  <1>9. F[0] = b
    BY <1>2, <1>8
  <1>10. ASSUME NEW k \in 1 .. len, F[k - 1] \in SUBSET U
         PROVE  F[k] = F[k - 1] \cup ext[F[k - 1]]
    <2>1. k \in 0 .. len /\ k # 0
      BY <1>2
    <2> HIDE DEF U
    <2> QED
      BY <1>10, <1>8, <2>1
  <1>11. /\ F[len] \in SUBSET U /\ b \subseteq F[len] /\ ext[F[len]] \subseteq F[len]
         /\ \A C : b \subseteq C /\ (\A X \in SUBSET U : X \subseteq C => ext[X] \subseteq C)
                   => F[len] \subseteq C
    <2> HIDE DEF U, ext
    <2> QED
      BY <1>6, <1>9, <1>10, ClosureByRounds DEF RoundsTaken
  <1>12. BackClosed(Arcs, n, F[len])
    <2> SUFFICES ASSUME NEW e \in Arcs, e[2] = n \/ (e[2] > n /\ e[2] \in F[len])
                 PROVE  e[1] \in F[len]
      BY DEF BackClosed
    <2>2. e = <<e[1], e[2]>> /\ e[1] \in U
      OBVIOUS
    <2>3. CASE e[2] = n
      BY <1>3, <1>11, <2>2, <2>3
    <2>4. CASE e[2] > n /\ e[2] \in F[len]
      BY <1>11, <1>4, <2>2, <2>4, ZenonT(60)
    <2> QED
      BY <2>3, <2>4
  <1>13. ASSUME NEW m \in Nodes(parent), Candidate(parent, Arcs, m, n)
         PROVE  m \in F[len]
    BY <1>11, <1>12, <1>13 DEF Candidate
  <1>14. ASSUME NEW m \in F[len]
         PROVE  m \in Nodes(parent) /\ Candidate(parent, Arcs, m, n)
    <2> SUFFICES ASSUME NEW C \in SUBSET Nodes(parent), BackClosed(Arcs, n, C)
                 PROVE  m \in C
      BY <1>11 DEF Candidate
    <2>2. ASSUME NEW i, NEW j, <<i, j>> \in Arcs, j = n \/ (j > n /\ j \in C)
          PROVE  i \in C
      <3> PICK e : e = <<i, j>>
        OBVIOUS
      <3> QED
        BY <2>2 DEF BackClosed
    <2>3. b \subseteq C
      BY <1>3, <2>2
    <2>4. ASSUME NEW X \in SUBSET U, X \subseteq C, NEW i \in More(X)
          PROVE  i \in C
      <3>2. PICK j \in X : j > n /\ <<i, j>> \in Arcs
        BY <1>4
      <3> QED
        BY <2>2, <2>4, <3>2
    <2>5. \A X \in SUBSET U : X \subseteq C => ext[X] \subseteq C
      <3> HIDE DEF U
      <3> QED
        BY <2>4
    <2>6. F[len] \subseteq C
      <3> HIDE DEF U, ext
      <3> QED
        BY <1>11, <2>3, <2>5
    <2> QED
      BY <2>6
  <1> HIDE DEF U
  <1> QED
    BY <1>1, <1>13, <1>14

(* The semidominators the forest gives are those of the definition with    *)
(* paths, for every vertex that has been processed.                        *)
THEOREM SemidominatorsAreExact == Spec => []SemidominatorsExact
  <1>1. ASSUME ConstructionInv, phase \in {"bucket", "built"},
               NEW n \in Numbers \ {0}, (n >= cursor /\ phase = "bucket") \/ phase = "built"
        PROVE  /\ semi[n] \in SemidominatorCandidates(n)
               /\ \A m \in SemidominatorCandidates(n) : semi[n] <= m
    <2>1. SearchInv /\ DominatorsFound /\ phase # "searching"
      BY <1>1 DEF ConstructionInv
    <2>2. /\ DepthFirst(parent, Arcs) /\ Nodes(parent) = 0 .. Len(parent) - 1
          /\ Len(preorder) = Len(parent)
          /\ SemidominatorsFound(parent, Arcs, semi, Threshold)
          /\ phase = "bucket" => Linking
      BY <2>1, LoopFacts
    <2>3. n \in Nodes(parent) /\ n # 0 /\ n \in Nat
      BY <2>2 DEF Numbers
    <2>5. Semidominator(parent, Arcs, semi[n], n)
      BY <2>2, <2>3, <1>1 DEF SemidominatorsFound, Threshold, Linking
    <2> QED
      BY <2>5, <2>1, <2>2, <2>3, CandidateFacts DEF Semidominator, Candidate, SearchInv,
         DepthFirst
  <1>2. ConstructionInv => SemidominatorsExact
    BY <1>1 DEF SemidominatorsExact
  <1> QED
    BY <1>2, InductiveInvariant, PTL
-----------------------------------------------------------------------------
(* What is reachable is the least set with the start that the arcs do not  *)
(* leave.                                                                  *)
Graph(succ, start) ==
    /\ IsFiniteSet(Blocks(succ)) /\ start \in Blocks(succ)
    /\ \A v \in Blocks(succ) : Targets(succ, v) \subseteq Blocks(succ)

LEMMA ReachableFacts ==
    ASSUME NEW succ, NEW start, Graph(succ, start)
    PROVE  /\ ReachableFrom(succ, start) \subseteq Blocks(succ)
           /\ start \in ReachableFrom(succ, start)
           /\ \A v \in ReachableFrom(succ, start) :
                  Targets(succ, v) \subseteq ReachableFrom(succ, start)
           /\ \A C : start \in C /\ (\A v \in Blocks(succ) : v \in C => Targets(succ, v) \subseteq C)
                     => ReachableFrom(succ, start) \subseteq C
  <1> DEFINE U == Blocks(succ)
             len == Cardinality(U)
             b == {start}
             More(X) == UNION { Targets(succ, v) : v \in X }
             ext == [ X \in SUBSET U |-> More(X) ]
             Steps(g) == [ k \in 0 .. Cardinality(Blocks(succ)) |->
                             IF k = 0 THEN {start}
                             ELSE LET before == g[k - 1]
                                  IN  before \cup UNION { Targets(succ, v) : v \in before } ]
             F == CHOOSE g : g = Steps(g)
  <1>1. ReachableFrom(succ, start) = F[len]
    BY DEF ReachableFrom
  <1>2. len \in Nat /\ IsFiniteSet(U) /\ Cardinality(U) <= len
    BY FS_CardinalityType DEF Graph
  <1>3. b \in SUBSET U
    BY DEF Graph
  <1>4. \A X \in SUBSET U : More(X) \in SUBSET U
    BY DEF Graph
  <1>5. ext \in [SUBSET U -> SUBSET U]
    <2> HIDE DEF U, More
    <2> QED
      BY <1>4
  <1>6. Rounds(U, b, ext, len)
    <2> HIDE DEF U, ext, len, b
    <2> QED
      BY <1>2, <1>3, <1>5 DEF Rounds
  <1>7. F = Steps(F)
    <2>1. PICK g \in [0 .. len -> SUBSET U] :
              g[0] = b /\ \A k \in 1 .. len : g[k] = g[k - 1] \cup ext[g[k - 1]]
      <3> HIDE DEF U, ext, len, b, Steps, F, More
      <3> QED
        BY ONLY <1>6, RoundsExist
    <2>2. ASSUME NEW k \in 0 .. len
          PROVE  g[k] = IF k = 0 THEN b ELSE g[k - 1] \cup More(g[k - 1])
      <3> HIDE DEF U, len, More, b
      <3>1. CASE k = 0
        BY <2>1, <3>1
      <3>2. CASE k # 0
        <4>1. k \in 1 .. len /\ k - 1 \in 0 .. len
          BY <1>2, <3>2
        <4> QED
          BY <3>2, <4>1, <2>1
      <3> QED
        BY <3>1, <3>2
    <2>3. g = [ k \in 0 .. len |-> g[k] ]
      <3> HIDE DEF U, len
      <3> QED
        OBVIOUS
    <2>4. [ k \in 0 .. len |-> g[k] ]
              = [ k \in 0 .. len |-> IF k = 0 THEN b ELSE g[k - 1] \cup More(g[k - 1]) ]
      <3> HIDE DEF U, len, More, b
      <3> QED
        BY <2>2
    <2> HIDE DEF Steps
    <2> QED
      BY <2>3, <2>4
  <1> HIDE DEF F
  <1>8. F = [ k \in 0 .. len |-> IF k = 0 THEN b ELSE F[k - 1] \cup More(F[k - 1]) ]
    BY <1>7
  <1> HIDE DEF Steps, len, More, b
  <1>9. F[0] = b
    BY <1>2, <1>8
  <1>10. ASSUME NEW k \in 1 .. len, F[k - 1] \in SUBSET U
         PROVE  F[k] = F[k - 1] \cup ext[F[k - 1]]
    <2>1. k \in 0 .. len /\ k # 0
      BY <1>2
    <2> HIDE DEF U
    <2> QED
      BY <1>10, <1>8, <2>1
  <1>11. /\ F[len] \in SUBSET U /\ b \subseteq F[len] /\ ext[F[len]] \subseteq F[len]
         /\ \A C : b \subseteq C /\ (\A X \in SUBSET U : X \subseteq C => ext[X] \subseteq C)
                   => F[len] \subseteq C
    <2> HIDE DEF U, ext
    <2> QED
      BY <1>6, <1>9, <1>10, ClosureByRounds DEF RoundsTaken
  <1>12. \A v \in F[len] : Targets(succ, v) \subseteq F[len]
    <2>1. More(F[len]) \subseteq F[len]
      <3> HIDE DEF U
      <3> QED
        BY <1>11
    <2> QED
      BY <2>1 DEF More
  <1>13. ASSUME NEW C, start \in C,
                \A v \in Blocks(succ) : v \in C => Targets(succ, v) \subseteq C
         PROVE  F[len] \subseteq C
    <2>1. ASSUME NEW X \in SUBSET U, X \subseteq C
          PROVE  More(X) \subseteq C
      BY <1>13, <2>1 DEF More
    <2>2. \A X \in SUBSET U : X \subseteq C => ext[X] \subseteq C
      <3> HIDE DEF U
      <3> QED
        BY <2>1
    <2> HIDE DEF U, ext
    <2> QED
      BY <1>11, <2>2, <1>13 DEF b
  <1> QED
    BY <1>1, <1>12, <1>13, <1>11 DEF b

(* The graph without the arcs into d. *)
Avoiding(succ, d) ==
    [ v \in Blocks(succ) |-> [ i \in { j \in DOMAIN succ[v] : succ[v][j] # d } |-> succ[v][i] ] ]

LEMMA AvoidingFacts ==
    ASSUME NEW succ, NEW start, Graph(succ, start), NEW d
    PROVE  /\ Graph(Avoiding(succ, d), start) /\ Blocks(Avoiding(succ, d)) = Blocks(succ)
           /\ \A v \in Blocks(succ) : \A w :
                  w \in Targets(Avoiding(succ, d), v) <=> w \in Targets(succ, v) /\ w # d
  <1>2. ASSUME NEW v \in Blocks(succ), NEW w
        PROVE  w \in Targets(Avoiding(succ, d), v) <=> w \in Targets(succ, v) /\ w # d
    BY DEF Avoiding, Targets
  <1> QED
    BY <1>2 DEF Graph, Avoiding, Blocks

LEMMA DominatedByFacts ==
    ASSUME NEW succ, NEW start, NEW d
    PROVE  DominatedBy(succ, start, d)
               = IF d \notin ReachableFrom(succ, start) THEN {}
                 ELSE IF d = start THEN ReachableFrom(succ, start)
                 ELSE ReachableFrom(succ, start) \ ReachableFrom(Avoiding(succ, d), start)
  BY DEF DominatedBy, Avoiding
-----------------------------------------------------------------------------
(* Vertices and their numbers, when the search is done. *)
LEMMA NumberFacts ==
    ASSUME SearchInv, Explored
    PROVE  /\ Graph(input.succ, input.start) /\ Blocks(input.succ) = Vertices
           /\ \A n \in Nodes(parent) : /\ VertexOf(n) \in Vertices /\ number[VertexOf(n)] = n
                                       /\ Numbered(VertexOf(n))
           /\ \A v \in Vertices : Numbered(v) => number[v] \in Nodes(parent)
                                                 /\ VertexOf(number[v]) = v
           /\ Numbered(input.start) /\ number[input.start] = 0 /\ input.start \in Vertices
           /\ \A v, w \in Vertices : Numbered(v) /\ w \in Targets(input.succ, v) =>
                  Numbered(w) /\ <<number[v], number[w]>> \in Arcs
           /\ \A e \in Arcs : VertexOf(e[2]) \in Targets(input.succ, VertexOf(e[1]))
  <1>1. SearchTypes
    BY DEF SearchInv
  <1>2. Tree(parent) /\ parent # << >> /\ Len(preorder) = Len(parent) /\ preorder \in Seq(Vertices)
    BY <1>1 DEF SearchTypes
  <1>3. \A n \in Nodes(parent) : n \in Nat
    BY <1>2, TreeFacts
  <1>4. ASSUME NEW n \in Nodes(parent)
        PROVE  VertexOf(n) \in Vertices /\ number[VertexOf(n)] = n /\ Numbered(VertexOf(n))
    <2>2. VertexOf(n) \in Vertices
      BY <1>2, <1>3, MemberOfSequence DEF VertexOf, Nodes, Tree
    <2> QED
      BY <2>2, <1>1, <1>3 DEF Numbered, SearchTypes, None
  <1>5. \A v \in Vertices : Numbered(v) => number[v] \in Nodes(parent) /\ VertexOf(number[v]) = v
    BY <1>1 DEF SearchTypes
  <1>6. Numbered(input.start) /\ number[input.start] = 0 /\ input.start \in Vertices
    BY <1>2, <1>1, <1>4 DEF Nodes, Tree, SearchTypes
  <1>7. ASSUME NEW v \in Vertices
        PROVE  Targets(input.succ, v) \subseteq Vertices
    <2> PICK arcs : arcs = input.succ[v]
      OBVIOUS
    <2> QED
      BY <1>1, GraphTypes DEF Targets, SearchTypes
  <1>8. Graph(input.succ, input.start) /\ Blocks(input.succ) = Vertices
    BY <1>1, <1>6, <1>7, GraphTypes DEF Graph, SearchTypes, Vertices
  <1>9. ASSUME NEW v \in Vertices, NEW w \in Vertices, Numbered(v),
               w \in Targets(input.succ, v)
        PROVE  Numbered(w) /\ <<number[v], number[w]>> \in Arcs
    <2>1. PICK i \in DOMAIN input.succ[v] : input.succ[v][i] = w
      BY <1>9 DEF Targets
    <2> QED
      BY <1>9, <2>1, <1>5 DEF Arcs, Seen, Numbered, Explored
  <1> QED
    BY <1>4, <1>5, <1>6, <1>8, <1>9 DEF Arcs

(* The vertices that have a number are those that can be reached. *)
LEMMA NumberedAreReachable ==
    ASSUME SearchInv, Explored
    PROVE  ReachableFrom(input.succ, input.start) = { v \in Vertices : Numbered(v) }
  <1> PICK R : R = ReachableFrom(input.succ, input.start)
    OBVIOUS
  <1> DEFINE C == { v \in Vertices : Numbered(v) }
  <1>1. /\ R \subseteq Vertices /\ input.start \in R
        /\ \A v \in R : Targets(input.succ, v) \subseteq R
    BY NumberFacts, ReachableFacts
  <1>2. input.start \in C
    BY NumberFacts
  <1>3. ASSUME NEW v \in Vertices, v \in C
        PROVE  Targets(input.succ, v) \subseteq C
    BY NumberFacts, <1>3 DEF Graph
  <1>4. R \subseteq C
    <2> HIDE DEF C
    <2> QED
      BY <1>2, <1>3, NumberFacts, ReachableFacts
  <1>5. ASSUME NEW v \in Vertices, Numbered(v), v \notin R
        PROVE  FALSE
    <2> DEFINE S == { n \in Nodes(parent) : VertexOf(n) \notin R }
    <2>1. Tree(parent) /\ DepthFirst(parent, Arcs)
      BY SearchIsDepthFirst DEF SearchInv, SearchTypes
    <2>2. \A n \in Nodes(parent) : n \in Nat
      BY <2>1, TreeFacts
    <2>3. number[v] \in S
      BY <1>5, NumberFacts
    <2>4. PICK n \in S : \A m \in S : n <= m
      <3>1. S \subseteq Nat /\ S # {}
        BY <2>2, <2>3
      <3> HIDE DEF S
      <3> QED
        BY <3>1, LeastNatural
    <2>5. n # 0
      BY <1>1 DEF SearchInv, SearchTypes
    <2> PICK p : p = parent[n + 1]
      OBVIOUS
    <2> QED
      BY <1>1, <2>4, <2>1, <2>2, <2>5, TreeFacts DEF SearchInv, TreeFromArcs, Parent
  <1> QED
    BY <1>1, <1>4, <1>5

(* A vertex is reached without d if its number is without that of d. *)
LEMMA AvoidingIsAvoids ==
    ASSUME SearchInv, Explored, NEW d \in Vertices, Numbered(d), d # input.start
    PROVE  ReachableFrom(Avoiding(input.succ, d), input.start)
               = { v \in Vertices : Numbered(v) /\ Avoids(parent, Arcs, number[d], number[v]) }
  <1> PICK G : G = Avoiding(input.succ, d)
    OBVIOUS
  <1> PICK R : R = ReachableFrom(G, input.start)
    OBVIOUS
  <1> PICK nd : nd = number[d]
    OBVIOUS
  <1> PICK A : A = Arcs
    OBVIOUS
  <1> DEFINE C == { v \in Vertices : Numbered(v) /\ Avoids(parent, A, nd, number[v]) }
  <1>1. DepthFirst(parent, A) /\ Tree(parent)
    BY SearchIsDepthFirst DEF DepthFirst
  <1>2. /\ Graph(input.succ, input.start) /\ Blocks(input.succ) = Vertices
        /\ Graph(G, input.start) /\ Blocks(G) = Vertices
        /\ \A v \in Vertices : \A w : w \in Targets(G, v) <=> w \in Targets(input.succ, v) /\ w # d
    BY NumberFacts, AvoidingFacts
  <1>3. /\ R \subseteq Vertices /\ input.start \in R
        /\ \A v \in R : Targets(G, v) \subseteq R
    BY <1>2, ReachableFacts
  <1>4. nd \in Nodes(parent) /\ VertexOf(nd) = d /\ nd # 0
    BY NumberFacts DEF SearchInv, SearchTypes
  <1>5. input.start \in C
    BY <1>1, <1>4, TreeFacts, NumberFacts DEF Avoids, ForwardClosed
  <1>6. ASSUME NEW v \in Vertices, v \in C, NEW w \in Targets(G, v)
        PROVE  w \in C
    <2>1. w \in Targets(input.succ, v) /\ w # d
      BY <1>2
    <2> QED
      BY <1>2, <2>1, <1>6, NumberFacts, <1>1, <1>4, AvoidingClosed DEF Graph
  <1>7. R \subseteq C
    <2>1. \A v \in Blocks(G) : v \in C => Targets(G, v) \subseteq C
      <3> HIDE DEF C
      <3> QED
        BY <1>2, <1>6
    <2> HIDE DEF C
    <2> QED
      BY <1>2, <1>5, <2>1, ReachableFacts
  <1>8. ASSUME NEW v \in C
        PROVE  v \in R
    <2> DEFINE D == { n \in Nodes(parent) : VertexOf(n) \in R }
    <2>1. 0 \in D
      BY <1>1, <1>4, TreeFacts, <1>3 DEF SearchInv, SearchTypes
    <2>2. ASSUME NEW e \in A, e[1] \in D, e[2] # nd
          PROVE  e[2] \in D
      BY <1>1, NumberFacts, <2>2, <1>3, <1>2 DEF DepthFirst
    <2>3. ForwardClosed(A, nd, D)
      <3> HIDE DEF D
      <3> QED
        BY <2>1, <2>2 DEF ForwardClosed
    <2>4. number[v] \in D
      <3>1. D \in SUBSET Nodes(parent)
        OBVIOUS
      <3> HIDE DEF D
      <3> QED
        BY <2>3, <3>1 DEF Avoids
    <2> QED
      BY <2>4, NumberFacts
  <1> QED
    BY <1>7, <1>8

(* Dominance of vertices is dominance of their numbers. *)
LEMMA DominanceOfNumbers ==
    ASSUME SearchInv, Explored, NEW d \in Vertices
    PROVE  DominatedBy(input.succ, input.start, d)
               = { v \in Vertices : /\ Numbered(d) /\ Numbered(v)
                                    /\ Dominator(parent, Arcs, number[d], number[v]) }
  <1> PICK R : R = ReachableFrom(input.succ, input.start)
    OBVIOUS
  <1> PICK R2 : R2 = ReachableFrom(Avoiding(input.succ, d), input.start)
    OBVIOUS
  <1> PICK D : D = DominatedBy(input.succ, input.start, d)
    OBVIOUS
  <1>1. D = IF d \notin R THEN {} ELSE IF d = input.start THEN R ELSE R \ R2
    BY DominatedByFacts
  <1>2. R = { v \in Vertices : Numbered(v) }
    BY NumberedAreReachable
  <1>3. \A v \in Vertices : Numbered(v) => number[v] \in Nodes(parent)
    BY NumberFacts
  <1>4. CASE ~Numbered(d)
    BY <1>1, <1>2, <1>4
  <1>5. CASE Numbered(d) /\ d = input.start
    <2>2. ForwardClosed(Arcs, 0, {})
      BY DEF ForwardClosed
    <2> QED
      BY <1>2, <1>5, <1>1, NumberFacts, <1>3, <2>2 DEF Dominator, Avoids
  <1>6. CASE Numbered(d) /\ d # input.start
    BY <1>6, AvoidingIsAvoids, <1>1, <1>2, <1>3 DEF Dominator
  <1> QED
    BY <1>4, <1>5, <1>6

LEMMA ChildrenOfNumbers ==
    ASSUME SearchInv, Explored, NEW d \in Vertices
    PROVE  TreeChildren(input.succ, input.start, d)
               = { v \in Vertices : /\ Numbered(d) /\ Numbered(v)
                                    /\ ImmediateDominator(parent, Arcs, number[d], number[v]) }
  <1> PICK P : P = parent
    OBVIOUS
  <1> PICK A : A = Arcs
    OBVIOUS
  <1> DEFINE D(v) == DominatedBy(input.succ, input.start, v)
  <1>1. DepthFirst(P, A) /\ Tree(P) /\ \A n \in Nodes(P) : n \in Nat
    BY SearchIsDepthFirst, TreeFacts DEF DepthFirst
  <1>2. ASSUME NEW e \in Vertices, NEW v
        PROVE  v \in D(e) <=> /\ v \in Vertices /\ Numbered(e) /\ Numbered(v)
                              /\ Dominator(P, A, number[e], number[v])
    BY DominanceOfNumbers
  <1>3. ASSUME NEW v
        PROVE  v \in TreeChildren(input.succ, input.start, d)
                   <=> /\ v \in D(d) /\ v # d
                       /\ \A e \in Vertices : e \in D(d) /\ e # d /\ e # v => v \notin D(e)
    <2> HIDE DEF D
    <2> QED
      BY <1>2 DEF TreeChildren, D
  <1> HIDE DEF D
  <1>4. /\ \A v \in Vertices : Numbered(v) => number[v] \in Nodes(P) /\ VertexOf(number[v]) = v
        /\ \A n \in Nodes(P) : /\ VertexOf(n) \in Vertices /\ number[VertexOf(n)] = n
                               /\ Numbered(VertexOf(n))
    BY NumberFacts
  <1>5. ASSUME NEW v \in Vertices, Numbered(d), Numbered(v),
               ImmediateDominator(P, A, number[d], number[v])
        PROVE  v \in TreeChildren(input.succ, input.start, d)
    BY <1>2, <1>5, <1>4, <1>1, DominatorIsAncestor, AncestorIsLess, <1>3 DEF
       ImmediateDominator
  <1>6. ASSUME NEW v, v \in TreeChildren(input.succ, input.start, d)
        PROVE  /\ v \in Vertices /\ Numbered(d) /\ Numbered(v)
               /\ ImmediateDominator(P, A, number[d], number[v])
    <2>1. /\ v \in D(d) /\ v # d
          /\ \A e \in Vertices : e \in D(d) /\ e # d /\ e # v => v \notin D(e)
      BY <1>3, <1>6
    <2>2. v \in Vertices /\ Numbered(d) /\ Numbered(v) /\ Dominator(P, A, number[d], number[v])
      BY <1>2, <2>1
    <2>3. number[d] # number[v] /\ number[d] \in Nodes(P) /\ number[v] \in Nodes(P)
      BY <1>4, <2>1, <2>2
    <2>4. ASSUME NEW m \in Nodes(P), Dominator(P, A, m, number[v]), m # number[v]
          PROVE  m <= number[d]
      <3> SUFFICES ASSUME ~(m <= number[d]) PROVE FALSE
        OBVIOUS
      <3>2. number[d] <= m /\ m # number[d]
        BY <1>1, <2>3
      <3> QED
        BY <2>1, <1>4, <2>4, <3>2, <1>2, <2>2, <1>1, DominatorsAreAChain
    <2> QED
      BY <2>2, <2>3, <2>4 DEF ImmediateDominator
  <1> QED
    BY <1>5, <1>6
-----------------------------------------------------------------------------
(* The children that the walk is given. *)
ChildrenOf(v) ==
    FlattenSeq([ n \in 1 .. Len(preorder) - 1 |->
                   IF VertexOf(idom[n]) = v THEN <<VertexOf(n)>> ELSE << >> ])

ChildrenKept ==
    phase \in {"walking", "built"} => children = [ v \in Vertices |-> ChildrenOf(v) ]

LEMMA ChildrenInvariant ==
    ASSUME ChildrenKept, [Next]_vars
    PROVE  ChildrenKept'
  <1>1. CASE StartWalk
    BY <1>1 DEF StartWalk, ChildrenOf, ChildrenKept, VertexOf, Vertices, search
  <1>2. CASE WalkChild \/ WalkDone
    BY <1>2, SMTT(30) DEF WalkChild, WalkDone, ChildrenKept, ChildrenOf, VertexOf, Vertices, search
  <1>3. CASE UNCHANGED vars
    BY <1>3 DEF ChildrenKept, ChildrenOf, VertexOf, Vertices, search, vars
  <1>4. CASE \/ SearchArc \/ SearchDone \/ StartForest \/ ConsiderPredecessor \/ LinkVertex
             \/ EmptyBucket \/ NextVertex \/ CorrectDominator
    <2>1. phase' \notin {"walking", "built"}
      BY <1>4 DEF SearchArc, SearchDone, StartForest, StartVertex, ConsiderPredecessor,
                  LinkVertex, EmptyBucket, NextVertex, CorrectDominator
    <2> QED
      BY <2>1 DEF ChildrenKept
  <1> QED
    BY <1>1, <1>2, <1>3, <1>4 DEF Next, Returned

LEMMA ChildrenMembers ==
    ASSUME SearchInv, NEW v \in Vertices
    PROVE  /\ ChildrenOf(v) \in Seq(Vertices)
           /\ \A x : x \in ToSet(ChildrenOf(v)) <=>
                  \E n \in 1 .. Len(parent) - 1 : VertexOf(idom[n]) = v /\ x = VertexOf(n)
  <1> DEFINE part(n) == IF VertexOf(idom[n]) = v THEN <<VertexOf(n)>> ELSE << >>
             len == Len(preorder) - 1
             s == [ n \in 1 .. len |-> part(n) ]
  <1>1. /\ Len(preorder) = Len(parent) /\ Len(parent) \in Nat \ {0} /\ preorder \in Seq(Vertices)
    BY DEF SearchInv, SearchTypes, Tree
  <1>2. \A n \in 1 .. len : VertexOf(n) \in Vertices
    <2> SUFFICES ASSUME NEW n \in 1 .. len PROVE VertexOf(n) \in Vertices
      OBVIOUS
    <2> QED
      BY <1>1, MemberOfSequence DEF VertexOf
  <1>3. \A n \in 1 .. len : part(n) \in Seq(Vertices)
    BY <1>2
  <1>4. ASSUME NEW n \in 1 .. len, NEW x
        PROVE  x \in ToSet(part(n)) <=> VertexOf(idom[n]) = v /\ x = VertexOf(n)
    BY DEF ToSet
  <1> HIDE DEF part
  <1>5. len \in Nat
    BY <1>1
  <1> HIDE DEF len
  <1>6. s \in Seq(Seq(Vertices)) /\ Len(s) = len /\ \A n \in 1 .. len : s[n] = part(n)
    BY <1>3, <1>5
  <1>7. ChildrenOf(v) = FlattenSeq(s)
    BY DEF ChildrenOf, part, len
  <1> HIDE DEF s
  <1>8. /\ FlattenSeq(s) \in Seq(Vertices)
        /\ \A x : x \in ToSet(FlattenSeq(s)) <=> \E k \in 1 .. Len(s) : x \in ToSet(s[k])
    BY <1>6, FlattenedMembers
  <1>9. len = Len(parent) - 1
    BY <1>1 DEF len
  <1>10. ASSUME NEW n \in 1 .. len, NEW x
         PROVE  x \in ToSet(s[n]) <=> VertexOf(idom[n]) = v /\ x = VertexOf(n)
    BY <1>6, <1>4
  <1>11. Len(s) = len
    BY <1>6
  <1> QED
    BY ONLY <1>7, <1>8, <1>9, <1>10, <1>11

(* The tree of children is the dominator tree. *)
LEMMA ChildrenAreDominated ==
    ASSUME SearchInv, Explored, NEW d \in Vertices, idom \in [Nodes(parent) -> Int],
           \A n \in 1 .. Len(parent) - 1 : ImmediateDominator(parent, Arcs, idom[n], n)
    PROVE  ToSet(ChildrenOf(d)) = TreeChildren(input.succ, input.start, d)
  <1> PICK P : P = parent
    OBVIOUS
  <1> PICK A : A = Arcs
    OBVIOUS
  <1>1. DepthFirst(P, A) /\ Tree(P) /\ \A n \in Nodes(P) : n \in Nat
    BY SearchIsDepthFirst, TreeFacts DEF DepthFirst
  <1>2. Nodes(P) = 0 .. Len(P) - 1 /\ Len(P) \in Nat
    BY <1>1 DEF Nodes, Tree
  <1>3. /\ \A v \in Vertices : Numbered(v) => number[v] \in Nodes(P) /\ VertexOf(number[v]) = v
        /\ \A n \in Nodes(P) : /\ VertexOf(n) \in Vertices /\ number[VertexOf(n)] = n
                               /\ Numbered(VertexOf(n))
    BY NumberFacts
  <1>4. ASSUME NEW n \in 1 .. Len(P) - 1
        PROVE  n \in Nodes(P) /\ idom[n] \in Nodes(P) /\ ImmediateDominator(P, A, idom[n], n)
    BY <1>2 DEF ImmediateDominator, Dominator
  <1>5. ASSUME NEW x, x \in ToSet(ChildrenOf(d))
        PROVE  x \in TreeChildren(input.succ, input.start, d)
    <2>1. PICK n \in 1 .. Len(P) - 1 : VertexOf(idom[n]) = d /\ x = VertexOf(n)
      BY <1>5, ChildrenMembers
    <2> QED
      BY <1>4, <1>3, <2>1, ChildrenOfNumbers
  <1>6. ASSUME NEW x, x \in TreeChildren(input.succ, input.start, d)
        PROVE  x \in ToSet(ChildrenOf(d))
    <2>1. /\ x \in Vertices /\ Numbered(d) /\ Numbered(x)
          /\ ImmediateDominator(P, A, number[d], number[x])
      BY <1>6, ChildrenOfNumbers
    <2> PICK n : n = number[x]
      OBVIOUS
    <2> PICK i : i = number[d]
      OBVIOUS
    <2>2. n \in Nodes(P) /\ i \in Nodes(P) /\ x = VertexOf(n) /\ d = VertexOf(i)
      BY <1>3, <2>1
    <2>3. n \in 1 .. Len(P) - 1
      BY <1>1, <2>1, DominatorIsAncestor, AncestorIsLess, <1>2, <2>2 DEF ImmediateDominator
    <2>6. idom[n] = i
      BY <1>1, <2>2, <1>4, <2>3, <2>1 DEF ImmediateDominator
    <2> QED
      BY <2>2, <2>3, <2>6, ChildrenMembers
  <1> QED
    BY <1>5, <1>6

(* The tree that is returned is the dominator tree of the definition with  *)
(* paths, and the pass that corrects the dominators meets no vertex        *)
(* without one.                                                            *)
THEOREM DominatorsAreExact == Spec => []ImmediateDominatorsExact
  <1>1. ASSUME ConstructionInv, ChildrenKept
        PROVE  ImmediateDominatorsExact
    BY <1>1, ChildrenAreDominated DEF ConstructionInv, DominatorsFound, SearchInv,
       ChildrenKept, ImmediateDominatorsExact
  <1>2. Init => ChildrenKept
    BY DEF Init, ChildrenKept
  <1>3. ChildrenKept /\ [Next]_vars => ChildrenKept'
    BY ChildrenInvariant
  <1> QED
    BY <1>1, <1>2, <1>3, InductiveInvariant, PTL DEF Spec
-----------------------------------------------------------------------------
(* The walk.  T relates the nodes N of a tree to their descendants, ch[d]  *)
(* are the children of d, each once.                                       *)
WalkedTree(V, N, T, ch, start) ==
    /\ start \in N /\ N \subseteq V
    /\ \A a \in N : <<a, a>> \in T /\ <<start, a>> \in T
    /\ \A a, b, c \in N : <<a, b>> \in T /\ <<b, c>> \in T => <<a, c>> \in T
    /\ \A a, b \in N : <<a, b>> \in T /\ <<b, a>> \in T => a = b
    /\ ch \in [V -> Seq(N)]
    /\ \A d \in N : \A i \in DOMAIN ch[d] :
           /\ ch[d][i] \in N /\ <<d, ch[d][i]>> \in T /\ ch[d][i] # d
           /\ \A a \in N : <<a, ch[d][i]>> \in T => a = ch[d][i] \/ <<a, d>> \in T
           /\ \A j \in DOMAIN ch[d] : ch[d][i] = ch[d][j] => i = j
    /\ \A E : start \in E /\ (\A d \in N : d \in E => \A i \in DOMAIN ch[d] : ch[d][i] \in E)
              => N \subseteq E

(* Nodes are entered before and left after their descendants, at the times *)
(* e and x; the others are left before they are entered or entered after   *)
(* they are left.  Those entered and not left are on the stack S.          *)
Times(V, N, T, e, x, c) ==
    /\ c \in Nat /\ e \in [V -> Int] /\ x \in [V -> Int]
    /\ \A v \in V : e[v] # None => v \in N /\ 0 <= e[v] /\ e[v] < c
    /\ \A v \in V : x[v] # None => e[v] # None /\ e[v] < x[v] /\ x[v] <= c
    /\ \A a, b \in N : <<a, b>> \in T /\ e[b] # None =>
           e[a] # None /\ (a # b => e[a] < e[b])
    /\ \A a, b \in N : <<a, b>> \in T /\ x[a] # None /\ e[b] # None =>
           x[b] # None /\ x[b] <= x[a]
    /\ \A a, b \in N : e[a] # None /\ e[b] # None /\ <<a, b>> \notin T /\ <<b, a>> \notin T =>
           (x[a] # None /\ x[a] <= e[b]) \/ (x[b] # None /\ x[b] <= e[a])

Entries(V) == [vertex : V, next : Nat \ {0}]

Walk(V, N, T, ch, start, S, e, x, c) ==
    /\ Times(V, N, T, e, x, c)
    /\ e[start] # None
    /\ S \in Seq(Entries(V))
    /\ \A v \in V : OnStack(S, v) <=> e[v] # None /\ x[v] = None
    /\ \A j, k \in DOMAIN S : j < k =>
           <<S[j].vertex, S[k].vertex>> \in T /\ S[j].vertex # S[k].vertex
    /\ \A k \in DOMAIN S : \A i \in DOMAIN ch[S[k].vertex] :
           i < S[k].next <=> e[ch[S[k].vertex][i]] # None
    /\ \A v \in N : x[v] # None => \A i \in DOMAIN ch[v] : e[ch[v][i]] # None

(* A child u of d, the last node on the stack, is entered.  It was not     *)
(* before, and what contains it has been entered and not left.             *)
LEMMA ChildEntered ==
    ASSUME NEW V, NEW N, NEW T, NEW ch, NEW start, WalkedTree(V, N, T, ch, start),
           NEW e, NEW x, NEW c, Times(V, N, T, e, x, c),
           NEW d \in N, NEW u \in N, <<d, u>> \in T, d # u,
           \A a \in N : <<a, u>> \in T => a = u \/ <<a, d>> \in T,
           e[d] # None, x[d] = None, e[u] = None,
           \A a \in N : e[a] # None /\ x[a] = None => <<a, d>> \in T
    PROVE  Times(V, N, T, [e EXCEPT ![u] = c], x, c + 1)
  <1> PICK f : f = [e EXCEPT ![u] = c]
    OBVIOUS
  <1>1. /\ N \subseteq V /\ u \in V /\ d \in V
        /\ \A a, b, g \in N : <<a, b>> \in T /\ <<b, g>> \in T => <<a, g>> \in T
    BY DEF WalkedTree
  <1>2. /\ c \in Nat /\ e \in [V -> Int] /\ x \in [V -> Int]
        /\ \A v \in V : e[v] # None => v \in N /\ 0 <= e[v] /\ e[v] < c
        /\ \A v \in V : x[v] # None => e[v] # None /\ e[v] < x[v] /\ x[v] <= c
    BY DEF Times
  <1>3. /\ \A a, b \in N : <<a, b>> \in T /\ e[b] # None =>
               e[a] # None /\ (a # b => e[a] < e[b])
        /\ \A a, b \in N : <<a, b>> \in T /\ x[a] # None /\ e[b] # None =>
               x[b] # None /\ x[b] <= x[a]
    BY DEF Times
  <1>5. /\ f \in [V -> Int] /\ f[u] = c /\ f[u] # None
        /\ \A v \in V : v # u => f[v] = e[v]
    BY <1>1, <1>2 DEF None
  <1>6. x[u] = None
    BY <1>1, <1>2
  <1>7. \A v \in V : f[v] # None => v \in N /\ 0 <= f[v] /\ f[v] < c + 1
    <2> SUFFICES ASSUME NEW v \in V, f[v] # None PROVE v \in N /\ 0 <= f[v] /\ f[v] < c + 1
      OBVIOUS
    <2>1. CASE v = u
      BY <1>2, <1>5, <2>1
    <2>2. CASE v # u
      BY <1>2, <1>5, <2>2
    <2> QED
      BY <2>1, <2>2
  <1>8. \A v \in V : x[v] # None => f[v] # None /\ f[v] < x[v] /\ x[v] <= c + 1
    <2> SUFFICES ASSUME NEW v \in V, x[v] # None
                 PROVE  f[v] # None /\ f[v] < x[v] /\ x[v] <= c + 1
      OBVIOUS
    <2> QED
      BY <1>2, <1>5, <1>6
  <1>9. ASSUME NEW a \in N, NEW b \in N, <<a, b>> \in T, f[b] # None
        PROVE  f[a] # None /\ (a # b => f[a] < f[b])
    BY <1>1, <1>5, <1>9, <1>2, <1>3
  <1>10. ASSUME NEW a \in N, NEW b \in N, <<a, b>> \in T, x[a] # None, f[b] # None
         PROVE  x[b] # None /\ x[b] <= x[a]
    BY <1>1, <1>6, <1>10, <1>3, <1>5
  <1>11. ASSUME NEW a \in N, f[a] # None, <<a, u>> \notin T
         PROVE  x[a] # None /\ x[a] <= f[u]
    <2>1. a \in V /\ a # u
      BY <1>1, <1>11 DEF WalkedTree
    <2>2. e[a] # None
      BY <1>5, <1>11, <2>1
    <2>3. x[a] # None
      <3> SUFFICES ASSUME x[a] = None PROVE FALSE
        OBVIOUS
      <3> QED
        BY <1>1, <1>11, <2>2
    <2> QED
      BY <1>2, <1>5, <2>1, <2>3
  <1>12. ASSUME NEW a \in N, NEW b \in N, f[a] # None, f[b] # None,
                <<a, b>> \notin T, <<b, a>> \notin T
         PROVE  (x[a] # None /\ x[a] <= f[b]) \/ (x[b] # None /\ x[b] <= f[a])
    BY <1>1, <1>11, <1>12, <1>5 DEF Times
  <1> QED
    BY <1>2, <1>5, <1>7, <1>8, <1>9, <1>10, <1>12 DEF Times

(* The last node of the stack is left: no other that it contains is open. *)
LEMMA NodeLeft ==
    ASSUME NEW V, NEW N, NEW T, NEW ch, NEW start, WalkedTree(V, N, T, ch, start),
           NEW e, NEW x, NEW c, Times(V, N, T, e, x, c),
           NEW d \in N, e[d] # None, x[d] = None,
           \A a \in N : <<d, a>> \in T /\ e[a] # None /\ x[a] = None => a = d
    PROVE  Times(V, N, T, e, [x EXCEPT ![d] = c], c)
  <1> PICK y : y = [x EXCEPT ![d] = c]
    OBVIOUS
  <1>1. N \subseteq V /\ d \in V
    BY DEF WalkedTree
  <1>2. /\ c \in Nat /\ e \in [V -> Int] /\ x \in [V -> Int]
        /\ \A v \in V : e[v] # None => v \in N /\ 0 <= e[v] /\ e[v] < c
        /\ \A v \in V : x[v] # None => e[v] # None /\ e[v] < x[v] /\ x[v] <= c
    BY DEF Times
  <1>3. /\ \A a, b \in N : <<a, b>> \in T /\ e[b] # None =>
               e[a] # None /\ (a # b => e[a] < e[b])
        /\ \A a, b \in N : <<a, b>> \in T /\ x[a] # None /\ e[b] # None =>
               x[b] # None /\ x[b] <= x[a]
    BY DEF Times
  <1>4. \A a, b \in N : e[a] # None /\ e[b] # None /\ <<a, b>> \notin T /\ <<b, a>> \notin T =>
            (x[a] # None /\ x[a] <= e[b]) \/ (x[b] # None /\ x[b] <= e[a])
    BY DEF Times
  <1>5. /\ y \in [V -> Int] /\ y[d] = c /\ y[d] # None
        /\ \A v \in V : v # d => y[v] = x[v]
    BY <1>1, <1>2 DEF None
  <1>6. \A v \in V : y[v] # None => e[v] # None /\ e[v] < y[v] /\ y[v] <= c
    <2> SUFFICES ASSUME NEW v \in V, y[v] # None
                 PROVE  e[v] # None /\ e[v] < y[v] /\ y[v] <= c
      OBVIOUS
    <2>1. CASE v = d
      BY <1>2, <1>5, <2>1
    <2>2. CASE v # d
      BY <1>2, <1>5, <2>2
    <2> QED
      BY <2>1, <2>2
  <1>7. ASSUME NEW a \in N, NEW b \in N, <<a, b>> \in T, y[a] # None, e[b] # None
        PROVE  y[b] # None /\ y[b] <= y[a]
    BY <1>1, <1>2, <1>5, <1>7, <1>3
  <1>8. \A v \in V : x[v] # None => y[v] = x[v]
    BY <1>5
  <1>9. \A a, b \in N : e[a] # None /\ e[b] # None /\ <<a, b>> \notin T /\ <<b, a>> \notin T =>
            (y[a] # None /\ y[a] <= e[b]) \/ (y[b] # None /\ y[b] <= e[a])
    <2> SUFFICES ASSUME NEW a \in N, NEW b \in N, e[a] # None, e[b] # None,
                        <<a, b>> \notin T, <<b, a>> \notin T
                 PROVE  (y[a] # None /\ y[a] <= e[b]) \/ (y[b] # None /\ y[b] <= e[a])
      OBVIOUS
    <2> QED
      BY <1>4, <1>8, <1>1
  <1> QED
    BY <1>2, <1>3, <1>5, <1>6, <1>7, <1>9 DEF Times

(* The stack of a walk when the next child of its last node is entered.    *)
Pushed(S, u) ==
    Append([S EXCEPT ![Len(S)].next = @ + 1], [vertex |-> u, next |-> 1])

PushedOn(V, S, u, len, Q) ==
    /\ Q \in Seq(Entries(V)) /\ DOMAIN Q = 1 .. len + 1
    /\ \A k \in 1 .. len : Q[k].vertex = S[k].vertex /\ (k # len => Q[k].next = S[k].next)
    /\ Q[len].next = S[len].next + 1
    /\ Q[len + 1].vertex = u /\ Q[len + 1].next = 1

LEMMA PushedFacts ==
    ASSUME NEW V, NEW S, NEW u, S \in Seq(Entries(V)), S # << >>, u \in V
    PROVE  PushedOn(V, S, u, Len(S), Pushed(S, u))
  <1> PICK len : len = Len(S)
    OBVIOUS
  <1> PICK Q : Q = Pushed(S, u)
    OBVIOUS
  <1> DEFINE advanced == [S[len] EXCEPT !.next = @ + 1]
             new == [vertex |-> u, next |-> 1]
  <1>1. len \in Nat \ {0} /\ DOMAIN S = 1 .. len /\ S[len] \in Entries(V)
    BY MemberOfSequence
  <1>2. advanced \in Entries(V) /\ advanced.next = S[len].next + 1
        /\ advanced.vertex = S[len].vertex
    BY <1>1 DEF Entries
  <1>3. new \in Entries(V) /\ new.vertex = u /\ new.next = 1
    BY DEF Entries
  <1> PICK W : W = [S EXCEPT ![len] = advanced]
    OBVIOUS
  <1>4. Q = Append(W, new)
    BY DEF Pushed
  <1> HIDE DEF advanced, new
  <1>5. W \in Seq(Entries(V)) /\ Len(W) = len /\ DOMAIN W = 1 .. len
    BY <1>1, <1>2
  <1> QED
    BY <1>1, <1>2, <1>3, <1>4, <1>5 DEF PushedOn

LEMMA WalkEnters ==
    ASSUME NEW V, NEW N, NEW T, NEW ch, NEW start, WalkedTree(V, N, T, ch, start),
           NEW S, NEW e, NEW x, NEW c, Walk(V, N, T, ch, start, S, e, x, c),
           S # << >>, NEW top, top = S[Len(S)], top.next <= Len(ch[top.vertex]),
           NEW u, u = ch[top.vertex][top.next]
    PROVE  /\ u \in V
           /\ Walk(V, N, T, ch, start, Pushed(S, u), [e EXCEPT ![u] = c], x, c + 1)
  <1> PICK len : len = Len(S)
    OBVIOUS
  <1> PICK d : d = top.vertex
    OBVIOUS
  <1> PICK i0 : i0 = top.next
    OBVIOUS
  <1> PICK f : f = [e EXCEPT ![u] = c]
    OBVIOUS
  <1> PICK Q : Q = Pushed(S, u)
    OBVIOUS
  <1>1. /\ Times(V, N, T, e, x, c) /\ e[start] # None
        /\ S \in Seq(Entries(V))
        /\ \A v \in V : OnStack(S, v) <=> e[v] # None /\ x[v] = None
        /\ \A j, k \in DOMAIN S : j < k =>
               <<S[j].vertex, S[k].vertex>> \in T /\ S[j].vertex # S[k].vertex
        /\ \A k \in DOMAIN S : \A i \in DOMAIN ch[S[k].vertex] :
               i < S[k].next <=> e[ch[S[k].vertex][i]] # None
        /\ \A v \in N : x[v] # None => \A i \in DOMAIN ch[v] : e[ch[v][i]] # None
    BY DEF Walk
  <1>2. /\ len \in Nat \ {0} /\ DOMAIN S = 1 .. len /\ len \in DOMAIN S /\ S[len] = top
        /\ d \in V /\ i0 \in Nat \ {0} /\ \A k \in DOMAIN S : S[k].vertex \in V
    <2>1. S \in Seq(Entries(V))
      BY <1>1
    <2>4. \A k \in 1 .. len : S[k] \in Entries(V)
      BY <2>1, MemberOfSequence
    <2> QED
      BY <2>1, <2>4 DEF Entries
  <1>3. /\ start \in N /\ N \subseteq V
        /\ \A a \in N : <<a, a>> \in T
        /\ \A a, b, g \in N : <<a, b>> \in T /\ <<b, g>> \in T => <<a, g>> \in T
        /\ \A a, b \in N : <<a, b>> \in T /\ <<b, a>> \in T => a = b
        /\ ch \in [V -> Seq(N)]
    BY DEF WalkedTree
  <1>4. \A g \in N : \A i \in DOMAIN ch[g] :
           /\ ch[g][i] \in N /\ <<g, ch[g][i]>> \in T /\ ch[g][i] # g
           /\ \A a \in N : <<a, ch[g][i]>> \in T => a = ch[g][i] \/ <<a, g>> \in T
           /\ \A j \in DOMAIN ch[g] : ch[g][i] = ch[g][j] => i = j
    BY DEF WalkedTree
  <1>5. /\ e \in [V -> Int] /\ c \in Nat
        /\ \A v \in V : e[v] # None => v \in N
        /\ \A v \in V : x[v] # None => e[v] # None
        /\ \A a, b \in N : <<a, b>> \in T /\ e[b] # None => e[a] # None
    BY <1>1 DEF Times
  <1>6. \A k \in DOMAIN S : S[k].vertex \in N /\ e[S[k].vertex] # None /\ x[S[k].vertex] = None
    <2> SUFFICES ASSUME NEW k \in DOMAIN S
                 PROVE  S[k].vertex \in N /\ e[S[k].vertex] # None /\ x[S[k].vertex] = None
      OBVIOUS
    <2> QED
      BY <1>1, <1>5, <1>2 DEF OnStack
  <1>7. d \in N /\ e[d] # None /\ x[d] = None
    BY <1>2, <1>6
  <1>8. i0 \in DOMAIN ch[d]
    BY <1>2, <1>3
  <1>9. /\ u \in N /\ u \in V /\ <<d, u>> \in T /\ u # d
        /\ \A a \in N : <<a, u>> \in T => a = u \/ <<a, d>> \in T
        /\ \A i \in DOMAIN ch[d] : ch[d][i] = u => i = i0
    BY <1>3, <1>4, <1>7, <1>8
  <1>10. e[u] = None
    <2>1. ~(i0 < i0)
      BY <1>2
    <2> QED
      BY <1>1, <1>2, <1>8, <2>1
  <1>11. \A a \in N : e[a] # None /\ x[a] = None => <<a, d>> \in T
    <2> SUFFICES ASSUME NEW a \in N, e[a] # None, x[a] = None PROVE <<a, d>> \in T
      OBVIOUS
    <2>1. PICK k \in DOMAIN S : S[k].vertex = a
      BY <1>1, <1>3 DEF OnStack
    <2> QED
      BY <1>1, <1>2, <1>3, <1>7, <2>1
  <1>12. Times(V, N, T, f, x, c + 1)
    BY <1>1, <1>7, <1>9, <1>10, <1>11, ChildEntered
  <1>13. /\ f \in [V -> Int] /\ f[u] # None /\ \A v \in V : v # u => f[v] = e[v]
    BY ONLY <1>5, <1>9, f = [e EXCEPT ![u] = c] DEF None
  <1>14. \A v \in V : e[v] # None => f[v] # None
    BY <1>10, <1>13
  <1>15. /\ Q \in Seq(Entries(V)) /\ DOMAIN Q = 1 .. len + 1
         /\ \A k \in 1 .. len : /\ Q[k].vertex = S[k].vertex
                                /\ k # len => Q[k].next = S[k].next
         /\ Q[len].next = i0 + 1
         /\ Q[len + 1].vertex = u /\ Q[len + 1].next = 1
    <2>1. S \in Seq(Entries(V)) /\ S # << >> /\ u \in V
      BY <1>1, <1>9
    <2>2. len = Len(S) /\ Q = Pushed(S, u)
      OBVIOUS
    <2>4. S[len].next = i0
      BY <1>2
    <2> QED
      BY ONLY <2>2, <2>1, PushedFacts, <2>4 DEF PushedOn
  <1>16. /\ \A k \in DOMAIN Q : k \in 1 .. len \/ k = len + 1
         /\ \A k \in 1 .. len : k \in DOMAIN Q
         /\ len + 1 \in DOMAIN Q
    <2>1. len \in Nat
      BY ONLY <1>2
    <2>2. DOMAIN Q = 1 .. len + 1
      BY ONLY <1>15
    <2> QED
      BY ONLY <2>1, <2>2
  <1>17. \A k \in 1 .. len : Q[k].vertex = S[k].vertex
    BY ONLY <1>15
  <1>18. Q[len + 1].vertex = u
    BY <1>15
  <1>19. \A v \in V : OnStack(Q, v) <=> f[v] # None /\ x[v] = None
    <2> SUFFICES ASSUME NEW v \in V PROVE OnStack(Q, v) <=> f[v] # None /\ x[v] = None
      OBVIOUS
    <2>1. OnStack(Q, v) <=> OnStack(S, v) \/ v = u
      <3>1. DOMAIN S = 1 .. len
        BY <1>2
      <3> QED
        BY ONLY <3>1, <1>16, <1>17, <1>18 DEF OnStack
    <2> QED
      BY ONLY <1>1, <1>13, <2>1, <1>5, <1>9, <1>10
  <1>20. \A k \in 1 .. len : <<S[k].vertex, u>> \in T /\ S[k].vertex # u /\ S[k].vertex \in N
    <2> SUFFICES ASSUME NEW k \in 1 .. len
                 PROVE  <<S[k].vertex, u>> \in T /\ S[k].vertex # u /\ S[k].vertex \in N
      OBVIOUS
    <2>1. S[k].vertex \in N /\ e[S[k].vertex] # None /\ x[S[k].vertex] = None
      BY <1>2, <1>6
    <2>2. <<S[k].vertex, d>> \in T
      BY <1>11, <2>1
    <2> QED
      BY ONLY <1>3, <1>7, <1>9, <1>10, <2>1, <2>2
  <1>21. ASSUME NEW j \in DOMAIN Q, NEW k \in DOMAIN Q, j < k
         PROVE  <<Q[j].vertex, Q[k].vertex>> \in T /\ Q[j].vertex # Q[k].vertex
    <2>1. j \in 1 .. len
      BY ONLY <1>2, <1>16, <1>21
    <2>2. CASE k = len + 1
      BY ONLY <1>17, <1>18, <1>20, <2>1, <2>2
    <2>3. CASE k \in 1 .. len
      <3>2. <<S[j].vertex, S[k].vertex>> \in T /\ S[j].vertex # S[k].vertex
        BY ONLY <1>1, <1>21, <1>2, <2>1, <2>3
      <3> QED
        BY <1>17, <2>1, <2>3, <3>2
    <2> QED
      BY <1>16, <2>2, <2>3
  <1>22. ASSUME NEW k \in DOMAIN Q, NEW i \in DOMAIN ch[Q[k].vertex]
         PROVE  i < Q[k].next <=> f[ch[Q[k].vertex][i]] # None
    <2>1. CASE k = len + 1
      <3>1. Q[k].vertex = u /\ Q[k].next = 1
        BY ONLY <1>15, <2>1
      <3>2. ch[u] \in Seq(N)
        BY <1>3, <1>9
      <3>3. ~(i < 1)
        BY ONLY <1>22, <3>1, <3>2
      <3>4. ch[u][i] \in N /\ <<u, ch[u][i]>> \in T /\ ch[u][i] # u
        <4>1. u \in N /\ i \in DOMAIN ch[u]
          BY ONLY <1>9, <1>22, <3>1
        <4> QED
          BY ONLY <1>4, <4>1
      <3>5. e[ch[u][i]] = None
        BY ONLY <1>5, <1>9, <1>10, <3>4
      <3> QED
        BY ONLY <3>1, <3>3, <1>3, <1>13, <3>4, <3>5
    <2>2. CASE k \in 1 .. len
      <3> PICK w : w = S[k].vertex
        OBVIOUS
      <3>1. Q[k].vertex = w /\ k \in DOMAIN S /\ w \in N /\ i \in DOMAIN ch[w]
        BY <1>2, <1>6, <1>15, <1>22, <2>2
      <3>2. ch[w][i] \in N /\ <<w, ch[w][i]>> \in T /\ ch[w][i] # w
            /\ \A a \in N : <<a, ch[w][i]>> \in T => a = ch[w][i] \/ <<a, w>> \in T
        BY <1>4, <3>1
      <3>3. i < S[k].next <=> e[ch[w][i]] # None
        BY <1>1, <3>1
      <3>4. CASE k = len
        <4>1. w = d /\ S[k].next = i0 /\ Q[k].next = i0 + 1
          BY <1>2, <1>15, <3>4
        <4>2. i \in Nat
          BY <1>3, <3>1
        <4>3. i < i0 + 1 <=> i < i0 \/ i = i0
          BY ONLY <1>2, <4>2
        <4>5. f[ch[w][i]] # None <=> e[ch[w][i]] # None \/ ch[w][i] = u
          BY ONLY <1>3, <1>13, <3>2
        <4> QED
          BY <3>1, <3>3, <4>1, <4>3, <1>9, <4>5
      <3>5. CASE k # len
        <4>1. k < len
          BY ONLY <1>2, <2>2, <3>5
        <4>2. <<w, d>> \in T /\ w # d
          BY ONLY <1>1, <1>2, <3>1, <4>1, w = S[k].vertex, d = top.vertex
        <4>4. f[ch[w][i]] = e[ch[w][i]]
          BY <1>3, <1>13, <3>2, <1>7, <1>9, <3>1, <4>2
        <4> QED
          BY <3>1, <3>3, <4>4, <1>15, <2>2, <3>5
      <3> QED
        BY <3>4, <3>5
    <2> QED
      BY ONLY <1>16, <2>1, <2>2
  <1>23. ASSUME NEW v \in N, x[v] # None, NEW i \in DOMAIN ch[v]
         PROVE  f[ch[v][i]] # None
    BY <1>1, <1>3, <1>4, <1>14, <1>23
  <1>24. f[start] # None
    BY ONLY <1>1, <1>3, <1>14
  <1>25. Walk(V, N, T, ch, start, Q, f, x, c + 1)
    BY <1>12, <1>15, <1>19, <1>21, <1>22, <1>23, <1>24 DEF Walk
  <1> QED
    BY <1>9, <1>25

LEMMA WalkLeaves ==
    ASSUME NEW V, NEW N, NEW T, NEW ch, NEW start, WalkedTree(V, N, T, ch, start),
           NEW S, NEW e, NEW x, NEW c, Walk(V, N, T, ch, start, S, e, x, c),
           S # << >>, NEW top, top = S[Len(S)], top.next > Len(ch[top.vertex])
    PROVE  /\ top.vertex \in V
           /\ Walk(V, N, T, ch, start, Front(S), e, [x EXCEPT ![top.vertex] = c], c)
  <1> PICK len : len = Len(S)
    OBVIOUS
  <1> PICK d : d = top.vertex
    OBVIOUS
  <1> PICK y : y = [x EXCEPT ![d] = c]
    OBVIOUS
  <1> PICK Q : Q = Front(S)
    OBVIOUS
  <1>1. /\ Times(V, N, T, e, x, c) /\ e[start] # None
        /\ S \in Seq(Entries(V))
        /\ \A v \in V : OnStack(S, v) <=> e[v] # None /\ x[v] = None
        /\ \A j, k \in DOMAIN S : j < k =>
               <<S[j].vertex, S[k].vertex>> \in T /\ S[j].vertex # S[k].vertex
        /\ \A k \in DOMAIN S : \A i \in DOMAIN ch[S[k].vertex] :
               i < S[k].next <=> e[ch[S[k].vertex][i]] # None
        /\ \A v \in N : x[v] # None => \A i \in DOMAIN ch[v] : e[ch[v][i]] # None
    BY DEF Walk
  <1>2. /\ len \in Nat \ {0} /\ DOMAIN S = 1 .. len /\ len \in DOMAIN S /\ S[len] = top
        /\ d \in V /\ top.next \in Nat /\ \A k \in DOMAIN S : S[k].vertex \in V
    <2>1. S \in Seq(Entries(V))
      BY <1>1
    <2>2. len \in Nat \ {0} /\ DOMAIN S = 1 .. len
      BY <2>1
    <2>3. len \in 1 .. len
      BY <2>2
    <2>4. \A k \in 1 .. len : S[k] \in Entries(V)
      BY <2>1, MemberOfSequence
    <2>5. top \in Entries(V)
      BY <2>3, <2>4
    <2> QED
      BY <2>2, <2>3, <2>4, <2>5 DEF Entries
  <1>3. /\ N \subseteq V /\ ch \in [V -> Seq(N)]
        /\ \A a, b \in N : <<a, b>> \in T /\ <<b, a>> \in T => a = b
    BY DEF WalkedTree
  <1>4. /\ x \in [V -> Int] /\ c \in Nat
        /\ \A v \in V : e[v] # None => v \in N
    BY <1>1 DEF Times
  <1>5. \A k \in DOMAIN S : S[k].vertex \in N /\ e[S[k].vertex] # None /\ x[S[k].vertex] = None
    <2> SUFFICES ASSUME NEW k \in DOMAIN S
                 PROVE  S[k].vertex \in N /\ e[S[k].vertex] # None /\ x[S[k].vertex] = None
      OBVIOUS
    <2>1. S[k].vertex \in V /\ OnStack(S, S[k].vertex)
      BY <1>2 DEF OnStack
    <2> QED
      BY <1>1, <1>4, <2>1
  <1>6. d \in N /\ e[d] # None /\ x[d] = None
    BY <1>2, <1>5
  <1>7. \A a \in N : <<d, a>> \in T /\ e[a] # None /\ x[a] = None => a = d
    <2> SUFFICES ASSUME NEW a \in N, <<d, a>> \in T, e[a] # None, x[a] = None PROVE a = d
      OBVIOUS
    <2>1. PICK k \in DOMAIN S : S[k].vertex = a
      BY <1>1, <1>3 DEF OnStack
    <2>2. k = len \/ k < len
      BY <1>2
    <2> QED
      BY <1>1, <1>2, <1>3, <1>6, <2>1, <2>2
  <1>8. Times(V, N, T, e, y, c)
    BY <1>1, <1>6, <1>7, NodeLeft
  <1>9. /\ y \in [V -> Int] /\ y[d] # None /\ \A v \in V : v # d => y[v] = x[v]
    BY <1>2, <1>4 DEF None
  <1>10. /\ Q \in Seq(Entries(V)) /\ DOMAIN Q = 1 .. len - 1
         /\ \A k \in 1 .. len - 1 : Q[k] = S[k]
    <2>1. S \in Seq(Entries(V)) /\ Len(S) \in Nat \ {0}
      BY <1>1, <1>2
    <2>2. Q \in Seq(Entries(V)) /\ Len(Q) = len - 1 /\ \A k \in 1 .. len - 1 : Q[k] = S[k]
      BY <2>1, FrontFacts
    <2> QED
      BY <2>2
  <1>11. /\ \A k \in DOMAIN S : k \in 1 .. len - 1 \/ k = len
         /\ \A k \in 1 .. len - 1 : k \in DOMAIN S /\ k < len
    <2>1. len \in Nat /\ len # 0 /\ DOMAIN S = 1 .. len
      BY <1>2
    <2> QED
      BY ONLY <2>1
  <1>12. \A v \in V : OnStack(Q, v) <=> e[v] # None /\ y[v] = None
    <2> SUFFICES ASSUME NEW v \in V PROVE OnStack(Q, v) <=> e[v] # None /\ y[v] = None
      OBVIOUS
    <2>1. OnStack(Q, v) <=> \E k \in 1 .. len - 1 : S[k].vertex = v
      BY <1>10 DEF OnStack
    <2>2. OnStack(S, v) <=> v = d \/ OnStack(Q, v)
      BY <1>2, <1>11, <2>1 DEF OnStack
    <2>3. ~OnStack(Q, d)
      <3> SUFFICES ASSUME NEW k \in 1 .. len - 1, S[k].vertex = d PROVE FALSE
        BY <1>10 DEF OnStack
      <3>1. k \in DOMAIN S /\ k < len
        BY <1>11
      <3> QED
        BY <1>1, <1>2, <3>1, ZenonT(60)
    <2> QED
      BY <1>1, <1>9, <2>2, <2>3
  <1>13. \A j, k \in DOMAIN Q : j < k =>
             <<Q[j].vertex, Q[k].vertex>> \in T /\ Q[j].vertex # Q[k].vertex
    <2> SUFFICES ASSUME NEW j \in DOMAIN Q, NEW k \in DOMAIN Q, j < k
                 PROVE  <<Q[j].vertex, Q[k].vertex>> \in T /\ Q[j].vertex # Q[k].vertex
      OBVIOUS
    <2>1. j \in DOMAIN S /\ k \in DOMAIN S /\ Q[j] = S[j] /\ Q[k] = S[k]
      BY <1>10, <1>11
    <2>2. <<S[j].vertex, S[k].vertex>> \in T /\ S[j].vertex # S[k].vertex
      BY <1>1, <2>1
    <2> QED
      BY ONLY <2>1, <2>2
  <1>14. \A k \in DOMAIN Q : \A i \in DOMAIN ch[Q[k].vertex] :
             i < Q[k].next <=> e[ch[Q[k].vertex][i]] # None
    <2> SUFFICES ASSUME NEW k \in DOMAIN Q, NEW i \in DOMAIN ch[Q[k].vertex]
                 PROVE  i < Q[k].next <=> e[ch[Q[k].vertex][i]] # None
      OBVIOUS
    <2>1. k \in DOMAIN S /\ Q[k] = S[k]
      BY <1>10, <1>11
    <2>2. i \in DOMAIN ch[S[k].vertex]
      BY <2>1
    <2>3. i < S[k].next <=> e[ch[S[k].vertex][i]] # None
      BY <1>1, <2>1, <2>2
    <2> QED
      BY ONLY <2>1, <2>3
  <1>15. ASSUME NEW v \in N, y[v] # None, NEW i \in DOMAIN ch[v]
         PROVE  e[ch[v][i]] # None
    <2>1. CASE v = d
      <3>1. ch[d] \in Seq(N)
        BY <1>2, <1>3
      <3>2. i < top.next
        BY <1>2, <1>15, <2>1, <3>1
      <3> QED
        BY <1>1, <1>2, <1>15, <2>1, <3>2
    <2>2. CASE v # d
      BY <1>1, <1>3, <1>9, <1>15, <2>2
    <2> QED
      BY <2>1, <2>2
  <1>16. Walk(V, N, T, ch, start, Q, e, y, c)
    BY <1>1, <1>8, <1>10, <1>12, <1>13, <1>14, <1>15 DEF Walk
  <1> QED
    BY <1>2, <1>16

(* At the end every node is left, and the intervals tell the descendants. *)
LEMMA WalkEnds ==
    ASSUME NEW V, NEW N, NEW T, NEW ch, NEW start, WalkedTree(V, N, T, ch, start),
           NEW e, NEW x, NEW c, Walk(V, N, T, ch, start, << >>, e, x, c),
           NEW d \in N, NEW v \in N
    PROVE  e[d] <= e[v] /\ x[v] <= x[d] <=> <<d, v>> \in T
  <1>1. /\ Times(V, N, T, e, x, c) /\ e[start] # None
        /\ \A a \in V : OnStack(<< >>, a) <=> e[a] # None /\ x[a] = None
        /\ \A a \in N : x[a] # None => \A i \in DOMAIN ch[a] : e[ch[a][i]] # None
    BY DEF Walk
  <1>2. \A a \in V : e[a] # None => x[a] # None
    BY <1>1 DEF OnStack
  <1>3. N \subseteq V /\ start \in N /\ d \in V /\ v \in V
    BY DEF WalkedTree
  <1>4. \A a \in N : e[a] # None
    <2> DEFINE E == { a \in N : e[a] # None }
    <2>1. start \in E
      BY <1>1, <1>3
    <2>2. ASSUME NEW a \in N, a \in E, NEW i \in DOMAIN ch[a]
          PROVE  ch[a][i] \in E
      BY <1>1, <1>2, <1>3, <2>2 DEF WalkedTree
    <2>3. N \subseteq E
      <3> HIDE DEF E
      <3> QED
        BY <2>1, <2>2 DEF WalkedTree
    <2> QED
      BY <2>3
  <1>5. e[d] # None /\ x[d] # None /\ e[v] # None /\ x[v] # None
    BY <1>2, <1>3, <1>4
  <1>6. /\ e[d] \in Int /\ e[v] \in Int /\ x[d] \in Int /\ x[v] \in Int
        /\ e[d] < x[d] /\ e[v] < x[v]
    BY <1>1, <1>3, <1>5 DEF Times
  <1>7. \A a, b \in N : <<a, b>> \in T /\ e[b] # None => e[a] # None /\ (a # b => e[a] < e[b])
    BY <1>1 DEF Times
  <1>10. CASE <<d, v>> \in T
    BY <1>5, <1>6, <1>7, <1>10, <1>1 DEF Times
  <1>11. CASE <<d, v>> \notin T /\ <<v, d>> \in T
    BY <1>11, <1>5, <1>7, <1>6
  <1>12. CASE <<d, v>> \notin T /\ <<v, d>> \notin T
    BY <1>5, <1>1, <1>12, <1>6 DEF Times
  <1> QED
    BY <1>10, <1>11, <1>12

(* At the start only the root is entered. *)
LEMMA WalkBegins ==
    ASSUME NEW V, NEW N, NEW T, NEW ch, NEW start, WalkedTree(V, N, T, ch, start),
           NEW e, e = [ v \in V |-> IF v = start THEN 0 ELSE None ],
           NEW x, x = [ v \in V |-> None ]
    PROVE  Walk(V, N, T, ch, start, <<[vertex |-> start, next |-> 1]>>, e, x, 1)
  <1> PICK S : S = <<[vertex |-> start, next |-> 1]>>
    OBVIOUS
  <1>1. start \in V /\ start \in N /\ N \subseteq V /\ ch \in [V -> Seq(N)]
    BY DEF WalkedTree
  <1>2. /\ \A a \in N : <<a, a>> \in T /\ <<start, a>> \in T
        /\ \A a, b \in N : <<a, b>> \in T /\ <<b, a>> \in T => a = b
        /\ \A i \in DOMAIN ch[start] : ch[start][i] \in N /\ ch[start][i] # start
    BY <1>1 DEF WalkedTree
  <1>3. /\ e \in [V -> Int] /\ x \in [V -> Int] /\ e[start] = 0
        /\ \A v \in V : x[v] = None /\ (e[v] # None <=> v = start)
    BY <1>1 DEF None
  <1>4. \A a, b \in N : <<a, b>> \in T /\ e[b] # None => e[a] # None /\ (a # b => e[a] < e[b])
    BY <1>1, <1>2, <1>3
  <1>5. Times(V, N, T, e, x, 1)
    <2>2. \A v \in V : e[v] # None => v \in N /\ 0 <= e[v] /\ e[v] < 1
      BY <1>1, <1>3
    <2>3. \A v \in N : x[v] = None /\ (e[v] # None <=> v = start)
      BY <1>1, <1>3
    <2> QED
      BY <1>3, <1>4, <2>2, <2>3, <1>1, <1>2 DEF Times
  <1>6. /\ S \in Seq(Entries(V)) /\ DOMAIN S = {1} /\ S[1].vertex = start /\ S[1].next = 1
    BY <1>1 DEF Entries
  <1>9. ASSUME NEW k \in DOMAIN S, NEW i \in DOMAIN ch[S[k].vertex]
        PROVE  i < S[k].next <=> e[ch[S[k].vertex][i]] # None
    BY <1>6, <1>1, <1>9, <1>2, <1>3
  <1>10. \A v \in N : x[v] = None
    BY <1>1, <1>3
  <1>12. Walk(V, N, T, ch, start, S, e, x, 1)
    BY <1>5, <1>6, <1>3, <1>9, <1>10 DEF Walk, OnStack, None
  <1> QED
    BY <1>12
-----------------------------------------------------------------------------
(* Sequences without repetitions, joined: nothing is repeated if they have *)
(* no member in common.                                                    *)
LEMMA JoinedInjective ==
    ASSUME NEW T, NEW a \in Seq(T), NEW b \in Seq(T), NEW c, c = a \o b,
           IsInjective(a), IsInjective(b), \A x : ~(x \in ToSet(a) /\ x \in ToSet(b))
    PROVE  IsInjective(c)
  <1> PICK la : la = Len(a)
    OBVIOUS
  <1> PICK lb : lb = Len(b)
    OBVIOUS
  <1>1. la \in Nat /\ lb \in Nat /\ DOMAIN a = 1 .. la /\ DOMAIN b = 1 .. lb
    OBVIOUS
  <1>2. DOMAIN c = 1 .. la + lb
    BY Joined
  <1>3. \A i \in 1 .. la : c[i] = a[i]
    BY Joined
  <1>4. \A i \in 1 .. lb : c[la + i] = b[i]
    BY Joined
  <1>5. \A i \in 1 .. la : a[i] \in ToSet(a)
    BY <1>1 DEF ToSet
  <1>6. \A i \in 1 .. lb : b[i] \in ToSet(b)
    BY <1>1 DEF ToSet
  <1>7. \A i, j \in 1 .. la : a[i] = a[j] => i = j
    BY ONLY <1>1, IsInjective(a) DEF IsInjective
  <1>8. \A i, j \in 1 .. lb : b[i] = b[j] => i = j
    BY ONLY <1>1, IsInjective(b) DEF IsInjective
  <1>10. \A i \in 1 .. la + lb : \/ i \in 1 .. la /\ c[i] = a[i]
                                 \/ i - la \in 1 .. lb /\ c[i] = b[i - la]
    BY ONLY <1>3, <1>4, <1>1
  <1>11. \A i, j \in 1 .. la + lb : i - la = j - la => i = j
    BY ONLY <1>1
  <1>12. \A i, j \in 1 .. la + lb : c[i] = c[j] => i = j
    <2> SUFFICES ASSUME NEW i \in 1 .. la + lb, NEW j \in 1 .. la + lb, c[i] = c[j]
                 PROVE  i = j
      OBVIOUS
    <2>1. CASE i \in 1 .. la /\ c[i] = a[i] /\ j \in 1 .. la /\ c[j] = a[j]
      BY ONLY <1>7, <2>1, c[i] = c[j]
    <2>2. CASE i \in 1 .. la /\ c[i] = a[i] /\ j - la \in 1 .. lb /\ c[j] = b[j - la]
      BY <1>5, <1>6, <2>2
    <2>3. CASE i - la \in 1 .. lb /\ c[i] = b[i - la] /\ j \in 1 .. la /\ c[j] = a[j]
      BY <1>5, <1>6, <2>3
    <2>4. CASE i - la \in 1 .. lb /\ c[i] = b[i - la] /\ j - la \in 1 .. lb /\ c[j] = b[j - la]
      <3> QED
        BY <1>11, <1>8, <2>4, c[i] = c[j]
    <2> QED
      BY <1>10, <2>1, <2>2, <2>3, <2>4
  <1> QED
    BY ONLY <1>2, <1>12 DEF IsInjective

LEMMA FlattenedInjective ==
    ASSUME NEW T, NEW s \in Seq(Seq(T)), \A k \in 1 .. Len(s) : IsInjective(s[k]),
           \A j, k \in 1 .. Len(s) : j # k => \A x : ~(x \in ToSet(s[j]) /\ x \in ToSet(s[k]))
    PROVE  IsInjective(FlattenSeq(s))
  <1> PICK n : n = Len(s)
    OBVIOUS
  <1>1. n \in Nat /\ \A k \in 1 .. n : s[k] \in Seq(T)
    OBVIOUS
  <1>2. PICK F : Joins(T, n, s, F)
    BY <1>1, Concatenations
  <1>4. /\ F \in [0 .. n -> Seq(T)] /\ F[0] = << >>
        /\ \A k \in 1 .. n : F[k] = F[k - 1] \o s[k]
    BY <1>2 DEF Joins
  <1> DEFINE Once(k) == /\ IsInjective(F[k])
                        /\ \A x \in ToSet(F[k]) : \E j \in 1 .. k : x \in ToSet(s[j])
             S == { k \in Nat : k <= n => Once(k) }
  <1>5. 0 \in S
    BY <1>4 DEF ToSet, IsInjective
  <1>6. ASSUME NEW k \in Nat, k \in S
        PROVE  k + 1 \in S
    <2> SUFFICES ASSUME k + 1 <= n PROVE Once(k + 1)
      OBVIOUS
    <2> PICK a : a = F[k]
      OBVIOUS
    <2> PICK b : b = s[k + 1]
      OBVIOUS
    <2> PICK c : c = F[k + 1]
      OBVIOUS
    <2>1. k \in 0 .. n /\ k <= n /\ k + 1 \in 1 .. n /\ (k + 1) - 1 = k
      BY <1>1
    <2>2. a \in Seq(T) /\ b \in Seq(T) /\ c = a \o b
      BY <1>1, <1>4, <2>1
    <2>3. IsInjective(a) /\ \A x \in ToSet(a) : \E j \in 1 .. k : x \in ToSet(s[j])
      BY <1>6, <2>1
    <2>4. IsInjective(b)
      BY <2>1
    <2>5. \A j \in 1 .. k : j \in 1 .. k + 1 /\ j \in 1 .. n /\ j # k + 1
      BY <1>1, <2>1
    <2>6. \A x : ~(x \in ToSet(a) /\ x \in ToSet(b))
      BY <2>1, <2>3, <2>5
    <2>7. a \in Seq(T)
      BY <2>2
    <2>8. b \in Seq(T)
      BY <2>2
    <2>9. c = a \o b
      BY <2>2
    <2>10. IsInjective(a)
      BY <2>3
    <2>11. IsInjective(c)
      BY ONLY <2>4, <2>6, <2>7, <2>8, <2>9, <2>10, JoinedInjective
    <2>12. \A x : x \in ToSet(c) <=> x \in ToSet(a) \/ x \in ToSet(b)
      BY ONLY <2>7, <2>8, <2>9, JoinedMembers
    <2>13. k + 1 \in 1 .. k + 1
      OBVIOUS
    <2> QED
      BY <2>11, <2>3, <2>5, <2>12, <2>13
  <1>7. Once(n)
    <2>1. n \in S
      <3> HIDE DEF S
      <3> QED
        BY <1>1, <1>5, <1>6, InductiveSet
    <2> QED
      BY <2>1
  <1> QED
    BY <1>2, Flattened, <1>7

(* No child is listed twice. *)
LEMMA ChildrenOnce ==
    ASSUME SearchInv, NEW v \in Vertices
    PROVE  IsInjective(ChildrenOf(v))
  <1> DEFINE part(n) == IF VertexOf(idom[n]) = v THEN <<VertexOf(n)>> ELSE << >>
             len == Len(preorder) - 1
             s == [ n \in 1 .. len |-> part(n) ]
  <1>1. /\ Len(preorder) = Len(parent) /\ Len(parent) \in Nat \ {0} /\ preorder \in Seq(Vertices)
        /\ \A n \in Nodes(parent) : number[VertexOf(n)] = n
    BY DEF SearchInv, SearchTypes, Tree
  <1>2. \A n \in 1 .. len : VertexOf(n) \in Vertices /\ number[VertexOf(n)] = n
    <2> SUFFICES ASSUME NEW n \in 1 .. len
                 PROVE  VertexOf(n) \in Vertices /\ number[VertexOf(n)] = n
      OBVIOUS
    <2> QED
      BY <1>1, MemberOfSequence DEF VertexOf, Nodes
  <1>3. \A n \in 1 .. len : part(n) \in Seq(Vertices)
    BY <1>2
  <1>4. ASSUME NEW n \in 1 .. len, NEW x, x \in ToSet(part(n))
        PROVE  x = VertexOf(n)
    BY <1>4 DEF ToSet
  <1>5. ASSUME NEW n \in 1 .. len
        PROVE  IsInjective(part(n))
    <2> PICK u : u = VertexOf(n)
      OBVIOUS
    <2>1. part(n) = <<u>> \/ part(n) = << >>
      OBVIOUS
    <2>2. IsInjective(<<u>>) /\ IsInjective(<< >>)
      BY DEF IsInjective
    <2> QED
      BY ONLY <2>1, <2>2
  <1> HIDE DEF part
  <1>6. len \in Nat
    BY <1>1
  <1> HIDE DEF len
  <1>7. s \in Seq(Seq(Vertices)) /\ Len(s) = len /\ \A n \in 1 .. len : s[n] = part(n)
    BY <1>3, <1>6
  <1>8. ChildrenOf(v) = FlattenSeq(s)
    BY DEF ChildrenOf, part, len
  <1> HIDE DEF s
  <1>10. ASSUME NEW j \in 1 .. Len(s), NEW k \in 1 .. Len(s), j # k, NEW x,
                x \in ToSet(s[j]), x \in ToSet(s[k])
         PROVE  FALSE
    BY <1>7, <1>4, <1>10, <1>2
  <1>11. s \in Seq(Seq(Vertices))
    BY <1>7
  <1> QED
    BY <1>8, <1>5, <1>7, <1>10, <1>11, FlattenedInjective
-----------------------------------------------------------------------------
(* The tree that is walked: the vertices that have a number, under         *)
(* dominance.                                                              *)
NumberedVertices == { v \in Vertices : Numbered(v) }

Dominance == { p \in NumberedVertices \X NumberedVertices :
                 Dominator(parent, Arcs, number[p[1]], number[p[2]]) }

LEMMA DominatorTreeIsWalked ==
    ASSUME SearchInv, Explored, idom \in [Nodes(parent) -> Int],
           \A n \in 1 .. Len(parent) - 1 : ImmediateDominator(parent, Arcs, idom[n], n)
    PROVE  WalkedTree(Vertices, NumberedVertices, Dominance,
                      [ v \in Vertices |-> ChildrenOf(v) ], input.start)
  <1> PICK P : P = parent
    OBVIOUS
  <1> PICK A : A = Arcs
    OBVIOUS
  <1> PICK V : V = Vertices
    OBVIOUS
  <1> PICK N : N = NumberedVertices
    OBVIOUS
  <1> PICK T : T = Dominance
    OBVIOUS
  <1> PICK start : start = input.start
    OBVIOUS
  <1> PICK at : at = number
    OBVIOUS
  <1> PICK ch : ch = [ v \in V |-> ChildrenOf(v) ]
    OBVIOUS
  <1> DEFINE vertex(n) == VertexOf(n)
  <1>1. DepthFirst(P, A) /\ Tree(P) /\ \A n \in Nodes(P) : n \in Nat
    BY SearchIsDepthFirst, TreeFacts DEF DepthFirst
  <1>2. Nodes(P) = 0 .. Len(P) - 1 /\ Len(P) \in Nat /\ 0 \in Nodes(P)
    <2>1. Nodes(P) = 0 .. Len(P) - 1 /\ Len(P) \in Nat
      BY <1>1 DEF Nodes, Tree
    <2>2. parent # << >>
      BY DEF SearchInv, SearchTypes
    <2>3. Len(P) # 0
      BY <1>1, <2>2 DEF Tree
    <2> QED
      BY <2>1, <2>3
  <1>3. /\ \A v \in N : v \in V /\ at[v] \in Nodes(P) /\ vertex(at[v]) = v
        /\ \A n \in Nodes(P) : vertex(n) \in N /\ at[vertex(n)] = n
        /\ start \in N /\ at[start] = 0
    BY NumberFacts DEF NumberedVertices
  <1>4. \A a, b \in N : <<a, b>> \in T <=> Dominator(P, A, at[a], at[b])
    BY DEF Dominance
  <1>5. ASSUME NEW n \in 1 .. Len(P) - 1
        PROVE  n \in Nodes(P) /\ idom[n] \in Nodes(P) /\ ImmediateDominator(P, A, idom[n], n)
    BY <1>2 DEF ImmediateDominator, Dominator
  <1>6. ASSUME NEW v \in V
        PROVE  /\ ch[v] \in Seq(V) /\ IsInjective(ch[v])
               /\ \A y : y \in ToSet(ch[v]) <=>
                      \E n \in 1 .. Len(P) - 1 : vertex(idom[n]) = v /\ y = vertex(n)
    BY ChildrenMembers, ChildrenOnce
  <1> HIDE DEF vertex
  <1>7. \A a \in N : <<a, a>> \in T /\ <<start, a>> \in T
    <2>1. ForwardClosed(A, 0, {})
      BY DEF ForwardClosed
    <2>2. \A n \in Nodes(P) : Dominator(P, A, 0, n)
      BY <1>2, <2>1 DEF Dominator, Avoids
    <2>3. \A n \in Nodes(P) : Dominator(P, A, n, n)
      BY <1>1, DominatorOfSelf
    <2> QED
      BY <1>3, <1>4, <2>2, <2>3
  <1>8. \A a, b, c \in N : <<a, b>> \in T /\ <<b, c>> \in T => <<a, c>> \in T
    BY <1>1, <1>4, DominatorTransitive
  <1>9. ASSUME NEW a \in N, NEW b \in N, <<a, b>> \in T, <<b, a>> \in T
        PROVE  a = b
    <2>1. Ancestor(P, at[a], at[b]) /\ Ancestor(P, at[b], at[a])
      BY <1>1, <1>4, <1>9, DominatorIsAncestor
    <2>2. at[a] <= at[b] /\ at[b] <= at[a]
      BY <1>1, <2>1, AncestorIsLess
    <2>3. at[a] \in Nat /\ at[b] \in Nat
      BY <1>1, <1>3
    <2>4. at[a] = at[b]
      BY <2>2, <2>3
    <2> QED
      BY <1>3, <2>4
  <1>10. ASSUME NEW d \in V, NEW i \in DOMAIN ch[d]
         PROVE  \E n \in 1 .. Len(P) - 1 : vertex(idom[n]) = d /\ ch[d][i] = vertex(n)
    <2> PICK y : y = ch[d][i]
      OBVIOUS
    <2>1. y \in ToSet(ch[d])
      BY DEF ToSet
    <2>2. \A z : z \in ToSet(ch[d]) <=>
              \E n \in 1 .. Len(P) - 1 : vertex(idom[n]) = d /\ z = vertex(n)
      BY <1>6
    <2> QED
      BY <2>1, <2>2
  <1>11. ch \in [V -> Seq(N)]
    <2>1. ASSUME NEW v \in V PROVE ch[v] \in Seq(N)
      <3> PICK s : s = ch[v]
        OBVIOUS
      <3>1. s \in Seq(V)
        BY <1>6
      <3>2. \A i \in DOMAIN s : s[i] \in N
        BY <1>3, <1>5, <1>10
      <3> QED
        BY <3>1, <3>2
    <2>2. ch = [ v \in V |-> ch[v] ]
      OBVIOUS
    <2> QED
      BY <2>1, <2>2
  <1>12. ASSUME NEW d \in N, NEW i \in DOMAIN ch[d]
         PROVE  /\ ch[d][i] \in N /\ <<d, ch[d][i]>> \in T /\ ch[d][i] # d
                /\ \A a \in N : <<a, ch[d][i]>> \in T => a = ch[d][i] \/ <<a, d>> \in T
                /\ \A j \in DOMAIN ch[d] : ch[d][i] = ch[d][j] => i = j
    <2> PICK u : u = ch[d][i]
      OBVIOUS
    <2>1. PICK n \in 1 .. Len(P) - 1 : vertex(idom[n]) = d /\ u = vertex(n)
      BY <1>3, <1>10
    <2> PICK m : m = idom[n]
      OBVIOUS
    <2>2. n \in Nodes(P) /\ m \in Nodes(P) /\ ImmediateDominator(P, A, m, n)
      BY <1>5
    <2>3. u \in N /\ at[u] = n /\ at[d] = m
      BY <1>3, <2>1, <2>2
    <2>4. Dominator(P, A, m, n) /\ m # n
      BY <2>2 DEF ImmediateDominator
    <2>5. <<d, u>> \in T /\ u # d
      BY <1>4, <2>3, <2>4
    <2>6. ASSUME NEW a \in N, <<a, u>> \in T, a # u
          PROVE  <<a, d>> \in T
      <3>1. Dominator(P, A, at[a], n) /\ at[a] \in Nodes(P)
        BY <1>3, <1>4, <2>3, <2>6
      <3>2. at[a] # n
        BY <1>3, <2>3, <2>6
      <3>3. at[a] <= m
        BY <2>2, <3>1, <3>2 DEF ImmediateDominator
      <3>4. Dominator(P, A, at[a], m)
        BY <1>1, <2>4, <3>1, <3>3, DominatorsAreAChain
      <3> QED
        BY <1>4, <2>3, <3>4
    <2>7. \A j \in DOMAIN ch[d] : ch[d][i] = ch[d][j] => i = j
      BY <1>3, <1>6 DEF IsInjective
    <2> QED
      BY <2>3, <2>5, <2>6, <2>7
  <1>13. ASSUME NEW E, start \in E,
                \A d \in N : d \in E => \A i \in DOMAIN ch[d] : ch[d][i] \in E
         PROVE  N \subseteq E
    <2> DEFINE S == { n \in Nodes(P) : vertex(n) \notin E }
    <2> SUFFICES ASSUME NEW v \in N, v \notin E PROVE FALSE
      OBVIOUS
    <2>1. at[v] \in S
      BY <1>3
    <2>2. S \subseteq Nat
      BY <1>1
    <2>3. PICK n \in S : \A m \in S : n <= m
      <3> HIDE DEF S
      <3> QED
        BY <2>1, <2>2, LeastNatural
    <2>4. n \in Nodes(P) /\ vertex(n) \notin E
      BY <2>3
    <2>5. n # 0
      <3>1. vertex(0) = start
        BY <1>3
      <3> QED
        BY <1>13, <2>4, <3>1
    <2>6. n \in 1 .. Len(P) - 1
      BY <1>2, <2>4, <2>5
    <2> PICK m : m = idom[n]
      OBVIOUS
    <2>7. m \in Nodes(P) /\ Dominator(P, A, m, n) /\ m # n
      BY <1>5, <2>6 DEF ImmediateDominator
    <2>8. m <= n /\ m \in Nat /\ n \in Nat
      BY <1>1, <2>4, <2>7, DominatorIsAncestor, AncestorIsLess
    <2>9. vertex(m) \in E
      BY <2>3, <2>7, <2>8
    <2>10. vertex(m) \in N /\ vertex(m) \in V
      BY <1>3, <2>7
    <2>11. vertex(n) \in ToSet(ch[vertex(m)])
      BY <1>6, <2>6, <2>10
    <2>12. PICK i \in DOMAIN ch[vertex(m)] : ch[vertex(m)][i] = vertex(n)
      BY <2>11 DEF ToSet
    <2> QED
      BY <1>13, <2>4, <2>9, <2>10, <2>12
  <1>14. N \subseteq V
    BY <1>3
  <1>15. WalkedTree(V, N, T, ch, start)
    BY <1>3, <1>7, <1>8, <1>9, <1>11, <1>12, <1>13, <1>14 DEF WalkedTree
  <1> QED
    BY <1>15
-----------------------------------------------------------------------------
(* The intervals are the times of the walk. *)
Entered(V, I) == [ v \in V |-> I[v][1] ]

Left(V, I) == [ v \in V |-> I[v][2] ]

Put(I, u, k, c) == [I EXCEPT ![u][k] = c]

LEMMA EnteredAt ==
    ASSUME NEW V, NEW I, I \in [V -> Int \X Int], NEW u, u \in V, NEW c, c \in Int
    PROVE  /\ Put(I, u, 1, c) \in [V -> Int \X Int]
           /\ Entered(V, Put(I, u, 1, c)) = [Entered(V, I) EXCEPT ![u] = c]
           /\ Left(V, Put(I, u, 1, c)) = Left(V, I)
  <1> DEFINE pair == [I[u] EXCEPT ![1] = c]
  <1> PICK J : J = Put(I, u, 1, c)
    OBVIOUS
  <1>2. pair = <<c, I[u][2]>> /\ I[u][2] \in Int
    OBVIOUS
  <1> HIDE DEF pair
  <1>4. pair \in Int \X Int /\ pair[1] = c /\ pair[2] = I[u][2]
    BY <1>2
  <1>5. J \in [V -> Int \X Int] /\ J[u] = pair /\ \A v \in V : v # u => J[v] = I[v]
    BY <1>4 DEF Put
  <1>6. \A v \in V : J[v][2] = I[v][2] /\ J[v][1] = IF v = u THEN c ELSE I[v][1]
    BY <1>4, <1>5
  <1>7. Left(V, J) = Left(V, I)
    BY <1>6 DEF Left
  <1>8. Entered(V, J) = [Entered(V, I) EXCEPT ![u] = c]
    <2> PICK f : f = Entered(V, I)
      OBVIOUS
    <2>1. f = [ v \in V |-> f[v] ] /\ \A v \in V : f[v] = I[v][1]
      BY DEF Entered
    <2>3. Entered(V, J) = [ v \in V |-> IF v = u THEN c ELSE I[v][1] ]
      BY <1>6 DEF Entered
    <2> QED
      BY ONLY <2>1, <2>3, f = Entered(V, I)
  <1> QED
    BY ONLY <1>5, <1>7, <1>8, J = Put(I, u, 1, c)

LEMMA LeftAt ==
    ASSUME NEW V, NEW I, I \in [V -> Int \X Int], NEW u, u \in V, NEW c, c \in Int
    PROVE  /\ Put(I, u, 2, c) \in [V -> Int \X Int]
           /\ Left(V, Put(I, u, 2, c)) = [Left(V, I) EXCEPT ![u] = c]
           /\ Entered(V, Put(I, u, 2, c)) = Entered(V, I)
  <1> DEFINE pair == [I[u] EXCEPT ![2] = c]
  <1> PICK J : J = Put(I, u, 2, c)
    OBVIOUS
  <1>2. pair = <<I[u][1], c>> /\ I[u][1] \in Int
    OBVIOUS
  <1> HIDE DEF pair
  <1>4. pair \in Int \X Int /\ pair[2] = c /\ pair[1] = I[u][1]
    BY <1>2
  <1>5. J \in [V -> Int \X Int] /\ J[u] = pair /\ \A v \in V : v # u => J[v] = I[v]
    BY <1>4 DEF Put
  <1>6. \A v \in V : J[v][1] = I[v][1] /\ J[v][2] = IF v = u THEN c ELSE I[v][2]
    BY <1>4, <1>5
  <1>7. Entered(V, J) = Entered(V, I)
    BY <1>6 DEF Entered
  <1>8. Left(V, J) = [Left(V, I) EXCEPT ![u] = c]
    <2> PICK f : f = Left(V, I)
      OBVIOUS
    <2>1. f = [ v \in V |-> f[v] ] /\ \A v \in V : f[v] = I[v][2]
      BY DEF Left
    <2>3. Left(V, J) = [ v \in V |-> IF v = u THEN c ELSE I[v][2] ]
      BY <1>6 DEF Left
    <2> QED
      BY ONLY <2>1, <2>3, f = Left(V, I)
  <1> QED
    BY ONLY <1>5, <1>7, <1>8, J = Put(I, u, 2, c)

(* The walk with the stack S. *)
WalkTo(S) ==
    Walk(Vertices, NumberedVertices, Dominance, children, input.start, S,
         Entered(Vertices, interval), Left(Vertices, interval), cursor)

WalkKept ==
    /\ interval \in [Vertices -> Int \X Int]
    /\ phase \notin {"walking", "built"} => interval = [ v \in Vertices |-> <<None, None>> ]
    /\ phase = "walking" => WalkTo(stack)
    /\ phase = "built" => WalkTo(<< >>)

LEMMA WalkStarts ==
    ASSUME ConstructionInv, WalkKept, StartWalk
    PROVE  WalkKept'
  <1> PICK V : V = Vertices
    OBVIOUS
  <1> PICK N : N = NumberedVertices
    OBVIOUS
  <1> PICK T : T = Dominance
    OBVIOUS
  <1> PICK start : start = input.start
    OBVIOUS
  <1> PICK ch : ch = [ v \in V |-> ChildrenOf(v) ]
    OBVIOUS
  <1> PICK I : I = interval
    OBVIOUS
  <1> PICK J : J = interval'
    OBVIOUS
  <1>1. /\ phase = "correcting" /\ cursor + 1 = Len(preorder) /\ children' = ch
        /\ J = Put(I, start, 1, 0) /\ cursor' = 1
        /\ stack' = <<[vertex |-> start, next |-> 1]>> /\ phase' = "walking"
        /\ UNCHANGED <<input, number, preorder, parent>>
    BY DEF StartWalk, ChildrenOf, search, Put
  <1>6. WalkedTree(V, N, T, ch, start)
    BY <1>1, DominatorTreeIsWalked DEF SearchInv, SearchTypes, Tree, DominatorsFound,
       Correcting, ConstructionInv
  <1>7. start \in V
    BY <1>6 DEF WalkedTree
  <1>8. I = [ v \in V |-> <<None, None>> ] /\ I \in [V -> Int \X Int]
    BY <1>1 DEF WalkKept
  <1>9. /\ J \in [V -> Int \X Int]
        /\ Entered(V, J) = [Entered(V, I) EXCEPT ![start] = 0] /\ Left(V, J) = Left(V, I)
    <2> PICK zero : zero = 0
      OBVIOUS
    <2>1. J = Put(I, start, 1, zero)
      BY <1>1
    <2>2. I \in [V -> Int \X Int]
      BY <1>8
    <2>3. zero \in Int
      OBVIOUS
    <2>4. /\ Put(I, start, 1, zero) \in [V -> Int \X Int]
          /\ Entered(V, Put(I, start, 1, zero)) = [Entered(V, I) EXCEPT ![start] = zero]
          /\ Left(V, Put(I, start, 1, zero)) = Left(V, I)
      BY ONLY <1>7, <2>2, <2>3, EnteredAt
    <2> QED
      BY ONLY <2>1, <2>4, zero = 0
  <1>10. Entered(V, J) = [ v \in V |-> IF v = start THEN 0 ELSE None ]
    <2>1. Entered(V, I) = [ v \in V |-> None ]
      BY <1>8 DEF Entered
    <2> QED
      BY <1>9, <2>1
  <1>11. Left(V, J) = [ v \in V |-> None ]
    BY <1>8, <1>9 DEF Left
  <1>13. Vertices' = V /\ NumberedVertices' = N /\ Dominance' = T /\ input'.start = start
    BY <1>1 DEF Vertices, NumberedVertices, Numbered, Dominance, Arcs, VertexOf
  <1>14. (WalkTo(stack))'
    BY <1>1, <1>6, <1>10, <1>11, WalkBegins, <1>13 DEF WalkTo
  <1> QED
    BY <1>1, <1>9, <1>13, <1>14 DEF WalkKept

(* The walk is over the dominator tree. *)
LEMMA TreeIsWalked ==
    ASSUME ConstructionInv, ChildrenKept, phase \in {"walking", "built"}
    PROVE  WalkedTree(Vertices, NumberedVertices, Dominance, children, input.start)
  <1> QED
    BY DominatorTreeIsWalked DEF ConstructionInv, DominatorsFound, SearchInv, ChildrenKept

LEMMA WalkContinues ==
    ASSUME ConstructionInv, ChildrenKept, WalkKept, WalkChild
    PROVE  WalkKept'
  <1> PICK V : V = Vertices
    OBVIOUS
  <1> PICK N : N = NumberedVertices
    OBVIOUS
  <1> PICK T : T = Dominance
    OBVIOUS
  <1> PICK start : start = input.start
    OBVIOUS
  <1> PICK ch : ch = children
    OBVIOUS
  <1> PICK S : S = stack
    OBVIOUS
  <1> PICK I : I = interval
    OBVIOUS
  <1> PICK J : J = interval'
    OBVIOUS
  <1> PICK c : c = cursor
    OBVIOUS
  <1> PICK top : top = S[Len(S)]
    OBVIOUS
  <1> PICK u : u = ch[top.vertex][top.next]
    OBVIOUS
  <1>1. /\ phase = "walking" /\ S # << >> /\ top.next <= Len(ch[top.vertex])
        /\ J = Put(I, u, 1, c) /\ cursor' = c + 1 /\ stack' = Pushed(S, u)
        /\ phase' = "walking"
        /\ UNCHANGED <<input, number, preorder, parent, children>>
    BY DEF WalkChild, Top, Last, Pushed, search, Put
  <1>2. WalkedTree(V, N, T, ch, start)
    BY <1>1, TreeIsWalked
  <1>3. Walk(V, N, T, ch, start, S, Entered(V, I), Left(V, I), c)
    BY <1>1 DEF WalkKept, WalkTo
  <1>4. top.next <= Len(ch[top.vertex]) /\ S # << >>
    BY <1>1
  <1>5. /\ u \in V
        /\ Walk(V, N, T, ch, start, Pushed(S, u), [Entered(V, I) EXCEPT ![u] = c], Left(V, I), c + 1)
    BY ONLY <1>2, <1>3, <1>4, top = S[Len(S)], u = ch[top.vertex][top.next], WalkEnters
  <1>6. I \in [V -> Int \X Int] /\ c \in Int
    BY <1>3 DEF WalkKept, Walk, Times
  <1>7. /\ J \in [V -> Int \X Int]
        /\ Entered(V, J) = [Entered(V, I) EXCEPT ![u] = c] /\ Left(V, J) = Left(V, I)
    <2>1. J = Put(I, u, 1, c)
      BY <1>1
    <2> QED
      BY ONLY <1>5, <1>6, <2>1, EnteredAt, SMTT(30)
  <1>9. Vertices' = V /\ NumberedVertices' = N /\ Dominance' = T /\ input'.start = start
    BY <1>1 DEF Vertices, NumberedVertices, Numbered, Dominance, Arcs, VertexOf
  <1> QED
    BY <1>1, <1>7, <1>9, <1>5, ZenonT(60) DEF WalkKept, WalkTo

LEMMA WalkReturns ==
    ASSUME ConstructionInv, ChildrenKept, WalkKept, WalkDone
    PROVE  WalkKept'
  <1> PICK V : V = Vertices
    OBVIOUS
  <1> PICK N : N = NumberedVertices
    OBVIOUS
  <1> PICK T : T = Dominance
    OBVIOUS
  <1> PICK start : start = input.start
    OBVIOUS
  <1> PICK ch : ch = children
    OBVIOUS
  <1> PICK S : S = stack
    OBVIOUS
  <1> PICK I : I = interval
    OBVIOUS
  <1> PICK J : J = interval'
    OBVIOUS
  <1> PICK c : c = cursor
    OBVIOUS
  <1> PICK top : top = S[Len(S)]
    OBVIOUS
  <1>1. /\ phase = "walking" /\ S # << >> /\ top.next > Len(ch[top.vertex])
        /\ J = Put(I, top.vertex, 2, c) /\ cursor' = c /\ stack' = Front(S)
        /\ phase' = IF Len(S) = 1 THEN "built" ELSE "walking"
        /\ UNCHANGED <<input, number, preorder, parent, children>>
    BY DEF WalkDone, Top, Last, search, Put
  <1>2. WalkedTree(V, N, T, ch, start)
    BY <1>1, TreeIsWalked
  <1>3. Walk(V, N, T, ch, start, S, Entered(V, I), Left(V, I), c)
    BY <1>1 DEF WalkKept, WalkTo
  <1>4. top.next > Len(ch[top.vertex]) /\ S # << >>
    BY <1>1
  <1>5. /\ top.vertex \in V
        /\ Walk(V, N, T, ch, start, Front(S), Entered(V, I), [Left(V, I) EXCEPT ![top.vertex] = c], c)
    BY ONLY <1>2, <1>3, <1>4, top = S[Len(S)], WalkLeaves
  <1>6. I \in [V -> Int \X Int] /\ c \in Int
    BY <1>3 DEF WalkKept, Walk, Times
  <1>7. /\ J \in [V -> Int \X Int]
        /\ Left(V, J) = [Left(V, I) EXCEPT ![top.vertex] = c] /\ Entered(V, J) = Entered(V, I)
    <2> PICK d : d = top.vertex
      OBVIOUS
    <2>1. J = Put(I, d, 2, c)
      BY <1>1
    <2>2. d \in V
      BY <1>5
    <2>3. I \in [V -> Int \X Int]
      BY <1>6
    <2>4. c \in Int
      BY <1>6
    <2>5. /\ Put(I, d, 2, c) \in [V -> Int \X Int]
          /\ Left(V, Put(I, d, 2, c)) = [Left(V, I) EXCEPT ![d] = c]
          /\ Entered(V, Put(I, d, 2, c)) = Entered(V, I)
      BY ONLY <2>2, <2>3, <2>4, LeftAt
    <2> QED
      BY ONLY <2>1, <2>5, d = top.vertex
  <1>8. Walk(V, N, T, ch, start, Front(S), Entered(V, J), Left(V, J), c)
    BY ONLY <1>5, <1>7
  <1>9. Vertices' = V /\ NumberedVertices' = N /\ Dominance' = T /\ input'.start = start
    BY <1>1 DEF Vertices, NumberedVertices, Numbered, Dominance, Arcs, VertexOf
  <1>11. Len(S) = 1 => Front(S) = << >>
    BY <1>3 DEF Walk, Front
  <1>12. phase' = "built" => (WalkTo(<< >>))'
    <2> SUFFICES ASSUME phase' = "built" PROVE (WalkTo(<< >>))'
      OBVIOUS
    <2> QED
      BY <1>1, <1>9, <1>8, <1>11 DEF WalkTo
  <1> QED
    BY <1>7, <1>9, <1>1, <1>8, <1>12 DEF WalkKept, WalkTo

LEMMA WalkInvariant ==
    ASSUME ConstructionInv, ChildrenKept, WalkKept, [Next]_vars
    PROVE  WalkKept'
  <1>1. CASE \/ SearchArc \/ SearchDone \/ StartForest \/ ConsiderPredecessor \/ LinkVertex
             \/ EmptyBucket \/ NextVertex \/ CorrectDominator
    <2>1. /\ phase' \notin {"walking", "built"} /\ phase \notin {"walking", "built"}
          /\ UNCHANGED <<input, interval>>
      BY <1>1 DEF SearchArc, SearchDone, StartForest, StartVertex, ConsiderPredecessor,
                  LinkVertex, EmptyBucket, NextVertex, CorrectDominator, tree
    <2> QED
      BY <2>1 DEF WalkKept, Vertices
  <1>2. CASE UNCHANGED vars
    <2>1. /\ UNCHANGED <<input, number, preorder, parent, stack, cursor, phase>>
          /\ UNCHANGED <<children, interval>>
      BY <1>2 DEF vars
    <2> QED
      BY <2>1 DEF WalkKept, WalkTo, Vertices, NumberedVertices, Numbered, Dominance, Arcs,
         VertexOf
  <1> QED
    BY <1>1, <1>2, WalkStarts, WalkContinues, WalkReturns DEF Next, Returned

(* The comparison of two intervals that dominates() makes answers for      *)
(* every pair of vertices what the definition with paths says.             *)
THEOREM IntervalsAreExact == Spec => []IntervalsExact
  <1>1. ASSUME ConstructionInv, ChildrenKept, WalkKept
        PROVE  IntervalsExact
    <2> SUFFICES ASSUME phase = "built", NEW d \in Vertices
                 PROVE  { v \in Vertices : Dominates(d, v) }
                            = DominatedBy(input.succ, input.start, d)
      BY DEF IntervalsExact
    <2> PICK e : e = Entered(Vertices, interval)
      OBVIOUS
    <2> PICK x : x = Left(Vertices, interval)
      OBVIOUS
    <2>2. WalkedTree(Vertices, NumberedVertices, Dominance, children, input.start)
      BY <1>1, TreeIsWalked
    <2>3. Walk(Vertices, NumberedVertices, Dominance, children, input.start, << >>, e, x, cursor)
      BY <1>1 DEF WalkKept, WalkTo
    <2>4. ASSUME NEW a \in NumberedVertices, NEW b \in NumberedVertices
          PROVE  e[a] <= e[b] /\ x[b] <= x[a] <=> <<a, b>> \in Dominance
      BY ONLY <2>2, <2>3, WalkEnds
    <2>5. \A v \in Vertices : e[v] = interval[v][1] /\ x[v] = interval[v][2]
      BY DEF Entered, Left
    <2>6. ASSUME NEW v \in Vertices
          PROVE  Dominates(d, v) <=> /\ Numbered(d) /\ Numbered(v)
                                     /\ Dominator(parent, Arcs, number[d], number[v])
      <3>1. CASE ~(Numbered(d) /\ Numbered(v))
        BY <3>1 DEF Dominates
      <3>2. CASE Numbered(d) /\ Numbered(v)
        <4>1. d \in NumberedVertices /\ v \in NumberedVertices
          BY <3>2 DEF NumberedVertices
        <4> QED
          BY <2>5, <3>2, <2>4, <4>1 DEF Dominates, Dominance
      <3> QED
        BY <3>1, <3>2
    <2> QED
      BY <2>6, <1>1, DominanceOfNumbers DEF ConstructionInv, SearchInv
  <1>2. Init => ChildrenKept
    BY DEF Init, ChildrenKept
  <1>3. ChildrenKept /\ [Next]_vars => ChildrenKept'
    BY ChildrenInvariant
  <1>4. Init => WalkKept
    BY DEF Init, WalkKept, None
  <1>5. ConstructionInv /\ ChildrenKept /\ WalkKept /\ [Next]_vars => WalkKept'
    BY WalkInvariant
  <1> QED
    BY <1>1, <1>2, <1>3, <1>4, <1>5, InductiveInvariant, PTL DEF Spec
=============================================================================
