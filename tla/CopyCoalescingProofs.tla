------------------------ MODULE CopyCoalescingProofs ------------------------
(***************************************************************************)
(* Proofs about CopyCoalescing, for any number of locations and any input: *)
(* the union-find forest of coalesce_phi_free_registers is one of shallow  *)
(* trees, and the algorithm implements the partition of CopyClasses.       *)
(*                                                                         *)
(* The argument rests on one measure.  The size a node had when it last    *)
(* was a root grows along every path, so that a path cannot be longer than *)
(* there are locations, and every path ends in a root.                     *)
(***************************************************************************)
EXTENDS CopyCoalescing, FiniteSetTheorems, TLAPS

Measured ==
    /\ parent \in [Location -> Location]
    /\ class_size \in [Location -> 1 .. LocationCount]
    /\ \A l \in Location : parent[l] # l => class_size[l] < class_size[parent[l]]

(* A set of locations no path leaves. *)
Closed(S) == S \subseteq Location /\ \A l \in S : parent[l] \in S

(* The sizes of the roots are those of their classes, and a path with one  *)
(* more step needs a class twice as large.                                 *)
Sized == \A l \in Location : class_size[Root(l)] = Cardinality(ClassOf(l))

Shallow ==
    \A l \in Location : Doubled[Cardinality(OnPaths({l})) - 1] <= Cardinality(ClassOf(l))

Parents(S) == S \cup { parent[l] : l \in S }
-----------------------------------------------------------------------------
(* Induction, from the well-founded order of the natural numbers: a set of *)
(* natural numbers that is not empty has a least one, and one that holds   *)
(* zero and the successors of its members holds all.                       *)
LEMMA LeastNatural ==
    ASSUME NEW S, S \subseteq Nat, S # {}
    PROVE  \E x \in S : \A y \in S : x <= y
  <1> DEFINE R == OpToRel(<, Nat)
  <1>1. IsWellFoundedOn(R, Nat)
    BY NatLessThanWellFounded
  <1>2. \A x, y \in S : <<y, x>> \in R <=> y < x
    BY DEF OpToRel
  <1> HIDE DEF R
  <1>3. PICK x \in S : \A y \in S : <<y, x>> \notin R
    BY <1>1, WFMin
  <1>4. ASSUME NEW y \in S PROVE x <= y
    <2>1. ~(y < x) /\ x \in Nat /\ y \in Nat
      BY <1>2, <1>3
    <2> QED
      BY <2>1
  <1> QED
    BY <1>4

(* A set of naturals that holds zero and every successor holds them all. *)
LEMMA InductiveSet ==
    ASSUME NEW S, 0 \in S, \A n \in Nat : n \in S => n + 1 \in S
    PROVE  Nat \subseteq S
  <1> DEFINE T == Nat \ S
  <1>1. SUFFICES ASSUME T # {} PROVE FALSE
    OBVIOUS
  <1>2. PICK m \in T : \A y \in T : m <= y
    BY <1>1, LeastNatural
  <1> QED
    BY <1>2
-----------------------------------------------------------------------------
(* The sets the loop of OnPaths goes through exist for any number of steps.*)
LEMMA StepsExist ==
    ASSUME NEW N, NEW n \in Nat
    PROVE  \E g : g = [ k \in 0 .. n |-> IF k = 0 THEN N ELSE Parents(g[k - 1]) ]
  <1> DEFINE Steps(m, g) == [ k \in 0 .. m |-> IF k = 0 THEN N ELSE Parents(g[k - 1]) ]
             S == { m \in Nat : \E g : g = Steps(m, g) }
  <1>1. 0 \in S
    <2>1. [ k \in 0 .. 0 |-> N ] = Steps(0, [ k \in 0 .. 0 |-> N ])
      OBVIOUS
    <2> QED
      BY <2>1
  <1>2. ASSUME NEW m \in Nat, m \in S
        PROVE  m + 1 \in S
    <2>1. PICK g : g = Steps(m, g)
      BY <1>2
    <2> DEFINE h == [ k \in 0 .. m + 1 |-> IF k = m + 1 THEN Parents(g[m]) ELSE g[k] ]
    <2>2. ASSUME NEW k \in 0 .. m + 1
          PROVE  h[k] = IF k = 0 THEN N ELSE Parents(h[k - 1])
      BY <2>1
    <2>3. h = Steps(m + 1, h)
      <3>2. h = [ k \in 0 .. m + 1 |-> h[k] ]
        OBVIOUS
      <3> HIDE DEF h
      <3> QED
        BY <3>2, <2>2
    <2> HIDE DEF h, Steps
    <2> QED
      BY <2>3
  <1>3. n \in S
    <2> HIDE DEF S
    <2> QED
      BY <1>1, <1>2, InductiveSet
  <1> QED
    BY <1>3

(* OnPaths(N) is the last of LocationCount steps from N.                   *)
LEMMA OnPathsBySteps ==
    ASSUME NEW N
    PROVE  \E g : /\ OnPaths(N) = g[LocationCount]
                  /\ g[0] = N
                  /\ \A k \in 0 .. LocationCount - 1 : g[k + 1] = Parents(g[k])
  <1> DEFINE Steps(g) == [ k \in 0 .. LocationCount |->
                             IF k = 0 THEN N
                             ELSE LET before == g[k - 1]
                                  IN  before \cup { parent[l] : l \in before } ]
             F == CHOOSE g : g = Steps(g)
  <1>1. OnPaths(N) = F[LocationCount]
    BY DEF OnPaths
  <1>2. F = Steps(F)
    <2>1. \E g : g = Steps(g)
      <3>1. PICK g : g = [ k \in 0 .. LocationCount |->
                             IF k = 0 THEN N ELSE Parents(g[k - 1]) ]
        BY LocationCountAssumption, StepsExist
      <3>2. Steps(g) = [ k \in 0 .. LocationCount |->
                             IF k = 0 THEN N ELSE Parents(g[k - 1]) ]
        BY DEF Parents
      <3> HIDE DEF Steps
      <3> QED
        BY <3>1, <3>2
    <2> HIDE DEF Steps
    <2> QED
      BY <2>1
  <1> HIDE DEF F
  <1>3. F[0] = N
    BY LocationCountAssumption, <1>2
  <1>4. ASSUME NEW k \in 0 .. LocationCount - 1
        PROVE  F[k + 1] = Parents(F[k])
    BY LocationCountAssumption, <1>2 DEF Parents
  <1> QED
    BY <1>1, <1>3, <1>4

(* It is the least set of locations with N that no path leaves.            *)
LEMMA OnPathsIsLeast ==
    ASSUME Measured, NEW N \in SUBSET Location
    PROVE  /\ N \subseteq OnPaths(N)
           /\ Closed(OnPaths(N))
           /\ \A C : Closed(C) /\ N \subseteq C => OnPaths(N) \subseteq C
  <1>1. PICK g : /\ OnPaths(N) = g[LocationCount]
                 /\ g[0] = N
                 /\ \A k \in 0 .. LocationCount - 1 : g[k + 1] = Parents(g[k])
    BY OnPathsBySteps
  <1>2. ASSUME NEW n \in Nat, n < LocationCount
        PROVE  n \in 0 .. LocationCount - 1 /\ g[n + 1] = Parents(g[n])
    BY <1>1, <1>2, LocationCountAssumption
  <1>3. ASSUME NEW C, Closed(C), N \subseteq C
        PROVE  OnPaths(N) \subseteq C
    <2> DEFINE S == { n \in Nat : n <= LocationCount => g[n] \subseteq C }
    <2>1. 0 \in S
      BY <1>1, <1>3
    <2>2. ASSUME NEW n \in Nat, n \in S
          PROVE  n + 1 \in S
      <3> SUFFICES ASSUME n + 1 <= LocationCount PROVE g[n + 1] \subseteq C
        OBVIOUS
      <3> QED
        BY <1>3, <2>2, LocationCountAssumption, <1>2 DEF Closed, Parents
    <2>3. LocationCount \in S
      <3> HIDE DEF S
      <3> QED
        BY <2>1, <2>2, InductiveSet, LocationCountAssumption
    <2> QED
      BY <1>1, <2>3, LocationCountAssumption
  <1>4. \A l \in Location : parent[l] \in Location /\ class_size[l] \in 1 .. LocationCount
    BY DEF Measured
  <1>5. Closed(Location)
    BY <1>4 DEF Closed
  <1> DEFINE S == { n \in Nat : n <= LocationCount =>
                      /\ N \subseteq g[n] /\ g[n] \subseteq Location
                      /\ \A l \in g[n] : class_size[l] >= n + 1 \/ parent[l] \in g[n] }
  <1>6. 0 \in S
    BY <1>4, LocationCountAssumption, <1>1
  <1>7. ASSUME NEW n \in Nat, n \in S
        PROVE  n + 1 \in S
    <2> SUFFICES ASSUME n + 1 <= LocationCount
                 PROVE  /\ N \subseteq g[n + 1] /\ g[n + 1] \subseteq Location
                        /\ \A l \in g[n + 1] : \/ class_size[l] >= (n + 1) + 1
                                               \/ parent[l] \in g[n + 1]
      OBVIOUS
    <2>1. n < LocationCount
      BY LocationCountAssumption
    <2>2. /\ N \subseteq g[n] /\ g[n] \subseteq Location
          /\ \A l \in g[n] : class_size[l] >= n + 1 \/ parent[l] \in g[n]
      BY <1>7, <2>1, LocationCountAssumption
    <2>3. g[n + 1] = g[n] \cup { parent[l] : l \in g[n] }
      BY <1>2, <2>1 DEF Parents
    <2>4. N \subseteq g[n + 1] /\ g[n + 1] \subseteq Location
      BY <1>4, <2>2, <2>3
    <2>5. ASSUME NEW l \in g[n + 1], parent[l] \notin g[n + 1]
          PROVE  class_size[l] >= (n + 1) + 1
      <3>1. l \notin g[n]
        BY <2>3, <2>5
      <3>2. PICK m \in g[n] : l = parent[m]
        BY <2>3, <3>1
      <3> QED
        BY <2>2, <2>4, <3>1, <3>2, <1>4, LocationCountAssumption DEF Measured
    <2> QED
      BY <2>4, <2>5
  <1>8. LocationCount \in S
    <2> HIDE DEF S
    <2> QED
      BY <1>6, <1>7, InductiveSet, LocationCountAssumption
  <1> QED
    BY <1>3, <1>1, <1>8, LocationCountAssumption, <1>4 DEF Closed

(* Of locations that are not empty some has the largest size.              *)
LEMMA LargestSize ==
    ASSUME Measured, NEW S \in SUBSET Location, S # {}
    PROVE  \E l \in S : \A m \in S : class_size[m] <= class_size[l]
  <1>1. \A l \in S : class_size[l] \in 1 .. LocationCount
    BY DEF Measured
  <1> DEFINE T == { LocationCount - class_size[l] : l \in S }
  <1>2. T \subseteq Nat /\ T # {}
    BY <1>1, LocationCountAssumption
  <1>3. PICK least \in T : \A y \in T : least <= y
    <2> HIDE DEF T
    <2> QED
      BY <1>2, LeastNatural
  <1>4. PICK l \in S : least = LocationCount - class_size[l]
    BY <1>3
  <1>5. ASSUME NEW m \in S PROVE class_size[m] <= class_size[l]
    <2>1. LocationCount - class_size[l] <= LocationCount - class_size[m]
      BY <1>3, <1>4
    <2>2. class_size[l] \in Int /\ class_size[m] \in Int
      BY <1>1
    <2> QED
      BY <2>1, <2>2, LocationCountAssumption
  <1> QED
    BY <1>5

(* A path has a root, and only one.                                        *)
LEMMA PathHasRoot ==
    ASSUME Measured, NEW l \in Location
    PROVE  \E r \in OnPaths({l}) : parent[r] = r
  <1>1. OnPaths({l}) \in SUBSET Location /\ OnPaths({l}) # {} /\ Closed(OnPaths({l}))
    BY OnPathsIsLeast DEF Closed
  <1>2. PICK r \in OnPaths({l}) : \A m \in OnPaths({l}) : class_size[m] <= class_size[r]
    BY <1>1, LargestSize
  <1> QED
    BY <1>1, <1>2 DEF Measured, Closed

(* No path leads to two roots: they would be on the path of the parent,    *)
(* whose class is larger.                                                  *)
LEMMA PathHasOneRoot ==
    ASSUME Measured
    PROVE  \A l \in Location : \A r, s \in OnPaths({l}) :
               parent[r] = r /\ parent[s] = s => r = s
  <1> DEFINE Bad == { l \in Location : \E r, s \in OnPaths({l}) :
                        parent[r] = r /\ parent[s] = s /\ r # s }
  <1> SUFFICES ASSUME Bad # {} PROVE FALSE
    OBVIOUS
  <1>1. PICK l \in Bad : \A m \in Bad : class_size[m] <= class_size[l]
    BY LargestSize
  <1>2. PICK r \in OnPaths({l}), s \in OnPaths({l}) :
            parent[r] = r /\ parent[s] = s /\ r # s
    BY <1>1
  <1>3. l \in Location /\ parent[l] \in Location
    BY <1>1 DEF Measured
  <1>4. CASE parent[l] = l
    BY <1>3, <1>4, OnPathsIsLeast, <1>2 DEF Closed
  <1>5. CASE parent[l] # l
    <2> DEFINE p == parent[l]
               C == {l} \cup OnPaths({p})
    <2>1. p \in OnPaths({p}) /\ Closed(OnPaths({p})) /\ {l} \in SUBSET Location
      BY <1>3, OnPathsIsLeast
    <2>2. Closed(C)
      BY <1>3, <2>1 DEF Closed
    <2>3. OnPaths({l}) \subseteq C
      <3> HIDE DEF C
      <3> QED
        BY <2>1, <2>2, OnPathsIsLeast DEF C
    <2> QED
      BY <1>1, <1>3, <1>5, <1>2, <2>3, SMTT(30) DEF Measured
  <1> QED
    BY <1>4, <1>5

(* The root of a location is on its path. *)
LEMMA RootOnPath ==
    ASSUME Measured, NEW l \in Location
    PROVE  Root(l) \in OnPaths({l}) /\ parent[Root(l)] = Root(l) /\ Root(l) \in Location
  <1> QED
    BY PathHasRoot, OnPathsIsLeast DEF Closed, Root

(* What find_root returns: the root of the parent, the location itself if  *)
(* it is a root, and a location that had a larger size otherwise.          *)
LEMMA RootFacts ==
    ASSUME Measured, NEW l \in Location
    PROVE  /\ Root(l) \in Location /\ parent[Root(l)] = Root(l)
           /\ Root(parent[l]) = Root(l)
           /\ parent[l] = l => Root(l) = l
           /\ Root(Root(l)) = Root(l)
           /\ Root(l) # l => class_size[l] < class_size[Root(l)]
           /\ Root(l) \in OnPaths({l})
  <1>1. parent[l] \in Location
    BY DEF Measured
  <1>2. ASSUME NEW m \in Location, parent[m] = m
        PROVE  Root(m) = m
    <2>1. m \in OnPaths({m})
      BY OnPathsIsLeast
    <2> QED
      BY <1>2, <2>1, RootOnPath, PathHasOneRoot
  <1>3. Root(parent[l]) = Root(l)
    <2>3. OnPaths({parent[l]}) \subseteq OnPaths({l})
      BY <1>1, OnPathsIsLeast DEF Closed
    <2> QED
      BY <1>1, <2>3, RootOnPath, PathHasOneRoot
  <1>4. ASSUME Root(l) # l
        PROVE  class_size[l] < class_size[Root(l)]
    <2> DEFINE p == parent[l]
               C == { m \in Location : class_size[p] <= class_size[m] }
    <2>2. Closed(C)
      <3> SUFFICES ASSUME NEW m \in C PROVE parent[m] \in C
        BY DEF Closed
      <3> QED
        BY <1>1 DEF Measured
    <2>3. p \in C
      BY <1>1 DEF Measured
    <2>4. OnPaths({p}) \subseteq C
      <3> HIDE DEF C
      <3> QED
        BY <2>2, <1>1, <2>3, OnPathsIsLeast
    <2> QED
      BY <1>2, <1>4, <1>1, <1>3, <2>4, RootOnPath DEF Measured
  <1> QED
    BY <1>2, <1>3, <1>4, RootOnPath

(* The roots of a forest are known from any function that is constant on   *)
(* its paths and maps a root to itself.                                    *)
RootsDetermined ==
    \A R : (\A l \in Location : R[parent[l]] = R[l] /\ (parent[l] = l => R[l] = l))
               => \A l \in Location : Root(l) = R[l]

(* Such a function agrees with Root. *)
LEMMA RootIsDetermined == Measured => RootsDetermined
  <1> SUFFICES ASSUME Measured, NEW R, NEW l \in Location,
                      \A m \in Location :
                          R[parent[m]] = R[m] /\ (parent[m] = m => R[m] = m)
               PROVE  Root(l) = R[l]
    BY DEF RootsDetermined
  <1> DEFINE C == { m \in Location : R[m] = R[l] }
  <1>1. Closed(C)
    BY DEF Closed, Measured
  <1>2. {l} \subseteq C /\ {l} \in SUBSET Location
    OBVIOUS
  <1>3. OnPaths({l}) \subseteq C
    <2> HIDE DEF C
    <2> QED
      BY <1>1, <1>2, OnPathsIsLeast
  <1> QED
    BY <1>3, RootOnPath
-----------------------------------------------------------------------------
(* The facts of a forest as formulas, for the states before and after a    *)
(* step.                                                                   *)
PathFacts ==
    \A N \in SUBSET Location :
        /\ N \subseteq OnPaths(N)
        /\ Closed(OnPaths(N))
        /\ \A C : Closed(C) /\ N \subseteq C => OnPaths(N) \subseteq C

(* The path of a location is the least closed set around it. *)
LEMMA Paths == Measured => PathFacts
  BY OnPathsIsLeast DEF PathFacts

(* The forest after a step in which find_root has shortened some paths.    *)
LEMMA ShorterPaths ==
    ASSUME Measured, class_size' = class_size, parent' \in [Location -> Location],
           \A l \in Location : parent'[l] = parent[l] \/ parent'[l] = Root(l)
    PROVE  /\ Measured'
           /\ \A l \in Location : Root(l)' = Root(l)
           /\ \A l \in Location : OnPaths({l})' \subseteq OnPaths({l})
  <1>1. Measured'
    BY RootFacts DEF Measured
  <1>2. \A l \in Location : Root(l)' = Root(l)
    <2> DEFINE R == [ l \in Location |-> Root(l) ]
    <2>1. \A l \in Location : R[parent'[l]] = R[l] /\ (parent'[l] = l => R[l] = l)
      <3> SUFFICES ASSUME NEW l \in Location
                   PROVE  Root(parent'[l]) = Root(l) /\ (parent'[l] = l => Root(l) = l)
        OBVIOUS
      <3> QED
        BY RootFacts
    <2>2. Measured' => RootsDetermined'
      BY RootIsDetermined, PTL
    <2>3. \A l \in Location : Root(l)' = R[l]
      <3> HIDE DEF R
      <3> QED
        BY <1>1, <2>1, <2>2 DEF RootsDetermined
    <2> QED
      BY <2>3
  <1>3. ASSUME NEW l \in Location
        PROVE  OnPaths({l})' \subseteq OnPaths({l})
    <2> DEFINE C == OnPaths({l})
    <2>1. {l} \subseteq C /\ C \subseteq Location /\ \A m \in C : parent[m] \in C
      BY OnPathsIsLeast DEF Closed
    <2>2. ASSUME NEW m \in C PROVE Root(m) \in C
      <3>1. m \in Location /\ {m} \subseteq C /\ Closed(C)
        BY <2>1 DEF Closed
      <3>2. OnPaths({m}) \subseteq C
        <4> HIDE DEF C
        <4> QED
          BY <3>1, OnPathsIsLeast
      <3> QED
        BY <3>1, <3>2, RootFacts
    <2>4. Measured' => PathFacts'
      BY Paths, PTL
    <2> HIDE DEF C
    <2>5. \A N \in SUBSET Location : N \subseteq C => OnPaths(N)' \subseteq C
      BY <1>1, <2>1, <2>2, <2>4 DEF PathFacts, Closed
    <2> QED
      BY <2>1, <2>5 DEF C
  <1> QED
    BY <1>1, <1>2, <1>3
-----------------------------------------------------------------------------
(* Sets of locations are finite.                                           *)
LEMMA LocationSets ==
    ASSUME NEW S \in SUBSET Location
    PROVE  IsFiniteSet(S) /\ Cardinality(S) \in 0 .. LocationCount
  <1>1. IsFiniteSet(Location) /\ Cardinality(Location) = LocationCount
    BY LocationCountAssumption, FS_Interval DEF Location
  <1> QED
    BY <1>1, FS_Subset, FS_CardinalityType, LocationCountAssumption

(* The classes of two roots are disjoint, and so their sizes add up.       *)
LEMMA SizesAddUp ==
    ASSUME Measured, Sized, NEW a \in Location, NEW b \in Location,
           parent[a] = a, parent[b] = b, a # b
    PROVE  /\ class_size[a] + class_size[b] = Cardinality(ClassOf(a) \cup ClassOf(b))
           /\ class_size[a] + class_size[b] \in 1 .. LocationCount
  <1>1. Root(a) = a /\ Root(b) = b
    BY RootFacts
  <1>4. ClassOf(a) \in SUBSET Location /\ ClassOf(b) \in SUBSET Location
    BY DEF ClassOf
  <1>7. Cardinality(ClassOf(a) \cup ClassOf(b))
            = Cardinality(ClassOf(a)) + Cardinality(ClassOf(b)) - Cardinality({})
    BY <1>1, <1>4, LocationSets, FS_Union DEF ClassOf
  <1> QED
    BY <1>1, LocationCountAssumption, <1>7, FS_EmptySet, <1>4, LocationSets DEF Measured,
       Sized

(* The forest after one root is linked to another, of a class not smaller. *)
LEMMA LinkedTrees ==
    ASSUME Measured, Sized, NEW w \in Location, NEW r \in Location,
           parent[w] = w, parent[r] = r, w # r, class_size[r] <= class_size[w],
           class_size' = SizesAfter(w, r),
           parent' \in [Location -> Location], parent'[r] = w,
           \A l \in Location \ {r} : parent'[l] = parent[l] \/ parent'[l] = Root(l)
    PROVE  /\ Measured'
           /\ \A l \in Location : Root(l)' = IF Root(l) = r THEN w ELSE Root(l)
           /\ \A l \in Location :
                  OnPaths({l})' \subseteq IF Root(l) = r THEN OnPaths({l}) \cup {w}
                                          ELSE OnPaths({l})
  <1>1. Root(w) = w /\ Root(r) = r
    BY RootFacts
  <1>2. /\ class_size' \in [Location -> 1 .. LocationCount]
        /\ class_size'[w] = class_size[w] + class_size[r]
        /\ \A l \in Location \ {w} : class_size'[l] = class_size[l]
    BY SizesAddUp DEF Measured, SizesAfter
  <1>3. /\ \A l \in Location : class_size[l] \in Int /\ class_size[l] >= 1
        /\ \A l \in Location : class_size[l] <= class_size'[l]
    BY <1>2 DEF Measured
  <1>4. Measured'
    <2>1. ASSUME NEW l \in Location, parent'[l] # l
          PROVE  class_size'[l] < class_size'[parent'[l]]
      <3>1. CASE l = r
        BY <1>2, <1>3, <3>1
      <3>2. CASE l # r
        <4>3. parent'[l] \in Location /\ class_size[l] < class_size[parent'[l]]
          BY <2>1, RootFacts, <3>2, ZenonT(60) DEF Measured
        <4> QED
          BY <1>3, <1>2, <1>1, <2>1, <3>2, <4>3
      <3> QED
        BY <3>1, <3>2
    <2> QED
      BY <1>2, <2>1 DEF Measured
  <1>5. \A l \in Location : Root(l)' = IF Root(l) = r THEN w ELSE Root(l)
    <2> DEFINE R == [ l \in Location |-> IF Root(l) = r THEN w ELSE Root(l) ]
    <2>1. \A l \in Location : R[parent'[l]] = R[l] /\ (parent'[l] = l => R[l] = l)
      <3> SUFFICES ASSUME NEW l \in Location
                   PROVE  R[parent'[l]] = R[l] /\ (parent'[l] = l => R[l] = l)
        OBVIOUS
      <3>1. CASE l = r
        BY <1>1, <3>1
      <3>2. CASE l # r
        BY RootFacts, <3>2, ZenonT(60)
      <3> QED
        BY <3>1, <3>2
    <2>2. Measured' => RootsDetermined'
      BY RootIsDetermined, PTL
    <2>3. \A l \in Location : Root(l)' = R[l]
      <3> HIDE DEF R
      <3> QED
        BY <1>4, <2>1, <2>2 DEF RootsDetermined
    <2> QED
      BY <2>3
  <1>6. ASSUME NEW l \in Location
        PROVE  OnPaths({l})' \subseteq IF Root(l) = r THEN OnPaths({l}) \cup {w}
                                       ELSE OnPaths({l})
    <2> DEFINE P == OnPaths({l})
               C == IF Root(l) = r THEN P \cup {w} ELSE P
    <2>1. {l} \subseteq P /\ P \subseteq Location /\ \A m \in P : parent[m] \in P
      BY OnPathsIsLeast DEF Closed
    <2>2. ASSUME NEW m \in P
          PROVE  Root(m) = Root(l) /\ Root(m) \in P
      <3> DEFINE D == { k \in P : Root(k) = Root(l) }
      <3>1. Closed(D) /\ {l} \subseteq D
        BY <2>1, RootFacts DEF Closed
      <3>2. P \subseteq D
        <4> HIDE DEF D
        <4> QED
          BY <3>1, OnPathsIsLeast
      <3> QED
        BY <3>2, RootFacts
    <2>3. \A m \in C : parent'[m] \in C
      <3> SUFFICES ASSUME NEW m \in C PROVE parent'[m] \in C
        OBVIOUS
      <3>1. CASE m = r
        BY <1>1, <2>2, <3>1
      <3>2. CASE m # r /\ m \in P
        BY <2>1, <2>2, <3>2
      <3>3. CASE m # r /\ m \notin P
        BY <3>3, <1>1
      <3> QED
        BY <3>1, <3>2, <3>3
    <2>4. Measured' => PathFacts'
      BY Paths, PTL
    <2>5. C \subseteq Location /\ {l} \subseteq C
      BY <2>1
    <2> HIDE DEF C
    <2>7. OnPaths({l})' \subseteq C
      BY <2>5, <1>4, <2>3, <2>4 DEF PathFacts, Closed
    <2> QED
      BY <2>7 DEF C
  <1> QED
    BY <1>4, <1>5, <1>6
-----------------------------------------------------------------------------
(* One can be doubled any number of times.                                 *)
LEMMA DoublingExists ==
    ASSUME NEW n \in Nat
    PROVE  \E g : g = [ k \in 0 .. n |-> IF k = 0 THEN 1 ELSE 2 * g[k - 1] ]
  <1> DEFINE Steps(m, g) == [ k \in 0 .. m |-> IF k = 0 THEN 1 ELSE 2 * g[k - 1] ]
             S == { m \in Nat : \E g : g = Steps(m, g) }
  <1>1. 0 \in S
    <2>1. [ k \in 0 .. 0 |-> 1 ] = Steps(0, [ k \in 0 .. 0 |-> 1 ])
      OBVIOUS
    <2> QED
      BY <2>1
  <1>2. ASSUME NEW m \in Nat, m \in S
        PROVE  m + 1 \in S
    <2>1. PICK g : g = Steps(m, g)
      BY <1>2
    <2> DEFINE h == [ k \in 0 .. m + 1 |-> IF k = m + 1 THEN 2 * g[m] ELSE g[k] ]
    <2>2. ASSUME NEW k \in 0 .. m + 1
          PROVE  h[k] = IF k = 0 THEN 1 ELSE 2 * h[k - 1]
      BY <2>1
    <2>3. h = Steps(m + 1, h)
      <3>2. h = [ k \in 0 .. m + 1 |-> h[k] ]
        OBVIOUS
      <3> HIDE DEF h
      <3> QED
        BY <3>2, <2>2
    <2> HIDE DEF h, Steps
    <2> QED
      BY <2>3
  <1>3. n \in S
    <2> HIDE DEF S
    <2> QED
      BY <1>1, <1>2, InductiveSet
  <1> QED
    BY <1>3

(* Doubling more often does not give less.                                 *)
LEMMA DoubledFacts ==
    /\ Doubled[0] = 1
    /\ \A k \in 0 .. LocationCount - 1 : Doubled[k + 1] = 2 * Doubled[k]
    /\ \A k \in 0 .. LocationCount : Doubled[k] \in Nat
    /\ \A j, k \in 0 .. LocationCount : j <= k => Doubled[j] <= Doubled[k]
  <1> DEFINE Steps(g) == [ k \in 0 .. LocationCount |-> IF k = 0 THEN 1 ELSE 2 * g[k - 1] ]
  <1>1. Doubled = Steps(Doubled)
    <2>2. Doubled = CHOOSE g : g = Steps(g)
      BY DEF Doubled
    <2> HIDE DEF Steps
    <2> QED
      BY DoublingExists, LocationCountAssumption, <2>2
  <1>2. Doubled[0] = 1
    BY LocationCountAssumption, <1>1
  <1>3. ASSUME NEW k \in Nat, k < LocationCount
        PROVE  Doubled[k + 1] = 2 * Doubled[k]
    BY <1>3, LocationCountAssumption, <1>1
  <1> DEFINE S == { n \in Nat : n <= LocationCount =>
                      /\ Doubled[n] \in Nat
                      /\ \A j \in 0 .. n : Doubled[j] \in Nat /\ Doubled[j] <= Doubled[n] }
  <1>4. 0 \in S
    BY <1>2
  <1>5. ASSUME NEW n \in Nat, n \in S
        PROVE  n + 1 \in S
    <2> SUFFICES ASSUME n + 1 <= LocationCount
                 PROVE  /\ Doubled[n + 1] \in Nat
                        /\ \A j \in 0 .. n + 1 :
                               Doubled[j] \in Nat /\ Doubled[j] <= Doubled[n + 1]
      OBVIOUS
    <2>1. n < LocationCount /\ n <= LocationCount
      BY LocationCountAssumption
    <2>2. /\ Doubled[n] \in Nat
          /\ \A j \in 0 .. n : Doubled[j] \in Nat /\ Doubled[j] <= Doubled[n]
      BY <1>5, <2>1
    <2>4. Doubled[n + 1] \in Nat /\ Doubled[n] <= Doubled[n + 1]
      BY <2>2, <1>3, <2>1
    <2>5. ASSUME NEW j \in 0 .. n + 1
          PROVE  Doubled[j] \in Nat /\ Doubled[j] <= Doubled[n + 1]
      BY <2>2, <2>4
    <2> QED
      BY <2>4, <2>5
  <1>6. Nat \subseteq S
    <2> HIDE DEF S
    <2> QED
      BY <1>4, <1>5, InductiveSet
  <1>7. ASSUME NEW k \in 0 .. LocationCount
        PROVE  /\ Doubled[k] \in Nat
               /\ \A j \in 0 .. k : Doubled[j] <= Doubled[k]
    BY LocationCountAssumption, <1>6
  <1>8. ASSUME NEW j \in 0 .. LocationCount, NEW k \in 0 .. LocationCount, j <= k
        PROVE  Doubled[j] <= Doubled[k]
    BY <1>8, LocationCountAssumption, <1>7
  <1> QED
    BY <1>2, <1>3, <1>7, <1>8, LocationCountAssumption
-----------------------------------------------------------------------------
(* A path that is a part of a set with a location has at most as many      *)
(* locations as the set.                                                   *)
LEMMA LongestPath ==
    ASSUME NEW S \in SUBSET Location, NEW T \in SUBSET S, NEW l \in T
    PROVE  /\ Cardinality(T) \in 1 .. LocationCount
           /\ Cardinality(S) \in 1 .. LocationCount
           /\ Cardinality(T) <= Cardinality(S)
  <1> QED
    BY LocationSets, FS_Subset, FS_EmptySet, LocationCountAssumption

(* Shortening paths does not change the classes and their sizes.           *)
LEMMA ShorterPathsStayShallow ==
    ASSUME Measured, Sized, Shallow, class_size' = class_size,
           parent' \in [Location -> Location],
           \A l \in Location : parent'[l] = parent[l] \/ parent'[l] = Root(l)
    PROVE  Measured' /\ Sized' /\ Shallow' /\ \A l \in Location : ClassOf(l)' = ClassOf(l)
  <1>1. /\ Measured'
        /\ \A l \in Location : Root(l)' = Root(l)
        /\ \A l \in Location : OnPaths({l})' \subseteq OnPaths({l})
    BY ShorterPaths
  <1>4. Measured' => PathFacts'
    BY Paths, PTL
  <1>5. ASSUME NEW l \in Location
        PROVE  Doubled[Cardinality(OnPaths({l})') - 1] <= Cardinality(ClassOf(l))
    <2> DEFINE a == Cardinality(OnPaths({l})')
               b == Cardinality(OnPaths({l}))
    <2>3. a \in 1 .. LocationCount /\ b \in 1 .. LocationCount /\ a <= b
      BY OnPathsIsLeast, <1>1, <1>4, LongestPath DEF Closed, PathFacts
    <2> HIDE DEF a
    <2>4. a - 1 \in 0 .. LocationCount /\ b - 1 \in 0 .. LocationCount /\ a - 1 <= b - 1
      <3> HIDE DEF b
      <3> QED
        BY <2>3, LocationCountAssumption
    <2>5. Doubled[b - 1] <= Cardinality(ClassOf(l))
      BY DEF Shallow
    <2> HIDE DEF b
    <2> QED
      BY <2>4, <2>5, LocationSets, LocationCountAssumption, DoubledFacts DEF a, ClassOf
  <1> QED
    BY <1>1, <1>5 DEF Sized, Shallow, ClassOf

(* Linking two roots adds their sizes.  A path that gets a new root is one *)
(* of the class that is not larger, and so its class at least doubles.     *)
LEMMA LinkedTreesStayShallow ==
    ASSUME Measured, Sized, Shallow, NEW w \in Location, NEW r \in Location,
           parent[w] = w, parent[r] = r, w # r, class_size[r] <= class_size[w],
           class_size' = SizesAfter(w, r),
           parent' \in [Location -> Location], parent'[r] = w,
           \A l \in Location \ {r} : parent'[l] = parent[l] \/ parent'[l] = Root(l)
    PROVE  /\ Measured' /\ Sized' /\ Shallow'
           /\ \A l \in Location :
                  ClassOf(l)' = IF Root(l) \in {w, r} THEN ClassOf(w) \cup ClassOf(r)
                                ELSE ClassOf(l)
  <1>1. /\ Measured'
        /\ \A l \in Location : Root(l)' = IF Root(l) = r THEN w ELSE Root(l)
        /\ \A l \in Location :
               OnPaths({l})' \subseteq IF Root(l) = r THEN OnPaths({l}) \cup {w}
                                       ELSE OnPaths({l})
    BY LinkedTrees
  <1>2. Root(w) = w /\ Root(r) = r
    BY RootFacts
  <1>3. \A l \in Location :
            ClassOf(l)' = IF Root(l) \in {w, r} THEN ClassOf(w) \cup ClassOf(r)
                          ELSE ClassOf(l)
    <2> SUFFICES ASSUME NEW l \in Location
                 PROVE  ClassOf(l)' = IF Root(l) \in {w, r} THEN ClassOf(w) \cup ClassOf(r)
                                      ELSE ClassOf(l)
      OBVIOUS
    <2> QED
      BY <1>1, <1>2 DEF ClassOf
  <1>4. /\ class_size[w] + class_size[r] = Cardinality(ClassOf(w) \cup ClassOf(r))
        /\ class_size[w] + class_size[r] \in 1 .. LocationCount
    BY SizesAddUp
  <1>5. class_size'[w] = class_size[w] + class_size[r]
        /\ \A l \in Location \ {w} : class_size'[l] = class_size[l]
    BY DEF SizesAfter, Measured
  <1>6. Sized'
    <2> SUFFICES ASSUME NEW l \in Location
                 PROVE  class_size'[Root(l)'] = Cardinality(ClassOf(l)')
      BY DEF Sized
    <2>1. CASE Root(l) \in {w, r}
      BY <1>1, <1>3, <1>4, <1>5, <2>1
    <2>2. CASE Root(l) \notin {w, r}
      <3>1. Root(l)' = Root(l) /\ ClassOf(l)' = ClassOf(l) /\ Root(l) \in Location \ {w}
        BY <1>1, <1>3, <2>2, RootFacts
      <3> QED
        BY <1>5, <3>1 DEF Sized
    <2> QED
      BY <2>1, <2>2
  <1>7. Measured' => PathFacts'
    BY Paths, PTL
  <1>8. ASSUME NEW l \in Location
        PROVE  Doubled[Cardinality(OnPaths({l})') - 1] <= Cardinality(ClassOf(l)')
    <2> DEFINE P == OnPaths({l})
               Q == OnPaths({l})'
    <2>1. l \in P /\ P \in SUBSET Location
      BY OnPathsIsLeast DEF Closed
    <2>2. l \in Q
      BY <1>1, <1>7 DEF PathFacts
    <2>3. ClassOf(l) \in SUBSET Location /\ ClassOf(w) \in SUBSET Location
          /\ ClassOf(r) \in SUBSET Location
      BY DEF ClassOf
    <2>4. /\ Cardinality(ClassOf(l)) \in 0 .. LocationCount
          /\ Cardinality(ClassOf(w)) \in 0 .. LocationCount
          /\ Cardinality(ClassOf(r)) \in 0 .. LocationCount
      BY <2>3, LocationSets
    <2>5. Doubled[Cardinality(P) - 1] <= Cardinality(ClassOf(l))
      BY DEF Shallow
    <2>6. /\ class_size[w] = Cardinality(ClassOf(w)) /\ class_size[r] = Cardinality(ClassOf(r))
      BY <1>2 DEF Sized
    <2>7. CASE Root(l) = r
      <3>1. ClassOf(l)' = ClassOf(w) \cup ClassOf(r) /\ ClassOf(l) = ClassOf(r)
        BY <1>2, <1>3, <2>7 DEF ClassOf
      <3>2. Q \in SUBSET (P \cup {w})
        BY <1>1, <2>7
      <3> HIDE DEF P, Q
      <3>4. /\ Cardinality(P) \in 1 .. LocationCount
            /\ Cardinality(P \cup {w}) \in 0 .. Cardinality(P) + 1
        <4>1. IsFiniteSet(P) /\ Cardinality(P) \in 1 .. LocationCount
          BY <2>1, LocationSets, LongestPath
        <4>2. Cardinality(P \cup {w}) = IF w \in P THEN Cardinality(P) ELSE Cardinality(P) + 1
          BY <4>1, FS_AddElement, P \cup {w} = P \/ w \notin P
        <4> QED
          BY <4>1, <4>2
      <3> DEFINE p == Cardinality(P)
                 q == Cardinality(Q)
                 c == Cardinality(ClassOf(r))
      <3>5. p \in 1 .. LocationCount /\ q \in 1 .. LocationCount /\ q <= p + 1
        BY <2>1, <2>2, <3>2, LongestPath, <3>4
      <3>6. c \in Int /\ Doubled[p - 1] <= c /\ class_size[r] = c
            /\ class_size[r] + class_size[w] >= 2 * c
        BY <2>4, <2>5, <2>6, <3>1
      <3> HIDE DEF p, q, c
      <3>7. p - 1 \in 0 .. LocationCount - 1 /\ (p - 1) + 1 = p /\ p \in 0 .. LocationCount
            /\ q - 1 \in 0 .. LocationCount /\ q - 1 <= p
        BY <3>5, LocationCountAssumption
      <3>10. Doubled[p - 1] \in Nat /\ Doubled[p] \in Nat /\ Doubled[q - 1] \in Nat
        BY <3>7, DoubledFacts, LocationCountAssumption
      <3>11. class_size[w] \in Int /\ class_size[r] \in Int
        BY DEF Measured
      <3>12. Doubled[q - 1] <= class_size[w] + class_size[r]
        BY <3>6, <3>7, DoubledFacts, <3>10, <3>11
      <3> QED
        BY <1>4, <3>1, <3>12 DEF q, Q
    <2>8. CASE Root(l) # r
      <3>1. Q \in SUBSET P
        BY <1>1, <2>8
      <3> HIDE DEF P, Q
      <3>3. Cardinality(ClassOf(l)) <= Cardinality(ClassOf(l)')
        <4>1. CASE Root(l) = w
          <5>1. ClassOf(l) = ClassOf(w) /\ ClassOf(l)' = ClassOf(w) \cup ClassOf(r)
            BY <1>2, <1>3, <4>1 DEF ClassOf
          <5> QED
            BY <1>4, <2>6, <5>1 DEF Measured
        <4>2. CASE Root(l) # w
          BY <1>3, <2>8, <4>2, <2>4
        <4> QED
          BY <4>1, <4>2
      <3> DEFINE p == Cardinality(P)
                 q == Cardinality(Q)
      <3>4. p \in 1 .. LocationCount /\ q \in 1 .. LocationCount /\ q <= p
            /\ Doubled[p - 1] <= Cardinality(ClassOf(l))
        BY <2>5, <2>1, <2>2, <3>1, LongestPath
      <3> HIDE DEF p, q
      <3>8. Doubled[q - 1] <= Cardinality(ClassOf(l)')
        BY <2>4, <3>3, <3>4, <1>3, <2>3, LocationSets, LocationCountAssumption,
           DoubledFacts
      <3> QED
        BY <3>8 DEF q, Q
    <2> QED
      BY <2>7, <2>8
  <1> QED
    BY <1>1, <1>3, <1>6, <1>8 DEF Shallow
-----------------------------------------------------------------------------
(* The lowest of some locations.                                           *)
LEMMA LowestIsUnique ==
    ASSUME NEW S \in SUBSET Location, NEW x \in S, \A y \in S : x <= y
    PROVE  (CHOOSE m \in S : \A k \in S : m <= k) = x
  <1>2. \A y \in S : (\A k \in S : y <= k) => y = x
    BY LocationCountAssumption DEF Location
  <1> QED
    BY <1>2

(* The lowest location of a class is in it and names it. *)
LEMMA LowestFacts ==
    ASSUME Measured, NEW l \in Location
    PROVE  /\ LowestOf(l) \in Location /\ Root(LowestOf(l)) = Root(l)
           /\ \A m \in Location : Root(m) = Root(l) => LowestOf(l) <= m
  <1>1. ClassOf(l) \subseteq Nat /\ l \in ClassOf(l)
    BY LocationCountAssumption DEF ClassOf, Location
  <1> QED
    BY <1>1, LeastNatural DEF ClassOf, LowestOf

(* Two locations are in one class exactly if its lowest member is the same.*)
LEMMA LowestNamesTheClass ==
    ASSUME Measured, NEW l \in Location, NEW m \in Location
    PROVE  (LowestOf(l) = LowestOf(m)) <=> (Root(l) = Root(m))
  <1>1. CASE Root(l) = Root(m)
    BY <1>1 DEF LowestOf, ClassOf
  <1>2. CASE LowestOf(l) = LowestOf(m)
    BY <1>2, LowestFacts
  <1> QED
    BY <1>1, <1>2

(* The lowest location of a class is its own lowest.                       *)
LEMMA LowestOfLowest ==
    ASSUME Measured, NEW l \in Location
    PROVE  LowestOf(LowestOf(l)) = LowestOf(l)
  BY LowestFacts, LowestNamesTheClass

(* The lowest members after two classes have become one.                   *)
LEMMA LowestOfMerged ==
    ASSUME Measured, NEW w \in Location, NEW r \in Location, parent[w] = w, parent[r] = r,
           \A l \in Location :
               ClassOf(l)' = IF Root(l) \in {w, r} THEN ClassOf(w) \cup ClassOf(r)
                             ELSE ClassOf(l)
    PROVE  \A l \in Location :
               LowestOf(l)' = IF LowestOf(l) \in {LowestOf(w), LowestOf(r)}
                              THEN IF LowestOf(w) < LowestOf(r) THEN LowestOf(w) ELSE LowestOf(r)
                              ELSE LowestOf(l)
  <1> SUFFICES ASSUME NEW l \in Location
               PROVE  LowestOf(l)' = IF LowestOf(l) \in {LowestOf(w), LowestOf(r)}
                              THEN IF LowestOf(w) < LowestOf(r) THEN LowestOf(w) ELSE LowestOf(r)
                              ELSE LowestOf(l)
    OBVIOUS
  <1>1. Root(w) = w /\ Root(r) = r
    BY RootFacts
  <1>2. LowestOf(l) \in {LowestOf(w), LowestOf(r)} <=> Root(l) \in {w, r}
    BY <1>1, LowestNamesTheClass
  <1>3. LowestOf(l)' = CHOOSE m \in ClassOf(l)' : \A k \in ClassOf(l)' : m <= k
    BY DEF LowestOf
  <1>4. CASE Root(l) \notin {w, r}
    <2>3. LowestOf(l)' = LowestOf(l)
      BY <1>3, <1>4 DEF LowestOf
    <2> QED
      BY <1>2, <1>4, <2>3
  <1>5. CASE Root(l) \in {w, r}
    <2> DEFINE S == ClassOf(w) \cup ClassOf(r)
               x == IF LowestOf(w) < LowestOf(r) THEN LowestOf(w) ELSE LowestOf(r)
    <2>1. ClassOf(l)' = S
      BY <1>5
    <2>2. S \in SUBSET Location
      BY DEF ClassOf
    <2>5. x \in S /\ \A k \in S : x <= k
      BY LowestFacts, <2>2, LocationCountAssumption DEF ClassOf, Location
    <2> HIDE DEF S, x
    <2> QED
      BY <1>2, <1>3, <1>5, <2>1, <2>2, <2>5, LowestIsUnique DEF x
  <1> QED
    BY <1>4, <1>5
-----------------------------------------------------------------------------
TypeOK ==
    /\ input \in Inputs
    /\ phase \in {"coalescing", "coloring", "returned"}
    /\ preferences \in Seq({"already_coalesced", "blocked_by_interference", "merged"})
    /\ Len(preferences) <= Len(input.moves)

(* While moves are decided nothing is numbered or colored; then the number *)
(* of a class is its rank by the lowest location, and only classes are     *)
(* colored.                                                                *)
Numbered ==
    IF phase = "coalescing" THEN location_class = << >> /\ assigned = << >>
    ELSE /\ location_class \in [Location -> Nat]
         /\ \A l, m \in Location :
                location_class[l] < location_class[m] <=> LowestOf(l) < LowestOf(m)
         /\ DOMAIN assigned \subseteq ClassIds

IInv == TypeOK /\ Measured /\ Sized /\ Shallow /\ Numbered

(* What the operands of a move are.                                        *)
LEMMA MoveOperands ==
    ASSUME TypeOK, Len(preferences) < Len(input.moves)
    PROVE  /\ input.moves[Len(preferences) + 1].source \in Location
           /\ input.moves[Len(preferences) + 1].destination \in Location
  <1>1. input.moves \in Seq([source : Location, destination : Location])
    BY InputsAssumption DEF TypeOK
  <1>3. Len(preferences) + 1 \in 1 .. Len(input.moves)
    BY <1>1 DEF TypeOK
  <1> DEFINE n == Len(preferences) + 1
             T == [source : Location, destination : Location]
  <1>4. input.moves[n] \in T
    <2>1. \A s \in Seq(T) : \A i \in 1 .. Len(s) : s[i] \in T
      <3> HIDE DEF T
      <3> QED
        OBVIOUS
    <2> HIDE DEF T, n
    <2> QED
      BY <1>1, <1>3, <2>1 DEF n, T
  <1> QED
    BY <1>4

(* What find_root does to the paths of some locations.                     *)
LEMMA CompressedFacts ==
    ASSUME Measured, NEW N \in SUBSET Location
    PROVE  /\ Compressed(N) \in [Location -> Location]
           /\ \A l \in Location : Compressed(N)[l] = parent[l] \/ Compressed(N)[l] = Root(l)
  <1> QED
    BY RootFacts DEF Compressed, Measured

(* classes_interfere looks at locations only.                              *)
LEMMA LookedUpAreLocations ==
    ASSUME TypeOK, NEW crossing
    PROVE  LookedUp(crossing) \in SUBSET Location
  <1> QED
    BY InputsAssumption DEF LookedUp, Edges, TypeOK
-----------------------------------------------------------------------------
(* Members of the classes with these lowest locations interfere.           *)
LowestInterfere(a, b) ==
    \E l, m \in Location :
        <<l, m>> \in input.interference /\ LowestOf(l) = a /\ LowestOf(m) = b

(* An interference edge between two trees exists, in the one direction the *)
(* code keeps, exactly if the two classes interfere.                       *)
LEMMA CrossingIsInterference ==
    ASSUME TypeOK, Measured, NEW s \in Location, NEW d \in Location, Root(s) # Root(d)
    PROVE  CrossingEdges(Root(s), Root(d)) # {} <=> LowestInterfere(LowestOf(s), LowestOf(d))
  <1>1. /\ input \in Inputs /\ input.interference \in SUBSET (Location \X Location)
        /\ \A l, m \in Location : <<l, m>> \in input.interference =>
               l # m /\ <<m, l>> \in input.interference
    BY InputsAssumption, InterferenceAssumption DEF TypeOK
  <1>2. ASSUME CrossingEdges(Root(s), Root(d)) # {}
        PROVE  LowestInterfere(LowestOf(s), LowestOf(d))
    <2>1. PICK e \in input.interference : {Root(e[1]), Root(e[2])} = {Root(s), Root(d)}
      BY <1>2 DEF CrossingEdges, Edges
    <2>2. PICK l \in Location, m \in Location : e = <<l, m>>
      BY <1>1
    <2>5. \/ LowestOf(l) = LowestOf(s) /\ LowestOf(m) = LowestOf(d)
          \/ LowestOf(m) = LowestOf(s) /\ LowestOf(l) = LowestOf(d)
      BY <2>1, <2>2, LowestNamesTheClass
    <2> QED
      BY <1>1, <2>1, <2>2, <2>5 DEF LowestInterfere
  <1>3. ASSUME LowestInterfere(LowestOf(s), LowestOf(d))
        PROVE  CrossingEdges(Root(s), Root(d)) # {}
    <2>1. PICK l \in Location, m \in Location :
              /\ <<l, m>> \in input.interference
              /\ LowestOf(l) = LowestOf(s) /\ LowestOf(m) = LowestOf(d)
      BY <1>3 DEF LowestInterfere
    <2>2. Root(l) = Root(s) /\ Root(m) = Root(d)
      BY <2>1, LowestNamesTheClass
    <2>3. l # m /\ <<m, l>> \in input.interference
      BY <1>1, <2>1
    <2>4. CASE l < m
      BY <2>1, <2>2, <2>4 DEF CrossingEdges, Edges
    <2>5. CASE m < l
      BY <2>2, <2>3, <2>5 DEF CrossingEdges, Edges
    <2> QED
      BY <2>3, <2>4, <2>5, LocationCountAssumption DEF Location
  <1> QED
    BY <1>2, <1>3

(* What ConsiderMove decides, in terms of the lowest locations.            *)
MoveDecided ==
    LET move == input.moves[Len(preferences) + 1]
        a    == LowestOf(move.source)
        b    == LowestOf(move.destination)
    IN  \/ /\ a = b
           /\ preferences' = Append(preferences, "already_coalesced")
           /\ \A l \in Location : LowestOf(l)' = LowestOf(l)
        \/ /\ a # b /\ LowestInterfere(a, b)
           /\ preferences' = Append(preferences, "blocked_by_interference")
           /\ \A l \in Location : LowestOf(l)' = LowestOf(l)
        \/ /\ a # b /\ ~LowestInterfere(a, b)
           /\ preferences' = Append(preferences, "merged")
           /\ \A l \in Location :
                  LowestOf(l)' = IF LowestOf(l) \in {a, b} THEN IF a < b THEN a ELSE b
                                 ELSE LowestOf(l)

(* A move that merges nothing leaves the classes and their lowest members. *)
LEMMA CompressionKeepsClasses ==
    ASSUME Measured, Sized, Shallow, NEW N \in SUBSET Location,
           parent' = Compressed(N), class_size' = class_size
    PROVE  /\ Measured' /\ Sized' /\ Shallow'
           /\ \A l \in Location : Root(l)' = Root(l) /\ LowestOf(l)' = LowestOf(l)
  <1> QED
    BY CompressedFacts, ShorterPathsStayShallow, ShorterPaths DEF LowestOf

(* A move that merges links the root of the class that is not larger.      *)
LEMMA MergeJoinsClasses ==
    ASSUME Measured, Sized, Shallow, NEW N \in SUBSET Location,
           NEW s \in Location, NEW d \in Location, Root(s) # Root(d),
           NEW w, NEW r, w = Winner(Root(s), Root(d)),
           r = IF w = Root(s) THEN Root(d) ELSE Root(s),
           parent' = [Compressed(N) EXCEPT ![r] = w], class_size' = SizesAfter(w, r)
    PROVE  /\ Measured' /\ Sized' /\ Shallow'
           /\ \A l \in Location :
                  LowestOf(l)' = IF LowestOf(l) \in {LowestOf(s), LowestOf(d)}
                                 THEN IF LowestOf(s) < LowestOf(d) THEN LowestOf(s)
                                      ELSE LowestOf(d)
                                 ELSE LowestOf(l)
  <1>1. /\ Root(s) \in Location /\ parent[Root(s)] = Root(s) /\ Root(Root(s)) = Root(s)
        /\ Root(d) \in Location /\ parent[Root(d)] = Root(d) /\ Root(Root(d)) = Root(d)
    BY RootFacts
  <1>3. /\ w \in Location /\ r \in Location /\ w # r /\ parent[w] = w /\ parent[r] = r
        /\ {w, r} = {Root(s), Root(d)} /\ class_size[r] <= class_size[w]
    BY <1>1 DEF Winner, Measured
  <1>5. /\ Measured' /\ Sized' /\ Shallow'
        /\ \A l \in Location :
               ClassOf(l)' = IF Root(l) \in {w, r} THEN ClassOf(w) \cup ClassOf(r)
                             ELSE ClassOf(l)
    BY <1>3, CompressedFacts, LinkedTreesStayShallow
  <1>6. \A l \in Location :
            LowestOf(l)' = IF LowestOf(l) \in {LowestOf(w), LowestOf(r)}
                           THEN IF LowestOf(w) < LowestOf(r) THEN LowestOf(w) ELSE LowestOf(r)
                           ELSE LowestOf(l)
    BY <1>3, <1>5, LowestOfMerged
  <1>8. LowestOf(s) \in Int /\ LowestOf(d) \in Int
    BY LowestFacts, LocationCountAssumption DEF Location
  <1>10. CASE LowestOf(w) = LowestOf(s) /\ LowestOf(r) = LowestOf(d)
    BY <1>5, <1>6, <1>10
  <1>11. CASE LowestOf(w) = LowestOf(d) /\ LowestOf(r) = LowestOf(s)
    <2> SUFFICES ASSUME NEW l \in Location
                 PROVE  LowestOf(l)' = IF LowestOf(l) \in {LowestOf(s), LowestOf(d)}
                                 THEN IF LowestOf(s) < LowestOf(d) THEN LowestOf(s)
                                      ELSE LowestOf(d)
                                 ELSE LowestOf(l)
      BY <1>5
    <2> QED
      BY <1>8, <1>6, <1>11
  <1> QED
    BY <1>3, <1>1, LowestNamesTheClass, <1>10, <1>11

(* A considered move leaves a measured, sized and shallow forest, and its  *)
(* decision is the one MoveDecided states.                                 *)
LEMMA ConsiderMoveDecides ==
    ASSUME IInv, ConsiderMove
    PROVE  Measured' /\ Sized' /\ Shallow' /\ MoveDecided
  <1>1. /\ TypeOK /\ Measured /\ Sized /\ Shallow /\ Len(preferences) < Len(input.moves)
    BY DEF IInv, ConsiderMove
  <1> DEFINE move == input.moves[Len(preferences) + 1]
             s == move.source
             d == move.destination
             a == Root(s)
             b == Root(d)
             crossing == CrossingEdges(a, b)
             w == Winner(a, b)
             r == IF w = a THEN b ELSE a
             N == {s, d}
             looked == LookedUp(crossing)
  <1>2. s \in Location /\ d \in Location
    BY <1>1, MoveOperands
  <1>3. (LowestOf(s) = LowestOf(d)) <=> (a = b)
    BY <1>1, <1>2, LowestNamesTheClass
  <1>4. a # b => (crossing # {} <=> LowestInterfere(LowestOf(s), LowestOf(d)))
    BY <1>1, <1>2, CrossingIsInterference
  <1>5. N \in SUBSET Location /\ N \cup looked \in SUBSET Location
    BY ONLY <1>1, <1>2, LookedUpAreLocations
  <1>6. \/ /\ a = b
           /\ preferences' = Append(preferences, "already_coalesced")
           /\ parent' = Compressed(N)
           /\ class_size' = class_size
        \/ /\ a # b /\ crossing # {}
           /\ preferences' = Append(preferences, "blocked_by_interference")
           /\ parent' = Compressed(N \cup looked)
           /\ class_size' = class_size
        \/ /\ a # b /\ crossing = {}
           /\ preferences' = Append(preferences, "merged")
           /\ parent' = [Compressed(N \cup looked) EXCEPT ![r] = w]
           /\ class_size' = SizesAfter(w, r)
    BY DEF ConsiderMove
  <1> HIDE DEF crossing, looked, N
  <1>7. CASE /\ a = b
             /\ preferences' = Append(preferences, "already_coalesced")
             /\ parent' = Compressed(N)
             /\ class_size' = class_size
    BY <1>1, <1>5, <1>7, CompressionKeepsClasses, <1>3 DEF MoveDecided
  <1>8. CASE /\ a # b /\ crossing # {}
             /\ preferences' = Append(preferences, "blocked_by_interference")
             /\ parent' = Compressed(N \cup looked)
             /\ class_size' = class_size
    BY <1>1, <1>5, <1>8, CompressionKeepsClasses, <1>3, <1>4 DEF MoveDecided
  <1>9. CASE /\ a # b /\ crossing = {}
             /\ preferences' = Append(preferences, "merged")
             /\ parent' = [Compressed(N \cup looked) EXCEPT ![r] = w]
             /\ class_size' = SizesAfter(w, r)
    <2> HIDE DEF s, d, w, r
    <2>3. /\ Measured' /\ Sized' /\ Shallow'
          /\ \A l \in Location :
                 LowestOf(l)' = IF LowestOf(l) \in {LowestOf(s), LowestOf(d)}
                                THEN IF LowestOf(s) < LowestOf(d) THEN LowestOf(s)
                                     ELSE LowestOf(d)
                                ELSE LowestOf(l)
      BY <1>1, <1>2, <1>5, <1>9, MergeJoinsClasses DEF r, w
    <2> QED
      BY <1>3, <1>4, <1>9, <2>3 DEF MoveDecided, s, d
  <1> QED
    BY <1>6, <1>7, <1>8, <1>9
-----------------------------------------------------------------------------
(* The forest of a step that does not touch it, or only shortens paths.    *)
LEMMA ForestKept ==
    ASSUME Measured, Sized, Shallow, class_size' = class_size,
           parent' \in [Location -> Location],
           \A l \in Location : parent'[l] = parent[l] \/ parent'[l] = Root(l)
    PROVE  Measured' /\ Sized' /\ Shallow' /\ \A l \in Location : LowestOf(l)' = LowestOf(l)
  <1> QED
    BY ShorterPathsStayShallow DEF LowestOf

(* The lowest locations of classes that are less than x.                   *)
LowestBelow(x) == { m \in Location : LowestOf(m) = m /\ m < x }

(* The number of a class is how many classes have a lower lowest location, *)
(* and so classes are numbered in the order of their lowest locations.     *)
LEMMA RanksAreOrdered ==
    ASSUME Measured, NEW l \in Location, NEW m \in Location
    PROVE  /\ Cardinality(LowestBelow(LowestOf(l))) \in Nat
           /\ Cardinality(LowestBelow(LowestOf(l))) < Cardinality(LowestBelow(LowestOf(m)))
                  <=> LowestOf(l) < LowestOf(m)
  <1>1. \A k \in Location : k \in Int
    BY LocationCountAssumption DEF Location
  <1>2. \A x : IsFiniteSet(LowestBelow(x)) /\ Cardinality(LowestBelow(x)) \in Nat
    <2> SUFFICES ASSUME NEW x
                 PROVE  IsFiniteSet(LowestBelow(x)) /\ Cardinality(LowestBelow(x)) \in Nat
      OBVIOUS
    <2> QED
      BY LocationSets, LocationCountAssumption DEF LowestBelow
  <1>3. ASSUME NEW j \in Location, NEW k \in Location, LowestOf(j) < LowestOf(k)
        PROVE  Cardinality(LowestBelow(LowestOf(j))) < Cardinality(LowestBelow(LowestOf(k)))
    <2> DEFINE S == LowestBelow(LowestOf(j))
               T == LowestBelow(LowestOf(k))
               x == LowestOf(j)
    <2>1. x \in Location /\ LowestOf(k) \in Location /\ LowestOf(x) = x
      BY LowestFacts, LowestOfLowest
    <2>2. x \in Int /\ LowestOf(k) \in Int
      BY <1>1, <2>1
    <2>3. x \in T /\ x \notin S
      BY <1>3, <2>1, <2>2 DEF LowestBelow
    <2>4. S \subseteq T
      BY <1>1, <1>3, <2>2 DEF LowestBelow
    <2>5. /\ IsFiniteSet(T) /\ Cardinality(S) \in Nat /\ Cardinality(T) \in Nat
      BY <1>2
    <2> HIDE DEF S, T, x
    <2> QED
      BY <2>5, <2>3, <2>4, FS_Subset DEF S, T
  <1>4. LowestOf(l) \in Int /\ LowestOf(m) \in Int
    BY <1>1, LowestFacts
  <1>5. CASE LowestOf(l) < LowestOf(m)
    BY <1>2, <1>3, <1>5
  <1>6. CASE LowestOf(m) < LowestOf(l)
    BY <1>3, <1>6, <1>2, <1>4
  <1>7. CASE LowestOf(m) = LowestOf(l)
    BY <1>2, <1>4, <1>7
  <1> QED
    BY <1>4, <1>5, <1>6, <1>7

(* Numbering the classes compresses the forest and numbers its classes. *)
LEMMA NumberClassesNumbers ==
    ASSUME IInv, NumberClasses
    PROVE  /\ Measured' /\ Sized' /\ Shallow' /\ Numbered'
           /\ \A l \in Location : LowestOf(l)' = LowestOf(l)
  <1>1. /\ Measured /\ Sized /\ Shallow /\ Numbered
        /\ phase = "coalescing" /\ phase' = "coloring" /\ assigned' = assigned
        /\ class_size' = class_size /\ parent' = [ l \in Location |-> Root(l) ]
    BY DEF IInv, NumberClasses
  <1>2. /\ parent' \in [Location -> Location]
        /\ \A l \in Location : parent'[l] = Root(l)
    BY <1>1, RootFacts
  <1>3. /\ Measured' /\ Sized' /\ Shallow'
        /\ \A l \in Location : LowestOf(l)' = LowestOf(l)
    BY <1>1, <1>2, ForestKept
  <1> DEFINE Lowest == { l \in Location :
                             \A m \in Location : parent'[m] = parent'[l] => l <= m }
  <1>4. location_class' = [ l \in Location |->
                              Cardinality({ m \in Lowest : \A k \in Lowest :
                                              parent'[k] = parent'[l] => m < k }) ]
    BY DEF NumberClasses
  <1>5. \A k \in Location : k \in Int
    BY LocationCountAssumption DEF Location
  <1>6. \A l \in Location : l \in Lowest <=> LowestOf(l) = l
    <2> SUFFICES ASSUME NEW l \in Location PROVE l \in Lowest <=> LowestOf(l) = l
      OBVIOUS
    <2> QED
      BY <1>2, <1>1, LowestFacts, <1>5
  <1> HIDE DEF Lowest
  <1>7. ASSUME NEW l \in Location
        PROVE  { m \in Lowest : \A k \in Lowest : parent'[k] = parent'[l] => m < k }
                   = LowestBelow(LowestOf(l))
    BY <1>1, LowestFacts, LowestOfLowest, <1>6, LowestNamesTheClass, <1>2 DEF Lowest,
       LowestBelow
  <1>8. \A l \in Location : location_class'[l] = Cardinality(LowestBelow(LowestOf(l)))
    BY <1>4, <1>7
  <1>11. DOMAIN assigned' \subseteq ClassIds'
    BY <1>1 DEF Numbered
  <1>12. Numbered'
    BY <1>1, <1>8, RanksAreOrdered, <1>4, <1>3, <1>11 DEF Numbered
  <1> QED
    BY <1>3, <1>12
-----------------------------------------------------------------------------
(* At first every location is a tree of its own.                           *)
LEMMA InitEstablishes == Init => IInv
  <1> SUFFICES ASSUME Init PROVE IInv
    OBVIOUS
  <1>1. /\ input \in Inputs /\ phase = "coalescing" /\ preferences = << >>
        /\ location_class = << >> /\ assigned = << >>
        /\ parent = [ l \in Location |-> l ] /\ class_size = [ l \in Location |-> 1 ]
    BY DEF Init
  <1>3. Measured
    BY LocationCountAssumption, <1>1 DEF Location, Measured
  <1>4. \A l \in Location : Root(l) = l
    BY <1>1, <1>3, RootFacts
  <1>5. \A l \in Location : ClassOf(l) = {l}
    BY <1>4 DEF ClassOf
  <1>6. \A l \in Location : OnPaths({l}) = {l}
    <2> SUFFICES ASSUME NEW l \in Location PROVE OnPaths({l}) = {l}
      OBVIOUS
    <2> QED
      BY <1>3, <1>1, OnPathsIsLeast DEF Closed
  <1>7. \A l \in Location : Cardinality({l}) = 1
    BY FS_Singleton
  <1>8. Sized
    BY <1>1, <1>4, <1>5, <1>7 DEF Sized
  <1>9. Shallow
    <2>1. \A l \in Location :
              Cardinality(OnPaths({l})) - 1 = 0 /\ Cardinality(ClassOf(l)) = 1
      <3>1. \A l \in Location : Cardinality(OnPaths({l})) = 1
        BY <1>6, <1>7
      <3> QED
        BY <3>1, <1>5, <1>7
    <2> QED
      BY <2>1, DoubledFacts DEF Shallow
  <1> QED
    BY <1>1, InputsAssumption, <1>3, <1>8, <1>9 DEF IInv, TypeOK, Numbered

(* Every step keeps the invariant, and only a merge changes lowest members.*)
LEMMA ConsiderMovePreserves ==
    ASSUME IInv, ConsiderMove
    PROVE  IInv'
  <1>1. Measured' /\ Sized' /\ Shallow' /\ MoveDecided
    BY ConsiderMoveDecides
  <1>2. /\ TypeOK /\ Numbered /\ phase = "coalescing" /\ phase' = phase /\ input' = input
        /\ location_class' = location_class /\ assigned' = assigned
        /\ Len(preferences) < Len(input.moves)
    BY DEF IInv, ConsiderMove
  <1>4. TypeOK'
    <2>4. /\ preferences \in Seq({"already_coalesced", "blocked_by_interference", "merged"})
          /\ Len(preferences) \in Nat
      BY <1>2 DEF TypeOK
    <2>5. /\ preferences' \in Seq({"already_coalesced", "blocked_by_interference", "merged"})
          /\ Len(preferences') = Len(preferences) + 1
      BY ONLY <1>1, <2>4 DEF MoveDecided
    <2> QED
      BY <1>2, <2>5, InputsAssumption, <2>4 DEF TypeOK
  <1> QED
    BY <1>1, <1>2, <1>4 DEF IInv, Numbered

(* Numbering the classes preserves the inductive invariant. *)
LEMMA NumberClassesPreserves ==
    ASSUME IInv, NumberClasses
    PROVE  IInv'
  <1> QED
    BY NumberClassesNumbers DEF IInv, TypeOK, NumberClasses

(* A step that leaves the forest as it is keeps the lowest members.        *)
LEMMA UntouchedForest ==
    ASSUME Measured, Sized, Shallow, parent' = parent, class_size' = class_size
    PROVE  Measured' /\ Sized' /\ Shallow' /\ \A l \in Location : LowestOf(l)' = LowestOf(l)
  <1> QED
    BY ForestKept DEF Measured

(* Coloring a class touches neither the forest nor the numbers. *)
LEMMA ColorClassPreserves ==
    ASSUME IInv, ColorClass
    PROVE  IInv' /\ \A l \in Location : LowestOf(l)' = LowestOf(l)
  <1>1. /\ TypeOK /\ Measured /\ Sized /\ Shallow /\ Numbered
        /\ phase = "coloring" /\ phase' = phase /\ input' = input /\ parent' = parent
        /\ class_size' = class_size /\ preferences' = preferences
        /\ location_class' = location_class
    BY DEF IInv, ColorClass
  <1>2. PICK c \in ClassIds : \E register : assigned' = WithColor(assigned, c, register)
    BY DEF ColorClass
  <1> QED
    BY <1>1, UntouchedForest, <1>2 DEF IInv, Numbered, WithColor, ClassIds, TypeOK

(* Nor does the return. *)
LEMMA ReturnPreserves ==
    ASSUME IInv, Return
    PROVE  IInv' /\ \A l \in Location : LowestOf(l)' = LowestOf(l)
  <1> QED
    BY UntouchedForest DEF IInv, TypeOK, Numbered, ClassIds, Return

(* Nor does a step of nobody. *)
LEMMA StutterPreserves ==
    ASSUME IInv, UNCHANGED vars
    PROVE  IInv' /\ \A l \in Location : LowestOf(l)' = LowestOf(l)
  <1> QED
    BY UntouchedForest DEF IInv, TypeOK, Numbered, ClassIds, vars

(* The parts of the forest and the numbering fit together in every state   *)
(* of coalesce_phi_free_registers.                                         *)
THEOREM InductiveInvariant == Spec => []IInv
  <1>1. Init => IInv
    BY InitEstablishes
  <1>2. IInv /\ [Next]_vars => IInv'
    BY ConsiderMovePreserves, NumberClassesPreserves, ColorClassPreserves, ReturnPreserves,
       StutterPreserves DEF Next
  <1> QED
    BY <1>1, <1>2, PTL DEF Spec

(* find_root never follows more links than the size of the class can       *)
(* double, for any number of locations and any moves.                      *)
THEOREM PathsStayLogarithmic == Spec => []PathsLogarithmic
  <1>1. IInv => PathsLogarithmic
    <2> SUFFICES ASSUME IInv PROVE PathsLogarithmic
      OBVIOUS
    <2> QED
      BY RootFacts DEF PathsLogarithmic, Sized, Shallow, IInv
  <1> QED
    BY <1>1, InductiveInvariant, PTL
-----------------------------------------------------------------------------
(* What CopyClasses sees: the lowest member of every class, and the        *)
(* register of every class that has one, under its lowest member.          *)
LowestClass == [ l \in Location |-> LowestOf(l) ]

Owned ==
    [ l \in { LowestOf(m) : m \in { k \in DOMAIN location_class :
                                      location_class[k] \in DOMAIN assigned } } |->
        assigned[location_class[l]] ]

(* The coloring of CopyClasses is the same GreedyColoring.                 *)
LEMMA SameColoring ==
    /\ \A i, p, n : Partition!IsNextToColor(i, p, n) <=> IsNextToColor(i, p, n)
    /\ \A u, b, q : Partition!IsCandidate(b, u, q) <=> IsCandidate(b, u, q)
    /\ \A i, a, n : Partition!Unavailable(i, a, n) = Unavailable(i, a, n)
    /\ \A a, n, q : Partition!WithColor(a, n, q) = WithColor(a, n, q)
    /\ Partition!Spilled = Spilled
  <1>2. \A i, n : Partition!Degree(i, n) = Degree(i, n)
    BY DEF Partition!Cardinality, Cardinality, Partition!Degree, Degree,
       Partition!Neighbors, Neighbors
  <1>4. \A i, p, n : Partition!IsNextToColor(i, p, n) <=> IsNextToColor(i, p, n)
    BY <1>2 DEF Partition!IsNextToColor, IsNextToColor, Partition!ColoredBefore,
       ColoredBefore
  <1> QED
    BY <1>4 DEF Partition!IsCandidate, IsCandidate, Partition!Spilled, Spilled,
       Partition!Unavailable, Unavailable, Partition!WithColor, WithColor

(* Before the classes are numbered none has a register.                    *)
Uncolored == location_class = << >> => Owned = << >>

(* An empty numbering leaves nothing owned. *)
LEMMA NothingOwned == Uncolored
  <1> SUFFICES ASSUME location_class = << >> PROVE Owned = << >>
    BY DEF Uncolored
  <1> QED
    BY DEF Owned

(* The locations of CopyClasses start as classes of their own.             *)
LEMMA InitRefines == Init => Partition!Init
  <1> SUFFICES ASSUME Init PROVE Partition!Init
    OBVIOUS
  <1>1. /\ input \in Inputs /\ phase = "coalescing" /\ preferences = << >>
        /\ location_class = << >> /\ parent = [ l \in Location |-> l ]
    BY DEF Init
  <1>2. IInv /\ Measured
    BY InitEstablishes DEF IInv
  <1>3. \A l \in Location : LowestOf(l) = l
    <2> SUFFICES ASSUME NEW l \in Location PROVE LowestOf(l) = l
      OBVIOUS
    <2>1. LowestOf(l) \in Location /\ Root(LowestOf(l)) = Root(l)
      BY <1>2, LowestFacts
    <2> QED
      BY <1>1, <1>2, <2>1, RootFacts
  <1> QED
    BY <1>1, <1>3, NothingOwned DEF Partition!Init, Owned, Uncolored

(* A move that CopyCoalescing considers is one that CopyClasses does.      *)
LEMMA ConsiderMoveRefines ==
    ASSUME IInv, ConsiderMove
    PROVE  Partition!ConsiderMove
  <1>2. /\ TypeOK /\ Numbered /\ phase = "coalescing" /\ phase' = phase /\ input' = input
        /\ location_class' = location_class /\ assigned' = assigned
        /\ Len(preferences) < Len(input.moves)
    BY DEF IInv, ConsiderMove
  <1>3. Owned = << >> /\ Owned' = << >>
    <2>1. Uncolored /\ Uncolored'
      BY NothingOwned, PTL
    <2> QED
      BY <2>1, <1>2 DEF Uncolored, Numbered
  <1> DEFINE move == input.moves[Len(preferences) + 1]
             s == move.source
             d == move.destination
             a == LowestOf(s)
             b == LowestOf(d)
  <1>5. LowestClass[s] = a /\ LowestClass[d] = b
    BY <1>2, MoveOperands DEF LowestClass
  <1>6. Partition!ClassesInterfere(a, b) <=> LowestInterfere(a, b)
    <2> HIDE DEF a, b
    <2> QED
      BY DEF Partition!ClassesInterfere, LowestInterfere
  <1>8. (\A l \in Location : LowestOf(l)' = IF LowestOf(l) \in {a, b}
                                            THEN IF a < b THEN a ELSE b ELSE LowestOf(l))
            => LowestClass' = Partition!MergedClass(a, b)
    <2> HIDE DEF a, b
    <2> QED
      BY DEF Partition!MergedClass, LowestClass
  <1>9. \/ /\ a = b
           /\ preferences' = Append(preferences, "already_coalesced")
           /\ LowestClass' = LowestClass
        \/ /\ a # b /\ Partition!ClassesInterfere(a, b)
           /\ preferences' = Append(preferences, "blocked_by_interference")
           /\ LowestClass' = LowestClass
        \/ /\ a # b /\ ~Partition!ClassesInterfere(a, b)
           /\ preferences' = Append(preferences, "merged")
           /\ LowestClass' = Partition!MergedClass(a, b)
    BY ConsiderMoveDecides, <1>6, <1>8 DEF MoveDecided, LowestClass
  <1> HIDE DEF s, d, a, b
  <1> QED
    BY <1>9, <1>2, <1>3, <1>5 DEF Partition!ConsiderMove, LowestClass, Owned, s, d
-----------------------------------------------------------------------------
(* Numbers and lowest members name the same classes, in the same order.    *)
LEMMA NumbersNameClasses ==
    ASSUME IInv, phase # "coalescing"
    PROVE  /\ \A l, m \in Location :
                  /\ location_class[l] = location_class[m] <=> LowestOf(l) = LowestOf(m)
                  /\ location_class[l] < location_class[m] <=> LowestOf(l) < LowestOf(m)
           /\ \A l \in Location : /\ LowestOf(l) \in Location
                                  /\ location_class[LowestOf(l)] = location_class[l]
           /\ ClassIds = { location_class[l] : l \in Location }
  <1>1. /\ Measured /\ location_class \in [Location -> Nat]
        /\ \A l, m \in Location :
               location_class[l] < location_class[m] <=> LowestOf(l) < LowestOf(m)
    BY DEF IInv, Numbered
  <1>2. \A l \in Location : /\ LowestOf(l) \in Location /\ LowestOf(l) \in Int
                            /\ LowestOf(LowestOf(l)) = LowestOf(l)
    BY <1>1, LowestFacts, LowestOfLowest, LocationCountAssumption DEF Location
  <1>3. \A l \in Location : location_class[l] \in Int
    BY <1>1
  <1>4. \A l, m \in Location : location_class[l] = location_class[m] <=> LowestOf(l) = LowestOf(m)
    <2> SUFFICES ASSUME NEW l \in Location, NEW m \in Location
                 PROVE  location_class[l] = location_class[m] <=> LowestOf(l) = LowestOf(m)
      OBVIOUS
    <2> QED
      BY <1>1, <1>2, <1>3
  <1> QED
    BY <1>1, <1>2, <1>4 DEF ClassIds

(* A class has a register under its number exactly if it has it under its  *)
(* lowest member.                                                          *)
LEMMA OwnersAgree ==
    ASSUME IInv, phase # "coalescing"
    PROVE  /\ \A x : x \in DOMAIN Owned <=> \E l \in Location :
                         x = LowestOf(l) /\ location_class[l] \in DOMAIN assigned
           /\ \A l \in Location :
                  /\ LowestOf(l) \in DOMAIN Owned <=> location_class[l] \in DOMAIN assigned
                  /\ location_class[l] \in DOMAIN assigned =>
                         Owned[LowestOf(l)] = assigned[location_class[l]]
  <1> QED
    BY NumbersNameClasses DEF Owned, IInv, Numbered

LowestQuotient == { <<LowestOf(e[1]), LowestOf(e[2])>> : e \in input.interference }

(* The two quotients have the same edges.                                  *)
LEMMA QuotientsAgree ==
    ASSUME IInv, phase # "coalescing"
    PROVE  /\ \A e \in QuotientInterference : \E l, m \in Location :
                  e = <<location_class[l], location_class[m]>>
           /\ \A e \in LowestQuotient : \E l, m \in Location :
                  e = <<LowestOf(l), LowestOf(m)>>
           /\ \A l, m \in Location :
                  <<location_class[l], location_class[m]>> \in QuotientInterference
                      <=> <<LowestOf(l), LowestOf(m)>> \in LowestQuotient
  <1>1. \A e \in input.interference :
            e = <<e[1], e[2]>> /\ e[1] \in Location /\ e[2] \in Location
    BY InputsAssumption DEF IInv, TypeOK
  <1> QED
    BY <1>1, NumbersNameClasses DEF QuotientInterference, LowestQuotient

(* A class has as many neighbors in the one quotient as in the other.      *)
LEMMA DegreesAgree ==
    ASSUME IInv, phase # "coalescing", NEW l \in Location
    PROVE  /\ Degree(QuotientInterference, location_class[l])
                  = Degree(LowestQuotient, LowestOf(l))
           /\ Degree(LowestQuotient, LowestOf(l)) \in Nat
  <1> DEFINE S == Neighbors(LowestQuotient, LowestOf(l))
             T == Neighbors(QuotientInterference, location_class[l])
             f == [ x \in S |-> location_class[x] ]
  <1>1. /\ \A i, j \in Location : location_class[i] = location_class[j]
                                     <=> LowestOf(i) = LowestOf(j)
        /\ \A i \in Location : /\ LowestOf(i) \in Location
                               /\ location_class[LowestOf(i)] = location_class[i]
    BY NumbersNameClasses
  <1>2. \A x : x \in S <=> \E m \in Location :
                   x = LowestOf(m) /\ <<LowestOf(l), x>> \in LowestQuotient
    BY QuotientsAgree DEF Neighbors
  <1>3. \A y : y \in T <=> \E m \in Location :
                   /\ y = location_class[m]
                   /\ <<location_class[l], y>> \in QuotientInterference
    BY QuotientsAgree DEF Neighbors
  <1>4. \A m \in Location : <<location_class[l], location_class[m]>> \in QuotientInterference
                                <=> <<LowestOf(l), LowestOf(m)>> \in LowestQuotient
    BY QuotientsAgree
  <1>5. S \in SUBSET Location
    <2> HIDE DEF S
    <2>1. ASSUME NEW x \in S PROVE x \in Location
      <3>1. PICK m \in Location : x = LowestOf(m)
        BY <1>2
      <3> QED
        BY <1>1, <3>1
    <2> QED
      BY <2>1
  <1>6. IsFiniteSet(S) /\ Cardinality(S) \in Nat
    BY <1>5, LocationSets, LocationCountAssumption
  <1>7. f \in Bijection(S, T)
    <2> HIDE DEF S, T
    <2>1. \A x \in S : f[x] \in T
      <3> SUFFICES ASSUME NEW x \in S PROVE location_class[x] \in T
        OBVIOUS
      <3>1. PICK m \in Location : x = LowestOf(m) /\ <<LowestOf(l), x>> \in LowestQuotient
        BY <1>2
      <3> QED
        BY <1>3, <1>1, <1>4, <3>1
    <2>2. \A x, y \in S : f[x] = f[y] => x = y
      <3> SUFFICES ASSUME NEW x \in S, NEW y \in S, f[x] = f[y] PROVE x = y
        OBVIOUS
      <3>1. PICK i \in Location : x = LowestOf(i)
        BY <1>2
      <3>2. PICK j \in Location : y = LowestOf(j)
        BY <1>2
      <3> QED
        BY <1>1, <3>1, <3>2
    <2>3. \A y \in T : \E x \in S : f[x] = y
      <3> SUFFICES ASSUME NEW y \in T PROVE \E x \in S : f[x] = y
        OBVIOUS
      <3>1. PICK m \in Location :
                y = location_class[m] /\ <<location_class[l], y>> \in QuotientInterference
        BY <1>3
      <3> QED
        BY <1>1, <3>1, <1>2, <1>4
    <2>4. f \in [S -> T]
      BY <2>1
    <2> HIDE DEF f
    <2> QED
      BY <2>2, <2>3, <2>4 DEF Bijection, Injection, Surjection, IsInjective
  <1>8. Cardinality(T) = Cardinality(S)
    <2> HIDE DEF S, T, f
    <2> QED
      BY <1>6, <1>7, FS_Bijection DEF ExistsBijection
  <1> QED
    BY <1>6, <1>8 DEF Degree

(* The class that is next under its number is next under its lowest member.*)
LEMMA NextClassAgrees ==
    ASSUME IInv, phase # "coalescing", NEW l \in Location,
           IsNextToColor(QuotientInterference, ClassIds \ DOMAIN assigned, location_class[l])
    PROVE  IsNextToColor(LowestQuotient, { LowestOf(m) : m \in Location } \ DOMAIN Owned,
                         LowestOf(l))
  <1> DEFINE P == ClassIds \ DOMAIN assigned
             Q == { LowestOf(m) : m \in Location } \ DOMAIN Owned
  <1>1. /\ \A i, j \in Location :
               /\ location_class[i] = location_class[j] <=> LowestOf(i) = LowestOf(j)
               /\ location_class[i] < location_class[j] <=> LowestOf(i) < LowestOf(j)
        /\ ClassIds = { location_class[i] : i \in Location }
    BY NumbersNameClasses
  <1>3. \A i \in Location : location_class[i] \in P <=> LowestOf(i) \in Q
    BY <1>1, OwnersAgree
  <1>4. \A y \in Q : \E i \in Location : y = LowestOf(i)
    OBVIOUS
  <1> HIDE DEF P, Q
  <1>5. /\ location_class[l] \in P
        /\ \A m \in P \ {location_class[l]} :
               ColoredBefore(QuotientInterference, location_class[l], m)
    BY DEF IsNextToColor, P
  <1>6. ASSUME NEW y \in Q \ {LowestOf(l)}
        PROVE  ColoredBefore(LowestQuotient, LowestOf(l), y)
    <2>1. PICK i \in Location : y = LowestOf(i)
      BY <1>4, <1>6
    <2> QED
      BY <2>1, <1>5, <1>1, <1>3, <1>6, DegreesAgree DEF ColoredBefore
  <1> QED
    BY <1>3, <1>5, <1>6 DEF IsNextToColor, P, Q

(* The registers of the neighbors are the same.                            *)
LEMMA UnavailableAgrees ==
    ASSUME IInv, phase # "coalescing", NEW l \in Location
    PROVE  Unavailable(QuotientInterference, assigned, location_class[l])
               = Unavailable(LowestQuotient, Owned, LowestOf(l))
  <1>1. DOMAIN assigned \subseteq { location_class[i] : i \in Location }
    BY NumbersNameClasses DEF IInv, Numbered
  <1>2. \A m \in Location : <<location_class[l], location_class[m]>> \in QuotientInterference
                                <=> <<LowestOf(l), LowestOf(m)>> \in LowestQuotient
    BY QuotientsAgree
  <1>3. /\ \A x : x \in DOMAIN Owned <=> \E i \in Location :
                      x = LowestOf(i) /\ location_class[i] \in DOMAIN assigned
        /\ \A i \in Location :
               location_class[i] \in DOMAIN assigned =>
                   Owned[LowestOf(i)] = assigned[location_class[i]]
    BY OwnersAgree
  <1> DEFINE U == Unavailable(QuotientInterference, assigned, location_class[l])
             V == Unavailable(LowestQuotient, Owned, LowestOf(l))
  <1>4. /\ \A q : q \in U <=> \E c \in DOMAIN assigned :
                      <<location_class[l], c>> \in QuotientInterference /\ q = assigned[c]
        /\ \A q : q \in V <=> \E x \in DOMAIN Owned :
                      <<LowestOf(l), x>> \in LowestQuotient /\ q = Owned[x]
    BY DEF Unavailable
  <1> HIDE DEF U, V
  <1>5. ASSUME NEW q \in U PROVE q \in V
    <2>1. PICK c \in DOMAIN assigned :
              <<location_class[l], c>> \in QuotientInterference /\ q = assigned[c]
      BY <1>4
    <2>2. PICK i \in Location : c = location_class[i]
      BY <1>1
    <2> QED
      BY <1>4, <1>3, <2>1, <2>2, <1>2
  <1>6. ASSUME NEW q \in V PROVE q \in U
    <2>1. PICK x \in DOMAIN Owned : <<LowestOf(l), x>> \in LowestQuotient /\ q = Owned[x]
      BY <1>4
    <2>2. PICK i \in Location : x = LowestOf(i) /\ location_class[i] \in DOMAIN assigned
      BY <1>3
    <2> QED
      BY <1>4, <2>2, <1>3, <2>1, <1>2
  <1> QED
    BY <1>5, <1>6 DEF U, V

(* A register for a number is one for the lowest member.                   *)
LEMMA ColoringOwns ==
    ASSUME IInv, phase # "coalescing", IInv', phase' # "coalescing",
           location_class' = location_class, NEW l \in Location, NEW register,
           \A m \in Location : LowestOf(m)' = LowestOf(m),
           assigned' = WithColor(assigned, location_class[l], register)
    PROVE  Owned' = WithColor(Owned, LowestOf(l), register)
  <1>1. /\ \A i, j \in Location : location_class[i] = location_class[j]
                                     <=> LowestOf(i) = LowestOf(j)
        /\ \A i \in Location : location_class[LowestOf(i)] = location_class[i]
    BY NumbersNameClasses
  <1>2. DOMAIN location_class = Location
    BY DEF IInv, Numbered
  <1>3. /\ DOMAIN assigned' = DOMAIN assigned \cup {location_class[l]}
        /\ assigned'[location_class[l]] = register
        /\ \A c \in DOMAIN assigned : c # location_class[l] => assigned'[c] = assigned[c]
    BY DEF WithColor
  <1>4. /\ \A x : x \in DOMAIN Owned <=> \E i \in Location :
                      x = LowestOf(i) /\ location_class[i] \in DOMAIN assigned
        /\ \A i \in Location :
               location_class[i] \in DOMAIN assigned =>
                   Owned[LowestOf(i)] = assigned[location_class[i]]
    BY OwnersAgree
  <1> DEFINE D == { LowestOf(m) : m \in { k \in Location : location_class[k] \in DOMAIN assigned' } }
  <1>5. Owned' = [ x \in D |-> assigned'[location_class[x]] ]
    <2>1. { LowestOf(m)' : m \in { k \in DOMAIN location_class' :
                                     location_class'[k] \in DOMAIN assigned' } } = D
      BY <1>2
    <2> HIDE DEF D
    <2> QED
      BY <2>1 DEF Owned
  <1>6. D = DOMAIN Owned \cup {LowestOf(l)}
    <2>1. \A x : x \in D <=> \E i \in Location :
                     x = LowestOf(i) /\ location_class[i] \in DOMAIN assigned'
      OBVIOUS
    <2> HIDE DEF D
    <2> QED
      BY <1>1, <1>3, <1>4, <2>1
  <1>7. \A x \in D : assigned'[location_class[x]] = IF x = LowestOf(l) THEN register ELSE Owned[x]
    <2> SUFFICES ASSUME NEW x \in D
                 PROVE  assigned'[location_class[x]]
                            = IF x = LowestOf(l) THEN register ELSE Owned[x]
      OBVIOUS
    <2>1. PICK i \in Location : x = LowestOf(i) /\ location_class[i] \in DOMAIN assigned'
      OBVIOUS
    <2>2. location_class[x] = location_class[i]
      BY <1>1, <2>1
    <2>3. CASE x = LowestOf(l)
      BY <1>1, <1>3, <2>1, <2>2, <2>3
    <2>4. CASE x # LowestOf(l)
      BY <1>1, <1>3, <2>1, <2>4, <1>4, <2>2
    <2> QED
      BY <2>3, <2>4
  <1> HIDE DEF D
  <1> QED
    BY <1>6, <1>5, <1>7 DEF WithColor

(* Coloring a number is coloring the class of CopyClasses it names.        *)
LEMMA ColorClassRefines ==
    ASSUME IInv, ColorClass
    PROVE  Partition!ColorClass
  <1>1. /\ phase = "coloring" /\ phase' = phase /\ input' = input /\ preferences' = preferences
        /\ location_class' = location_class
    BY DEF ColorClass
  <1>2. PICK c \in ClassIds \ DOMAIN assigned, register \in {Spilled} \cup 0 .. input.budget - 1 :
            /\ IsNextToColor(QuotientInterference, ClassIds \ DOMAIN assigned, c)
            /\ IsCandidate(input.budget, Unavailable(QuotientInterference, assigned, c), register)
            /\ assigned' = WithColor(assigned, c, register)
    BY DEF ColorClass
  <1>3. /\ \A l \in Location : LowestOf(l)' = LowestOf(l)
        /\ IInv'
    BY ColorClassPreserves
  <1>4. PICK l \in Location : c = location_class[l]
    BY <1>1, NumbersNameClasses
  <1>5. IsNextToColor(LowestQuotient, { LowestOf(m) : m \in Location } \ DOMAIN Owned,
                      LowestOf(l))
    BY <1>1, <1>2, <1>4, NextClassAgrees
  <1>6. IsCandidate(input.budget, Unavailable(LowestQuotient, Owned, LowestOf(l)), register)
    BY <1>1, <1>2, <1>4, UnavailableAgrees
  <1>7. Owned' = WithColor(Owned, LowestOf(l), register)
    BY <1>1, <1>2, <1>3, <1>4, ColoringOwns
  <1>11. Partition!QuotientInterference = LowestQuotient
    BY InputsAssumption DEF IInv, TypeOK, Partition!QuotientInterference, LowestQuotient
  <1>12. /\ Partition!IsNextToColor(Partition!QuotientInterference,
                                    Partition!Classes \ DOMAIN Owned, LowestOf(l))
         /\ Partition!IsCandidate(input.budget,
                Partition!Unavailable(Partition!QuotientInterference, Owned, LowestOf(l)),
                register)
         /\ Owned' = Partition!WithColor(Owned, LowestOf(l), register)
         /\ LowestOf(l) \in Partition!Classes \ DOMAIN Owned
         /\ register \in {Partition!Spilled} \cup 0 .. input.budget - 1
    BY <1>2, <1>5, <1>6, <1>7, <1>11, SameColoring DEF IsNextToColor, Partition!Classes
  <1> QED
    BY <1>1, <1>3, <1>12 DEF Partition!ColorClass, LowestClass, Owned

(* The numbering is invisible.                                             *)
LEMMA NumberClassesRefines ==
    ASSUME IInv, NumberClasses
    PROVE  Partition!NumberClasses
  <1>1. /\ phase = "coalescing" /\ phase' = "coloring" /\ input' = input
        /\ preferences' = preferences /\ Len(preferences) = Len(input.moves)
        /\ assigned' = assigned
    BY DEF NumberClasses
  <1> QED
    BY <1>1, NumberClassesNumbers, NothingOwned DEF Partition!NumberClasses, LowestClass,
       Owned, Uncolored, IInv, Numbered

(* The coloring ends for both at once.                                     *)
LEMMA ReturnRefines ==
    ASSUME IInv, Return
    PROVE  Partition!Return
  <1>1. /\ phase = "coloring" /\ phase' = "returned" /\ input' = input
        /\ preferences' = preferences /\ assigned' = assigned
        /\ location_class' = location_class /\ ClassIds \subseteq DOMAIN assigned
    BY DEF Return
  <1>5. { LowestOf(m) : m \in Location } \subseteq DOMAIN Owned
    BY <1>1, NumbersNameClasses, OwnersAgree
  <1> QED
    BY <1>1, ReturnPreserves, <1>5 DEF Partition!Return, LowestClass, Owned, IInv,
       Numbered, Partition!Classes

(* Nothing that changes no variable changes the partition.                 *)
LEMMA StutterRefines ==
    ASSUME IInv, UNCHANGED vars
    PROVE  UNCHANGED Partition!vars
  <1>1. /\ phase' = phase /\ input' = input /\ preferences' = preferences
        /\ assigned' = assigned /\ location_class' = location_class
    BY DEF vars
  <1>2. \A l \in Location : LowestOf(l)' = LowestOf(l)
    BY StutterPreserves
  <1>4. Owned' = Owned
    <2>1. CASE phase = "coalescing"
      <3>2. Uncolored /\ Uncolored'
        BY NothingOwned, PTL
      <3> QED
        BY <1>1, <2>1, <3>2 DEF Uncolored, IInv, Numbered
    <2>2. CASE phase # "coalescing"
      BY <2>2, <1>1, <1>2 DEF IInv, Numbered, Owned
    <2> QED
      BY <2>1, <2>2
  <1> QED
    BY <1>1, <1>2, <1>4 DEF Partition!vars, LowestClass, Owned

(* coalesce_phi_free_registers, with its union-find forest, its path       *)
(* compressions, the order in which it looks at the interference and its   *)
(* numbering of the classes, decides every move and colors every class as  *)
(* the partition of CopyClasses does, for every program and every budget.  *)
THEOREM ForestRefinesCopyClasses == Spec => ImplementsCopyClasses
  <1>1. Init => Partition!Init
    BY InitRefines
  <1>2. IInv /\ [Next]_vars => [Partition!Next]_Partition!vars
    BY ConsiderMoveRefines, NumberClassesRefines, ColorClassRefines, ReturnRefines,
       StutterRefines DEF Next, Partition!Next
  <1> QED
    BY <1>1, <1>2, InductiveInvariant, PTL DEF Spec, ImplementsCopyClasses, Partition!Spec
=============================================================================
