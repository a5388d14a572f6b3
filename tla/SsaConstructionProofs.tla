----------------------- MODULE SsaConstructionProofs -----------------------
(***************************************************************************)
(* Facts about the front end of the compiler, for every program.           *)
(*                                                                         *)
(* The guards of the checked operations are exact for a word of any width. *)
(* Reachability, dominance and the preorder of the dominator tree are what *)
(* the renaming of rename_with_placement relies on: it visits every block  *)
(* in reach once, a block after its immediate dominator.  Following it one *)
(* instruction at a time gives the versions on top of the stacks at every  *)
(* place of the program (TopsIn), which are different for different        *)
(* definitions and fit under VersionSpan.  FormOf says what the resulting  *)
(* SSA program consists of; ConstructionsAreAccepted that the validation   *)
(* at the start of destroy_ssa has nothing to refuse in it.                *)
(***************************************************************************)
EXTENDS SsaDestruction, FiniteSetTheorems, SequenceTheorems, TLAPS
-----------------------------------------------------------------------------
(* A number exceeds a quotient exactly when its product with the divisor   *)
(* exceeds the dividend.                                                   *)
LEMMA ExceedsQuotient ==
    ASSUME NEW m \in Nat, NEW x \in Nat, NEW y \in Nat \ {0}
    PROVE  x > m \div y <=> x * y > m
  <1>1. /\ m \div y \in Nat
        /\ (m \div y) * y <= m
        /\ m < (m \div y + 1) * y
    OBVIOUS
  <1>2. CASE x > m \div y
    BY <1>1, <1>2
  <1>3. CASE x <= m \div y
    BY <1>1, <1>3
  <1> QED
    BY <1>1, <1>2, <1>3

(* checked_add reports an overflow if and only if the sum does not fit, in *)
(* a word of any width.                                                    *)
THEOREM AdditionGuardIsExact ==
    ASSUME NEW left \in Int64, NEW right \in Int64
    PROVE  AddOverflows(left, right) <=> left + right \notin Int64
  BY Int64Assumption DEF AddOverflows, Int64, Int64Min

(* checked_subtract likewise, for the difference. *)
THEOREM SubtractionGuardIsExact ==
    ASSUME NEW left \in Int64, NEW right \in Int64
    PROVE  SubtractOverflows(left, right) <=> left - right \notin Int64
  BY Int64Assumption DEF SubtractOverflows, Int64, Int64Min

(* checked_multiply likewise: its quotients, truncated towards zero, bound *)
(* the factors of the products that fit, at the least integer too, whose   *)
(* magnitude has no representation.                                        *)
THEOREM MultiplicationGuardIsExact ==
    ASSUME NEW left \in Int64, NEW right \in Int64
    PROVE  MultiplyOverflows(left, right) <=> left * right \notin Int64
  <1> USE Int64Assumption
  <1>1. /\ left \in Int /\ right \in Int /\ left * right \in Int
        /\ left >= Int64Min /\ left <= Int64Max
        /\ right >= Int64Min /\ right <= Int64Max
    BY DEF Int64, Int64Min
  <1>2. left * right \notin Int64 <=> left * right < Int64Min \/ left * right > Int64Max
    BY <1>1 DEF Int64, Int64Min
  <1>3. CASE left = 0 \/ right = 0
    BY <1>1, <1>3, <1>2 DEF MultiplyOverflows, Int64Min
  <1>4. CASE left > 0 /\ right > 0
    BY <1>1, <1>4, ExceedsQuotient, <1>2 DEF Quotient, MultiplyOverflows, Int64Min
  <1>5. CASE left > 0 /\ right < 0
    BY <1>1, <1>5, ExceedsQuotient, <1>2 DEF Quotient, Int64Min, MultiplyOverflows
  <1>6. CASE left < 0 /\ right > 0
    BY <1>1, <1>6, ExceedsQuotient, <1>2 DEF Quotient, Int64Min, MultiplyOverflows
  <1>7. CASE left < 0 /\ right < 0
    BY <1>1, <1>7, ExceedsQuotient, <1>2 DEF Quotient, Int64Min, MultiplyOverflows
  <1> QED
    BY <1>1, <1>3, <1>4, <1>5, <1>6, <1>7

(* An instruction of two operands reports an overflow if and only if its   *)
(* result does not fit.                                                    *)
THEOREM CheckedOperationsAreExact ==
    ASSUME NEW left \in Int64, NEW right \in Int64, NEW instruction,
           instruction.opcode \in {"copy_i64", "add_i64", "subtract_i64", "multiply_i64",
                                   "equal_i64", "less_than_i64"}
    PROVE  Overflows(instruction, <<left, right>>)
           <=> Evaluate(instruction, <<left, right>>) \notin Int64
  <1> DEFINE inputs == <<left, right>>
  <1>1. inputs[1] = left /\ inputs[2] = right
    OBVIOUS
  <1>2. CASE instruction.opcode = "add_i64"
    BY <1>1, <1>2, AdditionGuardIsExact DEF Overflows, Evaluate
  <1>3. CASE instruction.opcode = "subtract_i64"
    BY <1>1, <1>3, SubtractionGuardIsExact DEF Overflows, Evaluate
  <1>4. CASE instruction.opcode = "multiply_i64"
    BY <1>1, <1>4, MultiplicationGuardIsExact DEF Overflows, Evaluate
  <1>5. CASE instruction.opcode = "copy_i64"
    BY <1>1, <1>5 DEF Overflows, Evaluate
  <1>6. CASE instruction.opcode \in {"equal_i64", "less_than_i64"}
    BY <1>1, <1>6, Int64Assumption DEF Evaluate, Int64, Int64Min, Overflows
  <1> QED
    BY <1>2, <1>3, <1>4, <1>5, <1>6
-----------------------------------------------------------------------------
(* Induction and finite sets.                                              *)

(* A set of natural numbers that is not empty has a least one, from the    *)
(* well-founded order of the natural numbers.                              *)
LEMMA LeastNatural ==
    ASSUME NEW S, S \subseteq Nat, S # {}
    PROVE  \E x \in S : \A y \in S : x <= y
  <1> DEFINE R == OpToRel(<, Nat)
  <1>1. IsWellFoundedOn(R, Nat)
    BY NatLessThanWellFounded
  <1>2. \A x, y \in S : <<y, x>> \in R <=> y < x
    BY DEF OpToRel
  <1> HIDE DEF R
  <1>3. PICK x \in S : \A y \in S : <<y, x>> \notin R
    BY <1>1, WFMin
  <1>4. ASSUME NEW y \in S PROVE x <= y
    <2>1. ~(y < x) /\ x \in Nat /\ y \in Nat
      BY <1>2, <1>3
    <2> QED
      BY <2>1
  <1> QED
    BY <1>4

(* A set that holds zero and the successors of its members holds every     *)
(* natural number.                                                         *)
LEMMA InductiveSet ==
    ASSUME NEW S, 0 \in S, \A n \in Nat : n \in S => n + 1 \in S
    PROVE  Nat \subseteq S
  <1> DEFINE T == Nat \ S
  <1>1. SUFFICES ASSUME T # {} PROVE FALSE
    OBVIOUS
  <1>2. PICK m \in T : \A y \in T : m <= y
    BY <1>1, LeastNatural
  <1> QED
    BY <1>2

(* Induction up to a bound. *)
LEMMA BoundedInduction ==
    ASSUME NEW n \in Nat, NEW S, 0 \in S, \A k \in 1 .. n : k - 1 \in S => k \in S
    PROVE  \A k \in 0 .. n : k \in S
  <1> DEFINE T == { k \in Nat : k <= n => k \in S }
  <1>1. 0 \in T
    OBVIOUS
  <1>2. ASSUME NEW k \in Nat, k \in T
        PROVE  k + 1 \in T
    <2> SUFFICES ASSUME k + 1 <= n PROVE k + 1 \in S
      OBVIOUS
    <2> QED
      BY <1>2
  <1>3. Nat \subseteq T
    <2> HIDE DEF T
    <2> QED
      BY <1>1, <1>2, InductiveSet
  <1> QED
    BY <1>3

(* A finite set of natural numbers that is not empty has a greatest one.   *)
LEMMA GreatestBelow ==
    ASSUME NEW n \in Nat, NEW S, S \subseteq 0 .. n, S # {}
    PROVE  \E x \in S : \A y \in S : y <= x
  <1> DEFINE D == { n - y : y \in S }
  <1>1. D \subseteq Nat /\ D # {}
    <2>1. \A y \in S : y \in Int /\ 0 <= y /\ y <= n
      OBVIOUS
    <2>2. \A y \in S : n - y \in Nat
      BY <2>1
    <2> QED
      BY <2>2
  <1>2. PICK d \in D : \A e \in D : d <= e
    <2> HIDE DEF D
    <2> QED
      BY <1>1, LeastNatural
  <1>3. PICK x \in S : d = n - x
    BY <1>2
  <1>4. ASSUME NEW y \in S PROVE y <= x
    <2>1. n - x <= n - y /\ x \in Int /\ y \in Int
      BY <1>2, <1>3
    <2> QED
      BY <2>1
  <1> QED
    BY <1>4

(* A relation as a set of pairs that is a strict total order on a set.     *)
StrictlyOrders(R, S) ==
    /\ \A e \in S : <<e, e>> \notin R
    /\ \A e, f, g \in S : <<e, f>> \in R /\ <<f, g>> \in R => <<e, g>> \in R
    /\ \A e, f \in S : e # f => <<e, f>> \in R \/ <<f, e>> \in R

(* The place of a member of a finite set in a strict total order on it.    *)
Before(R, S, e) == { f \in S : <<f, e>> \in R }

(* A member that comes earlier has fewer members before it.                *)
LEMMA PlacesIncrease ==
    ASSUME NEW S, IsFiniteSet(S), NEW R, StrictlyOrders(R, S),
           NEW e \in S, NEW f \in S, <<e, f>> \in R
    PROVE  Cardinality(Before(R, S, e)) < Cardinality(Before(R, S, f))
  <1>1. IsFiniteSet(Before(R, S, e)) /\ IsFiniteSet(Before(R, S, f))
    BY FS_Subset DEF Before
  <1>2. e \notin Before(R, S, e) /\ Before(R, S, e) \cup {e} \subseteq Before(R, S, f)
    BY DEF StrictlyOrders, Before
  <1> QED
    BY <1>1, <1>2, FS_AddElement, FS_Subset, FS_CardinalityType

(* There is exactly one member at each place. *)
LEMMA PlacesAreExact ==
    ASSUME NEW S, IsFiniteSet(S), NEW R, StrictlyOrders(R, S)
    PROVE  /\ \A e \in S : Cardinality(Before(R, S, e)) \in 0 .. Cardinality(S) - 1
           /\ \A e, f \in S :
                  Cardinality(Before(R, S, e)) = Cardinality(Before(R, S, f)) => e = f
           /\ \A k \in 1 .. Cardinality(S) :
                  \E e \in S : Cardinality(Before(R, S, e)) = k - 1
  <1> DEFINE n == Cardinality(S)
             place == [ e \in S |-> Cardinality(Before(R, S, e)) ]
             T == 0 .. n - 1
  <1>1. n \in Nat
    BY FS_CardinalityType
  <1>2. ASSUME NEW e \in S PROVE Cardinality(Before(R, S, e)) \in T
    <2>1. Before(R, S, e) \subseteq S \ {e}
      BY DEF StrictlyOrders, Before
    <2>2. IsFiniteSet(S \ {e}) /\ Cardinality(S \ {e}) = n - 1
      BY FS_RemoveElement
    <2> QED
      BY <1>1, <2>1, <2>2, FS_Subset, FS_CardinalityType
  <1>3. ASSUME NEW e \in S, NEW f \in S,
               Cardinality(Before(R, S, e)) = Cardinality(Before(R, S, f))
        PROVE  e = f
    <2> SUFFICES ASSUME e # f PROVE FALSE
      OBVIOUS
    <2>2. \/ Cardinality(Before(R, S, e)) < Cardinality(Before(R, S, f))
          \/ Cardinality(Before(R, S, f)) < Cardinality(Before(R, S, e))
      BY PlacesIncrease DEF StrictlyOrders
    <2> QED
      BY <1>3, <2>2, <1>1, <1>2
  <1>4. place \in Injection(S, T)
    <2>1. place \in [S -> T]
      BY <1>2
    <2>2. \A e, f \in S : place[e] = place[f] => e = f
      BY <1>3
    <2> HIDE DEF place
    <2> QED
      BY <2>1, <2>2 DEF Injection, IsInjective
  <1>5. IsFiniteSet(T) /\ Cardinality(T) = n
    BY <1>1, FS_Interval, SMTT(30)
  <1>6. place \in Surjection(S, T)
    <2> HIDE DEF place, T
    <2> QED
      BY <1>4, <1>5, FS_Injection
  <1>7. \A k \in T : \E e \in S : place[e] = k
    <2> HIDE DEF place, T
    <2> QED
      BY <1>6 DEF Surjection
  <1>8. ASSUME NEW k \in 1 .. n
        PROVE  \E e \in S : Cardinality(Before(R, S, e)) = k - 1
    BY <1>1, <1>7
  <1> QED
    BY <1>2, <1>3, <1>8

(* What a loop computes: from a first value, one step after the other.     *)
LEMMA Recursion ==
    ASSUME NEW V, NEW b \in V, NEW n \in Nat, NEW step \in [1 .. n -> [V -> V]]
    PROVE  \E g \in [0 .. n -> V] :
               g[0] = b /\ \A k \in 1 .. n : g[k] = step[k][g[k - 1]]
  <1> DEFINE Good(m, g) == /\ g \in [0 .. m -> V] /\ g[0] = b
                           /\ \A k \in 1 .. m : g[k] = step[k][g[k - 1]]
             S == { m \in Nat : m <= n => \E g : Good(m, g) }
  <1>1. 0 \in S
    <2>1. Good(0, [ k \in 0 .. 0 |-> b ])
      OBVIOUS
    <2> QED
      BY <2>1
  <1>2. ASSUME NEW m \in Nat, m \in S
        PROVE  m + 1 \in S
    <2> SUFFICES ASSUME m + 1 <= n PROVE \E h : Good(m + 1, h)
      OBVIOUS
    <2>1. PICK g : Good(m, g)
      BY <1>2
    <2> DEFINE v == step[m + 1][g[m]]
               h == [ k \in 0 .. m + 1 |-> IF k = m + 1 THEN v ELSE g[k] ]
    <2>2. g \in [0 .. m -> V] /\ g[m] \in V
      BY <2>1
    <2>4. v \in V
      BY <2>2
    <2> HIDE DEF v
    <2>5. h \in [0 .. m + 1 -> V] /\ h[0] = b
      BY <2>1, <2>2, <2>4
    <2>6. ASSUME NEW k \in 1 .. m + 1
          PROVE  h[k] = step[k][h[k - 1]]
      BY <2>1 DEF v
    <2> HIDE DEF h
    <2>7. Good(m + 1, h)
      BY <2>5, <2>6
    <2> HIDE DEF Good
    <2> QED
      BY <2>7
  <1>3. n \in S
    <2> HIDE DEF S
    <2> QED
      BY <1>1, <1>2, InductiveSet
  <1>4. PICK g : Good(n, g)
    BY <1>3
  <1> QED
    BY <1>4

(* Closures by n rounds in the finite set U, from the set b: ext[X] is     *)
(* what a round adds to the set X.                                         *)
Rounds(U, b, ext, n) ==
    /\ n \in Nat /\ IsFiniteSet(U) /\ Cardinality(U) <= n
    /\ b \in SUBSET U /\ ext \in [SUBSET U -> SUBSET U]

(* f is what n rounds of adding the blocks ext allows to b have gathered.  *)
RoundsTaken(U, b, ext, n, f) ==
    /\ f[0] = b
    /\ \A k \in 1 .. n : f[k - 1] \in SUBSET U => f[k] = f[k - 1] \cup ext[f[k - 1]]

(* Every number of rounds can be taken.                                    *)
LEMMA RoundsExist ==
    ASSUME NEW U, NEW b, NEW ext, NEW n, Rounds(U, b, ext, n)
    PROVE  \E f \in [0 .. n -> SUBSET U] :
               f[0] = b /\ \A k \in 1 .. n : f[k] = f[k - 1] \cup ext[f[k - 1]]
  <1> DEFINE V == SUBSET U
             step == [ k \in 1 .. n |-> [ X \in V |-> X \cup ext[X] ] ]
  <1> USE DEF Rounds
  <1>1. \A X \in V : X \cup ext[X] \in V
    OBVIOUS
  <1>2. step \in [1 .. n -> [V -> V]] /\ b \in V
    <2>1. b \in V
      OBVIOUS
    <2> HIDE DEF V
    <2> QED
      BY ONLY <1>1, <2>1 DEF step
  <1>3. PICK f \in [0 .. n -> V] : f[0] = b /\ \A k \in 1 .. n : f[k] = step[k][f[k - 1]]
    <2>1. n \in Nat
      OBVIOUS
    <2> HIDE DEF step, V
    <2> QED
      BY ONLY <1>2, <2>1, Recursion
  <1>4. \A k \in 1 .. n : f[k] = f[k - 1] \cup ext[f[k - 1]]
    <2> SUFFICES ASSUME NEW k \in 1 .. n PROVE f[k] = f[k - 1] \cup ext[f[k - 1]]
      OBVIOUS
    <2> HIDE DEF V
    <2>1. f[k - 1] \in V
      OBVIOUS
    <2> QED
      BY <1>3, <2>1
  <1> QED
    BY <1>3, <1>4

(* After as many rounds as there are elements the set is closed, and it is *)
(* the least closed one.                                                   *)
LEMMA ClosureByRounds ==
    ASSUME NEW U, NEW b, NEW ext, NEW n, Rounds(U, b, ext, n),
           NEW f, RoundsTaken(U, b, ext, n, f)
    PROVE  /\ f[n] \in SUBSET U /\ b \subseteq f[n] /\ ext[f[n]] \subseteq f[n]
           /\ \A C : b \subseteq C /\ (\A X \in SUBSET U : X \subseteq C => ext[X] \subseteq C)
                     => f[n] \subseteq C
  <1> DEFINE Typed(k) == f[k] \in SUBSET U /\ b \subseteq f[k]
             S == { k \in Nat : k <= n => Typed(k) }
  <1> USE DEF Rounds, RoundsTaken
  <1>1. 0 \in S
    OBVIOUS
  <1>2. ASSUME NEW k \in Nat, k \in S
        PROVE  k + 1 \in S
    <2> SUFFICES ASSUME k + 1 <= n PROVE Typed(k + 1)
      OBVIOUS
    <2> QED
      BY <1>2
  <1>3. \A k \in Nat : k <= n => Typed(k)
    <2>1. Nat \subseteq S
      <3> HIDE DEF S
      <3> QED
        BY <1>1, <1>2, InductiveSet
    <2> HIDE DEF Typed
    <2> QED
      BY <2>1
  <1>4. ASSUME NEW k \in Nat, k + 1 <= n
        PROVE  f[k + 1] = f[k] \cup ext[f[k]] /\ f[k] \in SUBSET U
    BY <1>4, <1>3
  <1>5. ASSUME NEW C, b \subseteq C, \A X \in SUBSET U : X \subseteq C => ext[X] \subseteq C
        PROVE  f[n] \subseteq C
    <2> DEFINE T == { k \in Nat : k <= n => f[k] \subseteq C }
    <2>1. 0 \in T
      BY <1>5
    <2>2. ASSUME NEW k \in Nat, k \in T
          PROVE  k + 1 \in T
      <3> SUFFICES ASSUME k + 1 <= n PROVE f[k + 1] \subseteq C
        OBVIOUS
      <3> QED
        BY <1>4, <1>5, <2>2
    <2>3. n \in T
      <3> HIDE DEF T
      <3> QED
        BY <2>1, <2>2, InductiveSet
    <2> QED
      BY <2>3
  <1>6. ext[f[n]] \subseteq f[n]
    <2> DEFINE T == { k \in Nat : k <= n => ext[f[k]] \subseteq f[k] \/ Cardinality(f[k]) >= k }
    <2>1. \A X \in SUBSET U : IsFiniteSet(X) /\ Cardinality(X) \in Nat
      BY FS_Subset, FS_CardinalityType
    <2>2. 0 \in T
      BY <2>1
    <2>3. ASSUME NEW k \in Nat, k \in T
          PROVE  k + 1 \in T
      <3> SUFFICES ASSUME k + 1 <= n
                   PROVE  \/ ext[f[k + 1]] \subseteq f[k + 1]
                          \/ Cardinality(f[k + 1]) >= k + 1
        OBVIOUS
      <3>1. /\ f[k + 1] = f[k] \cup ext[f[k]] /\ f[k] \in SUBSET U
            /\ f[k + 1] \in SUBSET U
        BY <1>3, <1>4
      <3>3. CASE f[k + 1] = f[k]
        BY <3>1, <3>3
      <3>4. CASE f[k + 1] # f[k]
        BY <3>1, <3>4, <2>3, <2>1, FS_Subset
      <3> QED
        BY <3>3, <3>4
    <2>4. ext[f[n]] \subseteq f[n] \/ Cardinality(f[n]) >= n
      <3>1. n \in T
        <4> HIDE DEF T
        <4> QED
          BY <2>2, <2>3, InductiveSet
      <3> QED
        BY <3>1
    <2>5. CASE Cardinality(f[n]) >= n
      <3>1. f[n] \in SUBSET U
        BY <1>3
      <3>2. f[n] = U
        <4> SUFFICES ASSUME f[n] # U PROVE FALSE
          OBVIOUS
        <4> QED
          BY <2>5, <3>1, FS_Subset, <2>1
      <3> QED
        BY <3>2, <3>1
    <2> QED
      BY <2>4, <2>5
  <1> QED
    BY <1>5, <1>6, <1>3
-----------------------------------------------------------------------------
(* Graphs.                                                                 *)
IsGraph(g) ==
    /\ IsFiniteSet(DOMAIN g)
    /\ \A b \in DOMAIN g : Targets(g, b) \subseteq DOMAIN g

(* ReachableFrom is the least set with the start that the arcs do not      *)
(* leave.                                                                  *)
LEMMA ReachableIsClosed ==
    ASSUME NEW g, NEW start \in DOMAIN g, IsGraph(g)
    PROVE  /\ ReachableFrom(g, start) \subseteq DOMAIN g
           /\ start \in ReachableFrom(g, start)
           /\ \A b \in ReachableFrom(g, start) : Targets(g, b) \subseteq ReachableFrom(g, start)
           /\ \A C : /\ start \in C
                     /\ \A b \in DOMAIN g : b \in C => Targets(g, b) \subseteq C
                     => ReachableFrom(g, start) \subseteq C
  <1> DEFINE U == DOMAIN g
             len == Cardinality(Blocks(g))
             Next1(X) == UNION { Targets(g, b) : b \in X }
             ext == [ X \in SUBSET U |-> Next1(X) ]
             Steps(f) == [ k \in 0 .. len |->
                             IF k = 0 THEN {start}
                             ELSE LET before == f[k - 1]
                                  IN  before \cup UNION { Targets(g, b) : b \in before } ]
             F == CHOOSE f : f = Steps(f)
  <1>1. ReachableFrom(g, start) = F[len]
    BY DEF ReachableFrom
  <1>2. len \in Nat /\ IsFiniteSet(U) /\ Cardinality(U) <= len
    BY FS_CardinalityType DEF IsGraph, Blocks
  <1>4. \A X \in SUBSET U : Next1(X) \in SUBSET U
    BY DEF IsGraph
  <1>5. ext \in [SUBSET U -> SUBSET U]
    <2> HIDE DEF U, Next1
    <2> QED
      BY <1>4
  <1>6. Rounds(U, {start}, ext, len)
    <2>1. {start} \in SUBSET U
      OBVIOUS
    <2> HIDE DEF U, ext, len
    <2> QED
      BY <1>2, <1>5, <2>1 DEF Rounds
  <1>7. F = Steps(F)
    <2>1. PICK f \in [0 .. len -> SUBSET U] :
              f[0] = {start} /\ \A k \in 1 .. len : f[k] = f[k - 1] \cup ext[f[k - 1]]
      <3> DEFINE b0 == {start}
      <3>1. Rounds(U, b0, ext, len)
        BY <1>6
      <3> HIDE DEF U, ext, len, b0
      <3>2. \E f \in [0 .. len -> SUBSET U] :
                f[0] = b0 /\ \A k \in 1 .. len : f[k] = f[k - 1] \cup ext[f[k - 1]]
        BY <3>1, RoundsExist
      <3> QED
        BY <3>2 DEF b0
    <2>2. ASSUME NEW k \in 0 .. len
          PROVE  f[k] = IF k = 0 THEN {start} ELSE f[k - 1] \cup Next1(f[k - 1])
      <3> HIDE DEF U, len, Next1
      <3>1. CASE k = 0
        BY <2>1, <3>1
      <3>2. CASE k # 0
        <4>1. k \in 1 .. len /\ k - 1 \in 0 .. len
          BY <1>2, <3>2
        <4> QED
          BY <3>2, <4>1, <2>1
      <3> QED
        BY <3>1, <3>2
    <2>3. f = [ k \in 0 .. len |-> f[k] ]
      <3> HIDE DEF U, len
      <3> QED
        OBVIOUS
    <2>4. [ k \in 0 .. len |-> f[k] ]
              = [ k \in 0 .. len |-> IF k = 0 THEN {start} ELSE f[k - 1] \cup Next1(f[k - 1]) ]
      <3> HIDE DEF U, len, Next1
      <3> QED
        BY <2>2
    <2> HIDE DEF Steps
    <2> QED
      BY <2>3, <2>4
  <1> HIDE DEF F
  <1>8. F = [ k \in 0 .. len |-> IF k = 0 THEN {start} ELSE F[k - 1] \cup Next1(F[k - 1]) ]
    BY <1>7
  <1> HIDE DEF Steps, len, Next1
  <1>9. F[0] = {start}
    BY <1>2, <1>8
  <1>10. ASSUME NEW k \in 1 .. len, F[k - 1] \in SUBSET U
         PROVE  F[k] = F[k - 1] \cup ext[F[k - 1]]
    <2>1. k \in 0 .. len /\ k # 0
      BY <1>2
    <2> HIDE DEF U
    <2> QED
      BY <1>10, <1>8, <2>1
  <1>11. /\ F[len] \in SUBSET U /\ {start} \subseteq F[len] /\ ext[F[len]] \subseteq F[len]
         /\ \A C : {start} \subseteq C /\ (\A X \in SUBSET U : X \subseteq C => ext[X] \subseteq C)
                   => F[len] \subseteq C
    <2> HIDE DEF U, ext
    <2>1. RoundsTaken(U, {start}, ext, len, F)
      BY <1>9, <1>10 DEF RoundsTaken
    <2> QED
      BY <1>6, <2>1, ClosureByRounds
  <1>12. \A b \in F[len] : Targets(g, b) \subseteq F[len]
    BY <1>11 DEF Next1
  <1>13. ASSUME NEW C, start \in C, \A b \in DOMAIN g : b \in C => Targets(g, b) \subseteq C
         PROVE  F[len] \subseteq C
    <2>1. ASSUME NEW X \in SUBSET U, X \subseteq C
          PROVE  ext[X] \subseteq C
      BY <1>13, <2>1 DEF Next1
    <2> HIDE DEF ext, U
    <2> QED
      BY <1>11, <1>13, <2>1
  <1> QED
    BY <1>1, <1>11, <1>12, <1>13
-----------------------------------------------------------------------------
(* Dominance.                                                              *)
LEMMA DominatedByFacts ==
    ASSUME NEW succ, NEW start \in DOMAIN succ, IsGraph(succ),
           NEW d \in ReachableFrom(succ, start), d # start
    PROVE  LET R == ReachableFrom(succ, start)
               D == DominatedBy(succ, start, d)
           IN  /\ D \subseteq R /\ d \in D /\ start \notin D
               /\ \A b \in R : b \notin D => \A c \in Targets(succ, b) : c # d => c \notin D
               /\ \A C : /\ start \in C
                         /\ \A b \in R : b \in C => \A c \in Targets(succ, b) : c # d => c \in C
                         => R \subseteq C \cup D
  <1> DEFINE R == ReachableFrom(succ, start)
             D == DominatedBy(succ, start, d)
             W == [ v \in Blocks(succ) |->
                      [ i \in { j \in DOMAIN succ[v] : succ[v][j] # d } |-> succ[v][i] ] ]
             A == ReachableFrom(W, start)
  <1>1. D = R \ A
    BY DEF DominatedBy
  <1>2. DOMAIN W = DOMAIN succ /\ \A b \in DOMAIN succ : Targets(W, b) = Targets(succ, b) \ {d}
    BY DEF Targets, Blocks
  <1> HIDE DEF W
  <1>3. IsGraph(W) /\ start \in DOMAIN W
    BY <1>2 DEF IsGraph
  <1>4. /\ A \subseteq DOMAIN succ /\ start \in A
        /\ \A b \in A : Targets(succ, b) \ {d} \subseteq A
        /\ \A C : /\ start \in C
                  /\ \A b \in DOMAIN succ : b \in C => Targets(succ, b) \ {d} \subseteq C
                  => A \subseteq C
    <2>1. /\ A \subseteq DOMAIN W /\ start \in A
          /\ \A b \in A : Targets(W, b) \subseteq A
          /\ \A C : /\ start \in C
                    /\ \A b \in DOMAIN W : b \in C => Targets(W, b) \subseteq C
                    => A \subseteq C
      BY <1>3, ReachableIsClosed
    <2> HIDE DEF A
    <2> QED
      BY <1>2, <2>1
  <1>5. R \subseteq DOMAIN succ /\ start \in R /\ \A b \in R : Targets(succ, b) \subseteq R
    BY ReachableIsClosed
  <1> HIDE DEF A, R, D
  <1>6. d \notin A
    <2> DEFINE C == DOMAIN succ \ {d}
    <2>1. start \in C
      OBVIOUS
    <2>2. \A b \in DOMAIN succ : b \in C => Targets(succ, b) \ {d} \subseteq C
      BY DEF IsGraph
    <2>3. A \subseteq C
      <3> HIDE DEF C
      <3> QED
        BY <1>4, <2>1, <2>2
    <2> QED
      BY <2>3
  <1>7. ASSUME NEW C, start \in C,
               \A b \in R : b \in C => \A c \in Targets(succ, b) : c # d => c \in C
        PROVE  A \subseteq C
    <2> DEFINE K == C \cap R
    <2>1. start \in K
      BY <1>5, <1>7
    <2>2. \A b \in DOMAIN succ : b \in K => Targets(succ, b) \ {d} \subseteq K
      BY <1>5, <1>7
    <2>3. A \subseteq K
      <3> HIDE DEF K
      <3> QED
        BY <1>4, <2>1, <2>2
    <2> QED
      BY <2>3
  <1>10. ASSUME NEW C, start \in C,
                \A b \in R : b \in C => \A c \in Targets(succ, b) : c # d => c \in C
         PROVE  R \subseteq C \cup D
    BY <1>1, <1>7, <1>10
  <1> QED
    BY <1>1, <1>4, <1>10, <1>6 DEF R, D

(* What dominance is as a relation: an order in which the dominators of a  *)
(* block are comparable, and which holds over the predecessors.            *)
DominanceOrder(succ, start) ==
    LET R == ReachableFrom(succ, start)
    IN  /\ \A d \in R : DominatedBy(succ, start, d) \subseteq R /\ d \in DominatedBy(succ, start, d)
        /\ DominatedBy(succ, start, start) = R
        /\ \A d, e, b \in R :
               e \in DominatedBy(succ, start, d) /\ b \in DominatedBy(succ, start, e)
               => b \in DominatedBy(succ, start, d)
        /\ \A d, e \in R :
               e \in DominatedBy(succ, start, d) /\ d \in DominatedBy(succ, start, e) => d = e
        /\ \A d, e, b \in R :
               b \in DominatedBy(succ, start, d) /\ b \in DominatedBy(succ, start, e)
               => e \in DominatedBy(succ, start, d) \/ d \in DominatedBy(succ, start, e)
        /\ \A d, p, b \in R :
               b \in DominatedBy(succ, start, d) /\ b # d /\ b \in Targets(succ, p)
               => p \in DominatedBy(succ, start, d)

(* Dominance is a partial order on the blocks in reach.                    *)
LEMMA DominanceIsAnOrder ==
    ASSUME NEW succ, NEW start \in DOMAIN succ, IsGraph(succ)
    PROVE  DominanceOrder(succ, start)
  <1> DEFINE R == ReachableFrom(succ, start)
             D(d) == DominatedBy(succ, start, d)
  <1>1. start \in R /\ \A b \in R : Targets(succ, b) \subseteq R
    BY ReachableIsClosed
  <1>2. D(start) = R
    BY <1>1 DEF DominatedBy
  <1>3. ASSUME NEW d \in R, d # start
        PROVE  /\ D(d) \subseteq R /\ d \in D(d) /\ start \notin D(d)
               /\ \A b \in R : b \notin D(d) => \A c \in Targets(succ, b) : c # d => c \notin D(d)
               /\ \A C : /\ start \in C
                         /\ \A b \in R : b \in C => \A c \in Targets(succ, b) : c # d => c \in C
                         => R \subseteq C \cup D(d)
    BY <1>3, DominatedByFacts
  <1>0. ASSUME NEW C, start \in C, \A b \in R : b \in C => Targets(succ, b) \subseteq C
        PROVE  R \subseteq C
    <2> DEFINE K == C \cap R
    <2>1. start \in K
      BY <1>0, <1>1
    <2>2. \A b \in DOMAIN succ : b \in K => Targets(succ, b) \subseteq K
      BY <1>0, <1>1
    <2>3. R \subseteq K
      <3> HIDE DEF K
      <3> QED
        BY <2>1, <2>2, ReachableIsClosed
    <2> QED
      BY <2>3
  <1> HIDE DEF R, D
  <1>4. \A d \in R : D(d) \subseteq R /\ d \in D(d)
    BY <1>1, <1>2, <1>3
  <1>5. ASSUME NEW d \in R, NEW e \in R, NEW b \in R, e \in D(d), b \in D(e)
        PROVE  b \in D(d)
    <2> SUFFICES ASSUME b \notin D(d) PROVE FALSE
      OBVIOUS
    <2>1. d # start /\ e # start
      BY <1>2, <1>3, <1>5
    <2> DEFINE C == { x \in R : x \notin D(d) /\ x \notin D(e) }
    <2>2. start \in C
      BY <1>1, <1>3, <2>1
    <2>3. \A x \in R : x \in C => \A c \in Targets(succ, x) : c # d => c \in C
      BY <1>1, <1>3, <1>5, <2>1
    <2>4. R \subseteq C \cup D(d)
      <3> HIDE DEF C
      <3> QED
        BY <1>3, <2>1, <2>2, <2>3
    <2> QED
      BY <1>5, <2>4
  <1>6. ASSUME NEW d \in R, NEW e \in R, e \in D(d), d \in D(e)
        PROVE  d = e
    <2> SUFFICES ASSUME d # e PROVE FALSE
      OBVIOUS
    <2>1. d # start /\ e # start
      BY <1>3, <1>6
    <2> DEFINE C == { x \in R : x \notin D(d) /\ x \notin D(e) }
    <2>2. start \in C
      BY <1>1, <1>3, <2>1
    <2>3. \A x \in R : x \in C => Targets(succ, x) \subseteq C
      BY <1>1, <1>3, <1>6, <2>1
    <2>4. R \subseteq C
      <3> HIDE DEF C
      <3> QED
        BY <1>0, <2>2, <2>3
    <2> QED
      BY <1>6, <2>4
  <1>7. ASSUME NEW d \in R, NEW e \in R, NEW b \in R, b \in D(d), b \in D(e),
               e \notin D(d), d \notin D(e)
        PROVE  FALSE
    <2>1. d # start /\ e # start
      BY <1>2, <1>7
    <2> DEFINE C == { x \in R : x \notin D(d) \/ x \notin D(e) }
    <2>2. start \in C
      BY <1>1, <1>3, <2>1
    <2>3. \A x \in R : x \in C => Targets(succ, x) \subseteq C
      BY <1>1, <1>3, <1>7, <2>1
    <2>4. R \subseteq C
      <3> HIDE DEF C
      <3> QED
        BY <1>0, <2>2, <2>3
    <2> QED
      BY <1>7, <2>4
  <1>8. ASSUME NEW d \in R, NEW p \in R, NEW b \in R,
               b \in D(d), b # d, b \in Targets(succ, p)
        PROVE  p \in D(d)
    BY ONLY <1>2, <1>3, <1>8
  <1> QED
    BY <1>2, <1>4, <1>5, <1>6, <1>7, <1>8 DEF R, D, DominanceOrder

(* The immediate dominator of a block: one block has it as a child in the  *)
(* tree, it strictly dominates the block, and the others that do dominate  *)
(* it.                                                                     *)
LEMMA ChildrenFacts ==
    ASSUME NEW succ, NEW start \in DOMAIN succ, IsGraph(succ)
    PROVE  LET R == ReachableFrom(succ, start)
           IN  /\ \A d \in R : \A b \in TreeChildren(succ, start, d) :
                      /\ b \in DominatedBy(succ, start, d) /\ b # d /\ b \in R
                      /\ \A e \in R : b \in DominatedBy(succ, start, e) /\ b # e
                                      => d \in DominatedBy(succ, start, e)
               /\ \A d, e \in R : \A b \in TreeChildren(succ, start, d) :
                      b \in TreeChildren(succ, start, e) => d = e
               /\ \A b \in R : b # start => \E d \in R : b \in TreeChildren(succ, start, d)
               /\ \A d \in DOMAIN succ \ R : TreeChildren(succ, start, d) = {}
  <1> DEFINE R == ReachableFrom(succ, start)
             D(d) == DominatedBy(succ, start, d)
             T(d) == TreeChildren(succ, start, d)
  <1>1. start \in R /\ R \subseteq DOMAIN succ
    BY ReachableIsClosed
  <1>2. /\ \A d \in R : D(d) \subseteq R /\ d \in D(d)
        /\ D(start) = R
        /\ \A d, e, b \in R : e \in D(d) /\ b \in D(e) => b \in D(d)
        /\ \A d, e \in R : e \in D(d) /\ d \in D(e) => d = e
        /\ \A d, e, b \in R : b \in D(d) /\ b \in D(e) => e \in D(d) \/ d \in D(e)
    BY DominanceIsAnOrder DEF DominanceOrder
  <1>3. \A d \in R : T(d) = { b \in D(d) : b # d /\ \A e \in D(d) : e # d => ~(b \in D(e) /\ b # e) }
    BY DEF TreeChildren
  <1>5. IsFiniteSet(R)
    BY <1>1, FS_Subset DEF IsGraph
  <1> HIDE DEF R, D, T
  <1>6. ASSUME NEW d \in R, NEW b \in T(d)
        PROVE  /\ b \in D(d) /\ b # d /\ b \in R
               /\ \A e \in R : b \in D(e) /\ b # e => d \in D(e)
    BY <1>2, <1>3
  <1>7. ASSUME NEW d \in R, NEW e \in R, NEW b \in T(d), b \in T(e)
        PROVE  d = e
    BY <1>2, <1>6, <1>7
  <1>8. ASSUME NEW b \in R, b # start
        PROVE  \E d \in R : b \in T(d)
    <2> DEFINE S == { d \in R : b \in D(d) /\ b # d }
               N == { Cardinality(D(d)) : d \in S }
    <2>1. \A d \in R : IsFiniteSet(D(d)) /\ Cardinality(D(d)) \in Nat
      BY <1>2, <1>5, FS_Subset, FS_CardinalityType
    <2>3. N \subseteq Nat /\ N # {}
      BY <2>1, <1>1, <1>2, <1>8
    <2>4. PICK m \in N : \A k \in N : m <= k
      <3> HIDE DEF N
      <3> QED
        BY <2>3, LeastNatural
    <2>5. PICK d \in S : m = Cardinality(D(d))
      BY <2>4
    <2>6. ASSUME NEW e \in D(d), e # d, b \in D(e), b # e
          PROVE  FALSE
      BY <1>2, <2>5, <2>6, <2>1, FS_Subset, <2>4
    <2> QED
      BY <2>5, <1>3, <2>6
  <1> QED
    BY <1>6, <1>7, <1>8 DEF R, D, T, DominatedBy, TreeChildren

(* A finite set listed in a strict total order.                            *)
Lists(s, S) ==
    /\ s \in Seq(S)
    /\ \A e \in S : \E i \in 1 .. Len(s) : s[i] = e
    /\ \A i, j \in 1 .. Len(s) : s[i] = s[j] => i = j

(* s has at place k a member with k - 1 members before it.                 *)
ListedBy(R, S, s) ==
    /\ s = [ k \in 1 .. Cardinality(S) |-> s[k] ]
    /\ \A k \in 1 .. Cardinality(S) :
           (\E e \in S : Cardinality(Before(R, S, e)) = k - 1)
           => s[k] \in S /\ Cardinality(Before(R, S, s[k])) = k - 1

(* A list without repetition has as many members as its set.               *)
LEMMA ListedByFacts ==
    ASSUME NEW S, IsFiniteSet(S), NEW R, StrictlyOrders(R, S), NEW s, ListedBy(R, S, s)
    PROVE  Lists(s, S) /\ Len(s) = Cardinality(S)
  <1> DEFINE n == Cardinality(S)
             place(e) == Cardinality(Before(R, S, e))
  <1>1. n \in Nat
    BY FS_CardinalityType
  <1>2. /\ \A e \in S : place(e) \in 0 .. n - 1
        /\ \A e, f \in S : place(e) = place(f) => e = f
        /\ \A k \in 1 .. n : \E e \in S : place(e) = k - 1
    BY PlacesAreExact
  <1>3. /\ s = [ k \in 1 .. n |-> s[k] ]
        /\ \A k \in 1 .. n : (\E e \in S : place(e) = k - 1) => s[k] \in S /\ place(s[k]) = k - 1
    BY DEF ListedBy
  <1> HIDE DEF n, place
  <1>4. \A k \in 1 .. n : s[k] \in S /\ place(s[k]) = k - 1
    BY <1>2, <1>3
  <1>8. ASSUME NEW e \in S
        PROVE  \E i \in 1 .. n : s[i] = e
    <2> DEFINE i == place(e) + 1
    <2>1. i \in 1 .. n /\ i - 1 = place(e)
      BY <1>1, <1>2
    <2> HIDE DEF i
    <2> QED
      BY <2>1, <1>2, <1>4
  <1> QED
    BY <1>1, <1>3, <1>4, <1>8 DEF n, Lists

(* Numbers in increasing order. *)
Ascending(S) == InOrder(S, LAMBDA c, d : c < d)

(* Ascending lists a finite set of numbers once each.                      *)
LEMMA AscendingLists ==
    ASSUME NEW S, IsFiniteSet(S), S \subseteq Nat
    PROVE  Lists(Ascending(S), S)
  <1> DEFINE R == { e \in S \X S : e[1] < e[2] }
  <1>1. StrictlyOrders(R, S)
    <2>1. \A e, f \in S : <<e, f>> \in R <=> e < f
      OBVIOUS
    <2> HIDE DEF R
    <2> QED
      BY <2>1 DEF StrictlyOrders
  <1> DEFINE place(e) == Cardinality({ f \in S : f < e })
             s == Ascending(S)
             n == Cardinality(S)
  <1>2. \A e \in S : place(e) = Cardinality(Before(R, S, e))
    BY DEF Before
  <1>3. s = [ k \in 1 .. n |-> CHOOSE e \in S : place(e) = k - 1 ]
    BY DEF Ascending, InOrder
  <1> HIDE DEF s, place, R, n
  <1>4. ASSUME NEW k \in 1 .. n, \E e \in S : Cardinality(Before(R, S, e)) = k - 1
        PROVE  s[k] \in S /\ Cardinality(Before(R, S, s[k])) = k - 1
    BY <1>3, <1>2, <1>4
  <1> QED
    BY <1>1, <1>3, <1>4, ListedByFacts DEF s, ListedBy, n

(* The elements of two sequences put together. *)
Joined(S, c, q, m, t, n) ==
    /\ c \in Seq(S) /\ Len(c) = m + n
    /\ \A i \in 1 .. m : i \in 1 .. Len(c) /\ c[i] = q[i]
    /\ \A i \in 1 .. n : m + i \in 1 .. Len(c) /\ c[m + i] = t[i]
    /\ \A j \in 1 .. Len(c) : j \in 1 .. m \/ \E i \in 1 .. n : j = m + i

(* A concatenation, by the places of its members.                          *)
LEMMA ConcatFacts ==
    ASSUME NEW S, NEW q \in Seq(S), NEW t \in Seq(S), NEW c, c = q \o t,
           NEW m, m = Len(q), NEW n, n = Len(t)
    PROVE  Joined(S, c, q, m, t, n)
  <1>1. m \in Nat /\ n \in Nat
    OBVIOUS
  <1>3. \A i \in 1 .. m + n : c[i] = IF i <= m THEN q[i] ELSE t[i - m]
    OBVIOUS
  <1>4. ASSUME NEW i \in 1 .. m
        PROVE  i \in 1 .. m + n /\ c[i] = q[i]
    BY <1>1, <1>3
  <1>5. ASSUME NEW i \in 1 .. n
        PROVE  m + i \in 1 .. m + n /\ c[m + i] = t[i]
    BY <1>1, <1>3
  <1>6. ASSUME NEW j \in 1 .. m + n, j \notin 1 .. m
        PROVE  \E i \in 1 .. n : j = m + i
    <2>1. j - m \in 1 .. n /\ j = m + (j - m)
      BY <1>1, <1>6
    <2> QED
      BY <2>1
  <1> QED
    BY <1>4, <1>5, <1>6 DEF Joined
-----------------------------------------------------------------------------
(* The order of the renaming.                                              *)
WalkStep(succ, start, before) ==
    LET b == Head(before.pending)
    IN  IF before.pending = << >> THEN before
        ELSE [ order   |-> Append(before.order, b),
               pending |-> Ascending(TreeChildren(succ, start, b))
                           \o Tail(before.pending) ]

(* The rounds of the walk. *)
LEMMA WalkUnfolds ==
    ASSUME NEW succ, NEW start, IsFiniteSet(Blocks(succ))
    PROVE  /\ PreorderWalk(succ, start)[0] = [order |-> << >>, pending |-> <<start>>]
           /\ \A k \in 1 .. Cardinality(Blocks(succ)) : PreorderWalk(succ, start)[k] = WalkStep(succ, start, PreorderWalk(succ, start)[k - 1])
  <1> DEFINE n == Cardinality(Blocks(succ))
             init == [order |-> << >>, pending |-> <<start>>]
             Step(before, k) == WalkStep(succ, start, before)
             Steps(g) == [ k \in 0 .. n |-> 
                 IF k = 0 THEN [order |-> << >>, pending |-> <<start>>]
                 ELSE LET before == g[k - 1]
                          b      == Head(before.pending)
                      IN  IF before.pending = << >> THEN before
                          ELSE [ order   |-> Append(before.order, b),
                                 pending |-> InOrder(TreeChildren(succ, start, b), LAMBDA c, d : c < d)
                                             \o Tail(before.pending) ] ]
             F == CHOOSE g : g = Steps(g)
             Good(m, g) == g = [ k \in 0 .. m |-> IF k = 0 THEN init ELSE Step(g[k - 1], k) ]
             S == { m \in Nat : \E g : Good(m, g) }
  <1>1. PreorderWalk(succ, start) = F
    BY DEF PreorderWalk
  <1>2. n \in Nat
    BY FS_CardinalityType
  <1>3. \A g : Steps(g) = [ k \in 0 .. n |-> IF k = 0 THEN init ELSE Step(g[k - 1], k) ]
    BY DEF WalkStep, Ascending
  <1> HIDE DEF F
  <1>4. (\E g : g = Steps(g)) => F = Steps(F)
    <2> HIDE DEF Steps
    <2> QED
      BY DEF F
  <1> HIDE DEF Steps, Step, init, n
  <1>5. 0 \in S
    <2> DEFINE g == [ k \in 0 .. 0 |-> init ]
    <2>1. g = [ k \in 0 .. 0 |-> IF k = 0 THEN init ELSE Step(g[k - 1], k) ]
      OBVIOUS
    <2> HIDE DEF g
    <2> QED
      BY <2>1
  <1>6. ASSUME NEW m \in Nat, m \in S
        PROVE  m + 1 \in S
    <2>1. PICK g : Good(m, g)
      BY <1>6
    <2> DEFINE h == [ k \in 0 .. m + 1 |-> IF k = m + 1 THEN Step(g[m], m + 1) ELSE g[k] ]
    <2>2. ASSUME NEW k \in 0 .. m + 1
          PROVE  h[k] = IF k = 0 THEN init ELSE Step(h[k - 1], k)
      BY <2>1
    <2>3. h = [ k \in 0 .. m + 1 |-> h[k] ]
      OBVIOUS
    <2> HIDE DEF h
    <2>4. Good(m + 1, h)
      BY <2>2, <2>3
    <2> QED
      BY <2>4
  <1>7. n \in S
    <2> HIDE DEF S
    <2> QED
      BY <1>2, <1>5, <1>6, InductiveSet
  <1>9. F = [ k \in 0 .. n |-> IF k = 0 THEN init ELSE Step(F[k - 1], k) ]
    BY <1>3, <1>4, <1>7
  <1> QED
    BY <1>1, <1>2, <1>9 DEF init, n, Step

(* A block that another one strictly dominates is dominated by one of its  *)
(* children, and by no other.                                              *)
LEMMA ChildAbove ==
    ASSUME NEW succ, NEW start \in DOMAIN succ, IsGraph(succ),
           NEW b \in ReachableFrom(succ, start), NEW x \in DominatedBy(succ, start, b), x # b
    PROVE  \E c \in TreeChildren(succ, start, b) : x \in DominatedBy(succ, start, c)
  <1> DEFINE R == ReachableFrom(succ, start)
             D(d) == DominatedBy(succ, start, d)
             T(d) == TreeChildren(succ, start, d)
             S == { c \in R : c \in D(b) /\ c # b /\ x \in D(c) }
             N == { Cardinality(D(c)) : c \in S }
  <1>1. R \subseteq DOMAIN succ /\ IsFiniteSet(R)
    BY ReachableIsClosed, FS_Subset DEF IsGraph
  <1>2. /\ \A d \in R : D(d) \subseteq R /\ d \in D(d)
        /\ \A d, e, c \in R : e \in D(d) /\ c \in D(e) => c \in D(d)
        /\ \A d, e \in R : e \in D(d) /\ d \in D(e) => d = e
    BY DominanceIsAnOrder DEF DominanceOrder
  <1>4. b \in R /\ x \in D(b)
    OBVIOUS
  <1>6. \A c \in R : Cardinality(D(c)) \in 0 .. Cardinality(R)
    BY <1>1, <1>2, FS_Subset, FS_CardinalityType
  <1>7. Cardinality(R) \in Nat
    BY <1>1, FS_CardinalityType
  <1>8. N \subseteq 0 .. Cardinality(R) /\ N # {}
    BY <1>2, <1>4, <1>6
  <1>9. PICK m \in N : \A k \in N : k <= m
    <2> HIDE DEF N
    <2> QED
      BY <1>7, <1>8, GreatestBelow
  <1>10. PICK c \in S : m = Cardinality(D(c))
    BY <1>9
  <1>11. c \in R /\ c \in D(b) /\ c # b /\ x \in D(c)
    BY <1>10
  <1> HIDE DEF R, D, T
  <1>12. ASSUME NEW e \in D(b), e # b, c \in D(e), c # e
         PROVE  FALSE
    <2>1. e \in R
      BY <1>2, <1>4, <1>12
    <2>2. D(c) \subseteq D(e) /\ e \notin D(c) /\ e \in D(e) /\ D(c) \subseteq R /\ D(e) \subseteq R
      BY <1>2, <1>11, <1>12, <2>1
    <2>6. Cardinality(D(e)) <= Cardinality(D(c))
      BY <1>9, <1>10, <1>11, <1>12, <2>1, <2>2
    <2> QED
      BY <1>1, <2>2, FS_Subset, <1>6, <1>7, <1>11, <2>1, <2>6
  <1> QED
    BY <1>11, <1>4, <1>12 DEF D, T, TreeChildren

(* Two children of a block in the dominator tree dominate no block in      *)
(* common.                                                                 *)
LEMMA ChildrenAreApart ==
    ASSUME NEW succ, NEW start \in DOMAIN succ, IsGraph(succ),
           NEW b \in ReachableFrom(succ, start),
           NEW c \in TreeChildren(succ, start, b), NEW d \in TreeChildren(succ, start, b), c # d,
           NEW x \in DominatedBy(succ, start, c)
    PROVE  x \notin DominatedBy(succ, start, d)
  <1> DEFINE R == ReachableFrom(succ, start)
             D(e) == DominatedBy(succ, start, e)
  <1>1. /\ \A e \in R : D(e) \subseteq R /\ e \in D(e)
        /\ \A e, f \in R : f \in D(e) /\ e \in D(f) => e = f
        /\ \A e, f, y \in R : y \in D(e) /\ y \in D(f) => f \in D(e) \/ e \in D(f)
    BY DominanceIsAnOrder DEF DominanceOrder
  <1>2. \A e \in {c, d} : e \in D(b) /\ e # b /\ e \in R
                          /\ \A f \in R : e \in D(f) /\ e # f => b \in D(f)
    BY ChildrenFacts
  <1>3. b \in R /\ x \in D(c)
    OBVIOUS
  <1> HIDE DEF R, D
  <1>5. x \notin D(d)
    BY <1>1, <1>2, <1>3
  <1> QED
    BY <1>5 DEF D

(* After k rounds of the walk: every block in reach is entered, or is      *)
(* dominated by one pending block; a block is pending or entered after its *)
(* immediate dominator.                                                    *)
WalkInvariant(succ, start, w, k) ==
    LET R    == ReachableFrom(succ, start)
        o    == w.order
        p    == w.pending
        D(d) == DominatedBy(succ, start, d)
        T(d) == TreeChildren(succ, start, d)
    IN  /\ o \in Seq(R) /\ p \in Seq(R)
        /\ \A i, j \in 1 .. Len(o) : o[i] = o[j] => i = j
        /\ \A i, j \in 1 .. Len(p) : i # j => D(p[i]) \cap D(p[j]) = {}
        /\ \A i \in 1 .. Len(o) : \A j \in 1 .. Len(p) : o[i] \notin D(p[j])
        /\ \A b \in R : (\E i \in 1 .. Len(o) : o[i] = b) \/ (\E j \in 1 .. Len(p) : b \in D(p[j]))
        /\ \A j \in 1 .. Len(p) : p[j] = start \/ \E i \in 1 .. Len(o) : p[j] \in T(o[i])
        /\ \A i \in 1 .. Len(o) : o[i] = start \/ \E j \in 1 .. i - 1 : o[i] \in T(o[j])
        /\ Len(o) = k \/ p = << >>

(* One step of the preorder walk keeps what the walk has visited apart     *)
(* from what it is still to visit.                                         *)
LEMMA WalkStepKeeps ==
    ASSUME NEW succ, NEW start \in DOMAIN succ, IsGraph(succ), DOMAIN succ \subseteq Nat,
           NEW k \in Nat, NEW w, WalkInvariant(succ, start, w, k)
    PROVE  WalkInvariant(succ, start, WalkStep(succ, start, w), k + 1)
  <1> DEFINE R    == ReachableFrom(succ, start)
             D(d) == DominatedBy(succ, start, d)
             T(d) == TreeChildren(succ, start, d)
  <1> PICK o, p : o = w.order /\ p = w.pending
    OBVIOUS
  <1> PICK n, m : n = Len(o) /\ m = Len(p)
    OBVIOUS
  <1>1. /\ o \in Seq(R) /\ p \in Seq(R)
        /\ \A i, j \in 1 .. n : o[i] = o[j] => i = j
        /\ \A i, j \in 1 .. m : i # j => D(p[i]) \cap D(p[j]) = {}
        /\ \A i \in 1 .. n : \A j \in 1 .. m : o[i] \notin D(p[j])
        /\ \A b \in R : (\E i \in 1 .. n : o[i] = b) \/ (\E j \in 1 .. m : b \in D(p[j]))
        /\ \A j \in 1 .. m : p[j] = start \/ \E i \in 1 .. n : p[j] \in T(o[i])
        /\ \A i \in 1 .. n : o[i] = start \/ \E j \in 1 .. i - 1 : o[i] \in T(o[j])
        /\ n = k \/ p = << >>
    BY DEF WalkInvariant
  <1>2. CASE p = << >>
    <2>1. WalkStep(succ, start, w) = w
      BY <1>2 DEF WalkStep
    <2> QED
      BY <1>2, <2>1 DEF WalkInvariant
  <1>3. CASE p # << >>
    <2> PICK b : b = Head(p)
      OBVIOUS
    <2> PICK q : q = Ascending(TreeChildren(succ, start, b))
      OBVIOUS
    <2> PICK t : t = Tail(p)
      OBVIOUS
    <2> PICK w2 : w2 = WalkStep(succ, start, w)
      OBVIOUS
    <2> DEFINE o2 == Append(o, b)
               p2 == q \o t
    <2>1. w2.order = o2 /\ w2.pending = p2
      BY <1>3 DEF WalkStep
    <2>2. /\ n \in Nat /\ m \in Nat /\ m >= 1 /\ b = p[1] /\ b \in R
          /\ t \in Seq(R) /\ Len(t) = m - 1 /\ \A j \in 1 .. m - 1 : t[j] = p[j + 1]
      BY <1>1, <1>3
    <2>3. n = k
      BY <1>1, <1>3
    <2>4. R \subseteq DOMAIN succ /\ T(b) \subseteq R /\ IsFiniteSet(T(b)) /\ T(b) \subseteq Nat
      <3>1. R \subseteq DOMAIN succ
        BY ReachableIsClosed
      <3>2. T(b) \subseteq R
        BY <2>2, ChildrenFacts
      <3>3. IsFiniteSet(T(b)) /\ T(b) \subseteq Nat
        <4> HIDE DEF R, T
        <4> QED
          BY <3>1, <3>2, FS_Subset DEF IsGraph
      <3> QED
        BY <3>1, <3>2, <3>3
    <2>4a. Lists(q, T(b))
      BY <2>4, AscendingLists
    <2>5. q \in Seq(T(b)) /\ (\A c \in T(b) : \E i \in 1 .. Len(q) : q[i] = c)
          /\ \A i, j \in 1 .. Len(q) : q[i] = q[j] => i = j
      BY <2>4, <2>4a DEF Lists
    <2>6. /\ \A d \in R : D(d) \subseteq R /\ d \in D(d)
          /\ \A d, e, c \in R : e \in D(d) /\ c \in D(e) => c \in D(d)
          /\ \A d, e \in R : e \in D(d) /\ d \in D(e) => d = e
      BY DominanceIsAnOrder DEF DominanceOrder
    <2>7. \A c \in T(b) : c \in D(b) /\ c # b /\ c \in R
      BY <2>2, ChildrenFacts
    <2>8. \A c, d \in T(b) : c # d => D(c) \cap D(d) = {}
      BY <2>2, ChildrenAreApart
    <2>9. \A x \in D(b) : x # b => \E c \in T(b) : x \in D(c)
      BY <2>2, ChildAbove
    <2> PICK r : r = Len(q)
      OBVIOUS
    <2> HIDE DEF R, D, T
    <2>10. r \in Nat /\ \A i \in 1 .. r : q[i] \in T(b)
      BY <2>5
    <2>11. /\ o2 \in Seq(R) /\ Len(o2) = n + 1 /\ o2[n + 1] = b
           /\ \A i \in 1 .. n : o2[i] = o[i]
      BY <1>1, <2>2
    <2>12. q \in Seq(R)
      BY <2>4, <2>5
    <2>13. /\ p2 \in Seq(R) /\ Len(p2) = r + (m - 1)
           /\ \A j \in 1 .. r : j \in 1 .. Len(p2) /\ p2[j] = q[j]
           /\ \A j \in 1 .. m - 1 : r + j \in 1 .. Len(p2) /\ p2[r + j] = p[j + 1]
           /\ \A j \in 1 .. Len(p2) : j \in 1 .. r \/ \E i \in 1 .. m - 1 : j = r + i
      <3>1. q \in Seq(R) /\ t \in Seq(R) /\ p2 = q \o t /\ r = Len(q) /\ m - 1 = Len(t)
        BY <2>2, <2>12
      <3> HIDE DEF p2
      <3> PICK m1 : m1 = m - 1
        OBVIOUS
      <3>a. Joined(R, p2, q, r, t, m1)
        BY ONLY <3>1, m1 = m - 1, ConcatFacts
      <3>2. /\ p2 \in Seq(R) /\ Len(p2) = r + (m - 1)
            /\ \A j \in 1 .. r : j \in 1 .. Len(p2) /\ p2[j] = q[j]
            /\ \A j \in 1 .. m - 1 : r + j \in 1 .. Len(p2) /\ p2[r + j] = t[j]
            /\ \A j \in 1 .. Len(p2) : j \in 1 .. r \/ \E i \in 1 .. m - 1 : j = r + i
        BY ONLY <3>a, m1 = m - 1 DEF Joined
      <3>3. ASSUME NEW j \in 1 .. m - 1
            PROVE  r + j \in 1 .. Len(p2) /\ p2[r + j] = p[j + 1]
        <4>1. t[j] = p[j + 1]
          BY <2>2
        <4>2. r + j \in 1 .. Len(p2) /\ p2[r + j] = t[j]
          BY <3>2
        <4> QED
          BY ONLY <4>1, <4>2
      <3> QED
        BY ONLY <3>2, <3>3
    <2> HIDE DEF o2, p2
    <2>14. \A j \in 1 .. Len(p2) :
               \/ j \in 1 .. r /\ p2[j] = q[j] /\ p2[j] \in T(b)
               \/ \E i \in 1 .. m - 1 : j = r + i /\ p2[j] = p[i + 1]
      <3> SUFFICES ASSUME NEW j \in 1 .. Len(p2)
                   PROVE  \/ j \in 1 .. r /\ p2[j] = q[j] /\ p2[j] \in T(b)
                          \/ \E i \in 1 .. m - 1 : j = r + i /\ p2[j] = p[i + 1]
        OBVIOUS
      <3>a. /\ \A h \in 1 .. r : p2[h] = q[h]
            /\ \A i \in 1 .. m - 1 : p2[r + i] = p[i + 1]
            /\ j \in 1 .. r \/ \E i \in 1 .. m - 1 : j = r + i
        BY ONLY <2>13, j \in 1 .. Len(p2)
      <3>1. CASE j \in 1 .. r
        BY ONLY <2>10, <3>a, <3>1
      <3>2. CASE \E i \in 1 .. m - 1 : j = r + i
        BY ONLY <3>a, <3>2
      <3> QED
        BY ONLY <3>a, <3>1, <3>2
    <2>15. \A i \in 1 .. m : p[i] \in R
      BY <1>1
    <2>16. \A i \in 1 .. n : o[i] \in R
      BY <1>1
    <2>17. \A i \in 1 .. m - 1 : i + 1 \in 1 .. m /\ i + 1 # 1
      BY ONLY <2>2
    <2>17a. 1 \in 1 .. m
      BY <2>2
    <2>18. \A i, j \in 1 .. n + 1 : o2[i] = o2[j] => i = j
      <3>1. \A i \in 1 .. n : o[i] # b
        BY <1>1, <2>2, <2>6, <2>17a
      <3>2. \A i \in 1 .. n + 1 : i = n + 1 \/ i \in 1 .. n
        BY <2>2
      <3>3. \A i, j \in 1 .. n : o[i] = o[j] => i = j
        BY <1>1
      <3> QED
        BY ONLY <2>11, <3>1, <3>2, <3>3
    <2>19. ASSUME NEW i \in 1 .. Len(p2), NEW j \in 1 .. Len(p2), i # j
           PROVE  D(p2[i]) \cap D(p2[j]) = {}
      <3>1. \A c \in T(b) : D(c) \subseteq D(b)
        BY <2>2, <2>6, <2>7
      <3>2. \A e \in 1 .. m - 1 : D(p[e + 1]) \cap D(b) = {}
        BY ONLY <1>1, <2>2, <2>17, <2>17a
      <3>3. CASE i \in 1 .. r /\ j \in 1 .. r
        <4>0. q[i] = q[j] => i = j
          BY <2>5, <3>3
        <4>1. p2[i] # p2[j]
          BY <2>13, <2>19, <3>3, <4>0
        <4> QED
          BY <2>8, <2>10, <2>13, <3>3, <4>1
      <3>4. CASE p2[i] \in T(b) /\ \E e \in 1 .. m - 1 : p2[j] = p[e + 1]
        BY <3>1, <3>2, <3>4
      <3>5. CASE p2[j] \in T(b) /\ \E e \in 1 .. m - 1 : p2[i] = p[e + 1]
        BY <3>1, <3>2, <3>5
      <3>6. CASE \E e, f \in 1 .. m - 1 : i = r + e /\ p2[i] = p[e + 1] /\ j = r + f /\ p2[j] = p[f + 1]
        <4>1. PICK e, f \in 1 .. m - 1 : i = r + e /\ p2[i] = p[e + 1] /\ j = r + f /\ p2[j] = p[f + 1]
          BY <3>6
        <4>2. e + 1 # f + 1 /\ e + 1 \in 1 .. m /\ f + 1 \in 1 .. m
          BY ONLY <2>17, <2>19, <4>1
        <4>3. D(p[e + 1]) \cap D(p[f + 1]) = {}
          BY ONLY <1>1, <4>2
        <4> QED
          BY <4>1, <4>3
      <3>7. \/ i \in 1 .. r /\ p2[i] \in T(b)
            \/ \E e \in 1 .. m - 1 : i = r + e /\ p2[i] = p[e + 1]
        BY <2>14
      <3>8. \/ j \in 1 .. r /\ p2[j] \in T(b)
            \/ \E e \in 1 .. m - 1 : j = r + e /\ p2[j] = p[e + 1]
        BY <2>14
      <3> QED
        BY ONLY <3>3, <3>4, <3>5, <3>6, <3>7, <3>8
    <2>20. ASSUME NEW i \in 1 .. n + 1, NEW j \in 1 .. Len(p2)
           PROVE  o2[i] \notin D(p2[j])
      <3>1. i = n + 1 \/ i \in 1 .. n
        BY <2>2
      <3>2. CASE p2[j] \in T(b)
        <4>1. D(p2[j]) \subseteq D(b) /\ b \notin D(p2[j])
          BY <2>2, <2>6, <2>7, <3>2
        <4>2. \A e \in 1 .. n : o[e] \notin D(b)
          BY <1>1, <2>2, <2>17a
        <4> QED
          BY <2>11, <3>1, <4>1, <4>2
      <3>3. CASE \E e \in 1 .. m - 1 : p2[j] = p[e + 1]
        <4>1. PICK e \in 1 .. m - 1 : p2[j] = p[e + 1]
          BY <3>3
        <4>2. b \notin D(p[e + 1])
          BY ONLY <1>1, <2>2, <2>6, <2>17, <2>17a
        <4>3. \A f \in 1 .. n : o[f] \notin D(p[e + 1])
          BY <1>1, <2>17
        <4>4. o2[n + 1] = b /\ \A f \in 1 .. n : o2[f] = o[f]
          BY ONLY <2>11
        <4> QED
          BY ONLY <3>1, <4>1, <4>2, <4>3, <4>4
      <3> QED
        BY <2>14, <3>2, <3>3
    <2>21. ASSUME NEW x \in R
           PROVE  (\E i \in 1 .. n + 1 : o2[i] = x) \/ (\E j \in 1 .. Len(p2) : x \in D(p2[j]))
      <3>1. n + 1 \in 1 .. n + 1 /\ \A i \in 1 .. n : i \in 1 .. n + 1
        BY <2>2
      <3>2. CASE \E i \in 1 .. n : o[i] = x
        BY <2>11, <3>1, <3>2
      <3>3. CASE \E j \in 1 .. m : x \in D(p[j])
        <4>1. PICK j \in 1 .. m : x \in D(p[j])
          BY <3>3
        <4>2. CASE j = 1
          <5>1. CASE x = b
            BY <2>11, <3>1, <5>1
          <5>2. CASE x # b
            <6>1. PICK c \in T(b) : x \in D(c)
              BY <2>2, <2>9, <4>1, <4>2, <5>2
            <6>2. PICK i \in 1 .. r : q[i] = c
              BY <2>5, <6>1
            <6>3. i \in 1 .. Len(p2)
              BY <2>2, <2>10, <2>13
            <6> QED
              BY <2>13, <6>1, <6>2, <6>3
          <5> QED
            BY <5>1, <5>2
        <4>3. CASE j # 1
          <5>1. j - 1 \in 1 .. m - 1 /\ (j - 1) + 1 = j
            BY <2>2, <4>3
          <5>2. r + (j - 1) \in 1 .. Len(p2) /\ p2[r + (j - 1)] = p[(j - 1) + 1]
            BY <2>13, <5>1
          <5> QED
            BY <4>1, <5>1, <5>2
        <4> QED
          BY <4>2, <4>3
      <3> QED
        BY <1>1, <3>2, <3>3
    <2>22. ASSUME NEW j \in 1 .. Len(p2)
           PROVE  p2[j] = start \/ \E i \in 1 .. n + 1 : p2[j] \in T(o2[i])
      <3>1. n + 1 \in 1 .. n + 1 /\ \A i \in 1 .. n : i \in 1 .. n + 1
        BY <2>2
      <3>2. CASE p2[j] \in T(b)
        BY <2>11, <3>1, <3>2
      <3>3. CASE \E e \in 1 .. m - 1 : p2[j] = p[e + 1]
        BY <1>1, <2>11, <2>17, <3>1, <3>3
      <3> QED
        BY <2>14, <3>2, <3>3
    <2>23. ASSUME NEW i \in 1 .. n + 1
           PROVE  o2[i] = start \/ \E j \in 1 .. i - 1 : o2[i] \in T(o2[j])
      <3>1. CASE i \in 1 .. n
        <4>0. \A j \in 1 .. i - 1 : j \in 1 .. n
          BY <2>2, <3>1
        <4>1. o2[i] = o[i] /\ \A j \in 1 .. i - 1 : o2[j] = o[j]
          BY <2>11, <3>1, <4>0
        <4> QED
          BY <1>1, <3>1, <4>1
      <3>2. CASE i = n + 1
        <4>1. o2[i] = p[1] /\ (n + 1) - 1 = n
          BY <2>2, <2>11, <3>2
        <4>2. p[1] = start \/ \E j \in 1 .. n : p[1] \in T(o[j])
          BY <1>1, <2>17a
        <4> QED
          BY <2>11, <3>2, <4>1, <4>2
      <3> QED
        BY <2>2, <3>1, <3>2
    <2>24. Len(o2) = k + 1
      BY <2>3, <2>11
    <2>25. WalkInvariant(succ, start, w2, k + 1)
      <3>1. Len(o2) = n + 1
        BY <2>11
      <3>2. /\ o2 \in Seq(R) /\ p2 \in Seq(R)
            /\ \A i, j \in 1 .. Len(o2) : o2[i] = o2[j] => i = j
            /\ \A i, j \in 1 .. Len(p2) : i # j => D(p2[i]) \cap D(p2[j]) = {}
            /\ \A i \in 1 .. Len(o2) : \A j \in 1 .. Len(p2) : o2[i] \notin D(p2[j])
        BY <2>11, <2>13, <2>18, <2>19, <2>20, <3>1
      <3>3. /\ \A x \in R : (\E i \in 1 .. Len(o2) : o2[i] = x) \/ (\E j \in 1 .. Len(p2) : x \in D(p2[j]))
            /\ \A j \in 1 .. Len(p2) : p2[j] = start \/ \E i \in 1 .. Len(o2) : p2[j] \in T(o2[i])
            /\ \A i \in 1 .. Len(o2) : o2[i] = start \/ \E j \in 1 .. i - 1 : o2[i] \in T(o2[j])
        BY <2>21, <2>22, <2>23, <3>1
      <3> QED
        BY ONLY <2>1, <2>24, <3>2, <3>3 DEF WalkInvariant, R, D, T
    <2> QED
      BY <2>25
  <1> QED
    BY <1>2, <1>3

(* The renaming enters every block in reach once, each after its immediate *)
(* dominator.                                                              *)
LEMMA PreorderFacts ==
    ASSUME NEW succ, NEW start \in DOMAIN succ, IsGraph(succ), DOMAIN succ \subseteq Nat,
           NEW o, o = Preorder(succ, start)
    PROVE  /\ Lists(o, ReachableFrom(succ, start))
           /\ \A i \in 1 .. Len(o) :
                  o[i] = start \/ \E j \in 1 .. i - 1 : o[i] \in TreeChildren(succ, start, o[j])
           /\ Len(o) \in Nat /\ Len(o) <= Cardinality(Blocks(succ))
  <1> DEFINE W == PreorderWalk(succ, start)
             n == Cardinality(Blocks(succ))
             R == ReachableFrom(succ, start)
             S == { k \in 0 .. n : WalkInvariant(succ, start, W[k], k) }
  <1>1. IsFiniteSet(Blocks(succ)) /\ n \in Nat
    BY FS_CardinalityType DEF IsGraph, Blocks
  <1>2. /\ W[0] = [order |-> << >>, pending |-> <<start>>]
        /\ \A k \in 1 .. n : W[k] = WalkStep(succ, start, W[k - 1])
    BY <1>1, WalkUnfolds
  <1>3. start \in R /\ R \subseteq DOMAIN succ
    BY ReachableIsClosed
  <1>4. 0 \in S
    <2> PICK e, p : e = << >> /\ p = <<start>>
      OBVIOUS
    <2>3. WalkInvariant(succ, start, [order |-> e, pending |-> p], 0)
      BY <1>3, DominanceIsAnOrder DEF WalkInvariant, R, DominanceOrder
    <2> QED
      BY <1>1, <1>2, <2>3
  <1>5. ASSUME NEW k \in 1 .. n, k - 1 \in S
        PROVE  k \in S
    <2>1. k - 1 \in Nat /\ WalkInvariant(succ, start, W[k - 1], k - 1) /\ (k - 1) + 1 = k /\ k \in 0 .. n
      BY <1>1, <1>5
    <2>2. WalkInvariant(succ, start, WalkStep(succ, start, W[k - 1]), (k - 1) + 1)
      <3> HIDE DEF W
      <3> QED
        BY <2>1, WalkStepKeeps
    <2> QED
      BY <2>1, <1>2, <2>2
  <1>6. \A k \in 0 .. n : k \in S
    <2> HIDE DEF S
    <2> QED
      BY <1>1, <1>4, <1>5, BoundedInduction
  <1> PICK p : p = W[n].pending
    OBVIOUS
  <1>8. WalkInvariant(succ, start, W[n], n) /\ o = W[n].order
    BY <1>1, <1>6 DEF Preorder
  <1>9. /\ o \in Seq(R) /\ p \in Seq(R)
        /\ \A i, j \in 1 .. Len(o) : o[i] = o[j] => i = j
        /\ \A i \in 1 .. Len(o) : \A j \in 1 .. Len(p) : o[i] \notin DominatedBy(succ, start, p[j])
        /\ \A b \in R : (\E i \in 1 .. Len(o) : o[i] = b)
                        \/ (\E j \in 1 .. Len(p) : b \in DominatedBy(succ, start, p[j]))
        /\ \A i \in 1 .. Len(o) :
               o[i] = start \/ \E j \in 1 .. i - 1 : o[i] \in TreeChildren(succ, start, o[j])
        /\ Len(o) = n \/ p = << >>
    BY <1>8 DEF WalkInvariant
  <1> HIDE DEF W, S, R
  <1> PICK l : l = Len(o)
    OBVIOUS
  <1>10. l \in Nat /\ o \in [1 .. l -> R]
    BY <1>9
  <1> DEFINE I == { o[i] : i \in 1 .. l }
  <1>11. I \subseteq R /\ I \subseteq Blocks(succ) /\ IsFiniteSet(I)
    BY <1>3, <1>10, <1>1, FS_Subset DEF Blocks
  <1>12. Cardinality(I) = l
    <2>0. 1 \in Int /\ l \in Int
      BY <1>10
    <2>1. IsFiniteSet(1 .. l) /\ Cardinality(1 .. l) = IF 1 > l THEN 0 ELSE l - 1 + 1
      BY <2>0, FS_Interval
    <2>6. o \in Bijection(1 .. l, I)
      BY <1>10, <1>9 DEF Bijection, Injection, IsInjective, Surjection
    <2> HIDE DEF I
    <2> QED
      BY <2>1, <1>10, <2>6, FS_Bijection DEF ExistsBijection
  <1>13. l <= n
    <2> HIDE DEF I, n
    <2> QED
      BY <1>12, <1>1, <1>11, FS_Subset DEF n
  <1>14. p = << >>
    <2> SUFFICES ASSUME p # << >> PROVE FALSE
      OBVIOUS
    <2>1. l = n
      BY <1>9
    <2>2. I = Blocks(succ)
      <3> SUFFICES ASSUME I # Blocks(succ) PROVE FALSE
        OBVIOUS
      <3> QED
        BY <1>12, <2>1, <1>1, <1>11, FS_Subset
    <2>3. 1 \in 1 .. Len(p) /\ p[1] \in R
      BY <1>9
    <2> QED
      BY <1>9, <2>3, DominanceIsAnOrder, <1>3, <2>2, SMTT(30) DEF DominanceOrder, R, Blocks
  <1> QED
    BY <1>9, <1>10, <1>13, <1>14 DEF R, Lists
-----------------------------------------------------------------------------
(* The renaming.                                                           *)
LEMMA ImmediateDominatorFacts ==
    ASSUME NEW succ, NEW start \in DOMAIN succ, IsGraph(succ),
           NEW b \in ReachableFrom(succ, start), b # start
    PROVE  LET R == ReachableFrom(succ, start)
               d == ImmediateDominator(succ, start, b)
           IN  /\ d \in R /\ d # b /\ b \in DominatedBy(succ, start, d)
               /\ b \in TreeChildren(succ, start, d)
               /\ \A e \in R : b \in TreeChildren(succ, start, e) => e = d
               /\ \A e \in R : b \in DominatedBy(succ, start, e) /\ b # e
                                => d \in DominatedBy(succ, start, e)
  <1> DEFINE R == ReachableFrom(succ, start)
             T(e) == TreeChildren(succ, start, e)
             D(e) == DominatedBy(succ, start, e)
             d == ImmediateDominator(succ, start, b)
  <1>1. /\ \A e \in R : \A c \in T(e) : /\ c \in D(e) /\ c # e /\ c \in R
                                     /\ \A f \in R : c \in D(f) /\ c # f => e \in D(f)
        /\ \A e, f \in R : \A c \in T(e) : c \in T(f) => e = f
        /\ \A c \in R : c # start => \E e \in R : c \in T(e)
        /\ \A e \in DOMAIN succ \ R : T(e) = {}
    BY ChildrenFacts
  <1>2. R \subseteq DOMAIN succ
    BY ReachableIsClosed
  <1>3. d = CHOOSE e \in DOMAIN succ : b \in T(e)
    BY DEF ImmediateDominator, Blocks
  <1> HIDE DEF d
  <1>4. d \in DOMAIN succ /\ b \in T(d)
    <2> HIDE DEF T
    <2> QED
      BY <1>3, <1>1, <1>2
  <1> HIDE DEF R, T, D
  <1> QED
    BY <1>1, <1>4 DEF d, R, T, D

(* An instruction, renamed. *)
InstructionRenamed(c, top, counter) ==
    [c EXCEPT !.uses = [ i \in DOMAIN @ |-> SsaValue(@[i], top[@[i]]) ],
              !.definitions = [ i \in DOMAIN @ |-> SsaValue(@[i], counter[@[i]]) ]]

(* The counters and the tops the renaming of n instructions can have.      *)
RenamedTypes(V, state, n) ==
    /\ state.counter \in [V -> Nat] /\ state.top \in [V -> Nat]
    /\ state.output \in Seq(InstructionsOver(Nat)) /\ Len(state.output) = n

(* The instructions of a block, one after the other. *)
LEMMA InstructionsUnfold ==
    ASSUME NEW state, NEW code, Len(code) \in Nat
    PROVE  /\ AfterInstructions(state, code)[0] = state
           /\ \A k \in 1 .. Len(code) : AfterInstructions(state, code)[k] = RenameInstruction(AfterInstructions(state, code)[k - 1], code[k])
  <1> DEFINE n == Len(code)
             init == state
             Step(before, k) == RenameInstruction(before, code[k])
             Steps(g) == [ k \in 0 .. n |-> IF k = 0 THEN state ELSE RenameInstruction(g[k - 1], code[k]) ]
             F == CHOOSE g : g = Steps(g)
             Good(m, g) == g = [ k \in 0 .. m |-> IF k = 0 THEN init ELSE Step(g[k - 1], k) ]
             S == { m \in Nat : \E g : Good(m, g) }
  <1>1. AfterInstructions(state, code) = F
    BY DEF AfterInstructions
  <1>2. n \in Nat
    OBVIOUS
  <1>3. \A g : Steps(g) = [ k \in 0 .. n |-> IF k = 0 THEN init ELSE Step(g[k - 1], k) ]
    OBVIOUS
  <1> HIDE DEF F
  <1>4. (\E g : g = Steps(g)) => F = Steps(F)
    <2> HIDE DEF Steps
    <2> QED
      BY DEF F
  <1> HIDE DEF Steps, Step, init, n
  <1>5. 0 \in S
    <2> DEFINE g == [ k \in 0 .. 0 |-> init ]
    <2>1. g = [ k \in 0 .. 0 |-> IF k = 0 THEN init ELSE Step(g[k - 1], k) ]
      OBVIOUS
    <2> HIDE DEF g
    <2> QED
      BY <2>1
  <1>6. ASSUME NEW m \in Nat, m \in S
        PROVE  m + 1 \in S
    <2>1. PICK g : Good(m, g)
      BY <1>6
    <2> DEFINE h == [ k \in 0 .. m + 1 |-> IF k = m + 1 THEN Step(g[m], m + 1) ELSE g[k] ]
    <2>2. ASSUME NEW k \in 0 .. m + 1
          PROVE  h[k] = IF k = 0 THEN init ELSE Step(h[k - 1], k)
      <3>1. CASE k = 0
        BY <2>1, <3>1
      <3>2. CASE k = m + 1
        <4>1. h[k] = Step(g[m], k) /\ h[k - 1] = g[m] /\ k # 0
          BY <3>2
        <4> QED
          BY <4>1
      <3>3. CASE k # 0 /\ k # m + 1
        <4>1. k \in 1 .. m /\ h[k] = g[k] /\ h[k - 1] = g[k - 1]
          BY <3>3
        <4>2. g[k] = Step(g[k - 1], k)
          BY <2>1, <4>1
        <4> QED
          BY <3>3, <4>1, <4>2
      <3> QED
        BY <3>1, <3>2, <3>3
    <2>3. h = [ k \in 0 .. m + 1 |-> h[k] ]
      OBVIOUS
    <2> HIDE DEF h
    <2>4. Good(m + 1, h)
      BY <2>2, <2>3
    <2> QED
      BY <2>4
  <1>7. n \in S
    <2> HIDE DEF S
    <2> QED
      BY <1>2, <1>5, <1>6, InductiveSet
  <1>8. \E g : g = Steps(g)
    BY <1>3, <1>7
  <1>9. F = [ k \in 0 .. n |-> IF k = 0 THEN init ELSE Step(F[k - 1], k) ]
    BY <1>3, <1>4, <1>8
  <1>10. F[0] = init /\ \A k \in 1 .. n : F[k] = Step(F[k - 1], k)
    BY <1>2, <1>9
  <1> QED
    BY <1>1, <1>10 DEF init, n, Step

(* The states before and after an instruction. *)
Renames(V, before, c, after) ==
    \A v \in V :
        /\ after.counter[v] = IF v \in ToSet(c.definitions) THEN before.counter[v] + 1
                              ELSE before.counter[v]
        /\ after.top[v] = IF v \in ToSet(c.definitions) THEN after.counter[v]
                          ELSE before.top[v]

(* One instruction of the renaming: the code, the tops and the counters    *)
(* before and after it.                                                    *)
RenamesOne(V, c, n, before, after) ==
    /\ RenamedTypes(V, after, n + 1)
    /\ \A j \in 1 .. n : after.output[j] = before.output[j]
    /\ after.output[n + 1] = InstructionRenamed(c, before.top, after.counter)
    /\ Renames(V, before, c, after)

(* AfterInstructions renames one instruction as the code does.             *)
LEMMA RenamingAnInstruction ==
    ASSUME NEW V, V \subseteq Nat, NEW c \in InstructionsOver(V),
           NEW n \in Nat, NEW state, RenamedTypes(V, state, n),
           NEW after, after = RenameInstruction(state, c)
    PROVE  RenamesOne(V, c, n, state, after)
  <1> DEFINE d == ToSet(c.definitions)
             counter == [ v \in V |-> IF v \in d THEN state.counter[v] + 1 ELSE state.counter[v] ]
             renamed == InstructionRenamed(c, state.top, counter)
  <1>1. /\ state.counter \in [V -> Nat] /\ state.top \in [V -> Nat]
        /\ state.output \in Seq(InstructionsOver(Nat)) /\ Len(state.output) = n
    BY DEF RenamedTypes
  <1> DEFINE counter0 == [ v \in DOMAIN state.counter |->
                            IF v \in d THEN state.counter[v] + 1 ELSE state.counter[v] ]
  <1>2. after = [ counter |-> counter0,
                  top     |-> [ v \in DOMAIN state.top |->
                                  IF v \in d THEN counter0[v] ELSE state.top[v] ],
                  output  |-> Append(state.output, InstructionRenamed(c, state.top, counter0)) ]
    BY DEF RenameInstruction, InstructionRenamed
  <1>2a. counter0 = counter /\ DOMAIN state.top = V
    BY <1>1
  <1>3. counter \in [V -> Nat]
    BY <1>1
  <1>4. renamed \in InstructionsOver(Nat)
    <2>1. /\ c \in [opcode : DOMAIN OperandCount \cup {"opaque"}, uses : Seq(V),
                     definitions : Seq(V), immediate : Int]
          /\ Len(c.definitions) <= 1
          /\ c.opcode # "opaque" => Len(c.uses) = OperandCount[c.opcode]
      BY DEF InstructionsOver
    <2> HIDE DEF counter
    <2> DEFINE U == [ i \in DOMAIN c.uses |-> SsaValue(c.uses[i], state.top[c.uses[i]]) ]
               F == [ i \in DOMAIN c.definitions |-> SsaValue(c.definitions[i], counter[c.definitions[i]]) ]
    <2>2. /\ renamed = [c EXCEPT !.uses = U, !.definitions = F]
      BY DEF InstructionRenamed
    <2>3. \A v \in V : SsaValue(v, state.top[v]) \in Nat /\ SsaValue(v, counter[v]) \in Nat
      BY <1>1, <1>3, VersionSpanAssumption, SMTT(30) DEF SsaValue
    <2>4. U \in Seq(Nat) /\ Len(U) = Len(c.uses)
      <3>1. c.uses \in Seq(V)
        BY <2>1
      <3>2. DOMAIN c.uses = 1 .. Len(c.uses) /\ Len(c.uses) \in Nat
            /\ \A i \in 1 .. Len(c.uses) : c.uses[i] \in V
        BY <3>1
      <3>3. U \in [1 .. Len(c.uses) -> Nat]
        BY <2>3, <3>2
      <3> QED
        BY <3>2, <3>3
    <2>5. F \in Seq(Nat) /\ Len(F) = Len(c.definitions)
      <3>1. c.definitions \in Seq(V)
        BY <2>1
      <3>2. DOMAIN c.definitions = 1 .. Len(c.definitions) /\ Len(c.definitions) \in Nat
            /\ \A i \in 1 .. Len(c.definitions) : c.definitions[i] \in V
        BY <3>1
      <3>3. F \in [1 .. Len(c.definitions) -> Nat]
        BY <2>3, <3>2
      <3> QED
        BY <3>2, <3>3
    <2> HIDE DEF U, F
    <2>6. renamed \in [opcode : DOMAIN OperandCount \cup {"opaque"}, uses : Seq(Nat),
                       definitions : Seq(Nat), immediate : Int]
      BY <2>1, <2>2, <2>4, <2>5
    <2>7. renamed.opcode = c.opcode /\ renamed.uses = U /\ renamed.definitions = F
      BY <2>1, <2>2
    <2> HIDE DEF renamed
    <2> QED
      BY <2>1, <2>4, <2>5, <2>6, <2>7 DEF InstructionsOver
  <1>5. after.counter = counter /\ after.output = Append(state.output, renamed)
        /\ after.top = [ v \in V |-> IF v \in d THEN counter[v] ELSE state.top[v] ]
    <2> HIDE DEF counter0, counter, renamed
    <2> QED
      BY <1>2, <1>2a DEF renamed
  <1> HIDE DEF renamed, counter0
  <1>6. /\ Append(state.output, renamed) \in Seq(InstructionsOver(Nat))
        /\ Len(Append(state.output, renamed)) = n + 1
        /\ Append(state.output, renamed)[n + 1] = renamed
        /\ \A j \in 1 .. n : Append(state.output, renamed)[j] = state.output[j]
    BY <1>1, <1>4
  <1>7. after.top \in [V -> Nat]
    BY <1>1, <1>3, <1>5
  <1>8. RenamedTypes(V, after, n + 1)
    BY <1>3, <1>5, <1>6, <1>7 DEF RenamedTypes
  <1>9. after.output[n + 1] = InstructionRenamed(c, state.top, after.counter)
    BY <1>5, <1>6 DEF renamed
  <1>10. \A v \in V :
            /\ after.counter[v] = IF v \in d THEN state.counter[v] + 1 ELSE state.counter[v]
            /\ after.top[v] = IF v \in d THEN after.counter[v] ELSE state.top[v]
    BY <1>5
  <1> QED
    <2> HIDE DEF counter
    <2>1. \A j \in 1 .. n : after.output[j] = state.output[j]
      BY <1>5, <1>6
    <2> QED
      BY <1>8, <1>9, <1>10, <2>1 DEF RenamesOne, Renames

(* The renaming of the first n instructions of a block.                    *)
RenamesAll(V, code, A, n) ==
    /\ \A i \in 0 .. n : RenamedTypes(V, A[i], i)
    /\ \A i \in 1 .. n : Renames(V, A[i - 1], code[i], A[i])
    /\ \A i \in 1 .. n :
           A[n].output[i] = InstructionRenamed(code[i], A[i - 1].top, A[i].counter)

(* The fold over the instructions of a block renames each of them, after   *)
(* the ones before it.                                                     *)
LEMMA RenamingABlock ==
    ASSUME NEW V, V \subseteq Nat, NEW code \in Seq(InstructionsOver(V)),
           NEW state, RenamedTypes(V, state, 0),
           NEW A, A = AfterInstructions(state, code), NEW n, n = Len(code)
    PROVE  A[0] = state /\ RenamesAll(V, code, A, n)
  <1>1. n \in Nat /\ \A i \in 1 .. n : code[i] \in InstructionsOver(V)
    OBVIOUS
  <1>2. A[0] = state /\ \A k \in 1 .. n : A[k] = RenameInstruction(A[k - 1], code[k])
    BY <1>1, InstructionsUnfold
  <1> DEFINE Out(i) == \A j \in 1 .. i :
                           A[i].output[j] = InstructionRenamed(code[j], A[j - 1].top, A[j].counter)
             S == { i \in 0 .. n : RenamedTypes(V, A[i], i) /\ Out(i) }
  <1>3. 0 \in S
    BY <1>1, <1>2
  <1>4. ASSUME NEW i \in 1 .. n, RenamedTypes(V, A[i - 1], i - 1)
        PROVE  /\ RenamedTypes(V, A[i], i) /\ Renames(V, A[i - 1], code[i], A[i])
               /\ \A j \in 1 .. i - 1 : A[i].output[j] = A[i - 1].output[j]
               /\ A[i].output[i] = InstructionRenamed(code[i], A[i - 1].top, A[i].counter)
    <2> PICK m, c, before, after : m = i - 1 /\ c = code[i] /\ before = A[i - 1] /\ after = A[i]
      OBVIOUS
    <2>1. m \in Nat /\ m + 1 = i
      BY <1>1
    <2>2. c \in InstructionsOver(V) /\ after = RenameInstruction(before, c) /\ RenamedTypes(V, before, m)
      BY <1>1, <1>2, <1>4
    <2>3. RenamesOne(V, c, m, before, after)
      BY ONLY V \subseteq Nat, <2>1, <2>2, RenamingAnInstruction
    <2> QED
      BY <2>1, <2>3 DEF RenamesOne
  <1>5. ASSUME NEW i \in 1 .. n, i - 1 \in S
        PROVE  i \in S
    <2>1. RenamedTypes(V, A[i - 1], i - 1) /\ Out(i - 1) /\ i \in 0 .. n
      BY <1>1, <1>5
    <2>2. /\ RenamedTypes(V, A[i], i)
          /\ \A j \in 1 .. i - 1 : A[i].output[j] = A[i - 1].output[j]
          /\ A[i].output[i] = InstructionRenamed(code[i], A[i - 1].top, A[i].counter)
      BY <1>4, <2>1
    <2>4. Out(i)
      BY <2>1, <2>2, <1>1
    <2> HIDE DEF Out
    <2> QED
      BY <2>1, <2>2, <2>4
  <1>6. \A i \in 0 .. n : i \in S
    <2> HIDE DEF S
    <2> QED
      BY <1>1, <1>3, <1>5, BoundedInduction
  <1>7. \A i \in 0 .. n : RenamedTypes(V, A[i], i) /\ Out(i)
    BY <1>6
  <1>8. \A i \in 1 .. n : Renames(V, A[i - 1], code[i], A[i])
    <2> TAKE i \in 1 .. n
    <2> QED
      BY <1>4, <1>7, <1>1
  <1> QED
    BY ONLY <1>2, <1>7, <1>8, <1>1 DEF RenamesAll

(* The source programs and the placements of phis the constructions rename *)
RenamesSource(source, placement) ==
    /\ IsProgram(source, source.variables)
    /\ placement \subseteq ReachableFrom(source.succ, source.start) \X source.variables
    /\ \A v \in source.variables :
           Cardinality(Blocks(source.succ)) + Cardinality(InstructionSites(source, v)) < VersionSpan

(* What IsProgram says of the blocks in reach.                             *)
LEMMA ProgramFacts ==
    ASSUME NEW p, NEW V, IsProgram(p, V)
    PROVE  /\ p.start \in DOMAIN p.succ /\ IsGraph(p.succ) /\ DOMAIN p.succ \subseteq Nat
           /\ Blocks(p.succ) = DOMAIN p.succ
           /\ \A b \in DOMAIN p.succ :
                  /\ p.instructions[b] \in Seq(InstructionsOver(V))
                  /\ Len(p.instructions[b]) \in Nat
                  /\ DOMAIN p.instructions[b] = 1 .. Len(p.instructions[b])
                  /\ \A i \in 1 .. Len(p.instructions[b]) :
                         p.instructions[b][i] \in InstructionsOver(V)
           /\ ReachableFrom(p.succ, p.start) \subseteq DOMAIN p.succ
           /\ IsFiniteSet(ReachableFrom(p.succ, p.start))
  <1>1. /\ IsFiniteSet(DOMAIN p.succ) /\ p.start \in DOMAIN p.succ
        /\ DOMAIN p.succ = 0 .. Cardinality(DOMAIN p.succ) - 1
        /\ p.succ \in [DOMAIN p.succ -> Seq(DOMAIN p.succ)]
        /\ p.instructions \in [DOMAIN p.succ -> Seq(InstructionsOver(V))]
    BY DEF IsProgram, Blocks
  <1>2. DOMAIN p.succ \subseteq Nat
    <2> PICK n : n = Cardinality(DOMAIN p.succ)
      OBVIOUS
    <2> QED
      BY ONLY <1>1, FS_CardinalityType
  <1>7. ASSUME NEW b \in DOMAIN p.succ
        PROVE  /\ p.instructions[b] \in Seq(InstructionsOver(V))
               /\ Len(p.instructions[b]) \in Nat
               /\ DOMAIN p.instructions[b] = 1 .. Len(p.instructions[b])
               /\ \A i \in 1 .. Len(p.instructions[b]) :
                      p.instructions[b][i] \in InstructionsOver(V)
    BY <1>1
  <1> QED
    BY <1>1, <1>2, ReachableIsClosed, FS_Subset, <1>7 DEF Blocks, IsGraph, Targets

(* The renaming of the k-th block, instruction by instruction. *)
BlockAt(source, k) == Preorder(source.succ, source.start)[k]

(* The renaming of the instructions of the k-th block of the preorder, one *)
(* state per instruction.                                                  *)
BodyAt(source, placement, k) ==
    RenamedCode(source, placement, AfterBlocks(source, placement)[k - 1], BlockAt(source, k))

(* The renaming before the first block of the preorder.                    *)
InitialRenaming(source) ==
    [ counter      |-> [ v \in source.variables |-> 0 ],
      entry        |-> [ b \in Blocks(source.succ) |-> << >> ],
      top          |-> [ b \in Blocks(source.succ) |-> << >> ],
      instructions |-> [ b \in Blocks(source.succ) |-> << >> ] ]

(* The blocks, one after the other. *)
LEMMA BlocksUnfold ==
    ASSUME NEW source, NEW placement, Len(Preorder(source.succ, source.start)) \in Nat
    PROVE  /\ AfterBlocks(source, placement)[0] = InitialRenaming(source)
           /\ \A k \in 1 .. Len(Preorder(source.succ, source.start)) : AfterBlocks(source, placement)[k] = RenameBlock(source, placement, AfterBlocks(source, placement)[k - 1], BlockAt(source, k))
  <1> DEFINE n == Len(Preorder(source.succ, source.start))
             init == InitialRenaming(source)
             Step(before, k) == RenameBlock(source, placement, before, BlockAt(source, k))
             Steps(g) == [ k \in 0 .. n |-> 
                 IF k = 0
                 THEN [ counter      |-> [ v \in source.variables |-> 0 ],
                        entry        |-> [ b \in Blocks(source.succ) |-> << >> ],
                        top          |-> [ b \in Blocks(source.succ) |-> << >> ],
                        instructions |-> [ b \in Blocks(source.succ) |-> << >> ] ]
                 ELSE RenameBlock(source, placement, g[k - 1], Preorder(source.succ, source.start)[k]) ]
             F == CHOOSE g : g = Steps(g)
             Good(m, g) == g = [ k \in 0 .. m |-> IF k = 0 THEN init ELSE Step(g[k - 1], k) ]
             S == { m \in Nat : \E g : Good(m, g) }
  <1>1. AfterBlocks(source, placement) = F
    BY DEF AfterBlocks
  <1>2. n \in Nat
    OBVIOUS
  <1> HIDE DEF F
  <1>4. (\E g : g = Steps(g)) => F = Steps(F)
    <2> HIDE DEF Steps
    <2> QED
      BY DEF F
  <1> HIDE DEF Steps, Step, init, n
  <1>5. 0 \in S
    <2> DEFINE g == [ k \in 0 .. 0 |-> init ]
    <2>1. g = [ k \in 0 .. 0 |-> IF k = 0 THEN init ELSE Step(g[k - 1], k) ]
      OBVIOUS
    <2> HIDE DEF g
    <2> QED
      BY <2>1
  <1>6. ASSUME NEW m \in Nat, m \in S
        PROVE  m + 1 \in S
    <2>1. PICK g : Good(m, g)
      BY <1>6
    <2> DEFINE h == [ k \in 0 .. m + 1 |-> IF k = m + 1 THEN Step(g[m], m + 1) ELSE g[k] ]
    <2>2. ASSUME NEW k \in 0 .. m + 1
          PROVE  h[k] = IF k = 0 THEN init ELSE Step(h[k - 1], k)
      BY <2>1
    <2>3. h = [ k \in 0 .. m + 1 |-> h[k] ]
      OBVIOUS
    <2> HIDE DEF h
    <2> QED
      BY <2>2, <2>3
  <1>7. n \in S
    <2> HIDE DEF S
    <2> QED
      BY <1>2, <1>5, <1>6, InductiveSet
  <1>9. F = [ k \in 0 .. n |-> IF k = 0 THEN init ELSE Step(F[k - 1], k) ]
    BY <1>4, <1>7 DEF InitialRenaming, BlockAt
  <1> QED
    BY <1>1, <1>2, <1>9 DEF init, n, Step

(* The number of blocks the preorder visits.                               *)
Entries(source) == Len(Preorder(source.succ, source.start))

(* The preorder visits every block in reach once, from the start.          *)
LEMMA EntriesFacts ==
    ASSUME NEW source, NEW V, IsProgram(source, V)
    PROVE  LET R == ReachableFrom(source.succ, source.start)
           IN  /\ Entries(source) \in Nat /\ Entries(source) <= Cardinality(Blocks(source.succ))
               /\ \A k \in 1 .. Entries(source) : BlockAt(source, k) \in R
               /\ \A b \in R : \E k \in 1 .. Entries(source) : BlockAt(source, k) = b
               /\ \A j, k \in 1 .. Entries(source) : BlockAt(source, j) = BlockAt(source, k) => j = k
               /\ \A k \in 1 .. Entries(source) :
                      BlockAt(source, k) # source.start =>
                          \E j \in 1 .. k - 1 :
                              BlockAt(source, j)
                                  = ImmediateDominator(source.succ, source.start, BlockAt(source, k))
  <1> PICK succ, start, o : succ = source.succ /\ start = source.start /\ o = Preorder(succ, start)
    OBVIOUS
  <1> DEFINE R == ReachableFrom(succ, start)
  <1>1. start \in DOMAIN succ /\ IsGraph(succ) /\ DOMAIN succ \subseteq Nat
    BY ProgramFacts
  <1>2. /\ Lists(o, R)
        /\ \A i \in 1 .. Len(o) :
               o[i] = start \/ \E j \in 1 .. i - 1 : o[i] \in TreeChildren(succ, start, o[j])
        /\ Len(o) \in Nat /\ Len(o) <= Cardinality(Blocks(succ))
    BY <1>1, PreorderFacts
  <1> PICK n : n = Len(o)
    OBVIOUS
  <1>3. Entries(source) = n /\ n \in Nat /\ n <= Cardinality(Blocks(succ))
    BY <1>2 DEF Entries
  <1>4. \A k : BlockAt(source, k) = o[k]
    BY DEF BlockAt
  <1>5. /\ \A k \in 1 .. n : o[k] \in R
        /\ \A b \in R : \E k \in 1 .. n : o[k] = b
        /\ \A j, k \in 1 .. n : o[j] = o[k] => j = k
    <2> HIDE DEF R
    <2> QED
      BY <1>2, SMTT(30) DEF Lists
  <1>6. ASSUME NEW k \in 1 .. n, o[k] # start
        PROVE  \E j \in 1 .. k - 1 : o[j] = ImmediateDominator(succ, start, o[k])
    <2>1. PICK j \in 1 .. k - 1 : o[k] \in TreeChildren(succ, start, o[j])
      BY <1>2, <1>6
    <2> QED
      BY <1>1, <1>6, <2>1, <1>3, <1>5, ImmediateDominatorFacts
  <1>7. \A k \in 1 .. n : BlockAt(source, k) \in R
    BY <1>4, <1>5
  <1>8. \A b \in R : \E k \in 1 .. n : BlockAt(source, k) = b
    BY <1>4, <1>5
  <1>9. \A j, k \in 1 .. n : BlockAt(source, j) = BlockAt(source, k) => j = k
    BY ONLY <1>4, <1>5
  <1>10. \A k \in 1 .. n :
             BlockAt(source, k) # start =>
                 \E j \in 1 .. k - 1 :
                     BlockAt(source, j) = ImmediateDominator(succ, start, BlockAt(source, k))
    BY <1>4, <1>6
  <1> QED
    BY ONLY succ = source.succ /\ start = source.start /\ o = Preorder(succ, start),
            <1>3, <1>7, <1>8, <1>9, <1>10

(* What is known of the blocks renamed so far.                             *)
BlocksRenamed(source, placement, k) ==
    LET V == source.variables
        A == AfterBlocks(source, placement)
        N(i) == Len(source.instructions[BlockAt(source, i)])
    IN  /\ A[k].counter \in [V -> Nat]
        /\ DOMAIN A[k].entry = Blocks(source.succ)
        /\ DOMAIN A[k].top = Blocks(source.succ)
        /\ DOMAIN A[k].instructions = Blocks(source.succ)
        /\ \A i \in 1 .. k :
               /\ A[k].entry[BlockAt(source, i)] = BodyAt(source, placement, i)[0].top
               /\ A[k].top[BlockAt(source, i)] = BodyAt(source, placement, i)[N(i)].top
               /\ A[k].instructions[BlockAt(source, i)] = BodyAt(source, placement, i)[N(i)].output
               /\ A[k].top[BlockAt(source, i)] \in [V -> Nat]
        /\ \A b \in Blocks(source.succ) :
               (\A i \in 1 .. k : BlockAt(source, i) # b) => A[k].instructions[b] = << >>

(* What is known of the renaming of the k-th block.                        *)
BodyRenamed(source, placement, k) ==
    LET V    == source.variables
        A    == AfterBlocks(source, placement)
        b    == BlockAt(source, k)
        code == source.instructions[b]
        B    == BodyAt(source, placement, k)
        n    == Len(code)
    IN  /\ B[0].counter = CountersAfterPhis(source, placement, A[k - 1], b)
        /\ B[0].top = TopsOnEntry(source, placement, A[k - 1], b)
        /\ RenamesAll(V, code, B, n)
        /\ A[k].counter = B[n].counter
        /\ A[k].entry = [A[k - 1].entry EXCEPT ![b] = B[0].top]
        /\ A[k].top = [A[k - 1].top EXCEPT ![b] = B[n].top]
        /\ A[k].instructions = [A[k - 1].instructions EXCEPT ![b] = B[n].output]

(* The states of the renaming inside one block.                            *)
LEMMA BodyIsRenamed ==
    ASSUME NEW source, NEW placement, RenamesSource(source, placement),
           NEW k \in 1 .. Entries(source), BlocksRenamed(source, placement, k - 1)
    PROVE  BodyRenamed(source, placement, k)
  <1> PICK V, A, b, code, n, j : /\ V = source.variables /\ A = AfterBlocks(source, placement)
                                 /\ b = BlockAt(source, k) /\ code = source.instructions[b]
                                 /\ n = Len(code) /\ j = k - 1
    OBVIOUS
  <1> PICK B : B = BodyAt(source, placement, k)
    OBVIOUS
  <1>1. IsProgram(source, V) /\ V \subseteq Nat
    BY DEF RenamesSource, IsProgram
  <1>5. A[j].counter \in [V -> Nat]
    BY DEF BlocksRenamed
  <1>6. TopsOnEntry(source, placement, A[j], b) \in [V -> Nat]
    <2>1. CASE b = source.start
      BY <1>5, <2>1 DEF TopsOnEntry
    <2>2. CASE b # source.start
      <3>1. PICK i \in 1 .. k - 1 :
                BlockAt(source, i) = ImmediateDominator(source.succ, source.start, b)
        BY <1>1, <2>2, EntriesFacts
      <3> QED
        BY <1>5, <2>2, <3>1 DEF TopsOnEntry, BlocksRenamed
    <2> QED
      BY <2>1, <2>2
  <1>7. CountersAfterPhis(source, placement, A[j], b) \in [V -> Nat]
    BY <1>5 DEF CountersAfterPhis
  <1> PICK state : state = [ counter |-> CountersAfterPhis(source, placement, A[j], b),
                             top     |-> TopsOnEntry(source, placement, A[j], b),
                             output  |-> << >> ]
    OBVIOUS
  <1>8. /\ state.counter = CountersAfterPhis(source, placement, A[j], b)
        /\ state.top = TopsOnEntry(source, placement, A[j], b)
        /\ state.output = << >>
    OBVIOUS
  <1>9. RenamedTypes(V, state, 0)
    BY <1>6, <1>7, <1>8 DEF RenamedTypes
  <1>11. B[0] = state /\ RenamesAll(V, code, B, n)
    BY <1>1, EntriesFacts, ProgramFacts, <1>9, RenamingABlock DEF BodyAt, RenamedCode
  <1>12. A[k] = RenameBlock(source, placement, A[j], b)
    BY <1>1, EntriesFacts, BlocksUnfold DEF Entries
  <1>15. /\ A[k].counter = B[n].counter
         /\ A[k].entry = [A[j].entry EXCEPT ![b] = B[0].top]
         /\ A[k].top = [A[j].top EXCEPT ![b] = B[n].top]
         /\ A[k].instructions = [A[j].instructions EXCEPT ![b] = B[n].output]
    BY <1>8, <1>11, <1>12 DEF RenameBlock, BodyAt
  <1> QED
    BY <1>8, <1>11, <1>15 DEF BodyRenamed

(* The fold over the preorder renames its blocks one after the other.      *)
LEMMA BlocksAreRenamed ==
    ASSUME NEW source, NEW placement, RenamesSource(source, placement)
    PROVE  /\ \A k \in 0 .. Entries(source) : BlocksRenamed(source, placement, k)
           /\ \A k \in 1 .. Entries(source) : BodyRenamed(source, placement, k)
  <1> PICK V, A, l : V = source.variables /\ A = AfterBlocks(source, placement) /\ l = Entries(source)
    OBVIOUS
  <1> DEFINE S == { k \in 0 .. l : BlocksRenamed(source, placement, k) }
             o(i) == BlockAt(source, i)
             N(i) == Len(source.instructions[o(i)])
             B(i) == BodyAt(source, placement, i)
             U == Blocks(source.succ)
  <1>1. IsProgram(source, V)
    BY DEF RenamesSource
  <1>2. /\ l \in Nat
        /\ \A i, j \in 1 .. l : o(i) = o(j) => i = j
        /\ \A i \in 1 .. l : o(i) \in ReachableFrom(source.succ, source.start)
    BY <1>1, EntriesFacts
  <1>3. \A i \in 1 .. l : o(i) \in U /\ N(i) \in Nat
    BY <1>1, <1>2, ProgramFacts
  <1>4. 0 \in S
    <2>1. A[0] = InitialRenaming(source)
      BY <1>2, BlocksUnfold DEF Entries
    <2> QED
      BY <2>1, <1>2 DEF BlocksRenamed, InitialRenaming
  <1>5. ASSUME NEW k \in 1 .. l, BlocksRenamed(source, placement, k - 1)
        PROVE  BlocksRenamed(source, placement, k)
    <2> PICK j : j = k - 1
      OBVIOUS
    <2>2. /\ RenamesAll(V, source.instructions[o(k)], B(k), N(k))
          /\ A[k].counter = B(k)[N(k)].counter
          /\ A[k].entry = [A[j].entry EXCEPT ![o(k)] = B(k)[0].top]
          /\ A[k].top = [A[j].top EXCEPT ![o(k)] = B(k)[N(k)].top]
          /\ A[k].instructions = [A[j].instructions EXCEPT ![o(k)] = B(k)[N(k)].output]
      BY <1>5, BodyIsRenamed DEF BodyRenamed
    <2>3. RenamedTypes(V, B(k)[N(k)], N(k))
      BY <1>3, <2>2 DEF RenamesAll
    <2>4. B(k)[N(k)].counter \in [V -> Nat] /\ B(k)[N(k)].top \in [V -> Nat]
      BY <2>3 DEF RenamedTypes
    <2>5. /\ DOMAIN A[j].entry = U /\ DOMAIN A[j].top = U /\ DOMAIN A[j].instructions = U
          /\ \A i \in 1 .. j :
                 /\ A[j].entry[o(i)] = B(i)[0].top
                 /\ A[j].top[o(i)] = B(i)[N(i)].top
                 /\ A[j].instructions[o(i)] = B(i)[N(i)].output
                 /\ A[j].top[o(i)] \in [V -> Nat]
          /\ \A b \in U : (\A i \in 1 .. j : o(i) # b) => A[j].instructions[b] = << >>
      BY <1>5 DEF BlocksRenamed
    <2>6. o(k) \in U
      BY <1>3
    <2> HIDE DEF U, B, N, o
    <2>7. A[k].counter \in [V -> Nat]
      BY <2>2, <2>4
    <2>8. DOMAIN A[k].entry = U /\ DOMAIN A[k].top = U /\ DOMAIN A[k].instructions = U
      BY <2>2, <2>5
    <2>9. ASSUME NEW i \in 1 .. k
          PROVE  /\ A[k].entry[o(i)] = B(i)[0].top
                 /\ A[k].top[o(i)] = B(i)[N(i)].top
                 /\ A[k].instructions[o(i)] = B(i)[N(i)].output
                 /\ A[k].top[o(i)] \in [V -> Nat]
      <3>1. CASE i = k
        BY ONLY <2>2, <2>4, <2>5, <2>6, <3>1
      <3>2. CASE i # k
        BY <1>2, <3>2, <2>2, <2>5
      <3> QED
        BY <3>1, <3>2
    <2>10. ASSUME NEW b \in U, \A i \in 1 .. k : o(i) # b
           PROVE  A[k].instructions[b] = << >>
      BY <1>2, <2>10, <2>2, <2>5
    <2> QED
      BY <2>7, <2>8, <2>9, <2>10 DEF BlocksRenamed, U, B, N, o
  <1>6. ASSUME NEW k \in 1 .. l, k - 1 \in S
        PROVE  k \in S
    BY <1>2, <1>6, <1>5
  <1>7. \A k \in 0 .. l : k \in S
    <2> HIDE DEF S
    <2> QED
      BY <1>2, <1>4, <1>6, BoundedInduction
  <1>8. \A k \in 0 .. l : BlocksRenamed(source, placement, k)
    BY <1>7
  <1>9. ASSUME NEW k \in 1 .. l
        PROVE  BodyRenamed(source, placement, k)
    BY <1>2, <1>8, BodyIsRenamed
  <1> QED
    BY <1>8, <1>9

(* The versions the stacks have on top, and the counters, after i          *)
(* instructions of block b.                                                *)
EntryOf(source, b) == CHOOSE k \in 1 .. Entries(source) : BlockAt(source, k) = b

(* The versions on top of the stacks after i instructions of block b.      *)
TopsIn(source, placement, b, i) == BodyAt(source, placement, EntryOf(source, b))[i].top

(* The counters after i instructions of block b.                           *)
CountersIn(source, placement, b, i) == BodyAt(source, placement, EntryOf(source, b))[i].counter

(* Instruction i of block b defines v.                                     *)
Defines(source, b, i, v) == v \in ToSet(source.instructions[b][i].definitions)

(* The renaming of a block, by its immediate dominator. *)
BlockRenaming(source, placement, b) ==
    LET V       == source.variables
        n       == Len(source.instructions[b])
        T(i)    == TopsIn(source, placement, b, i)
        C(i)    == CountersIn(source, placement, b, i)
        renamed == Renamed(source, placement)
    IN  /\ n \in Nat
        /\ \A i \in 0 .. n : T(i) \in [V -> Nat] /\ C(i) \in [V -> Nat]
        /\ renamed.entry[b] = T(0) /\ renamed.top[b] = T(n)
        /\ \A v \in V :
               T(0)[v] = IF <<b, v>> \in placement THEN C(0)[v]
                         ELSE IF b = source.start THEN 0
                         ELSE renamed.top[ImmediateDominator(source.succ, source.start, b)][v]
        /\ \A i \in 1 .. n : \A v \in V :
               T(i)[v] = IF Defines(source, b, i, v) THEN C(i)[v] ELSE T(i - 1)[v]
        /\ renamed.instructions[b] \in Seq(InstructionsOver(Nat))
        /\ Len(renamed.instructions[b]) = n
        /\ \A i \in 1 .. n :
               renamed.instructions[b][i]
                   = InstructionRenamed(source.instructions[b][i], T(i - 1), C(i))

(* What the renaming leaves of a block: its code, the versions on entry    *)
(* and the versions at its end.                                            *)
LEMMA RenamingOfBlocks ==
    ASSUME NEW source, NEW placement, RenamesSource(source, placement)
    PROVE  /\ \A b \in ReachableFrom(source.succ, source.start) : BlockRenaming(source, placement, b)
           /\ \A b \in Blocks(source.succ) \ ReachableFrom(source.succ, source.start) :
                  Renamed(source, placement).instructions[b] = << >>
           /\ DOMAIN Renamed(source, placement).instructions = Blocks(source.succ)
  <1> PICK V, A, l, r : /\ V = source.variables /\ A = AfterBlocks(source, placement)
                        /\ l = Entries(source) /\ r = Renamed(source, placement)
    OBVIOUS
  <1> DEFINE R == ReachableFrom(source.succ, source.start)
             o(k) == BlockAt(source, k)
             N(k) == Len(source.instructions[o(k)])
             B(k) == BodyAt(source, placement, k)
             Idom(b) == ImmediateDominator(source.succ, source.start, b)
             U == Blocks(source.succ)
  <1>1. IsProgram(source, V)
    BY DEF RenamesSource
  <1>2. /\ l \in Nat
        /\ \A i, j \in 1 .. l : o(i) = o(j) => i = j
        /\ \A i \in 1 .. l : o(i) \in R
        /\ \A b \in R : \E k \in 1 .. l : o(k) = b
        /\ \A k \in 1 .. l : o(k) # source.start => \E j \in 1 .. k - 1 : o(j) = Idom(o(k))
    BY <1>1, EntriesFacts
  <1>4. /\ \A k \in 0 .. l : BlocksRenamed(source, placement, k)
        /\ \A k \in 1 .. l : BodyRenamed(source, placement, k)
    BY BlocksAreRenamed
  <1>5. /\ DOMAIN r.instructions = U
        /\ \A i \in 1 .. l :
               /\ r.entry[o(i)] = B(i)[0].top
               /\ r.top[o(i)] = B(i)[N(i)].top
               /\ r.instructions[o(i)] = B(i)[N(i)].output
        /\ \A b \in U : (\A i \in 1 .. l : o(i) # b) => r.instructions[b] = << >>
    BY <1>2, <1>4 DEF BlocksRenamed, Renamed, Entries
  <1>6. ASSUME NEW b \in U, b \notin R
        PROVE  r.instructions[b] = << >>
    BY <1>2, <1>5, <1>6
  <1>7. ASSUME NEW k \in 1 .. l
        PROVE  BlockRenaming(source, placement, o(k))
    <2> PICK b, n, code, j : b = o(k) /\ n = N(k) /\ code = source.instructions[b] /\ j = k - 1
      OBVIOUS
    <2>2. /\ \A i : TopsIn(source, placement, b, i) = B(k)[i].top
          /\ \A i : CountersIn(source, placement, b, i) = B(k)[i].counter
      BY <1>2 DEF TopsIn, CountersIn, EntryOf
    <2>3. /\ B(k)[0].counter = CountersAfterPhis(source, placement, A[j], b)
          /\ B(k)[0].top = TopsOnEntry(source, placement, A[j], b)
          /\ RenamesAll(V, code, B(k), n)
      BY <1>4 DEF BodyRenamed
    <2>4. n \in Nat
      BY <1>1, <1>2, ProgramFacts
    <2>5. ASSUME NEW i \in 0 .. n
          PROVE  /\ B(k)[i].top \in [V -> Nat] /\ B(k)[i].counter \in [V -> Nat]
                 /\ B(k)[i].output \in Seq(InstructionsOver(Nat)) /\ Len(B(k)[i].output) = i
      BY <2>3 DEF RenamesAll, RenamedTypes
    <2>6. ASSUME NEW i \in 1 .. n, NEW v \in V
          PROVE  B(k)[i].top[v] = IF Defines(source, b, i, v) THEN B(k)[i].counter[v]
                                  ELSE B(k)[i - 1].top[v]
      BY <2>3 DEF RenamesAll, Renames, Defines
    <2>7. ASSUME NEW v \in V
          PROVE  B(k)[0].top[v] = IF <<b, v>> \in placement THEN B(k)[0].counter[v]
                                  ELSE IF b = source.start THEN 0
                                  ELSE r.top[Idom(b)][v]
      <3>1. CASE b = source.start
        BY <2>3, <3>1 DEF TopsOnEntry, CountersAfterPhis
      <3>2. CASE b # source.start
        <4>1. PICK i \in 1 .. k - 1 : o(i) = Idom(b)
          BY <1>2, <3>2
        <4>2. i \in 1 .. j /\ i \in 1 .. l /\ j \in 0 .. l
          BY <1>2
        <4> QED
          BY <2>3, <3>2, <1>5, <4>1, <4>2, <1>4 DEF TopsOnEntry, CountersAfterPhis,
             BlocksRenamed
      <3> QED
        BY <3>1, <3>2
    <2>8. /\ r.entry[b] = B(k)[0].top /\ r.top[b] = B(k)[n].top
          /\ r.instructions[b] = B(k)[n].output
      BY <1>5
    <2>10. ASSUME NEW i \in 1 .. n
           PROVE  r.instructions[b][i]
                      = InstructionRenamed(code[i], B(k)[i - 1].top, B(k)[i].counter)
      BY <2>3, <2>8 DEF RenamesAll
    <2>11. /\ r.instructions[b] \in Seq(InstructionsOver(Nat)) /\ Len(r.instructions[b]) = n
      BY <2>5, <2>8, <2>4
    <2> DEFINE T(i) == TopsIn(source, placement, b, i)
               C(i) == CountersIn(source, placement, b, i)
    <2>12. \A i \in 0 .. n : T(i) \in [V -> Nat] /\ C(i) \in [V -> Nat]
      BY ONLY <2>2, <2>5
    <2>13. r.entry[b] = T(0) /\ r.top[b] = T(n)
      BY <2>2, <2>8
    <2>14. \A v \in V : T(0)[v] = IF <<b, v>> \in placement THEN C(0)[v]
                                 ELSE IF b = source.start THEN 0 ELSE r.top[Idom(b)][v]
      BY <2>2, <2>7
    <2>15. \A i \in 1 .. n : \A v \in V :
               T(i)[v] = IF Defines(source, b, i, v) THEN C(i)[v] ELSE T(i - 1)[v]
      BY <2>2, <2>6
    <2>16. \A i \in 1 .. n : r.instructions[b][i] = InstructionRenamed(code[i], T(i - 1), C(i))
      BY <2>2, <2>10
    <2>17. V = source.variables /\ n = Len(source.instructions[b]) /\ r = Renamed(source, placement)
           /\ code = source.instructions[b] /\ b = o(k)
      OBVIOUS
    <2> HIDE DEF o
    <2>18. BlockRenaming(source, placement, b)
      BY ONLY <2>4, <2>11, <2>12, <2>13, <2>14, <2>15, <2>16, <2>17 DEF BlockRenaming
    <2> QED
      BY <2>17, <2>18
  <1> QED
    BY <1>5, <1>6, <1>2, <1>7

(* A sequence of numbers that never goes down. *)
LEMMA NeverDown ==
    ASSUME NEW n \in Nat, NEW f, \A i \in 0 .. n : f[i] \in Int,
           \A i \in 1 .. n : f[i - 1] <= f[i]
    PROVE  \A i, j \in 0 .. n : i <= j => f[i] <= f[j]
  <1> DEFINE S == { j \in 0 .. n : \A i \in 0 .. j : f[i] <= f[j] }
  <1>1. 0 \in S
    OBVIOUS
  <1>2. ASSUME NEW j \in 1 .. n, j - 1 \in S
        PROVE  j \in S
    BY <1>2
  <1>3. \A j \in 0 .. n : j \in S
    <2> HIDE DEF S
    <2> QED
      BY <1>1, <1>2, BoundedInduction
  <1> QED
    BY <1>3

(* The definitions of a variable: the phis, at place 0 of their blocks,    *)
(* and the instructions.                                                   *)
IsSite(source, placement, b, i, v) ==
    \/ i = 0 /\ <<b, v>> \in placement
    \/ i \in 1 .. Len(source.instructions[b]) /\ Defines(source, b, i, v)

(* The counter of a variable, through the renaming of a block.             *)
CountedThrough(source, placement, b, v, n, before, after, c) ==
    /\ n \in Nat /\ before \in Nat /\ after \in Nat /\ c \in [0 .. n -> Nat]
    /\ c[0] = IF IsSite(source, placement, b, 0, v) THEN before + 1 ELSE before
    /\ \A i \in 1 .. n :
           c[i] = IF IsSite(source, placement, b, i, v) THEN c[i - 1] + 1 ELSE c[i - 1]
    /\ after = c[n]

(* Inside a block the counters go up by one at a definition and stay       *)
(* elsewhere.                                                              *)
LEMMA CountersOfABlock ==
    ASSUME NEW source, NEW placement, RenamesSource(source, placement),
           NEW k \in 1 .. Entries(source), NEW v \in source.variables,
           NEW b, b = BlockAt(source, k), NEW n, n = Len(source.instructions[b]),
           NEW before, before = AfterBlocks(source, placement)[k - 1].counter[v],
           NEW after, after = AfterBlocks(source, placement)[k].counter[v],
           NEW c, c = [ i \in 0 .. n |-> BodyAt(source, placement, k)[i].counter[v] ]
    PROVE  CountedThrough(source, placement, b, v, n, before, after, c)
  <1> PICK V, A, B : V = source.variables /\ A = AfterBlocks(source, placement)
                     /\ B = BodyAt(source, placement, k)
    OBVIOUS
  <1>1. IsProgram(source, V)
    BY DEF RenamesSource
  <1>2. /\ k \in 1 .. Entries(source) /\ k - 1 \in 0 .. Entries(source) /\ k \in 0 .. Entries(source)
        /\ b \in ReachableFrom(source.succ, source.start)
    BY <1>1, EntriesFacts
  <1>3. n \in Nat
    BY <1>1, <1>2, ProgramFacts
  <1>4. BlocksRenamed(source, placement, k - 1) /\ BlocksRenamed(source, placement, k)
        /\ BodyRenamed(source, placement, k)
    BY <1>2, BlocksAreRenamed
  <1>5. A[k - 1].counter \in [V -> Nat] /\ A[k].counter \in [V -> Nat]
    BY <1>4 DEF BlocksRenamed
  <1>6. /\ B[0].counter = CountersAfterPhis(source, placement, A[k - 1], b)
        /\ RenamesAll(V, source.instructions[b], B, n)
        /\ A[k].counter = B[n].counter
    BY <1>4 DEF BodyRenamed
  <1>7. \A i \in 0 .. n : B[i].counter \in [V -> Nat]
    BY <1>6 DEF RenamesAll, RenamedTypes
  <1>8. \A i \in 0 .. n : c[i] = B[i].counter[v]
    OBVIOUS
  <1>9. c \in [0 .. n -> Nat]
    <2>1. \A i \in 0 .. n : B[i].counter[v] \in Nat
      BY <1>7
    <2> QED
      BY <2>1
  <1>10. c[0] = IF IsSite(source, placement, b, 0, v) THEN before + 1 ELSE before
    <2>1. 0 \in 0 .. n /\ 0 \notin 1 .. n
      BY <1>3
    <2>2. c[0] = IF <<b, v>> \in placement THEN before + 1 ELSE before
      BY <1>6, <1>8, <2>1 DEF CountersAfterPhis
    <2>3. IsSite(source, placement, b, 0, v) <=> <<b, v>> \in placement
      BY <2>1 DEF IsSite
    <2> QED
      BY <2>2, <2>3
  <1>11. ASSUME NEW i \in 1 .. n
         PROVE  c[i] = IF IsSite(source, placement, b, i, v) THEN c[i - 1] + 1 ELSE c[i - 1]
    <2>1. i \in 0 .. n /\ i - 1 \in 0 .. n /\ i # 0
      BY <1>3
    <2>2. c[i] = IF Defines(source, b, i, v) THEN c[i - 1] + 1 ELSE c[i - 1]
      BY <1>6, <1>8, <2>1 DEF RenamesAll, Renames, Defines
    <2>3. IsSite(source, placement, b, i, v) <=> Defines(source, b, i, v)
      BY <2>1 DEF IsSite
    <2> QED
      BY <2>2, <2>3
  <1>12. after = c[n] /\ before \in Nat /\ after \in Nat
    <2>1. n \in 0 .. n
      BY <1>3
    <2> QED
      BY <1>5, <1>6, <1>8, <2>1
  <1> QED
    BY <1>3, <1>9, <1>10, <1>11, <1>12 DEF CountedThrough
-----------------------------------------------------------------------------
(* Places in l rows, row k of the places 0 to n[k], of which some are      *)
(* sites.  A counter c goes up by one at every site, from row to row: g[k] *)
(* is what row k leaves.                                                   *)
Numbers(l, n, g, c, Site) ==
    /\ l \in Nat /\ n \in [1 .. l -> Nat] /\ g \in [0 .. l -> Nat] /\ g[0] = 0
    /\ \A k \in 1 .. l :
           /\ \A i \in 0 .. n[k] : c[k][i] \in Nat
           /\ c[k][0] = IF <<k, 0>> \in Site THEN g[k - 1] + 1 ELSE g[k - 1]
           /\ \A i \in 1 .. n[k] :
                  c[k][i] = IF <<k, i>> \in Site THEN c[k][i - 1] + 1 ELSE c[k][i - 1]
           /\ g[k] = c[k][n[k]]

(* The counter of a row lies between those of the rows before and after.   *)
LEMMA RowsAreApart ==
    ASSUME NEW l, NEW n, NEW g, NEW c, NEW Site, Numbers(l, n, g, c, Site)
    PROVE  /\ \A k \in 1 .. l : \A i \in 0 .. n[k] :
                  /\ g[k - 1] <= c[k][i] /\ c[k][i] <= g[k]
                  /\ <<k, i>> \in Site => g[k - 1] < c[k][i]
           /\ \A k \in 1 .. l : \A i, j \in 0 .. n[k] :
                  i < j /\ <<k, j>> \in Site => c[k][i] < c[k][j]
           /\ \A j, k \in 0 .. l : j <= k => g[j] <= g[k]
  <1>1. /\ l \in Nat /\ \A k \in 1 .. l : n[k] \in Nat
        /\ \A k \in 0 .. l : g[k] \in Nat
    BY DEF Numbers
  <1>2. ASSUME NEW k \in 1 .. l
        PROVE  /\ \A i \in 0 .. n[k] :
                      /\ g[k - 1] <= c[k][i] /\ c[k][i] <= g[k]
                      /\ <<k, i>> \in Site => g[k - 1] < c[k][i]
               /\ \A i, j \in 0 .. n[k] :
                      i < j /\ <<k, j>> \in Site => c[k][i] < c[k][j]
    <2> PICK m, f, before, after : m = n[k] /\ f = c[k] /\ before = g[k - 1] /\ after = g[k]
      OBVIOUS
    <2>1. m \in Nat /\ before \in Nat /\ after \in Nat
      BY <1>1
    <2>2. /\ \A i \in 0 .. m : f[i] \in Nat
          /\ f[0] = IF <<k, 0>> \in Site THEN before + 1 ELSE before
          /\ \A i \in 1 .. m : f[i] = IF <<k, i>> \in Site THEN f[i - 1] + 1 ELSE f[i - 1]
          /\ after = f[m]
      BY DEF Numbers
    <2>3. \A i \in 1 .. m : f[i - 1] <= f[i]
      <3> TAKE i \in 1 .. m
      <3>2. f[i] = f[i - 1] + 1 \/ f[i] = f[i - 1]
        BY <2>2
      <3> QED
        BY <3>2, <2>2, <2>1
    <2>4. \A i, j \in 0 .. m : i <= j => f[i] <= f[j]
      <3>1. m \in Nat /\ \A i \in 0 .. m : f[i] \in Int
        BY <2>1, <2>2
      <3> QED
        BY ONLY <3>1, <2>3, NeverDown
    <2>5. \A i \in 0 .. m : f[0] <= f[i] /\ f[i] <= f[m] /\ before <= f[0]
      <3> TAKE i \in 0 .. m
      <3> QED
        BY <2>1, <2>2, <2>4
    <2>6. \A i, j \in 0 .. m : i < j /\ <<k, j>> \in Site => f[i] < f[j]
      <3> SUFFICES ASSUME NEW i \in 0 .. m, NEW j \in 0 .. m, i < j, <<k, j>> \in Site
                   PROVE  f[i] < f[j]
        OBVIOUS
      <3> QED
        BY <2>2, <2>1, <2>4
    <2>7. ASSUME NEW i \in 0 .. m, <<k, i>> \in Site
          PROVE  before < f[i]
      BY <2>1, <2>2, <2>7, <2>6, <2>5
    <2>8. \A i \in 0 .. m : before <= f[i] /\ f[i] <= after
      <3> TAKE i \in 0 .. m
      <3> QED
        BY <2>1, <2>2, <2>5
    <2> QED
      BY <2>6, <2>7, <2>8
  <1>3. \A k \in 1 .. l : g[k - 1] <= g[k]
    <2> TAKE k \in 1 .. l
    <2>1. 0 \in 0 .. n[k] /\ k - 1 \in 0 .. l /\ k \in 0 .. l
      BY <1>1
    <2>2. g[k - 1] <= c[k][0] /\ c[k][0] <= g[k] /\ c[k][0] \in Nat
      BY <1>2, <2>1 DEF Numbers
    <2> QED
      BY <1>1, <2>1, <2>2
  <1>4. \A j, k \in 0 .. l : j <= k => g[j] <= g[k]
    <2>1. \A k \in 0 .. l : g[k] \in Int
      BY <1>1
    <2> QED
      BY <1>1, <1>3, <2>1, NeverDown
  <1> QED
    BY <1>2, <1>4

(* Two sites never have the same number.                                   *)
LEMMA NumbersAreApart ==
    ASSUME NEW l, NEW n, NEW g, NEW c, NEW Site, Numbers(l, n, g, c, Site)
    PROVE  \A k, q \in 1 .. l : \A i \in 0 .. n[k], j \in 0 .. n[q] :
               <<k, i>> \in Site /\ <<q, j>> \in Site /\ c[k][i] = c[q][j] => k = q /\ i = j
  <1> SUFFICES ASSUME NEW k \in 1 .. l, NEW i \in 0 .. n[k], <<k, i>> \in Site,
                      NEW q \in 1 .. l, NEW j \in 0 .. n[q], <<q, j>> \in Site,
                      c[k][i] = c[q][j]
               PROVE  k = q /\ i = j
    OBVIOUS
  <1>1. /\ l \in Nat /\ n[k] \in Nat /\ n[q] \in Nat
        /\ \A m \in 0 .. l : g[m] \in Nat
        /\ c[k][i] \in Nat /\ c[q][j] \in Nat
    BY DEF Numbers
  <1>2. /\ g[k - 1] < c[k][i] /\ c[k][i] <= g[k]
        /\ g[q - 1] < c[q][j] /\ c[q][j] <= g[q]
    BY RowsAreApart
  <1>3. \A a, b \in 0 .. l : a <= b => g[a] <= g[b]
    BY RowsAreApart
  <1>4. /\ k - 1 \in 0 .. l /\ k \in 0 .. l /\ q - 1 \in 0 .. l /\ q \in 0 .. l
    BY <1>1
  <1>5. ~(k < q)
    <2> SUFFICES ASSUME k < q PROVE FALSE
      OBVIOUS
    <2> QED
      BY <1>1, <1>2, <1>4, <1>3
  <1>6. ~(q < k)
    <2> SUFFICES ASSUME q < k PROVE FALSE
      OBVIOUS
    <2> QED
      BY <1>1, <1>2, <1>4, <1>3
  <1> QED
    BY <1>1, <1>5, <1>6, RowsAreApart

(* Every number up to the last one is the number of a site.                *)
LEMMA NumbersAreUsed ==
    ASSUME NEW l, NEW n, NEW g, NEW c, NEW Site, Numbers(l, n, g, c, Site),
           NEW m \in 1 .. g[l]
    PROVE  \E k \in 1 .. l : \E i \in 0 .. n[k] : <<k, i>> \in Site /\ c[k][i] = m
  <1> DEFINE Used(x) == \A y \in 1 .. x :
                 \E k \in 1 .. l : \E i \in 0 .. n[k] : <<k, i>> \in Site /\ c[k][i] = y
             S == { k \in 0 .. l : Used(g[k]) }
  <1>1. /\ l \in Nat /\ \A k \in 1 .. l : n[k] \in Nat
        /\ \A k \in 0 .. l : g[k] \in Nat
        /\ g[0] = 0
    BY DEF Numbers
  <1>2. 0 \in S
    BY <1>1
  <1>3. ASSUME NEW x \in Nat, Used(x), NEW k \in 1 .. l, NEW i \in 0 .. n[k], <<k, i>> \in Site,
               c[k][i] = x + 1
        PROVE  Used(x + 1)
    <2> SUFFICES ASSUME NEW y \in 1 .. x + 1
                 PROVE  \E q \in 1 .. l : \E j \in 0 .. n[q] : <<q, j>> \in Site /\ c[q][j] = y
      OBVIOUS
    <2>1. y \in 1 .. x \/ y = x + 1
      OBVIOUS
    <2> QED
      BY <1>3, <2>1
  <1>4. ASSUME NEW k \in 1 .. l, k - 1 \in S
        PROVE  k \in S
    <2> PICK r, f, before, after : r = n[k] /\ f = c[k] /\ before = g[k - 1] /\ after = g[k]
      OBVIOUS
    <2>1. r \in Nat /\ before \in Nat /\ k \in 0 .. l /\ k - 1 \in 0 .. l
      BY <1>1
    <2>2. /\ \A i \in 0 .. r : f[i] \in Nat
          /\ f[0] = IF <<k, 0>> \in Site THEN before + 1 ELSE before
          /\ \A i \in 1 .. r : f[i] = IF <<k, i>> \in Site THEN f[i - 1] + 1 ELSE f[i - 1]
          /\ after = f[r]
      BY DEF Numbers
    <2> DEFINE Q == { i \in 0 .. r : Used(f[i]) }
    <2>3. Used(before)
      BY <1>4
    <2>4. 0 \in Q
      <3>1. 0 \in 0 .. r
        BY <2>1
      <3>2. CASE <<k, 0>> \in Site
        <4>1. f[0] = before + 1 /\ c[k][0] = before + 1 /\ 0 \in 0 .. n[k]
          BY <2>2, <3>1, <3>2
        <4> HIDE DEF Used
        <4>2. Used(before + 1)
          BY <1>3, <2>1, <2>3, <3>2, <4>1
        <4> QED
          BY <3>1, <4>1, <4>2
      <3>3. CASE <<k, 0>> \notin Site
        <4> HIDE DEF Used
        <4> QED
          BY <2>2, <2>3, <3>1, <3>3
      <3> QED
        BY <3>2, <3>3
    <2>5. ASSUME NEW i \in 1 .. r, i - 1 \in Q
          PROVE  i \in Q
      <3>1. i \in 0 .. r /\ i - 1 \in 0 .. r
        BY <2>1
      <3> HIDE DEF Used
      <3>2. Used(f[i - 1]) /\ f[i - 1] \in Nat
        BY <2>2, <2>5, <3>1
      <3>3. CASE <<k, i>> \in Site
        <4>1. f[i] = f[i - 1] + 1 /\ c[k][i] = f[i - 1] + 1 /\ i \in 0 .. n[k]
          BY <2>2, <3>1, <3>3
        <4>2. Used(f[i - 1] + 1)
          BY <1>3, <3>2, <3>3, <4>1
        <4> QED
          BY <3>1, <4>1, <4>2
      <3>4. CASE <<k, i>> \notin Site
        BY <2>2, <3>1, <3>2, <3>4
      <3> QED
        BY <3>3, <3>4
    <2>6. \A i \in 0 .. r : i \in Q
      <3> HIDE DEF Q
      <3> QED
        BY <2>1, <2>4, <2>5, BoundedInduction
    <2>7. r \in 0 .. r
      BY <2>1
    <2> HIDE DEF Used
    <2> QED
      BY <2>1, <2>2, <2>6, <2>7
  <1>5. \A k \in 0 .. l : k \in S
    <2> HIDE DEF S
    <2> QED
      BY <1>1, <1>2, <1>4, BoundedInduction
  <1>6. l \in 0 .. l
    BY <1>1
  <1> QED
    BY <1>5, <1>6
-----------------------------------------------------------------------------
(* The versions of a variable.                                             *)
LastVersion(source, placement, v) == Renamed(source, placement).counter[v]

(* The number of instructions of block b.                                  *)
Length(source, b) == Len(source.instructions[b])

(* The version of v that instruction i of block b, or its phi for i = 0,   *)
(* defines.                                                                *)
VersionNumber(source, placement, b, i, v) == CountersIn(source, placement, b, i)[v]

(* Every site makes a version of its own, and the versions on top of the   *)
(* stacks are those and the initial one.                                   *)
VersionsMade(source, placement, v) ==
    LET R    == ReachableFrom(source.succ, source.start)
        last == LastVersion(source, placement, v)
    IN  /\ last \in Nat
        /\ \A b \in R : \A i \in 0 .. Length(source, b) :
               /\ VersionNumber(source, placement, b, i, v) \in 0 .. last
               /\ IsSite(source, placement, b, i, v) =>
                      VersionNumber(source, placement, b, i, v) \in 1 .. last
        /\ \A m \in 1 .. last : \E b \in R : \E i \in 0 .. Length(source, b) :
               IsSite(source, placement, b, i, v) /\ VersionNumber(source, placement, b, i, v) = m
        /\ \A b, d \in R : \A i \in 0 .. Length(source, b), j \in 0 .. Length(source, d) :
               /\ IsSite(source, placement, b, i, v) /\ IsSite(source, placement, d, j, v)
               /\ VersionNumber(source, placement, b, i, v) = VersionNumber(source, placement, d, j, v)
               => b = d /\ i = j

(* A block has one place in the preorder.                                  *)
LEMMA EntryOfBlock ==
    ASSUME NEW source, NEW V, IsProgram(source, V), NEW k \in 1 .. Entries(source)
    PROVE  EntryOf(source, BlockAt(source, k)) = k
  <1> QED
    BY EntriesFacts DEF EntryOf

(* Two definitions of a variable get different versions.                   *)
LEMMA VersionsOfSites ==
    ASSUME NEW source, NEW placement, RenamesSource(source, placement), NEW v \in source.variables
    PROVE  VersionsMade(source, placement, v)
  <1> PICK l, V : l = Entries(source) /\ V = source.variables
    OBVIOUS
  <1> DEFINE R == ReachableFrom(source.succ, source.start)
             o(k) == BlockAt(source, k)
             A == AfterBlocks(source, placement)
             B(k) == BodyAt(source, placement, k)
             N == [ k \in 1 .. l |-> Len(source.instructions[o(k)]) ]
             G == [ k \in 0 .. l |-> A[k].counter[v] ]
             C == [ k \in 1 .. l |-> [ i \in 0 .. N[k] |-> B(k)[i].counter[v] ] ]
             Site == { s \in (1 .. l) \X Nat : IsSite(source, placement, o(s[1]), s[2], v) }
  <1>1. IsProgram(source, V)
    BY DEF RenamesSource
  <1>2. /\ l \in Nat
        /\ \A k \in 1 .. l : o(k) \in R
        /\ \A b \in R : \E k \in 1 .. l : o(k) = b
    BY <1>1, EntriesFacts
  <1>3. \A k \in 1 .. l : EntryOf(source, o(k)) = k
    BY <1>1, EntryOfBlock
  <1>4. /\ \A k \in 1 .. l : N[k] = Length(source, o(k)) /\ N[k] \in Nat
        /\ N \in [1 .. l -> Nat]
    <2>1. \A b \in R : Len(source.instructions[b]) \in Nat
      BY <1>1, ProgramFacts
    <2> QED
      BY <1>2, <2>1 DEF Length
  <1>5. \A k \in 1 .. l : \A i : VersionNumber(source, placement, o(k), i, v) = B(k)[i].counter[v]
    BY <1>3 DEF VersionNumber, CountersIn
  <1>6. LastVersion(source, placement, v) = G[l]
    <2>1. l \in 0 .. l
      BY <1>2
    <2> QED
      BY <2>1 DEF LastVersion, Renamed, Entries
  <1>7. ASSUME NEW k \in 1 .. l
        PROVE  /\ G[k - 1] \in Nat /\ G[k] \in Nat
               /\ C[k] \in [0 .. N[k] -> Nat]
               /\ C[k][0] = IF IsSite(source, placement, o(k), 0, v) THEN G[k - 1] + 1 ELSE G[k - 1]
               /\ \A i \in 1 .. N[k] :
                      C[k][i] = IF IsSite(source, placement, o(k), i, v) THEN C[k][i - 1] + 1
                                ELSE C[k][i - 1]
               /\ G[k] = C[k][N[k]]
    <2> PICK n, b, before, after, c : /\ b = o(k) /\ n = Len(source.instructions[b])
                                      /\ before = A[k - 1].counter[v]
                                      /\ after = A[k].counter[v]
                                      /\ c = [ i \in 0 .. n |-> B(k)[i].counter[v] ]
      OBVIOUS
    <2>1. n = N[k] /\ G[k - 1] = before /\ G[k] = after /\ C[k] = c
      <3>1. k - 1 \in 0 .. l /\ k \in 0 .. l
        BY <1>2
      <3> QED
        BY <3>1
    <2>2. /\ n \in Nat /\ before \in Nat /\ after \in Nat /\ c \in [0 .. n -> Nat]
          /\ c[0] = IF IsSite(source, placement, b, 0, v) THEN before + 1 ELSE before
          /\ \A i \in 1 .. n :
                 c[i] = IF IsSite(source, placement, b, i, v) THEN c[i - 1] + 1 ELSE c[i - 1]
          /\ after = c[n]
      <3>1. k \in 1 .. Entries(source)
        OBVIOUS
      <3>2. CountedThrough(source, placement, b, v, n, before, after, c)
        BY <3>1, CountersOfABlock
      <3> QED
        BY <3>2 DEF CountedThrough
    <2> HIDE DEF N, G, C, o
    <2> QED
      BY <2>1, <2>2
  <1>8. G[0] = 0
    <2>1. A[0] = InitialRenaming(source) /\ 0 \in 0 .. l
      BY <1>2, BlocksUnfold DEF Entries
    <2> QED
      BY <2>1 DEF InitialRenaming
  <1>9. G \in [0 .. l -> Nat]
    <2>1. \A k \in 0 .. l : G[k] \in Nat
      <3> TAKE k \in 0 .. l
      <3>1. k = 0 \/ k \in 1 .. l
        BY <1>2
      <3>2. \A q \in 1 .. l : G[q] \in Nat
        BY <1>7
      <3> HIDE DEF G
      <3> QED
        BY <1>8, <3>1, <3>2
    <2>2. DOMAIN G = 0 .. l /\ G = [ k \in 0 .. l |-> G[k] ]
      OBVIOUS
    <2> HIDE DEF G
    <2> QED
      BY <2>1, <2>2
  <1>10. \A k \in 1 .. l : \A i \in 0 .. N[k] :
             /\ <<k, i>> \in Site <=> IsSite(source, placement, o(k), i, v)
             /\ C[k][i] = VersionNumber(source, placement, o(k), i, v)
    <2> TAKE k \in 1 .. l
    <2> TAKE i \in 0 .. N[k]
    <2>1. <<k, i>> \in (1 .. l) \X Nat
      BY <1>4
    <2> QED
      BY <1>5, <2>1
  <1> HIDE DEF N, G, C, Site, A, B, o
  <1>11. Numbers(l, N, G, C, Site)
    <2> SUFFICES ASSUME NEW k \in 1 .. l
                 PROVE  /\ \A i \in 0 .. N[k] : C[k][i] \in Nat
                        /\ C[k][0] = IF <<k, 0>> \in Site THEN G[k - 1] + 1 ELSE G[k - 1]
                        /\ \A i \in 1 .. N[k] :
                               C[k][i] = IF <<k, i>> \in Site THEN C[k][i - 1] + 1 ELSE C[k][i - 1]
                        /\ G[k] = C[k][N[k]]
      BY <1>2, <1>4, <1>8, <1>9 DEF Numbers
    <2>1. \A i \in 1 .. N[k] : i \in 0 .. N[k]
      BY <1>4
    <2>2. 0 \in 0 .. N[k]
      BY <1>4
    <2>3. \A i \in 0 .. N[k] : C[k][i] \in Nat
      BY <1>7
    <2>4. C[k][0] = IF <<k, 0>> \in Site THEN G[k - 1] + 1 ELSE G[k - 1]
      BY <1>7, <1>10, <2>2
    <2>5. \A i \in 1 .. N[k] :
              C[k][i] = IF <<k, i>> \in Site THEN C[k][i - 1] + 1 ELSE C[k][i - 1]
      BY <1>7, <1>10, <2>1
    <2> QED
      BY <1>7, <2>3, <2>4, <2>5
  <1>12. /\ \A k \in 1 .. l : \A i \in 0 .. N[k] :
                /\ G[k - 1] <= C[k][i] /\ C[k][i] <= G[k]
                /\ <<k, i>> \in Site => G[k - 1] < C[k][i]
         /\ \A j, k \in 0 .. l : j <= k => G[j] <= G[k]
    BY <1>11, RowsAreApart
  <1>13. ASSUME NEW b \in R, NEW i \in 0 .. Length(source, b)
         PROVE  /\ VersionNumber(source, placement, b, i, v) \in 0 .. G[l]
                /\ IsSite(source, placement, b, i, v) =>
                       VersionNumber(source, placement, b, i, v) \in 1 .. G[l]
    <2>1. PICK k \in 1 .. l : o(k) = b
      BY <1>2
    <2>2. i \in 0 .. N[k]
      BY <1>4, <2>1
    <2> PICK m : m = VersionNumber(source, placement, b, i, v)
      OBVIOUS
    <2>3. /\ m = C[k][i] /\ m \in Nat /\ m <= G[k] /\ G[k - 1] <= m
          /\ IsSite(source, placement, b, i, v) => G[k - 1] < m
      <3>1. m = C[k][i] /\ (IsSite(source, placement, b, i, v) <=> <<k, i>> \in Site)
        BY <1>10, <2>1, <2>2
      <3>2. C[k][i] \in Nat
        BY <1>7, <2>2
      <3>2a. m \in Nat
        BY <3>1, <3>2
      <3> QED
        BY <1>12, <2>2, <3>1, <3>2a
    <2>4. k \in 0 .. l /\ l \in 0 .. l /\ k <= l
      BY <1>2
    <2>5. G[k] <= G[l] /\ G[k] \in Nat /\ G[l] \in Nat /\ G[k - 1] \in Nat
      BY <1>7, <1>9, <1>12, <2>4
    <2> HIDE DEF R
    <2>6. m \in 0 .. G[l] /\ (IsSite(source, placement, b, i, v) => m \in 1 .. G[l])
      BY <2>3, <2>5
    <2> QED
      BY <2>6
  <1>14. ASSUME NEW m \in 1 .. G[l]
         PROVE  \E b \in R : \E i \in 0 .. Length(source, b) :
                    IsSite(source, placement, b, i, v)
                    /\ VersionNumber(source, placement, b, i, v) = m
    <2>1. PICK k \in 1 .. l : \E i \in 0 .. N[k] : <<k, i>> \in Site /\ C[k][i] = m
      BY <1>11, NumbersAreUsed
    <2>2. PICK i \in 0 .. N[k] : <<k, i>> \in Site /\ C[k][i] = m
      BY <2>1
    <2>3. o(k) \in R /\ i \in 0 .. Length(source, o(k))
      BY <1>2, <1>4
    <2>4. IsSite(source, placement, o(k), i, v) /\ VersionNumber(source, placement, o(k), i, v) = m
      BY <1>10, <2>2
    <2> HIDE DEF R
    <2> QED
      BY <2>3, <2>4
  <1>15. ASSUME NEW b \in R, NEW d \in R, NEW i \in 0 .. Length(source, b), NEW j \in 0 .. Length(source, d),
                IsSite(source, placement, b, i, v), IsSite(source, placement, d, j, v),
                VersionNumber(source, placement, b, i, v) = VersionNumber(source, placement, d, j, v)
         PROVE  b = d /\ i = j
    <2>1. PICK k \in 1 .. l : o(k) = b
      BY <1>2
    <2>2. PICK q \in 1 .. l : o(q) = d
      BY <1>2
    <2>3. i \in 0 .. N[k] /\ j \in 0 .. N[q]
      BY <1>4, <2>1, <2>2
    <2>4. <<k, i>> \in Site /\ <<q, j>> \in Site /\ C[k][i] = C[q][j]
      BY <1>10, <1>15, <2>1, <2>2, <2>3
    <2> HIDE DEF R
    <2>5. k = q /\ i = j
      <3>1. \A x, y \in 1 .. l : \A s \in 0 .. N[x], t \in 0 .. N[y] :
                <<x, s>> \in Site /\ <<y, t>> \in Site /\ C[x][s] = C[y][t] => x = y /\ s = t
        BY <1>11, NumbersAreApart
      <3> QED
        BY <2>3, <2>4, <3>1
    <2> QED
      BY <2>1, <2>2, <2>5
  <1>16. G[l] \in Nat
    <2>1. l \in 0 .. l
      BY <1>2
    <2> QED
      BY <1>9, <2>1
  <1> HIDE DEF R
  <1> QED
    BY <1>6, <1>13, <1>14, <1>15, <1>16 DEF VersionsMade, R
(* A function gives no more values than it has arguments.                  *)
LEMMA RangeIsSmall ==
    ASSUME NEW S, IsFiniteSet(S), NEW T, NEW f \in [S -> T], \A t \in T : \E s \in S : f[s] = t
    PROVE  IsFiniteSet(T) /\ Cardinality(T) <= Cardinality(S)
  <1>1. f \in Surjection(S, T)
    BY DEF Surjection
  <1> QED
    BY <1>1, FS_Surjection

(* An injective function needs as many values as it has arguments.         *)
LEMMA DomainIsSmall ==
    ASSUME NEW T, IsFiniteSet(T), NEW S, NEW f \in [S -> T],
           \A s, t \in S : f[s] = f[t] => s = t
    PROVE  IsFiniteSet(S) /\ Cardinality(S) <= Cardinality(T)
  <1> QED
    BY FS_Injection DEF Injection, IsInjective

(* A variable has finitely many definitions.                               *)
LEMMA SitesAreFinite ==
    ASSUME NEW source, NEW V, IsProgram(source, V), NEW v
    PROVE  /\ IsFiniteSet(InstructionSites(source, v))
           /\ \A b \in Blocks(source.succ) : \A i \in 1 .. Length(source, b) :
                  Defines(source, b, i, v) => <<b, i>> \in InstructionSites(source, v)
  <1> PICK U : U = Blocks(source.succ)
    OBVIOUS
  <1> DEFINE In(b) == { <<b, i>> : i \in { j \in DOMAIN source.instructions[b] :
                                     v \in ToSet(source.instructions[b][j].definitions) } }
             All == { In(b) : b \in U }
  <1>1. IsFiniteSet(U)
    BY DEF IsProgram
  <1>3. \A b \in U : DOMAIN source.instructions[b] = 1 .. Length(source, b) /\ Length(source, b) \in Nat
    BY ProgramFacts DEF Length, Blocks
  <1>4. ASSUME NEW b \in U
        PROVE  IsFiniteSet(In(b))
    <2> DEFINE D == { j \in DOMAIN source.instructions[b] :
                        v \in ToSet(source.instructions[b][j].definitions) }
               f == [ i \in D |-> <<b, i>> ]
    <2>1. D \subseteq 1 .. Length(source, b)
      BY <1>3
    <2>2. IsFiniteSet(1 .. Length(source, b))
      BY <1>3, FS_Interval
    <2>3. IsFiniteSet(D)
      <3> HIDE DEF D
      <3> QED
        BY <2>1, <2>2, FS_Subset
    <2>4. In(b) = { <<b, i>> : i \in D }
      OBVIOUS
    <2> HIDE DEF D, In
    <2>5. f \in [D -> In(b)] /\ \A t \in In(b) : \E s \in D : f[s] = t
      BY <2>4
    <2> HIDE DEF f
    <2> QED
      BY <2>3, <2>5, RangeIsSmall
  <1>5. IsFiniteSet(All)
    <2> DEFINE f == [ b \in U |-> In(b) ]
    <2> HIDE DEF In
    <2>1. f \in [U -> All] /\ \A t \in All : \E s \in U : f[s] = t
      OBVIOUS
    <2> HIDE DEF f, All
    <2> QED
      BY <1>1, <2>1, RangeIsSmall
  <1>6. \A T \in All : IsFiniteSet(T)
    <2> HIDE DEF In
    <2> QED
      BY <1>4
  <1>7. IsFiniteSet(UNION All)
    <2> HIDE DEF All
    <2> QED
      BY <1>5, <1>6, FS_UNION
  <1>8. InstructionSites(source, v) = UNION All
    BY DEF InstructionSites
  <1>9. ASSUME NEW b \in U, NEW i \in 1 .. Length(source, b), Defines(source, b, i, v)
        PROVE  <<b, i>> \in UNION All
    <2>2. <<b, i>> \in In(b)
      BY <1>9, <1>3 DEF Defines
    <2> HIDE DEF In
    <2> QED
      BY <2>2
  <1> HIDE DEF All
  <1> QED
    BY <1>7, <1>8, <1>9

(* VersionSpan leaves room for the versions of every variable.             *)
LEMMA VersionsAreFew ==
    ASSUME NEW source, NEW placement, RenamesSource(source, placement), NEW v \in source.variables
    PROVE  LastVersion(source, placement, v) < VersionSpan
  <1> PICK last, U : last = LastVersion(source, placement, v) /\ U = Blocks(source.succ)
    OBVIOUS
  <1> DEFINE R == ReachableFrom(source.succ, source.start)
             I == InstructionSites(source, v)
             P == U \X {0}
             T == P \cup I
             Made(s, m) == /\ s \in T /\ s[1] \in R /\ s[2] \in 0 .. Length(source, s[1])
                           /\ VersionNumber(source, placement, s[1], s[2], v) = m
             f == [ m \in 1 .. last |-> CHOOSE s : Made(s, m) ]
  <1>1. IsProgram(source, source.variables)
        /\ Cardinality(U) + Cardinality(I) < VersionSpan
    BY DEF RenamesSource
  <1>2. /\ IsFiniteSet(I)
        /\ \A b \in U : \A i \in 1 .. Length(source, b) : Defines(source, b, i, v) => <<b, i>> \in I
    BY <1>1, SitesAreFinite
  <1>3. IsFiniteSet(U) /\ R \subseteq U
    <2>1. IsFiniteSet(U)
      BY <1>1 DEF IsProgram
    <2> QED
      BY <1>1, <2>1, ProgramFacts DEF Blocks
  <1>4. IsFiniteSet(P) /\ Cardinality(P) = Cardinality(U) /\ Cardinality(U) \in Nat
    <2>1. IsFiniteSet({0}) /\ Cardinality({0}) = 1
      BY FS_Singleton
    <2> PICK Z : Z = {0}
      OBVIOUS
    <2>2. IsFiniteSet(U \X Z) /\ Cardinality(U \X Z) = Cardinality(U) * Cardinality(Z)
      BY <1>3, <2>1, FS_Product
    <2>3. Cardinality(U) \in Nat
      BY <1>3, FS_CardinalityType
    <2> QED
      BY <2>1, <2>2, <2>3
  <1>5. IsFiniteSet(T) /\ Cardinality(T) <= Cardinality(U) + Cardinality(I) /\ Cardinality(T) \in Nat
        /\ Cardinality(I) \in Nat
    <2> HIDE DEF P, I
    <2>1. IsFiniteSet(T) /\ Cardinality(T) = Cardinality(P) + Cardinality(I) - Cardinality(P \cap I)
      BY <1>2, <1>4, FS_Union
    <2>2. IsFiniteSet(P \cap I)
      BY <1>2, FS_Subset
    <2>3. Cardinality(P \cap I) \in Nat /\ Cardinality(I) \in Nat /\ Cardinality(T) \in Nat
      BY <1>2, <2>1, <2>2, FS_CardinalityType
    <2> QED
      BY <1>4, <2>1, <2>3
  <1>6. last \in Nat
    BY VersionsOfSites DEF VersionsMade
  <1>7. \A m \in 1 .. last : Made(f[m], m)
    <2> TAKE m \in 1 .. last
    <2>1. PICK b \in R : \E i \in 0 .. Length(source, b) :
              IsSite(source, placement, b, i, v) /\ VersionNumber(source, placement, b, i, v) = m
      BY VersionsOfSites DEF VersionsMade
    <2>2. PICK i \in 0 .. Length(source, b) :
              IsSite(source, placement, b, i, v) /\ VersionNumber(source, placement, b, i, v) = m
      BY <2>1
    <2>3. <<b, i>> \in T
      <3>1. b \in U
        BY <1>3
      <3>2. CASE i = 0
        BY <3>1, <3>2
      <3>3. CASE i # 0
        <4>1. i \in 1 .. Len(source.instructions[b]) /\ Defines(source, b, i, v)
          BY <2>2, <3>3 DEF IsSite
        <4>2. <<b, i>> \in I
          BY <1>2, <3>1, <4>1 DEF Length
        <4> QED
          BY <4>2
      <3> QED
        BY <3>2, <3>3
    <2>4. Made(<<b, i>>, m)
      BY <2>2, <2>3
    <2> HIDE DEF Made
    <2> QED
      BY <2>4
  <1> HIDE DEF f
  <1>8. \A m, q \in 1 .. last : f[m] = f[q] => m = q
    BY <1>7
  <1>9. f \in [1 .. last -> T]
    <2>1. \A m \in 1 .. last : f[m] \in T
      BY <1>7
    <2> QED
      BY <2>1 DEF f
  <1> HIDE DEF T
  <1>10. Cardinality(1 .. last) <= Cardinality(T)
    BY <1>5, <1>8, <1>9, DomainIsSmall
  <1>11. Cardinality(1 .. last) = last
    <2>1. 1 \in Int /\ last \in Int
      BY <1>6
    <2> QED
      BY <1>6, <2>1, FS_Interval
  <1> QED
    BY <1>1, <1>4, <1>5, <1>6, <1>10, <1>11, VersionSpanAssumption
(* What is on top of a stack is a version made or the initial one.         *)
LEMMA TopsAreVersions ==
    ASSUME NEW source, NEW placement, RenamesSource(source, placement), NEW v \in source.variables
    PROVE  \A b \in ReachableFrom(source.succ, source.start) : \A i \in 0 .. Length(source, b) :
               TopsIn(source, placement, b, i)[v] \in 0 .. LastVersion(source, placement, v)
  <1> PICK l, V, last : l = Entries(source) /\ V = source.variables
                        /\ last = LastVersion(source, placement, v)
    OBVIOUS
  <1> DEFINE R == ReachableFrom(source.succ, source.start)
             o(k) == BlockAt(source, k)
             T(b, i) == TopsIn(source, placement, b, i)[v]
             Good(b) == \A i \in 0 .. Length(source, b) : T(b, i) \in 0 .. last
             S == { k \in 0 .. l : \A j \in 1 .. k : Good(o(j)) }
             Idom(b) == ImmediateDominator(source.succ, source.start, b)
  <1>2. /\ l \in Nat
        /\ \A k \in 1 .. l : o(k) \in R
        /\ \A b \in R : \E k \in 1 .. l : o(k) = b
        /\ \A k \in 1 .. l : o(k) # source.start => \E j \in 1 .. k - 1 : o(j) = Idom(o(k))
    BY EntriesFacts DEF RenamesSource
  <1>3. \A b \in R : BlockRenaming(source, placement, b)
    BY RenamingOfBlocks
  <1>4. last \in Nat /\ \A b \in R : \A i \in 0 .. Length(source, b) :
            VersionNumber(source, placement, b, i, v) \in 0 .. last
    BY VersionsOfSites DEF VersionsMade
  <1>5. ASSUME NEW b \in R
        PROVE  /\ Length(source, b) \in Nat
               /\ \/ T(b, 0) = VersionNumber(source, placement, b, 0, v)
                  \/ T(b, 0) = 0
                  \/ b # source.start /\ T(b, 0) = Renamed(source, placement).top[Idom(b)][v]
               /\ Renamed(source, placement).top[b][v] = T(b, Length(source, b))
               /\ \A i \in 1 .. Length(source, b) :
                      T(b, i) = VersionNumber(source, placement, b, i, v) \/ T(b, i) = T(b, i - 1)
    <2>1. BlockRenaming(source, placement, b)
      BY <1>3
    <2> QED
      BY <2>1 DEF BlockRenaming, Length, VersionNumber
  <1> HIDE DEF T, R, o, Idom
  <1>6. ASSUME NEW k \in 1 .. l, k - 1 \in S
        PROVE  Good(o(k))
    <2> PICK b, n : b = o(k) /\ n = Length(source, b)
      OBVIOUS
    <2>1. b \in R /\ n \in Nat
      BY <1>2, <1>5
    <2>2. T(b, 0) \in 0 .. last
      <3>1. CASE T(b, 0) = VersionNumber(source, placement, b, 0, v)
        BY <1>4, <2>1, <3>1
      <3>2. CASE T(b, 0) = 0
        BY <1>4, <3>2
      <3>3. CASE b # source.start /\ T(b, 0) = Renamed(source, placement).top[Idom(b)][v]
        <4>1. PICK j \in 1 .. k - 1 : o(j) = Idom(b)
          BY <1>2, <3>3
        <4> QED
          BY <1>5, <3>3, <4>1, <1>2, <1>6
      <3> QED
        BY <1>5, <2>1, <3>1, <3>2, <3>3
    <2> DEFINE Q == { i \in 0 .. n : T(b, i) \in 0 .. last }
    <2>3. 0 \in Q
      BY <2>1, <2>2
    <2>4. ASSUME NEW i \in 1 .. n, i - 1 \in Q PROVE i \in Q
      BY <2>1, <1>5, <1>4, <2>4
    <2>5. \A i \in 0 .. n : i \in Q
      <3> HIDE DEF Q
      <3> QED
        BY <2>1, <2>3, <2>4, BoundedInduction
    <2> QED
      BY <2>5
  <1>7. ASSUME NEW k \in 1 .. l, k - 1 \in S
        PROVE  k \in S
    <2> HIDE DEF Good
    <2> QED
      BY <1>6, <1>7, <1>2
  <1>8. 0 \in S
    BY <1>2
  <1>9. \A k \in 0 .. l : k \in S
    <2> HIDE DEF S
    <2> QED
      BY <1>2, <1>7, <1>8, BoundedInduction
  <1>10. \A b \in R : Good(b)
    <2> TAKE b \in R
    <2>1. PICK k \in 1 .. l : o(k) = b
      BY <1>2
    <2> HIDE DEF Good
    <2> QED
      BY <2>1, <1>2, <1>9
  <1> QED
    BY <1>10 DEF R, T
-----------------------------------------------------------------------------
(* Values: a variable and a version.                                       *)
LEMMA SsaValueFacts ==
    ASSUME NEW v \in Nat, NEW n \in 0 .. VersionSpan - 1
    PROVE  SsaValue(v, n) \in Nat /\ VariableOf(SsaValue(v, n)) = v /\ VersionOf(SsaValue(v, n)) = n
  <1> PICK s : s = VersionSpan
    OBVIOUS
  <1>2. s \in Nat /\ s > 0 /\ n \in Nat /\ n < s
    BY VersionSpanAssumption
  <1> PICK m : m = v * s
    OBVIOUS
  <1>3. m \in Nat
    BY <1>2
  <1>4. (m + n) \div s = v /\ (m + n) % s = n
    <2> PICK q, r : q = (m + n) \div s /\ r = (m + n) % s
      OBVIOUS
    <2>2. v * s + n = s * q + r /\ r \in 0 .. s - 1 /\ q \in Int
      BY <1>2, <1>3
    <2>3. q = v
      <3>1. ~(q < v)
        <4> SUFFICES ASSUME q < v PROVE FALSE
          OBVIOUS
        <4>1. s * (v - q) >= s
          <5> PICK d : d = v - q
            OBVIOUS
          <5> QED
            BY <1>2, <2>2
        <4> QED
          BY <1>2, <2>2, <4>1
      <3>2. ~(v < q)
        <4> SUFFICES ASSUME v < q PROVE FALSE
          OBVIOUS
        <4> QED
          BY <1>2, <2>2
      <3> QED
        BY <2>2, <3>1, <3>2
    <2> QED
      BY <1>2, <2>2, <2>3
  <1> QED
    BY <1>2, <1>3, <1>4 DEF SsaValue, VariableOf, VersionOf

(* Versions that fit under VersionSpan give different numbers to different *)
(* values.                                                                 *)
LEMMA SsaValuesDiffer ==
    ASSUME NEW v \in Nat, NEW n \in 0 .. VersionSpan - 1, NEW w \in Nat, NEW m \in 0 .. VersionSpan - 1,
           SsaValue(v, n) = SsaValue(w, m)
    PROVE  v = w /\ n = m
  <1> QED
    BY SsaValueFacts

(* The SSA program a placement gives.                                      *)
PhiOf(source, placement, b, v) ==
    [ variable |-> v,
      result   |-> SsaValue(v, TopsIn(source, placement, b, 0)[v]),
      incoming |-> [ p \in UniquePredecessors(source.succ, ReachableFrom(source.succ, source.start), b) |->
                       SsaValue(v, TopsIn(source, placement, p, Length(source, p))[v]) ] ]

(* p is the SSA form of source for a placement of phis.                    *)
FormOf(source, placement, p) ==
    LET R == ReachableFrom(source.succ, source.start)
        U == Blocks(source.succ)
        V == source.variables
    IN  /\ p.start = source.start /\ p.succ = source.succ /\ p.variables = V
        /\ DOMAIN p.phis = U /\ DOMAIN p.instructions = U /\ DOMAIN p.control = U
        /\ \A b \in U \ R : p.phis[b] = {} /\ p.instructions[b] = << >>
        /\ \A b \in R : p.entry[b] = TopsIn(source, placement, b, 0)
        /\ \A b \in R : p.phis[b] = { PhiOf(source, placement, b, v) :
                                        v \in { w \in V : <<b, w>> \in placement } }
        /\ \A b \in R :
               /\ p.instructions[b] \in Seq(InstructionsOver(Nat))
               /\ Len(p.instructions[b]) = Length(source, b)
               /\ \A i \in 1 .. Length(source, b) :
                      p.instructions[b][i]
                          = InstructionRenamed(source.instructions[b][i],
                                               TopsIn(source, placement, b, i - 1),
                                               CountersIn(source, placement, b, i))
        /\ \A b \in R :
               p.control[b] = IF source.control[b].kind = "branch_if_nonzero"
                              THEN [source.control[b] EXCEPT
                                      !.predicate = SsaValue(@, TopsIn(source, placement, b,
                                                                       Length(source, b))[@])]
                              ELSE source.control[b]

(* WithPlacement makes the SSA form of its source.                         *)
LEMMA FormFacts ==
    ASSUME NEW source, NEW placement, RenamesSource(source, placement),
           NEW p, p = WithPlacement(source, placement)
    PROVE  FormOf(source, placement, p)
  <1> PICK V, renamed, R, U : /\ V = source.variables /\ renamed = Renamed(source, placement)
                              /\ R = ReachableFrom(source.succ, source.start)
                              /\ U = Blocks(source.succ)
    OBVIOUS
  <1> DEFINE Phi(b, v) == [ variable |-> v,
                       result   |-> SsaValue(v, renamed.entry[b][v]),
                       incoming |-> [ q \in UniquePredecessors(source.succ, R, b) |->
                                        SsaValue(v, renamed.top[q][v]) ] ]
             Phis(b) == { Phi(b, v) : v \in { w \in V : <<b, w>> \in placement } }
             Ctl(b) == IF source.control[b].kind = "branch_if_nonzero"
                       THEN [source.control[b] EXCEPT !.predicate = SsaValue(@, renamed.top[b][@])]
                       ELSE source.control[b]
  <1>1. /\ p.start = source.start /\ p.succ = source.succ /\ p.variables = V
        /\ p.phis = [ b \in U |-> Phis(b) ] /\ p.instructions = renamed.instructions
        /\ p.control = [ b \in U |-> Ctl(b) ] /\ p.entry = renamed.entry
    BY DEF WithPlacement
  <1>2. /\ \A b \in R : BlockRenaming(source, placement, b)
        /\ \A b \in U \ R : renamed.instructions[b] = << >>
        /\ DOMAIN renamed.instructions = U
    BY RenamingOfBlocks
  <1>3. R \subseteq U
    BY ProgramFacts DEF RenamesSource, Blocks
  <1>4. \A b \in R : /\ renamed.entry[b] = TopsIn(source, placement, b, 0)
                     /\ renamed.top[b] = TopsIn(source, placement, b, Length(source, b))
    BY <1>2 DEF BlockRenaming, Length
  <1>5. ASSUME NEW b \in R
        PROVE  p.phis[b] = { PhiOf(source, placement, b, v) : v \in { w \in V : <<b, w>> \in placement } }
    <2>2. \A v : Phi(b, v) = PhiOf(source, placement, b, v)
      BY <1>4 DEF PhiOf, UniquePredecessors
    <2>3. p.phis[b] = Phis(b)
      BY <1>1, <1>3
    <2> HIDE DEF Phi
    <2> QED
      BY <2>2, <2>3
  <1>6. ASSUME NEW b \in U, b \notin R
        PROVE  p.phis[b] = {} /\ p.instructions[b] = << >>
    <2>1. { w \in V : <<b, w>> \in placement } = {}
      BY <1>6 DEF RenamesSource
    <2>3. Phis(b) = {}
      <3> HIDE DEF Phi
      <3> QED
        BY <2>1
    <2> QED
      BY <1>1, <1>2, <1>6, <2>3
  <1>7. ASSUME NEW b \in R
        PROVE  /\ p.instructions[b] \in Seq(InstructionsOver(Nat))
               /\ Len(p.instructions[b]) = Length(source, b)
               /\ \A i \in 1 .. Length(source, b) :
                      p.instructions[b][i]
                          = InstructionRenamed(source.instructions[b][i],
                                               TopsIn(source, placement, b, i - 1),
                                               CountersIn(source, placement, b, i))
    BY <1>1, <1>2 DEF BlockRenaming, Length
  <1>8. ASSUME NEW b \in R
        PROVE  p.control[b] = IF source.control[b].kind = "branch_if_nonzero"
                              THEN [source.control[b] EXCEPT
                                      !.predicate = SsaValue(@, TopsIn(source, placement, b,
                                                                       Length(source, b))[@])]
                              ELSE source.control[b]
    BY <1>1, <1>3, <1>4
  <1>10. DOMAIN p.phis = U /\ DOMAIN p.instructions = U /\ DOMAIN p.control = U
    <2> HIDE DEF Phis, Ctl
    <2> QED
      BY <1>1, <1>2
  <1> HIDE DEF Phis, Ctl, Phi
  <1> QED
    BY <1>5, <1>6, <1>7, <1>8, <1>1, <1>4, <1>10, ZenonT(60) DEF FormOf
-----------------------------------------------------------------------------
(* The values of a form and where they are defined.                        *)
SiteValue(source, placement, b, i, v) == SsaValue(v, VersionNumber(source, placement, b, i, v))

(* The versions of a variable fit under VersionSpan.                       *)
LEMMA VersionsFit ==
    ASSUME NEW source, NEW placement, RenamesSource(source, placement), NEW v \in source.variables
    PROVE  /\ v \in Nat
           /\ \A b \in ReachableFrom(source.succ, source.start) : \A i \in 0 .. Length(source, b) :
                  /\ TopsIn(source, placement, b, i)[v] \in 0 .. VersionSpan - 1
                  /\ TopsIn(source, placement, b, i)[v] <= LastVersion(source, placement, v)
                  /\ VersionNumber(source, placement, b, i, v) \in 0 .. VersionSpan - 1
                  /\ IsSite(source, placement, b, i, v) =>
                         VersionNumber(source, placement, b, i, v) # 0
  <1> PICK last : last = LastVersion(source, placement, v)
    OBVIOUS
  <1>3. ASSUME NEW b \in ReachableFrom(source.succ, source.start), NEW i \in 0 .. Length(source, b)
        PROVE  /\ TopsIn(source, placement, b, i)[v] \in 0 .. last
               /\ VersionNumber(source, placement, b, i, v) \in 0 .. last
               /\ IsSite(source, placement, b, i, v) =>
                      VersionNumber(source, placement, b, i, v) \in 1 .. last
    BY TopsAreVersions, VersionsOfSites DEF VersionsMade
  <1>4. /\ 0 .. last \subseteq 0 .. VersionSpan - 1 /\ 0 \notin 1 .. last
        /\ \A x \in 0 .. last : x <= last
    BY VersionsOfSites, VersionsAreFew, VersionSpanAssumption DEF VersionsMade
  <1> QED
    BY <1>3, <1>4 DEF RenamesSource, IsProgram

(* What the renamed instructions define and use.                           *)
LEMMA RenamedOperands ==
    ASSUME NEW V, NEW c \in InstructionsOver(V), NEW top, NEW counter,
           NEW d, d = InstructionRenamed(c, top, counter)
    PROVE  /\ \A x : x \in ToSet(d.definitions) <=>
                  \E v \in V : v \in ToSet(c.definitions) /\ x = SsaValue(v, counter[v])
           /\ \A x : x \in ToSet(d.uses) <=>
                  \E v \in V : v \in ToSet(c.uses) /\ x = SsaValue(v, top[v])
           /\ DOMAIN d.uses = DOMAIN c.uses /\ DOMAIN d.definitions = DOMAIN c.definitions
           /\ \A i \in DOMAIN c.uses : d.uses[i] = SsaValue(c.uses[i], top[c.uses[i]])
           /\ \A i \in DOMAIN c.definitions :
                  d.definitions[i] = SsaValue(c.definitions[i], counter[c.definitions[i]])
           /\ d.opcode = c.opcode /\ d.immediate = c.immediate
  <1> PICK ops : ops = DOMAIN OperandCount \cup {"opaque"}
    OBVIOUS
  <1>1. c \in [opcode : ops, uses : Seq(V), definitions : Seq(V), immediate : Int]
    BY DEF InstructionsOver
  <1> DEFINE U == [ i \in DOMAIN c.uses |-> SsaValue(c.uses[i], top[c.uses[i]]) ]
             F == [ i \in DOMAIN c.definitions |-> SsaValue(c.definitions[i], counter[c.definitions[i]]) ]
  <1>2. d = [c EXCEPT !.uses = U, !.definitions = F]
    BY DEF InstructionRenamed
  <1>3. d.uses = U /\ d.definitions = F /\ d.opcode = c.opcode /\ d.immediate = c.immediate
    <2> HIDE DEF U, F
    <2> QED
      BY <1>1, <1>2
  <1>4. \A i \in DOMAIN c.uses : c.uses[i] \in V
    BY <1>1
  <1>5. \A i \in DOMAIN c.definitions : c.definitions[i] \in V
    BY <1>1
  <1> HIDE <1>1, <1>2
  <1>6. \A x : x \in ToSet(d.definitions) <=>
                  \E v \in V : v \in ToSet(c.definitions) /\ x = SsaValue(v, counter[v])
    BY <1>3, <1>5 DEF ToSet
  <1>7. \A x : x \in ToSet(d.uses) <=>
                  \E v \in V : v \in ToSet(c.uses) /\ x = SsaValue(v, top[v])
    BY <1>3, <1>4 DEF ToSet
  <1> QED
    BY <1>3, <1>6, <1>7

(* The sites of a form, and the values they define.                        *)
LEMMA FormDefinitions ==
    ASSUME NEW source, NEW placement, RenamesSource(source, placement),
           NEW p, FormOf(source, placement, p)
    PROVE  LET R == ReachableFrom(source.succ, source.start)
               V == source.variables
           IN  /\ \A b \in R : \A x :
                      (\E phi \in p.phis[b] : phi.result = x) <=>
                          \E v \in V : IsSite(source, placement, b, 0, v)
                                       /\ x = SiteValue(source, placement, b, 0, v)
               /\ \A b \in R : \A i \in 1 .. Length(source, b) : \A x :
                      x \in ToSet(p.instructions[b][i].definitions) <=>
                          \E v \in V : IsSite(source, placement, b, i, v)
                                       /\ x = SiteValue(source, placement, b, i, v)
               /\ \A b \in R : \A i \in 1 .. Length(source, b) : \A x :
                      x \in ToSet(p.instructions[b][i].uses) <=>
                          \E v \in V : /\ v \in ToSet(source.instructions[b][i].uses)
                                       /\ x = SsaValue(v, TopsIn(source, placement, b, i - 1)[v])
  <1> PICK V : V = source.variables
    OBVIOUS
  <1> DEFINE R == ReachableFrom(source.succ, source.start)
  <1>1. IsProgram(source, V)
    BY DEF RenamesSource
  <1>2. R \subseteq DOMAIN source.succ /\ \A b \in R : Length(source, b) \in Nat
    BY <1>1, ProgramFacts DEF Length
  <1>3. \A b \in R : \A i \in 1 .. Length(source, b) : source.instructions[b][i] \in InstructionsOver(V)
    BY <1>1, <1>2, ProgramFacts DEF Length
  <1>4. \A b \in R : BlockRenaming(source, placement, b)
    BY RenamingOfBlocks
  <1>5. ASSUME NEW b \in R, NEW x
        PROVE  (\E phi \in p.phis[b] : phi.result = x) <=>
                   \E v \in V : IsSite(source, placement, b, 0, v)
                                /\ x = SiteValue(source, placement, b, 0, v)
    <2>1. p.phis[b] = { PhiOf(source, placement, b, v) : v \in { w \in V : <<b, w>> \in placement } }
      BY DEF FormOf
    <2>2. \A v \in V : IsSite(source, placement, b, 0, v) <=> <<b, v>> \in placement
      BY <1>2 DEF IsSite, Length
    <2>3. \A v \in V : <<b, v>> \in placement =>
              PhiOf(source, placement, b, v).result = SiteValue(source, placement, b, 0, v)
      <3> TAKE v \in V
      <3> HAVE <<b, v>> \in placement
      <3> QED
        BY <1>4 DEF SiteValue, VersionNumber, BlockRenaming, PhiOf
    <2> HIDE DEF R
    <2> QED
      BY <2>1, <2>2, <2>3
  <1>6. ASSUME NEW b \in R, NEW i \in 1 .. Length(source, b), NEW x
        PROVE  /\ x \in ToSet(p.instructions[b][i].definitions) <=>
                      \E v \in V : IsSite(source, placement, b, i, v)
                                   /\ x = SiteValue(source, placement, b, i, v)
               /\ x \in ToSet(p.instructions[b][i].uses) <=>
                      \E v \in V : /\ v \in ToSet(source.instructions[b][i].uses)
                                   /\ x = SsaValue(v, TopsIn(source, placement, b, i - 1)[v])
    <2> PICK c, d, top, counter : /\ c = source.instructions[b][i] /\ d = p.instructions[b][i]
                                  /\ top = TopsIn(source, placement, b, i - 1)
                                  /\ counter = CountersIn(source, placement, b, i)
      OBVIOUS
    <2>1. d = InstructionRenamed(c, top, counter) /\ c \in InstructionsOver(V)
      BY <1>3 DEF FormOf
    <2>2. /\ x \in ToSet(d.definitions) <=>
                  \E v \in V : v \in ToSet(c.definitions) /\ x = SsaValue(v, counter[v])
          /\ x \in ToSet(d.uses) <=>
                  \E v \in V : v \in ToSet(c.uses) /\ x = SsaValue(v, top[v])
      <3>1. /\ \A y : y \in ToSet(d.definitions) <=>
                      \E v \in V : v \in ToSet(c.definitions) /\ y = SsaValue(v, counter[v])
            /\ \A y : y \in ToSet(d.uses) <=>
                      \E v \in V : v \in ToSet(c.uses) /\ y = SsaValue(v, top[v])
        BY ONLY <2>1, RenamedOperands, SMTT(30)
      <3> QED
        BY ONLY <3>1
    <2>3. \A v : IsSite(source, placement, b, i, v) <=> v \in ToSet(c.definitions)
      BY <1>2 DEF Length, IsSite, Defines
    <2> QED
      BY <2>2, <2>3 DEF SiteValue, VersionNumber
  <1> HIDE DEF R
  <1>7. \A b \in R : \A x :
            (\E phi \in p.phis[b] : phi.result = x) <=>
                \E v \in V : IsSite(source, placement, b, 0, v)
                             /\ x = SiteValue(source, placement, b, 0, v)
    BY <1>5
  <1>8. \A b \in R : \A i \in 1 .. Length(source, b) : \A x :
            x \in ToSet(p.instructions[b][i].definitions) <=>
                \E v \in V : IsSite(source, placement, b, i, v)
                             /\ x = SiteValue(source, placement, b, i, v)
    BY <1>6
  <1>9. \A b \in R : \A i \in 1 .. Length(source, b) : \A x :
            x \in ToSet(p.instructions[b][i].uses) <=>
                \E v \in V : /\ v \in ToSet(source.instructions[b][i].uses)
                             /\ x = SsaValue(v, TopsIn(source, placement, b, i - 1)[v])
    <2> TAKE b \in R
    <2> TAKE i \in 1 .. Length(source, b)
    <2> TAKE x
    <2> QED
      BY <1>6
  <1> QED
    BY ONLY <1>7, <1>8, <1>9, V = source.variables DEF R
(* The definitions of a value, as SsaAccepted counts them.                 *)
DefinitionsOf(program, value) ==
    { <<"initial", v, 0>> : v \in { w \in program.variables : SsaValue(w, 0) = value } }
    \cup { <<"phi", b, 0>> : b \in { c \in Blocks(program.succ) :
             \E phi \in program.phis[c] : phi.result = value } }
    \cup UNION { { <<"instruction", b, i>> : i \in { j \in DOMAIN program.instructions[b] :
                     value \in ToSet(program.instructions[b][j].definitions) } } :
                 b \in Blocks(program.succ) }

(* Where a form defines a value.                                           *)
LEMMA FormDefinitionSites ==
    ASSUME NEW source, NEW placement, RenamesSource(source, placement),
           NEW p, FormOf(source, placement, p), NEW x, NEW s
    PROVE  s \in DefinitionsOf(p, x) <=>
               \/ \E v \in source.variables : s = <<"initial", v, 0>> /\ x = SsaValue(v, 0)
               \/ \E b \in ReachableFrom(source.succ, source.start) : \E v \in source.variables :
                      /\ s = <<"phi", b, 0>>
                      /\ IsSite(source, placement, b, 0, v) /\ x = SiteValue(source, placement, b, 0, v)
               \/ \E b \in ReachableFrom(source.succ, source.start) :
                  \E i \in 1 .. Length(source, b) : \E v \in source.variables :
                      /\ s = <<"instruction", b, i>>
                      /\ IsSite(source, placement, b, i, v) /\ x = SiteValue(source, placement, b, i, v)
  <1> PICK V, R, U : V = source.variables /\ R = ReachableFrom(source.succ, source.start)
                     /\ U = Blocks(source.succ)
    OBVIOUS
  <1> DEFINE One == { <<"initial", v, 0>> : v \in { w \in p.variables : SsaValue(w, 0) = x } }
             Two == { <<"phi", b, 0>> : b \in { c \in U : \E phi \in p.phis[c] : phi.result = x } }
             In(b) == { <<"instruction", b, i>> : i \in { j \in DOMAIN p.instructions[b] :
                          x \in ToSet(p.instructions[b][j].definitions) } }
             Three == UNION { In(b) : b \in U }
  <1>1. /\ p.succ = source.succ /\ p.variables = V
        /\ \A b \in U \ R : p.phis[b] = {} /\ p.instructions[b] = << >>
        /\ \A b \in R : /\ Len(p.instructions[b]) = Length(source, b)
                        /\ p.instructions[b] \in Seq(InstructionsOver(Nat))
    BY DEF FormOf
  <1>2. R \subseteq U
    BY ProgramFacts DEF RenamesSource, Blocks
  <1>3. \A b \in R : DOMAIN p.instructions[b] = 1 .. Length(source, b)
    <2> TAKE b \in R
    <2> PICK q : q = p.instructions[b]
      OBVIOUS
    <2> QED
      BY <1>1
  <1>4. \A b \in R : (\E phi \in p.phis[b] : phi.result = x) <=>
                     \E v \in V : IsSite(source, placement, b, 0, v)
                                  /\ x = SiteValue(source, placement, b, 0, v)
    BY FormDefinitions
  <1>5. \A b \in R : \A i \in 1 .. Length(source, b) :
            x \in ToSet(p.instructions[b][i].definitions) <=>
                \E v \in V : IsSite(source, placement, b, i, v)
                             /\ x = SiteValue(source, placement, b, i, v)
    BY FormDefinitions
  <1>6. DefinitionsOf(p, x) = (One \cup Two) \cup Three
    BY <1>1 DEF DefinitionsOf
  <1>7. s \in One <=> \E v \in V : s = <<"initial", v, 0>> /\ x = SsaValue(v, 0)
    BY <1>1
  <1>8. s \in Two <=> \E b \in R : \E v \in V :
            s = <<"phi", b, 0>> /\ IsSite(source, placement, b, 0, v)
            /\ x = SiteValue(source, placement, b, 0, v)
    <2>2. s \in Two <=> \E b \in R : s = <<"phi", b, 0>> /\ \E phi \in p.phis[b] : phi.result = x
      BY <1>1, <1>2
    <2> HIDE DEF Two
    <2> QED
      BY <1>4, <2>2
  <1>9. s \in Three <=> \E b \in R : \E i \in 1 .. Length(source, b) : \E v \in V :
            s = <<"instruction", b, i>> /\ IsSite(source, placement, b, i, v)
            /\ x = SiteValue(source, placement, b, i, v)
    <2>1. s \in Three <=> \E b \in U : s \in In(b)
      <3> HIDE DEF In
      <3> QED
        OBVIOUS
    <2>2. \A b \in U \ R : In(b) = {}
      BY <1>1
    <2>3. \A b : s \in In(b) <=> \E i \in DOMAIN p.instructions[b] :
              s = <<"instruction", b, i>> /\ x \in ToSet(p.instructions[b][i].definitions)
      OBVIOUS
    <2> HIDE DEF In, Three
    <2>5. \A b \in R : s \in In(b) <=> \E i \in 1 .. Length(source, b) : \E v \in V :
              s = <<"instruction", b, i>> /\ IsSite(source, placement, b, i, v)
              /\ x = SiteValue(source, placement, b, i, v)
      <3> TAKE b \in R
      <3> QED
        BY ONLY <1>3, <2>3, <1>5
    <2> QED
      BY <1>2, <2>1, <2>2, <2>5
  <1> HIDE DEF One, Two, Three
  <1> QED
    BY ONLY <1>6, <1>7, <1>8, <1>9, V = source.variables, R = ReachableFrom(source.succ, source.start)

(* The values of a form: every version made of every variable.             *)
LEMMA FormValues ==
    ASSUME NEW source, NEW placement, RenamesSource(source, placement),
           NEW p, FormOf(source, placement, p), NEW x
    PROVE  /\ x \in DefinedValues(p) <=> \E s : s \in DefinitionsOf(p, x)
           /\ x \in DefinedValues(p) <=>
                  \E v \in source.variables : \E m \in 0 .. LastVersion(source, placement, v) :
                      x = SsaValue(v, m)
  <1> PICK V, R, U : V = source.variables /\ R = ReachableFrom(source.succ, source.start)
                     /\ U = Blocks(source.succ)
    OBVIOUS
  <1>0. p.succ = source.succ /\ p.variables = V
    BY DEF FormOf
  <1> DEFINE D2 == UNION { { phi.result : phi \in p.phis[b] } : b \in U }
             Def(b) == UNION { ToSet(p.instructions[b][i].definitions) : i \in DOMAIN p.instructions[b] }
             D3 == UNION { Def(b) : b \in U }
             In(b) == { <<"instruction", b, i>> : i \in { j \in DOMAIN p.instructions[b] :
                          x \in ToSet(p.instructions[b][j].definitions) } }
             Three == UNION { In(b) : b \in U }
  <1>1. x \in DefinedValues(p) <=>
            \/ \E v \in V : x = SsaValue(v, 0)
            \/ \E b \in U : \E phi \in p.phis[b] : phi.result = x
            \/ \E b \in U : \E i \in DOMAIN p.instructions[b] :
                   x \in ToSet(p.instructions[b][i].definitions)
    <2>2. x \in D3 <=> \E b \in U : \E i \in DOMAIN p.instructions[b] :
                           x \in ToSet(p.instructions[b][i].definitions)
      <3>1. \A b : x \in Def(b) <=> \E i \in DOMAIN p.instructions[b] :
                           x \in ToSet(p.instructions[b][i].definitions)
        OBVIOUS
      <3> HIDE DEF Def
      <3> QED
        BY <3>1
    <2> HIDE DEF D2, D3
    <2> QED
      BY <2>2, <1>0 DEF DefinedValues
  <1>2. (\E s : s \in DefinitionsOf(p, x)) <=>
            \/ \E v \in V : x = SsaValue(v, 0)
            \/ \E b \in U : \E phi \in p.phis[b] : phi.result = x
            \/ \E b \in U : \E i \in DOMAIN p.instructions[b] :
                   x \in ToSet(p.instructions[b][i].definitions)
    <2> DEFINE One == { <<"initial", v, 0>> : v \in { w \in p.variables : SsaValue(w, 0) = x } }
               Two == { <<"phi", b, 0>> : b \in { c \in U : \E phi \in p.phis[c] : phi.result = x } }
    <2>1. DefinitionsOf(p, x) = (One \cup Two) \cup Three
      BY <1>0 DEF DefinitionsOf
    <2>2. (\E s : s \in One) <=> \E v \in V : x = SsaValue(v, 0)
      BY <1>0
    <2>3. (\E s : s \in Two) <=> \E b \in U : \E phi \in p.phis[b] : phi.result = x
      OBVIOUS
    <2>4. (\E s : s \in Three) <=> \E b \in U : \E i \in DOMAIN p.instructions[b] :
                                          x \in ToSet(p.instructions[b][i].definitions)
      <3>1. \A b : (\E s : s \in In(b)) <=> \E i \in DOMAIN p.instructions[b] :
                                          x \in ToSet(p.instructions[b][i].definitions)
        OBVIOUS
      <3> HIDE DEF In
      <3> QED
        BY <3>1
    <2> HIDE DEF One, Two, Three
    <2> QED
      BY <2>1, <2>2, <2>3, <2>4
  <1>3. x \in DefinedValues(p) <=> \E s : s \in DefinitionsOf(p, x)
    BY <1>1, <1>2
  <1> DEFINE Made == \E v \in V : \E m \in 0 .. LastVersion(source, placement, v) : x = SsaValue(v, m)
  <1>4. ASSUME NEW s, s \in DefinitionsOf(p, x)
        PROVE  Made
    <2>1. \/ \E v \in V : s = <<"initial", v, 0>> /\ x = SsaValue(v, 0)
          \/ \E b \in R : \E i \in 0 .. Length(source, b) : \E v \in V :
                 IsSite(source, placement, b, i, v) /\ x = SiteValue(source, placement, b, i, v)
      <3>3. \A b \in R : 0 \in 0 .. Length(source, b) /\ \A i \in 1 .. Length(source, b) : i \in 0 .. Length(source, b)
        BY ProgramFacts DEF RenamesSource, Length
      <3> QED
        BY <1>4, FormDefinitionSites, <3>3
    <2>2. \A v \in V : VersionsMade(source, placement, v)
      BY VersionsOfSites
    <2>3. CASE \E v \in V : s = <<"initial", v, 0>> /\ x = SsaValue(v, 0)
      <3>1. PICK v \in V : x = SsaValue(v, 0)
        BY <2>3
      <3> QED
        BY <3>1, <2>2 DEF VersionsMade
    <2>4. CASE \E b \in R : \E i \in 0 .. Length(source, b) : \E v \in V :
                 IsSite(source, placement, b, i, v) /\ x = SiteValue(source, placement, b, i, v)
      <3>0. PICK b \in R : \E i \in 0 .. Length(source, b) : \E v \in V :
                 IsSite(source, placement, b, i, v) /\ x = SiteValue(source, placement, b, i, v)
        BY <2>4
      <3>1. PICK i \in 0 .. Length(source, b), v \in V :
                 IsSite(source, placement, b, i, v) /\ x = SiteValue(source, placement, b, i, v)
        BY <3>0
      <3> QED
        BY <3>1, <2>2 DEF SiteValue, VersionsMade
    <2> QED
      BY <2>1, <2>3, <2>4
  <1>5. ASSUME NEW v \in V, NEW m \in 0 .. LastVersion(source, placement, v), x = SsaValue(v, m)
        PROVE  \E s : s \in DefinitionsOf(p, x)
    <2>1. CASE m = 0
      BY <1>5, <2>1, FormDefinitionSites
    <2>2. CASE m # 0
      <3>3. PICK b \in R : \E i \in 0 .. Length(source, b) :
               IsSite(source, placement, b, i, v) /\ VersionNumber(source, placement, b, i, v) = m
        BY VersionsOfSites, <2>2 DEF VersionsMade
      <3>4. PICK i \in 0 .. Length(source, b) :
               IsSite(source, placement, b, i, v) /\ VersionNumber(source, placement, b, i, v) = m
        BY <3>3
      <3>5. x = SiteValue(source, placement, b, i, v)
        BY <1>5, <3>4 DEF SiteValue
      <3>6. CASE i = 0
        BY <3>4, <3>5, <3>6, FormDefinitionSites
      <3>7. CASE i # 0
        <4>2. <<"instruction", b, i>> \in DefinitionsOf(p, x)
          BY <3>4, <3>5, <3>7, FormDefinitionSites
        <4> QED
          BY <4>2
      <3> QED
        BY <3>6, <3>7
    <2> QED
      BY <2>1, <2>2
  <1>6. x \in DefinedValues(p) <=> Made
    <2> HIDE DEF Made
    <2> QED
      BY <1>3, <1>4, <1>5 DEF Made
  <1> QED
    BY <1>3, <1>6
(* Every value of a form has exactly one definition.                       *)
LEMMA FormDefinesOnce ==
    ASSUME NEW source, NEW placement, RenamesSource(source, placement),
           NEW p, FormOf(source, placement, p), NEW x \in DefinedValues(p)
    PROVE  Cardinality(DefinitionsOf(p, x)) = 1
  <1> PICK V, R, D : V = source.variables /\ R = ReachableFrom(source.succ, source.start)
                     /\ D = DefinitionsOf(p, x)
    OBVIOUS
  <1>1. PICK s : s \in D
    BY FormValues
  <1>2. \A t : t \in D <=>
               \/ \E v \in V : t = <<"initial", v, 0>> /\ x = SsaValue(v, 0)
               \/ \E b \in R : \E v \in V :
                      /\ t = <<"phi", b, 0>>
                      /\ IsSite(source, placement, b, 0, v) /\ x = SiteValue(source, placement, b, 0, v)
               \/ \E b \in R : \E i \in 1 .. Length(source, b) : \E v \in V :
                      /\ t = <<"instruction", b, i>>
                      /\ IsSite(source, placement, b, i, v) /\ x = SiteValue(source, placement, b, i, v)
    BY FormDefinitionSites
  <1>3. \A b \in R : Length(source, b) \in Nat
    BY ProgramFacts DEF RenamesSource, Length
  <1> DEFINE Tag(i) == IF i = 0 THEN "phi" ELSE "instruction"
             At(t, b, i, v) == /\ t = <<Tag(i), b, i>>
                               /\ IsSite(source, placement, b, i, v)
                               /\ x = SiteValue(source, placement, b, i, v)
             Initial(t) == \E v \in V : t = <<"initial", v, 0>> /\ x = SsaValue(v, 0)
             Later(t) == \E b \in R : \E i \in 0 .. Length(source, b) : \E v \in V : At(t, b, i, v)
  <1>4. \A t \in D : Initial(t) \/ Later(t)
    <2> TAKE t \in D
    <2>1. CASE \E b \in R : \E v \in V :
                      /\ t = <<"phi", b, 0>>
                      /\ IsSite(source, placement, b, 0, v) /\ x = SiteValue(source, placement, b, 0, v)
      <3>1. PICK b \in R, v \in V : At(t, b, 0, v)
        BY <2>1
      <3> HIDE DEF At
      <3> QED
        BY <3>1, <1>3
    <2>2. CASE \E b \in R : \E i \in 1 .. Length(source, b) : \E v \in V :
                      /\ t = <<"instruction", b, i>>
                      /\ IsSite(source, placement, b, i, v) /\ x = SiteValue(source, placement, b, i, v)
      <3>1. PICK b \in R : \E i \in 1 .. Length(source, b) : \E v \in V :
                      /\ t = <<"instruction", b, i>>
                      /\ IsSite(source, placement, b, i, v) /\ x = SiteValue(source, placement, b, i, v)
        BY <2>2
      <3>2. PICK i \in 1 .. Length(source, b), v \in V :
                      /\ t = <<"instruction", b, i>>
                      /\ IsSite(source, placement, b, i, v) /\ x = SiteValue(source, placement, b, i, v)
        BY <3>1
      <3>3. i # 0 /\ i \in 0 .. Length(source, b)
        BY <1>3
      <3>4. At(t, b, i, v)
        BY <3>2, <3>3
      <3> HIDE DEF At
      <3> QED
        BY <3>3, <3>4
    <2> QED
      BY <1>2, <2>1, <2>2
  <1>5. \A v \in V : \A b \in R : \A i \in 0 .. Length(source, b) :
            /\ v \in Nat /\ VersionNumber(source, placement, b, i, v) \in 0 .. VersionSpan - 1
            /\ IsSite(source, placement, b, i, v) => VersionNumber(source, placement, b, i, v) # 0
    BY VersionsFit
  <1>6. \A v \in V : v \in Nat /\ 0 \in 0 .. VersionSpan - 1
    BY VersionSpanAssumption DEF RenamesSource, IsProgram
  <1>7. \A t, u \in D : Initial(t) /\ Initial(u) => t = u
    <2> SUFFICES ASSUME NEW t, NEW u, Initial(t), Initial(u) PROVE t = u
      OBVIOUS
    <2>1. PICK v \in V : t = <<"initial", v, 0>> /\ x = SsaValue(v, 0)
      OBVIOUS
    <2>2. PICK w \in V : u = <<"initial", w, 0>> /\ x = SsaValue(w, 0)
      OBVIOUS
    <2> QED
      BY <2>1, <2>2, <1>6, SsaValuesDiffer
  <1>8. \A t, u \in D : ~(Initial(t) /\ Later(u))
    <2> SUFFICES ASSUME NEW t, NEW u, Initial(t), Later(u) PROVE FALSE
      OBVIOUS
    <2>1. PICK w \in V : x = SsaValue(w, 0)
      OBVIOUS
    <2>2. PICK b \in R : \E i \in 0 .. Length(source, b) : \E v \in V : At(u, b, i, v)
      OBVIOUS
    <2>3. PICK i \in 0 .. Length(source, b), v \in V : At(u, b, i, v)
      BY <2>2
    <2> PICK n : n = VersionNumber(source, placement, b, i, v)
      OBVIOUS
    <2>4. x = SsaValue(v, n) /\ n \in 0 .. VersionSpan - 1 /\ n # 0
      BY <1>5, <2>3 DEF SiteValue
    <2>5. n = 0
      BY <1>6, <2>1, <2>4, SsaValuesDiffer
    <2> QED
      BY <2>4, <2>5
  <1>9. \A t, u \in D : Later(t) /\ Later(u) => t = u
    <2> HIDE DEF Later
    <2> SUFFICES ASSUME NEW t, NEW u, Later(t), Later(u) PROVE t = u
      OBVIOUS
    <2> USE DEF Later
    <2>1. PICK c \in R : \E i \in 0 .. Length(source, c) : \E v \in V : At(t, c, i, v)
      OBVIOUS
    <2>2. PICK j \in 0 .. Length(source, c), w \in V : At(t, c, j, w)
      BY <2>1
    <2>3. PICK b \in R : \E i \in 0 .. Length(source, b) : \E v \in V : At(u, b, i, v)
      OBVIOUS
    <2>4. PICK i \in 0 .. Length(source, b), v \in V : At(u, b, i, v)
      BY <2>3
    <2> PICK m, n : /\ m = VersionNumber(source, placement, c, j, w)
                    /\ n = VersionNumber(source, placement, b, i, v)
      OBVIOUS
    <2>5. SsaValue(w, m) = SsaValue(v, n) /\ m \in 0 .. VersionSpan - 1 /\ n \in 0 .. VersionSpan - 1
      BY <1>5, <2>2, <2>4 DEF SiteValue
    <2>8. IsSite(source, placement, c, j, v) /\ IsSite(source, placement, b, i, v)
          /\ VersionNumber(source, placement, c, j, v) = VersionNumber(source, placement, b, i, v)
      BY <2>2, <2>4, <1>6, <2>5, SsaValuesDiffer
    <2> QED
      BY <2>2, <2>4, VersionsOfSites, <2>8 DEF VersionsMade
  <1> HIDE DEF Initial, Later
  <1>11. D = {s}
    BY <1>1, <1>4, <1>7, <1>8, <1>9
  <1> QED
    BY <1>11, FS_Singleton

(* Nothing is used that a form does not define.                            *)
LEMMA FormUsesAreDefined ==
    ASSUME NEW source, NEW placement, RenamesSource(source, placement),
           NEW p, FormOf(source, placement, p)
    PROVE  UsedValues(p) \subseteq DefinedValues(p)
  <1> PICK V, R, U : V = source.variables /\ R = ReachableFrom(source.succ, source.start)
                     /\ U = Blocks(source.succ)
    OBVIOUS
  <1>1. /\ p.succ = source.succ
        /\ \A b \in U \ R : p.phis[b] = {} /\ p.instructions[b] = << >>
        /\ \A b \in R : p.phis[b] = { PhiOf(source, placement, b, v) :
                                        v \in { w \in V : <<b, w>> \in placement } }
        /\ \A b \in R : /\ Len(p.instructions[b]) = Length(source, b)
                        /\ p.instructions[b] \in Seq(InstructionsOver(Nat))
    BY DEF FormOf
  <1>2. \A b \in R : Length(source, b) \in Nat
    BY ProgramFacts DEF RenamesSource, Length
  <1>3. ASSUME NEW v \in V, NEW b \in R, NEW i \in 0 .. Length(source, b)
        PROVE  SsaValue(v, TopsIn(source, placement, b, i)[v]) \in DefinedValues(p)
    <2> PICK m : m = TopsIn(source, placement, b, i)[v]
      OBVIOUS
    <2> QED
      BY TopsAreVersions, FormValues
  <1> DEFINE InUses(b) == UNION { ToSet(p.instructions[b][i].uses) : i \in DOMAIN p.instructions[b] }
             Phis == UNION { p.phis[b] : b \in U }
             In(phi) == { phi.incoming[q] : q \in DOMAIN phi.incoming }
  <1>4. UsedValues(p) = (UNION { InUses(b) : b \in U }) \cup (UNION { In(phi) : phi \in Phis })
    BY <1>1 DEF UsedValues
  <1>5. ASSUME NEW b \in U, NEW x \in InUses(b)
        PROVE  x \in DefinedValues(p)
    <2>1. PICK i \in DOMAIN p.instructions[b] : x \in ToSet(p.instructions[b][i].uses)
      BY <1>5
    <2>2. b \in R
      BY <1>1, <2>1
    <2>3. i \in 1 .. Length(source, b)
      <3> PICK q : q = p.instructions[b]
        OBVIOUS
      <3> QED
        BY <2>1, <1>1, <2>2
    <2>4. PICK v \in V : x = SsaValue(v, TopsIn(source, placement, b, i - 1)[v])
      BY <2>1, <2>2, <2>3, FormDefinitions, SMTT(30)
    <2> QED
      BY <1>3, <2>2, <2>4, <1>2, <2>3
  <1>6. ASSUME NEW b \in U, NEW phi \in p.phis[b], NEW q \in DOMAIN phi.incoming
        PROVE  phi.incoming[q] \in DefinedValues(p)
    <2>1a. p.phis[b] = { PhiOf(source, placement, b, v) : v \in { w \in V : <<b, w>> \in placement } }
      BY <1>1
    <2>2. PICK v \in V : phi = PhiOf(source, placement, b, v)
      BY <2>1a
    <2> QED
      BY <1>3, <2>2, <1>2 DEF UniquePredecessors, PhiOf
  <1> HIDE DEF InUses
  <1>7. ASSUME NEW phi \in Phis, NEW x \in In(phi)
        PROVE  x \in DefinedValues(p)
    <2>1. PICK b \in U : phi \in p.phis[b]
      BY <1>7
    <2>2. PICK q \in DOMAIN phi.incoming : x = phi.incoming[q]
      BY <1>7
    <2> QED
      BY <1>6, <2>1, <2>2
  <1> HIDE DEF Phis, In
  <1> QED
    BY <1>4, <1>5, <1>7

(* The values of a form belong to its variables.                           *)
LEMMA FormVariables ==
    ASSUME NEW source, NEW placement, RenamesSource(source, placement),
           NEW p, FormOf(source, placement, p), NEW x \in DefinedValues(p)
    PROVE  VariableOf(x) \in source.variables
  <1>1. PICK v \in source.variables : \E m \in 0 .. LastVersion(source, placement, v) :
            x = SsaValue(v, m)
    BY FormValues
  <1>2. 0 .. LastVersion(source, placement, v) \subseteq 0 .. VersionSpan - 1
    BY VersionsOfSites, VersionsAreFew, VersionSpanAssumption DEF VersionsMade
  <1>3. v \in Nat
    BY VersionsFit
  <1> QED
    BY <1>1, <1>2, <1>3, SsaValueFacts

(* destroy_ssa accepts the form.                                           *)
LEMMA FormIsAccepted ==
    ASSUME NEW source, NEW placement, RenamesSource(source, placement), SourceAccepted(source),
           NEW p, FormOf(source, placement, p)
    PROVE  SsaAccepted(p)
  <1> PICK V, R, U : V = source.variables /\ R = ReachableFrom(source.succ, source.start)
                     /\ U = Blocks(source.succ)
    OBVIOUS
  <1>1. /\ p.succ = source.succ /\ p.start = source.start /\ p.variables = V
        /\ \A b \in U \ R : p.phis[b] = {} /\ p.instructions[b] = << >>
        /\ \A b \in R : p.phis[b] = { PhiOf(source, placement, b, v) :
                                        v \in { w \in V : <<b, w>> \in placement } }
    BY DEF FormOf
  <1>2. R \subseteq U /\ \A b \in R : Length(source, b) \in Nat
    BY ProgramFacts DEF RenamesSource, Length, Blocks
  <1>3. UniquePredecessors(p.succ, R, p.start) = {}
    BY <1>1, <1>2 DEF SourceAccepted, UniquePredecessors, UniqueSuccessors
  <1>4. ASSUME NEW b \in U, NEW phi \in p.phis[b]
        PROVE  /\ phi.variable \in V
               /\ VariableOf(phi.result) = phi.variable
               /\ \A other \in p.phis[b] : other.variable = phi.variable => other = phi
               /\ DOMAIN phi.incoming = UniquePredecessors(p.succ, R, b)
               /\ \A q \in DOMAIN phi.incoming : VariableOf(phi.incoming[q]) = phi.variable
    <2>1. b \in R
      BY <1>1
    <2>1a. p.phis[b] = { PhiOf(source, placement, b, v) : v \in { w \in V : <<b, w>> \in placement } }
      BY <1>1, <2>1
    <2>2. PICK v \in V : phi = PhiOf(source, placement, b, v)
      BY <2>1a
    <2>3. ASSUME NEW c \in R, NEW i \in 0 .. Length(source, c)
          PROVE  VariableOf(SsaValue(v, TopsIn(source, placement, c, i)[v])) = v
      <3> PICK m : m = TopsIn(source, placement, c, i)[v]
        OBVIOUS
      <3> QED
        BY VersionsFit, SsaValueFacts
    <2>4. /\ phi.variable = v
          /\ phi.result = SsaValue(v, TopsIn(source, placement, b, 0)[v])
          /\ DOMAIN phi.incoming = UniquePredecessors(source.succ, R, b)
          /\ \A q \in DOMAIN phi.incoming :
                 phi.incoming[q] = SsaValue(v, TopsIn(source, placement, q, Length(source, q))[v])
      BY <2>2 DEF PhiOf
    <2>6. \A q \in DOMAIN phi.incoming : VariableOf(phi.incoming[q]) = phi.variable
      <3> TAKE q \in DOMAIN phi.incoming
      <3> QED
        BY <2>3, <2>4, <1>2 DEF UniquePredecessors
    <2>7. \A other \in p.phis[b] : other.variable = phi.variable => other = phi
      <3> SUFFICES ASSUME NEW other \in p.phis[b], other.variable = phi.variable PROVE other = phi
        OBVIOUS
      <3>1. PICK w \in V : other = PhiOf(source, placement, b, w)
        BY <2>1a
      <3> QED
        BY <2>2, <2>4, <3>1 DEF PhiOf
    <2> QED
      BY <1>1, <2>4, <1>2, <2>1, <2>3, <2>6, <2>7
  <1>5. \A value \in DefinedValues(p) :
            VariableOf(value) \in p.variables /\ Cardinality(DefinitionsOf(p, value)) = 1
    BY <1>1, FormDefinesOnce, FormVariables
  <1>6. UsedValues(p) \subseteq DefinedValues(p)
    BY FormUsesAreDefined
  <1>7. R = ReachableFrom(p.succ, p.start) /\ U = Blocks(p.succ)
    BY <1>1
  <1> QED
    BY ONLY <1>1, <1>3, <1>4, <1>5, <1>6, <1>7 DEF SsaAccepted, DefinitionsOf
-----------------------------------------------------------------------------
(* The placements of phis and the blocks where a variable is live.         *)
LEMMA FrontierFacts ==
    ASSUME NEW succ, NEW start
    PROVE  \A d : Frontier(succ, start, d) \subseteq ReachableFrom(succ, start)
  BY DEF Frontier

(* The iterated frontier: frontiers of the definitions and of itself.     *)
LEMMA IteratedFrontierIsClosed ==
    ASSUME NEW succ, NEW start \in DOMAIN succ, IsGraph(succ), NEW definitions
    PROVE  LET added(X) == UNION { Frontier(succ, start, d) : d \in definitions \cup X }
           IN  /\ IteratedFrontier(succ, start, definitions) \in SUBSET DOMAIN succ /\ {} \subseteq IteratedFrontier(succ, start, definitions)
               /\ added(IteratedFrontier(succ, start, definitions)) \subseteq IteratedFrontier(succ, start, definitions)
               /\ \A C : {} \subseteq C /\ (\A X \in SUBSET DOMAIN succ : X \subseteq C => added(X) \subseteq C)
                         => IteratedFrontier(succ, start, definitions) \subseteq C
  <1> DEFINE U == DOMAIN succ
             len == Cardinality(Blocks(succ))
             base == {}
             Next1(X) == UNION { Frontier(succ, start, d) : d \in definitions \cup X }
             ext == [ X \in SUBSET U |-> Next1(X) ]
             Steps(f) == [ k \in 0 .. len |->
                             IF k = 0 THEN {}
                             ELSE LET before == f[k - 1]
                                  IN  before \cup UNION { Frontier(succ, start, d) : d \in definitions \cup before } ]
             F == CHOOSE f : f = Steps(f)
  <1>1. IteratedFrontier(succ, start, definitions) = F[len]
    BY DEF IteratedFrontier
  <1>1a. \A f : Steps(f) = [ k \in 0 .. len |-> IF k = 0 THEN base ELSE f[k - 1] \cup Next1(f[k - 1]) ]
    OBVIOUS
  <1>2. len \in Nat /\ IsFiniteSet(U) /\ Cardinality(U) <= len
    BY FS_CardinalityType DEF IsGraph, Blocks
  <1>3. base \in SUBSET U
    OBVIOUS
  <1>4. \A X \in SUBSET U : Next1(X) \in SUBSET U
    <2>1. \A d : Frontier(succ, start, d) \subseteq U
      BY FrontierFacts, ReachableIsClosed
    <2> HIDE DEF U
    <2> QED
      BY <2>1
  <1>5. ext \in [SUBSET U -> SUBSET U]
    <2> HIDE DEF U, Next1
    <2> QED
      BY <1>4
  <1> HIDE DEF base, F
  <1>6. Rounds(U, base, ext, len)
    <2> HIDE DEF U, ext, len
    <2> QED
      BY <1>2, <1>3, <1>5 DEF Rounds
  <1>6a. (\E f : f = Steps(f)) => F = Steps(F)
    <2> HIDE DEF Steps
    <2> QED
      BY DEF F
  <1>7. \E f : f = Steps(f)
    <2>1. PICK f \in [0 .. len -> SUBSET U] :
              f[0] = base /\ \A k \in 1 .. len : f[k] = f[k - 1] \cup ext[f[k - 1]]
      <3> HIDE DEF U, ext, len
      <3> QED
        BY <1>6, RoundsExist
    <2>2. ASSUME NEW k \in 0 .. len
          PROVE  f[k] = IF k = 0 THEN base ELSE f[k - 1] \cup Next1(f[k - 1])
      <3> HIDE DEF U, len, Next1, Steps
      <3>1. CASE k = 0
        BY <2>1, <3>1
      <3>2. CASE k # 0
        <4>1. k \in 1 .. len /\ k - 1 \in 0 .. len
          BY <1>2, <3>2
        <4> QED
          BY <3>2, <4>1, <2>1
      <3> QED
        BY <3>1, <3>2
    <2>3. f = [ k \in 0 .. len |-> f[k] ]
      <3> HIDE DEF U, len, Steps
      <3> QED
        OBVIOUS
    <2>4. [ k \in 0 .. len |-> f[k] ]
              = [ k \in 0 .. len |-> IF k = 0 THEN base ELSE f[k - 1] \cup Next1(f[k - 1]) ]
      <3> HIDE DEF U, len, Next1, Steps
      <3> QED
        BY <2>2
    <2> HIDE DEF Steps, len, Next1, U
    <2> QED
      BY <1>1a, <2>3, <2>4
  <1> HIDE DEF Steps, Next1
  <1>8. F = [ k \in 0 .. len |-> IF k = 0 THEN base ELSE F[k - 1] \cup Next1(F[k - 1]) ]
    BY <1>1a, <1>6a, <1>7
  <1> HIDE DEF len
  <1>9. F[0] = base
    BY <1>2, <1>8
  <1>10. ASSUME NEW k \in 1 .. len, F[k - 1] \in SUBSET U
         PROVE  F[k] = F[k - 1] \cup ext[F[k - 1]]
    <2>1. k \in 0 .. len /\ k # 0
      BY <1>2
    <2> HIDE DEF U
    <2> QED
      BY <1>10, <1>8, <2>1
  <1>11. /\ F[len] \in SUBSET U /\ base \subseteq F[len] /\ ext[F[len]] \subseteq F[len]
         /\ \A C : base \subseteq C /\ (\A X \in SUBSET U : X \subseteq C => ext[X] \subseteq C)
                   => F[len] \subseteq C
    <2> HIDE DEF U, ext
    <2> QED
      BY <1>6, <1>9, <1>10, ClosureByRounds DEF RoundsTaken
  <1>13. ASSUME NEW C, base \subseteq C, \A X \in SUBSET U : X \subseteq C => Next1(X) \subseteq C
         PROVE  F[len] \subseteq C
    <2>1. ASSUME NEW X \in SUBSET U, X \subseteq C
          PROVE  ext[X] \subseteq C
      BY <1>13, <2>1
    <2> HIDE DEF ext, U
    <2> QED
      BY <1>11, <1>13, <2>1
  <1> DEFINE Fl == F[len]
  <1>14. /\ Fl \in SUBSET U /\ base \subseteq Fl /\ Next1(Fl) \subseteq Fl
         /\ \A C : base \subseteq C /\ (\A X \in SUBSET U : X \subseteq C => Next1(X) \subseteq C)
                   => Fl \subseteq C
    BY <1>11, <1>13
  <1>15. IteratedFrontier(succ, start, definitions) = Fl
    BY <1>1
  <1> HIDE DEF Fl
  <1> QED
    BY <1>14, <1>15 DEF base, Next1, U

(* Where a variable is live: used before any definition, or on the way.   *)
LEMMA LiveInIsClosed ==
    ASSUME NEW source, NEW v, source.start \in DOMAIN source.succ, IsGraph(source.succ)
    PROVE  LET added(X) == { p \in ReachableFrom(source.succ, source.start) \ DefiningBlocks(source, v) :
                              UniqueSuccessors(source.succ, ReachableFrom(source.succ, source.start), p) \cap X # {} }
           IN  /\ LiveInBlocks(source, v) \in SUBSET DOMAIN source.succ /\ { b \in ReachableFrom(source.succ, source.start) : UpwardUse(source, b, v) } \subseteq LiveInBlocks(source, v)
               /\ added(LiveInBlocks(source, v)) \subseteq LiveInBlocks(source, v)
               /\ \A C : { b \in ReachableFrom(source.succ, source.start) : UpwardUse(source, b, v) } \subseteq C /\ (\A X \in SUBSET DOMAIN source.succ : X \subseteq C => added(X) \subseteq C)
                         => LiveInBlocks(source, v) \subseteq C
  <1> DEFINE U == DOMAIN source.succ
             len == Cardinality(Blocks(source.succ))
             base == { b \in ReachableFrom(source.succ, source.start) : UpwardUse(source, b, v) }
             Next1(X) == { p \in ReachableFrom(source.succ, source.start) \ DefiningBlocks(source, v) :
                              UniqueSuccessors(source.succ, ReachableFrom(source.succ, source.start), p) \cap X # {} }
             ext == [ X \in SUBSET U |-> Next1(X) ]
             Steps(f) == [ k \in 0 .. len |->
                             IF k = 0
                             THEN { b \in ReachableFrom(source.succ, source.start) : UpwardUse(source, b, v) }
                             ELSE LET after == f[k - 1]
                                  IN  after \cup
                                      { p \in ReachableFrom(source.succ, source.start) \ DefiningBlocks(source, v) :
                                          UniqueSuccessors(source.succ, ReachableFrom(source.succ, source.start), p)
                                              \cap after # {} } ]
             F == CHOOSE f : f = Steps(f)
  <1>1. LiveInBlocks(source, v) = F[len]
    BY DEF LiveInBlocks
  <1>1a. \A f : Steps(f) = [ k \in 0 .. len |-> IF k = 0 THEN base ELSE f[k - 1] \cup Next1(f[k - 1]) ]
    OBVIOUS
  <1>2. len \in Nat /\ IsFiniteSet(U) /\ Cardinality(U) <= len
    BY FS_CardinalityType DEF IsGraph, Blocks
  <1>3. base \in SUBSET U
    <2>1. ReachableFrom(source.succ, source.start) \subseteq U
      BY ReachableIsClosed
    <2> HIDE DEF U
    <2> QED
      BY <2>1
  <1>4. \A X \in SUBSET U : Next1(X) \in SUBSET U
    <2>1. ReachableFrom(source.succ, source.start) \subseteq U
      BY ReachableIsClosed
    <2> HIDE DEF U
    <2> QED
      BY <2>1
  <1>5. ext \in [SUBSET U -> SUBSET U]
    <2> HIDE DEF U, Next1
    <2> QED
      BY <1>4
  <1> HIDE DEF base, F
  <1>6. Rounds(U, base, ext, len)
    <2> HIDE DEF U, ext, len
    <2> QED
      BY <1>2, <1>3, <1>5 DEF Rounds
  <1>6a. (\E f : f = Steps(f)) => F = Steps(F)
    <2> HIDE DEF Steps
    <2> QED
      BY DEF F
  <1>7. \E f : f = Steps(f)
    <2>1. PICK f \in [0 .. len -> SUBSET U] :
              f[0] = base /\ \A k \in 1 .. len : f[k] = f[k - 1] \cup ext[f[k - 1]]
      <3> HIDE DEF U, ext, len
      <3> QED
        BY <1>6, RoundsExist
    <2>2. ASSUME NEW k \in 0 .. len
          PROVE  f[k] = IF k = 0 THEN base ELSE f[k - 1] \cup Next1(f[k - 1])
      <3> HIDE DEF U, len, Next1, Steps
      <3>1. CASE k = 0
        BY <2>1, <3>1
      <3>2. CASE k # 0
        <4>1. k \in 1 .. len /\ k - 1 \in 0 .. len
          BY <1>2, <3>2
        <4> QED
          BY <3>2, <4>1, <2>1
      <3> QED
        BY <3>1, <3>2
    <2>3. f = [ k \in 0 .. len |-> f[k] ]
      <3> HIDE DEF U, len, Steps
      <3> QED
        OBVIOUS
    <2>4. [ k \in 0 .. len |-> f[k] ]
              = [ k \in 0 .. len |-> IF k = 0 THEN base ELSE f[k - 1] \cup Next1(f[k - 1]) ]
      <3> HIDE DEF U, len, Next1, Steps
      <3> QED
        BY <2>2
    <2> HIDE DEF Steps, len, Next1, U
    <2> QED
      BY <1>1a, <2>3, <2>4
  <1> HIDE DEF Steps, Next1
  <1>8. F = [ k \in 0 .. len |-> IF k = 0 THEN base ELSE F[k - 1] \cup Next1(F[k - 1]) ]
    BY <1>1a, <1>6a, <1>7
  <1> HIDE DEF len
  <1>9. F[0] = base
    BY <1>2, <1>8
  <1>10. ASSUME NEW k \in 1 .. len, F[k - 1] \in SUBSET U
         PROVE  F[k] = F[k - 1] \cup ext[F[k - 1]]
    <2>1. k \in 0 .. len /\ k # 0
      BY <1>2
    <2> HIDE DEF U
    <2> QED
      BY <1>10, <1>8, <2>1
  <1>11. /\ F[len] \in SUBSET U /\ base \subseteq F[len] /\ ext[F[len]] \subseteq F[len]
         /\ \A C : base \subseteq C /\ (\A X \in SUBSET U : X \subseteq C => ext[X] \subseteq C)
                   => F[len] \subseteq C
    <2> HIDE DEF U, ext
    <2> QED
      BY <1>6, <1>9, <1>10, ClosureByRounds DEF RoundsTaken
  <1>13. ASSUME NEW C, base \subseteq C, \A X \in SUBSET U : X \subseteq C => Next1(X) \subseteq C
         PROVE  F[len] \subseteq C
    <2>1. ASSUME NEW X \in SUBSET U, X \subseteq C
          PROVE  ext[X] \subseteq C
      BY <1>13, <2>1
    <2> HIDE DEF ext, U
    <2> QED
      BY <1>11, <1>13, <2>1
  <1> DEFINE Fl == F[len]
  <1>14. /\ Fl \in SUBSET U /\ base \subseteq Fl /\ Next1(Fl) \subseteq Fl
         /\ \A C : base \subseteq C /\ (\A X \in SUBSET U : X \subseteq C => Next1(X) \subseteq C)
                   => Fl \subseteq C
    BY <1>11, <1>13
  <1>15. LiveInBlocks(source, v) = Fl
    BY <1>1
  <1> HIDE DEF Fl
  <1> QED
    BY <1>14, <1>15 DEF base, Next1, U

(* Pruned placement: the iterated frontier, where the variable is live.   *)
LEMMA PrunedPhisAreClosed ==
    ASSUME NEW source, NEW v, source.start \in DOMAIN source.succ, IsGraph(source.succ),
           LiveInBlocks(source, v) \subseteq DOMAIN source.succ
    PROVE  LET added(X) == LiveInBlocks(source, v) \cap
                              UNION { Frontier(source.succ, source.start, d) :
                                        d \in (DefiningBlocks(source, v) \cup {source.start}) \cup X }
           IN  /\ PrunedPhiBlocks(source, v) \in SUBSET DOMAIN source.succ /\ {} \subseteq PrunedPhiBlocks(source, v)
               /\ added(PrunedPhiBlocks(source, v)) \subseteq PrunedPhiBlocks(source, v)
               /\ \A C : {} \subseteq C /\ (\A X \in SUBSET DOMAIN source.succ : X \subseteq C => added(X) \subseteq C)
                         => PrunedPhiBlocks(source, v) \subseteq C
  <1> DEFINE U == DOMAIN source.succ
             len == Cardinality(Blocks(source.succ))
             base == {}
             Next1(X) == LiveInBlocks(source, v) \cap
                              UNION { Frontier(source.succ, source.start, d) :
                                        d \in (DefiningBlocks(source, v) \cup {source.start}) \cup X }
             ext == [ X \in SUBSET U |-> Next1(X) ]
             Steps(f) == [ k \in 0 .. len |->
                             IF k = 0 THEN {}
                             ELSE LET before == f[k - 1]
                                  IN  before \cup
                                      (LiveInBlocks(source, v) \cap UNION { Frontier(source.succ, source.start, d) :
                                           d \in (DefiningBlocks(source, v) \cup {source.start}) \cup before }) ]
             F == CHOOSE f : f = Steps(f)
  <1>1. PrunedPhiBlocks(source, v) = F[len]
    BY DEF PrunedPhiBlocks
  <1>1a. \A f : Steps(f) = [ k \in 0 .. len |-> IF k = 0 THEN base ELSE f[k - 1] \cup Next1(f[k - 1]) ]
    OBVIOUS
  <1>2. len \in Nat /\ IsFiniteSet(U) /\ Cardinality(U) <= len
    BY FS_CardinalityType DEF IsGraph, Blocks
  <1>3. base \in SUBSET U
    OBVIOUS
  <1>4. \A X \in SUBSET U : Next1(X) \in SUBSET U
    <2> HIDE DEF U
    <2> QED
      BY DEF U
  <1>5. ext \in [SUBSET U -> SUBSET U]
    <2> HIDE DEF U, Next1
    <2> QED
      BY <1>4
  <1> HIDE DEF base, F
  <1>6. Rounds(U, base, ext, len)
    <2> HIDE DEF U, ext, len
    <2> QED
      BY <1>2, <1>3, <1>5 DEF Rounds
  <1>6a. (\E f : f = Steps(f)) => F = Steps(F)
    <2> HIDE DEF Steps
    <2> QED
      BY DEF F
  <1>7. \E f : f = Steps(f)
    <2>1. PICK f \in [0 .. len -> SUBSET U] :
              f[0] = base /\ \A k \in 1 .. len : f[k] = f[k - 1] \cup ext[f[k - 1]]
      <3> HIDE DEF U, ext, len
      <3> QED
        BY <1>6, RoundsExist
    <2>2. ASSUME NEW k \in 0 .. len
          PROVE  f[k] = IF k = 0 THEN base ELSE f[k - 1] \cup Next1(f[k - 1])
      <3> HIDE DEF U, len, Next1, Steps
      <3>1. CASE k = 0
        BY <2>1, <3>1
      <3>2. CASE k # 0
        <4>1. k \in 1 .. len /\ k - 1 \in 0 .. len
          BY <1>2, <3>2
        <4> QED
          BY <3>2, <4>1, <2>1
      <3> QED
        BY <3>1, <3>2
    <2>3. f = [ k \in 0 .. len |-> f[k] ]
      <3> HIDE DEF U, len, Steps
      <3> QED
        OBVIOUS
    <2>4. [ k \in 0 .. len |-> f[k] ]
              = [ k \in 0 .. len |-> IF k = 0 THEN base ELSE f[k - 1] \cup Next1(f[k - 1]) ]
      <3> HIDE DEF U, len, Next1, Steps
      <3> QED
        BY <2>2
    <2> HIDE DEF Steps, len, Next1, U
    <2> QED
      BY <1>1a, <2>3, <2>4
  <1> HIDE DEF Steps, Next1
  <1>8. F = [ k \in 0 .. len |-> IF k = 0 THEN base ELSE F[k - 1] \cup Next1(F[k - 1]) ]
    BY <1>1a, <1>6a, <1>7
  <1> HIDE DEF len
  <1>9. F[0] = base
    BY <1>2, <1>8
  <1>10. ASSUME NEW k \in 1 .. len, F[k - 1] \in SUBSET U
         PROVE  F[k] = F[k - 1] \cup ext[F[k - 1]]
    <2>1. k \in 0 .. len /\ k # 0
      BY <1>2
    <2> HIDE DEF U
    <2> QED
      BY <1>10, <1>8, <2>1
  <1>11. /\ F[len] \in SUBSET U /\ base \subseteq F[len] /\ ext[F[len]] \subseteq F[len]
         /\ \A C : base \subseteq C /\ (\A X \in SUBSET U : X \subseteq C => ext[X] \subseteq C)
                   => F[len] \subseteq C
    <2> HIDE DEF U, ext
    <2> QED
      BY <1>6, <1>9, <1>10, ClosureByRounds DEF RoundsTaken
  <1>13. ASSUME NEW C, base \subseteq C, \A X \in SUBSET U : X \subseteq C => Next1(X) \subseteq C
         PROVE  F[len] \subseteq C
    <2>1. ASSUME NEW X \in SUBSET U, X \subseteq C
          PROVE  ext[X] \subseteq C
      BY <1>13, <2>1
    <2> HIDE DEF ext, U
    <2> QED
      BY <1>11, <1>13, <2>1
  <1> DEFINE Fl == F[len]
  <1>14. /\ Fl \in SUBSET U /\ base \subseteq Fl /\ Next1(Fl) \subseteq Fl
         /\ \A C : base \subseteq C /\ (\A X \in SUBSET U : X \subseteq C => Next1(X) \subseteq C)
                   => Fl \subseteq C
    BY <1>11, <1>13
  <1>15. PrunedPhiBlocks(source, v) = Fl
    BY <1>1
  <1> HIDE DEF Fl
  <1> QED
    BY <1>14, <1>15 DEF base, Next1, U

(* The pairs of a block and a variable that the construction promises the  *)
(* version of: all, or those with the variable live on entry.              *)
Wanted(source, construction) ==
    { e \in ReachableFrom(source.succ, source.start) \X source.variables :
        construction = "pruned" => e[1] \in LiveInBlocks(source, e[2]) }

(* The blocks in reach that define v, the start and the phis included.     *)
Defined(source, placement, v) ==
    { b \in ReachableFrom(source.succ, source.start) :
        b = source.start \/ b \in DefiningBlocks(source, v) \/ <<b, v>> \in placement }

(* Wherever two definitions meet there is a phi, if it is wanted.          *)
PhisPlaced(source, placement, wanted) ==
    LET R == ReachableFrom(source.succ, source.start)
    IN  /\ placement \subseteq R \X source.variables
        /\ \A v \in source.variables : <<source.start, v>> \notin placement
        /\ \A v \in source.variables : \A d \in Defined(source, placement, v) :
           \A b \in Frontier(source.succ, source.start, d) :
               <<b, v>> \in wanted => <<b, v>> \in placement

(* The placement of a construction.                                        *)
PlacementOf(source, construction) ==
    IF construction = "pruned" THEN PrunedPhis(source) ELSE MinimalPhis(source)

(* The start is in no dominance frontier, having no predecessor.           *)
LEMMA NoFrontierAtStart ==
    ASSUME NEW source, SourceAccepted(source),
           source.start \in DOMAIN source.succ, IsGraph(source.succ), NEW d
    PROVE  source.start \notin Frontier(source.succ, source.start, d)
  <1> QED
    BY ReachableIsClosed DEF Frontier, UniquePredecessors, UniqueSuccessors,
       SourceAccepted, Blocks

(* The placement, one variable at a time.                                  *)
PhiBlocks(source, construction, v) ==
    IF construction = "pruned" THEN PrunedPhiBlocks(source, v)
    ELSE IteratedFrontier(source.succ, source.start, DefiningBlocks(source, v) \cup {source.start})

(* The placement holds the frontier of each definition it is made for.     *)
LEMMA PhiBlocksArePlaced ==
    ASSUME NEW source, SourceAccepted(source), NEW v,
           source.start \in DOMAIN source.succ, IsGraph(source.succ), NEW construction,
           NEW P, P = PhiBlocks(source, construction, v)
    PROVE  /\ P \subseteq ReachableFrom(source.succ, source.start) /\ source.start \notin P
           /\ \A d : d = source.start \/ d \in DefiningBlocks(source, v) \/ d \in P =>
                  \A b \in Frontier(source.succ, source.start, d) :
                      (construction = "pruned" => b \in LiveInBlocks(source, v)) => b \in P
  <1> PICK succ, start, D, R : /\ succ = source.succ /\ start = source.start
                               /\ D = DefiningBlocks(source, v) \cup {source.start}
                               /\ R = ReachableFrom(source.succ, source.start)
    OBVIOUS
  <1>1. start \in DOMAIN succ /\ IsGraph(succ)
    OBVIOUS
  <1> DEFINE all(X) == UNION { Frontier(succ, start, d) : d \in D \cup X }
             C == R \ {start}
  <1>3. \A X : all(X) \subseteq C
    BY FrontierFacts, NoFrontierAtStart
  <1>4. CASE construction # "pruned"
    <2>1. P = IteratedFrontier(succ, start, D)
      BY <1>4 DEF PhiBlocks
    <2>2. /\ all(P) \subseteq P
          /\ \A X : ({} \subseteq X /\ \A Y \in SUBSET DOMAIN succ : Y \subseteq X => all(Y) \subseteq X) => P \subseteq X
      <3> DEFINE I == IteratedFrontier(succ, start, D)
                 grown(X) == UNION { Frontier(succ, start, d) : d \in D \cup X }
      <3>1. /\ I \in SUBSET DOMAIN succ /\ {} \subseteq I
            /\ grown(I) \subseteq I
            /\ \A X : {} \subseteq X /\ (\A Y \in SUBSET DOMAIN succ : Y \subseteq X => grown(Y) \subseteq X)
                      => I \subseteq X
        BY ONLY <1>1, IteratedFrontierIsClosed
      <3> QED
        BY <2>1, <3>1
    <2> HIDE DEF all, C
    <2> USE DEF all, C
    <2>4. \A d : d = start \/ d \in DefiningBlocks(source, v) \/ d \in P =>
              \A b \in Frontier(succ, start, d) : b \in P
      BY <2>2
    <2> QED
      BY <1>3, <2>2, <2>4
  <1>5. CASE construction = "pruned"
    <2> PICK live : live = LiveInBlocks(source, v)
      OBVIOUS
    <2> DEFINE added(X) == live \cap all(X)
    <2>1. P = PrunedPhiBlocks(source, v)
      BY <1>5 DEF PhiBlocks
    <2>2. live \subseteq DOMAIN succ
      BY LiveInIsClosed
    <2>3. /\ added(P) \subseteq P
          /\ \A X : ({} \subseteq X /\ \A Y \in SUBSET DOMAIN succ : Y \subseteq X => added(Y) \subseteq X) => P \subseteq X
      <3> DEFINE I == PrunedPhiBlocks(source, v)
                 grown(X) == LiveInBlocks(source, v) \cap
                              UNION { Frontier(source.succ, source.start, d) :
                                        d \in (DefiningBlocks(source, v) \cup {source.start}) \cup X }
      <3>1. /\ I \in SUBSET DOMAIN source.succ /\ {} \subseteq I
            /\ grown(I) \subseteq I
            /\ \A X : {} \subseteq X /\ (\A Y \in SUBSET DOMAIN source.succ : Y \subseteq X => grown(Y) \subseteq X)
                      => I \subseteq X
        BY <2>2, PrunedPhisAreClosed
      <3>2. \A X : grown(X) = added(X)
        OBVIOUS
      <3> HIDE DEF grown, added
      <3> QED
        BY <2>1, <3>1, <3>2
    <2>4. \A X : added(X) \subseteq C
      <3> HIDE DEF all, C
      <3> QED
        BY <1>3
    <2> HIDE DEF added, C
    <2>5. P \subseteq C
      BY <2>3, <2>4
    <2> USE DEF added, C
    <2> QED
      BY <1>5, <2>5, <2>3
  <1> QED
    BY <1>4, <1>5

(* Both constructions place the phis that dominance asks for, pruned where *)
(* the variable is dead.                                                   *)
LEMMA ConstructionsPlacePhis ==
    ASSUME NEW source, IsProgram(source, source.variables), SourceAccepted(source),
           NEW construction,
           NEW placement, placement = PlacementOf(source, construction)
    PROVE  PhisPlaced(source, placement, Wanted(source, construction))
  <1> DEFINE R == ReachableFrom(source.succ, source.start)
             V == source.variables
             P(v) == PhiBlocks(source, construction, v)
  <1>2. placement = UNION { P(v) \X {v} : v \in V }
    BY DEF PlacementOf, PhiBlocks, MinimalPhis, PrunedPhis
  <1>3. ASSUME NEW v \in V
        PROVE  /\ P(v) \subseteq R /\ source.start \notin P(v)
               /\ \A d : d = source.start \/ d \in DefiningBlocks(source, v) \/ d \in P(v) =>
                      \A b \in Frontier(source.succ, source.start, d) :
                          (construction = "pruned" => b \in LiveInBlocks(source, v)) => b \in P(v)
    BY ProgramFacts, PhiBlocksArePlaced
  <1> HIDE DEF P
  <1>4. \A b : \A v \in V : <<b, v>> \in placement <=> b \in P(v)
    BY <1>2
  <1>7. ASSUME NEW v \in V, NEW d \in Defined(source, placement, v),
               NEW b \in Frontier(source.succ, source.start, d), <<b, v>> \in Wanted(source, construction)
        PROVE  <<b, v>> \in placement
    BY <1>4, <1>7, <1>3 DEF Defined, Wanted
  <1> QED
    BY <1>2, <1>3, <1>4, <1>7 DEF PhisPlaced
-----------------------------------------------------------------------------
(* The form a construction gives a unit of compilation.                    *)
Placed(u) == PlacementOf(u.program, u.construction)

(* What a construction makes of an accepted source is its SSA form.        *)
LEMMA ConstructedForm ==
    ASSUME NEW u, IsUnit(u), u.construction # "none", SourceAccepted(u.program)
    PROVE  /\ RenamesSource(u.program, Placed(u))
           /\ PhisPlaced(u.program, Placed(u), Wanted(u.program, u.construction))
           /\ FormOf(u.program, Placed(u), Constructed(u))
  <1> PICK source, P : source = u.program /\ P = Placed(u)
    OBVIOUS
  <1>1. IsProgram(source, source.variables) /\ SourceAccepted(source)
    BY DEF IsUnit
  <1>3. P = PlacementOf(source, u.construction)
    BY DEF Placed
  <1>4. PhisPlaced(source, P, Wanted(source, u.construction))
    BY <1>1, <1>3, ConstructionsPlacePhis
  <1>5. RenamesSource(source, P)
    BY <1>1, <1>4 DEF RenamesSource, PhisPlaced, IsUnit
  <1> QED
    BY <1>4, <1>5, <1>3, FormFacts DEF IsUnit, Constructed, ConstructSsa,
       ConstructPrunedSsa, PlacementOf

(* destroy_ssa accepts what the constructions make.                        *)
THEOREM ConstructionsAreAccepted ==
    ASSUME NEW u, IsUnit(u), u.construction # "none", SourceAccepted(u.program)
    PROVE  SsaAccepted(Constructed(u))
  BY ConstructedForm, FormIsAccepted

(* The instructions of an SSA program are instructions over values.        *)
LEMMA ConstructedInstructions ==
    ASSUME NEW u, IsUnit(u), u.construction # "none" => SourceAccepted(u.program)
    PROVE  /\ Constructed(u).succ = u.program.succ /\ Constructed(u).start = u.program.start
           /\ DOMAIN Constructed(u).instructions = Blocks(u.program.succ)
           /\ \A b \in Blocks(u.program.succ) :
                  Constructed(u).instructions[b] \in Seq(InstructionsOver(Nat))
  <1> PICK p, U : p = Constructed(u) /\ U = Blocks(u.program.succ)
    OBVIOUS
  <1>1. CASE u.construction = "none"
    BY <1>1 DEF Constructed, IsUnit, IsProgram
  <1>2. CASE u.construction # "none"
    <2>3. << >> \in Seq(InstructionsOver(Nat))
      OBVIOUS
    <2> QED
      BY <1>2, ConstructedForm, <2>3 DEF FormOf
  <1> QED
    BY <1>1, <1>2
=============================================================================
