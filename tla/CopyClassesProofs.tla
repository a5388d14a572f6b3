------------------------- MODULE CopyClassesProofs -------------------------
(***************************************************************************)
(* Proofs about CopyClasses, for every set of locations, interference,     *)
(* list of moves and register budget.  The inductive invariant adds to the *)
(* properties that nothing is colored while classes are still merged.      *)
(***************************************************************************)
EXTENDS CopyClasses, TLAPS

ColoredInOrder == phase = "coalescing" => assigned = << >>

IInv ==
    /\ TypeOK
    /\ ColoredInOrder
    /\ ClassesIndependent
    /\ ProperAllocation
    /\ SpillsForced
    /\ DecisionsStand

Decisions == {"already_coalesced", "blocked_by_interference", "merged"}
-----------------------------------------------------------------------------
(* What the input of a call is: moves between locations, and a symmetric,  *)
(* irreflexive interference.                                               *)
LEMMA InputFacts ==
    ASSUME TypeOK
    PROVE  /\ input.interference \subseteq Location \X Location
           /\ input.moves \in Seq([source : Location, destination : Location])
           /\ input.budget \in Nat
           /\ \A l, m \in Location :
                  <<l, m>> \in input.interference =>
                      l # m /\ <<m, l>> \in input.interference
  BY InputsAssumption, InterferenceAssumption DEF TypeOK

(* The move considered next joins two locations. *)
LEMMA NextMove ==
    ASSUME TypeOK, NEW i \in 1 .. Len(input.moves)
    PROVE  /\ input.moves[i].source \in Location
           /\ input.moves[i].destination \in Location
  <1> DEFINE M == [source : Location, destination : Location]
  <1>1. input.moves \in Seq(M)
    BY InputFacts
  <1>2. input.moves[i] \in M
    <2> HIDE DEF M
    <2> QED
      BY <1>1
  <1> QED
    BY <1>2

(* Two classes are neighbors in the quotient exactly when members of them  *)
(* interfere, and this is symmetric.                                       *)
LEMMA QuotientIsInterference ==
    ASSUME TypeOK, NEW a, NEW b
    PROVE  /\ <<a, b>> \in QuotientInterference <=> ClassesInterfere(a, b)
           /\ ClassesInterfere(a, b) => ClassesInterfere(b, a)
  <1>1. ASSUME <<a, b>> \in QuotientInterference
        PROVE  ClassesInterfere(a, b)
    <2>1. PICK e \in input.interference : <<a, b>> = <<class[e[1]], class[e[2]]>>
      BY <1>1 DEF QuotientInterference
    <2>2. e \in Location \X Location
      BY InputFacts
    <2>3. e[1] \in Location /\ e[2] \in Location /\ e = <<e[1], e[2]>>
      BY <2>2
    <2> QED
      BY <2>1, <2>3 DEF ClassesInterfere
  <1>2. ASSUME ClassesInterfere(a, b)
        PROVE  <<a, b>> \in QuotientInterference
    <2>1. PICK l \in Location, m \in Location :
              <<l, m>> \in input.interference /\ class[l] = a /\ class[m] = b
      BY <1>2 DEF ClassesInterfere
    <2>2. <<l, m>>[1] = l /\ <<l, m>>[2] = m
      OBVIOUS
    <2> QED
      BY <2>1, <2>2 DEF QuotientInterference
  <1>3. ClassesInterfere(a, b) => ClassesInterfere(b, a)
    BY InputFacts DEF ClassesInterfere
  <1> QED
    BY <1>1, <1>2, <1>3
-----------------------------------------------------------------------------
(* Merging two classes that do not interfere keeps all classes independent.*)
LEMMA MergeKeepsIndependence ==
    ASSUME TypeOK, ClassesIndependent, NEW a \in Location, NEW b \in Location,
           ~ClassesInterfere(a, b)
    PROVE  \A l, m \in Location :
               <<l, m>> \in input.interference =>
                   MergedClass(a, b)[l] # MergedClass(a, b)[m]
  <1> SUFFICES ASSUME NEW l \in Location, NEW m \in Location,
                      <<l, m>> \in input.interference
               PROVE  MergedClass(a, b)[l] # MergedClass(a, b)[m]
    OBVIOUS
  <1>1. class[l] # class[m]
    BY DEF ClassesIndependent
  <1>2. ~(class[l] = a /\ class[m] = b) /\ ~(class[l] = b /\ class[m] = a)
    BY InputFacts DEF ClassesInterfere
  <1> QED
    BY <1>1, <1>2 DEF MergedClass

(* Locations of one class stay in one class. *)
LEMMA MergeKeepsClasses ==
    ASSUME TypeOK, NEW a, NEW b, NEW l \in Location, NEW m \in Location,
           class[l] = class[m]
    PROVE  MergedClass(a, b)[l] = MergedClass(a, b)[m]
  BY DEF MergedClass

(* The step for one move. *)
LEMMA MoveStep ==
    ASSUME IInv, ConsiderMove
    PROVE  IInv'
  <1> DEFINE i    == Len(decisions) + 1
             move == input.moves[i]
             a    == class[move.source]
             b    == class[move.destination]
  <1>1. /\ phase = "coalescing" /\ Len(decisions) < Len(input.moves)
        /\ input' = input /\ phase' = phase /\ assigned' = assigned
    BY DEF ConsiderMove
  <1>2. TypeOK /\ assigned = << >> /\ decisions \in Seq(Decisions)
        /\ class \in [Location -> Location]
    BY <1>1 DEF IInv, ColoredInOrder, TypeOK, Decisions
  <1>3. i \in 1 .. Len(input.moves) /\ Len(input.moves) \in Nat
    BY <1>1, <1>2, InputFacts
  <1>4. move.source \in Location /\ move.destination \in Location
    BY <1>2, <1>3, NextMove
  <1>5. a \in Location /\ b \in Location
    BY <1>2, <1>4
  <1>6. \/ decisions' = Append(decisions, "already_coalesced") /\ class' = class /\ a = b
        \/ /\ decisions' = Append(decisions, "blocked_by_interference") /\ class' = class
           /\ a # b /\ ClassesInterfere(a, b)
        \/ /\ decisions' = Append(decisions, "merged") /\ class' = MergedClass(a, b)
           /\ a # b /\ ~ClassesInterfere(a, b)
    BY DEF ConsiderMove
  <1>7. class' \in [Location -> Location]
    BY <1>2, <1>5, <1>6 DEF MergedClass
  <1>8. decisions' \in Seq(Decisions) /\ Len(decisions') = i
        /\ \A k \in 1 .. Len(decisions) : decisions'[k] = decisions[k]
        /\ decisions'[i] \in Decisions
    BY ONLY <1>2, <1>6 DEF Decisions
  <1>9. TypeOK'
    BY <1>1, <1>2, <1>3, <1>7, <1>8 DEF TypeOK, Decisions
  <1>10. ClassesIndependent'
    <2>1. CASE class' = class
      BY <1>1, <2>1 DEF IInv, ClassesIndependent
    <2>2. CASE class' = MergedClass(a, b) /\ ~ClassesInterfere(a, b)
      <3> HIDE DEF a, b
      <3>1. TypeOK /\ ClassesIndependent
        BY <1>1 DEF IInv
      <3>2. \A l, m \in Location : <<l, m>> \in input.interference =>
                MergedClass(a, b)[l] # MergedClass(a, b)[m]
        BY ONLY <3>1, <1>5, <2>2, MergeKeepsIndependence
      <3> QED
        BY ONLY <3>2, <1>1, <2>2 DEF ClassesIndependent
    <2> QED
      BY <1>6, <2>1, <2>2
  <1>11. \A l, m \in Location : class[l] = class[m] => class'[l] = class'[m]
    BY <1>2, <1>6, MergeKeepsClasses
  <1> DEFINE s(k) == input.moves[k].source
             d(k) == input.moves[k].destination
  <1>12. DecisionsStand'
    <2> SUFFICES ASSUME NEW k \in DOMAIN decisions'
                 PROVE  /\ decisions'[k] = "blocked_by_interference" =>
                               /\ class'[s(k)] # class'[d(k)]
                               /\ \E l, m \in Location :
                                      /\ <<l, m>> \in input.interference
                                      /\ class'[l] = class'[s(k)] /\ class'[m] = class'[d(k)]
                        /\ decisions'[k] # "blocked_by_interference" =>
                               class'[s(k)] = class'[d(k)]
      BY <1>1 DEF DecisionsStand, ClassesInterfere
    <2>1. k \in 1 .. i /\ k \in 1 .. Len(input.moves)
      BY <1>3, <1>8
    <2>2. s(k) \in Location /\ d(k) \in Location
      BY <1>2, <2>1, NextMove
    <2>3. ASSUME ClassesInterfere(class[s(k)], class[d(k)])
          PROVE  /\ class'[s(k)] # class'[d(k)]
                 /\ \E l, m \in Location :
                        /\ <<l, m>> \in input.interference
                        /\ class'[l] = class'[s(k)] /\ class'[m] = class'[d(k)]
      <3>1. PICK l \in Location, m \in Location :
                <<l, m>> \in input.interference /\ class[l] = class[s(k)] /\ class[m] = class[d(k)]
        BY <2>3 DEF ClassesInterfere
      <3>2. class'[l] = class'[s(k)] /\ class'[m] = class'[d(k)]
        BY <1>11, <2>2, <3>1
      <3>3. class'[l] # class'[m]
        BY <1>1, <1>10, <3>1 DEF ClassesIndependent
      <3> QED
        BY <1>1, <3>1, <3>2, <3>3 DEF ClassesInterfere
    <2>4. CASE k \in 1 .. Len(decisions)
      <3>1. decisions'[k] = decisions[k] /\ k \in DOMAIN decisions
        BY <1>2, <1>8, <2>4
      <3>2. IF decisions[k] = "blocked_by_interference"
            THEN ClassesInterfere(class[s(k)], class[d(k)])
            ELSE class[s(k)] = class[d(k)]
        BY <3>1 DEF IInv, DecisionsStand
      <3> QED
        BY <1>11, <2>2, <2>3, <3>1, <3>2
    <2>5. CASE k = i
      <3>1. class[s(k)] = a /\ class[d(k)] = b
        BY <2>5
      <3>2. CASE decisions' = Append(decisions, "already_coalesced")
                 /\ class' = class /\ a = b
        <4>1. decisions'[k] = "already_coalesced"
          BY <1>2, <2>5, <3>2
        <4> QED
          BY <3>1, <3>2, <4>1
      <3>3. CASE decisions' = Append(decisions, "blocked_by_interference")
                 /\ class' = class /\ ClassesInterfere(a, b)
        <4>1. decisions'[k] = "blocked_by_interference"
          BY <1>2, <2>5, <3>3
        <4> QED
          BY <2>3, <3>1, <3>3, <4>1
      <3>4. CASE decisions' = Append(decisions, "merged") /\ class' = MergedClass(a, b)
        <4>1. decisions'[k] = "merged"
          BY <1>2, <2>5, <3>4
        <4>2. class'[s(k)] = class'[d(k)]
          BY <2>2, <3>1, <3>4 DEF MergedClass
        <4> QED
          BY <4>1, <4>2
      <3> HIDE DEF a, b, s, d
      <3> QED
        BY <1>6, <3>2, <3>3, <3>4
    <2>6. k \in 1 .. Len(decisions) \/ k = i
      BY <1>2, <2>1
    <2> QED
      BY <2>4, <2>5, <2>6
  <1>13. ColoredInOrder' /\ ProperAllocation' /\ SpillsForced'
    BY <1>1, <1>2 DEF ColoredInOrder, ProperAllocation, SpillsForced
  <1> QED
    BY <1>9, <1>10, <1>12, <1>13 DEF IInv

(* Nothing the classes or decisions depend on changes. *)
LEMMA ClassesKept ==
    ASSUME IInv, input' = input, class' = class, decisions' = decisions
    PROVE  /\ ClassesIndependent' /\ DecisionsStand'
           /\ class' \in [Location -> Location] /\ input' \in Inputs
           /\ decisions' \in Seq(Decisions) /\ Len(decisions') <= Len(input'.moves)
  <1>1. ClassesIndependent'
    BY DEF IInv, ClassesIndependent
  <1>2. DecisionsStand'
    BY DEF IInv, DecisionsStand, ClassesInterfere
  <1>3. /\ class' \in [Location -> Location] /\ input' \in Inputs
        /\ decisions' \in Seq(Decisions) /\ Len(decisions') <= Len(input'.moves)
    BY DEF IInv, TypeOK, Decisions
  <1> QED
    BY <1>1, <1>2, <1>3

(* A step that only moves to a later phase, or none. *)
LEMMA PhaseStep ==
    ASSUME IInv, UNCHANGED <<input, class, decisions, assigned>>,
           phase' = phase \/ phase' \in {"coloring", "returned"}
    PROVE  IInv'
  <1>1. ClassesIndependent' /\ DecisionsStand'
    BY ClassesKept
  <1>2. TypeOK'
    BY DEF IInv, TypeOK
  <1>3. ColoredInOrder'
    BY DEF IInv, ColoredInOrder
  <1>4. ProperAllocation'
    BY DEF IInv, ProperAllocation
  <1>5. SpillsForced'
    BY DEF IInv, SpillsForced, ClassesInterfere
  <1> QED
    BY <1>1, <1>2, <1>3, <1>4, <1>5 DEF IInv

(* The step that colors one class. *)
LEMMA ColorStep ==
    ASSUME IInv, ColorClass
    PROVE  IInv'
  <1>1. /\ phase = "coloring" /\ phase' = phase
        /\ input' = input /\ class' = class /\ decisions' = decisions
    BY DEF ColorClass
  <1>2. PICK c \in Classes \ DOMAIN assigned, register \in {Spilled} \cup 0 .. input.budget - 1 :
            /\ IsCandidate(input.budget, Unavailable(QuotientInterference, assigned, c), register)
            /\ assigned' = WithColor(assigned, c, register)
    BY DEF ColorClass
  <1>3. TypeOK /\ c \in Location /\ input.budget \in Nat
    BY InputFacts DEF IInv, TypeOK, Classes
  <1>4. /\ DOMAIN assigned' = DOMAIN assigned \cup {c}
        /\ assigned'[c] = register
        /\ \A d \in DOMAIN assigned : assigned'[d] = assigned[d]
    BY <1>2 DEF WithColor
  <1>5. TypeOK'
    BY <1>1, <1>2, <1>3, <1>4 DEF TypeOK
  <1>6. ASSUME NEW d \in DOMAIN assigned, ClassesInterfere(c, d), register # Spilled
        PROVE  register # assigned[d]
    <2>1. assigned[d] \in Unavailable(QuotientInterference, assigned, c)
      BY <1>3, <1>6, QuotientIsInterference DEF Unavailable
    <2> QED
      BY <1>2, <1>6, <2>1 DEF IsCandidate
  <1>7. ProperAllocation'
    <2> SUFFICES ASSUME NEW l \in Location, NEW m \in Location,
                        <<l, m>> \in input.interference,
                        class[l] \in DOMAIN assigned', class[m] \in DOMAIN assigned',
                        assigned'[class[l]] # Spilled
                 PROVE  assigned'[class[l]] # assigned'[class[m]]
      BY <1>1 DEF ProperAllocation
    <2>1. class[l] # class[m]
      BY DEF IInv, ClassesIndependent
    <2>2. ClassesInterfere(class[l], class[m]) /\ ClassesInterfere(class[m], class[l])
      BY <1>3, QuotientIsInterference DEF ClassesInterfere
    <2>3. CASE class[l] = c
      BY <1>4, <1>6, <2>1, <2>2, <2>3
    <2>4. CASE class[m] = c
      <3>1. class[l] \in DOMAIN assigned /\ assigned'[class[l]] = assigned[class[l]]
        BY <1>4, <2>1, <2>4
      <3>2. CASE register = Spilled
        BY <1>4, <2>4, <3>1, <3>2
      <3>3. CASE register # Spilled
        BY <1>4, <1>6, <2>2, <2>4, <3>1, <3>3
      <3> QED
        BY <3>2, <3>3
    <2>5. CASE class[l] # c /\ class[m] # c
      BY <1>4, <2>5 DEF IInv, ProperAllocation
    <2> QED
      BY <2>3, <2>4, <2>5
  <1>8. SpillsForced'
    <2>0. /\ input'.budget = input.budget
          /\ \A a, b : ClassesInterfere(a, b)' <=> ClassesInterfere(a, b)
      BY <1>1 DEF ClassesInterfere
    <2> SUFFICES ASSUME NEW e \in DOMAIN assigned', assigned'[e] = Spilled,
                        NEW q \in 0 .. input.budget - 1
                 PROVE  \E d \in DOMAIN assigned' :
                            assigned'[d] = q /\ ClassesInterfere(e, d)
      BY <2>0, Zenon DEF SpillsForced
    <2>1. \E d \in DOMAIN assigned : assigned[d] = q /\ ClassesInterfere(e, d)
      <3>1. CASE e = c
        <4>1. q \in Unavailable(QuotientInterference, assigned, c)
          BY <1>2, <1>3, <1>4, <3>1 DEF IsCandidate, Spilled
        <4>2. PICK d \in DOMAIN assigned :
                  assigned[d] = q /\ <<c, d>> \in QuotientInterference
          BY <4>1 DEF Unavailable
        <4> QED
          BY <1>3, <3>1, <4>2, QuotientIsInterference
      <3>2. CASE e # c
        BY <1>4, <3>2 DEF IInv, SpillsForced
      <3> QED
        BY <3>1, <3>2
    <2> QED
      BY <1>4, <2>1
  <1> QED
    BY <1>1, <1>5, <1>7, <1>8, ClassesKept DEF IInv, ColoredInOrder
-----------------------------------------------------------------------------
(* The allocation begins in the inductive invariant. *)
LEMMA InitInvariant ==
    ASSUME Init
    PROVE  IInv
  <1>1. TypeOK
    BY InputsAssumption DEF Init, TypeOK
  <1>2. ClassesIndependent
    BY <1>1, InputFacts DEF Init, ClassesIndependent
  <1> QED
    BY <1>1, <1>2 DEF Init, IInv, ColoredInOrder, ProperAllocation, SpillsForced,
                      DecisionsStand

(* No step of the allocation leaves the inductive invariant. *)
LEMMA NextInvariant ==
    ASSUME IInv, [Next]_vars
    PROVE  IInv'
  <1>1. CASE ConsiderMove
    BY <1>1, MoveStep
  <1>2. CASE NumberClasses
    BY <1>2, PhaseStep DEF NumberClasses
  <1>3. CASE ColorClass
    BY <1>3, ColorStep
  <1>4. CASE Return
    BY <1>4, PhaseStep DEF Return
  <1>5. CASE UNCHANGED vars
    BY <1>5, PhaseStep DEF vars
  <1> QED
    BY <1>1, <1>2, <1>3, <1>4, <1>5 DEF Next

(* The properties hold together, in every state of every call. *)
THEOREM InductiveInvariant == Spec => []IInv
  BY InitInvariant, NextInvariant, PTL DEF Spec

(* Classes, decisions and registers keep their types: a color is a register*)
(* of the budget or Spilled, for every input.                              *)
THEOREM ClassesAreWellTyped == Spec => []TypeOK
  BY InductiveInvariant, PTL DEF IInv

(* coalesce_phi_free_registers never puts two interfering locations into   *)
(* one class: the logic_error that checks for it cannot be thrown.         *)
THEOREM ClassesStayIndependent == Spec => []ClassesIndependent
  BY InductiveInvariant, PTL DEF IInv

(* The greedy coloring never gives two interfering locations one register, *)
(* whatever the order of the nodes.                                        *)
THEOREM AllocationIsProper == Spec => []ProperAllocation
  BY InductiveInvariant, PTL DEF IInv

(* A location is spilled only if its neighbors hold the whole budget.      *)
THEOREM SpillsAreForced == Spec => []SpillsForced
  BY InductiveInvariant, PTL DEF IInv

(* The reported decisions hold of the final classes.                       *)
THEOREM DecisionsAreFinal == Spec => []DecisionsStand
  BY InductiveInvariant, PTL DEF IInv
=============================================================================
