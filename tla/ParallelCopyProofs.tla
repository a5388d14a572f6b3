------------------------- MODULE ParallelCopyProofs -------------------------
(***************************************************************************)
(* For every set of values, every contents and every list of copies, the   *)
(* moves of schedule_parallel_copies have the effect of the simultaneous   *)
(* copy, and the schedule implements SimultaneousCopy.                     *)
(***************************************************************************)
EXTENDS ParallelCopy, FiniteSetTheorems, TLAPS

(* The destinations whose move has been emitted. *)
Written == MovedDestinations(copies) \ DOMAIN pending

(* What holds at every iteration of the loop.  A destination contains the  *)
(* contents its source had on entry once it is written, and its own until  *)
(* then; the pending copies can still be performed.                        *)
Progress ==
    /\ ~HasDuplicateDestination(copies)
    /\ DOMAIN pending \subseteq MovedDestinations(copies)
    /\ \A v \in Value :
           vals[v] = IF v \in Written THEN entry[SourceOf(copies, v)] ELSE entry[v]
    /\ \A d \in DOMAIN pending :
           Content(pending[d]) = entry[SourceOf(copies, d)]

IInv ==
    /\ TypeOK
    /\ outcome = "called" => vals = entry /\ temps = << >>
    /\ outcome = "rejected" => vals = entry /\ HasDuplicateDestination(copies)
    /\ outcome = "scheduling" => Progress
    /\ outcome = "returned" => /\ ~HasDuplicateDestination(copies)
                               /\ CopiesRealised
-----------------------------------------------------------------------------
(* A destination of a list has its source in the list. *)
LEMMA SourceOfCopy ==
    ASSUME NEW list, NEW i \in DOMAIN list
    PROVE  \E j \in DOMAIN list :
               /\ list[j].destination = list[i].destination
               /\ SourceOf(list, list[i].destination) = list[j].source
  <1> DEFINE d == list[i].destination
             j == CHOOSE k \in DOMAIN list : list[k].destination = d
  <1>1. \E k \in DOMAIN list : list[k].destination = d
    OBVIOUS
  <1>2. j \in DOMAIN list /\ list[j].destination = d
    BY <1>1
  <1>3. SourceOf(list, d) = list[j].source
    BY DEF SourceOf
  <1> QED BY <1>2, <1>3

(* The copies of an input are between values. *)
LEMMA InputTyping ==
    ASSUME NEW list \in Inputs, NEW i \in DOMAIN list
    PROVE  /\ list[i].destination \in Value
           /\ list[i].source \in Value
           /\ SourceOf(list, list[i].destination) \in Value
  <1> DEFINE Copy == [destination : Value, source : Value]
  <1>1. list \in Seq(Copy)
    BY InputsAssumption
  <1>2. \A k \in DOMAIN list : list[k] \in Copy
    <2> HIDE DEF Copy
    <2> QED BY <1>1
  <1> QED BY <1>2, SourceOfCopy

(* A moved destination is a destination of the list, and not a self-copy   *)
(* when no destination is written twice.                                   *)
LEMMA MovedIsDestination ==
    ASSUME NEW list \in Inputs, NEW d \in MovedDestinations(list)
    PROVE  /\ d \in Value
           /\ SourceOf(list, d) \in Value
           /\ \E i \in DOMAIN list : list[i].destination = d
           /\ ~HasDuplicateDestination(list) => SourceOf(list, d) # d
  <1>1. PICK i \in DOMAIN list : d = list[i].destination /\ d # list[i].source
    BY DEF MovedDestinations
  <1>2. PICK j \in DOMAIN list :
            list[j].destination = d /\ SourceOf(list, d) = list[j].source
    BY <1>1, SourceOfCopy
  <1>3. ~HasDuplicateDestination(list) => i = j
    BY <1>1, <1>2 DEF HasDuplicateDestination
  <1> QED BY <1>1, <1>2, <1>3, InputTyping

(* What a destination of the list that is not moved receives is what it    *)
(* already contains.                                                       *)
LEMMA UnmovedIsSelfCopy ==
    ASSUME NEW list \in Inputs, ~HasDuplicateDestination(list),
           NEW i \in DOMAIN list, list[i].destination \notin MovedDestinations(list)
    PROVE  SourceOf(list, list[i].destination) = list[i].destination
  <1>1. PICK j \in DOMAIN list :
            /\ list[j].destination = list[i].destination
            /\ SourceOf(list, list[i].destination) = list[j].source
    BY SourceOfCopy
  <1>2. i = j
    BY <1>1 DEF HasDuplicateDestination
  <1>3. list[i].destination = list[i].source
    BY DEF MovedDestinations
  <1> QED BY <1>1, <1>2, <1>3
-----------------------------------------------------------------------------
(* The copies begin in the inductive invariant. *)
LEMMA InitEstablishes == Init => IInv
  <1> SUFFICES ASSUME Init PROVE IInv
    OBVIOUS
  <1> USE DEF Init
  <1>1. TypeOK
    BY DEF TypeOK
  <1> QED BY <1>1 DEF IInv

(* No destination is written yet when the pending copies are collected. *)
LEMMA CollectPreserves ==
    ASSUME IInv, Collect
    PROVE  IInv'
  <1> USE DEF Collect
  <1>1. /\ TypeOK
        /\ outcome = "called"
        /\ vals = entry
        /\ ~HasDuplicateDestination(copies)
        /\ pending' = PendingOf(copies)
        /\ outcome' = "scheduling"
        /\ UNCHANGED <<copies, moves, entry, vals, temps>>
    BY DEF IInv
  <1>2. copies \in Inputs
    BY <1>1 DEF TypeOK
  <1>3. DOMAIN pending' = MovedDestinations(copies)
    BY <1>1 DEF PendingOf
  <1>4. \A d \in DOMAIN pending' :
            /\ d \in Value
            /\ SourceOf(copies, d) \in Value
            /\ pending'[d] = ValueLocation(SourceOf(copies, d))
    BY <1>1, <1>2, <1>3, MovedIsDestination DEF PendingOf
  <1>5. TypeOK'
    <2>1. DOMAIN pending' \subseteq Value
      BY <1>4
    <2>2. \A d \in DOMAIN pending' :
              pending'[d] \in [kind : {"value"}, id : Value]
      BY <1>4 DEF ValueLocation
    <2> QED BY <1>1, <2>1, <2>2 DEF TypeOK, temporary_count
  <1>6. Written' = {}
    BY <1>1, <1>3 DEF Written
  <1>7. \A d \in DOMAIN pending' :
            Content(pending[d])' = entry'[SourceOf(copies', d)]
    BY <1>1, <1>4 DEF Content, ValueLocation
  <1>8. Progress'
    BY <1>1, <1>3, <1>6, <1>7 DEF Progress
  <1> QED BY <1>1, <1>5, <1>8 DEF IInv

(* Emitting a ready copy writes a destination no pending copy reads, so    *)
(* the other pending copies can still be performed.                        *)
LEMMA EmitReadyPreserves ==
    ASSUME IInv, EmitReady
    PROVE  IInv'
  <1>1. /\ TypeOK
        /\ Progress
        /\ outcome = "scheduling"
        /\ outcome' = "scheduling"
        /\ UNCHANGED <<copies, entry, temps>>
    BY DEF IInv, EmitReady
  <1>2. PICK d \in DOMAIN pending :
            /\ d \in ReadyDestinations(pending)
            /\ moves' = Append(moves, Move(ValueLocation(d), pending[d]))
            /\ vals' = [vals EXCEPT ![d] = Content(pending[d])]
            /\ pending' = WithoutCopy(pending, d)
    BY DEF EmitReady, IsFirstOf
  <1>3. /\ copies \in Inputs
        /\ DOMAIN pending \subseteq Value
        /\ vals \in [Value -> Data]
        /\ entry \in [Value -> Data]
        /\ temps \in Seq(Data)
    BY <1>1 DEF TypeOK
  <1>4. /\ d \in MovedDestinations(copies)
        /\ SourceOf(copies, d) \in Value
        /\ Content(pending[d]) = entry[SourceOf(copies, d)]
    BY <1>1, <1>2, <1>3, MovedIsDestination DEF Progress
  <1>5. vals' \in [Value -> Data]
    BY <1>2, <1>3, <1>4
  <1>6. /\ DOMAIN pending' = DOMAIN pending \ {d}
        /\ \A e \in DOMAIN pending' : pending'[e] = pending[e]
    BY <1>2 DEF WithoutCopy
  <1>7. \A e \in DOMAIN pending' : pending[e] # ValueLocation(d)
    BY <1>2, <1>6 DEF ReadyDestinations, StillNeeded
  <1>8. TypeOK'
    <2>1. moves' \in Seq([destination : Location, source : Location])
      <3>1. ValueLocation(d) \in Location
        BY <1>2, <1>3 DEF ValueLocation, Location
      <3>2. pending[d] \in Location
        BY <1>1, <1>2 DEF TypeOK, Location
      <3>3. Move(ValueLocation(d), pending[d])
                \in [destination : Location, source : Location]
        BY <3>1, <3>2 DEF Move
      <3> HIDE DEF Location
      <3> DEFINE Moves == [destination : Location, source : Location]
      <3>4. moves \in Seq(Moves)
        BY <1>1 DEF TypeOK
      <3> HIDE DEF Moves
      <3> QED BY <1>2, <3>3, <3>4 DEF Moves
    <2>2. \A e \in DOMAIN pending' :
              \/ pending'[e] \in [kind : {"value"}, id : Value]
              \/ pending'[e] \in [kind : {"temporary"}, id : 0 .. temporary_count' - 1]
      BY <1>1, <1>6 DEF TypeOK, temporary_count
    <2> QED BY <1>1, <1>3, <1>5, <1>6, <2>1, <2>2 DEF TypeOK
  <1>9. \A v \in Value :
            vals'[v] = IF v \in Written' THEN entry'[SourceOf(copies', v)]
                                         ELSE entry'[v]
    <2> SUFFICES ASSUME NEW v \in Value
                 PROVE  vals'[v] = IF v \in Written' THEN entry[SourceOf(copies, v)]
                                                     ELSE entry[v]
      BY <1>1
    <2>1. Written' = Written \cup {d}
      BY <1>1, <1>2, <1>4, <1>6 DEF Written, Progress
    <2>2. CASE v = d
      BY <1>2, <1>3, <1>4, <2>1, <2>2
    <2>3. CASE v # d
      BY <1>1, <1>2, <1>3, <2>1, <2>3 DEF Progress
    <2> QED BY <2>2, <2>3
  <1>10. \A e \in DOMAIN pending' :
             Content(pending[e])' = entry'[SourceOf(copies', e)]
    <2> SUFFICES ASSUME NEW e \in DOMAIN pending'
                 PROVE  Content(pending[e])' = Content(pending[e])
      BY <1>1, <1>6 DEF Progress
    <2>1. CASE pending[e] \in [kind : {"value"}, id : Value]
      <3>1. pending[e].id # d
        BY <1>7, <2>1 DEF ValueLocation
      <3> QED BY <1>2, <1>3, <1>6, <2>1, <3>1 DEF Content
    <2>2. CASE pending[e] \in [kind : {"temporary"}, id : 0 .. temporary_count - 1]
      BY <1>1, <1>6, <2>2 DEF Content
    <2> QED BY <1>1, <1>6, <2>1, <2>2 DEF TypeOK
  <1>11. Progress'
    BY <1>1, <1>6, <1>9, <1>10 DEF Progress
  <1> QED BY <1>1, <1>8, <1>11 DEF IInv

(* Saving a destination changes no value, and the copies that read it read *)
(* the same contents from the fresh temporary.                             *)
LEMMA BreakCyclePreserves ==
    ASSUME IInv, BreakCycle
    PROVE  IInv'
  <1>1. /\ TypeOK
        /\ Progress
        /\ outcome = "scheduling"
        /\ outcome' = "scheduling"
        /\ UNCHANGED <<copies, entry, vals>>
    BY DEF IInv, BreakCycle
  <1>2. PICK saved \in DOMAIN pending :
            /\ moves' = Append(moves, Move(TemporaryLocation(temporary_count),
                                          ValueLocation(saved)))
            /\ temps' = Append(temps, vals[saved])
            /\ pending' = Redirected(pending, saved,
                                     TemporaryLocation(temporary_count))
    BY DEF BreakCycle
  <1>3. /\ DOMAIN pending \subseteq Value
        /\ saved \in Value
        /\ vals[saved] \in Data
        /\ temps \in Seq(Data)
        /\ temporary_count \in Nat
    BY <1>1, <1>2 DEF TypeOK, temporary_count
  <1>4. /\ temps' \in Seq(Data)
        /\ temporary_count' = temporary_count + 1
        /\ temps'[temporary_count + 1] = vals[saved]
        /\ \A k \in 1 .. temporary_count : temps'[k] = temps[k]
    BY <1>2, <1>3 DEF temporary_count
  <1>5. /\ DOMAIN pending' = DOMAIN pending
        /\ \A e \in DOMAIN pending :
               \/ /\ pending[e] = ValueLocation(saved)
                  /\ pending'[e] = TemporaryLocation(temporary_count)
               \/ pending'[e] = pending[e]
    BY <1>2 DEF Redirected
  <1>6. TypeOK'
    <2>1. moves' \in Seq([destination : Location, source : Location])
      <3>1. ValueLocation(saved) \in Location
        BY <1>3 DEF ValueLocation, Location
      <3>2. TemporaryLocation(temporary_count) \in Location
        BY <1>3 DEF TemporaryLocation, Location
      <3>3. Move(TemporaryLocation(temporary_count), ValueLocation(saved))
                \in [destination : Location, source : Location]
        BY <3>1, <3>2 DEF Move
      <3> DEFINE Moves == [destination : Location, source : Location]
      <3>4. moves \in Seq(Moves)
        BY <1>1 DEF TypeOK
      <3> HIDE DEF Moves
      <3> QED BY <1>2, <3>3, <3>4 DEF Moves
    <2>2. \A e \in DOMAIN pending' :
              \/ pending'[e] \in [kind : {"value"}, id : Value]
              \/ pending'[e] \in [kind : {"temporary"}, id : 0 .. temporary_count' - 1]
      BY <1>1, <1>3, <1>4, <1>5 DEF TypeOK, TemporaryLocation
    <2> QED BY <1>1, <1>4, <1>5, <2>1, <2>2 DEF TypeOK
  <1>7. \A e \in DOMAIN pending' :
            Content(pending[e])' = entry'[SourceOf(copies', e)]
    <2> SUFFICES ASSUME NEW e \in DOMAIN pending
                 PROVE  Content(pending[e])' = Content(pending[e])
      BY <1>1, <1>5 DEF Progress
    <2>1. CASE /\ pending[e] = ValueLocation(saved)
               /\ pending'[e] = TemporaryLocation(temporary_count)
      BY <1>4, <2>1 DEF Content, ValueLocation, TemporaryLocation
    <2>2. CASE pending'[e] = pending[e]
      <3>1. CASE pending[e] \in [kind : {"value"}, id : Value]
        BY <1>1, <2>2, <3>1 DEF Content
      <3>2. CASE pending[e] \in [kind : {"temporary"}, id : 0 .. temporary_count - 1]
        BY <1>3, <1>4, <2>2, <3>2 DEF Content
      <3> QED BY <1>1, <3>1, <3>2 DEF TypeOK
    <2> QED BY <1>5, <2>1, <2>2
  <1>8. Written' = Written
    BY <1>1, <1>5 DEF Written
  <1>9. Progress'
    BY <1>1, <1>5, <1>7, <1>8 DEF Progress
  <1> QED BY <1>1, <1>6, <1>9 DEF IInv

(* With no copy pending, every destination of the list is written or was a *)
(* self-copy.                                                              *)
LEMMA ProgressCompletes ==
    ASSUME TypeOK, Progress, DOMAIN pending = {}
    PROVE  vals = Simultaneous(copies, entry)
  <1>1. /\ copies \in Inputs
        /\ vals \in [Value -> Data]
        /\ entry \in [Value -> Data]
    BY DEF TypeOK
  <1>2. \A v \in Value : vals[v] = Simultaneous(copies, entry)[v]
    <2> SUFFICES ASSUME NEW v \in Value
                 PROVE  vals[v] = Simultaneous(copies, entry)[v]
      OBVIOUS
    <2>1. Written = MovedDestinations(copies)
      BY DEF Written
    <2>2. CASE v \in MovedDestinations(copies)
      <3>1. \E i \in DOMAIN copies : copies[i].destination = v
        BY <1>1, <2>2, MovedIsDestination
      <3> QED BY <1>1, <2>1, <2>2, <3>1 DEF Progress, Simultaneous
    <2>3. CASE /\ v \notin MovedDestinations(copies)
               /\ \E i \in DOMAIN copies : copies[i].destination = v
      <3>1. SourceOf(copies, v) = v
        BY <1>1, <2>3, UnmovedIsSelfCopy DEF Progress
      <3> QED BY <1>1, <2>1, <2>3, <3>1 DEF Progress, Simultaneous
    <2>4. CASE /\ v \notin MovedDestinations(copies)
               /\ ~ \E i \in DOMAIN copies : copies[i].destination = v
      BY <1>1, <2>1, <2>4 DEF Progress, Simultaneous
    <2> QED BY <2>2, <2>3, <2>4
  <1>3. /\ DOMAIN vals = Value
        /\ Simultaneous(copies, entry)
               = [v \in Value |-> Simultaneous(copies, entry)[v]]
    BY <1>1 DEF Simultaneous
  <1> QED BY <1>1, <1>2, <1>3

(* No step of the sequentializer leaves the inductive invariant. *)
LEMMA NextPreserves == IInv /\ [Next]_vars => IInv'
  <1> SUFFICES ASSUME IInv, [Next]_vars
               PROVE  IInv'
    OBVIOUS
  <1>1. CASE Reject
    <2>1. TypeOK'
      BY <1>1 DEF IInv, Reject, TypeOK, temporary_count
    <2> QED BY <1>1, <2>1 DEF IInv, Reject
  <1>2. CASE Collect
    BY <1>2, CollectPreserves
  <1>3. CASE EmitReady
    BY <1>3, EmitReadyPreserves
  <1>4. CASE BreakCycle
    BY <1>4, BreakCyclePreserves
  <1>5. CASE Return
    <2>1. TypeOK'
      BY <1>5 DEF IInv, Return, TypeOK, temporary_count
    <2>2. vals = Simultaneous(copies, entry) /\ ~HasDuplicateDestination(copies)
      BY <1>5, ProgressCompletes DEF IInv, Return, Progress
    <2> QED BY <1>5, <2>1, <2>2 DEF IInv, Return, CopiesRealised
  <1>6. CASE UNCHANGED vars
    BY <1>6 DEF vars, IInv, TypeOK, temporary_count, Progress, Written, Content,
                CopiesRealised
  <1> QED BY <1>1, <1>2, <1>3, <1>4, <1>5, <1>6 DEF Next

(* The inductive invariant holds in every state of the sequentializer. *)
THEOREM InductiveInvariant == Spec => []IInv
  BY InitEstablishes, NextPreserves, PTL DEF Spec

(* Every variable keeps its type: in particular a pending copy never reads *)
(* a temporary the schedule has not written.                               *)
THEOREM TypeCorrectness == Spec => []TypeOK
  <1>1. IInv => TypeOK
    BY DEF IInv
  <1> QED BY <1>1, InductiveInvariant, PTL

(* A pending copy can be performed at every iteration of                   *)
(* schedule_parallel_copies: no emitted move has overwritten its source.   *)
THEOREM SourcesArePreserved == Spec => []SourcesPreserved
  <1>1. IInv => SourcesPreserved
    BY DEF IInv, Progress, SourcesPreserved
  <1> QED BY <1>1, InductiveInvariant, PTL

(* The moves schedule_parallel_copies returns, run in order, perform all   *)
(* the copies at once, whatever the copies and the contents.               *)
THEOREM ScheduleIsCorrect == Spec => []CopiesRealised
  <1>1. IInv => CopiesRealised
    BY DEF IInv, CopiesRealised
  <1> QED BY <1>1, InductiveInvariant, PTL
-----------------------------------------------------------------------------
(* The two modules read the list of copies alike. *)
LEMMA SameReading ==
    ASSUME NEW list, NEW contents
    PROVE  /\ Abstract!HasDuplicateDestination(list)
                 <=> HasDuplicateDestination(list)
           /\ Abstract!Simultaneous(list, contents) = Simultaneous(list, contents)
  BY DEF Abstract!HasDuplicateDestination, HasDuplicateDestination,
         Abstract!Simultaneous, Simultaneous, Abstract!SourceOf, SourceOf

(* The copies begin as the abstract parallel copy does. *)
LEMMA InitRefines == Init => Abstract!Init
  BY DEF Init, Abstract!Init

(* A call that returns is the abstract step; the iterations of its loop    *)
(* stutter.                                                                *)
LEMMA NextRefines == IInv /\ [Next]_vars => [Abstract!Next]_Abstract!vars
  <1> SUFFICES ASSUME IInv, [Next]_vars
               PROVE  [Abstract!Next]_Abstract!vars
    OBVIOUS
  <1>1. CASE Reject
    <2>1. Abstract!Reject
      BY <1>1, SameReading DEF Reject, Abstract!Reject
    <2> QED BY <2>1 DEF Abstract!Next
  <1>2. CASE Collect
    BY <1>2 DEF Collect, Abstract!vars
  <1>3. CASE EmitReady
    BY <1>3 DEF EmitReady, Abstract!vars
  <1>4. CASE BreakCycle
    BY <1>4 DEF BreakCycle, Abstract!vars
  <1>5. CASE Return
    <2>1. vals = Simultaneous(copies, entry) /\ ~HasDuplicateDestination(copies)
      BY <1>5, ProgressCompletes DEF IInv, Return, Progress
    <2>2. Abstract!CopyAll
      BY <1>5, <2>1, SameReading DEF Return, Abstract!CopyAll
    <2> QED BY <2>2 DEF Abstract!Next
  <1>6. CASE UNCHANGED vars
    BY <1>6 DEF vars, Abstract!vars
  <1> QED BY <1>1, <1>2, <1>3, <1>4, <1>5, <1>6 DEF Next

(* schedule_parallel_copies implements the simultaneous copy: a caller     *)
(* that sees the values before and after a call cannot tell it from a      *)
(* machine that performs all the copies in one step.                       *)
THEOREM ScheduleRefinesSimultaneousCopy == Spec => Abstract!Spec
  BY InitRefines, NextRefines, InductiveInvariant, PTL DEF Spec, Abstract!Spec
-----------------------------------------------------------------------------
(***************************************************************************)
(* How long the schedule is.  The copies of the list map every moved       *)
(* destination to its source; a cycle is a smallest set this map takes     *)
(* onto itself.  A cycle is intact while all its copies are pending with   *)
(* their own source.                                                       *)
(***************************************************************************)
Moved == MovedDestinations(copies)

Sources(C) == { SourceOf(copies, d) : d \in C }

IsClosed(C) == C # {} /\ Sources(C) = C

IsCycle(C) == IsClosed(C) /\ \A D \in SUBSET C : IsClosed(D) => D = C

Unchanged(d) == d \in DOMAIN pending /\ pending[d] = ValueLocation(SourceOf(copies, d))

Intact == { C \in CopyCycles : \A d \in C : Unchanged(d) }

(* Every temporary stands for a cycle that is not intact any more, and     *)
(* every move for a copy that is not pending any more or for a temporary.  *)
Counted ==
    /\ \A d \in DOMAIN pending : Unchanged(d) \/ pending[d].kind = "temporary"
    /\ temporary_count + Cardinality(Intact) = Cardinality(CopyCycles)
    /\ Len(moves) + Cardinality(DOMAIN pending) = Cardinality(Moved) + temporary_count

CInv ==
    /\ IInv
    /\ outcome = "called" => moves = << >>
    /\ outcome = "scheduling" => Counted
    /\ TemporariesMinimal

(* The cycles are those TemporariesMinimal counts. *)
LEMMA CyclesAreCycles == CopyCycles = { C \in SUBSET Moved : IsCycle(C) }
  BY DEF CopyCycles, Moved, IsCycle, IsClosed, Sources

(* A list moves finitely many destinations, and has finitely many cycles.  *)
LEMMA FinitelyMany ==
    ASSUME copies \in Inputs
    PROVE  /\ IsFiniteSet(Moved) /\ Cardinality(Moved) \in Nat
           /\ IsFiniteSet(CopyCycles) /\ Cardinality(CopyCycles) \in Nat
           /\ IsFiniteSet(Intact) /\ Cardinality(Intact) \in Nat
  <1> DEFINE S == DOMAIN copies
             T == { copies[i].destination : i \in S }
             f == [ i \in S |-> copies[i].destination ]
  <1>1. IsFiniteSet(S)
    <2>1. copies \in Seq([destination : Value, source : Value])
      BY InputsAssumption
    <2>2. S = 1 .. Len(copies) /\ Len(copies) \in Nat
      BY <2>1
    <2> QED
      BY <2>2, FS_Interval
  <1>2. f \in Surjection(S, T)
    BY DEF Surjection
  <1>3. IsFiniteSet(T)
    <2> HIDE DEF S, T, f
    <2> QED
      BY <1>1, <1>2, FS_Surjection
  <1>4. Moved \in SUBSET T
    BY DEF Moved, MovedDestinations
  <1>5. IsFiniteSet(Moved)
    BY <1>3, <1>4, FS_Subset
  <1>6. IsFiniteSet(SUBSET Moved)
    BY <1>5, FS_SUBSET
  <1>7. CopyCycles \in SUBSET (SUBSET Moved)
    BY CyclesAreCycles
  <1>8. IsFiniteSet(CopyCycles)
    BY <1>6, <1>7, FS_Subset
  <1>9. Intact \in SUBSET CopyCycles
    BY DEF Intact
  <1>10. IsFiniteSet(Intact)
    BY <1>8, <1>9, FS_Subset
  <1> QED
    BY <1>5, <1>8, <1>10, FS_CardinalityType

(* When every pending destination is still read, every pending copy reads  *)
(* a pending destination, and no two read the same.                        *)
LEMMA PendingPermuted ==
    ASSUME IsFiniteSet(DOMAIN pending), ReadyDestinations(pending) = {}
    PROVE  /\ \A e \in DOMAIN pending : \E d \in DOMAIN pending : pending[e] = ValueLocation(d)
           /\ \A e, f \in DOMAIN pending : pending[e] = pending[f] => e = f
  <1> DEFINE P == DOMAIN pending
             g == [ d \in P |-> CHOOSE e \in P : pending[e] = ValueLocation(d) ]
  <1>1. \A d \in P : \E e \in P : pending[e] = ValueLocation(d)
    BY DEF ReadyDestinations, StillNeeded
  <1>2. \A d \in P : g[d] \in P /\ pending[g[d]] = ValueLocation(d)
    BY <1>1
  <1> HIDE DEF g
  <1>3. ASSUME NEW c \in P, NEW d \in P, g[c] = g[d]
        PROVE  c = d
    <2>1. ValueLocation(c) = ValueLocation(d)
      BY <1>2, <1>3
    <2> QED
      BY <2>1 DEF ValueLocation
  <1>4. g \in Injection(P, P)
    <2>1. g \in [P -> P]
      BY <1>2 DEF g
    <2> QED
      BY <1>3, <2>1 DEF Injection, IsInjective
  <1>5. g \in Surjection(P, P)
    <2> HIDE DEF P, g
    <2>1. IsFiniteSet(P)
      BY DEF P
    <2> QED
      BY <1>4, <2>1, FS_Injection
  <1>6. \A e \in P : \E d \in P : g[d] = e
    BY <1>5 DEF Surjection
  <1>7. \A e \in P : \E d \in P : pending[e] = ValueLocation(d)
    BY <1>2, <1>6
  <1>8. ASSUME NEW e \in P, NEW f \in P, pending[e] = pending[f]
        PROVE  e = f
    <2>1. PICK c \in P : g[c] = e
      BY <1>6
    <2>2. PICK d \in P : g[d] = f
      BY <1>6
    <2>3. ValueLocation(c) = ValueLocation(d)
      BY <1>2, <1>8, <2>1, <2>2
    <2>4. c = d
      BY <2>3 DEF ValueLocation
    <2> QED
      BY <2>1, <2>2, <2>4
  <1> QED
    BY <1>7, <1>8

(* A closed set without a closed part is closed. *)
LEMMA RestIsClosed ==
    ASSUME NEW P, \A d, e \in P : SourceOf(copies, d) = SourceOf(copies, e) => d = e,
           NEW C \in SUBSET P, NEW D \in SUBSET C, IsClosed(C), IsClosed(D), D # C
    PROVE  IsClosed(C \ D)
  <1>1. \A x \in C : SourceOf(copies, x) \in C
    BY DEF IsClosed, Sources
  <1>2. \A y \in C : \E x \in C : y = SourceOf(copies, x)
    BY DEF IsClosed, Sources
  <1>3. \A x \in D : SourceOf(copies, x) \in D
    BY DEF IsClosed, Sources
  <1>4. \A y \in D : \E x \in D : y = SourceOf(copies, x)
    BY DEF IsClosed, Sources
  <1>5. \A x \in C \ D : SourceOf(copies, x) \in C \ D
    BY <1>1, <1>4
  <1>6. \A y \in C \ D : \E x \in C \ D : y = SourceOf(copies, x)
    BY <1>2, <1>3
  <1>7. Sources(C \ D) \subseteq C \ D
    BY ONLY <1>5 DEF Sources
  <1>8. C \ D \subseteq Sources(C \ D)
    BY ONLY <1>6 DEF Sources
  <1>9. C \ D # {}
    BY ONLY D \in SUBSET C, D # C
  <1> QED
    BY ONLY <1>7, <1>8, <1>9 DEF IsClosed

(* Two cycles of a permutation that share a destination are one. *)
LEMMA CyclesDisjoint ==
    ASSUME NEW P, \A d, e \in P : SourceOf(copies, d) = SourceOf(copies, e) => d = e,
           NEW C \in SUBSET P, NEW D \in SUBSET P, IsCycle(C), IsCycle(D), C \cap D # {}
    PROVE  C = D
  <1>1. \A x \in C : SourceOf(copies, x) \in C
    BY DEF IsCycle, IsClosed, Sources
  <1>2. \A y \in C : \E x \in C : y = SourceOf(copies, x)
    BY DEF IsCycle, IsClosed, Sources
  <1>3. \A x \in D : SourceOf(copies, x) \in D
    BY DEF IsCycle, IsClosed, Sources
  <1>4. \A y \in D : \E x \in D : y = SourceOf(copies, x)
    BY DEF IsCycle, IsClosed, Sources
  <1>5. \A x \in C \cap D : SourceOf(copies, x) \in C \cap D
    BY <1>1, <1>3
  <1>6. \A y \in C \cap D : \E x \in C \cap D : y = SourceOf(copies, x)
    BY <1>2, <1>4
  <1>7. IsClosed(C \cap D)
    BY <1>5, <1>6 DEF IsClosed, Sources
  <1> QED
    BY <1>7 DEF IsCycle

(* Every member of a finite set that the copies permute is on a cycle. *)
LEMMA CycleExists ==
    ASSUME NEW P, IsFiniteSet(P), IsClosed(P), NEW s \in P,
           \A d, e \in P : SourceOf(copies, d) = SourceOf(copies, e) => d = e
    PROVE  \E C \in SUBSET P : s \in C /\ IsCycle(C)
  <1> DEFINE T == { C \in SUBSET P : s \in C /\ IsClosed(C) }
             R == StrictSubsetOrdering(P)
  <1>1. IsWellFoundedOn(R, SUBSET P)
    BY FS_StrictSubsetOrderingWellFounded, FS_FiniteSubsetsOfFinite
  <1>2. T \subseteq SUBSET P /\ P \in T
    OBVIOUS
  <1>3. \A C, D \in SUBSET P : <<D, C>> \in R <=> D \subseteq C /\ D # C
    BY DEF StrictSubsetOrdering
  <1> HIDE DEF T, R
  <1>4. PICK C \in T : \A D \in T : <<D, C>> \notin R
    BY <1>1, <1>2, WFMin
  <1>5. C \in SUBSET P /\ s \in C /\ IsClosed(C)
    BY DEF T
  <1>6. ASSUME NEW D \in SUBSET C, IsClosed(D), D # C
        PROVE  FALSE
    <2>1. CASE s \in D
      <3>1. D \in T
        BY <1>5, <1>6, <2>1 DEF T
      <3> QED
        BY <1>2, <1>3, <1>4, <1>6, <3>1
    <2>2. CASE s \notin D
      <3>1. IsClosed(C \ D)
        BY <1>5, <1>6, RestIsClosed
      <3>2. C \ D \in T /\ C \ D \in SUBSET C /\ C \ D # C
        BY <1>5, <1>6, <2>2, <3>1 DEF T, IsClosed
      <3>3. C \in SUBSET P /\ C \ D \in SUBSET P
        BY <1>5
      <3>4. <<C \ D, C>> \in R
        BY <1>3, <3>2, <3>3
      <3> QED
        BY <1>4, <3>2, <3>4
    <2> QED
      BY <2>1, <2>2
  <1> QED
    BY <1>5, <1>6 DEF IsCycle

(* The cycles of the list do not change while it is scheduled. *)
LEMMA CyclesStay ==
    ASSUME UNCHANGED copies
    PROVE  CopyCycles' = CopyCycles /\ Moved' = Moved
  BY DEF CopyCycles, Moved

(* Every cycle is intact when the pending copies are collected. *)
LEMMA CollectCounts ==
    ASSUME CInv, Collect
    PROVE  Counted'
  <1>1. /\ copies \in Inputs /\ moves = << >> /\ temps = << >>
        /\ pending' = PendingOf(copies) /\ UNCHANGED <<copies, moves, temps>>
    BY DEF CInv, IInv, TypeOK, Collect
  <1>2. /\ DOMAIN pending' = Moved
        /\ \A d \in Moved : pending'[d] = ValueLocation(SourceOf(copies, d))
    BY <1>1 DEF PendingOf, Moved
  <1>3. \A d \in Moved : Unchanged(d)'
    BY <1>1, <1>2 DEF Unchanged
  <1>4. CopyCycles' = CopyCycles /\ Moved' = Moved
    BY <1>1, CyclesStay
  <1>5. Intact' = CopyCycles
    BY <1>3, <1>4, CyclesAreCycles DEF Intact
  <1>6. Cardinality(CopyCycles) \in Nat /\ Cardinality(Moved) \in Nat
    BY <1>1, FinitelyMany
  <1>7. temporary_count' = 0 /\ Len(moves') = 0
    BY <1>1 DEF temporary_count
  <1>8. temporary_count' + Cardinality(Intact') = Cardinality(CopyCycles')
    BY <1>4, <1>5, <1>6, <1>7
  <1>9. Len(moves') + Cardinality(DOMAIN pending') = Cardinality(Moved') + temporary_count'
    BY <1>2, <1>4, <1>6, <1>7
  <1> QED
    BY <1>2, <1>3, <1>8, <1>9 DEF Counted

(* A ready destination is on no intact cycle: the cycle would read it.     *)
LEMMA EmitReadyCounts ==
    ASSUME CInv, EmitReady
    PROVE  Counted'
  <1>1. /\ TypeOK /\ Counted /\ copies \in Inputs
        /\ UNCHANGED <<copies, temps>>
        /\ DOMAIN pending \subseteq MovedDestinations(copies)
    BY DEF CInv, IInv, Progress, TypeOK, EmitReady
  <1>2. PICK d \in DOMAIN pending :
            /\ d \in ReadyDestinations(pending)
            /\ moves' = Append(moves, Move(ValueLocation(d), pending[d]))
            /\ pending' = WithoutCopy(pending, d)
    BY DEF EmitReady, IsFirstOf
  <1>3. /\ DOMAIN pending' = DOMAIN pending \ {d}
        /\ \A e \in DOMAIN pending' : pending'[e] = pending[e]
    BY <1>2 DEF WithoutCopy
  <1>4. \A e \in DOMAIN pending : pending[e] # ValueLocation(d)
    BY <1>2 DEF ReadyDestinations, StillNeeded
  <1>5. \A e : e # d => Unchanged(e)' = Unchanged(e)
    BY <1>1, <1>3 DEF Unchanged
  <1>6. ~Unchanged(d)'
    BY <1>3 DEF Unchanged
  <1>7. CopyCycles' = CopyCycles /\ Moved' = Moved
    BY <1>1, CyclesStay
  <1>8. ASSUME NEW C \in Intact
        PROVE  d \notin C
    <2>1. IsClosed(C) /\ \A e \in C : Unchanged(e)
      BY CyclesAreCycles DEF Intact, IsCycle
    <2>2. d \in C => \E e \in C : d = SourceOf(copies, e)
      BY <2>1 DEF IsClosed, Sources
    <2> QED
      BY <1>4, <2>1, <2>2 DEF Unchanged
  <1>9. Intact' = Intact
    <2>1. \A C \in Intact : C \in Intact'
      BY <1>5, <1>7, <1>8 DEF Intact
    <2>2. \A C \in Intact' : C \in Intact
      BY <1>5, <1>6, <1>7 DEF Intact
    <2> QED
      BY <2>1, <2>2
  <1>10. temporary_count' = temporary_count
    BY <1>1 DEF temporary_count
  <1>11. /\ IsFiniteSet(Moved) /\ Cardinality(Moved) \in Nat
    BY <1>1, FinitelyMany
  <1>12. IsFiniteSet(DOMAIN pending)
    <2>1. DOMAIN pending \in SUBSET Moved
      BY <1>1 DEF Moved
    <2> QED
      BY <1>11, <2>1, FS_Subset
  <1>13. /\ Cardinality(DOMAIN pending) \in Nat
         /\ Cardinality(DOMAIN pending') = Cardinality(DOMAIN pending) - 1
    BY <1>2, <1>3, <1>12, FS_CardinalityType, FS_RemoveElement
  <1>14. Len(moves) \in Nat /\ Len(moves') = Len(moves) + 1
    <2>1. moves \in Seq([destination : Location, source : Location])
      BY <1>1 DEF TypeOK
    <2> DEFINE U == [destination : Location, source : Location]
               m == Move(ValueLocation(d), pending[d])
    <2>2. moves \in Seq(U) /\ moves' = Append(moves, m)
      BY <1>2, <2>1
    <2> HIDE DEF U, m
    <2> QED
      BY <2>2
  <1>15. Len(moves') + Cardinality(DOMAIN pending') = Cardinality(Moved') + temporary_count'
    <2>1. Len(moves) + Cardinality(DOMAIN pending) = Cardinality(Moved) + temporary_count
      BY <1>1 DEF Counted
    <2> QED
      BY <1>7, <1>10, <1>13, <1>14, <2>1
  <1>16. \A e \in DOMAIN pending' : Unchanged(e)' \/ pending'[e].kind = "temporary"
    BY <1>1, <1>3, <1>5 DEF Counted
  <1>17. temporary_count' + Cardinality(Intact') = Cardinality(CopyCycles')
    BY <1>1, <1>7, <1>9, <1>10 DEF Counted
  <1> QED
    BY <1>15, <1>16, <1>17 DEF Counted

(* A destination is saved only when the pending copies are a permutation:  *)
(* it is on one intact cycle, and only that one is broken.                 *)
LEMMA BreakCycleCounts ==
    ASSUME CInv, BreakCycle
    PROVE  Counted'
  <1> DEFINE P == DOMAIN pending
             t == TemporaryLocation(temporary_count)
  <1>1. /\ TypeOK /\ Counted /\ copies \in Inputs
        /\ UNCHANGED copies
        /\ P \subseteq MovedDestinations(copies)
        /\ ReadyDestinations(pending) = {}
    BY DEF CInv, IInv, Progress, TypeOK, BreakCycle
  <1>2. PICK s \in P :
            /\ moves' = Append(moves, Move(t, ValueLocation(s)))
            /\ temps' = Append(temps, vals[s])
            /\ pending' = Redirected(pending, s, t)
    BY DEF BreakCycle
  <1>3. /\ DOMAIN pending' = P
        /\ \A e \in P : pending'[e] = IF pending[e] = ValueLocation(s) THEN t ELSE pending[e]
    BY <1>2 DEF Redirected
  <1>4. \A v : t # ValueLocation(v)
    BY DEF TemporaryLocation, ValueLocation
  <1>5. /\ IsFiniteSet(Moved) /\ Cardinality(Moved) \in Nat
        /\ IsFiniteSet(Intact) /\ Cardinality(Intact) \in Nat
    BY <1>1, FinitelyMany
  <1>6. P \in SUBSET Moved /\ IsFiniteSet(P)
    <2>1. P \in SUBSET Moved
      BY <1>1 DEF Moved
    <2> QED
      BY <1>5, <2>1, FS_Subset
  <1>7. /\ \A e \in P : \E d \in P : pending[e] = ValueLocation(d)
        /\ \A e, f \in P : pending[e] = pending[f] => e = f
    BY <1>1, <1>6, PendingPermuted
  <1>8. \A e \in P : Unchanged(e)
    <2>1. \A e \in P : pending[e].kind = "value"
      BY <1>7 DEF ValueLocation
    <2> QED
      BY <1>1, <2>1 DEF Counted
  <1>9. \A d, e \in P : SourceOf(copies, d) = SourceOf(copies, e) => d = e
    BY <1>7, <1>8 DEF Unchanged
  <1>10. IsClosed(P)
    <2>1. \A e \in P : SourceOf(copies, e) \in P
      <3> SUFFICES ASSUME NEW e \in P
                   PROVE  SourceOf(copies, e) \in P
        OBVIOUS
      <3>1. PICK d \in P : pending[e] = ValueLocation(d)
        BY <1>7
      <3>2. ValueLocation(SourceOf(copies, e)) = ValueLocation(d)
        BY <1>8, <3>1 DEF Unchanged
      <3>3. SourceOf(copies, e) = d
        BY <3>2 DEF ValueLocation
      <3> QED
        BY <3>3
    <2>2. ASSUME NEW d \in P
          PROVE  \E e \in P : d = SourceOf(copies, e)
      <3>1. PICK e \in P : pending[e] = ValueLocation(d)
        BY <1>1 DEF ReadyDestinations, StillNeeded
      <3>2. ValueLocation(SourceOf(copies, e)) = ValueLocation(d)
        BY <1>8, <3>1 DEF Unchanged
      <3>3. SourceOf(copies, e) = d
        BY <3>2 DEF ValueLocation
      <3> QED
        BY <3>3
    <2> QED
      BY <2>1, <2>2 DEF IsClosed, Sources
  <1>11. PICK B \in SUBSET P : s \in B /\ IsCycle(B)
    BY <1>6, <1>9, <1>10, CycleExists
  <1>12. B \in Intact
    BY <1>6, <1>8, <1>11, CyclesAreCycles DEF Intact
  <1>13. \A C \in Intact : C \in SUBSET P /\ IsCycle(C)
    BY CyclesAreCycles DEF Intact, Unchanged
  <1>14. \A C \in Intact : s \in C => C = B
    BY <1>9, <1>11, <1>13, CyclesDisjoint
  <1>15. CopyCycles' = CopyCycles /\ Moved' = Moved
    BY <1>1, CyclesStay
  <1>16. \A e \in P : Unchanged(e)' <=> SourceOf(copies, e) # s
    <2> SUFFICES ASSUME NEW e \in P
                 PROVE  Unchanged(e)' <=> SourceOf(copies, e) # s
      OBVIOUS
    <2>1. pending[e] = ValueLocation(SourceOf(copies, e))
      BY <1>8 DEF Unchanged
    <2>2. ValueLocation(SourceOf(copies, e)) = ValueLocation(s) <=> SourceOf(copies, e) = s
      BY DEF ValueLocation
    <2> HIDE DEF t
    <2> QED
      BY <1>1, <1>3, <1>4, <2>1, <2>2 DEF Unchanged
  <1>17. \A C \in Intact : C \in Intact' <=> s \notin C
    <2> SUFFICES ASSUME NEW C \in Intact
                 PROVE  C \in Intact' <=> s \notin C
      OBVIOUS
    <2>1. C \in SUBSET P /\ IsClosed(C) /\ C \in CopyCycles
      BY <1>13 DEF IsCycle, Intact
    <2>2. s \in C <=> \E e \in C : SourceOf(copies, e) = s
      BY <2>1 DEF IsClosed, Sources
    <2>3. C \in Intact' <=> \A e \in C : Unchanged(e)'
      BY <1>15, <2>1 DEF Intact
    <2> QED
      BY <1>16, <2>1, <2>2, <2>3
  <1>18. \A C \in Intact' : C \in Intact
    <2> SUFFICES ASSUME NEW C \in Intact'
                 PROVE  C \in Intact
      OBVIOUS
    <2>1. C \in CopyCycles /\ \A e \in C : Unchanged(e)'
      BY <1>15 DEF Intact
    <2>2. \A e \in C : e \in P
      BY <1>3, <2>1 DEF Unchanged
    <2> QED
      BY <1>8, <2>1, <2>2 DEF Intact
  <1>19. Intact' = Intact \ {B}
    BY <1>11, <1>14, <1>17, <1>18
  <1>20. Cardinality(Intact') = Cardinality(Intact) - 1
    BY <1>5, <1>12, <1>19, FS_RemoveElement
  <1>21. temporary_count \in Nat /\ temporary_count' = temporary_count + 1
    <2> DEFINE v == vals[s]
    <2>1. temps \in Seq(Data) /\ temps' = Append(temps, v)
      BY <1>1, <1>2 DEF TypeOK
    <2> HIDE DEF v
    <2> QED
      BY <2>1 DEF temporary_count
  <1>22. Len(moves) \in Nat /\ Len(moves') = Len(moves) + 1
    <2> DEFINE U == [destination : Location, source : Location]
               m == Move(t, ValueLocation(s))
    <2>1. moves \in Seq(U) /\ moves' = Append(moves, m)
      BY <1>1, <1>2 DEF TypeOK
    <2> HIDE DEF U, m
    <2> QED
      BY <2>1
  <1>23. temporary_count' + Cardinality(Intact') = Cardinality(CopyCycles')
    <2>1. temporary_count + Cardinality(Intact) = Cardinality(CopyCycles)
      BY <1>1 DEF Counted
    <2> QED
      BY <1>5, <1>15, <1>20, <1>21, <2>1
  <1>24. Len(moves') + Cardinality(DOMAIN pending') = Cardinality(Moved') + temporary_count'
    <2>1. Len(moves) + Cardinality(P) = Cardinality(Moved) + temporary_count
      BY <1>1 DEF Counted
    <2>2. Cardinality(P) \in Nat /\ DOMAIN pending' = P
      BY <1>3, <1>6, FS_CardinalityType
    <2> HIDE DEF P
    <2> QED
      BY ONLY <1>5, <1>15, <1>21, <1>22, <2>1, <2>2
  <1>25. \A e \in DOMAIN pending' : Unchanged(e)' \/ pending'[e].kind = "temporary"
    <2> SUFFICES ASSUME NEW e \in P
                 PROVE  Unchanged(e)' \/ pending'[e].kind = "temporary"
      BY <1>3
    <2>1. CASE SourceOf(copies, e) = s
      <3>1. pending[e] = ValueLocation(s)
        BY <1>8, <2>1 DEF Unchanged
      <3>2. pending'[e] = t
        BY <1>3, <3>1
      <3> QED
        BY <3>2 DEF TemporaryLocation
    <2>2. CASE SourceOf(copies, e) # s
      BY <1>16, <2>2
    <2> QED
      BY <2>1, <2>2
  <1> QED
    BY <1>23, <1>24, <1>25 DEF Counted

(* With no copy pending no cycle is intact: a cycle is not empty.          *)
LEMMA CountedIsMinimal ==
    ASSUME copies \in Inputs, Counted, DOMAIN pending = {}, Len(moves) \in Nat,
           temporary_count \in Nat
    PROVE  /\ temporary_count = Cardinality(CopyCycles)
           /\ Len(moves) = Cardinality(MovedDestinations(copies)) + temporary_count
  <1>1. Intact = {}
    BY CyclesAreCycles DEF Intact, IsCycle, IsClosed, Unchanged
  <1>2. Cardinality(Intact) = 0 /\ Cardinality(DOMAIN pending) = 0
    BY <1>1, FS_EmptySet
  <1>3. Cardinality(CopyCycles) \in Nat /\ Cardinality(Moved) \in Nat
    BY FinitelyMany
  <1> QED
    BY <1>2, <1>3 DEF Counted, Moved

(* A schedule is as short as it can be: schedule_parallel_copies saves one *)
(* destination per cycle of the copies and no other, and emits no move     *)
(* beyond those and one per copy.                                          *)
THEOREM ScheduleIsMinimal == Spec => []TemporariesMinimal
  <1>1. Init => CInv
    BY InitEstablishes DEF Init, CInv, TemporariesMinimal
  <1>2. CInv /\ [Next]_vars => CInv'
    <2> SUFFICES ASSUME CInv, [Next]_vars
                 PROVE  CInv'
      OBVIOUS
    <2>1. IInv'
      BY NextPreserves DEF CInv
    <2>2. CASE Reject
      BY <2>1, <2>2 DEF Reject, CInv, TemporariesMinimal
    <2>3. CASE Collect
      BY <2>1, <2>3, CollectCounts DEF Collect, CInv, TemporariesMinimal
    <2>4. CASE EmitReady
      BY <2>1, <2>4, EmitReadyCounts DEF EmitReady, CInv, TemporariesMinimal
    <2>5. CASE BreakCycle
      BY <2>1, <2>5, BreakCycleCounts DEF BreakCycle, CInv, TemporariesMinimal
    <2>6. CASE Return
      <3>1. /\ outcome = "scheduling" /\ outcome' = "returned" /\ DOMAIN pending = {}
            /\ UNCHANGED <<copies, moves, temps>>
            /\ Counted /\ TypeOK
        BY <2>6 DEF Return, CInv, IInv
      <3>2. copies \in Inputs /\ Len(moves) \in Nat /\ temporary_count \in Nat
        <4> DEFINE U == [destination : Location, source : Location]
        <4>1. moves \in Seq(U) /\ temps \in Seq(Data) /\ copies \in Inputs
          BY <3>1 DEF TypeOK
        <4> HIDE DEF U
        <4> QED
          BY <4>1 DEF temporary_count
      <3>3. /\ temporary_count = Cardinality(CopyCycles)
            /\ Len(moves) = Cardinality(MovedDestinations(copies)) + temporary_count
        BY <3>1, <3>2, CountedIsMinimal
      <3>4. TemporariesMinimal'
        BY <3>1, <3>3, CyclesStay DEF TemporariesMinimal, temporary_count
      <3> QED
        BY <2>1, <3>1, <3>4 DEF CInv
    <2>7. CASE UNCHANGED vars
      <3>1. /\ UNCHANGED <<outcome, pending, moves, temps, copies>>
            /\ CopyCycles' = CopyCycles /\ Moved' = Moved
        BY <2>7, CyclesStay DEF vars
      <3>2. Counted => Counted'
        BY <3>1 DEF Counted, Intact, Unchanged, temporary_count
      <3>3. TemporariesMinimal'
        BY <3>1 DEF CInv, TemporariesMinimal, temporary_count
      <3> QED
        BY <2>1, <3>1, <3>2, <3>3 DEF CInv
    <2> QED
      BY <2>2, <2>3, <2>4, <2>5, <2>6, <2>7 DEF Next
  <1>3. CInv => TemporariesMinimal
    BY DEF CInv
  <1> QED
    BY <1>1, <1>2, <1>3, PTL DEF Spec
=============================================================================
