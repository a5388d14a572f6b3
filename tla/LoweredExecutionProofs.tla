----------------------- MODULE LoweredExecutionProofs -----------------------
(***************************************************************************)
(* The compiled program does what its source means, for every program.     *)
(*                                                                         *)
(* The argument goes from the small to the large.  The moves scheduled for *)
(* the copies of an edge perform them all at once (SchedulePerforms); the  *)
(* plans of destroy_ssa put the moves of each edge where only that edge    *)
(* makes them (EdgesAreServed, ArcsAreFollowed, TargetsAreLowered); Pairs  *)
(* relates the values of the source to the values of the SSA program that  *)
(* contain them at a place, and an instruction, an edge with its phis and  *)
(* a branch keep it (InstructionsAreKept, EdgesOfACompilation,             *)
(* PredicatesOfACompilation).  InStep says where the machine that runs the *)
(* result is while its source is at a place, and what of its contents that *)
(* place relies on: among the moves of an edge this is a fact about the    *)
(* contents once the moves still to come have been made.  InStep is the    *)
(* inductive invariant, and the properties of LoweredExecution follow.     *)
(***************************************************************************)
EXTENDS LoweredExecution, SsaConstructionProofs
-----------------------------------------------------------------------------
(* The schedule of the copies of an edge.                                  *)
IsCopyList(copies) ==
    /\ copies \in Seq([destination : Nat, source : Nat])
    /\ \A i, j \in DOMAIN copies : copies[i].destination = copies[j].destination => i = j
    /\ \A i \in DOMAIN copies : copies[i].destination # copies[i].source

(* The iterations of the loop.                                             *)
LEMMA ScheduleUnfolds ==
    ASSUME NEW copies, Len(copies) \in Nat
    PROVE  /\ ScheduleRun(copies)[0] = [pending |-> PendingOf(copies), moves |-> << >>, temporary_count |-> 0]
           /\ \A k \in 1 .. 2 * Len(copies) : ScheduleRun(copies)[k] = ScheduleStep(ScheduleRun(copies)[k - 1])
  <1> DEFINE n == 2 * Len(copies)
             init == [pending |-> PendingOf(copies), moves |-> << >>, temporary_count |-> 0]
             Step(before, k) == ScheduleStep(before)
             Steps(g) == [ k \in 0 .. n |-> IF k = 0
                                            THEN [pending |-> PendingOf(copies), moves |-> << >>, temporary_count |-> 0]
                                            ELSE ScheduleStep(g[k - 1]) ]
             F == CHOOSE g : g = Steps(g)
             Good(m, g) == g = [ k \in 0 .. m |-> IF k = 0 THEN init ELSE Step(g[k - 1], k) ]
             S == { m \in Nat : \E g : Good(m, g) }
  <1>1. ScheduleRun(copies) = F
    BY DEF ScheduleRun
  <1>2. n \in Nat
    OBVIOUS
  <1> HIDE DEF F
  <1>4. (\E g : g = Steps(g)) => F = Steps(F)
    <2> HIDE DEF Steps
    <2> QED
      BY DEF F
  <1> HIDE DEF Steps, Step, init, n
  <1>5. 0 \in S
    <2> DEFINE g == [ k \in 0 .. 0 |-> init ]
    <2>1. g = [ k \in 0 .. 0 |-> IF k = 0 THEN init ELSE Step(g[k - 1], k) ]
      OBVIOUS
    <2> HIDE DEF g
    <2> QED
      BY <2>1
  <1>6. ASSUME NEW m \in Nat, m \in S
        PROVE  m + 1 \in S
    <2>1. PICK g : Good(m, g)
      BY <1>6
    <2> DEFINE h == [ k \in 0 .. m + 1 |-> IF k = m + 1 THEN Step(g[m], m + 1) ELSE g[k] ]
    <2>2. ASSUME NEW k \in 0 .. m + 1
          PROVE  h[k] = IF k = 0 THEN init ELSE Step(h[k - 1], k)
      BY <2>1
    <2>3. h = [ k \in 0 .. m + 1 |-> h[k] ]
      OBVIOUS
    <2> HIDE DEF h
    <2>4. Good(m + 1, h)
      BY <2>2, <2>3
    <2> QED
      BY <2>4
  <1>7. n \in S
    <2> HIDE DEF S
    <2> QED
      BY <1>2, <1>5, <1>6, InductiveSet
  <1>9. F = [ k \in 0 .. n |-> IF k = 0 THEN init ELSE Step(F[k - 1], k) ]
    BY <1>4, <1>7
  <1>10. F[0] = init /\ \A k \in 1 .. n : F[k] = Step(F[k - 1], k)
    BY <1>2, <1>9
  <1> QED
    BY <1>1, <1>10 DEF init, n, Step
-----------------------------------------------------------------------------
(* Moves, performed one after the other from some contents.                *)
Applied(contents, move) ==
    [ location \in DOMAIN contents |->
        IF location = move.destination THEN contents[move.source] ELSE contents[location] ]

(* f gives the contents after each of the first n moves.                   *)
IsRun(f, moves, n) == \A i \in 1 .. n : f[i] = Applied(f[i - 1], moves[i])

(* The locations of a program with the values V and t temporaries.         *)
Locations(V, t) ==
    { ValueLocation(v) : v \in V } \cup { TemporaryLocation(k) : k \in 0 .. t - 1 }

(* Where the copies, all at once, take the contents of a value from.       *)
From(copies, v) ==
    IF \E i \in DOMAIN copies : copies[i].destination = v THEN SourceOf(copies, v) ELSE v

(* What the moves of an unfinished schedule have done: the source of a     *)
(* pending copy is where the value to copy is kept, and the values that    *)
(* are not pending are what the copies make of them.                       *)
Halfway(V, copies, pending, moves, t) ==
    \A f : IsRun(f, moves, Len(moves)) /\ Locations(V, t) \subseteq DOMAIN f[0] =>
        /\ DOMAIN f[Len(moves)] = DOMAIN f[0]
        /\ \A e \in DOMAIN pending :
               f[Len(moves)][pending[e]] = f[0][ValueLocation(From(copies, e))]
        /\ \A v \in V \ DOMAIN pending :
               f[Len(moves)][ValueLocation(v)] = f[0][ValueLocation(From(copies, v))]

(* What a schedule under construction consists of.                         *)
ScheduleTypes(V, pending, moves, t) ==
    /\ t \in Nat
    /\ moves \in Seq([destination : Locations(V, t), source : Locations(V, t)])
    /\ DOMAIN pending \subseteq V
    /\ \A e \in DOMAIN pending : pending[e] \in Locations(V, t)
    /\ pending = [ e \in DOMAIN pending |-> pending[e] ]

(* The location of a value is no temporary, and names its value.           *)
LEMMA LocationFacts ==
    ASSUME NEW V, NEW t \in Nat
    PROVE  /\ \A v, w : ValueLocation(v) = ValueLocation(w) => v = w
           /\ \A j, k : TemporaryLocation(j) = TemporaryLocation(k) => j = k
           /\ \A v, k : ValueLocation(v) # TemporaryLocation(k)
           /\ \A v : ValueLocation(v) \in Locations(V, t) <=> v \in V
           /\ \A k : TemporaryLocation(k) \in Locations(V, t) <=> k \in 0 .. t - 1
           /\ \A l \in Locations(V, t) :
                  (\E v \in V : l = ValueLocation(v)) \/ (\E k \in 0 .. t - 1 : l = TemporaryLocation(k))
           /\ \A s \in Nat : t <= s => Locations(V, t) \subseteq Locations(V, s)
  <1>1. \A v, w : ValueLocation(v) = ValueLocation(w) => v = w
    BY DEF ValueLocation
  <1>2. \A j, k : TemporaryLocation(j) = TemporaryLocation(k) => j = k
    BY DEF TemporaryLocation
  <1>3. \A v, k : ValueLocation(v) # TemporaryLocation(k)
    <2> TAKE v, k
    <2> QED
      BY DEF ValueLocation, TemporaryLocation
  <1>6. \A l \in Locations(V, t) :
            (\E v \in V : l = ValueLocation(v)) \/ (\E k \in 0 .. t - 1 : l = TemporaryLocation(k))
    BY DEF Locations
  <1>7. ASSUME NEW s \in Nat, t <= s
        PROVE  Locations(V, t) \subseteq Locations(V, s)
    BY <1>7 DEF Locations
  <1> QED
    BY <1>1, <1>2, <1>3, <1>6, <1>7 DEF Locations

(* One more move.                                                          *)
LEMMA RunGrows ==
    ASSUME NEW M, NEW moves \in Seq(M), NEW m \in M, NEW f,
           IsRun(f, Append(moves, m), Len(Append(moves, m)))
    PROVE  /\ Len(Append(moves, m)) = Len(moves) + 1 /\ Len(moves) \in Nat
           /\ IsRun(f, moves, Len(moves))
           /\ f[Len(moves) + 1] = Applied(f[Len(moves)], m)
  <1> DEFINE n == Len(moves)
             after == Append(moves, m)
  <1>1. n \in Nat /\ Len(after) = n + 1 /\ after[n + 1] = m
    OBVIOUS
  <1> HIDE DEF n, after
  <1> QED
    BY <1>1 DEF n, after, IsRun

(* A copy nobody waits for is moved.                                       *)
LEMMA ReadyCopyMoves ==
    ASSUME NEW V, NEW copies, NEW pending, NEW moves, NEW t,
           ScheduleTypes(V, pending, moves, t), Halfway(V, copies, pending, moves, t),
           NEW d \in ReadyDestinations(pending)
    PROVE  LET rest == WithoutCopy(pending, d)
               more == Append(moves, Move(ValueLocation(d), pending[d]))
           IN  /\ ScheduleTypes(V, rest, more, t) /\ Halfway(V, copies, rest, more, t)
               /\ DOMAIN rest = DOMAIN pending \ {d}
  <1> DEFINE L == Locations(V, t)
             M == [destination : L, source : L]
             m == Move(ValueLocation(d), pending[d])
             rest == WithoutCopy(pending, d)
             more == Append(moves, m)
  <1>1. /\ t \in Nat /\ moves \in Seq(M) /\ DOMAIN pending \subseteq V
        /\ \A e \in DOMAIN pending : pending[e] \in L
    BY DEF ScheduleTypes
  <1>2. d \in DOMAIN pending /\ \A e \in DOMAIN pending : pending[e] # ValueLocation(d)
    BY DEF ReadyDestinations, StillNeeded
  <1>3. /\ \A v : ValueLocation(v) \in L <=> v \in V
        /\ \A v, w : ValueLocation(v) = ValueLocation(w) => v = w
    BY <1>1, LocationFacts
  <1>4. m \in M /\ m.destination = ValueLocation(d) /\ m.source = pending[d]
    BY <1>1, <1>2, <1>3 DEF Move
  <1>5. /\ DOMAIN rest = DOMAIN pending \ {d}
        /\ \A e \in DOMAIN rest : rest[e] = pending[e]
        /\ rest = [ e \in DOMAIN rest |-> rest[e] ]
    BY DEF WithoutCopy
  <1> HIDE DEF m, rest
  <1>6. more \in Seq(M)
    <2> HIDE DEF M
    <2> QED
      BY <1>1, <1>4
  <1> HIDE DEF more
  <1>8. ASSUME NEW f, IsRun(f, more, Len(more)), L \subseteq DOMAIN f[0]
        PROVE  /\ DOMAIN f[Len(more)] = DOMAIN f[0]
               /\ \A e \in DOMAIN rest :
                      f[Len(more)][rest[e]] = f[0][ValueLocation(From(copies, e))]
               /\ \A v \in V \ DOMAIN rest :
                      f[Len(more)][ValueLocation(v)] = f[0][ValueLocation(From(copies, v))]
    <2> DEFINE n == Len(moves)
               before == f[n]
               after == f[Len(more)]
    <2>1. /\ Len(more) = n + 1
          /\ IsRun(f, moves, n) /\ f[n + 1] = Applied(f[n], m)
      <3>1. /\ Len(Append(moves, m)) = Len(moves) + 1 /\ Len(moves) \in Nat
            /\ IsRun(f, moves, Len(moves))
            /\ f[Len(moves) + 1] = Applied(f[Len(moves)], m)
        <4> HIDE DEF M
        <4> QED
          BY <1>1, <1>4, <1>8, RunGrows DEF more
      <3> QED
        BY <3>1 DEF more
    <2>2. /\ DOMAIN before = DOMAIN f[0]
          /\ \A e \in DOMAIN pending : before[pending[e]] = f[0][ValueLocation(From(copies, e))]
          /\ \A v \in V \ DOMAIN pending :
                 before[ValueLocation(v)] = f[0][ValueLocation(From(copies, v))]
      BY <1>8, <2>1 DEF Halfway
    <2>3. after = Applied(before, m)
      BY <2>1
    <2> HIDE DEF before, after
    <2>4. /\ DOMAIN after = DOMAIN before
          /\ after[ValueLocation(d)] = before[pending[d]]
          /\ \A l \in L : l # ValueLocation(d) => after[l] = before[l]
      <3> HIDE DEF L
      <3> QED
        BY <1>4, <2>3, <1>1, <1>2, <1>3, <1>8, <2>2 DEF Applied
    <2> HIDE DEF L
    <2>5. ASSUME NEW e \in DOMAIN rest
          PROVE  after[rest[e]] = f[0][ValueLocation(From(copies, e))]
      BY <1>1, <1>2, <1>5, <2>2, <2>4
    <2>6. ASSUME NEW v \in V \ DOMAIN rest
          PROVE  after[ValueLocation(v)] = f[0][ValueLocation(From(copies, v))]
      BY <1>2, <2>2, <2>4, <1>3, <1>5
    <2> QED
      BY <2>5, <2>6, <2>2, <2>4 DEF after
  <1> QED
    BY <1>5, <1>1, <1>6, <1>8 DEF rest, more, m, ScheduleTypes, Halfway

(* A destination that is still read is saved, and read where it is saved.  *)
LEMMA SavedCopyMoves ==
    ASSUME NEW V, NEW copies, NEW pending, NEW moves, NEW t,
           ScheduleTypes(V, pending, moves, t), Halfway(V, copies, pending, moves, t),
           NEW s \in DOMAIN pending
    PROVE  LET next == Redirected(pending, s, TemporaryLocation(t))
               more == Append(moves, Move(TemporaryLocation(t), ValueLocation(s)))
           IN  /\ ScheduleTypes(V, next, more, t + 1) /\ Halfway(V, copies, next, more, t + 1)
               /\ DOMAIN next = DOMAIN pending /\ s \in ReadyDestinations(next)
  <1> DEFINE L == Locations(V, t)
             K == Locations(V, t + 1)
             M == [destination : K, source : K]
             m == Move(TemporaryLocation(t), ValueLocation(s))
             next == Redirected(pending, s, TemporaryLocation(t))
             more == Append(moves, m)
  <1>1. /\ t \in Nat /\ t + 1 \in Nat /\ moves \in Seq([destination : L, source : L])
        /\ DOMAIN pending \subseteq V /\ \A e \in DOMAIN pending : pending[e] \in L
    BY DEF ScheduleTypes
  <1>2. L \subseteq K /\ TemporaryLocation(t) \in K /\ TemporaryLocation(t) \notin L
    BY ONLY <1>1, LocationFacts
  <1>3. /\ \A v : ValueLocation(v) \in K <=> v \in V
        /\ \A v : ValueLocation(v) \in L <=> v \in V
        /\ \A v, k : ValueLocation(v) # TemporaryLocation(k)
    BY <1>1, LocationFacts
  <1>4. m \in M /\ m.destination = TemporaryLocation(t) /\ m.source = ValueLocation(s)
    BY <1>1, <1>2, <1>3 DEF Move
  <1>5. /\ DOMAIN next = DOMAIN pending
        /\ \A e \in DOMAIN next :
               next[e] = IF pending[e] = ValueLocation(s) THEN TemporaryLocation(t) ELSE pending[e]
        /\ next = [ e \in DOMAIN next |-> next[e] ]
    BY DEF Redirected
  <1> HIDE DEF m, next
  <1>6. moves \in Seq(M) /\ more \in Seq(M)
    <2>1. moves \in Seq(M)
      <3> DEFINE N == [destination : L, source : L]
      <3>1. N \subseteq M
        BY <1>2
      <3>2. moves \in Seq(N)
        BY <1>1
      <3> HIDE DEF N, M
      <3> QED
        BY <3>1, <3>2
    <2> HIDE DEF M
    <2> QED
      BY <1>4, <2>1
  <1> HIDE DEF more, L, K
  <1>7. ScheduleTypes(V, next, more, t + 1)
    BY <1>1, <1>2, <1>5, <1>6 DEF ScheduleTypes, K
  <1>8. ASSUME NEW f, IsRun(f, more, Len(more)), K \subseteq DOMAIN f[0]
        PROVE  /\ DOMAIN f[Len(more)] = DOMAIN f[0]
               /\ \A e \in DOMAIN next :
                      f[Len(more)][next[e]] = f[0][ValueLocation(From(copies, e))]
               /\ \A v \in V \ DOMAIN next :
                      f[Len(more)][ValueLocation(v)] = f[0][ValueLocation(From(copies, v))]
    <2> DEFINE n == Len(moves)
               before == f[n]
               after == f[Len(more)]
    <2>1. /\ Len(more) = n + 1
          /\ IsRun(f, moves, n) /\ f[n + 1] = Applied(f[n], m)
      <3>1. /\ Len(Append(moves, m)) = Len(moves) + 1 /\ Len(moves) \in Nat
            /\ IsRun(f, moves, Len(moves))
            /\ f[Len(moves) + 1] = Applied(f[Len(moves)], m)
        <4> HIDE DEF M
        <4> QED
          BY <1>4, <1>6, <1>8, RunGrows DEF more
      <3> QED
        BY <3>1 DEF more
    <2>2. /\ DOMAIN before = DOMAIN f[0]
          /\ \A e \in DOMAIN pending : before[pending[e]] = f[0][ValueLocation(From(copies, e))]
          /\ \A v \in V \ DOMAIN pending :
                 before[ValueLocation(v)] = f[0][ValueLocation(From(copies, v))]
      BY <1>2, <1>8, <2>1 DEF Halfway, L
    <2>3. after = Applied(before, m)
      BY <2>1
    <2> HIDE DEF before, after
    <2>4. /\ DOMAIN after = DOMAIN before
          /\ after[TemporaryLocation(t)] = before[ValueLocation(s)]
          /\ \A l \in L : after[l] = before[l]
      BY <1>2, <1>8, <2>2, <1>4, <2>3 DEF Applied
    <2>5. ASSUME NEW e \in DOMAIN next
          PROVE  after[next[e]] = f[0][ValueLocation(From(copies, e))]
      BY <1>1, <1>5, <2>2, <2>4
    <2>6. ASSUME NEW v \in V \ DOMAIN next
          PROVE  after[ValueLocation(v)] = f[0][ValueLocation(From(copies, v))]
      BY <1>3, <1>5, <2>2, <2>4
    <2> QED
      BY <2>5, <2>6, <2>2, <2>4 DEF after
  <1>10. s \in ReadyDestinations(next)
    BY <1>3, <1>5 DEF ReadyDestinations, StillNeeded
  <1> QED
    BY <1>5, <1>7, <1>8, <1>10 DEF next, more, m, Halfway, K

(* The loop: every two iterations, a copy less is pending.                 *)
Unready(pending) == IF ReadyDestinations(pending) = {} THEN 0 ELSE 1

(* The state of the schedule after k steps.                                *)
ScheduleAt(V, copies, k, state) ==
    /\ ScheduleTypes(V, state.pending, state.moves, state.temporary_count)
    /\ Halfway(V, copies, state.pending, state.moves, state.temporary_count)
    /\ IsFiniteSet(DOMAIN state.pending)
    /\ \/ DOMAIN state.pending = {}
       \/ 2 * Cardinality(DOMAIN state.pending) - Unready(state.pending) <= 2 * Len(copies) - k

(* A set of numbers that is not empty has a first one.                     *)
LEMMA FirstExists ==
    ASSUME NEW S, S \subseteq Nat, S # {}
    PROVE  (CHOOSE e \in S : IsFirstOf(e, S)) \in S
  <1>1. PICK x \in S : \A y \in S : x <= y
    BY LeastNatural
  <1> QED
    BY <1>1 DEF IsFirstOf

(* One step of the schedule, a copy emitted or a cycle broken, keeps what  *)
(* the moves so far perform.                                               *)
LEMMA ScheduleStepKeeps ==
    ASSUME NEW V, V \subseteq Nat, NEW copies, Len(copies) \in Nat, NEW k \in Nat,
           NEW state, ScheduleAt(V, copies, k, state)
    PROVE  ScheduleAt(V, copies, k + 1, ScheduleStep(state))
  <1> DEFINE pending   == state.pending
             P         == DOMAIN pending
             ready     == ReadyDestinations(pending)
             d         == CHOOSE e \in ready : IsFirstOf(e, ready)
             saved     == CHOOSE e \in P : IsFirstOf(e, P)
             t         == state.temporary_count
             after     == ScheduleStep(state)
             N         == Len(copies)
  <1>1. /\ ScheduleTypes(V, pending, state.moves, t)
        /\ Halfway(V, copies, pending, state.moves, t)
        /\ IsFiniteSet(P) /\ Cardinality(P) \in Nat
        /\ P = {} \/ 2 * Cardinality(P) - Unready(pending) <= 2 * N - k
    BY FS_CardinalityType DEF ScheduleAt
  <1>2. P \subseteq Nat /\ ready \subseteq P
    BY <1>1 DEF ScheduleTypes, ReadyDestinations
  <1>3. CASE P = {}
    BY <1>3, <1>1 DEF ScheduleStep, ScheduleAt
  <1>4. CASE ready # {}
    <2>1. d \in ready
      BY <1>2, <1>4, FirstExists
    <2> DEFINE rest == WithoutCopy(pending, d)
               more == Append(state.moves, Move(ValueLocation(d), pending[d]))
    <2>2. P # {}
      BY <1>2, <1>4
    <2>3. after.pending = rest /\ after.moves = more /\ after.temporary_count = t
      BY <1>4, <2>2 DEF ScheduleStep
    <2> HIDE DEF d
    <2>4. ScheduleTypes(V, rest, more, t) /\ Halfway(V, copies, rest, more, t) /\ DOMAIN rest = P \ {d}
      <3>1. /\ ScheduleTypes(V, pending, state.moves, t)
            /\ Halfway(V, copies, pending, state.moves, t)
            /\ d \in ReadyDestinations(pending)
        BY <1>1, <2>1
      <3> HIDE DEF pending, t
      <3> QED
        BY ONLY <3>1, ReadyCopyMoves
    <2> HIDE DEF rest, more, after
    <2>5. IsFiniteSet(P \ {d}) /\ Cardinality(P \ {d}) = Cardinality(P) - 1
      BY <1>1, <1>2, <2>1, FS_RemoveElement
    <2> QED
      BY <2>3, <2>4, <2>5, <1>1, <2>2, <1>4 DEF ScheduleAt, after, Unready
  <1>5. CASE P # {} /\ ready = {}
    <2>1. saved \in P
      BY <1>2, <1>5, FirstExists
    <2> DEFINE next == Redirected(pending, saved, TemporaryLocation(t))
               more == Append(state.moves, Move(TemporaryLocation(t), ValueLocation(saved)))
    <2>2. after.pending = next /\ after.moves = more /\ after.temporary_count = t + 1
      BY <1>5 DEF ScheduleStep
    <2> HIDE DEF saved
    <2>3. /\ ScheduleTypes(V, next, more, t + 1) /\ Halfway(V, copies, next, more, t + 1)
          /\ DOMAIN next = P /\ saved \in ReadyDestinations(next)
      BY <1>1, <2>1, SavedCopyMoves
    <2> HIDE DEF next, more, after
    <2> QED
      BY <1>1, <2>2, <2>3, <1>5 DEF ScheduleAt, after, Unready
  <1> QED
    BY <1>3, <1>4, <1>5

(* The schedule of some copies performs them, whatever the contents.       *)
Performs(V, copies, moves, t) ==
    /\ t \in Nat
    /\ moves \in Seq([destination : Locations(V, t), source : Locations(V, t)])
    /\ \A f : IsRun(f, moves, Len(moves)) /\ Locations(V, t) \subseteq DOMAIN f[0] =>
           \A v \in V : f[Len(moves)][ValueLocation(v)] = f[0][ValueLocation(From(copies, v))]

(* Before the first step nothing has moved.                                *)
LEMMA ScheduleStarts ==
    ASSUME NEW V, NEW copies, IsCopyList(copies),
           \A i \in DOMAIN copies : copies[i].destination \in V /\ copies[i].source \in V,
           NEW state, state = [pending |-> PendingOf(copies), moves |-> << >>, temporary_count |-> 0]
    PROVE  ScheduleAt(V, copies, 0, state)
  <1> DEFINE D == MovedDestinations(copies)
             pending == PendingOf(copies)
             N == Len(copies)
  <1>1. state.pending = pending /\ state.moves = << >> /\ state.temporary_count = 0
    OBVIOUS
  <1>2. N \in Nat /\ DOMAIN copies = 1 .. N
    BY DEF IsCopyList
  <1>3. D = { copies[i].destination : i \in 1 .. N }
    BY <1>2 DEF MovedDestinations, IsCopyList
  <1>4. \A e \in D : SourceOf(copies, e) \in V /\ From(copies, e) = SourceOf(copies, e)
    <2> TAKE e \in D
    <2>1. PICK i \in DOMAIN copies : copies[i].destination = e
      BY <1>2, <1>3
    <2> DEFINE j == CHOOSE i_1 \in DOMAIN copies : copies[i_1].destination = e
    <2> HIDE DEF j
    <2> QED
      BY <2>1 DEF From, SourceOf
  <1>5. ASSUME NEW v, v \notin D PROVE From(copies, v) = v
    BY <1>2, <1>3, <1>5 DEF From
  <1>6. DOMAIN pending = D /\ D \subseteq V
    BY <1>2, <1>3 DEF PendingOf
  <1>7. \A e \in D : pending[e] = ValueLocation(SourceOf(copies, e))
    BY DEF PendingOf
  <1>8. ScheduleTypes(V, pending, << >>, 0)
    BY <1>4, <1>7, LocationFacts, <1>6 DEF PendingOf, ScheduleTypes
  <1> HIDE DEF D, pending
  <1>9. Halfway(V, copies, pending, << >>, 0)
    BY <1>4, <1>5, <1>6, <1>7 DEF Halfway
  <1>10. IsFiniteSet(D) /\ Cardinality(D) \in Nat /\ Cardinality(D) <= N
    <2> DEFINE U == 1 .. N
               g == [ i \in U |-> copies[i].destination ]
    <2>1. IsFiniteSet(U) /\ Cardinality(U) = N
      <3>1. 1 \in Int /\ N \in Int
        BY <1>2
      <3> QED
        <4>1. IsFiniteSet(1 .. N) /\ Cardinality(1 .. N) = IF 1 > N THEN 0 ELSE N - 1 + 1
          BY <3>1, FS_Interval
        <4> QED
          BY <1>2, <4>1
    <2>2. g \in [U -> D]
      BY <1>3
    <2>3. \A e \in D : \E i \in U : g[i] = e
      BY <1>3
    <2> HIDE DEF U, g
    <2> QED
      BY <2>1, <2>2, <2>3, RangeIsSmall, FS_CardinalityType
  <1> QED
    BY <1>1, <1>6, <1>8, <1>9, <1>10, <1>2 DEF ScheduleAt, Unready

(* The moves of a schedule perform its copies all at once.                 *)
THEOREM SchedulePerforms ==
    ASSUME NEW V, V \subseteq Nat, NEW copies, IsCopyList(copies),
           \A i \in DOMAIN copies : copies[i].destination \in V /\ copies[i].source \in V
    PROVE  Performs(V, copies, Schedule(copies).moves, Schedule(copies).temporary_count)
  <1> DEFINE N == Len(copies)
             S(k) == ScheduleRun(copies)[k]
             Good == { k \in Nat : ScheduleAt(V, copies, k, S(k)) }
  <1>1. N \in Nat /\ 2 * N \in Nat
    BY DEF IsCopyList
  <1>2. /\ S(0) = [pending |-> PendingOf(copies), moves |-> << >>, temporary_count |-> 0]
        /\ \A k \in 1 .. 2 * N : S(k) = ScheduleStep(S(k - 1))
    BY <1>1, ScheduleUnfolds
  <1> HIDE DEF S
  <1>3. 0 \in Good
    BY <1>2, ScheduleStarts
  <1>4. ASSUME NEW k \in 1 .. 2 * N, k - 1 \in Good
        PROVE  k \in Good
    <2>1. k - 1 \in Nat /\ (k - 1) + 1 = k /\ k \in Nat
      BY <1>1
    <2> QED
      BY <1>2, <2>1, <1>1, <1>4, ScheduleStepKeeps, ZenonT(60)
  <1> HIDE DEF Good
  <1>5. \A k \in 0 .. 2 * N : k \in Good
    BY <1>1, <1>3, <1>4, BoundedInduction
  <1> DEFINE state == S(2 * N)
             P == DOMAIN state.pending
  <1> HIDE DEF state
  <1>8. /\ ScheduleTypes(V, state.pending, state.moves, state.temporary_count)
        /\ Halfway(V, copies, state.pending, state.moves, state.temporary_count)
        /\ IsFiniteSet(P) /\ Cardinality(P) \in Nat
        /\ P = {} \/ 2 * Cardinality(P) - Unready(state.pending) <= 2 * N - 2 * N
    BY <1>1, <1>5, FS_CardinalityType DEF ScheduleAt, state, Good
  <1>9. P = {}
    <2>1. SUFFICES ASSUME P # {} PROVE FALSE
      OBVIOUS
    <2> QED
      BY <1>1, <1>8, <2>1, FS_EmptySet DEF Unready
  <1> QED
    BY <1>8, <1>9 DEF state, Schedule, S, Performs, ScheduleTypes, Halfway
-----------------------------------------------------------------------------
(* The moves of an edge, with the temporaries of the whole program.        *)
Carries(V, copies, moves, L) ==
    /\ moves \in Seq([destination : L, source : L])
    /\ \A f : IsRun(f, moves, Len(moves)) /\ DOMAIN f[0] = L =>
           \A v \in V : f[Len(moves)][ValueLocation(v)] = f[0][ValueLocation(From(copies, v))]

(* A temporary of one edge among the temporaries of the whole program.     *)
Shift(location, offset) ==
    IF location.kind = "temporary" THEN [location EXCEPT !.id = @ + offset] ELSE location

(* Shifting the temporaries keeps locations apart.                         *)
LEMMA ShiftFacts ==
    ASSUME NEW V, NEW t \in Nat, NEW offset \in Nat, NEW T \in Nat, offset + t <= T
    PROVE  /\ \A v : Shift(ValueLocation(v), offset) = ValueLocation(v)
           /\ \A l \in Locations(V, t) : Shift(l, offset) \in Locations(V, T)
           /\ \A l, m \in Locations(V, t) : Shift(l, offset) = Shift(m, offset) => l = m
  <1>1. \A v : Shift(ValueLocation(v), offset) = ValueLocation(v)
    BY DEF Shift, ValueLocation
  <1>2. \A k \in Nat : Shift(TemporaryLocation(k), offset) = TemporaryLocation(k + offset)
    BY DEF Shift, TemporaryLocation
  <1>3. \A l \in Locations(V, t) : Shift(l, offset) \in Locations(V, T)
    <2> TAKE l \in Locations(V, t)
    <2>1. CASE \E v \in V : l = ValueLocation(v)
      BY <1>1, <2>1, LocationFacts
    <2>2. CASE \E k \in 0 .. t - 1 : l = TemporaryLocation(k)
      <3>1. PICK k \in 0 .. t - 1 : l = TemporaryLocation(k)
        BY <2>2
      <3>2. k \in Nat /\ k + offset \in 0 .. T - 1
        OBVIOUS
      <3> QED
        BY <1>2, <3>1, <3>2, LocationFacts
    <2> QED
      BY <2>1, <2>2, LocationFacts
  <1>4. ASSUME NEW l \in Locations(V, t), NEW m \in Locations(V, t), Shift(l, offset) = Shift(m, offset)
        PROVE  l = m
    <2>2. \A k \in 0 .. t - 1 : k \in Nat
      OBVIOUS
    <2>3. \A j, k \in Nat : TemporaryLocation(j + offset) = TemporaryLocation(k + offset) => j = k
      <3> TAKE j, k \in Nat
      <3> QED
        BY LocationFacts
    <2>4. \A v, k : ValueLocation(v) # TemporaryLocation(k)
      BY LocationFacts
    <2> QED
      BY <1>1, <1>2, <1>4, LocationFacts, <2>2, <2>3, <2>4
  <1> QED
    BY <1>1, <1>3, <1>4

(* A run keeps the locations.                                              *)
LEMMA RunKeepsLocations ==
    ASSUME NEW n \in Nat, NEW moves, NEW f, IsRun(f, moves, n)
    PROVE  \A i \in 0 .. n : DOMAIN f[i] = DOMAIN f[0]
  <1> DEFINE S == { i \in Nat : i <= n => DOMAIN f[i] = DOMAIN f[0] }
  <1>1. 0 \in S
    OBVIOUS
  <1>2. ASSUME NEW k \in 1 .. n, k - 1 \in S PROVE k \in S
    <2>4. DOMAIN f[k] = DOMAIN f[k - 1]
      BY DEF Applied, IsRun
    <2> QED
      BY <1>2, <2>4
  <1> HIDE DEF S
  <1>3. \A k \in 0 .. n : k \in S
    BY <1>1, <1>2, BoundedInduction
  <1> QED
    BY <1>3 DEF S

(* Moves with shifted temporaries carry the same copies.                   *)
LEMMA ShiftedMovesCarry ==
    ASSUME NEW V, NEW copies, NEW moves, NEW t, Performs(V, copies, moves, t),
           NEW offset \in Nat, NEW T \in Nat, offset + t <= T,
           \A v \in V : From(copies, v) \in V
    PROVE  Carries(V, copies, ShiftTemporaries(moves, offset), Locations(V, T))
  <1> DEFINE K == Locations(V, t)
             L == Locations(V, T)
             M == [destination : K, source : K]
             shifted == ShiftTemporaries(moves, offset)
             n == Len(moves)
             Sh(l) == Shift(l, offset)
  <1>1. t \in Nat /\ moves \in Seq(M)
    BY DEF Performs
  <1>2. /\ \A v : Sh(ValueLocation(v)) = ValueLocation(v)
        /\ \A l \in K : Sh(l) \in L
        /\ \A l, m \in K : Sh(l) = Sh(m) => l = m
    BY <1>1, ShiftFacts
  <1>3. n \in Nat /\ DOMAIN moves = 1 .. n /\ \A i \in 1 .. n : moves[i] \in M
    <2> HIDE DEF M
    <2> QED
      BY <1>1
  <1>4. \A i \in 1 .. n : moves[i].destination \in K /\ moves[i].source \in K
    BY <1>3
  <1>5. /\ shifted = [ i \in 1 .. n |-> shifted[i] ]
        /\ \A i \in 1 .. n : /\ shifted[i] = Move(Sh(moves[i].destination), Sh(moves[i].source))
    <2>1. shifted = [ i \in DOMAIN moves |-> Move(Sh(moves[i].destination), Sh(moves[i].source)) ]
      BY DEF ShiftTemporaries, Shift
    <2> HIDE DEF shifted, Sh
    <2> QED
      BY <1>3, <2>1
  <1> HIDE DEF shifted, Sh
  <1>6. \A i \in 1 .. n : /\ shifted[i].destination = Sh(moves[i].destination)
                          /\ shifted[i].source = Sh(moves[i].source)
                          /\ shifted[i] \in [destination : L, source : L]
    BY <1>2, <1>4, <1>5 DEF Move
  <1>7. shifted \in Seq([destination : L, source : L]) /\ Len(shifted) = n
    <2> DEFINE N == [destination : L, source : L]
    <2>1. \A i \in 1 .. n : shifted[i] \in N
      BY <1>6
    <2> HIDE DEF N
    <2> QED
      BY <1>3, <1>5, <2>1 DEF N
  <1> HIDE DEF K, L
  <1>8. ASSUME NEW f, IsRun(f, shifted, n), DOMAIN f[0] = L, NEW v \in V
        PROVE  f[n][ValueLocation(v)] = f[0][ValueLocation(From(copies, v))]
    <2> DEFINE g == [ i \in 0 .. n |-> [ l \in K |-> f[i][Sh(l)] ] ]
    <2>1. \A i \in 0 .. n : DOMAIN f[i] = L
      BY <1>3, <1>8, RunKeepsLocations
    <2>2. \A i \in 0 .. n : DOMAIN g[i] = K /\ \A l \in K : g[i][l] = f[i][Sh(l)]
      OBVIOUS
    <2> HIDE DEF g
    <2>3. ASSUME NEW i \in 1 .. n
          PROVE  g[i] = Applied(g[i - 1], moves[i])
      <3>1. i - 1 \in 0 .. n /\ i \in 0 .. n
        BY <1>3
      <3>2. f[i] = Applied(f[i - 1], shifted[i])
        BY <1>8 DEF IsRun
      <3>3. DOMAIN f[i - 1] = L /\ DOMAIN g[i - 1] = K /\ DOMAIN g[i] = K
        BY <2>1, <2>2, <3>1
      <3>4. ASSUME NEW l \in K
            PROVE  g[i][l] = IF l = moves[i].destination THEN g[i - 1][moves[i].source] ELSE g[i - 1][l]
        BY ONLY <2>2, <3>1, <1>2, <3>2, <3>3, <1>6, <1>4 DEF Applied
      <3> QED
        BY <3>3, <3>4, <3>1 DEF Applied, g
    <2> QED
      BY <1>2, <2>2, <1>3, <2>3, <1>1, LocationFacts DEF K, Performs, IsRun
  <1> QED
    BY <1>7, <1>8 DEF Carries, L, shifted

(* The copies of an edge: what the phis of its end read on it.             *)
CopySet(p, b, s) ==
    { [destination |-> phi.result, source |-> phi.incoming[b]] :
        phi \in { q \in p.phis[s] : q.incoming[b] # q.result } }

(* The copies of an edge in the order of the values they write.            *)
ByDestination(C) == InOrder(C, LAMBDA c, d : c.destination < d.destination)

(* They are listed once each.                                              *)
LEMMA ByDestinationLists ==
    ASSUME NEW S, IsFiniteSet(S), \A c \in S : c.destination \in Nat,
           \A c, d \in S : c.destination = d.destination => c = d
    PROVE  Lists(ByDestination(S), S)
  <1> DEFINE R == { e \in S \X S : e[1].destination < e[2].destination }
  <1>1. StrictlyOrders(R, S)
    <2>1. \A e, f \in S : <<e, f>> \in R <=> e.destination < f.destination
      OBVIOUS
    <2> HIDE DEF R
    <2> QED
      BY <2>1 DEF StrictlyOrders
  <1> DEFINE place(e) == Cardinality({ f \in S : f.destination < e.destination })
             s == ByDestination(S)
             n == Cardinality(S)
  <1>2. \A e \in S : place(e) = Cardinality(Before(R, S, e))
    BY DEF Before
  <1>3. s = [ k \in 1 .. n |-> CHOOSE e \in S : place(e) = k - 1 ]
    BY DEF ByDestination, InOrder
  <1> HIDE DEF s, place, R, n
  <1>4. ASSUME NEW k \in 1 .. n, \E e \in S : Cardinality(Before(R, S, e)) = k - 1
        PROVE  s[k] \in S /\ Cardinality(Before(R, S, s[k])) = k - 1
    BY <1>3, <1>2, <1>4
  <1> QED
    BY <1>1, <1>3, <1>4, ListedByFacts DEF s, ListedBy, n

(* What an SSA program is that destroy_ssa accepts.                        *)
IsSsa(p) ==
    LET U == Blocks(p.succ)
        R == ReachableFrom(p.succ, p.start)
    IN  /\ IsFiniteSet(U) /\ U = 0 .. Cardinality(U) - 1 /\ Cardinality(U) \in Nat
        /\ IsGraph(p.succ) /\ p.start \in U
        /\ \A b \in U : DOMAIN p.succ[b] = 1 .. Len(p.succ[b]) /\ Len(p.succ[b]) \in Nat
        /\ UniquePredecessors(p.succ, R, p.start) = {}
        /\ DefinedValues(p) \subseteq Nat
        /\ DOMAIN p.instructions = U
        /\ \A b \in U : p.instructions[b] \in Seq(InstructionsOver(DefinedValues(p)))
        /\ \A s \in R :
               /\ IsFiniteSet(p.phis[s])
               /\ \A phi, other \in p.phis[s] : phi.result = other.result => phi = other
               /\ \A phi \in p.phis[s] :
                      /\ phi.result \in DefinedValues(p)
                      /\ \A b \in UniquePredecessors(p.succ, R, s) : phi.incoming[b] \in DefinedValues(p)

(* Where a value has its contents from when the edge is taken.             *)
PhiSource(p, b, s, v) ==
    IF \E phi \in p.phis[s] : phi.result = v
    THEN (CHOOSE phi \in p.phis[s] : phi.result = v).incoming[b] ELSE v

(* The copies of an edge are its phis: what they give a value is what the  *)
(* phis give it.                                                           *)
LEMMA CopiesOfAnEdge ==
    ASSUME NEW p, IsSsa(p), NEW s \in ReachableFrom(p.succ, p.start),
           NEW b \in UniquePredecessors(p.succ, ReachableFrom(p.succ, p.start), s),
           NEW copies, copies = CopiesForEdge(p, b, s)
    PROVE  /\ IsCopyList(copies)
           /\ \A i \in DOMAIN copies :
                  copies[i].destination \in DefinedValues(p) /\ copies[i].source \in DefinedValues(p)
           /\ \A v : From(copies, v) = PhiSource(p, b, s, v)
           /\ \A v \in DefinedValues(p) : PhiSource(p, b, s, v) \in DefinedValues(p)
           /\ Len(copies) \in Nat
  <1> DEFINE V == DefinedValues(p)
             F == p.phis[s]
             C == CopySet(p, b, s)
             N == Len(copies)
  <1>1. /\ V \subseteq Nat /\ IsFiniteSet(F)
        /\ \A phi, other \in F : phi.result = other.result => phi = other
        /\ \A phi \in F : phi.result \in V /\ phi.incoming[b] \in V
    BY DEF IsSsa
  <1>2. copies = ByDestination(C)
    BY DEF CopiesForEdge, CopySet, ByDestination
  <1> DEFINE G == { q \in F : q.incoming[b] # q.result }
             h(phi) == [destination |-> phi.result, source |-> phi.incoming[b]]
             g == [ phi \in G |-> h(phi) ]
  <1>3. C = { h(phi) : phi \in G }
    BY DEF CopySet
  <1> HIDE DEF V, F, C
  <1>4. IsFiniteSet(C)
    <2>1. IsFiniteSet(G)
      BY <1>1, FS_Subset
    <2>2. g \in [G -> C] /\ \A c \in C : \E phi \in G : g[phi] = c
      BY <1>3
    <2> HIDE DEF G, g, h
    <2> QED
      BY <2>1, <2>2, RangeIsSmall
  <1>5. \A phi \in G : h(phi).destination = phi.result /\ h(phi).source = phi.incoming[b]
    OBVIOUS
  <1>6. \A c \in C : /\ c \in [destination : Nat, source : Nat] /\ c.destination \in V /\ c.source \in V
                     /\ c.destination # c.source
    <2> TAKE c \in C
    <2>1. PICK phi \in G : c = [destination |-> phi.result, source |-> phi.incoming[b]]
      BY <1>3
    <2> QED
      BY <2>1, <1>1
  <1> HIDE DEF h
  <1>7. \A c, d \in C : c.destination = d.destination => c = d
    BY <1>1, <1>3, <1>5
  <1>8. Lists(copies, C)
    BY <1>6, <1>2, <1>4, <1>7, ByDestinationLists
  <1>9. /\ N \in Nat /\ DOMAIN copies = 1 .. N /\ \A i \in 1 .. N : copies[i] \in C
        /\ \A c \in C : \E i \in 1 .. N : copies[i] = c
        /\ \A i, j \in 1 .. N : copies[i] = copies[j] => i = j
    BY <1>8 DEF Lists
  <1>10. IsCopyList(copies)
    <2> DEFINE M == [destination : Nat, source : Nat]
    <2>1. copies \in Seq(M)
      <3>1. C \subseteq M
        BY <1>6
      <3> HIDE DEF M
      <3> QED
        BY <3>1, <1>8 DEF Lists
    <2> QED
      BY <1>9, <2>1, <1>7, <1>6 DEF IsCopyList
  <1>11. ASSUME NEW v
         PROVE  From(copies, v) = PhiSource(p, b, s, v)
    <2>1. CASE \E phi \in F : phi.result = v
      <3>1. PICK phi \in F : phi.result = v
        BY <2>1
      <3>3. PhiSource(p, b, s, v) = phi.incoming[b]
        BY <2>1, <1>1, <3>1 DEF PhiSource, F
      <3>4. CASE phi \in G
        <4>1. PICK i \in 1 .. N : copies[i] = h(phi)
          BY <1>3, <1>9, <3>4
        <4>2. copies[i].destination = v
          BY <1>5, <3>1, <3>4, <4>1
        <4> DEFINE j == CHOOSE k \in DOMAIN copies : copies[k].destination = v
        <4>3. j \in 1 .. N /\ copies[j].destination = v
          BY <1>9, <4>2
        <4> HIDE DEF j
        <4>6. From(copies, v) = copies[i].source
          BY <1>9, <4>2, <1>7, <4>3 DEF From, SourceOf
        <4> QED
          BY <1>5, <3>3, <3>4, <4>1, <4>6
      <3>5. CASE phi \notin G
        <4>2. ASSUME NEW i \in DOMAIN copies, copies[i].destination = v
              PROVE  FALSE
          <5>1. PICK q \in G : copies[i] = h(q)
            BY <1>3, <1>9
          <5> QED
            BY <1>1, <3>1, <3>5, <1>5, <4>2, <5>1
        <4> QED
          BY <3>3, <3>1, <3>5, <4>2 DEF From
      <3> QED
        BY <3>4, <3>5
    <2>2. CASE ~(\E phi \in F : phi.result = v)
      <3>2. ASSUME NEW i \in DOMAIN copies, copies[i].destination = v
            PROVE  FALSE
        <4>1. PICK q \in G : copies[i] = h(q)
          BY <1>3, <1>9
        <4> QED
          BY <2>2, <1>5, <3>2, <4>1
      <3> QED
        BY <2>2, <3>2 DEF From, PhiSource, F
    <2> QED
      BY <2>1, <2>2
  <1>12. \A v \in V : PhiSource(p, b, s, v) \in V
    <2> TAKE v \in V
    <2>1. CASE \E phi \in F : phi.result = v
      <3>1. PICK phi \in F : phi.result = v
        BY <2>1
      <3> QED
        BY <1>1, <2>1, <3>1 DEF PhiSource, F
    <2>2. CASE ~(\E phi \in F : phi.result = v)
      BY <2>2 DEF PhiSource, F
    <2> QED
      BY <2>1, <2>2
  <1> QED
    BY <1>9, <1>10, <1>11, <1>12, <1>6 DEF V
-----------------------------------------------------------------------------
(* The plans of destroy_ssa: one for every edge with copies.               *)
Sites(p) ==
    LET R == ReachableFrom(p.succ, p.start)
    IN  { e \in R \X R : /\ e[1] \in UniquePredecessors(p.succ, R, e[2])
                         /\ CopiesForEdge(p, e[1], e[2]) # << >> }

(* Edges in lexicographic order.                                           *)
ByEdge(S) == InOrder(S, LAMBDA e, f : e[1] < f[1] \/ (e[1] = f[1] /\ e[2] < f[2]))

(* They are listed once each.                                              *)
LEMMA ByEdgeLists ==
    ASSUME NEW S, IsFiniteSet(S), S \subseteq Nat \X Nat
    PROVE  Lists(ByEdge(S), S)
  <1> DEFINE Less(e, f) == e[1] < f[1] \/ (e[1] = f[1] /\ e[2] < f[2])
             R == { e \in S \X S : Less(e[1], e[2]) }
  <1>1. StrictlyOrders(R, S)
    <2>1. \A e, f \in S : <<e, f>> \in R <=> Less(e, f)
      OBVIOUS
    <2>2. \A e \in S : e = <<e[1], e[2]>> /\ e[1] \in Nat /\ e[2] \in Nat
      OBVIOUS
    <2> HIDE DEF R
    <2>5. ASSUME NEW e \in S, NEW f \in S, e # f
          PROVE  <<e, f>> \in R \/ <<f, e>> \in R
      BY <2>2, <2>5, <2>1
    <2> QED
      BY <2>1, <2>2, <2>5 DEF StrictlyOrders
  <1> DEFINE place(e) == Cardinality({ f \in S : Less(f, e) })
             s == ByEdge(S)
             n == Cardinality(S)
  <1>2. \A e \in S : place(e) = Cardinality(Before(R, S, e))
    BY DEF Before
  <1>3. s = [ k \in 1 .. n |-> CHOOSE e \in S : place(e) = k - 1 ]
    BY DEF ByEdge, InOrder
  <1> HIDE DEF s, place, R, n
  <1>4. ASSUME NEW k \in 1 .. n, \E e \in S : Cardinality(Before(R, S, e)) = k - 1
        PROVE  s[k] \in S /\ Cardinality(Before(R, S, s[k])) = k - 1
    BY <1>3, <1>2, <1>4
  <1> QED
    BY <1>1, <1>3, <1>4, ListedByFacts DEF s, ListedBy, n

(* The blocks of an SSA program, the ones in reach, and their              *)
(* predecessors.                                                           *)
LEMMA SsaBlocks ==
    ASSUME NEW p, IsSsa(p)
    PROVE  LET R == ReachableFrom(p.succ, p.start)
           IN  /\ R \subseteq Blocks(p.succ) /\ R \subseteq Nat /\ IsFiniteSet(R) /\ p.start \in R
               /\ \A b \in R : Targets(p.succ, b) \subseteq R
               /\ \A b, s \in R : b \in UniquePredecessors(p.succ, R, s) <=> s \in Targets(p.succ, b)
               /\ \A b \in R : UniqueSuccessors(p.succ, R, b) = Targets(p.succ, b)
               /\ \A s \in R : UniquePredecessors(p.succ, R, s) \subseteq R
  <1> DEFINE R == ReachableFrom(p.succ, p.start)
  <1>1. IsFiniteSet(Blocks(p.succ)) /\ Blocks(p.succ) \subseteq Nat /\ p.start \in DOMAIN p.succ /\ IsGraph(p.succ)
    BY DEF IsSsa, Blocks
  <1> HIDE DEF R
  <1>6. \A s \in R : UniquePredecessors(p.succ, R, s) \subseteq R
    BY DEF UniquePredecessors
  <1> QED
    BY <1>1, ReachableIsClosed, FS_Subset, <1>6 DEF R, UniquePredecessors,
       UniqueSuccessors, Blocks

(* LogicalSites lists the edges that have copies, once each.               *)
LEMMA LogicalSitesLists ==
    ASSUME NEW p, IsSsa(p)
    PROVE  Lists(LogicalSites(p), Sites(p))
  <1> DEFINE R == ReachableFrom(p.succ, p.start)
             S == { e \in R \X R :
                     /\ e[2] \in UniqueSuccessors(p.succ, R, e[1])
                     /\ CopiesForEdge(p, e[1], e[2]) # << >> }
  <1>1. /\ R \subseteq Nat /\ IsFiniteSet(R)
        /\ \A b, s \in R : b \in UniquePredecessors(p.succ, R, s) <=> s \in Targets(p.succ, b)
        /\ \A b \in R : UniqueSuccessors(p.succ, R, b) = Targets(p.succ, b)
    BY SsaBlocks
  <1>2. LogicalSites(p) = ByEdge(S)
    BY DEF LogicalSites, ByEdge
  <1>3. S = Sites(p)
    <2>1. Sites(p) = { e \in R \X R : /\ e[1] \in UniquePredecessors(p.succ, R, e[2])
                                      /\ CopiesForEdge(p, e[1], e[2]) # << >> }
      BY DEF Sites
    <2>2. \A e \in R \X R : e[2] \in UniqueSuccessors(p.succ, R, e[1])
                            <=> e[1] \in UniquePredecessors(p.succ, R, e[2])
      BY <1>1
    <2> HIDE DEF R
    <2> QED
      BY <2>1, <2>2
  <1>4. IsFiniteSet(S) /\ S \subseteq Nat \X Nat
    <2>1. IsFiniteSet(R \X R)
      BY <1>1, FS_Product
    <2>2. S \subseteq R \X R
      OBVIOUS
    <2> HIDE DEF S
    <2> QED
      BY <1>1, <2>1, <2>2, FS_Subset
  <1> HIDE DEF S
  <1> QED
    BY <1>2, <1>3, <1>4, ByEdgeLists

(* The plans, one after the other.                                         *)
LEMMA PlansUnfold ==
    ASSUME NEW p, Len(LogicalSites(p)) \in Nat
    PROVE  /\ AfterSites(p)[0] = [temporary_count |-> 0, plans |-> << >>]
           /\ \A k \in 1 .. Len(LogicalSites(p)) : AfterSites(p)[k] = AddPlan(p, AfterSites(p)[k - 1], LogicalSites(p)[k])
  <1> DEFINE n == Len(LogicalSites(p))
             init == [temporary_count |-> 0, plans |-> << >>]
             Step(before, k) == AddPlan(p, before, LogicalSites(p)[k])
             Steps(g) == [ k \in 0 .. n |-> IF k = 0
                                            THEN [temporary_count |-> 0, plans |-> << >>]
                                            ELSE AddPlan(p, g[k - 1], LogicalSites(p)[k]) ]
             F == CHOOSE g : g = Steps(g)
             Good(m, g) == g = [ k \in 0 .. m |-> IF k = 0 THEN init ELSE Step(g[k - 1], k) ]
             S == { m \in Nat : \E g : Good(m, g) }
  <1>1. AfterSites(p) = F
    BY DEF AfterSites
  <1>2. n \in Nat
    OBVIOUS
  <1>3. \A g : Steps(g) = [ k \in 0 .. n |-> IF k = 0 THEN init ELSE Step(g[k - 1], k) ]
    OBVIOUS
  <1> HIDE DEF F
  <1>4. (\E g : g = Steps(g)) => F = Steps(F)
    <2> HIDE DEF Steps
    <2> QED
      BY DEF F
  <1> HIDE DEF Steps, Step, init, n
  <1>5. 0 \in S
    <2> DEFINE g == [ k \in 0 .. 0 |-> init ]
    <2>1. g = [ k \in 0 .. 0 |-> IF k = 0 THEN init ELSE Step(g[k - 1], k) ]
      OBVIOUS
    <2> HIDE DEF g
    <2> QED
      BY <2>1
  <1>6. ASSUME NEW m \in Nat, m \in S
        PROVE  m + 1 \in S
    <2>1. PICK g : Good(m, g)
      BY <1>6
    <2> DEFINE h == [ k \in 0 .. m + 1 |-> IF k = m + 1 THEN Step(g[m], m + 1) ELSE g[k] ]
    <2>2. ASSUME NEW k \in 0 .. m + 1
          PROVE  h[k] = IF k = 0 THEN init ELSE Step(h[k - 1], k)
      <3>1. CASE k = 0
        BY <2>1, <3>1
      <3>2. CASE k = m + 1
        <4>1. h[k] = Step(g[m], k) /\ h[k - 1] = g[m] /\ k # 0
          BY <3>2
        <4> QED
          BY <4>1
      <3>3. CASE k # 0 /\ k # m + 1
        <4>1. k \in 1 .. m /\ h[k] = g[k] /\ h[k - 1] = g[k - 1]
          BY <3>3
        <4>2. g[k] = Step(g[k - 1], k)
          BY <2>1, <4>1
        <4> QED
          BY <3>3, <4>1, <4>2
      <3> QED
        BY <3>1, <3>2, <3>3
    <2>3. h = [ k \in 0 .. m + 1 |-> h[k] ]
      OBVIOUS
    <2> HIDE DEF h
    <2>4. Good(m + 1, h)
      BY <2>2, <2>3
    <2> QED
      BY <2>4
  <1>7. n \in S
    <2> HIDE DEF S
    <2> QED
      BY <1>2, <1>5, <1>6, InductiveSet
  <1>8. \E g : g = Steps(g)
    BY <1>3, <1>7
  <1>9. F = [ k \in 0 .. n |-> IF k = 0 THEN init ELSE Step(F[k - 1], k) ]
    BY <1>3, <1>4, <1>8
  <1>10. F[0] = init /\ \A k \in 1 .. n : F[k] = Step(F[k - 1], k)
    BY <1>2, <1>9
  <1> QED
    BY <1>1, <1>10 DEF init, n, Step

(* The plans made so far.                                                  *)
PlanOf(p, plan, e, T) ==
    LET schedule == Schedule(CopiesForEdge(p, e[1], e[2]))
    IN  /\ plan.predecessor = e[1] /\ plan.successor = e[2]
        /\ plan.placement = Placement(p, e[1], e[2])
        /\ schedule.temporary_count \in Nat
        /\ \E o \in Nat : /\ plan.moves = ShiftTemporaries(schedule.moves, o)
                          /\ o + schedule.temporary_count <= T

(* The plans of the first k edges have been made.                          *)
PlansMade(p, k, state) ==
    /\ state.temporary_count \in Nat
    /\ state.plans = [ j \in 1 .. k |-> state.plans[j] ]
    /\ \A j \in 1 .. k : PlanOf(p, state.plans[j], LogicalSites(p)[j], state.temporary_count)

(* The schedule of an edge in reach performs its copies.                   *)
LEMMA ScheduleOfAnEdge ==
    ASSUME NEW p, IsSsa(p), NEW e \in Sites(p)
    PROVE  /\ Performs(DefinedValues(p), CopiesForEdge(p, e[1], e[2]),
                       Schedule(CopiesForEdge(p, e[1], e[2])).moves,
                       Schedule(CopiesForEdge(p, e[1], e[2])).temporary_count)
           /\ Schedule(CopiesForEdge(p, e[1], e[2])).temporary_count \in Nat
           /\ \A v \in DefinedValues(p) : From(CopiesForEdge(p, e[1], e[2]), v) \in DefinedValues(p)
  <1> PICK copies, V : copies = CopiesForEdge(p, e[1], e[2]) /\ V = DefinedValues(p)
    OBVIOUS
  <1>2. /\ IsCopyList(copies)
        /\ \A i \in DOMAIN copies : copies[i].destination \in V /\ copies[i].source \in V
        /\ \A v : From(copies, v) = PhiSource(p, e[1], e[2], v)
        /\ \A v \in V : PhiSource(p, e[1], e[2], v) \in V
    BY CopiesOfAnEdge DEF Sites
  <1>4. Performs(V, copies, Schedule(copies).moves, Schedule(copies).temporary_count)
    BY <1>2, SchedulePerforms DEF IsSsa
  <1> QED
    BY <1>2, <1>4 DEF Performs

(* The plan of one more edge, with its temporaries counted.                *)
LEMMA AddPlanKeeps ==
    ASSUME NEW p, IsSsa(p), NEW k \in Nat, NEW e \in Sites(p), e = LogicalSites(p)[k + 1],
           NEW state, PlansMade(p, k, state)
    PROVE  PlansMade(p, k + 1, AddPlan(p, state, e))
  <1> DEFINE schedule == Schedule(CopiesForEdge(p, e[1], e[2]))
             plan == [ predecessor |-> e[1], successor |-> e[2],
                       placement   |-> Placement(p, e[1], e[2]),
                       moves       |-> ShiftTemporaries(schedule.moves, state.temporary_count) ]
             plans == state.plans
             t == state.temporary_count
             after == AddPlan(p, state, e)
             T == t + schedule.temporary_count
  <1>1. after.temporary_count = T /\ after.plans = Append(plans, plan)
    BY DEF AddPlan
  <1>2. schedule.temporary_count \in Nat
    BY ScheduleOfAnEdge
  <1>3. /\ t \in Nat /\ plans = [ j \in 1 .. k |-> plans[j] ]
        /\ \A j \in 1 .. k : PlanOf(p, plans[j], LogicalSites(p)[j], t)
    BY DEF PlansMade
  <1>4. PlanOf(p, plan, e, T)
    <2>1. /\ plan.predecessor = e[1] /\ plan.successor = e[2]
          /\ plan.placement = Placement(p, e[1], e[2])
          /\ plan.moves = ShiftTemporaries(schedule.moves, t)
      OBVIOUS
    <2> HIDE DEF plan, t
    <2> QED
      BY <1>2, <1>3, <2>1 DEF PlanOf
  <1> HIDE DEF plan, plans, t, after
  <1>5. T \in Nat /\ t <= T
    BY <1>2, <1>3
  <1>6. ASSUME NEW j \in 1 .. k
        PROVE  PlanOf(p, plans[j], LogicalSites(p)[j], T)
    <2> DEFINE d == LogicalSites(p)[j]
               other == Schedule(CopiesForEdge(p, d[1], d[2]))
    <2>1. /\ plans[j].predecessor = d[1] /\ plans[j].successor = d[2]
          /\ plans[j].placement = Placement(p, d[1], d[2])
          /\ other.temporary_count \in Nat
          /\ \E o \in Nat : /\ plans[j].moves = ShiftTemporaries(other.moves, o)
                            /\ o + other.temporary_count <= t
      BY <1>3 DEF PlanOf
    <2>3. PICK o \in Nat : /\ plans[j].moves = ShiftTemporaries(other.moves, o)
                           /\ o + other.temporary_count <= t
      BY <2>1
    <2> HIDE DEF T
    <2> HIDE DEF other, d
    <2> QED
      BY <2>1, <2>3, <1>3, <1>5 DEF PlanOf, d, other
  <1>7. after.plans = [ j \in 1 .. k + 1 |-> IF j = k + 1 THEN plan ELSE plans[j] ]
    <2> DEFINE X == { plans[j] : j \in 1 .. k } \cup {plan}
    <2>1. plans \in [1 .. k -> X] /\ plan \in X
      <3> HIDE DEF X
      <3> QED
        BY <1>3 DEF X
    <2> HIDE DEF X
    <2>2. plans \in Seq(X) /\ Len(plans) = k
      BY <2>1
    <2> DEFINE s == Append(plans, plan)
    <2>3. Len(s) = k + 1 /\ s \in Seq(X) /\ s[k + 1] = plan
      BY <2>1, <2>2
    <2>4. \A j \in 1 .. k : s[j] = plans[j]
      BY <2>1, <2>2
    <2> HIDE DEF s
    <2>7. s = [ j \in 1 .. k + 1 |-> IF j = k + 1 THEN plan ELSE plans[j] ]
      BY <2>3, <2>4
    <2> QED
      BY <1>1, <2>7 DEF s
  <1>8. ASSUME NEW j \in 1 .. k + 1
        PROVE  PlanOf(p, after.plans[j], LogicalSites(p)[j], after.temporary_count)
    BY <1>1, <1>4, <1>7, <1>6
  <1> HIDE DEF T
  <1> QED
    BY <1>8, <1>7, <1>1, <1>5 DEF after, PlansMade

(* The plans of an SSA program and their temporaries.                      *)
IsPlanned(p, T, plans) ==
    LET R == ReachableFrom(p.succ, p.start)
        V == DefinedValues(p)
    IN  /\ T \in Nat /\ Len(plans) \in Nat /\ DOMAIN plans = 1 .. Len(plans)
        /\ \A k \in 1 .. Len(plans) :
               LET b == plans[k].predecessor
                   s == plans[k].successor
               IN  /\ <<b, s>> \in Sites(p) /\ plans[k].placement = Placement(p, b, s)
                   /\ Carries(V, CopiesForEdge(p, b, s), plans[k].moves, Locations(V, T))
        /\ \A e \in Sites(p) : \E k \in 1 .. Len(plans) :
               plans[k].predecessor = e[1] /\ plans[k].successor = e[2]

(* destroy_ssa makes one plan per edge with copies, and enough temporaries *)
(* for each.                                                               *)
LEMMA SitesArePlanned ==
    ASSUME NEW p, IsSsa(p)
    PROVE  IsPlanned(p, LoweringPlans(p).temporary_count, LoweringPlans(p).plans)
  <1> DEFINE sites == LogicalSites(p)
             N == Len(sites)
             A(k) == AfterSites(p)[k]
             Good == { k \in Nat : PlansMade(p, k, A(k)) }
  <1>1. Lists(sites, Sites(p))
    BY LogicalSitesLists
  <1>2. N \in Nat /\ \A k \in 1 .. N : sites[k] \in Sites(p)
    BY <1>1 DEF Lists
  <1>3. /\ A(0) = [temporary_count |-> 0, plans |-> << >>]
        /\ \A k \in 1 .. N : A(k) = AddPlan(p, A(k - 1), sites[k])
    BY <1>2, PlansUnfold
  <1> HIDE DEF A
  <1>4. 0 \in Good
    BY <1>3 DEF PlansMade
  <1>5. ASSUME NEW k \in 1 .. N, k - 1 \in Good
        PROVE  k \in Good
    <2>2. PlansMade(p, k - 1, A(k - 1)) /\ sites[k] \in Sites(p)
      BY <1>2, <1>5
    <2>3. PICK e \in Sites(p) : e = sites[k]
      BY <2>2
    <2> QED
      BY <1>3, <1>2, <2>3, <2>2, AddPlanKeeps
  <1> HIDE DEF Good
  <1>6. \A k \in 0 .. N : k \in Good
    BY <1>2, <1>4, <1>5, BoundedInduction
  <1>9. LoweringPlans(p) = A(N)
    BY DEF LoweringPlans, A
  <1> DEFINE T == A(N).temporary_count
             plans == A(N).plans
  <1>10. /\ T \in Nat /\ plans = [ j \in 1 .. N |-> plans[j] ]
         /\ \A j \in 1 .. N : PlanOf(p, plans[j], sites[j], T)
    BY <1>6, <1>2 DEF PlansMade, Good
  <1> HIDE DEF T, plans, sites
  <1>12. ASSUME NEW k \in 1 .. N
         PROVE  /\ plans[k].predecessor = sites[k][1] /\ plans[k].successor = sites[k][2]
                /\ plans[k].placement = Placement(p, sites[k][1], sites[k][2])
                /\ Carries(DefinedValues(p), CopiesForEdge(p, sites[k][1], sites[k][2]),
                           plans[k].moves, Locations(DefinedValues(p), T))
    <2>1. PICK e \in Sites(p) : e = sites[k]
      BY <1>2
    <2> DEFINE copies == CopiesForEdge(p, e[1], e[2])
    <2>2. /\ plans[k].predecessor = e[1] /\ plans[k].successor = e[2]
          /\ plans[k].placement = Placement(p, e[1], e[2])
          /\ \E o \in Nat : /\ plans[k].moves = ShiftTemporaries(Schedule(copies).moves, o)
                            /\ o + Schedule(copies).temporary_count <= T
      BY <1>10, <2>1 DEF PlanOf
    <2>3. PICK o \in Nat : /\ plans[k].moves = ShiftTemporaries(Schedule(copies).moves, o)
                           /\ o + Schedule(copies).temporary_count <= T
      BY <2>2
    <2> HIDE DEF copies
    <2> QED
      BY <2>1, <2>2, <2>3, <1>10, ScheduleOfAnEdge, ShiftedMovesCarry DEF copies
  <1>13. \A k \in 1 .. N : <<plans[k].predecessor, plans[k].successor>> \in Sites(p)
    <2> TAKE k \in 1 .. N
    <2> QED
      BY <1>12, <1>2 DEF Sites
  <1>14. \A e \in Sites(p) : \E k \in 1 .. N : plans[k].predecessor = e[1] /\ plans[k].successor = e[2]
    BY <1>1, <1>12, SMTT(30) DEF Lists
  <1> QED
    BY <1>9, <1>2, <1>10, <1>12, <1>13, <1>14 DEF T, plans, IsPlanned
-----------------------------------------------------------------------------
(* The split blocks of destroy_ssa.                                        *)
Occurs(s, x) == \E j \in 1 .. Len(s) : s[j] = x

(* Where a member of joined sequences comes from.                          *)
LEMMA OccursInJoined ==
    ASSUME NEW X, NEW q \in Seq(X), NEW t \in Seq(X)
    PROVE  q \o t \in Seq(X) /\ \A x : Occurs(q \o t, x) <=> Occurs(q, x) \/ Occurs(t, x)
  <1> DEFINE c == q \o t
             m == Len(q)
             n == Len(t)
  <1>1. Joined(X, c, q, m, t, n)
    BY ConcatFacts
  <1> HIDE DEF c, m, n
  <1>2. /\ c \in Seq(X) /\ \A i \in 1 .. m : i \in 1 .. Len(c) /\ c[i] = q[i]
        /\ \A i \in 1 .. n : m + i \in 1 .. Len(c) /\ c[m + i] = t[i]
        /\ \A j \in 1 .. Len(c) : j \in 1 .. m \/ \E i \in 1 .. n : j = m + i
    BY <1>1 DEF Joined
  <1>3. ASSUME NEW x
        PROVE  Occurs(c, x) <=> Occurs(q, x) \/ Occurs(t, x)
    <2>1. ASSUME Occurs(c, x) PROVE Occurs(q, x) \/ Occurs(t, x)
      <3>1. PICK j \in 1 .. Len(c) : c[j] = x
        BY <2>1 DEF Occurs
      <3>2. CASE j \in 1 .. m
        BY <1>2, <3>1, <3>2 DEF Occurs, m
      <3>3. CASE \E i \in 1 .. n : j = m + i
        BY <1>2, <3>1, <3>3 DEF Occurs, n
      <3> QED
        BY <1>2, <3>2, <3>3
    <2>2. ASSUME Occurs(q, x) PROVE Occurs(c, x)
      BY <1>2, <2>2 DEF Occurs, m
    <2>3. ASSUME Occurs(t, x) PROVE Occurs(c, x)
      BY <1>2, <2>3 DEF Occurs, n
    <2> QED
      BY <2>1, <2>2, <2>3
  <1> QED
    BY <1>2, <1>3 DEF c

(* The members of a flattened sequence are those of its parts.             *)
LEMMA FlattenFacts ==
    ASSUME NEW X, NEW n \in Nat, NEW seqs, seqs = [ k \in 1 .. n |-> seqs[k] ],
           \A k \in 1 .. n : seqs[k] \in Seq(X)
    PROVE  /\ FlattenSeq(seqs) \in Seq(X)
           /\ \A x : Occurs(FlattenSeq(seqs), x) <=> \E k \in 1 .. n : Occurs(seqs[k], x)
  <1>1. Len(seqs) = n
    BY LenProperties
  <1>2. CASE n = 0
    BY <1>1, <1>2 DEF FlattenSeq, Occurs
  <1>3. CASE n # 0
    <2> DEFINE V == Seq(X)
               Steps(f) == [ i \in 1 .. n |-> IF i = 1 THEN seqs[i] ELSE f[i - 1] \o seqs[i] ]
               F == CHOOSE f : f = Steps(f)
               step == [ k \in 1 .. n |-> [ s \in V |-> s \o seqs[k] ] ]
    <2>1. FlattenSeq(seqs) = F[n]
      BY <1>1, <1>3 DEF FlattenSeq
    <2>2. step \in [1 .. n -> [V -> V]]
      OBVIOUS
    <2>3. PICK g \in [0 .. n -> V] : g[0] = << >> /\ \A k \in 1 .. n : g[k] = step[k][g[k - 1]]
      <3>1. << >> \in V
        OBVIOUS
      <3> HIDE DEF V, step, Steps, F
      <3>2. PICK W, b, t : W = V /\ b = << >> /\ t = step
        OBVIOUS
      <3>3. b \in W /\ t \in [1 .. n -> [W -> W]]
        BY <2>2, <3>1, <3>2
      <3>4. \E g \in [0 .. n -> W] : g[0] = b /\ \A k \in 1 .. n : g[k] = t[k][g[k - 1]]
        BY <3>3, Recursion
      <3> QED
        BY <3>2, <3>4
    <2>4. \A k \in 1 .. n : g[k - 1] \in V /\ g[k] = g[k - 1] \o seqs[k]
      <3> TAKE k \in 1 .. n
      <3>2. g[k - 1] \in V
        OBVIOUS
      <3> QED
        BY <2>3, <3>2
    <2> HIDE DEF step, V
    <2> DEFINE h == [ i \in 1 .. n |-> g[i] ]
    <2>5. \A i \in 1 .. n : h[i] = IF i = 1 THEN seqs[i] ELSE h[i - 1] \o seqs[i]
      <3> TAKE i \in 1 .. n
      <3>1. CASE i = 1
        <4>1. i \in 1 .. n /\ i - 1 = 0 /\ h[i] = g[i]
          BY <3>1
        <4>3. << >> \o seqs[i] = seqs[i]
          BY <4>1
        <4> QED
          BY <3>1, <4>1, <2>3, <2>4, <4>3
      <3>2. CASE i # 1
        BY ONLY <2>4, <3>2
      <3> QED
        BY <3>1, <3>2
    <2> HIDE DEF h, Steps
    <2>7. F = Steps(F)
      BY <2>5
    <2> HIDE DEF F
    <2>8. \A i \in 1 .. n : F[i] = IF i = 1 THEN seqs[i] ELSE F[i - 1] \o seqs[i]
      BY <2>7 DEF Steps
    <2> DEFINE Right(i) == /\ F[i] \in Seq(X)
                           /\ \A x : Occurs(F[i], x) <=> \E k \in 1 .. i : Occurs(seqs[k], x)
               Good == { i \in Nat : i = 0 \/ Right(i) }
    <2>9. ASSUME NEW i \in 1 .. n, i - 1 \in Good
          PROVE  i \in Good
      <3>1. CASE i = 1
        BY <2>8, <3>1
      <3>2. CASE i # 1
        <4>0. i - 1 # 0 /\ i # 1 /\ i \in Nat
          BY <3>2
        <4>1. F[i] = F[i - 1] \o seqs[i] /\ seqs[i] \in Seq(X) /\ Right(i - 1)
          BY <2>9, <4>0, <2>8
        <4>2. F[i] \in Seq(X) /\ \A x : Occurs(F[i], x) <=> Occurs(F[i - 1], x) \/ Occurs(seqs[i], x)
          BY <4>1, OccursInJoined
        <4>3. \A x : (\E k \in 1 .. i : Occurs(seqs[k], x))
                     <=> (\E k \in 1 .. i - 1 : Occurs(seqs[k], x)) \/ Occurs(seqs[i], x)
          <5>1. \A k : k \in 1 .. i <=> k \in 1 .. i - 1 \/ k = i
            OBVIOUS
          <5> QED
            BY <5>1
        <4>4. Right(i)
          BY <4>1, <4>2, <4>3
        <4> QED
          BY <4>4
      <3> QED
        BY <3>1, <3>2
    <2> HIDE DEF Good
    <2>14. n \in Good
      BY <2>9, BoundedInduction
    <2> QED
      BY <2>1, <1>3, <2>14 DEF Good
  <1> QED
    BY <1>2, <1>3

(* Arcs in the order of their places in the list of successors.            *)
ByArc(S) == InOrder(S, LAMBDA a, b : a[2] < b[2])

(* They are listed once each.                                              *)
LEMMA ByArcLists ==
    ASSUME NEW S, IsFiniteSet(S), \A a \in S : a[2] \in Nat,
           \A a, b \in S : a[2] = b[2] => a = b
    PROVE  Lists(ByArc(S), S)
  <1> DEFINE R == { e \in S \X S : e[1][2] < e[2][2] }
  <1>1. StrictlyOrders(R, S)
    <2>1. \A e, f \in S : <<e, f>> \in R <=> e[2] < f[2]
      OBVIOUS
    <2> HIDE DEF R
    <2> QED
      BY <2>1 DEF StrictlyOrders
  <1> DEFINE place(e) == Cardinality({ f \in S : f[2] < e[2] })
             s == ByArc(S)
             n == Cardinality(S)
  <1>2. \A e \in S : place(e) = Cardinality(Before(R, S, e))
    BY DEF Before
  <1>3. s = [ k \in 1 .. n |-> CHOOSE e \in S : place(e) = k - 1 ]
    BY DEF ByArc, InOrder
  <1> HIDE DEF s, place, R, n
  <1>4. ASSUME NEW k \in 1 .. n, \E e \in S : Cardinality(Before(R, S, e)) = k - 1
        PROVE  s[k] \in S /\ Cardinality(Before(R, S, s[k])) = k - 1
    BY <1>3, <1>2, <1>4
  <1> QED
    BY <1>1, <1>3, <1>4, ListedByFacts DEF s, ListedBy, n

(* The arcs of an edge that is split: its places in the successor list.    *)
ArcSet(p, plan) ==
    { <<plan.predecessor, i>> : i \in { j \in DOMAIN p.succ[plan.predecessor] :
                                          p.succ[plan.predecessor][j] = plan.successor } }

(* The arcs a split plan redirects, one per occurrence of the successor.   *)
PlanArcs(p, plan) ==
    IF plan.placement # "split_blocks" THEN << >> ELSE ByArc(ArcSet(p, plan))

(* They are the occurrences of the edge.                                   *)
LEMMA PlanArcsFacts ==
    ASSUME NEW p, NEW plan, plan.predecessor \in Nat,
           DOMAIN p.succ[plan.predecessor] = 1 .. Len(p.succ[plan.predecessor]),
           Len(p.succ[plan.predecessor]) \in Nat
    PROVE  /\ PlanArcs(p, plan) \in Seq(Nat \X Nat)
           /\ \A x : Occurs(PlanArcs(p, plan), x) <=>
                  plan.placement = "split_blocks" /\ x \in ArcSet(p, plan)
  <1>1. CASE plan.placement # "split_blocks"
    BY <1>1 DEF PlanArcs, Occurs
  <1>2. CASE plan.placement = "split_blocks"
    <2> DEFINE b == plan.predecessor
               n == Len(p.succ[b])
               I == { j \in DOMAIN p.succ[b] : p.succ[b][j] = plan.successor }
               S == ArcSet(p, plan)
    <2>2. S = { <<b, i>> : i \in I }
      BY DEF ArcSet
    <2>3. I \subseteq 1 .. n /\ n \in Nat /\ b \in Nat
      OBVIOUS
    <2> HIDE DEF I, n, b, S
    <2>4. /\ S \subseteq Nat \X Nat /\ \A a \in S : a[2] \in Nat
          /\ \A a, c \in S : a[2] = c[2] => a = c
      <3>1. ASSUME NEW a \in S
            PROVE  a[2] \in Nat /\ a = <<b, a[2]>>
        <4>1. PICK i \in I : a = <<b, i>>
          BY ONLY <2>2, a \in S
        <4> QED
          BY ONLY <4>1, <2>3, i \in I
      <3> QED
        BY ONLY <3>1, <2>3
    <2>5. IsFiniteSet(S)
      <3>1. IsFiniteSet(1 .. n)
        BY <2>3, FS_Interval
      <3> DEFINE f == [ a \in S |-> a[2] ]
      <3>2. f \in [S -> 1 .. n] /\ \A a, c \in S : f[a] = f[c] => a = c
        BY ONLY <2>2, <2>3, <2>4
      <3> HIDE DEF f
      <3> QED
        BY <3>1, <3>2, DomainIsSmall
    <2> DEFINE s == ByArc(S)
    <2>7. /\ s \in Seq(S) /\ \A e \in S : \E i \in 1 .. Len(s) : s[i] = e
      BY <2>4, <2>5, ByArcLists DEF Lists
    <2> HIDE DEF s
    <2>10. \A x : Occurs(s, x) <=> x \in S
      BY <2>7 DEF Occurs
    <2> QED
      BY <1>2, <2>4, <2>7, <2>10 DEF s, S, PlanArcs
  <1> QED
    BY <1>1, <1>2

(* An edge with copies whose predecessor and successor have others.        *)
IsSplit(p, b, s) == <<b, s>> \in Sites(p) /\ Placement(p, b, s) = "split_blocks"

(* The list of split arcs holds each occurrence of a split edge once.      *)
ArcsCover(p, arcs) ==
    /\ Len(arcs) \in Nat /\ DOMAIN arcs = 1 .. Len(arcs)
    /\ \A j \in 1 .. Len(arcs) :
           /\ arcs[j] = <<arcs[j][1], arcs[j][2]>>
           /\ arcs[j][1] \in ReachableFrom(p.succ, p.start)
           /\ arcs[j][2] \in DOMAIN p.succ[arcs[j][1]]
           /\ IsSplit(p, arcs[j][1], p.succ[arcs[j][1]][arcs[j][2]])
    /\ \A b \in ReachableFrom(p.succ, p.start) : \A i \in DOMAIN p.succ[b] :
           IsSplit(p, b, p.succ[b][i]) => \E j \in 1 .. Len(arcs) : arcs[j] = <<b, i>>

(* SplitArcs makes such a list.                                            *)
LEMMA SplitArcsCover ==
    ASSUME NEW p, IsSsa(p), NEW T, NEW plans, IsPlanned(p, T, plans)
    PROVE  ArcsCover(p, SplitArcs(p, plans))
  <1> DEFINE n == Len(plans)
             seqs == [ k \in DOMAIN plans |-> PlanArcs(p, plans[k]) ]
             R == ReachableFrom(p.succ, p.start)
             arcs == SplitArcs(p, plans)
  <1>1. SplitArcs(p, plans) = FlattenSeq(seqs)
    BY DEF SplitArcs, PlanArcs, ByArc, ArcSet
  <1>2. /\ n \in Nat /\ DOMAIN plans = 1 .. n
        /\ \A k \in 1 .. n : /\ <<plans[k].predecessor, plans[k].successor>> \in Sites(p)
                             /\ plans[k].placement = Placement(p, plans[k].predecessor, plans[k].successor)
        /\ \A e \in Sites(p) : \E k \in 1 .. n :
               plans[k].predecessor = e[1] /\ plans[k].successor = e[2]
    BY DEF IsPlanned
  <1>3. R \subseteq Nat /\ R \subseteq Blocks(p.succ)
    BY SsaBlocks
  <1>4. \A b \in R : DOMAIN p.succ[b] = 1 .. Len(p.succ[b]) /\ Len(p.succ[b]) \in Nat
    BY <1>3 DEF IsSsa
  <1>5. \A b, s : <<b, s>> \in Sites(p) => b \in R
    BY DEF Sites
  <1>6. seqs = [ k \in 1 .. n |-> seqs[k] ] /\ \A k \in 1 .. n : seqs[k] = PlanArcs(p, plans[k])
    BY <1>2
  <1> HIDE DEF seqs, n, R, arcs
  <1>7. ASSUME NEW k \in 1 .. n
        PROVE  /\ seqs[k] \in Seq(Nat \X Nat)
               /\ \A x : Occurs(seqs[k], x) <=>
                      plans[k].placement = "split_blocks" /\ x \in ArcSet(p, plans[k])
    <2> DEFINE b == plans[k].predecessor
    <2>2. b \in Nat /\ DOMAIN p.succ[b] = 1 .. Len(p.succ[b]) /\ Len(p.succ[b]) \in Nat
      BY <1>3, <1>4, <1>2, <1>5
    <2> QED
      BY <1>6, <2>2, PlanArcsFacts
  <1>8. /\ arcs \in Seq(Nat \X Nat)
        /\ \A x : Occurs(arcs, x) <=> \E k \in 1 .. n : Occurs(seqs[k], x)
    <2>1. PICK X : X = Nat \X Nat
      OBVIOUS
    <2>3. /\ FlattenSeq(seqs) \in Seq(X)
          /\ \A x : Occurs(FlattenSeq(seqs), x) <=> \E k \in 1 .. n : Occurs(seqs[k], x)
      BY <1>2, <1>6, <1>7, <2>1, FlattenFacts
    <2> QED
      BY <1>1, <2>1, <2>3 DEF arcs
  <1>9. ASSUME NEW j \in 1 .. Len(arcs)
        PROVE  /\ arcs[j] = <<arcs[j][1], arcs[j][2]>>
               /\ arcs[j][1] \in R
               /\ arcs[j][2] \in DOMAIN p.succ[arcs[j][1]]
               /\ IsSplit(p, arcs[j][1], p.succ[arcs[j][1]][arcs[j][2]])
    <2>1. Occurs(arcs, arcs[j])
      BY DEF Occurs
    <2>2. PICK k \in 1 .. n : plans[k].placement = "split_blocks" /\ arcs[j] \in ArcSet(p, plans[k])
      BY <1>7, <1>8, <2>1
    <2> DEFINE b == plans[k].predecessor
               s == plans[k].successor
    <2>3. PICK i \in DOMAIN p.succ[b] : p.succ[b][i] = s /\ arcs[j] = <<b, i>>
      BY <2>2 DEF ArcSet
    <2>4. <<b, s>> \in Sites(p) /\ Placement(p, b, s) = "split_blocks"
      BY <1>2, <2>2
    <2> HIDE DEF b, s
    <2> QED
      BY <2>3, <2>4, <1>5 DEF IsSplit
  <1>10. ASSUME NEW b \in R, NEW i \in DOMAIN p.succ[b], IsSplit(p, b, p.succ[b][i])
         PROVE  \E j \in 1 .. Len(arcs) : arcs[j] = <<b, i>>
    <2> DEFINE s == p.succ[b][i]
    <2>1. <<b, s>> \in Sites(p) /\ Placement(p, b, s) = "split_blocks"
      BY <1>10 DEF IsSplit
    <2>2. PICK k \in 1 .. n : plans[k].predecessor = b /\ plans[k].successor = s
      <3>1. PICK e \in Sites(p) : e = <<b, s>>
        BY <2>1
      <3> HIDE DEF s
      <3> QED
        BY <1>2, <3>1
    <2>4. plans[k].placement = "split_blocks"
      BY <1>2, <2>1, <2>2
    <2> QED
      BY <1>7, <1>8, <2>2, <2>4 DEF Occurs, ArcSet
  <1> QED
    BY <1>9, <1>10, <1>8 DEF ArcsCover, arcs, R
-----------------------------------------------------------------------------
(* The blocks of a lowered program and their moves.                        *)
LEMMA MovesAreOfAPlan ==
    ASSUME NEW n \in Nat, NEW plans, NEW chosen, chosen \subseteq 1 .. n
    PROVE  \/ chosen = {} /\ MovesOf(plans, chosen) = << >>
           \/ \E k \in chosen : MovesOf(plans, chosen) = plans[k].moves
  <1>1. CASE chosen = {}
    BY <1>1 DEF MovesOf
  <1>2. CASE chosen # {}
    <2>1. chosen \subseteq 0 .. n
      OBVIOUS
    <2> DEFINE k == CHOOSE k \in chosen : \A j \in chosen : j <= k
    <2>3. k \in chosen
      BY <1>2, <2>1, GreatestBelow
    <2>4. MovesOf(plans, chosen) = plans[k].moves
      BY <1>2 DEF MovesOf
    <2> HIDE DEF k
    <2> QED
      BY <2>3, <2>4
  <1> QED
    BY <1>1, <1>2

(* The plans placed at the entry of a block.                               *)
PlansTo(plans, s) == { k \in PlansAt(plans, "successor_entry") : plans[k].successor = s }

(* The plans placed at the exit of a block.                                *)
PlansFrom(plans, b) == { k \in PlansAt(plans, "predecessor_exit") : plans[k].predecessor = b }

(* The plans of one edge that are split.                                   *)
PlansOn(plans, b, s) ==
    { k \in PlansAt(plans, "split_blocks") : plans[k].predecessor = b /\ plans[k].successor = s }

(* The number of blocks before the split blocks are added.                 *)
BlockCount(p) == Cardinality(Blocks(p.succ))

(* The split blocks that stand for occurrence i of the successors of b.    *)
SplitBlocks(p, arcs, b, i) ==
    { BlockCount(p) + k - 1 : k \in { j \in DOMAIN arcs : arcs[j] = <<b, i>> } }

(* Where an occurrence of an edge leads in the lowered program.            *)
ArcTarget(p, arcs, t) ==
    p.succ[arcs[t - BlockCount(p) + 1][1]][arcs[t - BlockCount(p) + 1][2]]

(* out is p lowered with these plans and split arcs.                       *)
IsLowered(p, T, plans, arcs, out) ==
    LET n   == BlockCount(p)
        all == 0 .. n + Len(arcs) - 1
    IN  /\ out.original_count = n /\ out.temporary_count = T
        /\ DOMAIN out.succ = all
        /\ \A b \in all :
               /\ b >= n => /\ out.succ[b] = <<ArcTarget(p, arcs, b)>>
                            /\ out.entry_moves[b] = MovesOf(plans,
                                   PlansOn(plans, arcs[b - n + 1][1], ArcTarget(p, arcs, b)))
                            /\ out.exit_moves[b] = << >> /\ out.instructions[b] = << >>
               /\ b < n => /\ DOMAIN out.succ[b] = DOMAIN p.succ[b]
                           /\ \A i \in DOMAIN p.succ[b] :
                                  out.succ[b][i] = IF SplitBlocks(p, arcs, b, i) = {} THEN p.succ[b][i]
                                                   ELSE CHOOSE s \in SplitBlocks(p, arcs, b, i) : TRUE
                           /\ out.entry_moves[b] = MovesOf(plans, PlansTo(plans, b))
                           /\ out.exit_moves[b] = MovesOf(plans, PlansFrom(plans, b))
                           /\ out.instructions[b] = p.instructions[b]

(* What DestroySsa makes.                                                  *)
LEMMA DestroyedIsLowered ==
    ASSUME NEW p, NEW T, T = LoweringPlans(p).temporary_count, NEW plans, plans = LoweringPlans(p).plans,
           NEW arcs, arcs = SplitArcs(p, plans), BlockCount(p) \in Nat, Len(arcs) \in Nat
    PROVE  IsLowered(p, T, plans, arcs, DestroySsa(p))
  <1> DEFINE n == Cardinality(Blocks(p.succ))
             out == DestroySsa(p)
             all == 0 .. n + Len(arcs) - 1
  <1>1. n = BlockCount(p) /\ n \in Nat
    BY DEF BlockCount
  <1>2. /\ out.original_count = n /\ out.temporary_count = T
        /\ DOMAIN out.succ = all
    BY DEF DestroySsa
  <1>5. out.entry_moves = [ b \in all |->
                            IF b < n THEN MovesOf(plans, PlansTo(plans, b))
                            ELSE MovesOf(plans, PlansOn(plans, arcs[b - n + 1][1], ArcTarget(p, arcs, b))) ]
    BY DEF DestroySsa, PlansOn, PlansTo, ArcTarget, BlockCount
  <1>3. ASSUME NEW b \in all, b >= n
        PROVE  /\ out.succ[b] = <<ArcTarget(p, arcs, b)>>
               /\ out.entry_moves[b] = MovesOf(plans,
                      PlansOn(plans, arcs[b - n + 1][1], ArcTarget(p, arcs, b)))
               /\ out.exit_moves[b] = << >> /\ out.instructions[b] = << >>
    <2>1. ~(b < n)
      BY <1>1, <1>3
    <2>4. out.entry_moves[b] = MovesOf(plans,
                      PlansOn(plans, arcs[b - n + 1][1], ArcTarget(p, arcs, b)))
      <3> HIDE DEF out, n
      <3> QED
        BY <1>5, <2>1
    <2> QED
      BY <1>3, <2>4 DEF DestroySsa, ArcTarget, BlockCount
  <1>4. ASSUME NEW b \in all, b < n
        PROVE  /\ DOMAIN out.succ[b] = DOMAIN p.succ[b]
               /\ \A i \in DOMAIN p.succ[b] :
                      out.succ[b][i] = IF SplitBlocks(p, arcs, b, i) = {} THEN p.succ[b][i]
                                       ELSE CHOOSE s \in SplitBlocks(p, arcs, b, i) : TRUE
               /\ out.entry_moves[b] = MovesOf(plans, PlansTo(plans, b))
               /\ out.exit_moves[b] = MovesOf(plans, PlansFrom(plans, b))
               /\ out.instructions[b] = p.instructions[b]
    <2>1. ~(b >= n)
      BY <1>1, <1>4
    <2>2. out.succ[b] = [ i \in DOMAIN p.succ[b] |->
                                IF SplitBlocks(p, arcs, b, i) = {} THEN p.succ[b][i]
                                ELSE CHOOSE s \in SplitBlocks(p, arcs, b, i) : TRUE ]
      BY <2>1 DEF DestroySsa, SplitBlocks, BlockCount
    <2>3. out.instructions[b] = p.instructions[b]
      BY <2>1 DEF DestroySsa
    <2>4. out.entry_moves[b] = MovesOf(plans, PlansTo(plans, b))
      <3> HIDE DEF out, n
      <3> QED
        BY <1>4, <1>5
    <2>5. out.exit_moves[b] = MovesOf(plans, PlansFrom(plans, b))
      BY <2>1 DEF DestroySsa, PlansFrom
    <2> HIDE DEF out
    <2> QED
      BY <2>2, <2>3, <2>4, <2>5
  <1> HIDE DEF out, n
  <1> QED
    BY <1>1, <1>2, <1>3, <1>4 DEF IsLowered, out

(* What a plan does to the contents of the values.                         *)
EdgeCarried(p, T, b, s, moves) ==
    Carries(DefinedValues(p), CopiesForEdge(p, b, s), moves, Locations(DefinedValues(p), T))

(* An edge without copies needs no moves.                                  *)
LEMMA NoCopiesCarry ==
    ASSUME NEW p, NEW T, NEW b, NEW s, CopiesForEdge(p, b, s) = << >>
    PROVE  EdgeCarried(p, T, b, s, << >>)
  <1> PICK V, L : V = DefinedValues(p) /\ L = Locations(DefinedValues(p), T)
    OBVIOUS
  <1> DEFINE M == [destination : L, source : L]
  <1>3. << >> \in Seq(M)
    <2> HIDE DEF M
    <2> QED
      OBVIOUS
  <1> QED
    BY <1>3 DEF EdgeCarried, Carries, M, From

(* The plan of an edge, if it has copies, carries them.                    *)
LEMMA MovesOfAnEdge ==
    ASSUME NEW p, NEW T, NEW plans, IsPlanned(p, T, plans), NEW b, NEW s,
           NEW chosen, chosen \subseteq DOMAIN plans,
           \A k \in chosen : plans[k].predecessor = b /\ plans[k].successor = s,
           chosen # {} \/ CopiesForEdge(p, b, s) = << >>
    PROVE  EdgeCarried(p, T, b, s, MovesOf(plans, chosen))
  <1>1. Len(plans) \in Nat /\ DOMAIN plans = 1 .. Len(plans)
    BY DEF IsPlanned
  <1>2. \A k \in chosen : EdgeCarried(p, T, b, s, plans[k].moves)
    <2> TAKE k \in chosen
    <2> QED
      BY <1>1 DEF IsPlanned, EdgeCarried
  <1>4. CASE chosen = {} /\ MovesOf(plans, chosen) = << >>
    BY <1>4, NoCopiesCarry
  <1>5. CASE \E k \in chosen : MovesOf(plans, chosen) = plans[k].moves
    BY <1>2, <1>5
  <1> QED
    BY <1>1, MovesAreOfAPlan, <1>4, <1>5

(* A plan is placed where no other edge can run its moves: an entry with   *)
(* one predecessor, an exit with one successor, or a split block.          *)
LEMMA PlacementFacts ==
    ASSUME NEW p, IsSsa(p),
           NEW b \in ReachableFrom(p.succ, p.start), NEW s \in Targets(p.succ, b)
    PROVE  LET R == ReachableFrom(p.succ, p.start)
           IN  /\ s \in R /\ b \in UniquePredecessors(p.succ, R, s)
               /\ Placement(p, b, s) \in {"predecessor_exit", "successor_entry", "split_blocks"}
               /\ Placement(p, b, s) = "predecessor_exit" =>
                      \A t \in Targets(p.succ, b) : t = s
               /\ Placement(p, b, s) = "successor_entry" =>
                      \A q \in UniquePredecessors(p.succ, R, s) : q = b
               /\ \A t \in Targets(p.succ, b) :
                      Placement(p, b, s) = "predecessor_exit" => Placement(p, b, t) = "predecessor_exit"
               /\ \A t \in Targets(p.succ, b) :
                      Placement(p, b, t) = "predecessor_exit" => Placement(p, b, s) = "predecessor_exit"
  <1> DEFINE R == ReachableFrom(p.succ, p.start)
             X == UniqueSuccessors(p.succ, R, b)
             Y == UniquePredecessors(p.succ, R, s)
  <1>1. /\ IsFiniteSet(R) /\ X = Targets(p.succ, b) /\ s \in R /\ b \in Y
        /\ Y \subseteq R /\ X \subseteq R
    BY SsaBlocks
  <1>2. IsFiniteSet(X) /\ IsFiniteSet(Y)
    BY <1>1, FS_Subset
  <1>3. Cardinality(X) = 1 => \A t \in X : t = s
    <2> HIDE DEF X
    <2> QED
      BY <1>2, <1>1, FS_Singleton
  <1>4. Cardinality(Y) = 1 => \A q \in Y : q = b
    <2> HIDE DEF Y
    <2> QED
      BY <1>1, <1>2, FS_Singleton
  <1>5. Placement(p, b, s) = IF Cardinality(X) = 1 THEN "predecessor_exit"
                             ELSE IF Cardinality(Y) = 1 THEN "successor_entry" ELSE "split_blocks"
    BY DEF Placement
  <1> HIDE DEF X, Y, R
  <1> QED
    BY <1>1, <1>3, <1>4, <1>5 DEF R, Y, Placement

(* The moves of an edge: at the end of its predecessor, at the start of    *)
(* its successor, or in blocks of their own.                               *)
EdgeMoves(p, out, b, s) ==
    \/ /\ ~IsSplit(p, b, s) /\ out.entry_moves[s] = << >>
       /\ EdgeCarried(p, out.temporary_count, b, s, out.exit_moves[b])
    \/ /\ ~IsSplit(p, b, s) /\ out.exit_moves[b] = << >>
       /\ EdgeCarried(p, out.temporary_count, b, s, out.entry_moves[s])
    \/ IsSplit(p, b, s) /\ out.exit_moves[b] = << >> /\ out.entry_moves[s] = << >>

(* The moves of an edge in reach are made on the way from one block to the *)
(* other, and no others are.                                               *)
LEMMA EdgesAreServed ==
    ASSUME NEW p, IsSsa(p), NEW T, NEW plans, IsPlanned(p, T, plans),
           NEW arcs, Len(arcs) \in Nat, NEW out, IsLowered(p, T, plans, arcs, out),
           NEW b \in ReachableFrom(p.succ, p.start), NEW s \in Targets(p.succ, b)
    PROVE  EdgeMoves(p, out, b, s)
  <1> DEFINE R == ReachableFrom(p.succ, p.start)
             n == BlockCount(p)
             P(k) == plans[k].predecessor
             S(k) == plans[k].successor
  <1>1. /\ s \in R /\ b \in UniquePredecessors(p.succ, R, s)
        /\ Placement(p, b, s) \in {"predecessor_exit", "successor_entry", "split_blocks"}
        /\ Placement(p, b, s) = "predecessor_exit" =>
               \A t \in Targets(p.succ, b) : t = s
        /\ Placement(p, b, s) = "successor_entry" =>
               \A q \in UniquePredecessors(p.succ, R, s) : q = b
        /\ \A t \in Targets(p.succ, b) :
               Placement(p, b, s) = "predecessor_exit" => Placement(p, b, t) = "predecessor_exit"
        /\ \A t \in Targets(p.succ, b) :
               Placement(p, b, t) = "predecessor_exit" => Placement(p, b, s) = "predecessor_exit"
    BY PlacementFacts
  <1>2. R \subseteq 0 .. n - 1 /\ n \in Nat /\ R \subseteq Nat
    BY SsaBlocks DEF IsSsa, BlockCount
  <1>3. /\ out.entry_moves[s] = MovesOf(plans, PlansTo(plans, s))
        /\ out.exit_moves[b] = MovesOf(plans, PlansFrom(plans, b))
        /\ out.temporary_count = T
    <2>1. /\ b \in 0 .. n + Len(arcs) - 1 /\ s \in 0 .. n + Len(arcs) - 1
          /\ b < n /\ s < n
      BY <1>1, <1>2
    <2> HIDE DEF n
    <2> QED
      BY <2>1 DEF IsLowered, n
  <1>4. /\ Len(plans) \in Nat /\ DOMAIN plans = 1 .. Len(plans)
        /\ \A k \in DOMAIN plans : <<P(k), S(k)>> \in Sites(p) /\ plans[k].placement = Placement(p, P(k), S(k))
        /\ \A e \in Sites(p) : \E k \in DOMAIN plans : P(k) = e[1] /\ S(k) = e[2]
    BY DEF IsPlanned
  <1>5. \A c, d : <<c, d>> \in Sites(p) => /\ c \in R /\ d \in R
                                           /\ c \in UniquePredecessors(p.succ, R, d)
                                           /\ d \in Targets(p.succ, c)
    <2> TAKE c, d
    <2> QED
      BY SsaBlocks DEF Sites
  <1>6. <<b, s>> \in Sites(p) \/ CopiesForEdge(p, b, s) = << >>
    BY <1>1 DEF Sites
  <1>7. <<b, s>> \in Sites(p) => \E k \in DOMAIN plans : P(k) = b /\ S(k) = s
    <2> PICK e : e = <<b, s>>
      OBVIOUS
    <2> HIDE DEF P, S
    <2> QED
      BY <1>4
  <1> HIDE DEF P, S, n, R
  <1>8. PlansTo(plans, s) \subseteq DOMAIN plans /\ PlansFrom(plans, b) \subseteq DOMAIN plans
    BY DEF PlansTo, PlansFrom, PlansAt
  <1>9. /\ \A k \in DOMAIN plans : k \in PlansTo(plans, s) <=>
               S(k) = s /\ Placement(p, P(k), s) = "successor_entry"
        /\ \A k \in DOMAIN plans : k \in PlansFrom(plans, b) <=>
               P(k) = b /\ Placement(p, b, S(k)) = "predecessor_exit"
    BY <1>4 DEF PlansTo, PlansFrom, PlansAt, P, S
  <1>10. \A X : X \subseteq DOMAIN plans /\ X = {} => MovesOf(plans, X) = << >>
    BY DEF MovesOf
  <1>11. Placement(p, b, s) # "predecessor_exit" => out.exit_moves[b] = << >>
    BY <1>8, <1>9, <1>4, <1>5, <1>1, <1>3, <1>10
  <1>12. ASSUME \A q \in UniquePredecessors(p.succ, R, s) : Placement(p, q, s) # "successor_entry"
         PROVE  out.entry_moves[s] = << >>
    BY <1>8, <1>9, <1>4, <1>5, <1>12, <1>3, <1>10
  <1>13. Placement(p, b, s) # "successor_entry" => out.entry_moves[s] = << >>
    BY SsaBlocks, <1>1, PlacementFacts, <1>12 DEF R
  <1>14. CASE Placement(p, b, s) = "predecessor_exit"
    <2>2. \A k \in PlansFrom(plans, b) : P(k) = b /\ S(k) = s
      <3> TAKE k \in PlansFrom(plans, b)
      <3> QED
        BY <1>1, <1>14, <1>8, <1>9, <1>4, <1>5
    <2>4. EdgeCarried(p, T, b, s, MovesOf(plans, PlansFrom(plans, b)))
      BY <1>8, <2>2, <1>6, <1>7, <1>9, <1>14, MovesOfAnEdge DEF P, S
    <2> QED
      BY <1>3, <1>13, <1>14, <2>4 DEF EdgeMoves, IsSplit
  <1>15. CASE Placement(p, b, s) = "successor_entry"
    <2>2. \A k \in PlansTo(plans, s) : P(k) = b /\ S(k) = s
      <3> TAKE k \in PlansTo(plans, s)
      <3> QED
        BY <1>1, <1>15, <1>8, <1>9, <1>4, <1>5
    <2>4. EdgeCarried(p, T, b, s, MovesOf(plans, PlansTo(plans, s)))
      BY <1>8, <2>2, <1>6, <1>7, <1>9, <1>15, MovesOfAnEdge DEF P, S
    <2> QED
      BY <1>3, <1>11, <1>15, <2>4 DEF EdgeMoves, IsSplit
  <1>16. CASE Placement(p, b, s) = "split_blocks"
    BY <1>11, <1>13, <1>16, <1>6, NoCopiesCarry DEF EdgeMoves, IsSplit
  <1> QED
    BY <1>1, <1>14, <1>15, <1>16

(* Control goes from block b to block e when the program goes to s.        *)
Reaches(p, out, b, s, e) ==
    /\ e \in DOMAIN out.succ /\ s \in Targets(p.succ, b)
    /\ \/ e = s /\ e < out.original_count /\ ~IsSplit(p, b, s)
       \/ /\ e >= out.original_count /\ IsSplit(p, b, s) /\ out.succ[e] = <<s>>
          /\ EdgeCarried(p, out.temporary_count, b, s, out.entry_moves[e])
          /\ out.exit_moves[e] = << >> /\ out.instructions[e] = << >>

(* p is an SSA program, and out is p lowered by destroy_ssa.               *)
IsDestroyed(p, T, plans, arcs, out) ==
    /\ IsSsa(p) /\ IsPlanned(p, T, plans) /\ ArcsCover(p, arcs) /\ IsLowered(p, T, plans, arcs, out)

(* destroy_ssa lowers every SSA program.                                   *)
LEMMA DestroyedFacts ==
    ASSUME NEW p, IsSsa(p)
    PROVE  \E T, plans, arcs : /\ arcs = SplitArcs(p, LoweringPlans(p).plans)
                               /\ IsDestroyed(p, T, plans, arcs, DestroySsa(p))
  <1> PICK T, plans, arcs : /\ T = LoweringPlans(p).temporary_count /\ plans = LoweringPlans(p).plans
                            /\ arcs = SplitArcs(p, plans)
    OBVIOUS
  <1> QED
    BY SitesArePlanned, SplitArcsCover, DestroyedIsLowered DEF IsDestroyed, ArcsCover,
       IsSsa, BlockCount

(* A split block stands for one edge, and holds its moves.                 *)
LEMMA SplitBlocksAreReached ==
    ASSUME NEW p, NEW T, NEW plans, NEW arcs, NEW out, IsDestroyed(p, T, plans, arcs, out),
           NEW j \in DOMAIN arcs, NEW b, b = arcs[j][1], NEW s, s = p.succ[b][arcs[j][2]],
           NEW t, t = BlockCount(p) + j - 1
    PROVE  Reaches(p, out, b, s, t)
  <1> DEFINE n == BlockCount(p)
  <1>1. /\ Len(arcs) \in Nat /\ DOMAIN arcs = 1 .. Len(arcs)
        /\ b \in ReachableFrom(p.succ, p.start) /\ arcs[j][2] \in DOMAIN p.succ[b]
        /\ IsSplit(p, b, s)
    BY DEF IsDestroyed, ArcsCover
  <1> HIDE DEF n
  <1>4. t \in 0 .. n + Len(arcs) - 1 /\ t >= n /\ t - n + 1 = j
    BY <1>1 DEF n, IsDestroyed, IsSsa, BlockCount
  <1>7. EdgeCarried(p, T, b, s, MovesOf(plans, PlansOn(plans, b, s)))
    <2> DEFINE X == PlansOn(plans, b, s)
    <2>1. IsPlanned(p, T, plans)
      BY DEF IsDestroyed
    <2>3. X # {}
      <3>1. <<b, s>> \in Sites(p) /\ Placement(p, b, s) = "split_blocks"
        BY <1>1 DEF IsSplit
      <3>2. PICK e : e = <<b, s>>
        OBVIOUS
      <3>3. DOMAIN plans = 1 .. Len(plans)
        BY <2>1 DEF IsPlanned
      <3>4. PICK k \in DOMAIN plans : plans[k].predecessor = b /\ plans[k].successor = s
        BY <2>1, <3>1, <3>2, <3>3 DEF IsPlanned
      <3> QED
        BY <3>1, <3>4, <2>1, <3>3 DEF PlansOn, PlansAt, IsPlanned
    <2> HIDE DEF X
    <2> QED
      BY <2>1, <2>3, MovesOfAnEdge DEF X, PlansOn, PlansAt
  <1> QED
    BY <1>1, <1>4, <1>7 DEF Reaches, Targets, IsDestroyed, IsLowered, n, ArcTarget

(* A successor in the lowered program stands for an edge of the program.   *)
LEMMA ArcsAreFollowed ==
    ASSUME NEW p, NEW T, NEW plans, NEW arcs, NEW out, IsDestroyed(p, T, plans, arcs, out),
           NEW b \in ReachableFrom(p.succ, p.start), NEW e \in Targets(out.succ, b)
    PROVE  Reaches(p, out, b, IF e >= out.original_count THEN out.succ[e][1] ELSE e, e)
  <1> DEFINE n == BlockCount(p)
             R == ReachableFrom(p.succ, p.start)
  <1>1. R \subseteq 0 .. n - 1 /\ n \in Nat /\ \A c \in R : Targets(p.succ, c) \subseteq R
    BY SsaBlocks DEF IsDestroyed, IsSsa, BlockCount
  <1>2. Len(arcs) \in Nat /\ DOMAIN arcs = 1 .. Len(arcs)
    BY DEF IsDestroyed, ArcsCover
  <1> HIDE DEF n, R
  <1>3. b \in 0 .. n + Len(arcs) - 1 /\ b < n
    BY <1>1, <1>2 DEF R
  <1>4. /\ out.original_count = n /\ DOMAIN out.succ = 0 .. n + Len(arcs) - 1
        /\ DOMAIN out.succ[b] = DOMAIN p.succ[b]
        /\ \A i \in DOMAIN p.succ[b] :
               out.succ[b][i] = IF SplitBlocks(p, arcs, b, i) = {} THEN p.succ[b][i]
                                ELSE CHOOSE s \in SplitBlocks(p, arcs, b, i) : TRUE
    BY <1>3 DEF IsDestroyed, IsLowered, n
  <1>5. PICK i \in DOMAIN p.succ[b] : e = out.succ[b][i]
    BY <1>4 DEF Targets
  <1> DEFINE s == p.succ[b][i]
             X == SplitBlocks(p, arcs, b, i)
  <1>6. s \in Targets(p.succ, b)
    BY DEF Targets
  <1>7. CASE X = {}
    <2>1. e = s
      BY <1>4, <1>5, <1>7
    <2>2. s \in 0 .. n - 1
      BY <1>1, <1>6 DEF R
    <2>3. ~IsSplit(p, b, s)
      <3>1. ASSUME IsSplit(p, b, s) PROVE FALSE
        <4>1. PICK j \in 1 .. Len(arcs) : arcs[j] = <<b, i>>
          BY <3>1 DEF IsDestroyed, ArcsCover
        <4> QED
          BY <1>7, <1>2, <4>1 DEF SplitBlocks, n
      <3> QED
        BY <3>1
    <2>4. Reaches(p, out, b, s, e)
      <3> HIDE DEF s
      <3> QED
        BY <1>6, <2>1, <2>3, <1>1, <1>2, <1>4, <2>2 DEF Reaches
    <2>5. ~(e >= out.original_count)
      <3> HIDE DEF s
      <3> QED
        BY <1>1, <1>4, <2>1, <2>2
    <2> QED
      BY <2>1, <2>4, <2>5
  <1>8. CASE X # {}
    <2>2. PICK j \in DOMAIN arcs : arcs[j] = <<b, i>> /\ e = n + j - 1
      BY <1>4, <1>5, <1>8 DEF SplitBlocks, n
    <2> HIDE DEF s, X
    <2> QED
      BY <1>4, <2>2, SplitBlocksAreReached, <1>1, <1>2, SMTT(30) DEF Reaches, n
  <1> QED
    BY <1>7, <1>8

(* A terminator of the lowered program leads to what stands for its edge.  *)
LEMMA TargetsAreLowered ==
    ASSUME NEW p, NEW T, NEW plans, NEW arcs, NEW out, IsDestroyed(p, T, plans, arcs, out),
           NEW b \in ReachableFrom(p.succ, p.start), NEW s \in Targets(p.succ, b)
    PROVE  /\ LowerTarget(p, arcs, b, s).logical_successor = s
           /\ Reaches(p, out, b, s, LowerTarget(p, arcs, b, s).execution_successor)
  <1> DEFINE n == Cardinality(Blocks(p.succ))
             R == ReachableFrom(p.succ, p.start)
             X == { n + k - 1 : k \in { j \in DOMAIN arcs :
                      arcs[j][1] = b /\ p.succ[b][arcs[j][2]] = s } }
             e == LowerTarget(p, arcs, b, s).execution_successor
  <1>1. R \subseteq 0 .. n - 1 /\ n \in Nat /\ \A c \in R : Targets(p.succ, c) \subseteq R
    BY SsaBlocks DEF IsDestroyed, IsSsa
  <1>2. Len(arcs) \in Nat /\ DOMAIN arcs = 1 .. Len(arcs)
    BY DEF IsDestroyed, ArcsCover
  <1>3. /\ LowerTarget(p, arcs, b, s).logical_successor = s
        /\ e = IF X = {} THEN s ELSE CHOOSE c \in X : IsFirstOf(c, X)
    BY DEF LowerTarget
  <1>4. n = BlockCount(p)
    BY DEF BlockCount
  <1>5. out.original_count = n /\ DOMAIN out.succ = 0 .. n + Len(arcs) - 1
    BY DEF IsDestroyed, IsLowered, BlockCount
  <1>6. CASE X = {}
    <2>2. ASSUME IsSplit(p, b, s) PROVE FALSE
      <3>1. PICK i \in DOMAIN p.succ[b] : p.succ[b][i] = s
        BY DEF Targets
      <3>2. PICK j \in 1 .. Len(arcs) : arcs[j] = <<b, i>>
        BY <2>2, <3>1 DEF IsDestroyed, ArcsCover
      <3> QED
        BY <1>6, <1>2, <3>1, <3>2
    <2> HIDE DEF X, n, e
    <2> QED
      BY <1>3, <1>1, <1>6, <2>2, <1>2, <1>5 DEF Reaches, e
  <1>7. CASE X # {}
    <2>1. X \subseteq Nat
      <3> HIDE DEF n
      <3> QED
        BY <1>1, <1>2
    <2>2. e \in X
      <3> HIDE DEF X
      <3> QED
        BY <1>3, <1>7, <2>1, FirstExists
    <2>3. PICK j \in DOMAIN arcs : arcs[j][1] = b /\ p.succ[b][arcs[j][2]] = s /\ e = n + j - 1
      BY <2>2
    <2> HIDE DEF X, n, e
    <2> QED
      BY <1>3, <2>3, <1>4, SplitBlocksAreReached DEF e
  <1> QED
    BY <1>6, <1>7

(* The blocks of the lowered program: the moves and instructions they      *)
(* hold, and those of the program that they keep.                          *)
LEMMA LoweredBlocks ==
    ASSUME NEW p, NEW T, NEW plans, NEW arcs, NEW out, IsDestroyed(p, T, plans, arcs, out)
    PROVE  LET V == DefinedValues(p)
               M == [destination : Locations(V, T), source : Locations(V, T)]
           IN  /\ out.temporary_count = T /\ out.entry_moves[p.start] = << >>
               /\ \A b \in DOMAIN out.succ :
                      /\ out.entry_moves[b] \in Seq(M) /\ out.exit_moves[b] \in Seq(M)
                      /\ out.instructions[b] \in Seq(InstructionsOver(V))
               /\ \A b \in ReachableFrom(p.succ, p.start) :
                      /\ b \in DOMAIN out.succ /\ b < out.original_count
                      /\ out.instructions[b] = p.instructions[b]
  <1> DEFINE V == DefinedValues(p)
             M == [destination : Locations(V, T), source : Locations(V, T)]
             R == ReachableFrom(p.succ, p.start)
             n == BlockCount(p)
  <1>1. /\ R \subseteq 0 .. n - 1 /\ n \in Nat /\ p.start \in R /\ Blocks(p.succ) = 0 .. n - 1
        /\ \A b, s \in R : b \in UniquePredecessors(p.succ, R, s) <=> s \in Targets(p.succ, b)
        /\ UniquePredecessors(p.succ, R, p.start) = {}
        /\ \A b \in Blocks(p.succ) : p.instructions[b] \in Seq(InstructionsOver(V))
    BY SsaBlocks DEF IsDestroyed, IsSsa, BlockCount
  <1>2. Len(arcs) \in Nat /\ DOMAIN arcs = 1 .. Len(arcs)
    BY DEF IsDestroyed, ArcsCover
  <1>3. /\ Len(plans) \in Nat /\ DOMAIN plans = 1 .. Len(plans)
        /\ \A k \in DOMAIN plans : plans[k].moves \in Seq(M)
        /\ \A k \in DOMAIN plans : <<plans[k].predecessor, plans[k].successor>> \in Sites(p)
    BY DEF IsDestroyed, IsPlanned, Carries
  <1>4. ASSUME NEW X, X \subseteq DOMAIN plans
        PROVE  MovesOf(plans, X) \in Seq(M)
    <2> HIDE DEF M
    <2>2. << >> \in Seq(M)
      OBVIOUS
    <2> PICK m : m = MovesOf(plans, X)
      OBVIOUS
    <2>4. m = << >> \/ \E k \in X : m = plans[k].moves
      BY <1>3, <1>4, MovesAreOfAPlan
    <2>5. m \in Seq(M)
      BY <2>2, <1>3, <1>4, <2>4
    <2> QED
      BY <2>5
  <1>5. /\ DOMAIN out.succ = 0 .. n + Len(arcs) - 1 /\ out.original_count = n /\ out.temporary_count = T
        /\ \A b \in DOMAIN out.succ :
               /\ b >= n => /\ out.entry_moves[b] = MovesOf(plans,
                                   PlansOn(plans, arcs[b - n + 1][1], ArcTarget(p, arcs, b)))
                            /\ out.exit_moves[b] = << >> /\ out.instructions[b] = << >>
               /\ b < n => /\ out.entry_moves[b] = MovesOf(plans, PlansTo(plans, b))
                           /\ out.exit_moves[b] = MovesOf(plans, PlansFrom(plans, b))
                           /\ out.instructions[b] = p.instructions[b]
    BY DEF IsDestroyed, IsLowered
  <1> HIDE DEF M, V, n, R
  <1>6. \A b, s : /\ PlansOn(plans, b, s) \subseteq DOMAIN plans
                  /\ PlansTo(plans, s) \subseteq DOMAIN plans
                  /\ PlansFrom(plans, b) \subseteq DOMAIN plans
    BY DEF PlansOn, PlansTo, PlansFrom, PlansAt
  <1>7. ASSUME NEW b \in DOMAIN out.succ
        PROVE  /\ out.entry_moves[b] \in Seq(M) /\ out.exit_moves[b] \in Seq(M)
               /\ out.instructions[b] \in Seq(InstructionsOver(V))
    <2>1. b \in Int /\ n \in Int /\ b >= 0
      BY <1>1, <1>2, <1>5
    <2>2. CASE b >= n
      <3>1. out.exit_moves[b] = << >> /\ out.instructions[b] = << >>
        BY <1>5, <2>2
      <3> QED
        BY <3>1, <1>4, <1>5, <1>6, <2>2
    <2>3. CASE b < n
      <3>2. out.instructions[b] \in Seq(InstructionsOver(V))
        BY <1>1, <1>5, <2>3, <2>1
      <3> QED
        BY <3>2, <1>4, <1>5, <1>6, <2>3
    <2> QED
      BY <2>1, <2>2, <2>3
  <1>8. ASSUME NEW b \in R
        PROVE  b \in DOMAIN out.succ /\ b < out.original_count /\ out.instructions[b] = p.instructions[b]
    BY <1>1, <1>2, <1>5, SMTT(30)
  <1>9. out.entry_moves[p.start] = << >>
    <2>1. ASSUME NEW k \in PlansTo(plans, p.start) PROVE FALSE
      BY <1>3, <1>1 DEF PlansTo, PlansAt, Sites, R
    <2> QED
      BY <1>5, <2>1, <1>1, <1>8, ZenonT(60) DEF MovesOf
  <1> QED
    BY <1>5, <1>7, <1>8, <1>9 DEF V, M, R
-----------------------------------------------------------------------------
(* What destroy_ssa accepts is an SSA program.                             *)
IsWellFormed(p) ==
    LET U == Blocks(p.succ)
    IN  /\ IsFiniteSet(U) /\ U = 0 .. Cardinality(U) - 1 /\ p.start \in U
        /\ p.succ \in [U -> Seq(U)]
        /\ p.variables \subseteq Nat
        /\ DOMAIN p.instructions = U
        /\ \A b \in U : p.instructions[b] \in Seq(InstructionsOver(Nat))
        /\ \A b \in U : IsFiniteSet(p.phis[b]) /\ \A phi \in p.phis[b] : phi.result \in Nat

(* The values an SSA program uses are defined.                             *)
LEMMA OperandsAreDefined ==
    ASSUME NEW D, NEW c \in InstructionsOver(Nat),
           ToSet(c.uses) \subseteq D, ToSet(c.definitions) \subseteq D
    PROVE  c \in InstructionsOver(D)
  <1> DEFINE I(X) == [ opcode : DOMAIN OperandCount \cup {"opaque"}, uses : Seq(X),
                       definitions : Seq(X), immediate : Int ]
             Q(i) == /\ Len(i.definitions) <= 1
                     /\ i.opcode # "opaque" => Len(i.uses) = OperandCount[i.opcode]
  <1>1. \A X : InstructionsOver(X) = { i \in I(X) : Q(i) }
    BY DEF InstructionsOver
  <1> HIDE DEF Q
  <1> HIDE DEF I
  <1>4. ASSUME NEW s \in Seq(Nat), ToSet(s) \subseteq D
        PROVE  s \in Seq(D)
    BY <1>4 DEF ToSet
  <1> QED
    BY <1>1, <1>4 DEF I

(* The values a program defines and uses, by where it does.                *)
LEMMA ValuesOfAProgram ==
    ASSUME NEW p, IsWellFormed(p)
    PROVE  /\ DefinedValues(p) \subseteq Nat
           /\ \A b \in Blocks(p.succ) : \A phi \in p.phis[b] :
                  /\ phi.result \in DefinedValues(p)
                  /\ \A q \in DOMAIN phi.incoming : phi.incoming[q] \in UsedValues(p)
           /\ \A b \in Blocks(p.succ) : \A i \in DOMAIN p.instructions[b] :
                  /\ ToSet(p.instructions[b][i].definitions) \subseteq DefinedValues(p)
                  /\ ToSet(p.instructions[b][i].uses) \subseteq UsedValues(p)
  <1> DEFINE U == Blocks(p.succ)
             A == { SsaValue(v, 0) : v \in p.variables }
             B == UNION { { phi.result : phi \in p.phis[b] } : b \in U }
             Z(b) == UNION { ToSet(p.instructions[b][i].definitions) : i \in DOMAIN p.instructions[b] }
             C == UNION { Z(b) : b \in U }
             Y(b) == UNION { ToSet(p.instructions[b][i].uses) : i \in DOMAIN p.instructions[b] }
             E == UNION { Y(b) : b \in U }
             P == UNION { p.phis[b] : b \in U }
             F == UNION { { phi.incoming[q] : q \in DOMAIN phi.incoming } : phi \in P }
  <1>1. DefinedValues(p) = A \cup B \cup C
    BY DEF DefinedValues
  <1>3. A \subseteq Nat
    BY VersionSpanAssumption DEF IsWellFormed, SsaValue
  <1>4. B \subseteq Nat /\ \A b \in U : \A phi \in p.phis[b] : phi.result \in B
    BY DEF IsWellFormed
  <1>5. \A b \in U : \A phi \in p.phis[b] : \A q \in DOMAIN phi.incoming : phi.incoming[q] \in F
    <2>1. \A b \in U : \A phi \in p.phis[b] : phi \in P
      OBVIOUS
    <2> HIDE DEF P, U
    <2> QED
      BY <2>1
  <1>6. ASSUME NEW b \in U, NEW i \in DOMAIN p.instructions[b]
        PROVE  /\ ToSet(p.instructions[b][i].definitions) \subseteq C
               /\ ToSet(p.instructions[b][i].uses) \subseteq E
               /\ ToSet(p.instructions[b][i].definitions) \subseteq Nat
    <2>1. ToSet(p.instructions[b][i].definitions) \subseteq Z(b) /\ ToSet(p.instructions[b][i].uses) \subseteq Y(b)
      OBVIOUS
    <2>2. p.instructions[b][i] \in InstructionsOver(Nat)
      BY DEF IsWellFormed
    <2> HIDE DEF Z, Y, U
    <2> QED
      BY <2>1, <2>2 DEF ToSet, InstructionsOver
  <1>7. C \subseteq Nat
    <2>1. \A b \in U : Z(b) \subseteq Nat
      BY <1>6
    <2> HIDE DEF Z, U
    <2> QED
      BY <2>1
  <1> HIDE DEF A, B, C, E, F, U
  <1> QED
    BY <1>1, <1>4, <1>5, <1>6, <1>3, <1>7 DEF U, UsedValues

(* What validate_ssa accepts is an SSA program.                            *)
LEMMA AcceptedIsSsa ==
    ASSUME NEW p, IsWellFormed(p), SsaAccepted(p)
    PROVE  IsSsa(p)
  <1> DEFINE U == Blocks(p.succ)
             R == ReachableFrom(p.succ, p.start)
             D == DefinedValues(p)
  <1>1. /\ IsFiniteSet(U) /\ U = 0 .. Cardinality(U) - 1 /\ p.start \in U
        /\ p.succ \in [U -> Seq(U)] /\ DOMAIN p.instructions = U
        /\ \A b \in U : p.instructions[b] \in Seq(InstructionsOver(Nat))
        /\ \A b \in U : IsFiniteSet(p.phis[b])
    BY DEF IsWellFormed
  <1>2. /\ D \subseteq Nat
        /\ \A b \in U : \A phi \in p.phis[b] :
               /\ phi.result \in D
               /\ \A q \in DOMAIN phi.incoming : phi.incoming[q] \in UsedValues(p)
        /\ \A b \in U : \A i \in DOMAIN p.instructions[b] :
               /\ ToSet(p.instructions[b][i].definitions) \subseteq D
               /\ ToSet(p.instructions[b][i].uses) \subseteq UsedValues(p)
    BY ValuesOfAProgram
  <1>3. /\ UniquePredecessors(p.succ, R, p.start) = {}
        /\ \A b \in U : \A phi \in p.phis[b] :
               /\ VariableOf(phi.result) = phi.variable
               /\ \A other \in p.phis[b] : other.variable = phi.variable => other = phi
               /\ DOMAIN phi.incoming = UniquePredecessors(p.succ, R, b)
        /\ UsedValues(p) \subseteq D
    BY DEF SsaAccepted
  <1>4. Cardinality(U) \in Nat
    BY <1>1, FS_CardinalityType
  <1>5. /\ \A b \in U : DOMAIN p.succ[b] = 1 .. Len(p.succ[b]) /\ Len(p.succ[b]) \in Nat
        /\ IsGraph(p.succ)
    BY <1>1 DEF Targets, IsGraph, Blocks
  <1>6. R \subseteq U
    BY <1>1, <1>5, ReachableIsClosed DEF Blocks
  <1>7. ASSUME NEW b \in U
        PROVE  p.instructions[b] \in Seq(InstructionsOver(D))
    <2> DEFINE code == p.instructions[b]
    <2>1. code \in Seq(InstructionsOver(Nat))
      BY <1>1
    <2>2. ASSUME NEW i \in 1 .. Len(code)
          PROVE  code[i] \in InstructionsOver(D)
      <3>1. i \in DOMAIN p.instructions[b] /\ code[i] \in InstructionsOver(Nat)
        BY <2>1
      <3>2. ToSet(code[i].definitions) \subseteq D /\ ToSet(code[i].uses) \subseteq D
        BY <1>2, <1>3, <3>1
      <3> HIDE DEF code, D
      <3> QED
        BY <3>1, <3>2, OperandsAreDefined
    <2> HIDE DEF D
    <2> QED
      BY <2>1, <2>2
  <1>8. ASSUME NEW s \in R
        PROVE  /\ IsFiniteSet(p.phis[s])
               /\ \A phi, other \in p.phis[s] : phi.result = other.result => phi = other
               /\ \A phi \in p.phis[s] :
                      /\ phi.result \in D
                      /\ \A b \in UniquePredecessors(p.succ, R, s) : phi.incoming[b] \in D
    <2> HIDE DEF D, R, U
    <2> QED
      BY <1>1, <1>2, <1>3, <1>6
  <1> HIDE DEF D, R, U
  <1> QED
    BY <1>1, <1>2, <1>3, <1>4, <1>5, <1>7, <1>8 DEF IsSsa, D, R, U

(* The SSA form of a source is an SSA program.                             *)
LEMMA FormIsWellFormed ==
    ASSUME NEW source, NEW placement, RenamesSource(source, placement),
           NEW p, FormOf(source, placement, p)
    PROVE  IsWellFormed(p)
  <1> DEFINE U == Blocks(source.succ)
             R == ReachableFrom(source.succ, source.start)
             V == source.variables
  <1>1. IsProgram(source, V)
    BY DEF RenamesSource
  <1>2. /\ IsFiniteSet(U) /\ U = 0 .. Cardinality(U) - 1 /\ source.start \in U
        /\ source.succ \in [U -> Seq(U)] /\ IsFiniteSet(V) /\ V \subseteq Nat
    BY <1>1 DEF IsProgram
  <1>3. /\ p.start = source.start /\ p.succ = source.succ /\ p.variables = V
        /\ DOMAIN p.instructions = U
        /\ \A b \in U \ R : p.phis[b] = {} /\ p.instructions[b] = << >>
        /\ \A b \in R : p.phis[b] = { PhiOf(source, placement, b, v) :
                                        v \in { w \in V : <<b, w>> \in placement } }
        /\ \A b \in R : p.instructions[b] \in Seq(InstructionsOver(Nat))
    BY DEF FormOf
  <1> HIDE DEF V, R, U
  <1>4. ASSUME NEW b \in U
        PROVE  p.instructions[b] \in Seq(InstructionsOver(Nat))
    <2>1. CASE b \in R
      BY <1>3, <2>1
    <2>2. CASE b \notin R
      <3> DEFINE I == InstructionsOver(Nat)
      <3>2. << >> \in Seq(I)
        <4> HIDE DEF I
        <4> QED
          OBVIOUS
      <3> QED
        BY <1>3, <2>2, <3>2
    <2> QED
      BY <2>1, <2>2
  <1>5. ASSUME NEW b \in U
        PROVE  IsFiniteSet(p.phis[b]) /\ \A phi \in p.phis[b] : phi.result \in Nat
    <2>1. CASE b \notin R
      BY <1>3, <2>1, FS_EmptySet
    <2>2. CASE b \in R
      <3> DEFINE W == { w \in V : <<b, w>> \in placement }
                 Phi(v) == PhiOf(source, placement, b, v)
                 f == [ v \in W |-> Phi(v) ]
                 T == p.phis[b]
      <3>1. IsFiniteSet(W)
        BY <1>2, FS_Subset
      <3>2. T = { Phi(v) : v \in W }
        BY <1>3, <2>2
      <3>3. \A v \in W : Phi(v).result \in Nat
        <4> TAKE v \in W
        <4>1. v \in V /\ Phi(v).result = SsaValue(v, TopsIn(source, placement, b, 0)[v])
          BY DEF PhiOf
        <4>3. v \in Nat /\ TopsIn(source, placement, b, 0)[v] \in 0 .. VersionSpan - 1
          BY <2>2, <4>1, <1>1, ProgramFacts, VersionsFit DEF V, R, Length, U
        <4> QED
          BY <4>1, <4>3, SsaValueFacts
      <3> HIDE DEF Phi
      <3>4. f \in [W -> T] /\ \A t \in T : \E s \in W : f[s] = t
        BY <3>2
      <3> HIDE DEF W, T, f
      <3>5. IsFiniteSet(T)
        BY <3>1, <3>4, RangeIsSmall
      <3> QED
        BY <3>5, <3>2, <3>3 DEF T
    <2> QED
      BY <2>1, <2>2
  <1> QED
    BY <1>2, <1>3, <1>4, <1>5 DEF IsWellFormed, U

(* The SSA program of a unit that destroy_ssa accepts.                     *)
LEMMA UnitsAreSsa ==
    ASSUME NEW u, IsUnit(u), u.construction # "none" => SourceAccepted(u.program),
           SsaAccepted(Constructed(u))
    PROVE  IsSsa(Constructed(u))
  <1>1. CASE u.construction # "none"
    BY <1>1, ConstructedForm, FormIsWellFormed, AcceptedIsSsa
  <1>2. CASE u.construction = "none"
    <2> DEFINE p == u.program
    <2> QED
      BY <1>2, AcceptedIsSsa DEF Constructed, IsProgram, IsWellFormed, IsUnit
  <1> QED
    BY <1>1, <1>2
-----------------------------------------------------------------------------
(* Where an SSA program keeps the variables of its source program.         *)
Reads(source, b, i, v) == v \in ToSet(source.instructions[b][i].uses)

(* v is read from instruction i of b on before it is written, on some      *)
(* path.                                                                   *)
LiveBefore(source, b, i, v) ==
    LET n == Length(source, b)
    IN  \/ \E j \in i .. n : /\ Reads(source, b, j, v)
                             /\ \A k \in i .. j - 1 : ~Defines(source, b, k, v)
        \/ /\ \A k \in i .. n : ~Defines(source, b, k, v)
           /\ \E s \in Targets(source.succ, b) : s \in LiveInBlocks(source, v)

(* The variables whose version is kept before instruction i of b: all of   *)
(* them in minimal form, those alive in pruned form.                       *)
Kept(u, b, i) ==
    { v \in u.program.variables : u.construction = "pruned" => LiveBefore(u.program, b, i, v) }

(* The version of v before instruction i of b.                             *)
VersionBefore(u, b, i, v) == SsaValue(v, TopsIn(u.program, Placed(u), b, i - 1)[v])

(* The values of the program and of the SSA program with equal contents    *)
(* before instruction i of block b.                                        *)
Pairs(u, b, i) ==
    IF u.construction = "none" THEN { <<v, v>> : v \in DefinedValues(u.program) }
    ELSE { <<SsaValue(v, 0), VersionBefore(u, b, i, v)>> : v \in Kept(u, b, i) }

(* The liveness of pruned SSA is the one of the paths.                     *)
LEMMA LivenessFacts ==
    ASSUME NEW source, NEW V, IsProgram(source, V), NEW v
    PROVE  \A b \in ReachableFrom(source.succ, source.start) :
               b \in LiveInBlocks(source, v) <=> LiveBefore(source, b, 1, v)
  <1> DEFINE R == ReachableFrom(source.succ, source.start)
             L == LiveInBlocks(source, v)
             n(b) == Length(source, b)
             C == { b \in R : LiveBefore(source, b, 1, v) }
             added(X) == { p \in R \ DefiningBlocks(source, v) : UniqueSuccessors(source.succ, R, p) \cap X # {} }
  <1>1. /\ source.start \in DOMAIN source.succ /\ IsGraph(source.succ)
        /\ \A b \in R : n(b) \in Nat /\ DOMAIN source.instructions[b] = 1 .. n(b)
        /\ R \subseteq DOMAIN source.succ
    BY ProgramFacts DEF Length
  <1>2. /\ L \in SUBSET DOMAIN source.succ
        /\ { b \in R : UpwardUse(source, b, v) } \subseteq L
        /\ added(L) \subseteq L
        /\ \A D : /\ { b \in R : UpwardUse(source, b, v) } \subseteq D
                  /\ \A X \in SUBSET DOMAIN source.succ : X \subseteq D => added(X) \subseteq D
                  => L \subseteq D
    BY <1>1, LiveInIsClosed
  <1>3. \A b \in R : UniqueSuccessors(source.succ, R, b) = Targets(source.succ, b)
    BY <1>1, ReachableIsClosed DEF UniqueSuccessors
  <1> HIDE DEF L, R, n
  <1>4. ASSUME NEW b \in R
        PROVE  UpwardUse(source, b, v) <=>
                   \E j \in 1 .. n(b) : /\ Reads(source, b, j, v)
                                        /\ \A k \in 1 .. j - 1 : ~Defines(source, b, k, v)
    BY <1>1 DEF UpwardUse, Reads, Defines
  <1>5. ASSUME NEW b \in R
        PROVE  b \in DefiningBlocks(source, v) <=> \E k \in 1 .. n(b) : Defines(source, b, k, v)
    BY <1>1 DEF DefiningBlocks, Defines, R
  <1>6. ASSUME NEW b \in R
        PROVE  LiveBefore(source, b, 1, v) <=>
                   \/ UpwardUse(source, b, v)
                   \/ b \notin DefiningBlocks(source, v) /\ UniqueSuccessors(source.succ, R, b) \cap L # {}
    BY <1>3, <1>4, <1>5 DEF LiveBefore, n, L
  <1>7. ASSUME NEW b \in C
        PROVE  b \in L
    BY <1>2, <1>6
  <1>8. L \subseteq C
    <2> DEFINE D == { b \in R : \/ UpwardUse(source, b, v)
                                \/ /\ b \notin DefiningBlocks(source, v)
                                   /\ UniqueSuccessors(source.succ, R, b) \cap L # {} }
    <2>2. D \subseteq L
      BY <1>2
    <2>3. \A X \in SUBSET DOMAIN source.succ : X \subseteq D => added(X) \subseteq D
      <3> TAKE X \in SUBSET DOMAIN source.succ
      <3> HAVE X \subseteq D
      <3> QED
        BY <2>2
    <2> HIDE DEF D
    <2> QED
      BY <1>6, <1>2, <2>3 DEF D
  <1> QED
    BY <1>7, <1>8 DEF L, R

(* A use keeps its variable, and what is kept after an instruction was     *)
(* kept before unless the instruction defines it.                          *)
LEMMA KeptFacts ==
    ASSUME NEW u, NEW b, NEW i \in Nat, i <= Length(u.program, b), Length(u.program, b) \in Nat,
           NEW v \in u.program.variables
    PROVE  /\ Reads(u.program, b, i, v) => v \in Kept(u, b, i)
           /\ v \in Kept(u, b, i + 1) /\ ~Defines(u.program, b, i, v) => v \in Kept(u, b, i)
  <1> DEFINE source == u.program
             n == Length(source, b)
  <1>1. ASSUME Reads(source, b, i, v)
        PROVE  LiveBefore(source, b, i, v)
    BY <1>1 DEF LiveBefore
  <1>2. ASSUME LiveBefore(source, b, i + 1, v), ~Defines(source, b, i, v)
        PROVE  LiveBefore(source, b, i, v)
    <2> HIDE DEF n
    <2>1. CASE \E j \in i + 1 .. n : /\ Reads(source, b, j, v)
                                     /\ \A k \in i + 1 .. j - 1 : ~Defines(source, b, k, v)
      <3>1. PICK j \in i + 1 .. n : /\ Reads(source, b, j, v)
                                    /\ \A k \in i + 1 .. j - 1 : ~Defines(source, b, k, v)
        BY <2>1
      <3> QED
        BY <3>1, <1>2 DEF LiveBefore, n
    <2>2. CASE /\ \A k \in i + 1 .. n : ~Defines(source, b, k, v)
               /\ \E s \in Targets(source.succ, b) : s \in LiveInBlocks(source, v)
      BY <1>2, <2>2 DEF n, LiveBefore
    <2> QED
      BY <1>2, <2>1, <2>2 DEF LiveBefore, n
  <1> QED
    BY <1>1, <1>2 DEF Kept

(* A source program as the abstract machine runs it.                       *)
RunsAs(source, p, b) ==
    LET n == Length(source, b)
    IN  /\ n \in Nat /\ p.phis[b] = source.phis[b]
        /\ Len(p.instructions[b]) = n /\ DOMAIN p.instructions[b] = 1 .. n
        /\ \A i \in 1 .. n :
               LET c == source.instructions[b][i]
                   m == p.instructions[b][i]
               IN  /\ c \in InstructionsOver(source.variables)
                   /\ m.opcode = c.opcode /\ m.immediate = c.immediate
                   /\ DOMAIN m.uses = DOMAIN c.uses
                   /\ \A k \in DOMAIN c.uses : m.uses[k] = SsaValue(c.uses[k], 0)
                   /\ \A x : x \in ToSet(m.definitions) <=>
                          \E v \in source.variables : v \in ToSet(c.definitions) /\ x = SsaValue(v, 0)
        /\ p.control[b] = IF source.control[b].kind = "branch_if_nonzero"
                          THEN [source.control[b] EXCEPT !.predicate = SsaValue(@, 0)]
                          ELSE source.control[b]

(* A source program means the same with version 0 of its variables as      *)
(* values.                                                                 *)
LEMMA UnversionedRuns ==
    ASSUME NEW source, IsProgram(source, source.variables), NEW b \in Blocks(source.succ),
           NEW p, p = Unversioned(source)
    PROVE  RunsAs(source, p, b)
  <1> DEFINE n == Length(source, b)
             code == source.instructions[b]
             V == source.variables
             Zero(s) == [ k \in DOMAIN s |-> SsaValue(s[k], 0) ]
             M(c) == [c EXCEPT !.uses = Zero(@), !.definitions = Zero(@)]
  <1>1. /\ n \in Nat /\ DOMAIN code = 1 .. n
        /\ \A i \in 1 .. n : code[i] \in InstructionsOver(V)
    BY ProgramFacts DEF Length, Blocks
  <1>2. /\ p.phis = source.phis
        /\ p.instructions[b] = [ i \in DOMAIN code |-> M(code[i]) ]
        /\ p.control[b] = IF source.control[b].kind = "branch_if_nonzero"
                          THEN [source.control[b] EXCEPT !.predicate = SsaValue(@, 0)]
                          ELSE source.control[b]
    BY DEF Unversioned
  <1>3. ASSUME NEW c \in InstructionsOver(V)
        PROVE  LET m == M(c)
               IN  /\ m.opcode = c.opcode /\ m.immediate = c.immediate
                   /\ DOMAIN m.uses = DOMAIN c.uses
                   /\ \A k \in DOMAIN c.uses : m.uses[k] = SsaValue(c.uses[k], 0)
                   /\ \A x : x \in ToSet(m.definitions) <=>
                          \E v \in V : v \in ToSet(c.definitions) /\ x = SsaValue(v, 0)
    <2>1. /\ c.uses \in Seq(V) /\ c.definitions \in Seq(V)
          /\ c = [opcode |-> c.opcode, uses |-> c.uses, definitions |-> c.definitions, immediate |-> c.immediate]
      BY DEF InstructionsOver
    <2> DEFINE m == M(c)
    <2>2. /\ m.opcode = c.opcode /\ m.immediate = c.immediate
          /\ m.uses = Zero(c.uses) /\ m.definitions = Zero(c.definitions)
      BY <2>1
    <2> HIDE DEF m, M
    <2>4. \A x : x \in ToSet(m.definitions) <=>
              \E k \in DOMAIN c.definitions : x = SsaValue(c.definitions[k], 0)
      BY <2>2 DEF ToSet
    <2>5. \A v : v \in ToSet(c.definitions) <=> \E k \in DOMAIN c.definitions : v = c.definitions[k]
      BY DEF ToSet
    <2> QED
      BY <2>2, <2>1, <2>4, <2>5 DEF m
  <1> HIDE DEF M, code, n
  <1>4. /\ Len(p.instructions[b]) = n /\ DOMAIN p.instructions[b] = 1 .. n
        /\ \A i \in 1 .. n : p.instructions[b][i] = M(code[i])
    BY <1>1, <1>2
  <1>5. ASSUME NEW i \in 1 .. n
        PROVE  LET c == source.instructions[b][i]
                   m == p.instructions[b][i]
               IN  /\ c \in InstructionsOver(source.variables)
                   /\ m.opcode = c.opcode /\ m.immediate = c.immediate
                   /\ DOMAIN m.uses = DOMAIN c.uses
                   /\ \A k \in DOMAIN c.uses : m.uses[k] = SsaValue(c.uses[k], 0)
                   /\ \A x : x \in ToSet(m.definitions) <=>
                          \E v \in source.variables : v \in ToSet(c.definitions) /\ x = SsaValue(v, 0)
    <2>1. code[i] \in InstructionsOver(V) /\ p.instructions[b][i] = M(code[i])
      BY <1>1, <1>4
    <2> PICK c \in InstructionsOver(V) : c = code[i]
      BY <2>1
    <2> QED
      BY <1>3, <2>1 DEF code
  <1> QED
    BY <1>1, <1>2, <1>4, <1>5 DEF RunsAs, n

(* An instruction of the program and of the SSA program.                   *)
SameInstruction(u, b, i) ==
    LET m == Meaning(u).instructions[b][i]
        c == Constructed(u).instructions[b][i]
    IN  /\ m.opcode = c.opcode /\ m.immediate = c.immediate /\ DOMAIN m.uses = DOMAIN c.uses
        /\ \A k \in DOMAIN c.uses : <<m.uses[k], c.uses[k]>> \in Pairs(u, b, i)
        /\ \A x, y : <<x, y>> \in Pairs(u, b, i + 1) =>
               /\ x \in ToSet(m.definitions) <=> y \in ToSet(c.definitions)
               /\ x \notin ToSet(m.definitions) => <<x, y>> \in Pairs(u, b, i)

(* A unit whose source and SSA program have been accepted.                 *)
IsCompiled(u) ==
    /\ IsUnit(u)
    /\ u.construction # "none" => SourceAccepted(u.program)
    /\ SsaAccepted(Constructed(u))

(* The instructions of an SSA program stand for themselves.                *)
LEMMA InstructionsOfAnSsaProgram ==
    ASSUME NEW u, IsCompiled(u), u.construction = "none",
           NEW b \in ReachableFrom(u.program.succ, u.program.start),
           NEW i \in 1 .. Length(u.program, b)
    PROVE  SameInstruction(u, b, i)
  <1> DEFINE p == u.program
             D == DefinedValues(p)
             c == p.instructions[b][i]
  <1>1. Constructed(u) = p /\ Meaning(u) = p
    BY DEF IsCompiled, Constructed, Meaning
  <1>3. p.instructions[b] \in Seq(InstructionsOver(D))
    BY <1>1, UnitsAreSsa, SsaBlocks DEF IsSsa, IsCompiled
  <1>4. c \in InstructionsOver(D)
    BY <1>3 DEF Length
  <1>5. c.uses \in Seq(D)
    BY <1>4 DEF InstructionsOver
  <1>6. \A k \in DOMAIN c.uses : c.uses[k] \in D
    <2> HIDE DEF D, c
    <2> QED
      BY <1>5
  <1>7. \A j, x, y : <<x, y>> \in Pairs(u, b, j) <=> x \in D /\ x = y
    BY DEF Pairs
  <1> PICK m : m = c
    OBVIOUS
  <1> HIDE DEF D, c
  <1> QED
    BY <1>1, <1>6, <1>7 DEF SameInstruction, c

(* A renamed instruction reads and writes the versions of the variables    *)
(* its source reads and writes.                                            *)
LEMMA InstructionsOfASource ==
    ASSUME NEW u, IsCompiled(u), u.construction # "none",
           NEW b \in ReachableFrom(u.program.succ, u.program.start),
           NEW i \in 1 .. Length(u.program, b)
    PROVE  SameInstruction(u, b, i)
  <1> DEFINE source == u.program
             V == source.variables
             n == Length(source, b)
             a == source.instructions[b][i]
             m == Meaning(u).instructions[b][i]
             c == Constructed(u).instructions[b][i]
             T(j) == TopsIn(source, Placed(u), b, j)
             C == CountersIn(source, Placed(u), b, i)
  <1>1. /\ RenamesSource(source, Placed(u)) /\ FormOf(source, Placed(u), Constructed(u))
        /\ IsProgram(source, V) /\ V \subseteq Nat
    BY ConstructedForm DEF IsCompiled, RenamesSource, IsProgram
  <1>2. RunsAs(source, Meaning(u), b)
    <2>1. Meaning(u) = Unversioned(source)
      BY DEF Meaning
    <2>2. b \in Blocks(source.succ)
      BY <1>1, ProgramFacts
    <2> QED
      BY <1>1, <2>1, <2>2, UnversionedRuns
  <1>3. /\ n \in Nat /\ a \in InstructionsOver(V)
        /\ m.opcode = a.opcode /\ m.immediate = a.immediate
        /\ DOMAIN m.uses = DOMAIN a.uses
        /\ \A k \in DOMAIN a.uses : m.uses[k] = SsaValue(a.uses[k], 0)
        /\ \A x : x \in ToSet(m.definitions) <=>
               \E v \in V : v \in ToSet(a.definitions) /\ x = SsaValue(v, 0)
    BY <1>2 DEF RunsAs
  <1>4. c = InstructionRenamed(a, T(i - 1), C)
    <2>1. \A k \in 1 .. n :
              Constructed(u).instructions[b][k]
                  = InstructionRenamed(source.instructions[b][k], T(k - 1),
                                       CountersIn(source, Placed(u), b, k))
      BY ONLY <1>1, b \in ReachableFrom(source.succ, source.start) DEF FormOf
    <2> QED
      BY ONLY <2>1, i \in 1 .. n
  <1>5. /\ DOMAIN c.uses = DOMAIN a.uses
        /\ \A k \in DOMAIN a.uses : c.uses[k] = SsaValue(a.uses[k], T(i - 1)[a.uses[k]])
        /\ c.opcode = a.opcode /\ c.immediate = a.immediate
    <2> HIDE DEF a, c, T, C, V
    <2> QED
      BY ONLY <1>3, <1>4, RenamedOperands
  <1>6. \A y : y \in ToSet(c.definitions) <=>
            \E v \in V : IsSite(source, Placed(u), b, i, v)
                         /\ y = SiteValue(source, Placed(u), b, i, v)
    BY <1>1, FormDefinitions, SMTT(30)
  <1>7. \A v \in V : IsSite(source, Placed(u), b, i, v) <=> v \in ToSet(a.definitions)
    <2>1. i \in 1 .. Len(source.instructions[b]) /\ i # 0
      BY <1>3 DEF Length
    <2> QED
      BY <2>1 DEF IsSite, Defines
  <1>8. \A v \in V : /\ v \in Nat
                     /\ T(i)[v] \in 0 .. VersionSpan - 1
                     /\ C[v] \in 0 .. VersionSpan - 1
                     /\ SiteValue(source, Placed(u), b, i, v) = SsaValue(v, C[v])
    <2> TAKE v \in V
    <2>1. i \in 0 .. n
      BY <1>3
    <2> QED
      BY <1>1, <2>1, VersionsFit DEF VersionNumber, SiteValue
  <1>9. \A v \in V : T(i)[v] = IF v \in ToSet(a.definitions) THEN C[v] ELSE T(i - 1)[v]
    <2>1. BlockRenaming(source, Placed(u), b)
      BY <1>1, RenamingOfBlocks
    <2> QED
      BY <2>1 DEF BlockRenaming, Defines, Length
  <1>10. /\ \A x, y : <<x, y>> \in Pairs(u, b, i + 1) <=>
                \E v \in Kept(u, b, i + 1) : x = SsaValue(v, 0) /\ y = SsaValue(v, T(i)[v])
         /\ \A x, y : <<x, y>> \in Pairs(u, b, i) <=>
                \E v \in Kept(u, b, i) : x = SsaValue(v, 0) /\ y = SsaValue(v, T(i - 1)[v])
    <2>1. (i + 1) - 1 = i
      OBVIOUS
    <2>2. \A j, x, y : <<x, y>> \in Pairs(u, b, j) <=>
              \E v \in Kept(u, b, j) : x = SsaValue(v, 0) /\ y = VersionBefore(u, b, j, v)
      BY DEF Pairs
    <2> QED
      BY <2>1, <2>2 DEF VersionBefore
  <1>11. \A v \in V : /\ Reads(source, b, i, v) => v \in Kept(u, b, i)
                      /\ v \in Kept(u, b, i + 1) /\ v \notin ToSet(a.definitions) => v \in Kept(u, b, i)
    <2> TAKE v \in V
    <2>1. i \in Nat /\ i <= n /\ n \in Nat
      BY <1>3
    <2> QED
      BY <2>1, KeptFacts DEF Defines
  <1>12. /\ \A k \in DOMAIN a.uses : a.uses[k] \in V /\ Reads(source, b, i, a.uses[k])
         /\ \A v \in ToSet(a.definitions) : v \in V
    <2>1. a.uses \in Seq(V) /\ a.definitions \in Seq(V)
      BY <1>3 DEF InstructionsOver
    <2>2. \A k \in DOMAIN a.uses : a.uses[k] \in V /\ a.uses[k] \in ToSet(a.uses)
      BY <2>1 DEF ToSet
    <2>3. \A v \in ToSet(a.definitions) : v \in V
      BY <2>1 DEF ToSet
    <2> QED
      BY <2>2, <2>3 DEF Reads
  <1>13. \A j : Kept(u, b, j) \subseteq V
    BY DEF Kept
  <1> HIDE DEF T, C, a, m, c, V, n, source
  <1>14. ASSUME NEW k \in DOMAIN c.uses
         PROVE  <<m.uses[k], c.uses[k]>> \in Pairs(u, b, i)
    <2>1. a.uses[k] \in V /\ Reads(source, b, i, a.uses[k])
      BY <1>5, <1>12
    <2>2. a.uses[k] \in Kept(u, b, i)
      BY <1>11, <2>1
    <2> QED
      BY <1>3, <1>5, <1>10, <2>2
  <1>15. ASSUME NEW x, NEW y, <<x, y>> \in Pairs(u, b, i + 1)
         PROVE  /\ x \in ToSet(m.definitions) <=> y \in ToSet(c.definitions)
                /\ x \notin ToSet(m.definitions) => <<x, y>> \in Pairs(u, b, i)
    <2>1. PICK v \in Kept(u, b, i + 1) : x = SsaValue(v, 0) /\ y = SsaValue(v, T(i)[v])
      BY <1>10, <1>15
    <2>2. v \in V /\ v \in Nat /\ 0 \in 0 .. VersionSpan - 1
      BY <1>8, <1>13, VersionSpanAssumption
    <2>3. x \in ToSet(m.definitions) <=> v \in ToSet(a.definitions)
      <3>1. ASSUME NEW w \in V, x = SsaValue(w, 0) PROVE w = v
        BY <1>8, <2>1, <2>2, <3>1, SsaValuesDiffer
      <3> QED
        BY <1>3, <2>1, <2>2, <3>1
    <2>4. y \in ToSet(c.definitions) <=> v \in ToSet(a.definitions)
      <3>1. ASSUME v \in ToSet(a.definitions) PROVE y \in ToSet(c.definitions)
        <4>1. y = SiteValue(source, Placed(u), b, i, v)
          BY <1>8, <1>9, <2>1, <2>2, <3>1
        <4> QED
          BY <1>6, <1>7, <2>2, <3>1, <4>1
      <3>2. ASSUME y \in ToSet(c.definitions) PROVE v \in ToSet(a.definitions)
        <4>1. PICK w \in V : IsSite(source, Placed(u), b, i, w) /\ y = SiteValue(source, Placed(u), b, i, w)
          BY <1>6, <3>2
        <4>2. w \in Nat /\ C[w] \in 0 .. VersionSpan - 1 /\ y = SsaValue(w, C[w])
          BY <1>8, <4>1
        <4>3. T(i)[v] \in 0 .. VersionSpan - 1
          BY <1>8, <2>2
        <4>4. w = v
          BY <2>1, <2>2, <4>2, <4>3, SsaValuesDiffer
        <4> QED
          BY <1>7, <4>1, <4>4
      <3> QED
        BY <3>1, <3>2
    <2>5. ASSUME v \notin ToSet(a.definitions) PROVE <<x, y>> \in Pairs(u, b, i)
      <3>1. v \in Kept(u, b, i) /\ T(i)[v] = T(i - 1)[v]
        BY <1>9, <1>11, <2>2, <2>5
      <3> QED
        BY <1>10, <2>1, <3>1
    <2> QED
      BY <2>3, <2>4, <2>5
  <1>16. DOMAIN m.uses = DOMAIN c.uses /\ m.opcode = c.opcode /\ m.immediate = c.immediate
    BY <1>3, <1>5
  <1> QED
    BY <1>14, <1>15, <1>16 DEF SameInstruction, m, c
-----------------------------------------------------------------------------
(* A block without a phi of v gets the version of v its predecessors have. *)
LEMMA VersionsThroughABlock ==
    ASSUME NEW source, NEW placement, RenamesSource(source, placement),
           NEW b \in ReachableFrom(source.succ, source.start), NEW v \in source.variables,
           b \notin DefiningBlocks(source, v), <<b, v>> \notin placement, b # source.start
    PROVE  Renamed(source, placement).top[b][v]
             = Renamed(source, placement).top[ImmediateDominator(source.succ, source.start, b)][v]
  <1> DEFINE n == Len(source.instructions[b])
             T(i) == TopsIn(source, placement, b, i)
             top == Renamed(source, placement).top
             d == ImmediateDominator(source.succ, source.start, b)
             Good == { i \in Nat : T(i)[v] = top[d][v] }
  <1>1. /\ n \in Nat /\ top[b] = T(n)
        /\ T(0)[v] = top[d][v]
        /\ \A i \in 1 .. n : Defines(source, b, i, v) \/ T(i)[v] = T(i - 1)[v]
    BY RenamingOfBlocks DEF BlockRenaming
  <1>2. \A i \in 1 .. n : ~Defines(source, b, i, v)
    BY ProgramFacts DEF RenamesSource, DefiningBlocks, Defines
  <1> HIDE DEF T, top, d, n
  <1>3. 0 \in Good /\ \A i \in 1 .. n : i - 1 \in Good => i \in Good
    BY <1>1, <1>2
  <1> HIDE DEF Good
  <1>4. \A i \in 0 .. n : i \in Good
    BY <1>1, <1>3, BoundedInduction
  <1> QED
    BY <1>1, <1>4 DEF top, d, Good

(* A variable that needs no phi in a block has, at the end of each         *)
(* predecessor, the version it has at the end of the immediate dominator.  *)
LEMMA VersionsUpTheTree ==
    ASSUME NEW source, NEW placement, RenamesSource(source, placement),
           NEW wanted, PhisPlaced(source, placement, wanted),
           NEW s \in ReachableFrom(source.succ, source.start), s # source.start,
           NEW b \in UniquePredecessors(source.succ, ReachableFrom(source.succ, source.start), s),
           NEW v \in source.variables, <<s, v>> \in wanted, <<s, v>> \notin placement
    PROVE  Renamed(source, placement).top[b][v]
             = Renamed(source, placement).top[ImmediateDominator(source.succ, source.start, s)][v]
  <1> DEFINE R == ReachableFrom(source.succ, source.start)
             D(x) == DominatedBy(source.succ, source.start, x)
             I(x) == ImmediateDominator(source.succ, source.start, x)
             d == I(s)
             top == Renamed(source, placement).top
             N == Entries(source)
             B(k) == BlockAt(source, k)
             Same(x) == x \in D(d) /\ b \in D(x) => top[x][v] = top[d][v]
             Good == { k \in Nat : \A j \in 1 .. N : j <= k => Same(B(j)) }
  <1>1. IsProgram(source, source.variables)
    BY DEF RenamesSource
  <1>2. source.start \in DOMAIN source.succ /\ IsGraph(source.succ) /\ source.start \in R
    BY <1>1, ProgramFacts, ReachableIsClosed
  <1>3. /\ N \in Nat
        /\ \A k \in 1 .. N : B(k) \in R
        /\ \A x \in R : \E k \in 1 .. N : B(k) = x
        /\ \A k \in 1 .. N : B(k) # source.start => \E j \in 1 .. k - 1 : B(j) = I(B(k))
    BY <1>1, EntriesFacts
  <1>4. /\ \A x \in R : D(x) \subseteq R /\ x \in D(x)
        /\ D(source.start) = R
        /\ \A x, y, z \in R : y \in D(x) /\ z \in D(y) => z \in D(x)
        /\ \A x, y \in R : y \in D(x) /\ x \in D(y) => x = y
        /\ \A x, p, y \in R : y \in D(x) /\ y # x /\ y \in Targets(source.succ, p) => p \in D(x)
    BY <1>2, DominanceIsAnOrder DEF DominanceOrder
  <1>5. \A x \in R : x # source.start => /\ I(x) \in R /\ I(x) # x /\ x \in D(I(x))
                                         /\ \A e \in R : x \in D(e) /\ x # e => I(x) \in D(e)
    BY <1>2, ImmediateDominatorFacts
  <1>6. b \in R /\ s \in Targets(source.succ, b)
    BY DEF UniquePredecessors, UniqueSuccessors
  <1>7. \A x \in R : b \in D(x) /\ ~(s \in D(x) /\ s # x) => s \in Frontier(source.succ, source.start, x)
    BY DEF Frontier
  <1>8. \A x \in Defined(source, placement, v) : s \notin Frontier(source.succ, source.start, x)
    BY DEF PhisPlaced
  <1>9. \A x \in R : x \notin Defined(source, placement, v) =>
            x # source.start /\ x \notin DefiningBlocks(source, v) /\ <<x, v>> \notin placement
    BY DEF Defined
  <1>10. \A x \in R : /\ x \notin DefiningBlocks(source, v) /\ <<x, v>> \notin placement
                      /\ x # source.start
                      => top[x][v] = top[I(x)][v]
    BY VersionsThroughABlock
  <1> HIDE DEF R, D, I, top, N, B
  <1>11. d \in R /\ d # s /\ s \in D(d)
    BY <1>5 DEF R
  <1>12. ASSUME NEW x \in R, x \in D(d), x # d, b \in D(x)
         PROVE  x # source.start /\ top[x][v] = top[I(x)][v] /\ I(x) \in D(d) /\ b \in D(I(x))
    <2>3. x # source.start /\ top[x][v] = top[I(x)][v]
      BY <1>9, <1>10, <1>7, <1>8, <1>12, <1>5, <1>4, <1>11 DEF R
    <2> QED
      BY <2>3, <1>5, <1>11, <1>12, <1>4, <1>6
  <1>13. ASSUME NEW k \in 1 .. N, k - 1 \in Good
         PROVE  k \in Good
    <2>1. \A j \in 1 .. N : j <= k - 1 => Same(B(j))
      BY <1>13
    <2>2. B(k) \in R
      BY <1>3
    <2> HIDE DEF d
    <2>3. ASSUME B(k) \in D(d), b \in D(B(k)), B(k) # d
          PROVE  top[B(k)][v] = top[d][v]
      <3>1. /\ B(k) # source.start /\ top[B(k)][v] = top[I(B(k))][v]
            /\ I(B(k)) \in D(d) /\ b \in D(I(B(k)))
        BY <1>12, <2>2, <2>3
      <3>2. PICK j \in 1 .. k - 1 : B(j) = I(B(k))
        BY <1>3, <3>1
      <3> QED
        BY <3>1, <3>2, <2>1, <1>3
    <2>4. Same(B(k))
      BY <2>3
    <2> HIDE DEF Same
    <2> QED
      BY <2>1, <2>4, <1>3
  <1>14. 0 \in Good
    BY <1>3
  <1> HIDE DEF Good, Same
  <1>15. \A k \in 0 .. N : k \in Good
    BY <1>3, <1>13, <1>14, BoundedInduction
  <1>16. PICK k \in 1 .. N : B(k) = b
    BY <1>3, <1>6
  <1>18. b \in D(d) /\ b \in D(b)
    BY <1>4, <1>6, <1>11 DEF R
  <1> QED
    BY <1>3, <1>15, <1>16, <1>18 DEF Same, d, top, I, Good

(* What the edge from b to s makes of the pairs.                           *)
SameEdge(u, b, s) ==
    \A x, y : <<x, y>> \in Pairs(u, s, 1) =>
        <<PhiSource(Meaning(u), b, s, x), PhiSource(Constructed(u), b, s, y)>>
            \in Pairs(u, b, Length(u.program, b) + 1)

(* The phis of a block, and what they take from a predecessor.             *)
LEMMA PhisOfAForm ==
    ASSUME NEW source, NEW placement, RenamesSource(source, placement),
           NEW p, FormOf(source, placement, p),
           NEW s \in ReachableFrom(source.succ, source.start),
           NEW b \in UniquePredecessors(source.succ, ReachableFrom(source.succ, source.start), s),
           NEW v \in source.variables, NEW y, y = SsaValue(v, TopsIn(source, placement, s, 0)[v])
    PROVE  PhiSource(p, b, s, y) =
               IF <<s, v>> \in placement THEN SsaValue(v, TopsIn(source, placement, b, Length(source, b))[v])
               ELSE y
  <1> DEFINE V == source.variables
             W == { w \in V : <<s, w>> \in placement }
             Phi(w) == PhiOf(source, placement, s, w)
             T(w) == TopsIn(source, placement, s, 0)[w]
  <1>1. p.phis[s] = { Phi(w) : w \in W }
    BY DEF FormOf
  <1>2. \A w \in V : /\ Phi(w).result = SsaValue(w, T(w))
                     /\ Phi(w).incoming[b]
                           = SsaValue(w, TopsIn(source, placement, b, Length(source, b))[w])
    BY DEF PhiOf
  <1>3. \A w \in V : w \in Nat /\ T(w) \in 0 .. VersionSpan - 1
    <2> TAKE w \in V
    <2> QED
      BY ProgramFacts, VersionsFit DEF RenamesSource, Length
  <1> HIDE DEF V, Phi, T
  <1>4. \A w \in W : Phi(w).result = y <=> w = v
    <2> TAKE w \in W
    <2> QED
      BY <1>2, <1>3, SsaValuesDiffer DEF V, T
  <1>5. CASE <<s, v>> \in placement
    BY <1>5, <1>1, <1>4, <1>2 DEF V, PhiSource
  <1>6. CASE <<s, v>> \notin placement
    BY <1>6, <1>1, <1>4 DEF PhiSource
  <1> QED
    BY <1>5, <1>6

(* Taking an edge and its phis, the versions before it become the versions *)
(* after it.                                                               *)
LEMMA EdgesOfACompilation ==
    ASSUME NEW u, IsCompiled(u),
           NEW b \in ReachableFrom(u.program.succ, u.program.start),
           NEW s \in Targets(u.program.succ, b)
    PROVE  SameEdge(u, b, s)
  <1> DEFINE source == u.program
             R == ReachableFrom(source.succ, source.start)
             n == Length(source, b)
  <1>1. CASE u.construction = "none"
    <2>1. Constructed(u) = source /\ Meaning(u) = source
      BY <1>1 DEF Constructed, Meaning
    <2>4. \A x \in DefinedValues(source) : PhiSource(source, b, s, x) \in DefinedValues(source)
      BY <2>1, UnitsAreSsa, SsaBlocks, CopiesOfAnEdge DEF IsCompiled
    <2>6. \A j, x, y : <<x, y>> \in Pairs(u, s, j) <=> x \in DefinedValues(source) /\ x = y
      BY <1>1 DEF Pairs
    <2> HIDE DEF source
    <2> QED
      BY <2>1, <2>4, <1>1, <2>6 DEF SameEdge, Pairs
  <1>2. CASE u.construction # "none"
    <2> DEFINE q == Constructed(u)
               placement == Placed(u)
               wanted == Wanted(source, u.construction)
               T(c, i) == TopsIn(source, placement, c, i)
    <2>1. /\ RenamesSource(source, placement) /\ PhisPlaced(source, placement, wanted)
          /\ FormOf(source, placement, q) /\ IsProgram(source, source.variables)
      BY <1>2, ConstructedForm DEF IsCompiled, RenamesSource
    <2>2. /\ source.start \in DOMAIN source.succ /\ IsGraph(source.succ) /\ R \subseteq DOMAIN source.succ
          /\ n \in Nat
      BY <2>1, ProgramFacts DEF Length
    <2>4. s \in R /\ b \in UniquePredecessors(source.succ, R, s)
      BY <2>2, ReachableIsClosed DEF UniquePredecessors, UniqueSuccessors
    <2>5. s # source.start
      BY <1>2, <2>2 DEF IsCompiled, SourceAccepted, Blocks
    <2>6. \A x : PhiSource(Meaning(u), b, s, x) = x
      BY <1>2, <2>2, <2>4 DEF Meaning, Unversioned, IsCompiled, IsUnit, Blocks, PhiSource
    <2>7. \A v \in Kept(u, s, 1) : v \in Kept(u, b, n + 1) /\ <<s, v>> \in wanted /\ v \in source.variables
      <3> TAKE v \in Kept(u, s, 1)
      <3>1. v \in source.variables /\ (u.construction = "pruned" => LiveBefore(source, s, 1, v))
        BY DEF Kept
      <3>2. u.construction = "pruned" => s \in LiveInBlocks(source, v)
        BY <2>1, <2>4, <3>1, LivenessFacts
      <3>3. u.construction = "pruned" => LiveBefore(source, b, n + 1, v)
        <4> HIDE DEF n
        <4> QED
          BY <3>2, <2>2 DEF LiveBefore, n
      <3> QED
        BY <2>4, <3>1, <3>2, <3>3 DEF Kept, Wanted
    <2>8. \A x, y : /\ <<x, y>> \in Pairs(u, s, 1) <=>
                           \E v \in Kept(u, s, 1) : x = SsaValue(v, 0) /\ y = SsaValue(v, T(s, 0)[v])
                    /\ <<x, y>> \in Pairs(u, b, n + 1) <=>
                           \E v \in Kept(u, b, n + 1) : x = SsaValue(v, 0) /\ y = SsaValue(v, T(b, n)[v])
      <3>2. \A c, j : Pairs(u, c, j) = { <<SsaValue(v, 0), VersionBefore(u, c, j, v)>> : v \in Kept(u, c, j) }
        BY <1>2 DEF Pairs
      <3>3. ASSUME NEW c, NEW j, NEW i, i = j - 1, NEW x, NEW y
            PROVE  <<x, y>> \in Pairs(u, c, j) <=>
                       \E v \in Kept(u, c, j) : x = SsaValue(v, 0) /\ y = SsaValue(v, T(c, i)[v])
        <4> DEFINE top == T(c, i)
                   kept == Kept(u, c, j)
        <4>2. Pairs(u, c, j) = { <<SsaValue(v, 0), VersionBefore(u, c, j, v)>> : v \in kept }
          BY <3>2
        <4> HIDE DEF top, kept
        <4> QED
          BY <3>3, <4>2 DEF top, kept, VersionBefore
      <3> HIDE DEF T, n
      <3> TAKE x, y
      <3> QED
        BY <2>2, <3>3
    <2>9. ASSUME NEW v \in Kept(u, s, 1)
          PROVE  PhiSource(q, b, s, SsaValue(v, T(s, 0)[v])) = SsaValue(v, T(b, n)[v])
      <3>1. v \in source.variables /\ <<s, v>> \in wanted
        BY <2>7
      <3>3. ASSUME <<s, v>> \notin placement PROVE T(s, 0)[v] = T(b, n)[v]
        <4> DEFINE top == Renamed(source, placement).top
                   d == ImmediateDominator(source.succ, source.start, s)
        <4>2. T(s, 0)[v] = top[d][v] /\ top[b] = T(b, n)
          BY <2>5, <3>1, <3>3, <2>1, <2>4, RenamingOfBlocks DEF BlockRenaming, Length
        <4> QED
          BY <4>2, <2>1, <2>4, <2>5, <3>1, <3>3, VersionsUpTheTree
      <3> QED
        BY <2>1, <2>4, <3>1, PhisOfAForm, <3>3
    <2> HIDE DEF q, T, wanted, placement
    <2>10. ASSUME NEW x, NEW y, <<x, y>> \in Pairs(u, s, 1)
           PROVE  <<x, PhiSource(q, b, s, y)>> \in Pairs(u, b, n + 1)
      <3>1. PICK v \in Kept(u, s, 1) : x = SsaValue(v, 0) /\ y = SsaValue(v, T(s, 0)[v])
        BY <2>8, <2>10
      <3> QED
        BY <2>8, <3>1, <2>7, <2>9, ZenonT(60)
    <2> QED
      BY <2>6, <2>10 DEF SameEdge, q
  <1> QED
    BY <1>1, <1>2
-----------------------------------------------------------------------------
(* A compilation keeps the graph, and the number of instructions.          *)
LEMMA CompiledShape ==
    ASSUME NEW u, IsCompiled(u)
    PROVE  LET source == u.program
               R      == ReachableFrom(source.succ, source.start)
           IN  /\ Meaning(u).start = source.start /\ Meaning(u).succ = source.succ
               /\ Constructed(u).start = source.start /\ Constructed(u).succ = source.succ
               /\ IsSsa(Constructed(u))
               /\ source.start \in R /\ R \subseteq DOMAIN source.succ
               /\ \A b \in R : /\ Targets(source.succ, b) \subseteq R
                               /\ Length(source, b) \in Nat
                               /\ Len(Meaning(u).instructions[b]) = Length(source, b)
                               /\ Len(Constructed(u).instructions[b]) = Length(source, b)
  <1> PICK source, R : source = u.program /\ R = ReachableFrom(source.succ, source.start)
    OBVIOUS
  <1>2. /\ source.start \in DOMAIN source.succ /\ IsGraph(source.succ)
        /\ \A b \in DOMAIN source.succ : Length(source, b) \in Nat
    BY ProgramFacts DEF Length, IsCompiled, IsUnit
  <1>3. /\ source.start \in R /\ R \subseteq DOMAIN source.succ
        /\ \A b \in R : Targets(source.succ, b) \subseteq R
    BY <1>2, ReachableIsClosed
  <1>4. IsSsa(Constructed(u)) /\ Constructed(u).start = source.start /\ Constructed(u).succ = source.succ
    BY UnitsAreSsa, ConstructedInstructions DEF IsCompiled
  <1>5. CASE u.construction = "none"
    BY <1>5, <1>2, <1>3, <1>4 DEF Constructed, Meaning, Length
  <1>6. CASE u.construction # "none"
    <2>1. Meaning(u) = Unversioned(source) /\ IsProgram(source, source.variables)
      BY <1>6 DEF Meaning, IsCompiled, IsUnit
    <2>2. Meaning(u).start = source.start /\ Meaning(u).succ = source.succ
      <3>1. Unversioned(source).start = source.start
        BY DEF Unversioned
      <3>2. Unversioned(source).succ = source.succ
        BY DEF Unversioned
      <3> QED
        BY <2>1, <3>1, <3>2
    <2>3. \A b \in R : RunsAs(source, Meaning(u), b)
      BY <1>3, <2>1, UnversionedRuns DEF Blocks
    <2>6. \A b \in R : Len(Constructed(u).instructions[b]) = Length(source, b)
      BY <1>6, ConstructedForm DEF FormOf, IsCompiled
    <2> QED
      BY <1>2, <1>3, <1>4, <2>2, <2>3, <2>6 DEF RunsAs
  <1> QED
    BY <1>5, <1>6

(* Paired values are values of the programs. *)
LEMMA PairsAreOfValues ==
    ASSUME NEW u, IsCompiled(u),
           NEW b \in ReachableFrom(u.program.succ, u.program.start),
           NEW i \in 1 .. Length(u.program, b) + 1, NEW x, NEW y, <<x, y>> \in Pairs(u, b, i)
    PROVE  x \in DefinedValues(Meaning(u)) /\ y \in DefinedValues(Constructed(u))
  <1> PICK source, placement : source = u.program /\ placement = Placed(u)
    OBVIOUS
  <1>1. CASE u.construction = "none"
    BY <1>1 DEF Constructed, Meaning, Pairs
  <1>2. CASE u.construction # "none"
    <2>1. PICK v \in source.variables : x = SsaValue(v, 0) /\ y = SsaValue(v, TopsIn(source, placement, b, i - 1)[v])
      BY <1>2 DEF Pairs, Kept, VersionBefore
    <2>5. i - 1 \in 0 .. Length(source, b)
      <3>1. Length(source, b) \in Nat
        BY CompiledShape
      <3> QED
        BY <3>1
    <2>7. y \in DefinedValues(Constructed(u))
      BY <2>1, <1>2, ConstructedForm, <2>5, TopsAreVersions, FormValues DEF IsCompiled
    <2> QED
      BY <2>1, <1>2, <2>7 DEF DefinedValues, Meaning, Unversioned
  <1> QED
    BY <1>1, <1>2

(* At the start of the program every value is paired with itself. *)
LEMMA PairsAtTheStart ==
    ASSUME NEW u, IsCompiled(u), NEW x, NEW y, <<x, y>> \in Pairs(u, u.program.start, 1)
    PROVE  x = y
  <1> PICK source, placement, b : source = u.program /\ placement = Placed(u) /\ b = u.program.start
    OBVIOUS
  <1>1. CASE u.construction = "none"
    BY <1>1 DEF Pairs
  <1>2. CASE u.construction # "none"
    <2>1. PICK v \in source.variables : x = SsaValue(v, 0) /\ y = SsaValue(v, TopsIn(source, placement, b, 1 - 1)[v])
      BY <1>2 DEF Pairs, Kept, VersionBefore
    <2>2. /\ RenamesSource(source, placement)
          /\ PhisPlaced(source, placement, Wanted(source, u.construction))
      BY <1>2, ConstructedForm DEF IsCompiled
    <2>4. BlockRenaming(source, placement, b)
      BY <2>2, CompiledShape, RenamingOfBlocks
    <2>6. TopsIn(source, placement, b, 0)[v] = 0
      BY <2>4, <2>2 DEF BlockRenaming, PhisPlaced
    <2> QED
      BY <2>1, <2>6
  <1> QED
    BY <1>1, <1>2

(* The version on top of the stack of a variable when a block begins.      *)
LEMMA PairsOnEntry ==
    ASSUME NEW u, IsCompiled(u), u.construction # "none",
           NEW b \in ReachableFrom(u.program.succ, u.program.start),
           NEW v \in u.program.variables,
           u.construction = "minimal" \/ b \in LiveInBlocks(u.program, v)
    PROVE  <<SsaValue(v, 0), SsaValue(v, Constructed(u).entry[b][v])>> \in Pairs(u, b, 1)
  <1> PICK source, placement : source = u.program /\ placement = Placed(u)
    OBVIOUS
  <1> QED
    BY ConstructedForm, LivenessFacts DEF Pairs, FormOf, RenamesSource, Kept, IsCompiled,
       VersionBefore
(* The terminator of a block of the program, in the compiled one: the same *)
(* kind, the same logical targets, and a predicate that the copies on an   *)
(* edge do not overwrite.                                                  *)
SamePredicate(u, b) ==
    LET m == Meaning(u).control[b]
        c == Constructed(u).control[b]
    IN  /\ <<m.predicate, c.predicate>> \in Pairs(u, b, Length(u.program, b) + 1)
        /\ \A s \in Targets(u.program.succ, b) :
               PhiSource(Constructed(u), b, s, c.predicate) = c.predicate

(* A branch of the SSA program reads the version of the variable its       *)
(* source reads.                                                           *)
LEMMA PredicatesOfACompilation ==
    ASSUME NEW u, IsCompiled(u), u.construction = "minimal",
           NEW b \in ReachableFrom(u.program.succ, u.program.start),
           u.program.control[b].kind = "branch_if_nonzero"
    PROVE  SamePredicate(u, b)
  <1> PICK source, placement, n, R, a : /\ source = u.program /\ placement = Placed(u)
                                        /\ n = Length(source, b)
                                        /\ R = ReachableFrom(source.succ, source.start)
                                        /\ a = source.control[b]
    OBVIOUS
  <1>1. /\ RenamesSource(source, placement) /\ FormOf(source, placement, Constructed(u))
        /\ IsProgram(source, source.variables)
    BY ConstructedForm DEF IsCompiled, RenamesSource
  <1>2. b \in Blocks(source.succ) /\ n \in Nat /\ b \in R
    BY CompiledShape DEF Blocks
  <1>3. a.predicate \in source.variables /\ "predicate" \in DOMAIN a
    BY <1>1, <1>2 DEF IsProgram
  <1> PICK v, top : v = a.predicate /\ top = TopsIn(source, placement, b, n)
    OBVIOUS
  <1>5. Constructed(u).control[b].predicate = SsaValue(v, top[v])
    BY <1>3, <1>1, <1>2, ZenonT(60) DEF FormOf
  <1>6. Meaning(u).control[b].predicate = SsaValue(v, 0)
    <2>2. RunsAs(source, Meaning(u), b)
      BY <1>1, <1>2, UnversionedRuns DEF Meaning
    <2> QED
      BY <1>3, <2>2 DEF RunsAs
  <1>7. <<SsaValue(v, 0), SsaValue(v, top[v])>> \in Pairs(u, b, n + 1)
    BY <1>3, <1>2 DEF Kept, VersionBefore, Pairs
  <1>8. ASSUME NEW s \in Targets(source.succ, b)
        PROVE  PhiSource(Constructed(u), b, s, SsaValue(v, top[v])) = SsaValue(v, top[v])
    <2> PICK q, y, entry : q = Constructed(u) /\ y = SsaValue(v, top[v]) /\ entry = TopsIn(source, placement, s, 0)
      OBVIOUS
    <2>1. s \in R /\ b \in UniquePredecessors(source.succ, R, s)
      BY <1>2, CompiledShape DEF UniquePredecessors, UniqueSuccessors
    <2>2. CASE \E phi \in q.phis[s] : phi.result = y
      <3>1. PICK phi \in q.phis[s] : phi.result = y
        BY <2>2
      <3>2. PICK w \in source.variables : phi = PhiOf(source, placement, s, w) /\ <<s, w>> \in placement
        BY <1>1, <2>1 DEF FormOf
      <3>3. y = SsaValue(w, entry[w])
        BY <3>1, <3>2 DEF PhiOf
      <3>4. w \in Nat /\ entry[w] \in 0 .. VersionSpan - 1
        <4>1. 0 \in 0 .. Length(source, s)
          BY <2>1, CompiledShape, SMTT(30)
        <4> QED
          BY <1>1, <2>1, <4>1, VersionsFit
      <3>5. v \in Nat /\ top[v] \in 0 .. VersionSpan - 1
        BY <1>2, <1>1, <1>3, VersionsFit
      <3>6. w = v
        <4> PICK i, j : i = entry[w] /\ j = top[v]
          OBVIOUS
        <4>1. i \in 0 .. VersionSpan - 1 /\ j \in 0 .. VersionSpan - 1 /\ SsaValue(v, j) = SsaValue(w, i)
          BY <3>3, <3>4, <3>5
        <4> QED
          BY <3>4, <3>5, <4>1, SsaValuesDiffer
      <3>7. y = SsaValue(v, TopsIn(source, placement, s, 0)[v]) /\ v \in source.variables
        BY <1>3, <3>3, <3>6
      <3>8. PhiSource(q, b, s, y) = IF <<s, v>> \in placement
                                    THEN SsaValue(v, TopsIn(source, placement, b, Length(source, b))[v])
                                    ELSE y
        <4>1. /\ s \in ReachableFrom(source.succ, source.start)
              /\ b \in UniquePredecessors(source.succ, ReachableFrom(source.succ, source.start), s)
          BY <2>1
        <4>2. RenamesSource(source, placement) /\ FormOf(source, placement, q)
          BY <1>1
        <4> QED
          BY ONLY <3>7, <4>1, <4>2, PhisOfAForm
      <3> QED
        BY <3>8
    <2>3. CASE ~\E phi \in q.phis[s] : phi.result = y
      BY <2>3 DEF PhiSource
    <2> QED
      BY <2>2, <2>3
  <1> QED
    BY <1>5, <1>6, <1>7, <1>8 DEF SamePredicate
(* What giving a phi-free program its terminators leaves alone.            *)
LEMMA ControlledProgram ==
    ASSUME NEW p, NEW arcs, arcs = SplitArcs(p, LoweringPlans(p).plans),
           NEW d, d = DestroySsa(p), NEW c, c = WithControl(p, d)
    PROVE  /\ c.start = d.start /\ c.variables = d.variables
           /\ c.original_count = d.original_count /\ c.temporary_count = d.temporary_count
           /\ c.succ = d.succ /\ c.entry_moves = d.entry_moves
           /\ c.exit_moves = d.exit_moves /\ c.instructions = d.instructions
           /\ \A b \in DOMAIN d.succ :
                  /\ d.control[b].kind = "opaque"
                  /\ b < d.original_count => c.control[b] = LowerControl(p, arcs, b)
                  /\ ~(b < d.original_count) =>
                         /\ c.control[b].kind = "jump"
                         /\ c.control[b].nonzero.execution_successor = d.succ[b][1]
  <1>1. DOMAIN d = { "start", "variables", "original_count", "temporary_count", "succ",
                     "entry_moves", "exit_moves", "instructions", "control" }
    BY DEF DestroySsa
  <1>2. DOMAIN d.control = DOMAIN d.succ /\ \A b \in DOMAIN d.succ : d.control[b].kind = "opaque"
    BY DEF DestroySsa
  <1>3. PICK f : /\ c = [d EXCEPT !.control = f]
                 /\ f = [ b \in DOMAIN d.control |->
                            IF b < d.original_count THEN LowerControl(p, arcs, b)
                            ELSE [ kind |-> "jump", predicate |-> -1,
                                   nonzero |-> [ logical_successor |-> d.succ[b][1],
                                                 execution_successor |-> d.succ[b][1] ],
                                   zero    |-> [ logical_successor |-> d.succ[b][1],
                                                 execution_successor |-> d.succ[b][1] ] ] ]
    BY DEF WithControl
  <1>4. /\ c.start = d.start /\ c.variables = d.variables
        /\ c.original_count = d.original_count /\ c.temporary_count = d.temporary_count
        /\ c.succ = d.succ /\ c.entry_moves = d.entry_moves
        /\ c.exit_moves = d.exit_moves /\ c.instructions = d.instructions
        /\ c.control = f
    BY ONLY <1>1, <1>3
  <1>5. ASSUME NEW b \in DOMAIN d.succ
        PROVE  /\ b < d.original_count => c.control[b] = LowerControl(p, arcs, b)
               /\ ~(b < d.original_count) =>
                      /\ c.control[b].kind = "jump"
                      /\ c.control[b].nonzero.execution_successor = d.succ[b][1]
    BY ONLY <1>2, <1>3, <1>4, <1>5
  <1> QED
    BY ONLY <1>2, <1>4, <1>5

(* q is the SSA program of u, and lowered the phi-free program of q.       *)
IsCompilation(u, q, T, plans, arcs, lowered) ==
    /\ IsCompiled(u) /\ q = Constructed(u) /\ lowered = Lowered(u, q)
    /\ arcs = SplitArcs(q, LoweringPlans(q).plans)
    /\ IsDestroyed(q, T, plans, arcs, lowered)

(* An accepted unit is compiled.                                           *)
LEMMA UnitsAreLowered ==
    ASSUME NEW u, IsCompiled(u), NEW q, q = Constructed(u), NEW lowered, lowered = Lowered(u, q)
    PROVE  /\ \E T, plans, arcs : IsCompilation(u, q, T, plans, arcs, lowered)
           /\ lowered.start = q.start /\ lowered.variables = q.variables
  <1>2. PICK T, plans, arcs : /\ arcs = SplitArcs(q, LoweringPlans(q).plans)
                              /\ IsDestroyed(q, T, plans, arcs, DestroySsa(q))
    BY UnitsAreSsa, DestroyedFacts DEF IsCompiled
  <1> PICK d : d = DestroySsa(q)
    OBVIOUS
  <1>3. d.start = q.start /\ d.variables = q.variables
    BY DEF DestroySsa
  <1>4. IsDestroyed(q, T, plans, arcs, d)
    BY <1>2
  <1>5. CASE u.construction # "minimal"
    BY <1>5, <1>2, <1>3, <1>4 DEF Lowered, IsCompilation
  <1>6. CASE u.construction = "minimal"
    <2>2. /\ lowered.start = d.start /\ lowered.variables = d.variables
          /\ lowered.original_count = d.original_count /\ lowered.temporary_count = d.temporary_count
          /\ lowered.succ = d.succ /\ lowered.entry_moves = d.entry_moves
          /\ lowered.exit_moves = d.exit_moves /\ lowered.instructions = d.instructions
      BY <1>2, <1>6, ControlledProgram DEF Lowered
    <2>3. IsDestroyed(q, T, plans, arcs, lowered)
      BY ONLY <1>4, <2>2 DEF IsDestroyed, IsLowered
    <2> QED
      BY <1>2, <1>3, <2>2, <2>3 DEF IsCompilation
  <1> QED
    BY <1>5, <1>6

(* A target of a terminator of b leads to s, by the block that stands for  *)
(* the edge.                                                               *)
LeadsTo(q, lowered, b, s, target) ==
    /\ target.logical_successor = s
    /\ Reaches(q, lowered, b, s, target.execution_successor)

(* The terminator of b in the phi-free program is the one of its source,   *)
(* its targets lowered.                                                    *)
SameControl(u, q, lowered, b) ==
    LET m == Meaning(u).control[b]
        c == lowered.control[b]
    IN  /\ m.kind \in {"jump", "branch_if_nonzero", "opaque"} /\ c.kind = m.kind
        /\ m.kind # "opaque" => /\ LeadsTo(q, lowered, b, m.nonzero, c.nonzero)
                                /\ LeadsTo(q, lowered, b, m.zero, c.zero)
        /\ m.kind = "branch_if_nonzero" => c.predicate = q.control[b].predicate /\ SamePredicate(u, b)

(* Every terminator is; the one of a split block leads to its only         *)
(* successor.                                                              *)
LEMMA ControlsAreLowered ==
    ASSUME NEW u, NEW q, NEW T, NEW plans, NEW arcs, NEW lowered,
           IsCompilation(u, q, T, plans, arcs, lowered)
    PROVE  /\ \A b \in ReachableFrom(u.program.succ, u.program.start) : SameControl(u, q, lowered, b)
           /\ \A b \in DOMAIN lowered.succ : ~(b < lowered.original_count) =>
                  \/ lowered.control[b].kind = "opaque"
                  \/ /\ lowered.control[b].kind = "jump"
                     /\ lowered.control[b].nonzero.execution_successor = lowered.succ[b][1]
  <1> PICK source, R, d : source = u.program /\ R = ReachableFrom(source.succ, source.start) /\ d = DestroySsa(q)
    OBVIOUS
  <1>1. IsCompiled(u) /\ IsDestroyed(q, T, plans, arcs, lowered) /\ q.succ = source.succ /\ q.start = source.start
    BY CompiledShape DEF IsCompilation
  <1>2. /\ R \subseteq DOMAIN source.succ
        /\ \A b \in R : b \in DOMAIN lowered.succ /\ b < lowered.original_count
    BY <1>1, CompiledShape, LoweredBlocks
  <1> PICK w : w = WithControl(q, d)
    OBVIOUS
  <1>4. /\ w.original_count = d.original_count /\ w.succ = d.succ
        /\ \A b \in DOMAIN d.succ :
                  /\ d.control[b].kind = "opaque"
                  /\ b < d.original_count => w.control[b] = LowerControl(q, arcs, b)
                  /\ ~(b < d.original_count) =>
                         /\ w.control[b].kind = "jump"
                         /\ w.control[b].nonzero.execution_successor = d.succ[b][1]
    BY ControlledProgram DEF IsCompilation
  <1>5. \A b \in R : Meaning(u).control[b] = source.control[b]
                     \/ /\ u.construction # "none" /\ source.control[b].kind = "branch_if_nonzero"
                        /\ Meaning(u).control[b] = [source.control[b] EXCEPT !.predicate = SsaValue(@, 0)]
    BY <1>1, <1>2, UnversionedRuns DEF Meaning, IsCompiled, IsUnit, Blocks, RunsAs
  <1>6. CASE u.construction # "minimal"
    <2>2. \A b \in R : source.control[b].kind = "opaque"
      BY <1>1, <1>2, <1>6 DEF IsCompiled, IsUnit, Blocks
    <2>3. \A b \in R : Meaning(u).control[b].kind = "opaque"
      <3> TAKE b \in R
      <3>2. Meaning(u).control[b] = source.control[b] \/ source.control[b].kind = "branch_if_nonzero"
        BY <1>5
      <3> QED
        BY <2>2, <3>2
    <2> QED
      BY <1>4, <1>6, <1>2, <2>3 DEF SameControl, Lowered, IsCompilation
  <1>7. CASE u.construction = "minimal"
    <2>1. lowered = w
      BY <1>7 DEF Lowered, IsCompilation
    <2>2. /\ FormOf(source, Placed(u), q) /\ IsProgram(source, source.variables)
      BY <1>1, <1>7, ConstructedForm DEF IsCompiled, RenamesSource, IsCompilation
    <2>3. ASSUME NEW b \in R PROVE SameControl(u, q, lowered, b)
      <3> PICK a, m, c, x, y : /\ a = source.control[b] /\ m = Meaning(u).control[b] /\ c = q.control[b]
                               /\ x = SsaValue(a.predicate, 0)
                               /\ y = SsaValue(a.predicate, TopsIn(source, Placed(u), b, Length(source, b))[a.predicate])
        OBVIOUS
      <3>1. /\ a \in [ kind : {"jump", "branch_if_nonzero", "opaque"}, predicate : Int, nonzero : Int, zero : Int ]
            /\ a.kind # "opaque" => {a.nonzero, a.zero} \subseteq Targets(source.succ, b)
        BY <1>2, <2>2 DEF IsProgram, Blocks
      <3>2. c = IF a.kind = "branch_if_nonzero" THEN [a EXCEPT !.predicate = y] ELSE a
        BY <2>2 DEF FormOf
      <3>3. m = a \/ m = [a EXCEPT !.predicate = x]
        BY <1>5
      <3>4. /\ m.kind = a.kind /\ m.nonzero = a.nonzero /\ m.zero = a.zero
            /\ c.kind = a.kind /\ c.nonzero = a.nonzero /\ c.zero = a.zero
            /\ "nonzero" \in DOMAIN c /\ "zero" \in DOMAIN c /\ "kind" \in DOMAIN c /\ "predicate" \in DOMAIN c
        BY ONLY <3>1, <3>2, <3>3
      <3>6. lowered.control[b] = IF c.kind = "opaque" THEN c
                                 ELSE [c EXCEPT !.nonzero = LowerTarget(q, arcs, b, c.nonzero),
                                                !.zero    = LowerTarget(q, arcs, b, c.zero)]
        BY <1>2, <1>4, <2>1 DEF LowerControl
      <3> PICK f : f = lowered.control[b]
        OBVIOUS
      <3>7. /\ f.kind = c.kind /\ f.predicate = c.predicate
            /\ c.kind # "opaque" => /\ f.nonzero = LowerTarget(q, arcs, b, c.nonzero)
                                    /\ f.zero = LowerTarget(q, arcs, b, c.zero)
        BY <3>4, <3>6
      <3>10. m.kind # "opaque" => LeadsTo(q, lowered, b, m.nonzero, f.nonzero) /\ LeadsTo(q, lowered, b, m.zero, f.zero)
        BY <3>1, <3>4, <3>7, <1>1, TargetsAreLowered DEF LeadsTo
      <3> QED
        BY <3>1, <3>4, <3>7, <1>1, <1>7, PredicatesOfACompilation, <3>10 DEF SameControl
    <2> QED
      BY <1>4, <2>1, <2>3
  <1> QED
    BY <1>6, <1>7
-----------------------------------------------------------------------------
(* Performing the moves from j + 1 on, some contents become others.        *)
Leads(moves, j, contents, after) ==
    \E f : /\ f[j] = contents /\ f[Len(moves)] = after
           /\ \A i \in j + 1 .. Len(moves) : f[i] = Applied(f[i - 1], moves[i])

(* After the last move nothing changes.                                    *)
LEMMA LeadsToTheEnd ==
    ASSUME NEW moves, Len(moves) \in Nat, NEW contents
    PROVE  /\ Leads(moves, Len(moves), contents, contents)
           /\ Len(moves) = 0 => \A after : Leads(moves, 0, contents, after) => after = contents
  <1> PICK n : n = Len(moves) /\ n \in Nat
    OBVIOUS
  <1>1. Leads(moves, n, contents, contents)
    <2> DEFINE f == [ i \in {n} |-> contents ]
    <2>1. f[n] = contents
      OBVIOUS
    <2> HIDE DEF f
    <2> QED
      BY <2>1 DEF Leads
  <1> QED
    BY <1>1 DEF Leads

(* One move more, at the front.                                            *)
LEMMA LeadsOneMove ==
    ASSUME NEW moves, Len(moves) \in Nat, NEW j \in 1 .. Len(moves), NEW contents, NEW after,
           Leads(moves, j, Applied(contents, moves[j]), after)
    PROVE  Leads(moves, j - 1, contents, after)
  <1> PICK n : n = Len(moves) /\ n \in Nat
    OBVIOUS
  <1>1. PICK f : /\ f[j] = Applied(contents, moves[j]) /\ f[n] = after
                 /\ \A i \in j + 1 .. n : f[i] = Applied(f[i - 1], moves[i])
    BY DEF Leads
  <1> DEFINE g == [ i \in j - 1 .. n |-> IF i = j - 1 THEN contents ELSE f[i] ]
  <1>2. /\ g[j - 1] = contents /\ \A i \in j .. n : g[i] = f[i]
    OBVIOUS
  <1> HIDE DEF g
  <1>3. \A i \in (j - 1) + 1 .. n : g[i] = Applied(g[i - 1], moves[i])
    <2> TAKE i \in (j - 1) + 1 .. n
    <2>1. CASE i = j
      BY <1>1, <1>2, <2>1
    <2>2. CASE i # j
      BY <2>2, <1>1, <1>2
    <2> QED
      BY <2>1, <2>2
  <1> QED
    BY <1>2, <1>3, <1>1 DEF Leads

(* The moves of an edge give each value what the copies of the edge give   *)
(* it.                                                                     *)
LEMMA LeadsThroughCopies ==
    ASSUME NEW V, NEW copies, NEW moves, NEW L, Carries(V, copies, moves, L),
           NEW contents, DOMAIN contents = L, NEW after, Leads(moves, 0, contents, after)
    PROVE  \A v \in V : after[ValueLocation(v)] = contents[ValueLocation(From(copies, v))]
  <1>1. PICK f : /\ f[0] = contents /\ f[Len(moves)] = after
                 /\ \A i \in 0 + 1 .. Len(moves) : f[i] = Applied(f[i - 1], moves[i])
    BY DEF Leads
  <1>2. IsRun(f, moves, Len(moves))
    BY <1>1 DEF IsRun
  <1> QED
    BY <1>1, <1>2 DEF Carries
-----------------------------------------------------------------------------
(* The operations of a block: its moves on entry, its instructions, its    *)
(* moves on exit.                                                          *)
OperationsAre(operation, E, C, X, e, n, o) ==
    /\ e \in Nat /\ n \in Nat /\ o \in Nat
    /\ Len(operation) = e + n + o
    /\ \A k \in 1 .. e : operation[k].kind = "move" /\ operation[k].move = E[k]
    /\ \A k \in 1 .. n : operation[e + k].kind = "instruction" /\ operation[e + k].instruction = C[k]
    /\ \A k \in 1 .. o : operation[e + n + k].kind = "move" /\ operation[e + n + k].move = X[k]

(* The members of a concatenation, by their places.                        *)
LEMMA JoinedSequences ==
    ASSUME NEW N, NEW s \in Seq(N), NEW t \in Seq(N), NEW m, m = Len(s), NEW n, n = Len(t), NEW r, r = s \o t
    PROVE  /\ r \in Seq(N) /\ Len(r) = m + n /\ m \in Nat /\ n \in Nat
           /\ \A k \in 1 .. m : r[k] = s[k]
           /\ \A k \in 1 .. n : r[m + k] = t[k]
  <1>1. m \in Nat /\ n \in Nat
    OBVIOUS
  <1>2. r \in Seq(N) /\ Len(r) = m + n
    BY ConcatProperties
  <1>3. \A k \in 1 .. m + n : r[k] = IF k <= m THEN s[k] ELSE t[k - m]
    BY ConcatProperties
  <1> QED
    BY ONLY <1>1, <1>2, <1>3

(* Operations joins them in this order.                                    *)
LEMMA OperationsOfABlock ==
    ASSUME NEW lowered, NEW b, NEW M, NEW I,
           NEW E \in Seq(M), E = lowered.entry_moves[b], NEW C \in Seq(I), C = lowered.instructions[b],
           NEW X \in Seq(M), X = lowered.exit_moves[b],
           NEW e, e = Len(E), NEW n, n = Len(C), NEW o, o = Len(X),
           NEW operation, operation = Operations(lowered, b)
    PROVE  OperationsAre(operation, E, C, X, e, n, o)
  <1> DEFINE N == [kind : {"move"}, move : M] \cup [kind : {"instruction"}, instruction : I]
             first == [ k \in DOMAIN E |-> [kind |-> "move", move |-> E[k]] ]
             second == [ k \in DOMAIN C |-> [kind |-> "instruction", instruction |-> C[k]] ]
             third == [ k \in DOMAIN X |-> [kind |-> "move", move |-> X[k]] ]
  <1>1. e \in Nat /\ n \in Nat /\ o \in Nat
    BY SMTT(30)
  <1>2. /\ DOMAIN E = 1 .. e /\ DOMAIN C = 1 .. n /\ DOMAIN X = 1 .. o
        /\ \A k \in 1 .. e : E[k] \in M
        /\ \A k \in 1 .. o : X[k] \in M
        /\ \A k \in 1 .. n : C[k] \in I
    OBVIOUS
  <1>3. first \in [1 .. e -> N] /\ second \in [1 .. n -> N] /\ third \in [1 .. o -> N]
    BY <1>2
  <1>4. /\ \A k \in 1 .. e : first[k].kind = "move" /\ first[k].move = E[k]
        /\ \A k \in 1 .. n : second[k].kind = "instruction" /\ second[k].instruction = C[k]
        /\ \A k \in 1 .. o : third[k].kind = "move" /\ third[k].move = X[k]
    BY <1>2
  <1>5. Operations(lowered, b) = (first \o second) \o third
    BY DEF Operations
  <1> PICK f, g, h : f = first /\ g = second /\ h = third
    OBVIOUS
  <1> HIDE DEF N, first, second, third
  <1>6. f \in [1 .. e -> N] /\ g \in [1 .. n -> N] /\ h \in [1 .. o -> N]
    BY <1>3
  <1>7. /\ f \in Seq(N) /\ g \in Seq(N) /\ h \in Seq(N)
        /\ Len(f) = e /\ Len(g) = n /\ Len(h) = o
    <2>1. \A l \in Nat : \A s \in [1 .. l -> N] : s \in Seq(N) /\ Len(s) = l
      OBVIOUS
    <2> QED
      BY <1>1, <1>6, <2>1
  <1> PICK fg : fg = f \o g
    OBVIOUS
  <1>0. operation = fg \o h
    BY <1>5
  <1>9. /\ fg \in Seq(N) /\ Len(fg) = e + n
        /\ \A k \in 1 .. e : fg[k] = f[k]
        /\ \A k \in 1 .. n : fg[e + k] = g[k]
    <2>1. f \in Seq(N) /\ g \in Seq(N) /\ e = Len(f) /\ n = Len(g)
      BY ONLY <1>7
    <2> QED
      BY ONLY <2>1, fg = f \o g, JoinedSequences
  <1> PICK l : l = e + n
    OBVIOUS
  <1>10. /\ Len(operation) = l + o
         /\ \A k \in 1 .. l : operation[k] = fg[k]
         /\ \A k \in 1 .. o : operation[l + k] = h[k]
    <2>1. fg \in Seq(N) /\ h \in Seq(N) /\ l = Len(fg) /\ o = Len(h)
      BY ONLY <1>7, <1>9, l = e + n
    <2> QED
      BY ONLY <1>0, <2>1, JoinedSequences
  <1>11. ASSUME NEW k \in 1 .. e PROVE operation[k].kind = "move" /\ operation[k].move = E[k]
    <2>2. operation[k] = f[k]
      BY ONLY <1>9, <1>10, <1>1, k \in 1 .. e, l = e + n
    <2> QED
      BY <1>4, <2>2
  <1>12. ASSUME NEW k \in 1 .. n
         PROVE  operation[e + k].kind = "instruction" /\ operation[e + k].instruction = C[k]
    <2>2. operation[e + k] = g[k]
      BY ONLY <1>9, <1>10, <1>1, k \in 1 .. n, l = e + n, SMTT(30)
    <2> QED
      BY <1>4, <2>2
  <1>13. ASSUME NEW k \in 1 .. o
         PROVE  operation[e + n + k].kind = "move" /\ operation[e + n + k].move = X[k]
    <2>1. operation[e + n + k] = h[k]
      BY <1>10
    <2>2. h[k].kind = "move" /\ h[k].move = X[k]
      BY <1>4
    <2> QED
      BY ONLY <2>1, <2>2
  <1> QED
    BY <1>1, <1>10, <1>11, <1>12, <1>13 DEF OperationsAre
-----------------------------------------------------------------------------
(* The contents of the compiled program agree with those of the source     *)
(* program on every pair of values that matters before instruction i of b. *)
Holds(u, b, i, contents, meant) ==
    \A e, d : <<e, d>> \in Pairs(u, b, i) => contents[ValueLocation(d)] = meant[e]

(* The phis of the successor, taken at once. *)
EdgeTaken(p, meant, b, s) == [ e \in DOMAIN meant |-> meant[PhiSource(p, b, s, e)] ]

(* The contents are those of the locations of the phi-free program, and of *)
(* the values of its source.                                               *)
Fits(u, q, lowered, contents, meant) ==
    /\ DOMAIN contents = Locations(DefinedValues(q), lowered.temporary_count)
    /\ DOMAIN meant = DefinedValues(Meaning(u))

(* What a compilation makes of the blocks it reaches.                      *)
LEMMA BlocksOfACompilation ==
    ASSUME NEW u, NEW q, NEW T, NEW plans, NEW arcs, NEW lowered,
           IsCompilation(u, q, T, plans, arcs, lowered),
           NEW b \in ReachableFrom(u.program.succ, u.program.start)
    PROVE  /\ b \in DOMAIN lowered.succ /\ b < lowered.original_count
           /\ lowered.instructions[b] = q.instructions[b]
           /\ Len(lowered.instructions[b]) = Length(u.program, b)
           /\ \A s \in Targets(u.program.succ, b) :
                  /\ s \in ReachableFrom(u.program.succ, u.program.start)
                  /\ EdgeMoves(q, lowered, b, s) /\ SameEdge(u, b, s)
                  /\ \A d : From(CopiesForEdge(q, b, s), d) = PhiSource(q, b, s, d)
           /\ \A s, e : Reaches(q, lowered, b, s, e) => s \in Targets(u.program.succ, b)
  <1> PICK source, R : source = u.program /\ R = ReachableFrom(source.succ, source.start)
    OBVIOUS
  <1>1. /\ IsCompiled(u) /\ q = Constructed(u) /\ IsDestroyed(q, T, plans, arcs, lowered)
        /\ IsSsa(q) /\ q.succ = source.succ /\ q.start = source.start
    BY CompiledShape DEF IsCompilation
  <1>2. /\ b \in DOMAIN lowered.succ /\ b < lowered.original_count
        /\ lowered.instructions[b] = q.instructions[b]
    <2>1. b \in ReachableFrom(q.succ, q.start) /\ IsDestroyed(q, T, plans, arcs, lowered)
      BY <1>1
    <2>2. \A c \in ReachableFrom(q.succ, q.start) :
              /\ c \in DOMAIN lowered.succ /\ c < lowered.original_count
              /\ lowered.instructions[c] = q.instructions[c]
      <3> DEFINE V == DefinedValues(q)
                 M == [destination : Locations(V, T), source : Locations(V, T)]
                 E == \A c \in DOMAIN lowered.succ :
                      /\ lowered.entry_moves[c] \in Seq(M) /\ lowered.exit_moves[c] \in Seq(M)
                      /\ lowered.instructions[c] \in Seq(InstructionsOver(V))
      <3>1. /\ E
            /\ \A c \in ReachableFrom(q.succ, q.start) :
                   /\ c \in DOMAIN lowered.succ /\ c < lowered.original_count
                   /\ lowered.instructions[c] = q.instructions[c]
        BY ONLY <2>1, LoweredBlocks
      <3> HIDE DEF E
      <3> QED
        BY ONLY <3>1
    <2> QED
      BY ONLY <2>1, <2>2
  <1>3. /\ Len(q.instructions[b]) = Length(source, b)
        /\ Targets(source.succ, b) \subseteq R
    BY <1>1, CompiledShape
  <1>4. ASSUME NEW s \in Targets(source.succ, b)
        PROVE  /\ s \in R /\ EdgeMoves(q, lowered, b, s) /\ SameEdge(u, b, s)
               /\ \A d : From(CopiesForEdge(q, b, s), d) = PhiSource(q, b, s, d)
    <2>1. s \in R
      BY <1>3
    <2>5. /\ s \in ReachableFrom(q.succ, q.start)
          /\ b \in UniquePredecessors(q.succ, ReachableFrom(q.succ, q.start), s)
      BY <1>1, <2>1 DEF UniquePredecessors, UniqueSuccessors
    <2> QED
      BY <2>1, <1>1, EdgesOfACompilation, EdgesAreServed, <2>5, CopiesOfAnEdge DEF
         IsDestroyed, ArcsCover
  <1> QED
    BY <1>2, <1>3, <1>4, <1>1 DEF Reaches

(* The moves run when an edge is taken do what its phis do.                *)
LEMMA EdgesKeepContents ==
    ASSUME NEW u, NEW q, NEW T, NEW plans, NEW arcs, NEW lowered,
           IsCompilation(u, q, T, plans, arcs, lowered),
           NEW b \in ReachableFrom(u.program.succ, u.program.start),
           NEW s, NEW t, Reaches(q, lowered, b, s, t),
           NEW contents, NEW meant, Fits(u, q, lowered, contents, meant),
           Holds(u, b, Length(u.program, b) + 1, contents, meant),
           NEW between, Leads(lowered.exit_moves[b], 0, contents, between),
           NEW after, Leads(lowered.entry_moves[t], 0, between, after)
    PROVE  Holds(u, s, 1, after, EdgeTaken(Meaning(u), meant, b, s))
  <1> PICK V, n : V = DefinedValues(q) /\ n = Length(u.program, b)
    OBVIOUS
  <1>1. IsCompiled(u) /\ q = Constructed(u)
    BY DEF IsCompilation
  <1>2. /\ s \in ReachableFrom(u.program.succ, u.program.start)
        /\ EdgeMoves(q, lowered, b, s) /\ SameEdge(u, b, s)
        /\ \A d : From(CopiesForEdge(q, b, s), d) = PhiSource(q, b, s, d)
    BY BlocksOfACompilation, SMTT(30)
  <1>3. \A d \in V : after[ValueLocation(d)] = contents[ValueLocation(PhiSource(q, b, s, d))]
    <2> PICK X, E, L : /\ X = lowered.exit_moves[b] /\ E = lowered.entry_moves[t]
                       /\ L = Locations(V, lowered.temporary_count)
      OBVIOUS
    <2>1. /\ DOMAIN contents = L /\ Leads(X, 0, contents, between) /\ Leads(E, 0, between, after)
      BY DEF Fits
    <2>3. \A before, later : Leads(<< >>, 0, before, later) => later = before
      BY LeadsToTheEnd
    <2>4. CASE E = << >> /\ Carries(V, CopiesForEdge(q, b, s), X, L)
      BY <2>1, <2>3, <2>4, LeadsThroughCopies, <1>2
    <2>5. CASE X = << >> /\ Carries(V, CopiesForEdge(q, b, s), E, L)
      BY <2>1, <2>3, <2>5, LeadsThroughCopies, <1>2
    <2> QED
      BY <1>2, <2>4, <2>5 DEF Reaches, EdgeMoves, EdgeCarried
  <1>4. ASSUME NEW e, NEW d, <<e, d>> \in Pairs(u, s, 1)
        PROVE  after[ValueLocation(d)] = EdgeTaken(Meaning(u), meant, b, s)[e]
    <2>1. 1 \in 1 .. Length(u.program, s) + 1
      <3>1. Length(u.program, s) \in Nat
        BY <1>1, <1>2, CompiledShape
      <3> QED
        BY <3>1
    <2>5. contents[ValueLocation(PhiSource(q, b, s, d))] = meant[PhiSource(Meaning(u), b, s, e)]
      BY <1>1, <1>2, <1>4 DEF Holds, SameEdge
    <2> QED
      BY <1>3, <1>1, <1>2, <1>4, <2>1, PairsAreOfValues, <2>5 DEF EdgeTaken, Fits
  <1> QED
    BY <1>4 DEF Holds

(* The moves on exit of a block leave the predicate of its branch alone.   *)
LEMMA MovesKeepThePredicate ==
    ASSUME NEW u, NEW q, NEW T, NEW plans, NEW arcs, NEW lowered,
           IsCompilation(u, q, T, plans, arcs, lowered),
           NEW b \in ReachableFrom(u.program.succ, u.program.start),
           Meaning(u).control[b].kind = "branch_if_nonzero",
           NEW contents, NEW meant, Fits(u, q, lowered, contents, meant),
           Holds(u, b, Length(u.program, b) + 1, contents, meant),
           NEW after, Leads(lowered.exit_moves[b], 0, contents, after)
    PROVE  after[ValueLocation(lowered.control[b].predicate)] = meant[Meaning(u).control[b].predicate]
  <1> PICK V, n, X, L, c, m, s : /\ V = DefinedValues(q) /\ n = Length(u.program, b)
                           /\ X = lowered.exit_moves[b] /\ L = Locations(V, lowered.temporary_count)
                           /\ c = lowered.control[b].predicate /\ m = Meaning(u).control[b].predicate
                           /\ s = Meaning(u).control[b].nonzero
    OBVIOUS
  <1>1. IsCompiled(u) /\ q = Constructed(u)
    BY DEF IsCompilation
  <1>3. /\ c = q.control[b].predicate /\ SamePredicate(u, b)
        /\ Reaches(q, lowered, b, s, lowered.control[b].nonzero.execution_successor)
    BY ControlsAreLowered DEF SameControl, LeadsTo
  <1>4. s \in Targets(u.program.succ, b)
    BY <1>3, BlocksOfACompilation
  <1>5. <<m, c>> \in Pairs(u, b, n + 1) /\ PhiSource(q, b, s, c) = c
    BY <1>1, <1>3, <1>4 DEF SamePredicate
  <1>6. contents[ValueLocation(c)] = meant[m]
    BY <1>5 DEF Holds
  <1>7. /\ EdgeMoves(q, lowered, b, s)
        /\ \A d : From(CopiesForEdge(q, b, s), d) = PhiSource(q, b, s, d)
    <2>1. \A x \in Targets(u.program.succ, b) :
              /\ EdgeMoves(q, lowered, b, x)
              /\ \A d : From(CopiesForEdge(q, b, x), d) = PhiSource(q, b, x, d)
      BY BlocksOfACompilation, ZenonT(60)
    <2> QED
      BY ONLY <2>1, <1>4
  <1>9. CASE X = << >>
    <2>1. Len(X) \in Nat /\ Len(X) = 0
      BY <1>9
    <2> QED
      BY <1>6, <2>1, LeadsToTheEnd
  <1>10. CASE Carries(V, CopiesForEdge(q, b, s), X, L)
    <2>1. c \in V
      <3>1. n + 1 \in 1 .. Length(u.program, b) + 1
        <4>1. n \in Nat
          BY <1>1, CompiledShape
        <4> QED
          BY <4>1
      <3> QED
        BY <1>1, <1>5, <3>1, PairsAreOfValues
    <2> QED
      BY <1>5, <1>6, <1>7, <1>10, <2>1, LeadsThroughCopies DEF Fits
  <1> QED
    BY <1>7, <1>9, <1>10 DEF EdgeMoves, EdgeCarried
-----------------------------------------------------------------------------
(* The operations of a block of a compilation.                             *)
LEMMA OperationsOfACompilation ==
    ASSUME NEW u, NEW q, NEW T, NEW plans, NEW arcs, NEW lowered,
           IsCompilation(u, q, T, plans, arcs, lowered), NEW b \in DOMAIN lowered.succ
    PROVE  /\ OperationsAre(Operations(lowered, b), lowered.entry_moves[b],
                            lowered.instructions[b], lowered.exit_moves[b],
                            Len(lowered.entry_moves[b]), Len(lowered.instructions[b]),
                            Len(lowered.exit_moves[b]))
           /\ lowered.instructions[b] \in Seq(InstructionsOver(DefinedValues(q)))
  <1> DEFINE V == DefinedValues(q)
             M == [destination : Locations(V, T), source : Locations(V, T)]
             I == InstructionsOver(V)
  <1>1. IsDestroyed(q, T, plans, arcs, lowered)
    BY DEF IsCompilation
  <1> HIDE DEF M, I
  <1> PICK E, C, X, operation : /\ E = lowered.entry_moves[b] /\ C = lowered.instructions[b]
                                /\ X = lowered.exit_moves[b] /\ operation = Operations(lowered, b)
    OBVIOUS
  <1>4. /\ E = lowered.entry_moves[b] /\ C = lowered.instructions[b] /\ X = lowered.exit_moves[b]
        /\ operation = Operations(lowered, b)
    OBVIOUS
  <1> QED
    BY <1>1, LoweredBlocks, <1>4, OperationsOfABlock, ZenonT(60) DEF I

(* Where the machine is in a block, and what its contents are worth there: *)
(* moves on entry are left, or instructions, or moves on exit.             *)
Entering(u, lowered, b, k, contents, a, i, meant) ==
    /\ i = 1 /\ k \in 1 .. Len(lowered.entry_moves[b]) + 1
    /\ \A after : Leads(lowered.entry_moves[b], k - 1, contents, after) => Holds(u, a, 1, after, meant)

(* The machine is among the instructions, at the one its source is at.     *)
Executing(u, lowered, b, k, contents, a, i, meant) ==
    /\ i \in 1 .. Length(u.program, a) + 1
    /\ k = Len(lowered.entry_moves[b]) + i
    /\ Holds(u, a, i, contents, meant)

(* The contents are those every edge of b, and its branch, expect.         *)
Served(u, q, lowered, b, contents, meant) ==
    /\ Meaning(u).control[b].kind = "branch_if_nonzero" =>
           contents[ValueLocation(lowered.control[b].predicate)] = meant[Meaning(u).control[b].predicate]
    /\ \A s, t, after : Reaches(q, lowered, b, s, t) /\ Leads(lowered.entry_moves[t], 0, contents, after) =>
           Holds(u, s, 1, after, EdgeTaken(Meaning(u), meant, b, s))

(* The machine is among the moves on exit: performing those that are left  *)
(* serves the edges of the block.                                          *)
Leaving(u, q, lowered, b, k, contents, a, i, meant) ==
    LET n == Length(u.program, a)
    IN  /\ i = n + 1
        /\ \E j \in 0 .. Len(lowered.exit_moves[b]) :
               /\ k = Len(lowered.entry_moves[b]) + n + 1 + j
               /\ \A after : Leads(lowered.exit_moves[b], j, contents, after) =>
                      Served(u, q, lowered, b, after, meant)

(* The machine is in a split block on the way to a.                        *)
InTheSplitBlock(lowered, b, a) ==
    /\ ~(b < lowered.original_count) /\ lowered.succ[b] = <<a>>
    /\ lowered.exit_moves[b] = << >> /\ lowered.instructions[b] = << >>
    /\ lowered.entry_moves[a] = << >>

(* The machine is at operation k of block b with these contents while its  *)
(* source is at instruction i of block a with those.                       *)
InStep(u, q, lowered, b, k, contents, a, i, meant) ==
    /\ a \in ReachableFrom(u.program.succ, u.program.start) /\ b \in DOMAIN lowered.succ
    /\ Fits(u, q, lowered, contents, meant)
    /\ \/ b = a /\ Entering(u, lowered, b, k, contents, a, i, meant)
       \/ b = a /\ Executing(u, lowered, b, k, contents, a, i, meant)
       \/ /\ b = a /\ k > Len(lowered.entry_moves[b]) + Length(u.program, a) + 1
          /\ Leaving(u, q, lowered, b, k, contents, a, i, meant)
       \/ InTheSplitBlock(lowered, b, a) /\ Entering(u, lowered, b, k, contents, a, i, meant)

(* A block whose moves on entry are done is executing.                     *)
LEMMA EnteringEnds ==
    ASSUME NEW u, NEW lowered, NEW b, NEW k, NEW contents, NEW a, NEW i, NEW meant,
           Len(lowered.entry_moves[b]) \in Nat, Length(u.program, a) \in Nat,
           Entering(u, lowered, b, k, contents, a, i, meant),
           k = Len(lowered.entry_moves[b]) + 1
    PROVE  Executing(u, lowered, b, k, contents, a, i, meant)
  <1> PICK E, e : E = lowered.entry_moves[b] /\ e = Len(E) /\ e \in Nat
    OBVIOUS
  <1> QED
    BY LeadsToTheEnd DEF Executing, Entering

(* One whose instructions are done is leaving.                             *)
LEMMA ExecutingEnds ==
    ASSUME NEW u, NEW q, NEW T, NEW plans, NEW arcs, NEW lowered,
           IsCompilation(u, q, T, plans, arcs, lowered),
           NEW a \in ReachableFrom(u.program.succ, u.program.start),
           NEW k, NEW contents, NEW i, NEW meant, Fits(u, q, lowered, contents, meant),
           Len(lowered.entry_moves[a]) \in Nat, Len(lowered.exit_moves[a]) \in Nat,
           Executing(u, lowered, a, k, contents, a, i, meant), i = Length(u.program, a) + 1
    PROVE  Leaving(u, q, lowered, a, k, contents, a, i, meant)
  <1> PICK n, E, X : n = Length(u.program, a) /\ E = lowered.entry_moves[a] /\ X = lowered.exit_moves[a]
    OBVIOUS
  <1>1. n \in Nat
    BY CompiledShape DEF IsCompilation
  <1>3. Holds(u, a, n + 1, contents, meant)
    BY DEF Executing
  <1>4. ASSUME NEW after, Leads(X, 0, contents, after)
        PROVE  Served(u, q, lowered, a, after, meant)
    <2>2. ASSUME NEW s, NEW t, NEW final, Reaches(q, lowered, a, s, t),
                 Leads(lowered.entry_moves[t], 0, after, final)
          PROVE  Holds(u, s, 1, final, EdgeTaken(Meaning(u), meant, a, s))
      BY <1>3, <1>4, <2>2, EdgesKeepContents
    <2> QED
      BY <1>3, <1>4, MovesKeepThePredicate, <2>2 DEF Served
  <1> QED
    BY <1>1, <1>4 DEF Leaving, Executing
-----------------------------------------------------------------------------
(* Where the machine is inside a block of the program, by the number of    *)
(* the next operation.                                                     *)
LEMMA WhereInABlock ==
    ASSUME NEW u, NEW q, NEW T, NEW plans, NEW arcs, NEW lowered,
           IsCompilation(u, q, T, plans, arcs, lowered),
           NEW a, NEW k, NEW contents, NEW i, NEW meant,
           InStep(u, q, lowered, a, k, contents, a, i, meant),
           NEW e, e = Len(lowered.entry_moves[a]), NEW n, n = Length(u.program, a),
           NEW o, o = Len(lowered.exit_moves[a])
    PROVE  /\ OperationsAre(Operations(lowered, a), lowered.entry_moves[a],
                            lowered.instructions[a], lowered.exit_moves[a], e, n, o)
           /\ k \in 1 .. e + n + o + 1
           /\ k <= e => Entering(u, lowered, a, k, contents, a, i, meant)
           /\ e < k /\ k <= e + n => Executing(u, lowered, a, k, contents, a, i, meant)
           /\ e < k /\ k <= e + n + 1 => Executing(u, lowered, a, k, contents, a, i, meant)
           /\ e + n < k => Leaving(u, q, lowered, a, k, contents, a, i, meant)
  <1> DEFINE P1 == Entering(u, lowered, a, k, contents, a, i, meant)
             P2 == Executing(u, lowered, a, k, contents, a, i, meant)
             P3 == Leaving(u, q, lowered, a, k, contents, a, i, meant)
  <1>1. /\ a \in ReachableFrom(u.program.succ, u.program.start) /\ a \in DOMAIN lowered.succ
        /\ Fits(u, q, lowered, contents, meant)
        /\ P1 \/ P2 \/ (P3 /\ k > e + n + 1) \/ InTheSplitBlock(lowered, a, a)
    BY DEF InStep
  <1>2. a < lowered.original_count /\ Len(lowered.instructions[a]) = n
    BY <1>1, BlocksOfACompilation
  <1>3. OperationsAre(Operations(lowered, a), lowered.entry_moves[a],
                      lowered.instructions[a], lowered.exit_moves[a], e, n, o)
    BY <1>1, <1>2, OperationsOfACompilation
  <1>4. e \in Nat /\ n \in Nat /\ o \in Nat
    BY <1>3 DEF OperationsAre
  <1>5. P1 \/ P2 \/ (P3 /\ k > e + n + 1)
    BY <1>1, <1>2 DEF InTheSplitBlock
  <1>6. P1 => i = 1 /\ k \in 1 .. e + 1
    BY DEF Entering
  <1>7. P2 => i \in 1 .. n + 1 /\ k = e + i
    BY DEF Executing
  <1>8. P3 => \E j \in 0 .. o : k = e + n + 1 + j
    BY DEF Leaving
  <1>9. P1 /\ k = e + 1 => P2
    BY <1>4, EnteringEnds
  <1>10. P2 /\ i = n + 1 => P3
    BY <1>1, <1>4, ExecutingEnds
  <1> HIDE DEF P1, P2, P3
  <1>11. k \in 1 .. e + n + o + 1
    <2>1. CASE P1
      BY ONLY <1>4, <1>6, <2>1
    <2>2. CASE P2
      BY ONLY <1>4, <1>7, <2>2
    <2>3. CASE P3
      BY ONLY <1>4, <1>8, <2>3
    <2> QED
      BY <1>5, <2>1, <2>2, <2>3
  <1>13. e < k /\ P1 => k = e + 1
    BY ONLY <1>4, <1>6
  <1>17. k <= e => P1
    BY ONLY <1>5, <1>4, <1>7, <1>8
  <1>18. e < k /\ k <= e + n + 1 => P2
    BY ONLY <1>5, <1>9, <1>13, <1>4, <1>11
  <1>19. e + n < k => P3
    BY ONLY <1>5, <1>9, <1>10, <1>13, <1>4, <1>7, <1>11
  <1> QED
    BY <1>3, <1>11, <1>17, <1>18, <1>19, <1>4 DEF P1, P2, P3

(* One move. *)
LEMMA MovesKeepStep ==
    ASSUME NEW u, NEW q, NEW T, NEW plans, NEW arcs, NEW lowered,
           IsCompilation(u, q, T, plans, arcs, lowered),
           NEW b, NEW k, NEW contents, NEW a, NEW i, NEW meant,
           InStep(u, q, lowered, b, k, contents, a, i, meant),
           NEW operation, operation = Operations(lowered, b),
           k <= Len(operation), operation[k].kind = "move",
           NEW after, after = Applied(contents, operation[k].move)
    PROVE  InStep(u, q, lowered, b, k + 1, after, a, i, meant)
  <1> PICK E, C, X, e, n, o : /\ E = lowered.entry_moves[b] /\ C = lowered.instructions[b]
                              /\ X = lowered.exit_moves[b]
                              /\ e = Len(E) /\ n = Len(C) /\ o = Len(X)
    OBVIOUS
  <1>1. /\ a \in ReachableFrom(u.program.succ, u.program.start) /\ b \in DOMAIN lowered.succ
        /\ Fits(u, q, lowered, contents, meant)
    BY DEF InStep
  <1>2. OperationsAre(operation, E, C, X, e, n, o)
    BY <1>1, OperationsOfACompilation
  <1>3. /\ e \in Nat /\ n \in Nat /\ o \in Nat
        /\ Len(operation) = e + n + o
        /\ \A j \in 1 .. e : operation[j].kind = "move" /\ operation[j].move = E[j]
        /\ \A j \in 1 .. n : operation[e + j].kind = "instruction" /\ operation[e + j].instruction = C[j]
        /\ \A j \in 1 .. o : operation[e + n + j].kind = "move" /\ operation[e + n + j].move = X[j]
    BY ONLY <1>2 DEF OperationsAre
  <1>4. Fits(u, q, lowered, after, meant)
    BY <1>1 DEF Fits, Applied
  <1>5. ASSUME Entering(u, lowered, b, k, contents, a, i, meant), k <= e
        PROVE  Entering(u, lowered, b, k + 1, after, a, i, meant)
    <2>1. /\ i = 1 /\ k \in 1 .. e /\ k + 1 \in 1 .. e + 1 /\ (k + 1) - 1 = k
      BY <1>3, <1>5 DEF Entering
    <2>3. ASSUME NEW later, Leads(E, k, after, later)
          PROVE  Holds(u, a, 1, later, meant)
      BY <1>3, <2>1, <2>3, LeadsOneMove, <1>5, ZenonT(60) DEF Entering
    <2> QED
      BY <2>1, <2>3 DEF Entering
  <1>6. ASSUME b = a, Leaving(u, q, lowered, b, k, contents, a, i, meant)
        PROVE  /\ Leaving(u, q, lowered, b, k + 1, after, a, i, meant)
               /\ k + 1 > e + Length(u.program, a) + 1
    <2> PICK m : m = Length(u.program, a)
      OBVIOUS
    <2>1. m = n
      BY <1>1, <1>6, BlocksOfACompilation
    <2>2. PICK j \in 0 .. o : /\ k = e + n + 1 + j
                              /\ \A later : Leads(X, j, contents, later) => Served(u, q, lowered, b, later, meant)
      BY <1>6, <2>1 DEF Leaving
    <2>3. j + 1 \in 1 .. o /\ k = e + n + (j + 1) /\ k + 1 = e + n + 1 + (j + 1) /\ (j + 1) - 1 = j
      <3>1. e \in Nat /\ n \in Nat /\ o \in Nat /\ j \in 0 .. o /\ k = e + n + 1 + j /\ k <= e + n + o
        BY ONLY <1>3, <2>2, k <= Len(operation)
      <3> QED
        BY ONLY <3>1
    <2>4. after = Applied(contents, X[j + 1])
      BY ONLY <1>3, <2>3, after = Applied(contents, operation[k].move)
    <2>5. ASSUME NEW later, Leads(X, j + 1, after, later)
          PROVE  Served(u, q, lowered, b, later, meant)
      <3>1. Leads(X, j, contents, later)
        <4>1. Len(X) \in Nat /\ j + 1 \in 1 .. Len(X) /\ Leads(X, j + 1, Applied(contents, X[j + 1]), later)
          BY ONLY <1>3, <2>3, <2>4, <2>5, o = Len(X)
        <4> QED
          BY <2>3, <4>1, LeadsOneMove
      <3> QED
        BY <2>2, <3>1
    <2>6. j + 1 \in 0 .. o /\ i = n + 1
      BY <1>3, <1>6, <2>1, <2>3 DEF Leaving
    <2>8. k + 1 > e + n + 1
      BY ONLY <1>3, <2>3
    <2> QED
      BY <2>1, <2>3, <2>5, <2>6, <2>8 DEF Leaving
  <1>7. CASE InTheSplitBlock(lowered, b, a) /\ Entering(u, lowered, b, k, contents, a, i, meant)
    BY <1>3, <1>7, <1>1, <1>4, <1>5 DEF InTheSplitBlock, InStep
  <1>8. CASE b = a
    <2>1. n = Length(u.program, a)
      BY <1>1, <1>8, BlocksOfACompilation
    <2>2. /\ k \in 1 .. e + n + o + 1
          /\ k <= e => Entering(u, lowered, a, k, contents, a, i, meant)
          /\ e + n < k => Leaving(u, q, lowered, a, k, contents, a, i, meant)
      <3>1. /\ InStep(u, q, lowered, a, k, contents, a, i, meant)
            /\ e = Len(lowered.entry_moves[a]) /\ o = Len(lowered.exit_moves[a])
        BY <1>8
      <3> QED
        BY ONLY IsCompilation(u, q, T, plans, arcs, lowered), <2>1, <3>1, WhereInABlock
    <2>3. k <= e \/ e + n < k
      <3>1. ASSUME ~(k <= e), ~(e + n < k) PROVE FALSE
        <4> PICK j : j = k - e
          OBVIOUS
        <4>2. j \in 1 .. n /\ e + j = k
          BY ONLY <1>3, <2>2, <3>1, j = k - e
        <4>3. operation[e + j].kind = "instruction"
          BY ONLY <1>3, <4>2
        <4> QED
          BY <4>2, <4>3
      <3> QED
        BY <3>1
    <2> QED
      BY <1>1, <1>4, <1>5, <1>6, <1>8, <2>2, <2>3 DEF InStep
  <1> QED
    BY <1>7, <1>8 DEF InStep

(* An instruction of the phi-free program is the one of its source.        *)
LEMMA InstructionsAreKept ==
    ASSUME NEW u, IsCompiled(u),
           NEW b \in ReachableFrom(u.program.succ, u.program.start),
           NEW i \in 1 .. Length(u.program, b)
    PROVE  SameInstruction(u, b, i)
  BY InstructionsOfAnSsaProgram, InstructionsOfASource

(* The contents after an instruction of the machine, and of its source.    *)
StoreWritten(contents, instruction, output) ==
    [ location \in DOMAIN contents |->
        IF location.kind = "value" /\ location.id \in ToSet(instruction.definitions)
        THEN output ELSE contents[location] ]

MeantWritten(meant, instruction, output) ==
    [ value \in DOMAIN meant |->
        IF value \in ToSet(instruction.definitions) THEN output ELSE meant[value] ]

(* The instruction the machine is at is the one its source is at, reads    *)
(* the same contents, and keeps the two in step.                           *)
SameInstructionStep(u, q, lowered, b, k, contents, a, i, meant, c, m) ==
    /\ b = a /\ i \in 1 .. Len(Meaning(u).instructions[a])
    /\ c \in InstructionsOver(DefinedValues(q))
    /\ m.opcode = c.opcode /\ m.immediate = c.immediate /\ DOMAIN m.uses = DOMAIN c.uses
    /\ \A j \in DOMAIN c.uses : contents[ValueLocation(c.uses[j])] = meant[m.uses[j]]
    /\ \A output : InStep(u, q, lowered, b, k + 1, StoreWritten(contents, c, output),
                          a, i + 1, MeantWritten(meant, m, output))

(* One instruction.                                                        *)
LEMMA InstructionsKeepStep ==
    ASSUME NEW u, NEW q, NEW T, NEW plans, NEW arcs, NEW lowered,
           IsCompilation(u, q, T, plans, arcs, lowered),
           NEW b, NEW k, NEW contents, NEW a, NEW i, NEW meant,
           InStep(u, q, lowered, b, k, contents, a, i, meant),
           NEW operation, operation = Operations(lowered, b),
           k <= Len(operation), operation[k].kind = "instruction",
           NEW c, c = operation[k].instruction, NEW m, m = Meaning(u).instructions[a][i]
    PROVE  SameInstructionStep(u, q, lowered, b, k, contents, a, i, meant, c, m)
  <1> PICK E, C, X, e, n, o : /\ E = lowered.entry_moves[b] /\ C = lowered.instructions[b]
                              /\ X = lowered.exit_moves[b]
                              /\ e = Len(E) /\ n = Len(C) /\ o = Len(X)
    OBVIOUS
  <1> PICK I : I = InstructionsOver(DefinedValues(q))
    OBVIOUS
  <1>1. /\ a \in ReachableFrom(u.program.succ, u.program.start) /\ b \in DOMAIN lowered.succ
        /\ Fits(u, q, lowered, contents, meant)
    BY DEF InStep
  <1>2. OperationsAre(operation, E, C, X, e, n, o) /\ C \in Seq(I)
    BY <1>1, OperationsOfACompilation
  <1>3. /\ e \in Nat /\ n \in Nat /\ o \in Nat
        /\ Len(operation) = e + n + o
        /\ \A j \in 1 .. e : operation[j].kind = "move" /\ operation[j].move = E[j]
        /\ \A j \in 1 .. n : operation[e + j].kind = "instruction" /\ operation[e + j].instruction = C[j]
        /\ \A j \in 1 .. o : operation[e + n + j].kind = "move" /\ operation[e + n + j].move = X[j]
    BY ONLY <1>2 DEF OperationsAre
  <1>4. ASSUME k \in 1 .. e PROVE FALSE
    BY ONLY <1>3, <1>4, operation[k].kind = "instruction"
  <1>5. b = a
    <2>1. ASSUME InTheSplitBlock(lowered, b, a), Entering(u, lowered, b, k, contents, a, i, meant)
          PROVE  FALSE
      BY <1>4, <1>3, <2>1 DEF InTheSplitBlock, Entering
    <2> QED
      BY <2>1 DEF InStep
  <1>6. n = Length(u.program, a) /\ C = q.instructions[a]
    BY <1>1, <1>5, BlocksOfACompilation
  <1>7. /\ k \in 1 .. e + n + o + 1
        /\ e < k /\ k <= e + n => Executing(u, lowered, a, k, contents, a, i, meant)
    <2>1. /\ InStep(u, q, lowered, a, k, contents, a, i, meant)
          /\ e = Len(lowered.entry_moves[a]) /\ n = Length(u.program, a)
          /\ o = Len(lowered.exit_moves[a])
      BY <1>5, <1>6
    <2> QED
      BY ONLY IsCompilation(u, q, T, plans, arcs, lowered), <2>1, WhereInABlock
  <1>8. e < k /\ k <= e + n
    <2>1. ASSUME k <= e PROVE FALSE
      BY <1>4, <1>7, <2>1
    <2>2. ASSUME e + n < k PROVE FALSE
      <3> PICK j : j = k - (e + n)
        OBVIOUS
      <3>1. e \in Nat /\ n \in Nat /\ o \in Nat /\ k \in 1 .. e + n + o + 1 /\ k <= e + n + o /\ e + n < k
        BY ONLY <1>3, <1>7, <2>2, k <= Len(operation)
      <3>2. j \in 1 .. o /\ e + n + j = k
        BY ONLY <3>1, j = k - (e + n)
      <3> QED
        BY ONLY <3>2, <1>3, operation[k].kind = "instruction"
    <2> QED
      BY ONLY <2>1, <2>2, <1>3, <1>7
  <1>9. i \in 1 .. n + 1 /\ k = e + i /\ Holds(u, a, i, contents, meant)
    BY <1>5, <1>7, <1>8, <1>6 DEF Executing
  <1>10. i \in 1 .. n /\ k + 1 = e + (i + 1) /\ i + 1 \in 1 .. n + 1
    <2>1. e \in Nat /\ n \in Nat
      BY <1>3
    <2> QED
      BY ONLY <1>8, <1>9, <2>1
  <1>11. c = C[i] /\ c \in I
    <2>1. c = C[i]
      BY <1>3, <1>9, <1>10, ZenonT(60)
    <2> QED
      BY <1>2, <1>10, <2>1
  <1>12. IsCompiled(u) /\ q = Constructed(u)
    BY DEF IsCompilation
  <1>13. i \in 1 .. Len(Meaning(u).instructions[a])
    BY <1>1, <1>6, <1>10, <1>12, CompiledShape
  <1>14. SameInstruction(u, a, i)
    BY <1>1, <1>6, <1>10, <1>12, InstructionsAreKept
  <1>15. /\ m.opcode = c.opcode /\ m.immediate = c.immediate /\ DOMAIN m.uses = DOMAIN c.uses
         /\ \A j \in DOMAIN c.uses : <<m.uses[j], c.uses[j]>> \in Pairs(u, a, i)
         /\ \A x, y : <<x, y>> \in Pairs(u, a, i + 1) =>
                /\ x \in ToSet(m.definitions) <=> y \in ToSet(c.definitions)
                /\ x \notin ToSet(m.definitions) => <<x, y>> \in Pairs(u, a, i)
    BY <1>6, <1>11, <1>12, <1>14 DEF SameInstruction
  <1>16. \A j \in DOMAIN c.uses : contents[ValueLocation(c.uses[j])] = meant[m.uses[j]]
    <2> TAKE j \in DOMAIN c.uses
    <2>1. <<m.uses[j], c.uses[j]>> \in Pairs(u, a, i) /\ Holds(u, a, i, contents, meant)
      BY <1>9, <1>15
    <2> QED
      BY ONLY <2>1 DEF Holds
  <1>17. ASSUME NEW output
         PROVE  InStep(u, q, lowered, b, k + 1, StoreWritten(contents, c, output),
                       a, i + 1, MeantWritten(meant, m, output))
    <2> PICK after, next : after = StoreWritten(contents, c, output) /\ next = MeantWritten(meant, m, output)
      OBVIOUS
    <2>2. ASSUME NEW x, NEW y, <<x, y>> \in Pairs(u, a, i + 1)
          PROVE  after[ValueLocation(y)] = next[x]
      <3>3. x \in DOMAIN meant /\ ValueLocation(y) \in DOMAIN contents
        BY <1>1, <1>12, <2>2, <1>6, <1>10, PairsAreOfValues DEF Fits, Locations
      <3> QED
        BY <3>3, <1>15, <2>2, <1>9 DEF StoreWritten, ValueLocation, MeantWritten, Holds
    <2>4. Executing(u, lowered, b, k + 1, after, a, i + 1, next)
      BY <1>5, <1>6, <1>10, <2>2 DEF Executing, Holds
    <2> QED
      BY <1>1, <1>5, <2>4 DEF InStep, Fits, StoreWritten, MeantWritten
  <1> QED
    BY <1>5, <1>11, <1>13, <1>15, <1>16, <1>17 DEF SameInstructionStep

(* The number of a block tells whether it is a split block.                *)
LEMMA SplitBlocksComeLast ==
    ASSUME NEW u, NEW q, NEW T, NEW plans, NEW arcs, NEW lowered,
           IsCompilation(u, q, T, plans, arcs, lowered)
    PROVE  \A b \in DOMAIN lowered.succ : b < lowered.original_count <=> ~(b >= lowered.original_count)
  <1>2. IsSsa(q) /\ IsLowered(q, T, plans, arcs, lowered) /\ Len(arcs) \in Nat
    BY DEF IsDestroyed, ArcsCover, IsCompilation
  <1>3. BlockCount(q) \in Nat
    BY <1>2 DEF IsSsa, BlockCount
  <1>4. lowered.original_count = BlockCount(q) /\ DOMAIN lowered.succ = 0 .. BlockCount(q) + Len(arcs) - 1
    BY <1>2 DEF IsLowered
  <1> QED
    BY ONLY <1>2, <1>3, <1>4

(* One terminator of the program. *)
LEMMA ControlsKeepStep ==
    ASSUME NEW u, NEW q, NEW T, NEW plans, NEW arcs, NEW lowered,
           IsCompilation(u, q, T, plans, arcs, lowered),
           NEW b, NEW k, NEW contents, NEW a, NEW i, NEW meant,
           InStep(u, q, lowered, b, k, contents, a, i, meant),
           k = Len(Operations(lowered, b)) + 1, b < lowered.original_count
    PROVE  /\ b = a /\ i = Len(Meaning(u).instructions[a]) + 1
           /\ SameControl(u, q, lowered, a)
           /\ Meaning(u).control[a].kind = "branch_if_nonzero" =>
                  contents[ValueLocation(lowered.control[a].predicate)] = meant[Meaning(u).control[a].predicate]
           /\ \A s, t : Reaches(q, lowered, a, s, t) =>
                  InStep(u, q, lowered, t, 1, contents, s, 1, EdgeTaken(Meaning(u), meant, a, s))
  <1> PICK e, n, o : /\ e = Len(lowered.entry_moves[a]) /\ n = Length(u.program, a)
                     /\ o = Len(lowered.exit_moves[a])
    OBVIOUS
  <1>1. /\ a \in ReachableFrom(u.program.succ, u.program.start) /\ b = a
        /\ Fits(u, q, lowered, contents, meant)
    BY DEF InStep, InTheSplitBlock
  <1>2. /\ OperationsAre(Operations(lowered, a), lowered.entry_moves[a],
                         lowered.instructions[a], lowered.exit_moves[a], e, n, o)
        /\ e + n < k => Leaving(u, q, lowered, a, k, contents, a, i, meant)
    BY <1>1, WhereInABlock
  <1>3. e \in Nat /\ n \in Nat /\ o \in Nat /\ k = e + n + o + 1
    BY <1>2, <1>1 DEF OperationsAre
  <1>4. Leaving(u, q, lowered, a, k, contents, a, i, meant)
    BY ONLY <1>3, <1>2
  <1>5. i = n + 1 /\ Served(u, q, lowered, a, contents, meant)
    <2>1. PICK j \in 0 .. o : /\ i = n + 1 /\ k = e + n + 1 + j
                              /\ \A after : Leads(lowered.exit_moves[a], j, contents, after) =>
                                     Served(u, q, lowered, a, after, meant)
      BY <1>4 DEF Leaving
    <2>2. j = o
      BY ONLY <1>3, <2>1
    <2> QED
      BY <2>1, <2>2, <1>3, LeadsToTheEnd
  <1>8. ASSUME NEW s, NEW t, Reaches(q, lowered, a, s, t)
        PROVE  InStep(u, q, lowered, t, 1, contents, s, 1, EdgeTaken(Meaning(u), meant, a, s))
    <2> PICK next : next = EdgeTaken(Meaning(u), meant, a, s)
      OBVIOUS
    <2>1. /\ s \in ReachableFrom(u.program.succ, u.program.start)
          /\ EdgeMoves(q, lowered, a, s)
      BY <1>1, <1>8, BlocksOfACompilation
    <2>2. t \in DOMAIN lowered.succ
      BY <1>8 DEF Reaches
    <2>4. Entering(u, lowered, t, 1, contents, s, 1, next)
      BY <1>5, <1>8, <2>2, OperationsOfACompilation DEF Served, OperationsAre, Entering
    <2>5. t = s \/ InTheSplitBlock(lowered, t, s)
      BY <1>8, <2>1, <2>2, SplitBlocksComeLast DEF Reaches, EdgeMoves, InTheSplitBlock
    <2> QED
      BY <2>1, <2>2, <1>1, <2>4, <2>5 DEF InStep, Fits, EdgeTaken
  <1> QED
    BY <1>1, <1>5, CompiledShape, ControlsAreLowered, <1>8 DEF Served, IsCompilation

(* The jump of a split block. *)
LEMMA SplitBlocksKeepStep ==
    ASSUME NEW u, NEW q, NEW T, NEW plans, NEW arcs, NEW lowered,
           IsCompilation(u, q, T, plans, arcs, lowered),
           NEW b, NEW k, NEW contents, NEW a, NEW i, NEW meant,
           InStep(u, q, lowered, b, k, contents, a, i, meant),
           k = Len(Operations(lowered, b)) + 1, b >= lowered.original_count
    PROVE  /\ lowered.succ[b] = <<a>> /\ i = 1
           /\ InStep(u, q, lowered, a, 1, contents, a, 1, meant)
  <1> PICK e : e = Len(lowered.entry_moves[b])
    OBVIOUS
  <1>1. /\ a \in ReachableFrom(u.program.succ, u.program.start) /\ b \in DOMAIN lowered.succ
        /\ Fits(u, q, lowered, contents, meant)
    BY DEF InStep
  <1>2. /\ ~(b < lowered.original_count)
        /\ a \in DOMAIN lowered.succ /\ a < lowered.original_count
    BY <1>1, SplitBlocksComeLast, BlocksOfACompilation
  <1>3. InTheSplitBlock(lowered, b, a) /\ Entering(u, lowered, b, k, contents, a, i, meant)
    BY <1>2 DEF InStep
  <1>4. e \in Nat /\ k = e + 1
    <2> PICK n, o : n = Len(lowered.instructions[b]) /\ o = Len(lowered.exit_moves[b])
      OBVIOUS
    <2>1. n = 0 /\ o = 0
      BY <1>3 DEF InTheSplitBlock
    <2>2. OperationsAre(Operations(lowered, b), lowered.entry_moves[b],
                        lowered.instructions[b], lowered.exit_moves[b],
                        Len(lowered.entry_moves[b]), Len(lowered.instructions[b]),
                        Len(lowered.exit_moves[b]))
      BY <1>1, OperationsOfACompilation
    <2>3. e \in Nat /\ Len(Operations(lowered, b)) = e + n + o
      BY ONLY <2>2, e = Len(lowered.entry_moves[b]), n = Len(lowered.instructions[b]),
              o = Len(lowered.exit_moves[b]) DEF OperationsAre
    <2> QED
      BY <2>1, <2>3
  <1>5. i = 1 /\ Holds(u, a, 1, contents, meant)
    BY <1>3, <1>4, LeadsToTheEnd DEF Entering
  <1>6. Entering(u, lowered, a, 1, contents, a, 1, meant)
    <2>1. lowered.entry_moves[a] = << >> /\ Len(<< >>) = 0 /\ Len(<< >>) \in Nat
      BY <1>3 DEF InTheSplitBlock
    <2>3. ASSUME NEW after, Leads(lowered.entry_moves[a], 0, contents, after) PROVE after = contents
      BY <2>1, <2>3, LeadsToTheEnd
    <2> QED
      BY <1>5, <2>1, <2>3 DEF Entering
  <1> QED
    BY <1>1, <1>2, <1>3, <1>5, <1>6 DEF InStep, InTheSplitBlock

(* The start of the program. *)
LEMMA ProgramsStart ==
    ASSUME NEW u, NEW q, NEW T, NEW plans, NEW arcs, NEW lowered,
           IsCompilation(u, q, T, plans, arcs, lowered),
           NEW contents, NEW meant, Fits(u, q, lowered, contents, meant),
           \A x \in DefinedValues(Meaning(u)) : x \in DefinedValues(q) =>
               contents[ValueLocation(x)] = meant[x],
           NEW a, a = u.program.start
    PROVE  InStep(u, q, lowered, a, 1, contents, a, 1, meant)
  <1>1. IsCompiled(u) /\ q = Constructed(u) /\ IsDestroyed(q, T, plans, arcs, lowered)
    BY DEF IsCompilation
  <1>2. /\ a \in ReachableFrom(u.program.succ, u.program.start) /\ q.start = a
        /\ Length(u.program, a) \in Nat
    BY <1>1, CompiledShape
  <1>4. lowered.entry_moves[a] = << >>
    <2> DEFINE V == DefinedValues(q)
               M == [destination : Locations(V, T), source : Locations(V, T)]
               E == /\ \A c \in DOMAIN lowered.succ :
                          /\ lowered.entry_moves[c] \in Seq(M) /\ lowered.exit_moves[c] \in Seq(M)
                          /\ lowered.instructions[c] \in Seq(InstructionsOver(V))
                    /\ \A c \in ReachableFrom(q.succ, q.start) :
                          /\ c \in DOMAIN lowered.succ /\ c < lowered.original_count
                          /\ lowered.instructions[c] = q.instructions[c]
    <2>1. IsDestroyed(q, T, plans, arcs, lowered)
      BY <1>1
    <2>2. lowered.temporary_count = T /\ lowered.entry_moves[q.start] = << >> /\ E
      BY ONLY <2>1, LoweredBlocks
    <2> HIDE DEF E
    <2> QED
      BY <1>2, <2>2
  <1>5. ASSUME NEW x, NEW y, <<x, y>> \in Pairs(u, a, 1)
        PROVE  contents[ValueLocation(y)] = meant[x]
    BY <1>1, <1>5, PairsAtTheStart, <1>2, PairsAreOfValues
  <1>6. Holds(u, a, 1, contents, meant)
    BY <1>5 DEF Holds
  <1>7. Entering(u, lowered, a, 1, contents, a, 1, meant)
    <2>1. Len(lowered.entry_moves[a]) = 0 /\ Len(lowered.entry_moves[a]) \in Nat
      BY <1>4
    <2>3. ASSUME NEW after, Leads(lowered.entry_moves[a], 0, contents, after) PROVE after = contents
      BY <2>1, <2>3, LeadsToTheEnd
    <2> QED
      BY <1>6, <2>1, <2>3 DEF Entering
  <1> QED
    BY <1>2, BlocksOfACompilation, <1>7 DEF InStep
-----------------------------------------------------------------------------
(* The machine: what holds of its state.                                   *)

(* The semantics is stated over the same operators.                        *)
LEMMA SameOperators ==
    /\ \A p : Semantics!DefinedValues(p) = DefinedValues(p)
    /\ \A x : Semantics!VersionOf(x) = VersionOf(x) /\ Semantics!VariableOf(x) = VariableOf(x)
    /\ \A c, inputs : Semantics!Overflows(c, inputs) <=> Overflows(c, inputs)
    /\ \A c, inputs, replies : Semantics!Outputs(c, inputs, replies) = Outputs(c, inputs, replies)
    /\ \A meant, c, output : Semantics!Written(meant, c, output) = MeantWritten(meant, c, output)
    /\ \A p, meant, b, s : Semantics!ThroughEdge(p, meant, b, s) = EdgeTaken(p, meant, b, s)
    /\ \A succ, b : Semantics!Targets(succ, b) = Targets(succ, b)
  <1>1. \A p : Semantics!DefinedValues(p) = DefinedValues(p)
    BY DEF Semantics!DefinedValues, DefinedValues, Semantics!SsaValue, SsaValue, Semantics!Blocks,
           Blocks, Semantics!ToSet, ToSet
  <1>2. \A x : Semantics!VersionOf(x) = VersionOf(x) /\ Semantics!VariableOf(x) = VariableOf(x)
    BY DEF Semantics!VersionOf, VersionOf, Semantics!VariableOf, VariableOf
  <1>3. \A c, inputs : Semantics!Overflows(c, inputs) <=> Overflows(c, inputs)
    <2>2. Semantics!Int64Min = Int64Min
      BY DEF Semantics!Int64Min, Int64Min
    <2>5. \A l, r : Semantics!MultiplyOverflows(l, r) <=> MultiplyOverflows(l, r)
      BY <2>2 DEF Semantics!MultiplyOverflows, MultiplyOverflows, Semantics!Quotient,
         Quotient
    <2> QED
      BY <2>2, <2>5 DEF Semantics!Overflows, Overflows, Semantics!AddOverflows,
         AddOverflows, Semantics!SubtractOverflows, SubtractOverflows
  <1>4. \A c, inputs, replies : Semantics!Outputs(c, inputs, replies) = Outputs(c, inputs, replies)
    BY DEF Semantics!Outputs, Outputs, Semantics!IsOpaque, IsOpaque, Semantics!Evaluate, Evaluate
  <1>5. \A meant, c, output : Semantics!Written(meant, c, output) = MeantWritten(meant, c, output)
    BY DEF Semantics!Written, MeantWritten, Semantics!ToSet, ToSet
  <1>6. \A p, meant, b, s : Semantics!ThroughEdge(p, meant, b, s) = EdgeTaken(p, meant, b, s)
    <2> TAKE p, meant, b, s
    <2> QED
      BY DEF EdgeTaken, Semantics!ThroughEdge, PhiSource
  <1>7. \A succ, b : Semantics!Targets(succ, b) = Targets(succ, b)
    BY DEF Semantics!Targets, Targets, Semantics!ToSet, ToSet
  <1> QED
    BY <1>1, <1>2, <1>3, <1>4, <1>5, <1>6, <1>7

(* The unit has been compiled, unless the SSA program was refused.         *)
UnitCompiled ==
    /\ unit \in Units /\ program = Meaning(unit) /\ ssa = Constructed(unit)
    /\ unit.construction # "none" => SourceAccepted(unit.program)
    /\ status = "rejected" => ~SsaAccepted(ssa)
    /\ status # "rejected" => SsaAccepted(ssa) /\ low = Lowered(unit, ssa)

(* The machine and the program it was compiled from are at the same step.  *)
MachineInStep ==
    status # "rejected" =>
        /\ status \in {"running", "overflow_error"}
        /\ InStep(unit, ssa, low, block, pc, store, at, pos, env)

(* The inductive invariant.                                                *)
Inv == UnitCompiled /\ MachineInStep

(* A unit that was not refused is a compilation.                           *)
LEMMA CompiledUnits ==
    ASSUME UnitCompiled, status # "rejected"
    PROVE  /\ IsCompiled(unit)
           /\ \E T, plans, arcs : IsCompilation(unit, ssa, T, plans, arcs, low)
           /\ low.variables = ssa.variables
  <1> QED
    BY UnitsAssumption, UnitsAreLowered DEF UnitCompiled, IsCompiled

(* The invariant holds at the start.                                       *)
LEMMA InitialState == Init => Inv
  <1> SUFFICES ASSUME Init PROVE Inv
    OBVIOUS
  <1>1. UnitCompiled
    BY DEF Init, UnitCompiled
  <1>2. ASSUME status # "rejected" PROVE MachineInStep
    <2>1. /\ IsCompiled(unit) /\ program = Meaning(unit) /\ status = "running"
          /\ program.start = unit.program.start
      BY <1>1, <1>2, CompiledUnits, CompiledShape DEF Init, UnitCompiled
    <2>2. PICK T, plans, arcs : IsCompilation(unit, ssa, T, plans, arcs, low)
      BY <1>1, <1>2, CompiledUnits
    <2>3. /\ store = [ location \in LocationsOf(ssa, low) |->
                         IF location.kind = "value" /\ VersionOf(location.id) = 0
                         THEN VariableOf(location.id) + 1 ELSE 0 ]
          /\ env = [ value \in DefinedValues(program) |->
                       IF VersionOf(value) = 0 THEN VariableOf(value) + 1 ELSE 0 ]
      BY <1>2, SameOperators DEF Init, Semantics!InitialEnv
    <2>5. Fits(unit, ssa, low, store, env)
      BY <2>1, <2>3 DEF Fits, LocationsOf, Locations
    <2>6. \A x \in DefinedValues(Meaning(unit)) : x \in DefinedValues(ssa) =>
              store[ValueLocation(x)] = env[x]
      <3> TAKE x \in DefinedValues(Meaning(unit))
      <3> HAVE x \in DefinedValues(ssa)
      <3> QED
        BY <2>1, <2>3 DEF LocationsOf, ValueLocation
    <2> QED
      BY <2>1, <2>2, <2>5, <2>6, ProgramsStart DEF MachineInStep, Init
  <1> QED
    BY <1>1, <1>2 DEF Inv, MachineInStep

(* The unit does not change, and no step refuses it.                       *)
LEMMA UnitKept ==
    ASSUME UnitCompiled, UNCHANGED compiler, status = "running", status' # "rejected"
    PROVE  UnitCompiled'
  <1> QED
    BY DEF UnitCompiled, compiler

(* A move: the program the unit was compiled from does not take a step.    *)
LEMMA MoveStep ==
    ASSUME Inv, PerformMove
    PROVE  Inv' /\ UNCHANGED Semantics!vars
  <1>1. /\ status = "running" /\ pc <= Len(operations) /\ operations[pc].kind = "move"
        /\ store' = [store EXCEPT ![operations[pc].move.destination] = store[operations[pc].move.source]]
        /\ pc' = pc + 1
        /\ block' = block /\ at' = at /\ pos' = pos /\ env' = env /\ event' = event /\ status' = status
        /\ UNCHANGED compiler
    BY DEF PerformMove
  <1>3. UnitCompiled /\ InStep(unit, ssa, low, block, pc, store, at, pos, env)
    BY <1>1 DEF Inv, MachineInStep
  <1>4. PICK T, plans, arcs : IsCompilation(unit, ssa, T, plans, arcs, low)
    BY <1>1, <1>3, CompiledUnits
  <1>5. InStep(unit, ssa, low, block, pc + 1, store', at, pos, env)
    <2> PICK operation : operation = Operations(low, block)
      OBVIOUS
    <2> PICK move : move = operation[pc].move
      OBVIOUS
    <2> PICK after : after = store'
      OBVIOUS
    <2> QED
      BY <1>3, <1>4, <1>1, MovesKeepStep, ZenonT(60) DEF Applied, operations
  <1> QED
    BY <1>1, <1>3, UnitKept, <1>5 DEF Inv, Semantics!vars, MachineInStep, compiler

(* An instruction of a block is the instruction of the program at the same *)
(* position, and it reads the same contents.                               *)
LEMMA InstructionStep ==
    ASSUME Inv, PerformInstruction
    PROVE  Inv' /\ Semantics!Instruction
  <1> PICK c, m : c = operations[pc].instruction /\ m = program.instructions[at][pos]
    OBVIOUS
  <1> PICK inputs : inputs = [ i \in DOMAIN c.uses |-> store[ValueLocation(c.uses[i])] ]
    OBVIOUS
  <1>1. /\ status = "running" /\ pc <= Len(operations) /\ operations[pc].kind = "instruction"
        /\ block' = block /\ at' = at
        /\ UNCHANGED compiler
        /\ \/ /\ Overflows(c, inputs)
              /\ status' = "overflow_error"
              /\ pc' = pc /\ store' = store /\ pos' = pos /\ env' = env /\ event' = event
           \/ /\ ~Overflows(c, inputs)
              /\ \E output \in Outputs(c, inputs, Replies) :
                     /\ store' = StoreWritten(store, c, output)
                     /\ env' = Semantics!Written(env, m, output)
                     /\ event' = Semantics!Instructed(block, inputs, <<output>>)
              /\ pc' = pc + 1 /\ pos' = pos + 1 /\ status' = status
    BY DEF PerformInstruction, StoreWritten
  <1>2. unit' = unit /\ program' = program /\ ssa' = ssa /\ low' = low
    BY <1>1 DEF compiler
  <1>3. UnitCompiled /\ InStep(unit, ssa, low, block, pc, store, at, pos, env)
    BY <1>1 DEF Inv, MachineInStep
  <1>4. PICK T, plans, arcs : IsCompilation(unit, ssa, T, plans, arcs, low)
    BY <1>1, <1>3, CompiledUnits
  <1>5. program = Meaning(unit)
    BY <1>3 DEF UnitCompiled
  <1>6. /\ block = at /\ pos \in 1 .. Len(program.instructions[at])
        /\ m.opcode = c.opcode /\ m.immediate = c.immediate /\ DOMAIN m.uses = DOMAIN c.uses
        /\ \A j \in DOMAIN c.uses : store[ValueLocation(c.uses[j])] = env[m.uses[j]]
        /\ \A output : InStep(unit, ssa, low, block, pc + 1, StoreWritten(store, c, output),
                              at, pos + 1, MeantWritten(env, m, output))
    <2> PICK operation : operation = Operations(low, block)
      OBVIOUS
    <2>1. /\ operation = Operations(low, block)
          /\ pc <= Len(operation) /\ operation[pc].kind = "instruction"
          /\ c = operation[pc].instruction /\ m = Meaning(unit).instructions[at][pos]
      BY <1>1, <1>5 DEF operations
    <2>2. InStep(unit, ssa, low, block, pc, store, at, pos, env)
      BY <1>3
    <2>3. SameInstructionStep(unit, ssa, low, block, pc, store, at, pos, env, c, m)
      BY ONLY <1>4, <2>1, <2>2, InstructionsKeepStep
    <2> QED
      BY <1>5, <2>3 DEF SameInstructionStep
  <1>7. inputs = Semantics!InputsOf(m, env)
    BY <1>6 DEF Semantics!InputsOf
  <1>8. /\ Semantics!Overflows(m, inputs) <=> Overflows(c, inputs)
        /\ Semantics!Outputs(m, inputs, Replies) = Outputs(c, inputs, Replies)
    BY <1>6, SameOperators DEF Overflows, Outputs, Evaluate, IsOpaque
  <1>9. Inv'
    <2>1. InStep(unit, ssa, low, block, pc', store', at, pos', env')
      <3>1. CASE Overflows(c, inputs)
        BY ONLY <1>1, <1>3, <3>1
      <3>2. CASE ~Overflows(c, inputs)
        <4>1. PICK output : store' = StoreWritten(store, c, output) /\ env' = MeantWritten(env, m, output)
          BY <1>1, <3>2, SameOperators
        <4> QED
          BY <1>1, <1>6, <3>2, <4>1
      <3> QED
        BY <3>1, <3>2
    <2> QED
      BY <1>1, <1>3, UnitKept, <1>2, <2>1 DEF Inv, MachineInStep
  <1>10. Semantics!Instruction
    <2>1. Semantics!code = program.instructions[at] /\ m = Semantics!code[pos] /\ pos <= Len(Semantics!code)
      BY <1>6 DEF Semantics!code
    <2> QED
      BY <1>1, <1>2, <1>7, <2>1, <1>6, <1>8 DEF Semantics!Instruction
  <1> QED
    BY <1>9, <1>10

(* What a terminator of the compiled program selects, the terminator of    *)
(* the program it was compiled from may select, and the machine goes to    *)
(* the block that stands for the edge.                                     *)
LEMMA SelectedTargets ==
    ASSUME NEW T, NEW plans, NEW arcs, IsCompilation(unit, ssa, T, plans, arcs, low),
           at \in ReachableFrom(unit.program.succ, unit.program.start),
           block = at, program = Meaning(unit), SameControl(unit, ssa, low, at),
           NEW control, control = low.control[block], NEW m, m = program.control[at],
           m.kind = "branch_if_nonzero" =>
               store[ValueLocation(control.predicate)] = env[m.predicate],
           NEW target \in LowTargets(control)
    PROVE  /\ control.kind = m.kind
           /\ target.logical_successor \in Semantics!Successors(m, env)
           /\ Reaches(ssa, low, at, target.logical_successor, target.execution_successor)
  <1>1. /\ m.kind \in {"jump", "branch_if_nonzero", "opaque"} /\ control.kind = m.kind
        /\ m.kind # "opaque" => /\ LeadsTo(ssa, low, at, m.nonzero, control.nonzero)
                                /\ LeadsTo(ssa, low, at, m.zero, control.zero)
    BY DEF SameControl
  <1>2. CASE m.kind = "jump"
    BY <1>1, <1>2 DEF LowTargets, Semantics!Successors, LeadsTo
  <1>3. CASE m.kind = "branch_if_nonzero"
    BY <1>1, <1>3 DEF LowTargets, Semantics!Successors, LeadsTo
  <1>4. CASE m.kind = "opaque"
    <2>1. PICK b \in Targets(low.succ, block) :
              /\ target.execution_successor = b
              /\ target.logical_successor = IF b >= low.original_count THEN low.succ[b][1] ELSE b
      BY <1>1, <1>4 DEF LowTargets, IsSplitBlock
    <2>2. /\ IsDestroyed(ssa, T, plans, arcs, low) /\ IsCompiled(unit) /\ ssa = Constructed(unit)
      BY DEF IsCompilation
    <2>3. /\ ssa.succ = unit.program.succ /\ ssa.start = unit.program.start
          /\ program.succ = unit.program.succ
      BY <2>2, CompiledShape
    <2>6. Reaches(ssa, low, at, target.logical_successor, target.execution_successor)
      BY <2>1, <2>2, <2>3, ArcsAreFollowed
    <2> QED
      BY <1>1, <2>6, <2>3, <1>4, SameOperators DEF Reaches, Semantics!Successors
  <1> QED
    BY <1>1, <1>2, <1>3, <1>4

(* A terminator of the program: the phis of the edge are performed, and    *)
(* the moves that stand for them are still to come or have been made.      *)
LEMMA ControlStep ==
    ASSUME Inv, PerformControl
    PROVE  Inv' /\ Semantics!Control
  <1> PICK control, m : control = low.control[block] /\ m = program.control[at]
    OBVIOUS
  <1> PICK inputs : inputs = IF control.kind = "branch_if_nonzero"
                             THEN <<store[ValueLocation(control.predicate)]>> ELSE << >>
    OBVIOUS
  <1>1. /\ status = "running" /\ pc = Len(operations) + 1 /\ ~IsSplitBlock(block)
        /\ pc' = 1 /\ pos' = 1 /\ store' = store /\ status' = status
        /\ UNCHANGED compiler
    BY DEF PerformControl
  <1>2. PICK target \in LowTargets(control) :
            /\ block' = target.execution_successor
            /\ at' = target.logical_successor
            /\ env' = Semantics!ThroughEdge(program, env, at, target.logical_successor)
            /\ event' = Semantics!Controlled(block, inputs, target.logical_successor)
    BY DEF PerformControl
  <1>3. unit' = unit /\ program' = program /\ ssa' = ssa /\ low' = low
    BY <1>1 DEF compiler
  <1>4. UnitCompiled /\ InStep(unit, ssa, low, block, pc, store, at, pos, env)
    BY <1>1 DEF Inv, MachineInStep
  <1>5. PICK T, plans, arcs : IsCompilation(unit, ssa, T, plans, arcs, low)
    BY <1>1, <1>4, CompiledUnits
  <1>6. program = Meaning(unit)
    BY <1>4 DEF UnitCompiled
  <1>7. /\ at \in ReachableFrom(unit.program.succ, unit.program.start)
        /\ block \in DOMAIN low.succ
    BY <1>4 DEF InStep
  <1>9. /\ block = at /\ pos = Len(program.instructions[at]) + 1
        /\ SameControl(unit, ssa, low, at)
        /\ m.kind = "branch_if_nonzero" => store[ValueLocation(control.predicate)] = env[m.predicate]
        /\ \A s, t : Reaches(ssa, low, at, s, t) =>
               InStep(unit, ssa, low, t, 1, store, s, 1, EdgeTaken(program, env, at, s))
    BY <1>4, <1>5, <1>6, <1>1, <1>7, SplitBlocksComeLast, ControlsKeepStep DEF
       IsSplitBlock, operations
  <1>10. /\ control.kind = m.kind
         /\ at' \in Semantics!Successors(m, env)
         /\ Reaches(ssa, low, at, at', block')
    BY <1>2, <1>5, <1>6, <1>7, <1>9, SelectedTargets
  <1>11. env' = EdgeTaken(program, env, at, at')
    BY <1>2, SameOperators
  <1>12. Inv'
    BY <1>9, <1>10, <1>11, <1>1, <1>4, UnitKept, <1>3 DEF MachineInStep, Inv
  <1> QED
    BY <1>12, <1>9, <1>10, <1>2, <1>1, <1>3 DEF Semantics!code, Semantics!Control

(* The jump out of a split block: the program takes no step.               *)
LEMMA SplitBlockStep ==
    ASSUME Inv, LeaveSplitBlock
    PROVE  Inv' /\ UNCHANGED Semantics!vars
  <1>1. /\ status = "running" /\ pc = Len(operations) + 1 /\ IsSplitBlock(block)
        /\ pc' = 1 /\ store' = store /\ at' = at /\ pos' = pos /\ env' = env
        /\ event' = event /\ status' = status
        /\ UNCHANGED compiler
        /\ \/ low.control[block].kind = "jump" /\ block' = low.control[block].nonzero.execution_successor
           \/ low.control[block].kind = "opaque" /\ block' \in Targets(low.succ, block)
    BY DEF LeaveSplitBlock
  <1>2. unit' = unit /\ program' = program /\ ssa' = ssa /\ low' = low
    BY <1>1 DEF compiler
  <1>3. UnitCompiled /\ InStep(unit, ssa, low, block, pc, store, at, pos, env)
    BY <1>1 DEF Inv, MachineInStep
  <1>4. PICK T, plans, arcs : IsCompilation(unit, ssa, T, plans, arcs, low)
    BY <1>1, <1>3, CompiledUnits
  <1>5. /\ block \in DOMAIN low.succ /\ ~(block < low.original_count)
        /\ block >= low.original_count /\ pc = Len(Operations(low, block)) + 1
    BY <1>3, <1>1, <1>4, SplitBlocksComeLast DEF InStep, IsSplitBlock, operations
  <1>6. /\ low.succ[block] = <<at>> /\ pos = 1
        /\ InStep(unit, ssa, low, at, 1, store, at, 1, env)
    BY <1>3, <1>4, <1>5, SplitBlocksKeepStep
  <1>9. MachineInStep'
    BY <1>1, <1>2, <1>6, <1>4, <1>5, ControlsAreLowered DEF MachineInStep, Targets, ToSet
  <1> QED
    BY <1>1, <1>2, <1>3, UnitKept, <1>9 DEF Inv, Semantics!vars

-----------------------------------------------------------------------------
(* Every state of the machine keeps the invariant, and every step of it is *)
(* a step of the program the unit was compiled from, or none.              *)
LEMMA MachineStep ==
    ASSUME Inv, [Next]_vars
    PROVE  Inv' /\ [Semantics!Next]_Semantics!vars /\ (status = "rejected" <=> status' = "rejected")
  <1>1. CASE PerformMove
    BY <1>1, MoveStep DEF PerformMove
  <1>2. CASE PerformInstruction
    BY <1>2, InstructionStep DEF Semantics!Next, PerformInstruction
  <1>3. CASE PerformControl
    BY <1>3, ControlStep DEF PerformControl, Semantics!Next
  <1>4. CASE LeaveSplitBlock
    BY <1>4, SplitBlockStep DEF LeaveSplitBlock
  <1>5. CASE UNCHANGED vars
    BY <1>5 DEF vars, Inv, UnitCompiled, MachineInStep, Semantics!vars
  <1> QED
    BY <1>1, <1>2, <1>3, <1>4, <1>5 DEF Next

(* The machine that runs the compiled program and the program it was       *)
(* compiled from are at the same step, with the same contents, in every    *)
(* state they reach.                                                       *)
THEOREM MachineStaysInStep == Spec => []Inv
  <1>1. Inv /\ [Next]_vars => Inv'
    BY MachineStep
  <1> QED
    BY InitialState, <1>1, PTL DEF Spec

(* The phi-free program does what its source means: every behaviour of the *)
(* machine is one of the program the unit was compiled from, the values    *)
(* each instruction reads, the predicates and the successors selected      *)
(* included.                                                               *)
THEOREM CompiledProgramImplementsItsSource ==
    Spec /\ status # "rejected" => Semantics!Spec
  <1>1. Init /\ status # "rejected" => Semantics!Init
    <2> SUFFICES ASSUME Init, status # "rejected" PROVE Semantics!Init
      OBVIOUS
    <2> QED
      BY DEF Init, Semantics!Init
  <1>2. Inv /\ [Next]_vars => [Semantics!Next]_Semantics!vars
    BY MachineStep
  <1> QED
    BY MachineStaysInStep, <1>1, <1>2, PTL DEF Spec, Semantics!Spec

(* destroy_ssa accepts whatever the constructions produce.                 *)
THEOREM ConstructionIsAccepted == Spec => []ConstructionAccepted
  <1>1. Inv => ConstructionAccepted
    BY UnitsAssumption, ConstructionsAreAccepted DEF Inv, UnitCompiled, ConstructionAccepted
  <1> QED
    BY MachineStaysInStep, <1>1, PTL

(* Between its moves on entry and its moves on exit a block of the program *)
(* holds the contents its instructions expect.                             *)
LEMMA WithinABlock ==
    ASSUME Inv, status # "rejected", ~IsSplitBlock(block),
           NEW e, e = Len(low.entry_moves[block]), NEW o, o = Len(low.exit_moves[block]),
           pc > e, pc <= Len(operations) + 1 - o
    PROVE  /\ block = at /\ at \in ReachableFrom(unit.program.succ, unit.program.start)
           /\ pos \in 1 .. Length(unit.program, at) + 1 /\ pc = e + pos
           /\ Holds(unit, at, pos, store, env)
           /\ DOMAIN env = DefinedValues(Meaning(unit))
  <1>1. UnitCompiled /\ InStep(unit, ssa, low, block, pc, store, at, pos, env)
    BY DEF Inv, MachineInStep
  <1>2. PICK T, plans, arcs : IsCompilation(unit, ssa, T, plans, arcs, low)
    BY <1>1, CompiledUnits
  <1>3. /\ at \in ReachableFrom(unit.program.succ, unit.program.start) /\ block \in DOMAIN low.succ
        /\ DOMAIN env = DefinedValues(Meaning(unit))
    BY <1>1 DEF InStep, Fits
  <1>5. block = at
    BY <1>1, <1>2, <1>3, SplitBlocksComeLast DEF InStep, InTheSplitBlock, IsSplitBlock
  <1> PICK n : n = Length(unit.program, at)
    OBVIOUS
  <1>6. /\ OperationsAre(Operations(low, at), low.entry_moves[at],
                         low.instructions[at], low.exit_moves[at], e, n, o)
        /\ pc \in 1 .. e + n + o + 1
        /\ e < pc /\ pc <= e + n + 1 => Executing(unit, low, at, pc, store, at, pos, env)
    BY <1>1, <1>5, <1>2, WhereInABlock
  <1>7. e \in Nat /\ n \in Nat /\ o \in Nat /\ Len(operations) = e + n + o
    BY <1>5, <1>6 DEF OperationsAre, operations
  <1>8. e < pc /\ pc <= e + n + 1
    <2> PICK l : l = Len(operations)
      OBVIOUS
    <2>1. /\ e \in Nat /\ n \in Nat /\ o \in Nat /\ l = e + n + o
          /\ pc \in 1 .. e + n + o + 1 /\ pc > e /\ pc <= l + 1 - o
      BY <1>6, <1>7
    <2> QED
      BY ONLY <2>1
  <1> QED
    BY <1>3, <1>5, <1>6, <1>8 DEF Executing

(* When a block begins, the version the renaming has on top contains the   *)
(* variable.                                                               *)
THEOREM ReachingVersionsAlwaysHold == Spec => []ReachingVersionsHold
  <1>1. ASSUME Inv PROVE ReachingVersionsHold
    <2> SUFFICES ASSUME unit.construction # "none", AtFirstInstruction,
                        NEW v \in low.variables,
                        unit.construction = "minimal" \/ block \in LiveInBlocks(unit.program, v)
                 PROVE  store[ValueLocation(SsaValue(v, ssa.entry[block][v]))] = env[SsaValue(v, 0)]
      BY DEF ReachingVersionsHold
    <2> PICK e, o : e = Len(low.entry_moves[block]) /\ o = Len(low.exit_moves[block])
      OBVIOUS
    <2>1. status # "rejected" /\ ~IsSplitBlock(block) /\ pc = e + 1
      BY DEF AtFirstInstruction
    <2>2. IsCompiled(unit) /\ ssa = Constructed(unit) /\ low.variables = ssa.variables
      BY <1>1, <2>1, CompiledUnits DEF Inv, UnitCompiled
    <2>3. PICK T, plans, arcs : IsCompilation(unit, ssa, T, plans, arcs, low)
      BY <1>1, <2>1, CompiledUnits DEF Inv
    <2>4. /\ InStep(unit, ssa, low, block, pc, store, at, pos, env)
          /\ block \in DOMAIN low.succ
      BY <1>1, <2>1 DEF Inv, MachineInStep, InStep
    <2> PICK n : n = Len(low.instructions[block])
      OBVIOUS
    <2>5. e \in Nat /\ n \in Nat /\ o \in Nat /\ Len(operations) = e + n + o
      <3>1. OperationsAre(operations, low.entry_moves[block], low.instructions[block],
                          low.exit_moves[block], e, n, o)
        BY <2>3, <2>4, OperationsOfACompilation DEF operations
      <3> QED
        BY ONLY <3>1 DEF OperationsAre
    <2>6. pc > e /\ pc <= Len(operations) + 1 - o
      BY ONLY <2>1, <2>5
    <2>7. /\ block = at /\ at \in ReachableFrom(unit.program.succ, unit.program.start)
          /\ pos \in 1 .. Length(unit.program, at) + 1 /\ pc = e + pos
          /\ Holds(unit, at, pos, store, env)
      BY <1>1, <2>1, <2>6, WithinABlock
    <2>11. <<SsaValue(v, 0), SsaValue(v, ssa.entry[at][v])>> \in Pairs(unit, at, 1)
      BY <2>2, <2>7, ConstructedForm, PairsOnEntry DEF FormOf, IsCompiled
    <2> QED
      BY <2>7, <2>1, <2>5, <2>2, CompiledShape, <2>11 DEF Holds
  <1>2. Inv => ReachingVersionsHold
    BY <1>1
  <1> QED
    BY MachineStaysInStep, <1>2, PTL

(* While the instructions of a block run, an SSA program handed to         *)
(* destroy_ssa keeps the contents of all of its values.                    *)
THEOREM ValuesAreAlwaysPreserved == Spec => []ValuesPreserved
  <1>1. ASSUME Inv PROVE ValuesPreserved
    <2> SUFFICES ASSUME unit.construction = "none", status # "rejected", ~IsSplitBlock(block),
                        pc > Len(low.entry_moves[block]),
                        pc <= Len(operations) + 1 - Len(low.exit_moves[block]),
                        NEW value \in DOMAIN env
                 PROVE  store[ValueLocation(value)] = env[value]
      BY DEF ValuesPreserved
    <2> QED
      BY <1>1, WithinABlock DEF Holds, Pairs, Meaning
  <1>2. Inv => ValuesPreserved
    BY <1>1
  <1> QED
    BY MachineStaysInStep, <1>2, PTL

(* The instruction about to run reports an overflow exactly when its       *)
(* result does not fit.                                                    *)
THEOREM CheckedArithmeticIsAlwaysExact == Spec => []CheckedArithmeticIsExact
  <1>1. ASSUME Inv PROVE CheckedArithmeticIsExact
    <2> SUFFICES ASSUME status = "running", pc <= Len(operations),
                        operations[pc].kind = "instruction",
                        NEW c, c = operations[pc].instruction,
                        Len(c.uses) = 2, ~IsOpaque(c),
                        NEW left \in Int64, NEW right \in Int64
                 PROVE  Overflows(c, <<left, right>>) <=> Evaluate(c, <<left, right>>) \notin Int64
      BY DEF CheckedArithmeticIsExact
    <2>2. PICK T, plans, arcs : IsCompilation(unit, ssa, T, plans, arcs, low)
      BY <1>1, CompiledUnits DEF Inv
    <2> PICK m, operation : /\ m = Meaning(unit).instructions[at][pos]
                            /\ operation = Operations(low, block)
      OBVIOUS
    <2>5. c \in InstructionsOver(DefinedValues(ssa))
      BY <1>1, <2>2, InstructionsKeepStep DEF SameInstructionStep, Inv, MachineInStep,
         operations
    <2>6. c.opcode \in {"add_i64", "subtract_i64", "multiply_i64", "equal_i64", "less_than_i64"}
      <3>1. c.opcode \in DOMAIN OperandCount /\ OperandCount[c.opcode] = 2
        BY <2>5 DEF InstructionsOver, IsOpaque
      <3> QED
        BY ONLY <3>1 DEF OperandCount
    <2> QED
      BY <2>6, CheckedOperationsAreExact
  <1>2. Inv => CheckedArithmeticIsExact
    BY <1>1
  <1> QED
    BY MachineStaysInStep, <1>2, PTL
=============================================================================
