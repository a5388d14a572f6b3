---------------------------- MODULE ParallelCopy ----------------------------
(***************************************************************************)
(* schedule_parallel_copies as a state machine, together with a machine    *)
(* that runs each move as soon as it is emitted.                           *)
(*                                                                         *)
(* The input is a list of copies of SSA values, to be performed at once.   *)
(* The code turns it into a sequence of moves that, run in order, has the  *)
(* same effect; a cycle of copies is broken with a fresh temporary.  The   *)
(* variables vals and temps hold what the values and the temporaries       *)
(* contain after the moves emitted so far, entry what the values contained *)
(* before the first one.                                                   *)
(***************************************************************************)
EXTENDS CopySchedule, FiniteSets

CONSTANTS Value,    \* the SSA values of the program, as ranks
          Data,     \* what a value can contain
          Inputs    \* the copy lists the scheduler is called with

ASSUME ValueAssumption == Value \subseteq Nat

ASSUME InputsAssumption ==
    Inputs \subseteq Seq([destination : Value, source : Value])

VARIABLES copies,   \* the argument of the call
          outcome,  \* "called", "scheduling", "returned" or "rejected"
          pending,  \* the copies not emitted yet
          moves,    \* SsaCopySchedule::moves
          entry,    \* contents of the values before the moves
          vals,     \* contents of the values after the moves emitted so far
          temps     \* contents of the temporaries; its length is
                    \* SsaCopySchedule::temporary_count

vars == <<copies, outcome, pending, moves, entry, vals, temps>>

Location == [kind : {"value"}, id : Value]
                \cup [kind : {"temporary"}, id : Nat]

temporary_count == Len(temps)

Content(location) ==
    IF location.kind = "value" THEN vals[location.id] ELSE temps[location.id + 1]

Init ==
    /\ copies \in Inputs
    /\ outcome = "called"
    /\ pending = << >>
    /\ moves = << >>
    /\ entry \in [Value -> Data]
    /\ vals = entry
    /\ temps = << >>

(* std::invalid_argument: a destination appears twice. *)
Reject ==
    /\ outcome = "called"
    /\ HasDuplicateDestination(copies)
    /\ outcome' = "rejected"
    /\ UNCHANGED <<copies, pending, moves, entry, vals, temps>>

Collect ==
    /\ outcome = "called"
    /\ ~HasDuplicateDestination(copies)
    /\ pending' = PendingOf(copies)
    /\ outcome' = "scheduling"
    /\ UNCHANGED <<copies, moves, entry, vals, temps>>

(* The first pending copy whose destination no pending copy reads. *)
EmitReady ==
    /\ outcome = "scheduling"
    /\ \E d \in DOMAIN pending :
           /\ IsFirstOf(d, ReadyDestinations(pending))
           /\ moves' = Append(moves, Move(ValueLocation(d), pending[d]))
           /\ vals' = [vals EXCEPT ![d] = Content(pending[d])]
           /\ pending' = WithoutCopy(pending, d)
    /\ UNCHANGED <<copies, outcome, entry, temps>>

(* Every pending destination is still read: save the first one. *)
BreakCycle ==
    /\ outcome = "scheduling"
    /\ ReadyDestinations(pending) = {}
    /\ \E saved \in DOMAIN pending :
           LET temporary == TemporaryLocation(temporary_count)
           IN  /\ IsFirstOf(saved, DOMAIN pending)
               /\ moves' = Append(moves, Move(temporary, ValueLocation(saved)))
               /\ temps' = Append(temps, vals[saved])
               /\ pending' = Redirected(pending, saved, temporary)
    /\ UNCHANGED <<copies, outcome, entry, vals>>

Return ==
    /\ outcome = "scheduling"
    /\ DOMAIN pending = {}
    /\ outcome' = "returned"
    /\ UNCHANGED <<copies, pending, moves, entry, vals, temps>>

Next == Reject \/ Collect \/ EmitReady \/ BreakCycle \/ Return

Spec == Init /\ [][Next]_vars

(* The loop runs until it returns: nothing else is scheduled with it. *)
FairSpec == Spec /\ WF_vars(Next)
-----------------------------------------------------------------------------
TypeOK ==
    /\ copies \in Inputs
    /\ outcome \in {"called", "scheduling", "returned", "rejected"}
    /\ DOMAIN pending \subseteq Value
    /\ \A d \in DOMAIN pending :
           \/ pending[d] \in [kind : {"value"}, id : Value]
           \/ pending[d] \in [kind : {"temporary"}, id : 0 .. temporary_count - 1]
    /\ moves \in Seq([destination : Location, source : Location])
    /\ entry \in [Value -> Data]
    /\ vals \in [Value -> Data]
    /\ temps \in Seq(Data)

(* When the schedule is returned, running its moves in order has had the   *)
(* effect of performing all the copies at once: no source was overwritten  *)
(* before its last reader (the lost copy), no cycle lost a value (the      *)
(* swap), and no value that is not a destination changed.                  *)
CopiesRealised ==
    outcome = "returned" => vals = Simultaneous(copies, entry)

(* At every point of the schedule a pending copy can still be performed:   *)
(* its source, the original value or the temporary it was redirected to,   *)
(* holds what the original source held on entry.                           *)
SourcesPreserved ==
    outcome = "scheduling" =>
        \A d \in DOMAIN pending :
            Content(pending[d]) = entry[SourceOf(copies, d)]

(* The cycles of the copies: the smallest non-empty sets of destinations   *)
(* whose sources are the set itself.                                       *)
CopyCycles ==
    LET Closed(C) == C # {} /\ { SourceOf(copies, d) : d \in C } = C
    IN  { C \in SUBSET MovedDestinations(copies) :
            Closed(C) /\ \A D \in SUBSET C : Closed(D) => D = C }

(* A schedule is as short as it can be: one move per copy that is not a    *)
(* self-copy, and one more move and one temporary per cycle.  Saving a     *)
(* destination that no cycle contains, or saving twice in one cycle, would *)
(* still copy correctly and waste a register downstream.                   *)
TemporariesMinimal ==
    outcome = "returned" =>
        /\ temporary_count = Cardinality(CopyCycles)
        /\ Len(moves) = Cardinality(MovedDestinations(copies)) + temporary_count

-----------------------------------------------------------------------------
(***************************************************************************)
(* The schedule implements the simultaneous copy.  While moves are being   *)
(* emitted the abstract values are still the ones on entry; they change    *)
(* all at once when the schedule is returned.                              *)
(***************************************************************************)
Abstract == INSTANCE SimultaneousCopy WITH
    vals   <- IF outcome = "returned" THEN vals ELSE entry,
    status <- IF outcome = "scheduling" THEN "called" ELSE outcome

(* Seen from outside, a call is one step that performs every copy at once  *)
(* or rejects the list, and it ends: the loop cannot save temporaries for  *)
(* ever.                                                                   *)
ImplementsSimultaneousCopy == Abstract!FairSpec
-----------------------------------------------------------------------------
(* The instance that is checked: every list of at most four copies between *)
(* four values whose destinations are in increasing order, and every list  *)
(* of two copies, so that duplicate destinations and the sort are covered. *)
(* The values contain distinct data on entry, which tells every misplaced  *)
(* copy apart.                                                             *)
MCValue == 0 .. 3
MCData == 10 .. 13

MCCopy == [destination : MCValue, source : MCValue]

MCInputs ==
    UNION { [1 .. n -> MCCopy] : n \in 0 .. 2 }
    \cup { c \in UNION { [1 .. n -> MCCopy] : n \in 3 .. 4 } :
             \A i \in 2 .. Len(c) : c[i - 1].destination < c[i].destination }
    \cup { c \in [1 .. 3 -> MCCopy] :
             /\ c[1].destination > c[2].destination
             /\ c[2].destination > c[3].destination }

MCInit == Init /\ entry = [v \in MCValue |-> 10 + v]

MCSpec == MCInit /\ [][Next]_vars /\ WF_vars(Next)
=============================================================================
