---------------------------- MODULE CopySchedule ----------------------------
(***************************************************************************)
(* One iteration of the loop of schedule_parallel_copies, as operators on  *)
(* the pending copies.  The parallel copies of one CFG edge are pending    *)
(* until they are emitted as moves; a pending copy is an entry             *)
(* destination |-> source of the function pending, whose domain is the set *)
(* of destinations not written yet.                                        *)
(*                                                                         *)
(* An SSA value is a natural number, its rank in the order value_less.  A  *)
(* source is a location: a value, or a temporary the schedule created.     *)
(***************************************************************************)
EXTENDS Naturals, Sequences

ValueLocation(v) == [kind |-> "value", id |-> v]

TemporaryLocation(k) == [kind |-> "temporary", id |-> k]

(* Two copies of the list write one destination. *)
HasDuplicateDestination(copies) ==
    \E i, j \in DOMAIN copies :
        /\ i # j
        /\ copies[i].destination = copies[j].destination

(* d is the first of a set of values in the order value_less. *)
IsFirstOf(d, S) ==
    /\ d \in S
    /\ \A e \in S : d <= e

(* The source the list gives a destination it writes. *)
SourceOf(copies, d) ==
    copies[CHOOSE i \in DOMAIN copies : copies[i].destination = d].source

(* What the copies, performed at once, make of the contents of the values. *)
Simultaneous(copies, contents) ==
    [ v \in DOMAIN contents |->
        IF \E i \in DOMAIN copies : copies[i].destination = v
        THEN contents[SourceOf(copies, v)]
        ELSE contents[v] ]

(* The destinations of the copies that are not self-copies. *)
MovedDestinations(copies) ==
    { copies[i].destination :
        i \in { j \in DOMAIN copies : copies[j].destination # copies[j].source } }

PendingOf(copies) ==
    [ d \in MovedDestinations(copies) |-> ValueLocation(SourceOf(copies, d)) ]

(* Faulty: the copies before this one are not looked at. *)
NeededByLaterCopy(pending, d) ==
    \E e \in DOMAIN pending : d <= e /\ pending[e] = ValueLocation(d)

(* destination_still_needed *)
StillNeeded(pending, d) ==
    \E e \in DOMAIN pending : pending[e] = ValueLocation(d)

(* Faulty: a destination is written while a copy still reads it. *)
AllPending(pending) == DOMAIN pending

(* Faulty: only the first pending copy is looked at. *)
FirstIfReady(pending) ==
    { d \in DOMAIN pending : IsFirstOf(d, DOMAIN pending) /\ ~StillNeeded(pending, d) }

(* The copies whose destination no pending copy reads. *)
ReadyDestinations(pending) ==
    { d \in DOMAIN pending : ~StillNeeded(pending, d) }

(* Faulty: every copy of the same source is erased. *)
WithoutSource(pending, d) ==
    [ e \in { f \in DOMAIN pending : pending[f] # pending[d] } |-> pending[e] ]

WithoutCopy(pending, d) ==
    [ e \in DOMAIN pending \ {d} |-> pending[e] ]

(* Every copy that reads the saved destination reads its temporary instead. *)
Redirected(pending, saved, temporary) ==
    [ e \in DOMAIN pending |->
        IF pending[e] = ValueLocation(saved) THEN temporary ELSE pending[e] ]

Move(destination, source) ==
    [destination |-> destination, source |-> source]
=============================================================================
