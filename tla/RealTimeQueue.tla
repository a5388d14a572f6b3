---------------------------- MODULE RealTimeQueue ----------------------------
(***************************************************************************)
(* The Hood-Melville queue.  The front is a list; new values are consed    *)
(* onto the rear list.  When the rear gets longer than the front, its      *)
(* reversal becomes a rotation, of which every update executes two steps   *)
(* while the queue goes on: pops take from the old front and tell the      *)
(* rotation that a value it was to keep is gone.                           *)
(*                                                                         *)
(* Updates return a new version and share immutable nodes with the old     *)
(* one, so that what follows from a version does not depend on what else   *)
(* was made of it: a branching history is a set of behaviours of this      *)
(* specification.  A list is a sequence; cons puts a value at its head.    *)
(*                                                                         *)
(* SizeMax is the largest size_t.  Updates that throw return no version.   *)
(***************************************************************************)
EXTENDS Integers, Sequences

CONSTANTS Value, SizeMax

ASSUME SizeAssumption == SizeMax \in Nat

VARIABLES queue,         \* the version that is worked on
          answer         \* what the last call returned or threw

vars == <<queue, answer>>

Cons(value, list) == <<value>> \o list

Rotation(state, ok, front, front_reversed, rear, rear_reversed) ==
    [ state |-> state, ok |-> ok, front |-> front, front_reversed |-> front_reversed,
      rear |-> rear, rear_reversed |-> rear_reversed ]

Idle == Rotation("Idle", 0, << >>, << >>, << >>, << >>)
Reversing(ok, front, front_reversed, rear, rear_reversed) ==
    Rotation("Reversing", ok, front, front_reversed, rear, rear_reversed)
Appending(ok, front_reversed, rear_reversed) ==
    Rotation("Appending", ok, << >>, front_reversed, << >>, rear_reversed)
Done(front) == Rotation("Done", 0, front, << >>, << >>, << >>)

(* The code throws logic_error. *)
Impossible == Rotation("Impossible", 0, << >>, << >>, << >>, << >>)

size(q) == q.front_size + q.rear_size
-----------------------------------------------------------------------------
ReversingStep(r) ==
    IF r.front # << >> /\ r.rear # << >> THEN
        Reversing(r.ok + 1, Tail(r.front), Cons(Head(r.front), r.front_reversed),
                  Tail(r.rear), Cons(Head(r.rear), r.rear_reversed))
    ELSE IF r.front = << >> /\ r.rear # << >> /\ Tail(r.rear) = << >> THEN
        Appending(r.ok, r.front_reversed, Cons(Head(r.rear), r.rear_reversed))
    ELSE Impossible

AppendingStep(r) ==
    IF r.ok = 0 THEN Done(r.rear_reversed)
    ELSE IF r.front_reversed # << >> THEN
        Appending(r.ok - 1, Tail(r.front_reversed),
                  Cons(Head(r.front_reversed), r.rear_reversed))
    ELSE Impossible

ExecuteOnce(r) ==
    CASE r.state = "Reversing" -> ReversingStep(r)
      [] r.state = "Appending" -> AppendingStep(r)
      [] r.state \in {"Idle", "Done", "Impossible"} -> r

(* Faulty: values that were popped during the rotation stay in it. *)
NotInvalidated(r) == r

(* The front has lost a value: one value less is to be kept.  When all     *)
(* that are left have been copied, it is the first copy that goes.         *)
Invalidate(r) ==
    CASE r.state = "Reversing" /\ r.ok # 0 -> [r EXCEPT !.ok = @ - 1]
      [] r.state = "Reversing" /\ r.ok = 0 -> Impossible
      [] r.state = "Appending" /\ r.ok # 0 -> [r EXCEPT !.ok = @ - 1]
      [] r.state = "Appending" /\ r.ok = 0 ->
            IF r.rear_reversed = << >> THEN Impossible ELSE Done(Tail(r.rear_reversed))
      [] r.state \in {"Idle", "Done", "Impossible"} -> r

(* Faulty: one step per update. *)
ExecuteOnceOnly(q) ==
    LET r == ExecuteOnce(q.rotation)
    IN  IF r.state = "Done" THEN [q EXCEPT !.front = r.front, !.rotation = Idle]
        ELSE [q EXCEPT !.rotation = r]

ExecuteTwice(q) ==
    LET r == ExecuteOnce(ExecuteOnce(q.rotation))
    IN  IF r.state = "Done" THEN [q EXCEPT !.front = r.front, !.rotation = Idle]
        ELSE [q EXCEPT !.rotation = r]

Check(q) ==
    IF q.rear_size <= q.front_size THEN ExecuteTwice(q)
    ELSE ExecuteTwice([ front_size |-> q.front_size + q.rear_size,
                        front      |-> q.front,
                        rotation   |-> Reversing(0, q.front, << >>, q.rear, << >>),
                        rear_size  |-> 0,
                        rear       |-> << >> ])
-----------------------------------------------------------------------------
Init ==
    /\ queue = [ front_size |-> 0, front |-> << >>, rotation |-> Idle,
                 rear_size |-> 0, rear |-> << >> ]
    /\ answer = <<"updated">>

Refused(error) == answer' = <<error>> /\ UNCHANGED queue

(* The version an update makes is returned unless making it threw. *)
Return(next) ==
    \/ /\ next.rotation.state # "Impossible"
       /\ queue' = next
       /\ answer' = <<"updated">>
    \/ next.rotation.state = "Impossible" /\ Refused("logic_error")

PushBack(value) ==
    \/ size(queue) = SizeMax /\ Refused("length_error")
    \/ /\ size(queue) # SizeMax
       /\ Return(Check([queue EXCEPT !.rear = Cons(value, @), !.rear_size = @ + 1]))

PopFront ==
    \/ (size(queue) = 0 \/ queue.front = << >>) /\ Refused("out_of_range")
    \/ /\ size(queue) # 0
       /\ queue.front # << >>
       /\ Return(Check([queue EXCEPT !.front_size = @ - 1, !.front = Tail(@),
                                     !.rotation = Invalidate(@)]))

Front ==
    \/ (size(queue) = 0 \/ queue.front = << >>) /\ Refused("out_of_range")
    \/ /\ size(queue) # 0
       /\ queue.front # << >>
       /\ answer' = <<"front", Head(queue.front)>>
       /\ UNCHANGED queue

Next == (\E value \in Value : PushBack(value)) \/ PopFront \/ Front

Spec == Init /\ [][Next]_vars
-----------------------------------------------------------------------------
(* The first n values of a list, in reverse. *)
Reversed(list, n) == [ i \in 1 .. n |-> list[n - i + 1] ]

(* The values a rotation stands for, and those of a whole version: the     *)
(* kept part of the old front, the old rear, and what came later.          *)
Rotated(q) ==
    LET r == q.rotation
    IN  IF r.state = "Idle" THEN q.front
        ELSE Reversed(r.front_reversed, r.ok) \o r.front
             \o Reversed(r.rear, Len(r.rear)) \o r.rear_reversed

Contents(q) == Rotated(q) \o Reversed(q.rear, q.rear_size)

(* What an update may rely on, as valid_invariants has it and beyond: the  *)
(* sizes count what the lists are going to hold, the list that pops take   *)
(* from is the beginning of the rotation's result, and the steps that have *)
(* been executed are two for every update since the rotation began and two *)
(* at its beginning, so that it ends before either list can run out.       *)
RotationInTime ==
    LET q == queue
        r == queue.rotation
        \* updates since the rotation began: pops, then pushes
        updates == (Len(r.front_reversed) - r.ok) + q.rear_size
    IN  /\ q.rear_size = Len(q.rear)
        /\ q.rear_size <= q.front_size
        /\ q.front_size = Len(Rotated(q))
        /\ Len(q.front) <= q.front_size
        /\ q.front = SubSeq(Rotated(q), 1, Len(q.front))
        /\ \/ r = Idle
           \/ /\ r.state = "Reversing"
              /\ r.ok \in 0 .. Len(r.front_reversed)
              /\ Len(r.rear) = Len(r.front) + 1
              /\ Len(r.rear_reversed) = Len(r.front_reversed)
              /\ Len(q.front) = r.ok + Len(r.front)
              /\ Len(r.front_reversed) = 2 * (updates + 1)
           \/ /\ r.state = "Appending"
              /\ r.front = << >> /\ r.rear = << >>
              /\ r.ok \in 0 .. Len(r.front_reversed)
              /\ Len(r.rear_reversed) = 2 * (updates + 1)
              /\ 2 * (Len(q.front) - r.ok)
                     = Len(r.rear_reversed) - Len(r.front_reversed) - 1

(* No update can find the rotation in a state the code calls impossible,   *)
(* and in every other way a version is a queue of its contents.            *)
Fifo == INSTANCE FifoQueue WITH contents <- Contents(queue)

ImplementsFifo == Fifo!Spec
=============================================================================
