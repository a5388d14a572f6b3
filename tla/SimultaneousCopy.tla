-------------------------- MODULE SimultaneousCopy --------------------------
(***************************************************************************)
(* What the copies of one CFG edge mean: every destination receives, in    *)
(* one step, what its source contained before the step.  A list that       *)
(* writes a destination twice means nothing and is rejected.               *)
(***************************************************************************)
EXTENDS CopySchedule

CONSTANTS Value, Data, Inputs

VARIABLES copies,   \* the list of copies
          vals,     \* contents of the values
          status    \* "called", "returned" or "rejected"

vars == <<copies, vals, status>>

Init ==
    /\ copies \in Inputs
    /\ vals \in [Value -> Data]
    /\ status = "called"

CopyAll ==
    /\ status = "called"
    /\ ~HasDuplicateDestination(copies)
    /\ vals' = Simultaneous(copies, vals)
    /\ status' = "returned"
    /\ UNCHANGED copies

Reject ==
    /\ status = "called"
    /\ HasDuplicateDestination(copies)
    /\ status' = "rejected"
    /\ UNCHANGED <<copies, vals>>

Next == CopyAll \/ Reject

Spec == Init /\ [][Next]_vars

FairSpec == Spec /\ WF_vars(Next)
=============================================================================
