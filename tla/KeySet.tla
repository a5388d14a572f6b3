------------------------------- MODULE KeySet -------------------------------
(***************************************************************************)
(* What a set of keys promises: an insertion and an erasure say whether    *)
(* the key was absent, or present, before them.  A limited set may refuse  *)
(* a key it does not have, and is then as it was.                          *)
(***************************************************************************)
CONSTANT Key

VARIABLES limited, members, answer

vars == <<limited, members, answer>>

Says(truth) == answer' = IF truth THEN "true" ELSE "false"

Init == limited \in BOOLEAN /\ members = {} /\ answer = "none"

Insert(key) ==
    \/ members' = members \cup {key} /\ Says(key \notin members)
    \/ /\ limited
       /\ key \notin members
       /\ answer' = "refused"
       /\ UNCHANGED members

Erase(key) == members' = members \ {key} /\ Says(key \in members)

Contains(key) == Says(key \in members) /\ UNCHANGED members

Clear == members' = {} /\ answer' = "none"

Next ==
    /\ UNCHANGED limited
    /\ \/ \E key \in Key : Insert(key) \/ Erase(key) \/ Contains(key)
       \/ Clear

Spec == Init /\ [][Next]_vars
=============================================================================
