--------------------------- MODULE GreedyColoring ---------------------------
(***************************************************************************)
(* The coloring loop that allocate_phi_free_registers runs on locations    *)
(* and coalesce_phi_free_registers on classes of locations.  The nodes are *)
(* numbers; interference is a symmetric, irreflexive set of pairs of       *)
(* nodes.  assigned maps the nodes colored so far to a register, or to     *)
(* Spilled.                                                                *)
(***************************************************************************)
EXTENDS Integers, FiniteSets

Spilled == -1

Neighbors(interference, n) == { e[2] : e \in { f \in interference : f[1] = n } }

Degree(interference, n) == Cardinality(Neighbors(interference, n))

(* The order of the loop: larger degree first, then the smaller number. *)
ColoredBefore(interference, n, m) ==
    \/ Degree(interference, n) > Degree(interference, m)
    \/ Degree(interference, n) = Degree(interference, m) /\ n < m

IsNextToColor(interference, pending, n) ==
    /\ n \in pending
    /\ \A m \in pending \ {n} : ColoredBefore(interference, n, m)

(* Faulty: only the neighbors colored with a smaller number are looked at. *)
UnavailableBelow(interference, assigned, n) ==
    { assigned[m] : m \in { k \in DOMAIN assigned : k < n /\ <<n, k>> \in interference } }

Unavailable(interference, assigned, n) ==
    { assigned[m] : m \in { k \in DOMAIN assigned : <<n, k>> \in interference } }

(* Faulty: the last register of the budget is never tried. *)
IsCandidateBelowLast(budget, unavailable, register) ==
    \/ /\ register \in 0 .. budget - 2
       /\ register \notin unavailable
       /\ \A q \in 0 .. register - 1 : q \in unavailable
    \/ /\ register = Spilled
       /\ \A q \in 0 .. budget - 2 : q \in unavailable

(* The lowest register no neighbor has, or none: the node is spilled. *)
IsCandidate(budget, unavailable, register) ==
    \/ /\ register \in 0 .. budget - 1
       /\ register \notin unavailable
       /\ \A q \in 0 .. register - 1 : q \in unavailable
    \/ /\ register = Spilled
       /\ \A q \in 0 .. budget - 1 : q \in unavailable

(* The nodes colored so far and one more. *)
WithColor(assigned, n, register) ==
    [ m \in DOMAIN assigned \cup {n} |-> IF m = n THEN register ELSE assigned[m] ]
=============================================================================
