-------------------------- MODULE MCCopyCoalescing --------------------------
(***************************************************************************)
(* Four locations; every interference graph of at most three edges; every  *)
(* list of at most one move, and lists of two and three moves that, up to  *)
(* a renaming, build every forest of four nodes; one or two registers.     *)
(***************************************************************************)
EXTENDS CopyCoalescing

Symmetric(edges) == edges \cup { <<e[2], e[1]>> : e \in edges }

Graphs ==
    { Symmetric(E) : E \in { F \in SUBSET { <<l, m>> \in Location \X Location : l < m } :
                               Cardinality(F) <= 3 } }

Moves == [source : Location, destination : Location]

Upward == { m \in Moves : m.source < m.destination }

Move(l, m) == [source |-> l, destination |-> m]

MoveLists ==
    UNION { [1 .. n -> Moves] : n \in 0 .. 1 }
    \cup { q \in [1 .. 2 -> Moves] : q[1] \in Upward /\ q[2].source # q[2].destination }
    \cup { q \in [1 .. 3 -> Upward] : q[1] \in {Move(0, 1), Move(1, 2)} }

MCInputs ==
    { i \in [interference : Graphs, moves : MoveLists, budget : 1 .. 2] :
        i.budget = 2 \/ Len(i.moves) <= 1 }
=============================================================================
