--------------------------- MODULE MCDominatorTree ---------------------------
(***************************************************************************)
(* Every graph that is a path of six vertices and any of the other arcs   *)
(* between its inner ones that matter: shortcuts down the path and arcs    *)
(* back up it; and graphs of four vertices whose search branches, with the *)
(* arcs of a vertex in both orders, with vertices out of reach, parallel   *)
(* arcs and arcs into the start.                                           *)
(***************************************************************************)
EXTENDS DominatorTree

Ascending(S) == InOrder(S, LAMBDA a, b : a < b)
Descending(S) == InOrder(S, LAMBDA a, b : b < a)

Shortcuts == { a \in (0 .. 5) \X (0 .. 5) : a[1] + 1 < a[2] }
BackArcs == {<<2, 1>>, <<3, 1>>, <<3, 2>>, <<4, 1>>, <<4, 2>>, <<4, 3>>,
             <<5, 1>>, <<5, 2>>, <<5, 3>>, <<5, 4>>}

PathGraph(extra) ==
    [ v \in 0 .. 5 |-> (IF v = 5 THEN << >> ELSE <<v + 1>>)
                       \o Ascending({ a[2] : a \in { e \in extra : e[1] = v } }) ]

PathInputs ==
    { [succ |-> PathGraph(down \cup up), start |-> 0] :
        down \in { S \in SUBSET Shortcuts : Cardinality(S) <= 3 },
        up   \in { S \in SUBSET BackArcs : Cardinality(S) <= 2 } }

BranchArcs == { a \in (0 .. 3) \X (1 .. 3) : a[1] # a[2] }

BranchInputs ==
    { [succ |-> [ v \in 0 .. 3 |-> Descending({ a[2] : a \in { e \in arcs : e[1] = v } }) ],
       start |-> 0] : arcs \in SUBSET BranchArcs }

OddInputs ==
    { [succ  |-> 0 :> <<1, 1, 2>> @@ 1 :> <<0, 3, 1>> @@ 2 :> <<3, 0>> @@ 3 :> <<3, 4>>
                 @@ 4 :> <<1, 2>> @@ 5 :> <<3, 1>>,
       start |-> s] : s \in 0 .. 5 }

MCInputs == PathInputs \cup BranchInputs \cup OddInputs
=============================================================================
