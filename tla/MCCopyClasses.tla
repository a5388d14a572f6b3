---------------------------- MODULE MCCopyClasses ----------------------------
(***************************************************************************)
(* Four locations, and five: every interference graph of the four, every   *)
(* list of at most two moves between them, lists of three that go up; of   *)
(* the five, paths and stars with lists of three moves.  No, one or two    *)
(* registers.                                                              *)
(***************************************************************************)
EXTENDS CopyClasses

MCLocation == 0 .. 4

Inner == 0 .. 3

Symmetric(edges) == edges \cup { <<e[2], e[1]>> : e \in edges }

Graphs(S) == { Symmetric(E) : E \in SUBSET { <<l, m>> \in S \X S : l < m } }

Moves(S) == [source : S, destination : S]

Up(S) == { m \in Moves(S) : m.source < m.destination }

Down(S) == { m \in Moves(S) : m.source > m.destination }

Small ==
    [ interference : Graphs(Inner),
      moves        : UNION { [1 .. n -> Moves(Inner)] : n \in 0 .. 2 },
      budget       : {2} ]

Scarce ==
    [ interference : Graphs(Inner), moves : [1 .. 1 -> Up(Inner)], budget : 0 .. 1 ]

Shapes ==
    { Symmetric({<<0, 1>>, <<1, 2>>, <<2, 3>>, <<3, 4>>}),
      Symmetric({<<4, 0>>, <<4, 1>>, <<4, 2>>}),
      Symmetric({<<0, 2>>, <<1, 3>>}) }

Large ==
    [ interference : Shapes,
      moves        : { q \in [1 .. 3 -> Up(MCLocation) \cup Down(MCLocation)] :
                         q[1] \in Up(MCLocation) /\ q[2] \in Down(MCLocation) },
      budget       : {2} ]

MCInputs == Small \cup Scarce \cup Large
=============================================================================
