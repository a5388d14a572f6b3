------------------------- MODULE MCLoweredExecution -------------------------
(***************************************************************************)
(* Two families of source programs, compiled with construct_ssa and with   *)
(* construct_pruned_ssa, and SSA programs that destroy_ssa accepts and no  *)
(* construction produces, whose phi webs interfere.                        *)
(***************************************************************************)
EXTENDS LoweredExecution, SamplePrograms

MCReplies == {0, 1}

(* The code of a block, by name. *)
Bodies ==
    [ receive  |-> <<Receive(x)>>,
      copy     |-> <<Assign(y, x)>>,
      add      |-> <<Add(x, x, y)>>,
      subtract |-> <<Subtract(y, y, x)>>,
      multiply |-> <<Multiply(x, x, y)>>,
      exchange |-> <<Assign(y, x), Exchange(x)>>,
      compare  |-> <<Send, Less(y, x, y)>>,
      nothing  |-> << >>,
      opaque   |-> <<Exchange(y), Receive(x)>> ]

ChoicesOf(graphs, bodies, constructions, predicates) ==
    UNION { { [ construction |-> c, graph |-> g, predicate |-> v, inner |-> inner ] :
                c \in constructions, v \in predicates, inner \in [Inner(g) -> bodies] } :
              g \in graphs }

SemanticChoices ==
    ChoicesOf({"SelfLoop", "ParallelLoop", "WhileLoop", "Diamond", "Triangle",
             "Degenerate", "DeadArm"},
            {"receive", "copy", "add", "exchange", "compare"}, {"minimal"}, {x, y})

ArithmeticChoices ==
    ChoicesOf({"SelfLoop", "ParallelLoop"}, {"subtract", "multiply"}, {"minimal"}, {x})

CallerMadeChoices ==
    ChoicesOf({"ParallelLoop", "Triangle", "Irreducible", "NestedLoop"},
            {"nothing", "receive", "opaque"}, {"minimal", "pruned"}, {None})

SourceOfChoice(c) ==
    LET inner == [ b \in DOMAIN c.inner |-> Bodies[c.inner[b]] ]
    IN  IF c.predicate = None
        THEN Source(c.graph, CallerChosen(c.graph), << >>, inner)
        ELSE Source(c.graph, Branching(c.graph, c.predicate), <<Receive(x)>>, inner)

(* A loop whose phi of x is overwritten while the phi is still read: the   *)
(* loop is left with x1 (the lost copy), and the phi of y receives the     *)
(* last-th version of y.                                                   *)
OverlappingChoices ==
    { [ graph |-> g[1], back |-> g[2], last |-> n ] :
        g \in { <<"SelfLoop", 1>>, <<"ParallelLoop", 1>>, <<"WhileLoop", 2>> },
        n \in 0 .. 2 }

Phi(v, back, last) ==
    [ variable |-> v, result |-> SsaValue(v, 1),
      incoming |-> 0 :> SsaValue(v, 0) @@ back :> SsaValue(v, last) ]

OverlappingLoop(c) ==
    LET succ == Graphs[c.graph]
        x1 == SsaValue(x, 1)
        x2 == SsaValue(x, 2)
        y1 == SsaValue(y, 1)
        y2 == SsaValue(y, 2)
    IN  [ start        |-> 0,
          succ         |-> succ,
          variables    |-> {x, y},
          phis         |-> [ b \in DOMAIN succ |->
                               IF b = 1 THEN { Phi(x, c.back, 2), Phi(y, c.back, c.last) }
                               ELSE {} ],
          instructions |-> [ b \in DOMAIN succ |->
                               IF b = c.back
                               THEN << SampleInstr("opaque", <<x1>>, <<x2>>, None),
                                       SampleInstr("add_i64", <<x1, x2>>, <<y2>>, None) >>
                               ELSE IF succ[b] = << >>
                               THEN << SampleInstr("opaque", <<x1, y1>>, << >>, None) >>
                               ELSE << >> ],
          control      |-> CallerChosen(c.graph) ]

MCUnits ==
    { [ construction |-> c.construction, program |-> SourceOfChoice(c) ] :
        c \in SemanticChoices \cup ArithmeticChoices \cup CallerMadeChoices }
    \cup { [ construction |-> "none", program |-> OverlappingLoop(c) ] :
              c \in OverlappingChoices }
=============================================================================
