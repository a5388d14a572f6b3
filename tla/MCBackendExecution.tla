------------------------- MODULE MCBackendExecution -------------------------
(***************************************************************************)
(* Loops, diamonds and parallel edges compiled for machines with one to    *)
(* four registers besides the two reserved ones: programs that do not fit, *)
(* ones with every value spilled, and ones with a register for each.       *)
(* Frames grow in both directions, with the base at the start, inside and  *)
(* at the end, and some stack pointers leave no room for them.             *)
(***************************************************************************)
EXTENDS BackendExecution, SamplePrograms

MCReplies == {0, 1}

FrameGrowing(growth, anchor) ==
    [ slot_count |-> 0, slot_size |-> 1, slot_alignment |-> 1, frame_alignment |-> 1,
      anchor |-> anchor, displacements |-> <<Int64Min, Int64Max>>, growth |-> growth,
      maximum_chunk |-> 3, immediates |-> <<Int64Min, Int64Max>> ]

(* A third variable that lives through the whole program, and a fourth.    *)
z == 2
w == 3

Bodies ==
    [ receive  |-> <<Receive(x)>>,
      add      |-> <<Add(x, x, y)>>,
      exchange |-> <<Assign(w, x), Assign(x, y), Assign(y, w)>>,
      mix      |-> <<Add(w, x, y), Multiply(z, z, w), Less(y, w, z)>>,
      opaque   |-> <<Exchange(z), Receive(y)>> ]

ProgramOf(graph, predicate, body) ==
    LET inner   == [ b \in Inner(graph) |-> Bodies[body] ]
        control == IF predicate = None THEN CallerChosen(graph)
                   ELSE Branching(graph, predicate)
        last    == SampleInstr("opaque", <<z>>, << >>, None)
    IN  [ Source(graph, control, <<Receive(x)>>, inner) EXCEPT
            !.variables = {x, y, z, w},
            !.instructions = [ b \in DOMAIN @ |->
                IF Graphs[graph][b] = << >> THEN Append(@[b], last) ELSE @[b] ] ]

CallOf(unit, mode, total, frame, pointer) ==
    [ unit |-> unit, mode |-> mode, total |-> total, frame |-> frame,
      stack_pointer |-> pointer, visit_budget |-> 5 ]

SemanticCalls ==
    { CallOf([construction |-> "minimal", program |-> ProgramOf(g, v, body)],
             "semantic", total, FrameGrowing("lower", 0), 0) :
        g \in {"ParallelLoop", "WhileLoop", "Diamond", "Triangle"}, v \in {x, y, w},
        body \in {"receive", "add", "exchange", "mix"}, total \in {4, 5, 6} }

PathCalls ==
    { CallOf([construction |-> c, program |-> ProgramOf(g, None, body)],
             "path", total, FrameGrowing("higher", 0), 0) :
        c \in {"minimal", "pruned"}, g \in {"ParallelLoop", "Triangle", "Irreducible"},
        body \in {"exchange", "opaque"}, total \in {3, 4, 5} }

FrameCalls ==
    { CallOf([construction |-> "minimal", program |-> ProgramOf("WhileLoop", x, "receive")],
             "semantic", total, FrameGrowing(growth, anchor), pointer) :
        total \in {1, 4}, growth \in {"lower", "higher"}, anchor \in {0, 2, 9},
        pointer \in {-16, -10, 10, 15} }

MCCalls == SemanticCalls \cup PathCalls \cup FrameCalls
=============================================================================
