--------------------------- MODULE SamplePrograms ---------------------------
(***************************************************************************)
(* The programs the model-checking modules compile and run: graphs with    *)
(* each feature the passes treat specially, and instruction sequences over *)
(* two variables x and y that copy, combine and observe them.              *)
(***************************************************************************)
EXTENDS Integers, Sequences, TLC

x == 0
y == 1

None == -1

SampleInstr(opcode, uses, definitions, immediate) ==
    [ opcode |-> opcode, uses |-> uses, definitions |-> definitions,
      immediate |-> immediate ]

Receive(v)  == SampleInstr("opaque", << >>, <<v>>, None)
Send        == SampleInstr("opaque", <<x, y>>, << >>, None)
Exchange(v) == SampleInstr("opaque", <<v>>, <<v>>, None)
Const(v, n) == SampleInstr("constant_i64", << >>, <<v>>, n)
Assign(v, w) == SampleInstr("copy_i64", <<w>>, <<v>>, None)
Add(v, u, w) == SampleInstr("add_i64", <<u, w>>, <<v>>, None)
Subtract(v, u, w) == SampleInstr("subtract_i64", <<u, w>>, <<v>>, None)
Multiply(v, u, w) == SampleInstr("multiply_i64", <<u, w>>, <<v>>, None)
Less(v, u, w) == SampleInstr("less_than_i64", <<u, w>>, <<v>>, None)

Jump(b) == [ kind |-> "jump", predicate |-> None, nonzero |-> b, zero |-> b ]

Branch(v, b, c) ==
    [ kind |-> "branch_if_nonzero", predicate |-> v, nonzero |-> b, zero |-> c ]

Opaque == [ kind |-> "opaque", predicate |-> None, nonzero |-> None, zero |-> None ]

(* Graphs, by the feature each has. *)
Graphs ==
    [ SelfLoop     |-> 0 :> <<1>>    @@ 1 :> <<1, 2>>    @@ 2 :> << >>,
      ParallelLoop |-> 0 :> <<1>>    @@ 1 :> <<1, 2, 1>> @@ 2 :> << >>,
      WhileLoop    |-> 0 :> <<1>>    @@ 1 :> <<2, 3>>    @@ 2 :> <<1>>    @@ 3 :> << >>,
      Diamond      |-> 0 :> <<1, 2>> @@ 1 :> <<3>>       @@ 2 :> <<3>>    @@ 3 :> << >>,
      Triangle     |-> 0 :> <<2, 1>> @@ 1 :> <<2>>       @@ 2 :> << >>,
      Irreducible  |-> 0 :> <<1, 2>> @@ 1 :> <<2>>       @@ 2 :> <<1, 3>> @@ 3 :> << >>,
      Degenerate   |-> 0 :> <<1>>    @@ 1 :> <<2, 2>>    @@ 2 :> <<1, 3>> @@ 3 :> << >>,
      DeadArm      |-> 0 :> <<1, 2>> @@ 1 :> <<2>>       @@ 2 :> << >>    @@ 3 :> <<2>>,
      NestedLoop   |-> 0 :> <<1>>    @@ 1 :> <<2>>       @@ 2 :> <<2, 3>>
                       @@ 3 :> <<1, 4>> @@ 4 :> << >> ]

(* Block 3 of DeadArm cannot be reached. *)
IsDead(graph, b) == graph = "DeadArm" /\ b = 3

(* The terminators of a graph whose branches read variable v: the first    *)
(* target is taken on nonzero, the second on zero.                         *)
Branching(graph, v) ==
    LET succ == Graphs[graph]
    IN  [ b \in DOMAIN succ |->
            IF succ[b] = << >> \/ IsDead(graph, b) THEN Opaque
            ELSE IF Len(succ[b]) = 1 THEN Jump(succ[b][1])
            ELSE Branch(v, succ[b][1], succ[b][2]) ]

CallerChosen(graph) == [ b \in DOMAIN Graphs[graph] |-> Opaque ]

(* The blocks whose code is varied. *)
Inner(graph) ==
    { b \in DOMAIN Graphs[graph] : b # 0 /\ Graphs[graph][b] # << >> /\ ~IsDead(graph, b) }

(* The first block runs given code, the last one observes both variables. *)
Source(graph, control, first, inner) ==
    LET succ == Graphs[graph]
    IN  [ start        |-> 0,
          succ         |-> succ,
          variables    |-> {x, y},
          phis         |-> [ b \in DOMAIN succ |-> {} ],
          instructions |-> [ b \in DOMAIN succ |->
                               IF b = 0 THEN first
                               ELSE IF b \in Inner(graph) THEN inner[b]
                               ELSE IF succ[b] = << >> THEN <<Send>> ELSE << >> ],
          control      |-> control ]
=============================================================================
