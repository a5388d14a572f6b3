--------------------------- MODULE SsaConstruction ---------------------------
(***************************************************************************)
(* construct_ssa, construct_pruned_ssa and the control-semantic            *)
(* construction on top of the first: a source program to an SSA program.   *)
(*                                                                         *)
(* The code renames along the dominator tree with a stack of versions per  *)
(* variable, pushed on entry to a block and popped when its subtree is     *)
(* done.  The tops of the stacks on entry to a block are therefore the     *)
(* ones its immediate dominator left; top[b] holds the tops block b        *)
(* leaves, as versions.                                                    *)
(***************************************************************************)
EXTENDS SsaProgram

(* The order in which the renaming enters the blocks: pending holds the    *)
(* blocks rename_stack will enter, the next one first, children of the     *)
(* dominator tree in increasing order.                                     *)
PreorderWalk(succ, start) ==
    LET Walk[k \in 0 .. Cardinality(Blocks(succ))] ==
            IF k = 0 THEN [order |-> << >>, pending |-> <<start>>]
            ELSE LET before == Walk[k - 1]
                     b      == Head(before.pending)
                 IN  IF before.pending = << >> THEN before
                     ELSE [ order   |-> Append(before.order, b),
                            pending |-> InOrder(TreeChildren(succ, start, b), LAMBDA c, d : c < d)
                                        \o Tail(before.pending) ]
    IN  Walk

Preorder(succ, start) == PreorderWalk(succ, start)[Cardinality(Blocks(succ))].order

ImmediateDominator(succ, start, b) ==
    CHOOSE d \in Blocks(succ) : b \in TreeChildren(succ, start, d)

(* std::invalid_argument unless the entry has no predecessor and the       *)
(* blocks out of reach are empty.                                          *)
SourceAccepted(source) ==
    /\ \A b \in Blocks(source.succ) : source.start \notin Targets(source.succ, b)
    /\ \A b \in Blocks(source.succ) \ ReachableFrom(source.succ, source.start) :
           source.instructions[b] = << >>

DefiningBlocks(source, v) ==
    { b \in ReachableFrom(source.succ, source.start) :
        \E i \in DOMAIN source.instructions[b] :
            v \in ToSet(source.instructions[b][i].definitions) }

(* The pairs of a block and a variable that gets a phi there: the entry    *)
(* defines all variables.                                                  *)
MinimalPhis(source) ==
    UNION { IteratedFrontier(source.succ, source.start,
                             DefiningBlocks(source, v) \cup {source.start}) \X {v} :
              v \in source.variables }
-----------------------------------------------------------------------------
(* Variable v is read in block b before the block defines it. *)
UpwardUse(source, b, v) ==
    LET code == source.instructions[b]
    IN  \E i \in DOMAIN code :
            /\ v \in ToSet(code[i].uses)
            /\ \A j \in 1 .. i - 1 : v \notin ToSet(code[j].definitions)

(* The worklist of compute_liveness, for one variable. *)
LiveInBlocks(source, v) ==
    LET reachable == ReachableFrom(source.succ, source.start)
        defining  == DefiningBlocks(source, v)
        Live[k \in 0 .. Cardinality(Blocks(source.succ))] ==
            IF k = 0
            THEN { b \in reachable : UpwardUse(source, b, v) }
            ELSE LET after == Live[k - 1]
                 IN  after \cup
                     { p \in reachable \ defining :
                         UniqueSuccessors(source.succ, reachable, p) \cap after # {} }
    IN  Live[Cardinality(Blocks(source.succ))]

(* The blocks pruned_phi_variables gives a phi of v: frontier blocks where *)
(* v is live on entry, of the definitions and of the phis placed so far.   *)
PrunedPhiBlocks(source, v) ==
    LET definitions == DefiningBlocks(source, v) \cup {source.start}
        live        == LiveInBlocks(source, v)
        Placed[k \in 0 .. Cardinality(Blocks(source.succ))] ==
            IF k = 0 THEN {}
            ELSE LET before == Placed[k - 1]
                 IN  before \cup
                     (live \cap UNION { Frontier(source.succ, source.start, d) :
                                          d \in definitions \cup before })
    IN  Placed[Cardinality(Blocks(source.succ))]

PrunedPhis(source) ==
    UNION { PrunedPhiBlocks(source, v) \X {v} : v \in source.variables }
-----------------------------------------------------------------------------
(* Faulty: the next version is the one after the top of the stack. *)
CounterPerBranch(state, instruction) ==
    LET defined == ToSet(instruction.definitions)
        top     == [ v \in DOMAIN state.top |->
                       IF v \in defined THEN state.top[v] + 1 ELSE state.top[v] ]
    IN  [ counter |-> state.counter,
          top     |-> top,
          output  |-> Append(state.output,
              [instruction EXCEPT
                 !.uses = [ i \in DOMAIN @ |-> SsaValue(@[i], state.top[@[i]]) ],
                 !.definitions = [ i \in DOMAIN @ |-> SsaValue(@[i], top[@[i]]) ]]) ]

(* One instruction: its uses read the tops of the stacks, its definition   *)
(* pushes the next version.                                                *)
RenameInstruction(state, instruction) ==
    LET defined == ToSet(instruction.definitions)
        counter == [ v \in DOMAIN state.counter |->
                       IF v \in defined THEN state.counter[v] + 1 ELSE state.counter[v] ]
        renamed ==
            [instruction EXCEPT
               !.uses = [ i \in DOMAIN @ |-> SsaValue(@[i], state.top[@[i]]) ],
               !.definitions = [ i \in DOMAIN @ |-> SsaValue(@[i], counter[@[i]]) ]]
    IN  [ counter |-> counter,
          top     |-> [ v \in DOMAIN state.top |->
                          IF v \in defined THEN counter[v] ELSE state.top[v] ],
          output  |-> Append(state.output, renamed) ]

(* The instructions of a block, in order: the states between them. *)
AfterInstructions(state, code) ==
    LET After[i \in 0 .. Len(code)] ==
            IF i = 0 THEN state ELSE RenameInstruction(After[i - 1], code[i])
    IN  After

(* The phis of a block push new versions. *)
CountersAfterPhis(source, placement, state, b) ==
    [ v \in source.variables |->
        IF <<b, v>> \in placement THEN state.counter[v] + 1 ELSE state.counter[v] ]

TopsOnEntry(source, placement, state, b) ==
    LET inherited == IF b = source.start
                     THEN [ v \in source.variables |-> 0 ]
                     ELSE state.top[ImmediateDominator(source.succ, source.start, b)]
    IN  [ v \in source.variables |->
            IF <<b, v>> \in placement THEN state.counter[v] + 1 ELSE inherited[v] ]

RenamedCode(source, placement, state, b) ==
    AfterInstructions([ counter |-> CountersAfterPhis(source, placement, state, b),
                        top     |-> TopsOnEntry(source, placement, state, b),
                        output  |-> << >> ],
                      source.instructions[b])

(* One block: its phis, then its instructions.  The predicate of a         *)
(* conditional terminator is renamed as a use after the last instruction.  *)
RenameBlock(source, placement, state, b) ==
    LET body == RenamedCode(source, placement, state, b)[Len(source.instructions[b])]
    IN  [ counter      |-> body.counter,
          entry        |-> [state.entry EXCEPT ![b] = TopsOnEntry(source, placement, state, b)],
          top          |-> [state.top EXCEPT ![b] = body.top],
          instructions |-> [state.instructions EXCEPT ![b] = body.output] ]

(* The renaming of a source program, for a placement of phis, block by     *)
(* block.                                                                  *)
AfterBlocks(source, placement) ==
    LET order == Preorder(source.succ, source.start)
        none  == [ b \in Blocks(source.succ) |-> << >> ]
        After[k \in 0 .. Len(order)] ==
            IF k = 0
            THEN [ counter      |-> [ v \in source.variables |-> 0 ],
                   entry        |-> none,
                   top          |-> none,
                   instructions |-> none ]
            ELSE RenameBlock(source, placement, After[k - 1], order[k])
    IN  After

Renamed(source, placement) ==
    AfterBlocks(source, placement)[Len(Preorder(source.succ, source.start))]

(* rename_with_placement: entry[b] records the versions on entry to b,     *)
(* which the code keeps on its stacks only.                                *)
WithPlacement(source, placement) ==
    LET reachable == ReachableFrom(source.succ, source.start)
        renamed   == Renamed(source, placement)
        Phi(b, v) == [ variable |-> v,
                       result   |-> SsaValue(v, renamed.entry[b][v]),
                       incoming |-> [ p \in UniquePredecessors(source.succ, reachable, b) |->
                                        SsaValue(v, renamed.top[p][v]) ] ]
    IN  [ start        |-> source.start,
          succ         |-> source.succ,
          variables    |-> source.variables,
          phis         |-> [ b \in Blocks(source.succ) |->
                               { Phi(b, v) : v \in { w \in source.variables : <<b, w>> \in placement } } ],
          instructions |-> renamed.instructions,
          control      |-> [ b \in Blocks(source.succ) |->
                               IF source.control[b].kind = "branch_if_nonzero"
                               THEN [source.control[b] EXCEPT
                                       !.predicate = SsaValue(@, renamed.top[b][@])]
                               ELSE source.control[b] ],
          entry        |-> renamed.entry ]

ConstructSsa(source) ==
    WithPlacement(source, MinimalPhis(source))

ConstructPrunedSsa(source) ==
    WithPlacement(source, PrunedPhis(source))
=============================================================================
