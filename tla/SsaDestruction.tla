--------------------------- MODULE SsaDestruction ---------------------------
(***************************************************************************)
(* destroy_ssa: an SSA program to a phi-free one.  The phis of a block     *)
(* become parallel copies on each incoming edge; the copies of an edge are *)
(* scheduled as moves (module CopySchedule) and placed at the end of the   *)
(* predecessor, at the start of the successor, or in new blocks that split *)
(* a critical edge.  A lowered program is a record                         *)
(*                                                                         *)
(*   start, succ       the lowered graph; blocks from original_count up    *)
(*                     are split blocks                                    *)
(*   original_count    the number of blocks of the SSA program             *)
(*   temporary_count   temporaries of all the schedules                    *)
(*   entry_moves, instructions, exit_moves, control   per block            *)
(*                                                                         *)
(* A control target is the pair of the logical successor, a block of the   *)
(* SSA program, and the execution successor, the block control goes to.    *)
(***************************************************************************)
EXTENDS SsaConstruction, CopySchedule

(* validate_program: what destroy_ssa requires of its input. *)
SsaAccepted(program) ==
    LET reachable == ReachableFrom(program.succ, program.start)
        blocks    == Blocks(program.succ)
        DefinitionSites(value) ==
            { <<"initial", v, 0>> : v \in { w \in program.variables : SsaValue(w, 0) = value } }
            \cup { <<"phi", b, 0>> : b \in { c \in blocks :
                     \E phi \in program.phis[c] : phi.result = value } }
            \cup UNION { { <<"instruction", b, i>> : i \in { j \in DOMAIN program.instructions[b] :
                             value \in ToSet(program.instructions[b][j].definitions) } } :
                         b \in blocks }
    IN  /\ UniquePredecessors(program.succ, reachable, program.start) = {}
        /\ \A b \in blocks \ reachable :
               program.phis[b] = {} /\ program.instructions[b] = << >>
        /\ \A b \in blocks : \A phi \in program.phis[b] :
               /\ phi.variable \in program.variables
               /\ VariableOf(phi.result) = phi.variable
               /\ \A other \in program.phis[b] :
                      other.variable = phi.variable => other = phi
               /\ DOMAIN phi.incoming = UniquePredecessors(program.succ, reachable, b)
               /\ \A p \in DOMAIN phi.incoming :
                      VariableOf(phi.incoming[p]) = phi.variable
        /\ \A value \in DefinedValues(program) :
               /\ VariableOf(value) \in program.variables
               /\ Cardinality(DefinitionSites(value)) = 1
        /\ UsedValues(program) \subseteq DefinedValues(program)
-----------------------------------------------------------------------------
(* The copies of the edge, sorted by destination, without self-copies. *)
CopiesForEdge(program, predecessor, successor) ==
    LET copied == { phi \in program.phis[successor] :
                      phi.incoming[predecessor] # phi.result }
    IN  InOrder({ [destination |-> phi.result,
                        source      |-> phi.incoming[predecessor]] : phi \in copied },
                     LAMBDA c, d : c.destination < d.destination)

(* One iteration of the loop of schedule_parallel_copies. *)
ScheduleStep(state) ==
    LET pending   == state.pending
        ready     == ReadyDestinations(pending)
        d         == CHOOSE e \in ready : IsFirstOf(e, ready)
        saved     == CHOOSE e \in DOMAIN pending : IsFirstOf(e, DOMAIN pending)
        temporary == TemporaryLocation(state.temporary_count)
    IN  IF DOMAIN pending = {} THEN state
        ELSE IF ready # {}
        THEN [ pending         |-> WithoutCopy(pending, d),
               moves           |-> Append(state.moves, Move(ValueLocation(d), pending[d])),
               temporary_count |-> state.temporary_count ]
        ELSE [ pending         |-> Redirected(pending, saved, temporary),
               moves           |-> Append(state.moves, Move(temporary, ValueLocation(saved))),
               temporary_count |-> state.temporary_count + 1 ]

(* The loop, run to its end: no two iterations in a row save a destination.*)
ScheduleRun(copies) ==
    LET After[k \in 0 .. 2 * Len(copies)] ==
            IF k = 0
            THEN [pending |-> PendingOf(copies), moves |-> << >>, temporary_count |-> 0]
            ELSE ScheduleStep(After[k - 1])
    IN  After

Schedule(copies) == ScheduleRun(copies)[2 * Len(copies)]

(* Faulty: the moves of a critical edge run before the branch. *)
NeverSplit(program, predecessor, successor) ==
    LET reachable == ReachableFrom(program.succ, program.start)
    IN  IF Cardinality(UniquePredecessors(program.succ, reachable, successor)) = 1
        THEN "successor_entry" ELSE "predecessor_exit"

(* Where the moves of an edge go. *)
Placement(program, predecessor, successor) ==
    LET reachable == ReachableFrom(program.succ, program.start)
    IN  IF Cardinality(UniqueSuccessors(program.succ, reachable, predecessor)) = 1
        THEN "predecessor_exit"
        ELSE IF Cardinality(UniquePredecessors(program.succ, reachable, successor)) = 1
        THEN "successor_entry"
        ELSE "split_blocks"

(* The edges that carry copies, by predecessor and then successor. *)
LogicalSites(program) ==
    LET reachable == ReachableFrom(program.succ, program.start)
        sites == { e \in reachable \X reachable :
                     /\ e[2] \in UniqueSuccessors(program.succ, reachable, e[1])
                     /\ CopiesForEdge(program, e[1], e[2]) # << >> }
    IN  InOrder(sites, LAMBDA e, f : e[1] < f[1] \/ (e[1] = f[1] /\ e[2] < f[2]))

(* Temporaries are numbered across the edges, in their order. *)
ShiftTemporaries(moves, offset) ==
    LET Shifted(location) == IF location.kind = "temporary"
                             THEN [location EXCEPT !.id = @ + offset]
                             ELSE location
    IN  [ i \in DOMAIN moves |-> Move(Shifted(moves[i].destination),
                                      Shifted(moves[i].source)) ]

(* One plan per site: its placement and its moves with global temporaries. *)
AddPlan(program, state, site) ==
    LET schedule == Schedule(CopiesForEdge(program, site[1], site[2]))
    IN  [ temporary_count |-> state.temporary_count + schedule.temporary_count,
          plans |-> Append(state.plans,
                      [ predecessor |-> site[1],
                        successor   |-> site[2],
                        placement   |-> Placement(program, site[1], site[2]),
                        moves       |-> ShiftTemporaries(schedule.moves,
                                                         state.temporary_count) ]) ]

AfterSites(program) ==
    LET sites == LogicalSites(program)
        After[k \in 0 .. Len(sites)] ==
            IF k = 0 THEN [temporary_count |-> 0, plans |-> << >>]
            ELSE AddPlan(program, After[k - 1], sites[k])
    IN  After

LoweringPlans(program) == AfterSites(program)[Len(LogicalSites(program))]

(* The physical arcs that get a split block, in the order of their ids:    *)
(* one block for each of the parallel arcs of a split edge.                *)
SplitArcs(program, plans) ==
    LET ArcsOf(plan) ==
            IF plan.placement # "split_blocks" THEN << >>
            ELSE InOrder({ <<plan.predecessor, i>> :
                                  i \in { j \in DOMAIN program.succ[plan.predecessor] :
                                            program.succ[plan.predecessor][j] = plan.successor } },
                              LAMBDA a, b : a[2] < b[2])
    IN  FlattenSeq([ k \in DOMAIN plans |-> ArcsOf(plans[k]) ])
-----------------------------------------------------------------------------
(* Faulty: a branch leads past the split block of its edge. *)
UnsplitTarget(program, arcs, predecessor, successor) ==
    [ logical_successor |-> successor, execution_successor |-> successor ]

(* lower_target: the lowest split block of the edge, or the successor. *)
LowerTarget(program, arcs, predecessor, successor) ==
    LET n      == Cardinality(Blocks(program.succ))
        splits == { n + k - 1 : k \in { j \in DOMAIN arcs :
                      /\ arcs[j][1] = predecessor
                      /\ program.succ[predecessor][arcs[j][2]] = successor } }
    IN  [ logical_successor   |-> successor,
          execution_successor |-> IF splits = {} THEN successor
                                  ELSE CHOOSE b \in splits : IsFirstOf(b, splits) ]

LowerControl(program, arcs, b) ==
    LET control == program.control[b]
    IN  IF control.kind = "opaque" THEN control
        ELSE [control EXCEPT !.nonzero = LowerTarget(program, arcs, b, @),
                             !.zero    = LowerTarget(program, arcs, b, @)]

(* The terminators construct_control_semantic_out_of_ssa gives the lowered *)
(* blocks, the jumps of the split blocks included.  destroy_ssa by itself  *)
(* leaves every one of them opaque.                                        *)
WithControl(program, lowered) ==
    LET arcs == SplitArcs(program, LoweringPlans(program).plans)
        JumpTo(b) == [ logical_successor |-> b, execution_successor |-> b ]
    IN  [lowered EXCEPT !.control =
            [ b \in DOMAIN @ |->
                IF b < lowered.original_count THEN LowerControl(program, arcs, b)
                ELSE [ kind |-> "jump", predicate |-> -1,
                       nonzero |-> JumpTo(lowered.succ[b][1]),
                       zero    |-> JumpTo(lowered.succ[b][1]) ] ]]

PlansAt(plans, placement) == { k \in DOMAIN plans : plans[k].placement = placement }

(* The moves of the last of some plans that write one block. *)
MovesOf(plans, chosen) ==
    IF chosen = {} THEN << >>
    ELSE plans[CHOOSE k \in chosen : \A j \in chosen : j <= k].moves

DestroySsa(program) ==
    LET lowering == LoweringPlans(program)
        plans    == lowering.plans
        arcs     == SplitArcs(program, plans)
        n        == Cardinality(Blocks(program.succ))
        all      == 0 .. n + Len(arcs) - 1
        SplitOf(b, i) == { n + k - 1 : k \in { j \in DOMAIN arcs : arcs[j] = <<b, i>> } }
        SuccessorOf(s) == LET arc == arcs[s - n + 1] IN program.succ[arc[1]][arc[2]]
    IN  [ start           |-> program.start,
          variables       |-> program.variables,
          original_count  |-> n,
          temporary_count |-> lowering.temporary_count,
          succ |-> [ b \in all |->
                       IF b >= n THEN <<SuccessorOf(b)>>
                       ELSE [ i \in DOMAIN program.succ[b] |->
                                IF SplitOf(b, i) = {} THEN program.succ[b][i]
                                ELSE CHOOSE s \in SplitOf(b, i) : TRUE ] ],
          entry_moves |-> [ b \in all |->
                       IF b < n
                       THEN MovesOf(plans, { k \in PlansAt(plans, "successor_entry") :
                                               plans[k].successor = b })
                       ELSE MovesOf(plans, { k \in PlansAt(plans, "split_blocks") :
                                               /\ plans[k].predecessor = arcs[b - n + 1][1]
                                               /\ plans[k].successor = SuccessorOf(b) }) ],
          exit_moves |-> [ b \in all |->
                       IF b >= n THEN << >>
                       ELSE MovesOf(plans, { k \in PlansAt(plans, "predecessor_exit") :
                                               plans[k].predecessor = b }) ],
          instructions |-> [ b \in all |->
                       IF b >= n THEN << >> ELSE program.instructions[b] ],
          control |-> [ b \in all |->
                       [kind |-> "opaque", predicate |-> -1, nonzero |-> -1, zero |-> -1] ] ]
-----------------------------------------------------------------------------
(* The front end as one function: a unit of compilation to a phi-free      *)
(* program.  A unit is a record of a program and the construction to use:  *)
(* "minimal" (construct_ssa), "pruned" (construct_pruned_ssa), or "none"   *)
(* for an SSA program handed to destroy_ssa directly.                      *)

(* A source program as the abstract machine runs it: variable v is the     *)
(* only version of itself.                                                 *)
Unversioned(source) ==
    [ start        |-> source.start,
      succ         |-> source.succ,
      variables    |-> source.variables,
      phis         |-> source.phis,
      instructions |-> [ b \in Blocks(source.succ) |->
          [ i \in DOMAIN source.instructions[b] |->
              [source.instructions[b][i] EXCEPT
                 !.uses        = [ k \in DOMAIN @ |-> SsaValue(@[k], 0) ],
                 !.definitions = [ k \in DOMAIN @ |-> SsaValue(@[k], 0) ]] ] ],
      control      |-> [ b \in Blocks(source.succ) |->
          IF source.control[b].kind = "branch_if_nonzero"
          THEN [source.control[b] EXCEPT !.predicate = SsaValue(@, 0)]
          ELSE source.control[b] ] ]

Meaning(u) ==
    IF u.construction = "none" THEN u.program ELSE Unversioned(u.program)

(* The definitions of a variable, by block and instruction. *)
InstructionSites(source, v) ==
    UNION { { <<b, i>> : i \in { j \in DOMAIN source.instructions[b] :
                                   v \in ToSet(source.instructions[b][j].definitions) } } :
              b \in Blocks(source.succ) }

(* What a unit is.  Only the control-semantic construction is given        *)
(* terminators, and VersionSpan leaves room for the versions of a variable:*)
(* at most a phi per block and one per definition.                         *)
IsUnit(u) ==
    LET p == u.program
    IN  /\ u.construction \in {"minimal", "pruned", "none"}
        /\ u.construction # "minimal" => \A b \in Blocks(p.succ) : p.control[b].kind = "opaque"
        /\ u.construction # "none" =>
               /\ IsProgram(p, p.variables)
               /\ p.phis = [ b \in Blocks(p.succ) |-> {} ]
               /\ \A v \in p.variables :
                      Cardinality(Blocks(p.succ)) + Cardinality(InstructionSites(p, v)) < VersionSpan
        /\ u.construction = "none" =>
               /\ IsProgram(p, Nat)
               /\ \A b \in Blocks(p.succ) :
                      /\ IsFiniteSet(p.phis[b])
                      /\ \A phi \in p.phis[b] :
                             /\ phi.result \in Nat
                             /\ \A q \in DOMAIN phi.incoming : phi.incoming[q] \in Nat

(* The construction of a unit; an SSA program needs none. *)
Constructed(u) ==
    CASE u.construction = "minimal" -> ConstructSsa(u.program)
      [] u.construction = "pruned"  -> ConstructPrunedSsa(u.program)
      [] u.construction = "none"    -> u.program

(* Only construct_control_semantic_out_of_ssa lowers terminators. *)
Lowered(u, form) ==
    IF u.construction = "minimal" THEN WithControl(form, DestroySsa(form))
    ELSE DestroySsa(form)

-----------------------------------------------------------------------------
(* flatten_block: the moves on entry, the instructions, the moves on exit. *)
Operations(lowered, b) ==
    LET MoveOperation(move) == [kind |-> "move", move |-> move]
    IN  [ i \in DOMAIN lowered.entry_moves[b] |->
            MoveOperation(lowered.entry_moves[b][i]) ]
        \o [ i \in DOMAIN lowered.instructions[b] |->
            [kind |-> "instruction", instruction |-> lowered.instructions[b][i]] ]
        \o [ i \in DOMAIN lowered.exit_moves[b] |->
            MoveOperation(lowered.exit_moves[b][i]) ]

(* The locations of a phi-free program: the values and the temporaries. *)
LocationsOf(form, lowered) ==
    { ValueLocation(v) : v \in DefinedValues(form) }
    \cup { TemporaryLocation(k) : k \in 0 .. lowered.temporary_count - 1 }
=============================================================================
