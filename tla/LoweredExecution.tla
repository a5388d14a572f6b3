-------------------------- MODULE LoweredExecution --------------------------
(***************************************************************************)
(* The front end of the compiler, end to end: a source program is given    *)
(* SSA form (SsaConstruction), taken out of it (SsaDestruction), and the   *)
(* phi-free result is executed one move, instruction or terminator at a    *)
(* time.  A unit of compilation is a source program with the construction  *)
(* to use, or an SSA program handed to destroy_ssa directly.               *)
(*                                                                         *)
(* ssa and low are the compiled forms; block, pc and store the machine    *)
(* that runs its result.  event and status record what the machine does,   *)
(* in the terms of the program it was compiled from.  at, pos and env are  *)
(* history: the position and contents of that program after the same       *)
(* steps, which the machine never reads.                                   *)
(***************************************************************************)
EXTENDS SsaDestruction

CONSTANTS Units,     \* of compilation
          Replies    \* what an opaque instruction can produce

ASSUME UnitsAssumption == \A u \in Units : IsUnit(u)

VARIABLES unit,      \* the unit of compilation
          program,   \* its meaning, as a program of SsaSemantics
          ssa,       \* the SSA program
          low,       \* the phi-free program
          block, pc, store,
          at, pos, env,
          event, status

compiler == <<unit, program, ssa, low>>
history == <<at, pos, env>>
vars == <<unit, program, ssa, low, block, pc, store, at, pos, env, event, status>>

Semantics == INSTANCE SsaSemantics

operations == Operations(low, block)

IsSplitBlock(b) == b >= low.original_count
-----------------------------------------------------------------------------
(* The unit has been compiled, or was rejected.  The caller of the result  *)
(* fills the version 0 of each variable.                                   *)
Init ==
    /\ unit \in Units
    /\ unit.construction # "none" => SourceAccepted(unit.program)
    /\ program = Meaning(unit)
    /\ ssa = Constructed(unit)
    /\ \/ /\ ~SsaAccepted(ssa)
          /\ low = << >>
          /\ store = << >>
          /\ status = "rejected"
       \/ /\ SsaAccepted(ssa)
          /\ low = Lowered(unit, ssa)
          /\ store = [ location \in LocationsOf(ssa, low) |->
                         IF location.kind = "value" /\ VersionOf(location.id) = 0
                         THEN VariableOf(location.id) + 1 ELSE 0 ]
          /\ status = "running"
    /\ block = program.start
    /\ pc = 1
    /\ at = program.start
    /\ pos = 1
    /\ env = Semantics!InitialEnv(program)
    /\ event = Semantics!Started(program.start)

PerformMove ==
    /\ status = "running"
    /\ pc <= Len(operations)
    /\ operations[pc].kind = "move"
    /\ LET move == operations[pc].move
       IN  store' = [store EXCEPT ![move.destination] = store[move.source]]
    /\ pc' = pc + 1
    /\ UNCHANGED <<block, at, pos, env, event, status>>
    /\ UNCHANGED compiler

PerformInstruction ==
    /\ status = "running"
    /\ pc <= Len(operations)
    /\ operations[pc].kind = "instruction"
    /\ LET instruction == operations[pc].instruction
           inputs == [ i \in DOMAIN instruction.uses |->
                         store[ValueLocation(instruction.uses[i])] ]
           meant  == program.instructions[at][pos]
       IN  \/ /\ Overflows(instruction, inputs)
              /\ status' = "overflow_error"
              /\ UNCHANGED <<pc, store, pos, env, event>>
           \/ /\ ~Overflows(instruction, inputs)
              /\ \E output \in Outputs(instruction, inputs, Replies) :
                     /\ store' = [ location \in DOMAIN store |->
                                     IF /\ location.kind = "value"
                                        /\ location.id \in ToSet(instruction.definitions)
                                     THEN output ELSE store[location] ]
                     /\ env' = Semantics!Written(env, meant, output)
                     /\ event' = Semantics!Instructed(block, inputs, <<output>>)
              /\ pc' = pc + 1
              /\ pos' = pos + 1
              /\ UNCHANGED status
    /\ UNCHANGED <<block, at>>
    /\ UNCHANGED compiler

(* The targets the terminator allows, as pairs of a logical successor and  *)
(* the block to execute.  An opaque terminator leaves the choice of a      *)
(* lowered edge to the caller; a split block leads to one logical block.   *)
LowTargets(control) ==
    LET LogicalOf(b) == IF IsSplitBlock(b) THEN low.succ[b][1] ELSE b
    IN  CASE control.kind = "jump" -> {control.nonzero}
          [] control.kind = "branch_if_nonzero" ->
                {IF store[ValueLocation(control.predicate)] # 0
                 THEN control.nonzero ELSE control.zero}
          [] control.kind = "opaque" ->
                { [logical_successor |-> LogicalOf(b), execution_successor |-> b] :
                    b \in Targets(low.succ, block) }

(* The terminator of a block of the program. *)
PerformControl ==
    /\ status = "running"
    /\ pc = Len(operations) + 1
    /\ ~IsSplitBlock(block)
    /\ LET control == low.control[block]
           inputs  == IF control.kind = "branch_if_nonzero"
                      THEN <<store[ValueLocation(control.predicate)]>> ELSE << >>
       IN  \E target \in LowTargets(control) :
               /\ block' = target.execution_successor
               /\ at' = target.logical_successor
               /\ env' = Semantics!ThroughEdge(program, env, at,
                                               target.logical_successor)
               /\ event' = Semantics!Controlled(block, inputs, target.logical_successor)
    /\ pc' = 1
    /\ pos' = 1
    /\ UNCHANGED <<store, status>>
    /\ UNCHANGED compiler

(* The only edge of a compiler-generated split block, by its jump or by the*)
(* choice of the caller: no edge of the program is taken, the one that led *)
(* here was.                                                               *)
LeaveSplitBlock ==
    /\ status = "running"
    /\ pc = Len(operations) + 1
    /\ IsSplitBlock(block)
    /\ LET control == low.control[block]
       IN  \/ /\ control.kind = "jump"
              /\ block' = control.nonzero.execution_successor
           \/ /\ control.kind = "opaque"
              /\ block' \in Targets(low.succ, block)
    /\ pc' = 1
    /\ UNCHANGED <<store, at, pos, env, event, status>>
    /\ UNCHANGED compiler

Next ==
    \/ PerformMove \/ PerformInstruction \/ PerformControl \/ LeaveSplitBlock

Spec == Init /\ [][Next]_vars

FairSpec == Spec /\ WF_vars(Next)
-----------------------------------------------------------------------------
(* The phi-free program does what the program it was compiled from means:  *)
(* every instruction reads the same values, every branch the same          *)
(* predicate, and the same successors are selected, whatever the opaque    *)
(* instructions reply.  In particular the moves on an edge are run exactly *)
(* when it is taken and never before a branch has read its predicate, and  *)
(* the compiler's own blocks and moves never run for ever.                 *)
CompilationCorrect == Semantics!FairSpec

AtFirstInstruction ==
    /\ status # "rejected"
    /\ ~IsSplitBlock(block)
    /\ pc = Len(low.entry_moves[block]) + 1

(* When a block begins, the version the renaming has on top of the stack   *)
(* of a variable contains the variable.  Pruned SSA promises this only for *)
(* the variables live on entry.                                            *)
ReachingVersionsHold ==
    unit.construction # "none" /\ AtFirstInstruction =>
        \A v \in low.variables :
            unit.construction = "minimal" \/ block \in LiveInBlocks(unit.program, v)
            => store[ValueLocation(SsaValue(v, ssa.entry[block][v]))]
                   = env[SsaValue(v, 0)]

(* An SSA program handed to destroy_ssa keeps the contents of all of its   *)
(* values, dead ones included, while the instructions of a block run.      *)
ValuesPreserved ==
    /\ unit.construction = "none"
    /\ status # "rejected"
    /\ ~IsSplitBlock(block)
    /\ pc > Len(low.entry_moves[block])
    /\ pc <= Len(operations) + 1 - Len(low.exit_moves[block])
    => \A value \in DOMAIN env : store[ValueLocation(value)] = env[value]

(* destroy_ssa accepts whatever the constructions produce: one definition  *)
(* per value, and one incoming value per predecessor that is in reach.     *)
ConstructionAccepted == unit.construction # "none" => status # "rejected"

(* The guards of the checked operations are exact: the instruction that is *)
(* about to run reports an overflow if and only if its result does not fit,*)
(* whatever its operands and at every boundary of the type.                *)
CheckedArithmeticIsExact ==
    status = "running" /\ pc <= Len(operations) /\ operations[pc].kind = "instruction"
    => LET instruction == operations[pc].instruction
       IN  Len(instruction.uses) = 2 /\ ~IsOpaque(instruction) =>
               \A left, right \in Int64 :
                   Overflows(instruction, <<left, right>>)
                   <=> Evaluate(instruction, <<left, right>>) \notin Int64
=============================================================================
