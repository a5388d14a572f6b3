--------------------------- MODULE BackendExecution ---------------------------
(***************************************************************************)
(* The backend, end to end: a phi-free program gets registers, stack slots *)
(* and a fixed frame, and the planned program is executed block by block.  *)
(* Every visit of a block runs the whole frame entry again, on a register  *)
(* file in which the two reserved registers are first put back to what the *)
(* caller supplied, and must find the other registers as they were left.   *)
(*                                                                         *)
(* The last register of the machine is the stack pointer, the one before   *)
(* it the frame base.  A call executes in mode "semantic" (by the lowered  *)
(* terminators, execute_backend_semantic_cfg, for a number of visits) or   *)
(* "path" (along a path of the caller, execute_backend_cfg_path_exit_event,*)
(* with the frame exit at its end).  The path and the replies are given    *)
(* before execution starts; here they are chosen when they are needed.     *)
(*                                                                         *)
(* at, pos, env and event are history, as in LoweredExecution.             *)
(***************************************************************************)
EXTENDS RegisterAllocation

CONSTANTS Calls,         \* [unit, mode, total, frame, stack_pointer, visit_budget]
          Replies,       \* what an opaque instruction can produce
          Garbage        \* contents of the storage the caller did not fill

VARIABLES call,
          program,       \* the meaning of the unit
          ssa, low,
          liveness,      \* of the locations, at every point
          class, quotient,   \* the coalesced classes and their interference
          reserved,      \* registers the attempt keeps for scratch
          assigned,      \* the register of every class, in this attempt
          plan,          \* the planned program
          block, pc,     \* the block that is visited, its next operation
          registers,     \* the register file
          frame_values,  \* contents of the stack slots
          visit,         \* visits completed
          at, pos, env,
          event, status

compiler == <<call, program, ssa, low, liveness, class, quotient>>
planner == <<reserved, assigned, plan>>
machine == <<block, pc, registers, frame_values, visit>>
history == <<at, pos, env, event>>
vars == <<call, program, ssa, low, liveness, class, quotient, reserved, assigned, plan,
          block, pc, registers, frame_values, visit, at, pos, env, event, status>>

Semantics == INSTANCE SsaSemantics WITH
    status <- IF status = "overflow_error" THEN status ELSE "running"

stack_pointer == call.total - 1
frame_base == call.total - 2

IsSplitBlock(b) == b >= low.original_count
-----------------------------------------------------------------------------
(* What the unit means: its own terminators decide, or the caller's path.  *)
MeaningOf(c) ==
    IF c.mode = "semantic" THEN Meaning(c.unit)
    ELSE [Meaning(c.unit) EXCEPT
            !.control = [ b \in DOMAIN @ |-> [@[b] EXCEPT !.kind = "opaque"] ]]

(* The registers the body of a program can use. *)
body_registers == call.total - 2

allocatable == body_registers - reserved

(* The call, before the reservation loop; a machine without the two        *)
(* reserved registers has no plan.                                         *)
Init ==
    /\ call \in Calls
    /\ program = MeaningOf(call)
    /\ ssa = Constructed(call.unit)
    /\ low = Lowered(call.unit, ssa)
    /\ liveness = Liveness(low)
    /\ class = CoalescedClasses(low, Interference(low, liveness))
    /\ quotient = ClassInterference(class, Interference(low, liveness))
    /\ reserved = 0 /\ assigned = << >> /\ plan = << >>
    /\ status = IF call.total < 2 THEN "unplanned" ELSE "allocating"
    /\ registers = << >> /\ frame_values = << >>
    /\ block = program.start
    /\ pc = 1
    /\ visit = 0
    /\ at = program.start
    /\ pos = 1
    /\ env = Semantics!InitialEnv(program)
    /\ event = Semantics!Started(program.start)

(* coalesce_phi_free_registers with what the attempt leaves: the classes   *)
(* do not depend on it, their registers do.                                *)
AllocateRegisters ==
    /\ status = "allocating"
    /\ assigned' = Colored({ class[n] : n \in DOMAIN class }, quotient, allocatable)
    /\ status' = "lowering"
    /\ UNCHANGED <<reserved, plan>>
    /\ UNCHANGED compiler /\ UNCHANGED machine /\ UNCHANGED history

LowerStorage ==
    /\ status = "lowering"
    /\ plan' = [storage |-> StorageMap(low, class, assigned)]
    /\ status' = "reserving"
    /\ UNCHANGED <<reserved, assigned>>
    /\ UNCHANGED compiler /\ UNCHANGED machine /\ UNCHANGED history

(* The attempt needs more scratch registers than it reserved. *)
ReserveAnother ==
    /\ status = "reserving"
    /\ ~Feasible(LoweredBlocks(low, plan.storage), reserved)
    /\ \/ /\ reserved < body_registers
          /\ reserved' = reserved + 1
          /\ status' = "allocating"
       \/ /\ reserved = body_registers
          /\ status' = "unplanned"
          /\ UNCHANGED reserved
    /\ UNCHANGED <<assigned, plan>>
    /\ UNCHANGED compiler /\ UNCHANGED machine /\ UNCHANGED history

(* What the caller puts in a storage: the initial value that is live there *)
(* when the program starts, if any.                                        *)
Supplied(storage) ==
    LET live == { l \in liveness[low.start][1] :
                    l.kind = "value" /\ VersionOf(l.id) = 0 /\ plan.storage[l] = storage }
    IN  IF live = {} THEN Garbage ELSE VariableOf((CHOOSE l \in live : TRUE).id) + 1

(* The attempt is selected: its operations are mapped to the machine and a *)
(* frame with a slot per spilled class, and the caller fills the storage.  *)
(* The frame may be refused.                                               *)
SelectAttempt ==
    /\ status = "reserving"
    /\ Feasible(LoweredBlocks(low, plan.storage), reserved)
    /\ LET frame == [call.frame EXCEPT !.slot_count = SlotCount(plan.storage)]
       IN  \/ /\ ~Frame!FrameAccepted(frame)
              /\ status' = "unplanned"
              /\ UNCHANGED <<plan, registers, frame_values>>
           \/ /\ Frame!FrameAccepted(frame)
              /\ plan' =
                   [ storage |-> plan.storage,
                     frame   |-> frame,
                     code    |-> [ b \in Blocks(low.succ) |->
                         PhysicalOperations(frame, allocatable,
                             OperationsOf(LowerBlock(low, plan.storage, b))) ] ]
              /\ registers' =
                   [ r \in 0 .. call.total - 1 |->
                       IF r = stack_pointer THEN call.stack_pointer
                       ELSE Supplied(Register(r)) ]
              /\ frame_values' =
                   [ k \in 0 .. frame.slot_count - 1 |-> Supplied(StackSlot(k)) ]
              /\ status' = "between_blocks"
    /\ UNCHANGED <<reserved, assigned, block, pc, visit>>
    /\ UNCHANGED compiler /\ UNCHANGED history
-----------------------------------------------------------------------------
(* Faulty: the entry runs on the registers the last visit left. *)
NotRestored(file) == file

(* The register file a visit or the exit replays the frame entry on.       *)
Restored(file) ==
    [file EXCEPT ![stack_pointer] = call.stack_pointer, ![frame_base] = Garbage]

(* The frame entry, on a register file (FixedFrame has its chunks). *)
EntryFits(file) ==
    /\ file[stack_pointer] + Frame!StackAdjustment(plan.frame) \in Int64
    /\ file[stack_pointer] + Frame!BaseFromEntry(plan.frame) \in Int64

Entered(file) ==
    [file EXCEPT
        ![stack_pointer] = file[stack_pointer] + Frame!StackAdjustment(plan.frame),
        ![frame_base]    = file[stack_pointer] + Frame!BaseFromEntry(plan.frame)]

(* A visit begins: the entry must lead back to the registers in force,     *)
(* unless it is the first.                                                 *)
EnterFrame ==
    /\ status = "between_blocks"
    /\ LET file == IF visit = 0 THEN registers ELSE Restored(registers)
       IN  \/ /\ ~EntryFits(file)
              /\ status' = "frame_error"
              /\ UNCHANGED registers
           \/ /\ EntryFits(file)
              /\ visit # 0 /\ Entered(file) # registers
              /\ status' = "logic_error"
              /\ UNCHANGED registers
           \/ /\ EntryFits(file)
              /\ visit = 0 \/ Entered(file) = registers
              /\ registers' = Entered(file)
              /\ status' = "in_block"
    /\ UNCHANGED <<block, pc, frame_values, visit, at, pos, env, event>>
    /\ UNCHANGED compiler /\ UNCHANGED planner

(* The slot at a displacement from the frame base. *)
SlotAt(displacement) ==
    CHOOSE k \in 0 .. plan.frame.slot_count - 1 :
        Frame!Displacement(plan.frame, k) = displacement

Contents(storage) ==
    IF storage.kind = "frame" THEN frame_values[SlotAt(storage.index)]
    ELSE registers[storage.index]

Store(storage, value) ==
    IF storage.kind = "frame"
    THEN /\ frame_values' = [frame_values EXCEPT ![SlotAt(storage.index)] = value]
         /\ UNCHANGED registers
    ELSE /\ registers' = [registers EXCEPT ![storage.index] = value]
         /\ UNCHANGED frame_values

PerformTransfer ==
    /\ status = "in_block"
    /\ pc <= Len(plan.code[block])
    /\ LET operation == plan.code[block][pc]
       IN  /\ operation.kind # "instruction"
           /\ Store(operation.outputs[1], Contents(operation.inputs[1]))
    /\ pc' = pc + 1
    /\ UNCHANGED <<block, visit, at, pos, env, event, status>>
    /\ UNCHANGED compiler /\ UNCHANGED planner

(* A scalar instruction is evaluated or fails, and with it the whole call; *)
(* an opaque one takes its reply, or the replies are exhausted.            *)
PerformInstruction ==
    /\ status = "in_block"
    /\ pc <= Len(plan.code[block])
    /\ plan.code[block][pc].kind = "instruction"
    /\ LET operation   == plan.code[block][pc]
           instruction == operation.instruction
           inputs      == [ i \in DOMAIN operation.inputs |-> Contents(operation.inputs[i]) ]
           meant       == program.instructions[at][pos]
       IN  \/ /\ Overflows(instruction, inputs)
              /\ status' = "overflow_error"
              /\ UNCHANGED <<registers, frame_values, pc, pos, env, event>>
           \/ /\ ~Overflows(instruction, inputs)
              /\ \E output \in Outputs(instruction, inputs, Replies) :
                     /\ IF operation.outputs = << >> THEN UNCHANGED <<registers, frame_values>>
                        ELSE Store(operation.outputs[1], output)
                     /\ env' = Semantics!Written(env, meant, output)
                     /\ event' = Semantics!Instructed(block, inputs, <<output>>)
              /\ pc' = pc + 1
              /\ pos' = pos + 1
              /\ UNCHANGED status
           \/ /\ IsOpaque(instruction)
              /\ status' = "body_suspended"
              /\ UNCHANGED <<registers, frame_values, pc, pos, env, event>>
    /\ UNCHANGED <<block, visit, at>>
    /\ UNCHANGED compiler /\ UNCHANGED planner
-----------------------------------------------------------------------------
BlockDone == status = "in_block" /\ pc = Len(plan.code[block]) + 1

(* Control reaches a successor.  The edge of the program was taken before  *)
(* a split block is entered: leaving it is not an event.                   *)
Reach(logical, execution, inputs) ==
    /\ block' = execution
    /\ pc' = 1
    /\ pos' = 1
    /\ IF IsSplitBlock(block) THEN UNCHANGED <<at, env, event>>
       ELSE /\ at' = logical
            /\ env' = Semantics!ThroughEdge(program, env, at, logical)
            /\ event' = Semantics!Controlled(block, inputs, logical)
    /\ visit' = visit + 1

(* The predicate is read from its register or its slot, after the block.   *)
Predicate(control) ==
    LET storage == plan.storage[ValueLocation(control.predicate)]
    IN  IF storage.kind = "stack" THEN frame_values[storage.index]
        ELSE registers[storage.index]

(* execute_backend_semantic_control_block; the last visit of the budget    *)
(* records where execution would go on.                                    *)
SelectSuccessor ==
    /\ call.mode = "semantic"
    /\ BlockDone
    /\ LET control == low.control[block]
       IN  \/ /\ control.kind = "jump"
              /\ Reach(control.nonzero.logical_successor,
                       control.nonzero.execution_successor, << >>)
           \/ /\ control.kind = "branch_if_nonzero"
              /\ LET target == IF Predicate(control) # 0 THEN control.nonzero
                               ELSE control.zero
                 IN  Reach(target.logical_successor, target.execution_successor,
                           <<Predicate(control)>>)
    /\ status' = IF visit + 1 = call.visit_budget THEN "visit_budget_exhausted"
                 ELSE "between_blocks"
    /\ UNCHANGED <<registers, frame_values>>
    /\ UNCHANGED compiler /\ UNCHANGED planner

StopAtOpaqueControl ==
    /\ call.mode = "semantic"
    /\ BlockDone
    /\ low.control[block].kind = "opaque"
    /\ visit' = visit + 1
    /\ status' = "opaque_control"
    /\ UNCHANGED <<block, pc, registers, frame_values, at, pos, env, event>>
    /\ UNCHANGED compiler /\ UNCHANGED planner

(* The next block of the path, any successor; visit_budget bounds paths.   *)
FollowPath ==
    /\ call.mode = "path"
    /\ BlockDone
    /\ visit + 1 < call.visit_budget
    /\ \E b \in Targets(low.succ, block) :
           Reach(IF IsSplitBlock(b) THEN low.succ[b][1] ELSE b, b, << >>)
    /\ status' = "between_blocks"
    /\ UNCHANGED <<registers, frame_values>>
    /\ UNCHANGED compiler /\ UNCHANGED planner

(* The path ends here: the entry is replayed once more, and the exit gives *)
(* the stack back but leaves the frame base as it is.                      *)
ExitFrame ==
    /\ call.mode = "path"
    /\ BlockDone
    /\ visit' = visit + 1
    /\ \/ /\ Entered(Restored(registers)) = registers
          /\ registers' = [registers EXCEPT ![stack_pointer] = call.stack_pointer]
          /\ status' = "left"
       \/ /\ Entered(Restored(registers)) # registers
          /\ status' = "logic_error"
          /\ UNCHANGED registers
    /\ UNCHANGED <<block, pc, frame_values, at, pos, env, event>>
    /\ UNCHANGED compiler /\ UNCHANGED planner

Next ==
    \/ AllocateRegisters \/ LowerStorage \/ ReserveAnother \/ SelectAttempt
    \/ EnterFrame \/ PerformTransfer \/ PerformInstruction \/ SelectSuccessor
    \/ StopAtOpaqueControl \/ FollowPath \/ ExitFrame

Spec == Init /\ [][Next]_vars
-----------------------------------------------------------------------------
(* The planned program does what the unit means, however few registers it  *)
(* was given: every instruction reads and every branch tests the value it  *)
(* was meant to, through coalescing, spills, reloads and scratch registers,*)
(* and an overflow is reported exactly where the meaning has one.          *)
ImplementsMeaning == Semantics!Spec

(* When the instructions of a block begin, the storage of the version that *)
(* reaches it contains every variable that is live, in whatever register   *)
(* or slot, and whatever block control came from.                          *)
LiveVariablesInStorage ==
    /\ status = "in_block"
    /\ ~IsSplitBlock(block)
    /\ pc = Len(LowerMoves(plan.storage, low.entry_moves[block])) + 1
    /\ call.unit.construction # "none"
    => \A v \in low.variables :
           block \in LiveInBlocks(call.unit.program, v) =>
               LET storage == plan.storage[ValueLocation(SsaValue(v, ssa.entry[block][v]))]
               IN  env[SsaValue(v, 0)] =
                       IF storage.kind = "stack" THEN frame_values[storage.index]
                       ELSE registers[storage.index]

(* The handoff between visits never fails, and no operation of a block     *)
(* touches the reserved registers: while blocks execute they are at the    *)
(* offsets of the frame from the pointer the caller supplied, and the exit *)
(* gives the stack back.                                                   *)
FrameHeld ==
    /\ status # "logic_error"
    /\ status = "frame_error" => visit = 0
    /\ status = "in_block" \/ visit > 0 =>
           /\ registers[frame_base] = call.stack_pointer + Frame!BaseFromEntry(plan.frame)
           /\ registers[stack_pointer] =
                  IF status = "left" THEN call.stack_pointer
                  ELSE call.stack_pointer + Frame!StackAdjustment(plan.frame)
=============================================================================
