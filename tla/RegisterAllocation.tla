------------------------- MODULE RegisterAllocation -------------------------
(***************************************************************************)
(* allocate_phi_free_registers and coalesce_phi_free_registers of a        *)
(* phi-free program, as functions: liveness of the locations, interference,*)
(* classes of coalesced locations and their registers.  CopyClasses treats *)
(* the last two for arbitrary interference; here it comes from a program.  *)
(*                                                                         *)
(* A class is named by its first location in the order LocationLess, and   *)
(* locations by their number in that order, so that < orders classes as    *)
(* their ids do.                                                           *)
(***************************************************************************)
EXTENDS SsaDestruction, GreedyColoring

UsesOf(operation) ==
    IF operation.kind = "move" THEN {operation.move.source}
    ELSE { ValueLocation(v) : v \in ToSet(operation.instruction.uses) }

DefinitionsOf(operation) ==
    IF operation.kind = "move" THEN {operation.move.destination}
    ELSE { ValueLocation(v) : v \in ToSet(operation.instruction.definitions) }

(* Faulty: nothing keeps the predicate of a branch alive. *)
PredicateForgotten(lowered, b) == {}

(* The location a terminator reads. *)
PredicatesOf(lowered, b) ==
    IF lowered.control[b].kind = "branch_if_nonzero"
    THEN {ValueLocation(lowered.control[b].predicate)} ELSE {}

(* The locations of the allocation: the initial values, the temporaries    *)
(* and whatever an operation or a terminator mentions.                     *)
AllocatedLocations(lowered) ==
    { ValueLocation(SsaValue(v, 0)) : v \in lowered.variables }
    \cup { TemporaryLocation(k) : k \in 0 .. lowered.temporary_count - 1 }
    \cup UNION { PredicatesOf(lowered, b)
                 \cup UNION { UsesOf(o) \cup DefinitionsOf(o) :
                                o \in ToSet(Operations(lowered, b)) } :
                   b \in Blocks(lowered.succ) }

(* A number per location, in the order LocationLess: values, temporaries. *)
NumberOf(lowered, location) ==
    IF location.kind = "value" THEN location.id
    ELSE VersionSpan * Cardinality(lowered.variables) + location.id
-----------------------------------------------------------------------------
(* block_use and block_def of a location, as the blocks they hold of. *)
UpwardUseBlocks(lowered, location) ==
    { b \in Blocks(lowered.succ) :
        LET code == Operations(lowered, b)
            Kept(n) == \A j \in 1 .. n : location \notin DefinitionsOf(code[j])
        IN  \/ \E i \in DOMAIN code : location \in UsesOf(code[i]) /\ Kept(i - 1)
            \/ location \in PredicatesOf(lowered, b) /\ Kept(Len(code)) }

DefinitionBlocks(lowered, location) ==
    { b \in Blocks(lowered.succ) :
        \E o \in ToSet(Operations(lowered, b)) : location \in DefinitionsOf(o) }

(* The fixpoint of live_in, restricted to reachable blocks. *)
LiveInOf(lowered, location) ==
    LET reachable == ReachableFrom(lowered.succ, lowered.start)
        passed    == reachable \ DefinitionBlocks(lowered, location)
        Live[k \in 0 .. Cardinality(reachable)] ==
            IF k = 0 THEN UpwardUseBlocks(lowered, location) \cap reachable
            ELSE LET before == Live[k - 1]
                 IN  before \cup { b \in passed : Targets(lowered.succ, b) \cap before # {} }
    IN  Live[Cardinality(reachable)]

(* What is live before each operation of a block, its predicate read last: *)
(* the walk over the reversed block.                                       *)
LivePoints(lowered, live_out, b) ==
    LET code == Operations(lowered, b)
        Point(after, k) ==
            LET operation == code[Len(code) - k + 1]
            IN  (after \ DefinitionsOf(operation)) \cup UsesOf(operation)
        Walk[k \in 0 .. Len(code)] ==
            IF k = 0 THEN live_out \cup PredicatesOf(lowered, b)
            ELSE Point(Walk[k - 1], k)
    IN  [ i \in 1 .. Len(code) + 1 |-> Walk[Len(code) + 1 - i] ]

(* The liveness of every reachable block, point by point. *)
Liveness(lowered) ==
    LET reachable == ReachableFrom(lowered.succ, lowered.start)
        live_in   == [ l \in AllocatedLocations(lowered) |-> LiveInOf(lowered, l) ]
        LiveOut(b) == { l \in DOMAIN live_in : Targets(lowered.succ, b) \cap live_in[l] # {} }
    IN  [ b \in reachable |-> LivePoints(lowered, LiveOut(b), b) ]
-----------------------------------------------------------------------------
(* Faulty: a definition only interferes with what is live before it. *)
DeadDefinitionsIgnored(operation, after) == {}

(* A definition interferes with what is live after it, dead or not; the    *)
(* source of a move may share its location.                                *)
DefinitionEdges(operation, after) ==
    DefinitionsOf(operation) \X
        ((after \ DefinitionsOf(operation))
         \ (IF operation.kind = "move" THEN UsesOf(operation) ELSE {}))

(* The interference of locations, by number, in both directions. *)
Interference(lowered, liveness) ==
    LET Clique(live) == { e \in live \X live : e[1] # e[2] }
        EdgesIn(b) ==
            UNION { Clique(liveness[b][i]) : i \in DOMAIN liveness[b] }
            \cup UNION { DefinitionEdges(Operations(lowered, b)[i], liveness[b][i + 1]) :
                           i \in DOMAIN Operations(lowered, b) }
        edges == UNION { EdgesIn(b) : b \in DOMAIN liveness }
        Number(l) == NumberOf(lowered, l)
    IN  { <<Number(e[1]), Number(e[2])>> : e \in edges }
        \cup { <<Number(e[2]), Number(e[1])>> : e \in edges }

(* The moves in the order the coalescing considers them. *)
MovesInOrder(lowered) ==
    FlattenSeq([ k \in 1 .. Cardinality(Blocks(lowered.succ)) |->
                   lowered.entry_moves[k - 1] \o lowered.exit_moves[k - 1] ])

(* One move: the classes it joins are merged unless members interfere. *)
AfterMove(lowered, interference, class, move) ==
    LET a == class[NumberOf(lowered, move.source)]
        b == class[NumberOf(lowered, move.destination)]
        lower == IF a < b THEN a ELSE b
    IN  IF \E e \in interference : class[e[1]] = a /\ class[e[2]] = b THEN class
        ELSE [ l \in DOMAIN class |-> IF class[l] \in {a, b} THEN lower ELSE class[l] ]

CoalescedClasses(lowered, interference) ==
    LET numbers == { NumberOf(lowered, l) : l \in AllocatedLocations(lowered) }
    IN  FoldLeft(LAMBDA class, move : AfterMove(lowered, interference, class, move),
                 [ n \in numbers |-> n ], MovesInOrder(lowered))

(* What the classes inherit of the interference. *)
ClassInterference(class, interference) == { <<class[e[1]], class[e[2]]>> : e \in interference }

(* The coloring loop run to its end: the register of each class. *)
Colored(classes, interference, budget) ==
    LET Next(assigned, c) ==
            LET unavailable == Unavailable(interference, assigned, c)
                register == CHOOSE r \in {Spilled} \cup 0 .. budget - 1 :
                                IsCandidate(budget, unavailable, r)
            IN  WithColor(assigned, c, register)
    IN  FoldLeft(Next, << >>,
                 InOrder(classes, LAMBDA c, d : ColoredBefore(interference, c, d)))
-----------------------------------------------------------------------------
(* From registers and spills to a planned backend program: the storage of  *)
(* every location, moves and instructions over storage, scratch registers  *)
(* for spilled operands, and the register reservation that leaves enough   *)
(* of them.  The last two registers of the machine are the frame base and  *)
(* the stack pointer; the slots are at displacements from the frame base.  *)
(*                                                                         *)
(* A storage is [kind, index]: "register", "stack", "scratch", or "frame"  *)
(* for a slot that is addressed from the frame base.                       *)
Frame == INSTANCE FrameCoordinates

Register(n) == [kind |-> "register", index |-> n]
StackSlot(n) == [kind |-> "stack", index |-> n]
Scratch(n)  == [kind |-> "scratch", index |-> n]

(* The storage of every location: the register of its class, or the slot   *)
(* of its class, slots being given to the spilled classes in order.        *)
StorageMap(lowered, class, assigned) ==
    LET SlotOf(c) == Cardinality({ d \in DOMAIN assigned : d < c /\ assigned[d] = Spilled })
        StorageOf(c) == IF assigned[c] = Spilled THEN StackSlot(SlotOf(c))
                        ELSE Register(assigned[c])
    IN  [ l \in AllocatedLocations(lowered) |-> StorageOf(class[NumberOf(lowered, l)]) ]

SlotCount(storage) ==
    Cardinality({ storage[l] : l \in { m \in DOMAIN storage : storage[m].kind = "stack" } })
-----------------------------------------------------------------------------
Transfer(kind, input, output) ==
    [kind |-> kind, inputs |-> <<input>>, outputs |-> <<output>>, instruction |-> << >>]

(* lower_move: nothing when both locations share their storage. *)
LowerMove(storage, move) ==
    LET source      == storage[move.source]
        destination == storage[move.destination]
    IN  CASE source = destination -> << >>
          [] source # destination /\ source.kind # "stack" /\ destination.kind # "stack" ->
                << Transfer("register_move", source, destination) >>
          [] source.kind # "stack" /\ destination.kind = "stack" ->
                << Transfer("stack_store", source, destination) >>
          [] source.kind = "stack" /\ destination.kind # "stack" ->
                << Transfer("stack_reload", source, destination) >>
          [] source # destination /\ source.kind = "stack" /\ destination.kind = "stack" ->
                << Transfer("stack_reload", source, Scratch(0)),
                   Transfer("stack_store", Scratch(0), destination) >>

(* Faulty: every operand is reloaded into the same scratch register. *)
SharedScratch(bound, slot) == Scratch(0)

(* The scratch register of a slot: its place among the slots bound so far, *)
(* or the next one.                                                        *)
ScratchOf(bound, slot) ==
    IF Contains(bound, slot)
    THEN Scratch((CHOOSE k \in DOMAIN bound : bound[k] = slot) - 1)
    ELSE Scratch(Len(bound))

(* lower_instruction: the spilled operands, each slot once, are reloaded   *)
(* into scratch registers; a spilled result is produced in one and stored. *)
LowerInstruction(storage, instruction) ==
    LET uses == [ i \in DOMAIN instruction.uses |->
                    storage[ValueLocation(instruction.uses[i])] ]
        Bind(bound, s) ==
            IF s.kind # "stack" \/ Contains(bound, s) THEN bound ELSE Append(bound, s)
        bound == FoldLeft(Bind, << >>, uses)
        Operand(s) == IF s.kind = "stack" THEN ScratchOf(bound, s) ELSE s
        results == [ i \in DOMAIN instruction.definitions |->
                       storage[ValueLocation(instruction.definitions[i])] ]
        spilled == SelectSeq(results, LAMBDA s : s.kind = "stack")
    IN  [ k \in DOMAIN bound |->
            Transfer("stack_reload", bound[k], ScratchOf(bound, bound[k])) ]
        \o << [ kind    |-> "instruction",
                inputs  |-> [ i \in DOMAIN uses |-> Operand(uses[i]) ],
                outputs |-> [ i \in DOMAIN results |-> Operand(results[i]) ],
                instruction |-> instruction ] >>
        \o [ k \in DOMAIN spilled |->
               Transfer("stack_store", Operand(spilled[k]), spilled[k]) ]

(* The operations of a block: its moves on entry, its instructions and its *)
(* moves on exit.                                                          *)
LowerMoves(storage, moves) ==
    FlattenSeq([ i \in DOMAIN moves |-> LowerMove(storage, moves[i]) ])

LowerBlock(lowered, storage, b) ==
    [ entry |-> LowerMoves(storage, lowered.entry_moves[b]),
      body  |-> FlattenSeq([ i \in DOMAIN lowered.instructions[b] |->
                    LowerInstruction(storage, lowered.instructions[b][i]) ]),
      exit  |-> LowerMoves(storage, lowered.exit_moves[b]) ]

LoweredBlocks(lowered, storage) ==
    [ b \in Blocks(lowered.succ) |-> LowerBlock(lowered, storage, b) ]

OperationsOf(lowered_block) ==
    lowered_block.entry \o lowered_block.body \o lowered_block.exit

(* max_scratch_registers *)
ScratchNeed(blocks) ==
    LET used == UNION { UNION { ToSet(o.inputs) \cup ToSet(o.outputs) :
                                  o \in ToSet(OperationsOf(blocks[b])) } :
                          b \in DOMAIN blocks }
        needs == {0} \cup { s.index + 1 : s \in { t \in used : t.kind = "scratch" } }
    IN  CHOOSE n \in needs : \A m \in needs : m <= n
-----------------------------------------------------------------------------
(* Faulty: one register less than the program needs is reserved. *)
NearlyFeasible(blocks, reserved) == ScratchNeed(blocks) <= reserved + 1

(* An attempt of plan_scratch_aware_backend_registers succeeds. *)
Feasible(blocks, reserved) == ScratchNeed(blocks) <= reserved

(* physicalize_storage, and the mapping of a slot to its displacement from *)
(* the frame base.                                                         *)
Physicalized(frame, allocatable, storage) ==
    CASE storage.kind = "register" -> storage
      [] storage.kind = "scratch"  -> Register(allocatable + storage.index)
      [] storage.kind = "stack"    ->
            [kind |-> "frame", index |-> Frame!Displacement(frame, storage.index)]

PhysicalOperations(frame, allocatable, operations) ==
    LET Mapped(s) == Physicalized(frame, allocatable, s)
    IN  [ i \in DOMAIN operations |->
            [operations[i] EXCEPT
               !.inputs  = [ k \in DOMAIN @ |-> Mapped(@[k]) ],
               !.outputs = [ k \in DOMAIN @ |-> Mapped(@[k]) ]] ]
=============================================================================
