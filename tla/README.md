# Verification of algorithms-lab

TLA+ modules, TLC configurations and TLAPS proofs about three parts of
*algorithms-lab*. The first is the compiler pipeline under `src/src/graphs/`
(dominators, SSA construction, SSA destruction, register allocation and
coalescing, stack frames and their bytecode), in which many passes, each with a
state of its own, must agree. The second is the data structures whose state
outlives a call: queues, heaps, sets of keys, dynamic forests and graphs, in which
a long sequence of legal calls must not reach an illegal state. The third is a
large part of the algorithms that read their arguments and return an answer, which
must be the one the definition of the problem gives. Everything below is translated
from the C++ source; `PROJECT.json` maps the definitions to their lines. A helper whose
lines lie within those of the definition that uses it is not listed there a second
time.

Run the tools in this directory:

    tlc -workers 2 -config ParallelCopy.cfg ParallelCopy
    tlapm ParallelCopyProofs.tla

## 1. The system

The repository is a library of C++20 algorithms: some 500 headers and 400 source
files in 25 directories, nearly all of them pure functions or single-threaded
containers. There are no threads, no I/O and nothing persistent, so the hard
behaviours are not races and crashes. They are orders (of copies, of merges, of
instructions), state that goes stale while an algorithm uses it, loops that must
end, numbers at the edge of a word, and long sequences of legal steps. They
concentrate in the compiler pipeline, where the output of each pass is the input
of the next and a mistake of one shows only when the last is executed, and in the
structures that spread the work of a call over later ones (rotations, lazy
reversals, rebuilding, path compression that is undone).

| component | source | state | operations | interacts with |
| --- | --- | --- | --- | --- |
| dominator tree | `dominator_tree.cpp` | preorder numbers, link forest (ancestor, label), semidominators, buckets, intervals | constructor (five loops), `dominates` | used by frontier, SSA construction |
| dominance frontier | `dominance_frontier.cpp` | frontier sets | constructor, `iterated_frontier` | places phis |
| SSA construction | `ssa_construction.cpp`, `ssa_pruned.cpp` | per-variable stacks and counters, phis | `construct_ssa`, `construct_pruned_ssa` | output validated by destruction |
| scalar and control semantics | `ssa_scalar_semantics.cpp`, `ssa_control_semantics.cpp` | none | checked evaluation, terminators lowered to execution blocks | uses the edge lowerings of destruction |
| SSA destruction | `ssa_destruction.cpp` | pending copies, temporaries, plans, split blocks | `schedule_parallel_copies`, `destroy_ssa` | its moves are what the later passes allocate and execute |
| register allocation | `register_allocation.cpp` | liveness sets, interference, colors | `allocate_phi_free_registers` | interference and coloring used by coalescing |
| copy coalescing | `register_coalescing.cpp` | union-find forest, decisions, quotient colors | `coalesce_phi_free_registers` | its classes become storage |
| spill lowering, register reservation | `backend_spill_lowering.cpp`, `backend_register_reservation.cpp` and the two `*_reservation` files | attempts, scratch registers | lower, reserve, physicalize | produces backend operations |
| fixed stack frame | `backend_frame_*.cpp` | cursor, offsets, displacements, actions, bytes, registers | lay out, address, derive entry, legalize, encode, decode, execute | surrounds every block the backend executes |
| backend execution | `backend_*_execution.cpp`, `backend_*_continuation.cpp` | registers, slots, visit, suspended position | execute a block, a path, a semantic CFG | calls the frame executor for every visit |
| real-time queue | `real_time_queue.hpp` | two lists, a rotation in progress | push, pop, front; versions are immutable | none |
| heaps | `binary_heap`, `min_max_heap`, `radix_heap`, `pairing_heap`, `soft_heap`, `fibonacci_heap` | arrays, buckets, trees, handles | push, pop, decrease, meld | two heaps of a kind share nodes and handles |
| hash tables and filters | `cuckoo_hash_set`, `robin_hood_hash_set`, `quotient_filter` | slots, seeds, metadata bits | insert, erase, contains | none |
| search trees, skip list, integer and string sets | `scapegoat_tree_set`, `treap_set`, `splay_set`, `skip_list_set`, `b_tree_set`, `van_emde_boas_set`, `x_fast_trie_set`, `y_fast_trie_set`, `crit_bit_string_set`, `roaring_style_bitmap`, `persistent_hamt_set` | trees, towers, tries, containers | insert, erase, neighbours, ranks | a y-fast trie is made of treaps |
| dynamic forests and graphs | `link_cut_tree`, `euler_tour_forest`, `fully_dynamic_connectivity`, `dynamic_minimum_spanning_forest`, `online_bridge_connectivity`, `incremental_topological_order`, offline connectivity and bipartiteness with their rollback sets | splay trees and treaps with lazy marks, levels, undo logs | link, cut, update, query | the two last are built on Euler tour forests and rollback sets |
| traversal and paths | `traversal`, `shortest_paths`, `strongly_connected_components`, `biconnected_components`, `minimum_spanning_tree`, `lowest_common_ancestor`, `transitive_reduction`, `eulerian_trail`, `heavy_light_decomposition` | none after the call, except the indexes it returns | one call each | the others are built of them |
| trees, matchings and flows | `centroid_nearest_active`, `tree_isomorphism`, `chinese_postman`, `bipartite_matching`, `max_flow`, `push_relabel_max_flow`, `gomory_hu_tree`, `min_cost_flow`, `min_cost_circulation`, `directed_arborescence`, `minimum_mean_cycle` | as above | one call each | residual networks are built on one another |
| decompositions of graphs | 29 files, from `suurballe` to `minimum_dominating_set` | as above | one call each, some with a validator of their answer | as above |
| searches, orders, games, languages, codes, matroids, matrices | 26 files, from `stable_roommates` to `smith_normal_form` | as above | as above | weighted matroids, the Huffman coder and the Smith form are used alone |
| other data structures and algorithms | the rest of `src/` | sequential | | independent of one another |

`PROJECT.json` lists every component, the ones outside the model too, each with
its reason. What makes each modelled component correct:

* **dominator tree**: the tree is the one defined by paths, whatever the order in
  which deferred dominators are decided; the interval test agrees with it.
* **construction**: a use is renamed to the version that reaches it on every
  path; every phi has one value for every predecessor in reach.
* **destruction**: the moves of an edge are equivalent to a simultaneous copy;
  they run on that edge and on no other; control arrives where it did before.
* **allocation and coalescing**: interfering locations never share a register;
  a class is spilled only when it must be; reported decisions remain true.
* **spill lowering and backend execution**: registers, slots and scratch registers
  hold what the locations of the phi-free program do, in every block and after
  every handoff; nothing but entry and exit writes the two reserved registers.
* **frame**: no overflow is missed or spurious; slots do not overlap each other
  or the stack of the caller; the bytes decode to what was encoded; exit undoes
  entry.
* **real-time queue**: the rotation started when the rear overtakes the front is
  over before a pop needs what it has not moved, though pops go on meanwhile.
* **heaps, sets of keys**: whatever was called before, the structure is one its
  invariants describe, and its answers are those of the bag or the set it stands
  for; a call that fails leaves what was there.
* **dynamic graphs**: lazy marks, virtual sums, levels and undo records agree
  with the graph made of the edges that are there.
* **algorithms**: the answer is a witness of what was asked (a path, a cut, a
  schedule, a tree), it is optimal where the problem has an optimum and canonical
  where the code promises one, it is refused for exactly the inputs the problem has no
  answer for, and a number that does not fit its word is reported and never
  wrapped. A validator of the library accepts what its algorithm returns and refuses
  answers that were tampered with.

## 2. Modules

    ControlFlow        graphs, reachability, dominance and frontiers by definition
    DominatorTree      the Lengauer-Tarjan constructor, one action per loop body
    SsaProgram         values, instructions, checked arithmetic of a bounded word
    SsaSemantics       what a program means: the abstract specification
    SsaConstruction    construct_ssa and construct_pruned_ssa as operators
    SsaDestruction     destroy_ssa and control lowering; a unit of compilation
    LoweredExecution   compiles a unit and runs the phi-free result
    SamplePrograms     control-flow graphs and instructions for the instances
    CopySchedule       the decisions of the copy scheduler as operators
    ParallelCopy       schedule_parallel_copies, one action per loop iteration
    SimultaneousCopy   what a schedule promises: the abstract specification
    GreedyColoring     one step of the coloring loop
    CopyClasses        what coalescing promises: a partition, then a coloring
    CopyCoalescing     the union-find forest that implements the partition
    RegisterAllocation liveness, interference, classes and colors of a program;
                       storage, backend operations, the reservation of registers
    BackendExecution   plans a unit for a machine and runs it visit by visit
    FrameCoordinates   the numbers of a frame in exact arithmetic
    FrameContract      what a frame promises: the abstract specification
    FixedFrame         the eight passes of the frame, one action per loop body,
                       with encoder and decoder over bytes
    FifoQueue          what a queue promises: the abstract specification
    RealTimeQueue      the Hood-Melville queue, one action per call
    PriorityQueue      what two heaps promise: the abstract specification
    PriorityQueues     six heaps as operators from a heap to a heap, then two of
                       them in the hands of a program
    KeySet             what a set promises: the abstract specification
    KeySets            fourteen sets as operators, then one of them in the hands
                       of a program
    DynamicGraph       what a changing graph promises: the abstract specification
    DynamicGraphs      nine structures as operators, then one of them in the hands
                       of a program
    GraphAlgorithms    traversals, paths, components, spanning trees; trees,
                       matchings, flows, circulations, arborescences
    StructureAlgorithms     decompositions, orientations, exact searches on graphs
    CombinatorialAlgorithms preferences, formulas, games, automata, grammars,
                       schedules, tableaux, matroids, codes, matrices
    Algorithms         one call of one of them, and what it should have returned
    ParallelCopyProofs, CopyClassesProofs, CopyCoalescingProofs, DominatorTreeProofs,
    FixedFrameProofs, RealTimeQueueProofs    theorems about these components
    SsaConstructionProofs   theorems about checked arithmetic and renaming
    LoweredExecutionProofs  theorems about destruction and the compiled program
    MCContainers       a queue, two heaps or a set in the hands of a program
    MC*                instances for TLC; a module without one says at its end
                       what is checked

Which is built on which:

    CopySchedule --> ParallelCopy ==implements==> SimultaneousCopy
         |
         v
    SsaConstruction --> SsaDestruction
         ^                ^    |--> LoweredExecution ==implements==> SsaSemantics
         |                |    `--> RegisterAllocation
         |                |              --> BackendExecution ==implements==> SsaSemantics
         |                |  (dominance by definition; DominatorTree shows that the
    SsaProgram        ControlFlow   code's algorithm computes that definition)

    GreedyColoring --> CopyClasses <==implements== CopyCoalescing
    GreedyColoring, FrameCoordinates --> RegisterAllocation
    FrameCoordinates --> FixedFrame ==implements==> FrameContract

    RealTimeQueue ==implements==> FifoQueue
    PriorityQueues ==implements==> PriorityQueue
    KeySets ==implements==> KeySet
    RealTimeQueue, PriorityQueues, KeySets --> MCContainers (side by side)
    DynamicGraphs ==implements==> DynamicGraph
    GraphAlgorithms --> StructureAlgorithms
         --> CombinatorialAlgorithms --> Algorithms

### How state and actions correspond to the code

**ParallelCopy.** `pending` is the vector of that name, as a function from
destination to source, since its order is only a tie break that `IsFirstOf`
states. `EmitReady` is one pass of the `while` that finds a ready copy,
`BreakCycle` one that does not (it saves the first destination and redirects its
readers). `vals` and `temps` are the contents the moves act upon: the code only
returns the moves, the model executes each as it is emitted, which is what its
callers do with them. `Reject` is the duplicate-destination exception.

**DominatorTree.** `SearchArc`/`SearchDone` are the iterative depth-first search,
`ConsiderPredecessor`, `LinkVertex`, `EmptyBucket` and `NextVertex` the loop over
vertices in reverse preorder, `CorrectDominator` the final pass, `WalkChild` and
`WalkDone` the walk that numbers the tree. `Evaluated` is `evaluate_link_path`,
compression included: its effect on `label` and `ancestor` is part of the action
that calls it. The constructor's `logic_error` (a vertex without a dominator) is
a phase, and `ImmediateDominatorsExact` says it is not reached. `Returned` is the
state after the constructor, so that an early stop is a deadlock TLC reports.

**SsaConstruction, SsaDestruction.** These passes read a program and return one,
so they are operators. The renaming walk threads its stacks and counters through
`Renamed` in the order of the recursion (`Preorder`, a recursive function over the
dominator tree). `Placement` decides predecessor exit,
successor entry or split blocks, `SplitArcs` numbers the blocks the code adds, one
per parallel arc, and `LowerTarget` is the code's choice of the lowest of them.

**LoweredExecution.** `Init` compiles a unit; `PerformMove`, `PerformInstruction`
and `PerformControl` execute the result one operation at a time in the order of
`flatten_block` (entry moves, instructions, exit moves, terminator), over a store
with a cell per location. `LeaveSplitBlock` is the only edge of a compiler-made
block. `at`, `pos` and `env` are history variables: the abstract program after
the same steps, which no guard of the machine reads. An opaque instruction
receives any of `Replies`, and the abstract program must receive the same.

**CopyClasses, CopyCoalescing.** One `ConsiderMove` per move, `NumberClasses` for
the renumbering of roots, one `ColorClass` per class, `Return`. In `CopyClasses`
the partition is a function from location to the least of its class; in
`CopyCoalescing` it is `parent` and `size`, and every lookup compresses paths as
`find_root` does, the lookups inside `classes_interfere` included.

**RegisterAllocation.** Operators again: the passes read a program and
return a plan. `Liveness` is the fixpoint and the reversed walk of
`allocate_phi_free_registers`, `Interference` the edges it collects (cliques of what
is live at a point, and definitions with what is live after them, the source of a
move excepted), `CoalescedClasses` and `Colored` the two loops of
`coalesce_phi_free_registers` run to their ends. Classes are named by their least
member instead of a running id; both number them in the order of first members.
`LowerMove` and `LowerInstruction` emit the operations of `lower_move` and
`lower_instruction`, `Feasible` is the test that ends the reservation loop.

**BackendExecution.** `Init` has the analyses of the unit, which no attempt of the
reservation changes. `AllocateRegisters`, `LowerStorage` and `ReserveAnother` are one
attempt of `plan_scratch_aware_backend_registers`, repeated with one scratch register
more until it is feasible or no register is left; `SelectAttempt` maps the operations
to the machine and its frame. `EnterFrame` is what each visit does before its block:
put the two reserved registers back, execute the frame entry, compare with the
registers the last visit left. `PerformTransfer` and `PerformInstruction` are the
loop over operations, `SelectSuccessor` and `StopAtOpaqueControl` the semantic
driver, `FollowPath` and `ExitFrame` the path driver. A call ends in a `status` named
after the code's stop reason, or `unplanned` (no feasible reservation, or the frame
is refused), `frame_error` and `overflow_error` (the exceptions of the frame and of
scalar arithmetic), `logic_error` (the handoff check failed). The frame entry is one
step here, in exact arithmetic: `ImplementsFrameContract` is what justifies that.

**FixedFrame.** The eight passes in order: `Start`, `LayoutSlot`, `FinishLayout`
(layout), `StartAddressing`, `AddressSlot` (addressing), `DeriveEntrySetup`,
`StartLegalization`, `EntryChunk`, `LastEntryChunk`, `FirstExitChunk`, `ExitChunk`
(legalization), `EncodePlan`, `DecodePlan`, `ExecuteInstruction`, `Return`. Every
checked operation is tested with the comparison the code makes (`AlignUpFits`,
`DecrementFits`, ...), and an exception is `Throw`.

**RealTimeQueue.** A version is `left`, `right` and `rotation`, lists as sequences;
`Push` and `Pop` are the calls, each with the two steps of the rotation it executes
and the return of the finished one. A pop during a rotation discounts one of the
values the rotation is to keep (`Invalidate`). Versions are immutable, so a
history in which an old version is used again is another behaviour of the same
specification.

**PriorityQueues.** An operator per operation and helper, from the heap
before to the heap after (`FibonacciInsert`, `Consolidated`, `Cut`, `Sift`, ...). The
program of `PriorityQueues` has two heaps and calls `Push`, `Insert`, `Pop`, `PopMaximum`,
`DecreaseKey` and `Meld` in any order; handles come from one counter, as in the code.

**KeySets.** The same for sets. A hash function
is a table of the values it gives the keys (`Seeds`), priorities and tower heights
are draws, and the word sizes fixed in the code are parameters, so that collisions,
full tables, rebuilding and splits occur with five to eleven keys.

**DynamicGraphs.** Nodes of splay trees and
treaps are records in a function, with their lazy marks; every access pushes and
pulls as the code does. Requests of the program are triples `<<name, u, v, number>>`; the
offline analyses receive all the changes so far at every request. `Lasting` is the
VIEW: the last request and its answer are left out of it, for they do not influence
what follows.

**GraphAlgorithms, StructureAlgorithms, CombinatorialAlgorithms.**
An operator per function, from its arguments to what it returns; the section of a
module is headed by the name of its file. A loop is `While`, `Each` or a recursive
operator over the state the loop changes, in the order of the code, for the order
decides ties, which vertex is seen first and which sum overflows first. The results
of a failed call are values: `Refused` is `std::invalid_argument`, `Overflow` is
`std::overflow_error`, `Nothing` is `std::nullopt`, and `LogicError` and
`CostRejected` are `std::logic_error`. `WeightMax` stands for the largest signed
word; words of 128 bits have twice as many digits (`WideMax`), and integers the code
keeps as limbs are limbs here too.

**Algorithms.** A behaviour is one call: `Init` chooses a task and one of its inputs,
`Call` sets the answer to what the operator returns (`Answer`), with the answers of
the index it built to every query, and with what its validator says of the answer and
of tampered ones. The rest of the module says what each answer should be, from
definitions that share no helper with the algorithms but the graph itself: sets of
paths, of orders, of matchings, of flows, of assignments, of derivations.

## 3. Runs

Ten runs pass. Every property of theirs also has a mutant in `PROJECT.json`: a
change of a mapped definition that a plausible mistake would make and that the same
run refutes. Two more runs each check one sentence that the source or its documents
say of the program, and TLC finds it violated: the last two of the table, with the
findings of `PROJECT.json`.

| run | distinct states | what it asks |
| --- | --- | --- |
| `parallel_copy` | 5,537 | Does the schedule lose a value, use a temporary too many, or fail to return? |
| `dominator_tree` | 594,325 | Does Lengauer-Tarjan build the tree that paths define? |
| `front_end` | 72,861 | Does a compiled program do what its source means? |
| `coalescing_promise` | 225,282 | Do merging and coloring keep what they promise, for any order of moves? |
| `copy_coalescing` | 61,216 | Does the union-find forest implement the partition, with short paths? |
| `fixed_frame` | 40,805 | Do eight passes over a machine word add up to one frame? |
| `backend` | 14,632 | Does the planned program still do what its source means, with few registers? |
| `containers` | 325,583 | Do a real-time queue, six heaps and fourteen sets keep their structure and answer rightly after any history? |
| `dynamic_graphs` | 82,768 | Do nine structures answer as the graph itself after any history? |
| `algorithms` | 155,508 | Do ninety calls return what the definitions of their problems say? |
| `coffman_graham_optimum` | violated | Is every schedule for two processors as short as any? |
| `weighted_matroid_sums` | violated | Do weights that fit a word together never overflow? |

**parallel_copy.** `CopiesRealised`: at return every destination contains what its
source had on entry. `SourcesPreserved`: throughout, every pending copy can still
be performed. `TemporariesMinimal`: one temporary per cycle of the list and no
more. `ImplementsSimultaneousCopy`: the loop refines the atomic copy, and under
the fairness below it returns. The
instance has every list of two copies between four values, duplicates and
self-copies included, and every list of three or four copies with distinct
destinations in increasing order (three in decreasing order too, for the sort);
four values contain a chain hanging from a cycle, two disjoint cycles and a
fan-out from a cycle, which are all the shapes a step of the loop distinguishes.

**dominator_tree.** `EvaluationsExact`: compression never changes the answer of an
evaluation. `SemidominatorsExact`, `ImmediateDominatorsExact`, `IntervalsExact`:
against definitions over paths, not against another algorithm. The instances are
paths of six vertices with every combination of some shortcuts and back arcs
(long enough for compression of a path of three and for a dominator that is
corrected late), branching graphs of four vertices, graphs with loops, parallel
arcs and unreachable vertices.

**front_end.** `CompilationCorrect` is the refinement of `SsaSemantics`: the same
values are read and produced, the same branches taken, and the machine goes on
while the program does. `ReachingVersionsHold` says why for construction,
`ValuesPreserved` for `destroy_ssa` alone (with phi webs that overlap: the lost
copy), `ConstructionAccepted` that a pass accepts what the previous one made, and
`CheckedArithmeticIsExact` that the guards refuse exactly what does not fit. The
word is -4..3, so that every pair of operands is tried, the least integer
included; the guards compare with the ends of the word and quotients, and no case
of them is special to 64 bits. The graphs have loops on one block, parallel arcs,
nested and irreducible loops, joins of joins and unreachable blocks, and every
placement of copies occurs.

**coalescing_promise, copy_coalescing.** Interference and moves are chosen
together: `ClassesIndependent`, `ProperAllocation`, `SpillsForced` (a spilled
class has a neighbor in every register, at the end and not only when it was
spilled) and `DecisionsStand` (a decision reported early is still true of the
final classes) over four locations; `PathsLogarithmic` says that `parent` is a forest
and bounds its depth by the logarithm of the class, `ImplementsCopyClasses` is the refinement.

**fixed_frame.** Words of four bits (-8..7) encoded as two bytes of base four. The
layouts go up to frames that do not fit; alignments include one that is not a
power of two; anchors go past the frame; chunk limits divide the frame and do
not; policies refuse one number; stack pointers stand at both ends of the range.
`FrameArithmeticIsExact` quantifies over all sizes and offsets from every cursor
and stack pointer reached. `DecodingIsStrict` tries every truncation and every
extra byte of every encoded plan. `SlotsInReservedStack` says that slots do not
overlap and relates addressing, entry setup and growth. `ImplementsFrameContract` says the whole is one entry and
one exit in exact arithmetic, with a rejection only when a number has no
representation.

**backend.** `ImplementsMeaning` is a refinement of the same `SsaSemantics` as in
`front_end`, now of the program in registers and slots: it fails when a scratch
register is used twice, a definition or a predicate is forgotten in the interference,
a predicate is read too early, or a visit loses a register. `LiveVariablesInStorage`
says why: at the first instruction of a block the storage of the version that reaches
it contains every live variable. `FrameHeld`: the handoff check never fires, the
frame is refused at the first visit or never, and the reserved registers keep their
offsets from the caller's stack pointer until the exit gives the stack back. The
machines have one to four registers besides the reserved ones (and one has no room
for those two), which gives programs without a plan, programs with all of their
classes in slots (up to eight), mixed ones and ones without spills; four variables,
one live throughout, make that pressure. Five visits go twice around a loop through
its split block. Only the storage of values that are live at the start is filled; the
rest holds `Garbage`.

**containers.** The library connects its queue, its heaps and its sets nowhere, so
`MCContainers` puts them side by side: `in_use` says at the beginning which of them a
behaviour calls, and the others stay as they were made. The properties of heaps and sets
are asked of their own use only, as those that are not in use are as at the
beginning of one. Deadlock is checked: every container can always be called.

*The queue* has two values and lengths up to `SizeMax` = 11: a rotation of the
second generation (of seven values) is started, interrupted by any mixture of pushes and
pops, and finished. `RotationInTime` says that no rotation is found unfinished when
the next one starts or the front runs out; `ImplementsFifo` is the refinement.

*The heaps*: every sequence of calls on two heaps of five to nine items (`Items`),
keys of two bits. `HeapStructuresValid` is the shape each kind promises (heap order, levels of
the min-max heap, buckets of the radix heap, ranks, sizes and marks);
`ImplementsPriorityQueue` that what is popped is least and that no item is lost or
doubled by a meld.

*The soft heap* may know items by a worse key than their own. For it
`HeapStructuresValid` is `valid_structure` whole: target sizes by rank, exact keys up to
the rank threshold, the counts of items and insertions, and `corrupt_count <=
corruption_budget()`, the promise of the class. `ImplementsPriorityQueue` says that no
item is lost or doubled and that only a corrupted item may be passed over; it says
nothing of how many are corrupted. A heap of the code's slack, 5, corrupts its first item
when it is large, so the calls start from filled heaps (`SoftLoads`): 256 items, emptied
call by call; 127 items, the next push making a tree of the first rank that corrupts; 126
and 2 items, whose meld makes one; and heaps of two error rates, whose meld is refused.
Two more loads have the slack 2, which corrupts half of the items of a heap of 64 while
it is emptied and still keeps the promise, so that the budget is tried at smaller sizes;
with a slack of 1 a heap of 32 items breaks it. Only the first few pushes of a load meet
the interesting sizes: `InsertionMax` bounds the insertions of both heaps together.

*The sets*: every sequence of insertions and erasures. `SetStructuresValid`: probe
distances, run and cluster bits, balance, priorities, towers, node sizes, summaries,
crit bits; `QueriesExact`: neighbours, ranks and membership of every key, after every
call, of those kinds that have them; `ImplementsKeySet`: the return values, and that a
failed insertion (a cuckoo table out of kicks, which replays its log of changes from the
last to the first, a full filter) leaves what was there.

**dynamic_graphs.** Every sequence of changes on three or four vertices, bounded by
`Limits` (edges, handles or changes), which is why a state may have no next one and
deadlock is not checked. `StructuresValid` relates lazy marks, virtual sums, levels
and orders to the edges; `QueriesExact` compares connection, path and subtree sums,
bridges, minimum forests and orders with definitions over the edges;
`ImplementsDynamicGraph` the answers to the requests.

**algorithms.** `GraphAnswersExact`, `StructureAnswersExact` and
`CombinatorialAnswersExact` compare every answer with a definition: the search order
is one a search can have, distances are least over simple paths, low links find
exactly the vertices whose removal disconnects, an augmentation is least over all sets
of arcs, a schedule over all assignments to slots, a parse exists exactly when a
derivation does, a winning strategy wins against every reply. Graphs have three to
eight vertices: inputs are the sub-lists of lists of candidate edges that contain loops,
parallel and opposite arcs, ties, isolated and unreachable vertices, negative and
zero weights, with a few larger graphs where the smallest interesting case is larger
(two blossoms that touch, K5 and K3,3, a path of ten vertices to contract).
Weights near `WeightMax` = 511 make each checked sum, product and negation fit and
not fit by one. Formulas have three variables, markets four or six people, automata
four states, games four positions, grammars two nonterminals and texts up to three
bytes, matroids four elements, codes five symbols, matrices up to three rows.
Half of the states are calls and half are answers: an input counts once.

**coffman_graham_optimum**, **weighted_matroid_sums.** The inputs of `algorithms` for one
task each, and what the documents say of it without a condition; section 5 explains both.

### Bounds

`Int64Max` and `SizeMax` shrink the word; `WordBytes` and `ByteBase` the bytes;
`LocationCount` and `Location` the locations; `VersionSpan` only numbers versions
(it is larger than any version the instances reach); `Replies` is what an opaque
instruction may return; `Inputs`, `Units`, `Calls`, `Frames` and `StackPointers` are the
inputs; `ItemMax`, `Loads` and `InsertionMax` bound the heaps. The `visit_budget` of a
call is a parameter of the code in mode "semantic"; in mode "path" it bounds the length
of the paths tried. No counter in the modules is capped otherwise, `Tasks` and the inputs
of `algorithms` excepted: every loop is bounded by its input, except the machine of
`LoweredExecution`, whose store ranges over a finite word.

### Fairness and deadlock

`ParallelCopy` and `LoweredExecution` are checked with weak fairness of `Next`. The
first is one call of a single-threaded function that does not wait for anything;
the second is a machine that executes the next operation of a program whenever
there is one, and whose caller answers an opaque instruction. Neither assumption
chooses between alternatives: which successor is taken and what is replied
stay arbitrary, so a loop may run for ever if its source may. The others make no
assumption; `dominator_tree` and `containers` check deadlock instead, and the remaining runs disable the deadlock check because a call that has returned, or
rejected its input, has no next step.

## 4. Proofs

**ParallelCopyProofs** (any set of values, any contents, any finite copy list). The
inductive invariant is `TypeOK` with `Progress`: what is pending is a part of
what was collected; every written destination holds what its source had on
entry and every other value its own; every pending copy, read now from its value
or temporary, would still give what its source had on entry. `CopiesRealised` by
itself is not inductive, for it says nothing before the return. The step that
needs the argument is `EmitReady`: the destination written is read by no pending
copy, so their contents do not change. `BreakCycle` changes no contents: it adds
a temporary with the contents of the saved destination, and redirected copies
read the same. `TypeCorrectness`, `SourcesArePreserved`, `ScheduleIsCorrect` and
`ScheduleRefinesSimultaneousCopy` follow.

`ScheduleIsMinimal` (`TemporariesMinimal`: a temporary for each cycle of the list and
none besides) rests on a second invariant, `Counted`: the temporaries and the cycles
that are still intact, none of whose copies has been emitted or redirected, are together as
many as the cycles. When no destination is ready every pending destination is read
by a pending copy, and since there are finitely many the pending copies are a
permutation of them (`PendingPermuted`); two cycles of a permutation are disjoint or equal, so
`BreakCycle` breaks exactly one. `EmitReady` breaks none, since the destination of an
intact cycle is still read. After the last copy no cycle is intact.

**CopyClassesProofs** (any locations, any symmetric and irreflexive interference,
any moves, any budget). The invariant is the conjunction of the run's properties,
`TypeOK` and `ColoredInOrder` (no class is colored while classes are merged, or a merge
would change who owns a register). A merge keeps classes independent because the
two were found not to interfere; it keeps "blocked" decisions because the class
of an interfering member only grows. A coloring step keeps forced spills because
registers are only added. Results: `ClassesAreWellTyped`,
`ClassesStayIndependent`, `AllocationIsProper`, `SpillsAreForced`,
`DecisionsAreFinal`. By `ForestRefinesCopyClasses` below they hold of the union-find
forest for every input. `TypeOK` of this
module and of `ParallelCopy` is proved and therefore not a property of their runs.

**CopyCoalescingProofs** (any number of locations, any input). `PathsLogarithmic` is
not inductive: a union joins two trees of which it says only how deep they are. The
invariant has three parts. `Measured`: the size a node had when it last was a root grows along
every path, so no path is longer than there are locations and each ends in a
root. `Sized`: the size of a root is that of its class. `Shallow`: a path with
one step more needs a class twice as large. A union hangs the root of the smaller class
below the other, so the measure still grows and the longer paths lie in a class that at least
doubled; a compression moves nodes to their root and shortens paths only
(`find_root` is the action's whole effect on `parent`, and roots stay the same).
`Numbered` says how far the classes have been numbered. Results: `PathsStayLogarithmic` and
`ForestRefinesCopyClasses`: a merge of the forest is a merge of the partition, a compression
is invisible, and the numbers given to the classes are the ranks of their lowest
locations, so that the coloring by numbers is the coloring by lowest locations.

**DominatorTreeProofs** (any graph, any start: arcs in any order, parallel ones, loops and
unreachable vertices included). All four properties of the run `dominator_tree` are proved, and
with them the algorithm of Lengauer and Tarjan, in two parts.

The first part is about trees and sets of arcs on numbers and knows nothing of the
program. `Tree(P)` says that parents are smaller, `Ancestor` is the least relation the
parents generate, and `DepthFirst(P, A)` what a depth-first numbering makes of the arcs: an
arc to a larger number goes to a descendant, and what is numbered between a parent and its
child is below the parent. A candidate of a vertex is a number from which a path leads to it
over larger numbers. The least one, the semidominator, is an ancestor
(`SemidominatorIsAncestor`), and it is found by looking at the arcs into the
vertex: at their smaller sources, and at the candidates of the larger ancestors of their sources
(`CandidateByEvaluation`, `CandidatesBounded`). A vertex is
dominated by an ancestor exactly if no vertex between them has a candidate smaller than the
ancestor (`Sheltered`, `ShelteredIsDominated`, `DominatedIsSheltered`). The two cases of the
algorithm are `SemidominatorDominates` and `DominatorsOfTheLeast`.

The second part is the inductive invariant `ConstructionInv`. `SearchInv` says of the search that
the stack is a path of the tree, that all that was numbered after a vertex on it
descends from that vertex, and that a vertex which has left it has no arc that was not
taken: `SearchIsDepthFirst` follows when the stack is empty. `DominatorsFound` says what each
iteration leaves to the next: `Forest`, the compressed forest, in which the ancestor of a linked
number is one in the tree with only linked numbers between, and its label one of these with
the least semidominator; `SemidominatorsFound`, the vertices done;
`Tracked`, that every vertex done is in the bucket of its semidominator or has its
dominator settled (`Settled`: it is the semidominator, or that of a vertex between them
whose semidominator is smaller and least there); `Correcting`, how far the last pass has
come. `CompressionStep` is one node of
`evaluate_link_path`, `EvaluationFacts` the whole call. None of the four properties is
inductive: they say nothing of the buckets or of compressed paths.

`InductiveInvariant`, then `EvaluationIsExact`, `SemidominatorsAreExact` and
`DominatorsAreExact`, which compare what was found with the definitions of ControlFlow; these are
rounds of a recursive function, and `ClosureByRounds` says that as many rounds as there are
vertices reach everything. `IntervalsAreExact` needs one more invariant, `WalkKept`, again
over an arbitrary tree: those entered and not left are on the stack, a node is entered after
its ancestors and left after its descendants, and of two that are unrelated one is
left before the other is entered (`Times`). `WalkEnters` and `WalkLeaves` are the two
steps, and `DominatorTreeIsWalked` says that the children form such a tree, each listed
once.

**FixedFrameProofs** (any word, any frames and stack pointers within it, any header,
bytes of at least four values). The inductive invariant `IInv` says what each
pass leaves to the next: the slots laid out so far, aligned and one after the other
(`SlotsLaidOut`), the coordinates of slots and base (`CoordinatesKnown`), which part
of the adjustment the chunks emitted so far make up (`ChunksEmitted`: for entry and exit
the number of instructions, the size of each and what remains), and how much of
the frame the executed ones have reserved (`StackMoved`). `ArithmeticIsExact`,
`SlotsAreReserved` and `ChunksAreLegal` follow from it.

`PlansAreReadBack` is `DecodingIsStrict`: a plan is read back as it was written, and
neither a truncated plan nor one with a byte more is read. A word is a number written
with digits below `ByteBase`, least first, and the decoder's sum of
digits is that number (`Weight` is the weight of a digit, a recursive function). What the
decoder returns depends on no byte beyond those it consumes and
it consumes all bytes of a plan it accepts; so were a proper prefix of a plan accepted, the
plan itself would leave bytes over.

`FrameImplementsContract` is the refinement of `FrameContract`. Beside `IInv` it needs that
the bytes are those of the two sequences, that the offsets of the layout are
the contract's, which are given by formulas and not by a loop (`GeometryKnown`), and that
the checks of the passes done are passed (`ChecksPassed`). Each pass has one lemma that it
throws only when a number the contract names has no representation, and `RunningIsAccepted`
says that whoever reaches execution has all of them representable. No call
is rejected once its frame is entered (`ThrownBeforeEntry`).

**SsaConstructionProofs** (any `Int64Max`, any source program). `AdditionGuardIsExact`,
`SubtractionGuardIsExact` and `MultiplicationGuardIsExact`: the comparisons with the ends of the
word and with truncated quotients (`ExceedsQuotient`) hold exactly when the exact result is
outside the word. `CheckedOperationsAreExact`: an operation therefore overflows or returns the
exact result. The run `front_end` tries this with every pair of operands of a word of three bits;
the theorem is for the word of the code.

The rest of the module is about `construct_ssa` and `construct_pruned_ssa`. A preorder of the
dominator tree lists every block in reach once and a block after its immediate dominator
(`WalkInvariant`, over any graph). The renaming is followed one instruction at a time:
`TopsIn` is what is on top of the stacks before an instruction, `CountersIn` how
many versions were made until then, and since counters only grow in the order of the walk no two
definitions get the same version and all of them are below `VersionSpan`.
`FormOf` says of what the result consists, block for block. `ConstructionsAreAccepted`: its
validation in `destroy_ssa` finds one definition per value and one for every value used, at most
one phi of a variable in a block, with one incoming value of that variable per predecessor in
reach, and nothing in blocks out of reach.

**LoweredExecutionProofs** (any units: any graph and instructions, either construction or an SSA
program given directly; any replies). The whole front end, from `construct_ssa` to the machine that
runs the phi-free program, in the order in which it is compiled.

* `SchedulePerforms`: the moves scheduled for the copies of an edge perform them all
  at once. The state of the loop is `ScheduleAt`, the argument that of ParallelCopyProofs, here for
  the operator `destroy_ssa` calls.
* `EdgesAreServed`, `ArcsAreFollowed`, `TargetsAreLowered`: the plans put the moves of an edge
  where this edge makes them and no other does: at the end of a predecessor with one successor, at
  the beginning of a successor with one predecessor, or in a split block per parallel arc.
* `Pairs(u, b, i)` relates a value of the source to the SSA value that contains it before
  instruction `i` of block `b`: every variable to the version on top of its stack, for the pruned
  form only if it is live there; every value to itself if the unit is an SSA program.
  `InstructionsAreKept`, `EdgesOfACompilation` and `PredicatesOfACompilation` say that
  instructions, edges with their phis, and branches keep it. For an edge this is where dominance is
  used: the versions at the end of a block are those its children in the tree begin with, unless
  there is a phi (`VersionsUpTheTree`).
* `InStep` says where the machine is when its source is at an instruction, and what its contents
  are worth there. Between two moves that is not a relation of contents, since a destination
  may be overwritten before its edge is complete: it is about what the contents will be once
  the moves that are left have been made (`Leads`), and among the moves on exit, for every
  successor that can still be chosen (`Served`).

`Inv`, the conjunction of `InStep` with what was compiled, is inductive
(`MachineStaysInStep`, one lemma per action). None of the properties is:
`ReachingVersionsHold` and `ValuesPreserved` say nothing while moves are made. From it follow
`CompiledProgramImplementsItsSource` (of a unit that is not rejected, every
behaviour of the machine is one of its source: the safety part of `CompilationCorrect`),
`ConstructionIsAccepted`, `ReachingVersionsAlwaysHold`, `ValuesAreAlwaysPreserved` and
`CheckedArithmeticIsAlwaysExact`. Together they are the five properties of the run `front_end`, but
for the fairness in the first.

**RealTimeQueueProofs** (any values, any `SizeMax`). The inductive invariant says of a
version that its lists and sizes agree (`Sound`), and of a rotation where it stands:
`Running(r, kept, steps)` determines, from the lists with which the rotation began and
the number of steps executed, what has been reversed and what is still to be, and
`steps` is twice the number of updates since. It is needed because `RotationInTime`
says nothing about how far a rotation is: that two steps per update are enough is
the count that the front still has as many values as half the steps that are left.
Each transition of the rotation is a lemma about lists, independent of the calls.
Results: `InductiveInvariant`, `RotationEndsInTime` and `QueueIsFifo`, the refinement of
`FifoQueue`.

Assumptions on constants are named where they are declared and evaluated by the
runs. Of inputs they say that they are well typed (`InputsAssumption`, `FramesAssumption`,
`StackPointersAssumption`, `RegistersAssumption`, `HeaderAssumption`); of interference
that it is symmetric and irreflexive, as the code that builds it makes it
(`InterferenceAssumption`); of the encoding that there is a word, that a byte has enough values for
the opcodes (`WordAssumption`) and that an encoded word holds every size (`WordHoldsSize`), as
eight bytes do for `size_t`; of words that they are not empty (`Int64Assumption`). Of a unit
`UnitsAssumption` says that it is one the types of the library can express: a graph, a
start, one list of instructions and one terminator per block over its variables, or a
program in SSA form given directly. Versions are numbered within `VersionSpan`
(`VersionSpanAssumption`); `Location` needs one number per version and variable.

What recursive functions compute is proved by induction over the natural numbers, which
is derived from the well-founded order `<` (`LeastNatural`, `InductiveSet`): the
library's induction theorem takes a predicate as a parameter, which the provers
cannot instantiate.

**Only model-checked.**

* Liveness under fairness (that the scheduler returns, that the compiled program goes
  on): the prover does not treat ENABLED. The theorems about `ImplementsSimultaneousCopy`
  and `CompilationCorrect` are about their safety parts, `Abstract!Spec` and
  `Semantics!Spec`.
* The backend (`LiveVariablesInStorage`, `FrameHeld`, `ImplementsMeaning`): its planning
  folds over sets and sequences with operators of the library, of which the provers know
  nothing, and the proof that a plan keeps live variables apart has to begin with liveness as a
  fixpoint. The relation of `LoweredExecutionProofs` would be its upper half.
* The heaps, sets, dynamic graphs and algorithms (`StructuresValid`, `QueriesExact`,
  `GraphAnswersExact`, ...): these modules use RECURSIVE operators, of which the prover
  has no theory.

## 5. What the models leave out

* Exceptions for ill-formed input made by hand (vectors of the wrong size, unknown
  variables, enumerators out of range) in construction and in the semantics. The
  validation of `destroy_ssa` that depends on the program is in `SsaAccepted`.
* In the frame, the checks that register numbers are in range and distinct, which
  every plan of the library passes.
* In the backend, the comparisons of a plan with one rebuilt from its inputs, which
  only a plan made by hand fails, and the errors for reply scripts and paths of the
  wrong shape. Replies and paths are given before a call; the model chooses them as
  they are needed, which allows the same executions.
* Result records kept for reporting (the edge lowerings' copies, the layout of
  statistics), wording of messages, reservation of vectors, memory exhaustion. No state shows a
  call that ran out of memory half-way, such as a link of `FullyDynamicConnectivity` that
  throws after the copy of the edge has been counted (`fully_dynamic_connectivity.hpp:58`).
* Graphs, dominance and frontiers are taken by their definitions in the front end;
  `dominator_tree` is the run that shows the code computes the first of them, and
  DominatorTreeProofs the proof that it does for every graph.
* In the algorithms, the size limits that throw `length_error` (the one of the subset
  construction is in), assertions of internal consistency (those of the weighted
  matroid intersection are in, and shown never to fail), and the number of oracle
  calls a matroid algorithm reports. Random draws (landmarks, priorities, towers) are
  inputs chosen freely. Costs of 128 bits in the search trees and the heuristic search
  are exact, since sums of so few words fit them.
* The families listed as not modelled in `PROJECT.json`: geometry and numerical
  methods compute with floating point, of which TLC has none; number theory,
  polynomials and most strings algorithms show their hard cases at sizes TLC cannot
  reach or have no state to speak of; the rest is work for the plan below.

Where a document and the code differ, each with a run that shows it:

* `docs/scope_recovery_coffman_graham.md` says of the two-machine case that "the
  resulting makespan is globally optimal", and `coffman_graham.hpp` calls itself
  exact. That holds for a precedence graph without redundant arcs, and the code does
  not reduce its input: with the successors `[[], [4], [], [0,6,1,4], [], [0,6,2,1],
  [2,4], [6,2,1,4]]` the schedule has five slots where four are enough. The labels are
  compared over all successors, the redundant ones included. `ScheduleOptimal` asks
  for the least makespan always and is violated in `coffman_graham_optimum`; the run
  `algorithms` requires a legal schedule always and the least makespan of an order
  without redundant arcs.
* A comment of `weighted_matroid_intersection.hpp` says that a sum of absolute weights
  that fits a word "guarantees every simple exchange-path cost" is representable.
  The relaxation may also add an arc to a path that already contains it before it
  finds that the result is not shorter, and that sum is checked too: with `WeightMax` =
  511, weights -250, 250, 1 and 3, the first matroid of rank 2 and the second of rank 1,
  the call ends in `overflow_error` though 504 fits. `SumsRepresentable` asks that no
  such call overflows and is violated in `weighted_matroid_sums`; the run `algorithms`
  requires an exact answer whenever twice the sum fits, and that no call ends in one of the
  `logic_error`s of the algorithm.

Things noticed while modelling, none of which is a defect:

* `validate_program` requires an incoming value of a phi to be of the phi's
  variable, so the copies of one edge never form a cycle in `destroy_ssa`; cycles
  and temporaries occur only in direct calls of `schedule_parallel_copies`.
* Exit moves run before the terminator reads its predicate. Programs made by the
  constructions never overwrite it there.
* `construct_pruned_ssa` has no control input: its programs have opaque control.
* Two of the guards of the checked multiplication only protect the division of
  the least integer by -1; the quotient test would be right without them.
* A frame of 2^63 bytes is representable when the stack grows to lower addresses
  and not when it grows to higher ones.
* A dead initial value may have the register of a live one.

## 6. Plan

1. A property relating a suspended call of the backend to the longer one that
   repeats its prefix; SSA programs with overlapping phi webs as inputs.
2. The proof of the backend: liveness as the least solution of its equations, a class whose
   members are never live together keeps each of them in its storage, and the relation of
   the front end continued below it. Then the heaps, sets and dynamic graphs, in a form without
   RECURSIVE operators.
3. The algorithms as state machines where their loops have an invariant worth proving:
   low links, push-relabel (labels are valid in every step), stable roommates.
4. Strings: suffix automaton, Burrows-Wheeler index; the retroactive queue, the
   packed-memory array, persistent ropes.

Hazards of these parts are in `PROJECT.json` with a note naming the module that
is to cover them.
