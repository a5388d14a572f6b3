---------------------------- MODULE MCContainers -----------------------------
(***************************************************************************)
(* The containers that a program calls one operation at a time: the        *)
(* real-time queue, the priority queues and the sets of keys.  No code     *)
(* connects the three, so that a behaviour is one of a queue, of two heaps *)
(* or of a set, chosen at the beginning (in_use); the others stay as they  *)
(* were made.  The parameters are chosen for what each structure finds     *)
(* hard.                                                                   *)
(***************************************************************************)
EXTENDS RealTimeQueue

VARIABLES in_use,
          heap_kind, heaps, next_handle, heap_answer, contents,
          set_kind, seed, set, set_answer, members

heap_vars == <<heap_kind, heaps, next_handle, heap_answer, contents>>
set_vars == <<set_kind, seed, set, set_answer, members>>

(* Enough items for three levels of an array, and for a node of a          *)
(* Fibonacci heap to lose two children below a root.                       *)
HeapKey ==
    [ k \in {"binary", "min_max", "radix", "pairing", "soft", "fibonacci"} |->
        CASE k = "fibonacci" -> 0 .. 1 [] k = "soft" -> {0, 10, 20} [] OTHER -> 0 .. 2 ]

Items == [ binary |-> <<8, 1>>, min_max |-> <<9, 1>>, radix |-> <<5, 1>>,
           pairing |-> <<5, 2>>, soft |-> <<256, 256>>, fibonacci |-> <<9, 9>> ]

Insertions == [ threshold \in 2 .. 7 |-> IF threshold <= 3 THEN 65 ELSE 128 ]

Filled(power, slack, n, step, modulus) ==
    [ error_rate_power |-> power, slack |-> slack,
      keys |-> [ i \in 1 .. n |-> (i * step) % modulus ] ]

(* Soft heaps of 128 items that are the first to corrupt one with the      *)
(* slack of the code, 5, at the largest error rate: in their trees, about  *)
(* to push the last, and about to meld the last two; soft heaps of two     *)
(* error rates; and soft heaps with the slack 2, the least that keeps the  *)
(* promise, which corrupt half of their items while they are emptied.      *)
SoftLoads ==
    { <<Filled(1, 5, 256, 1, 65), Filled(1, 5, 0, 1, 65)>>,
      <<Filled(1, 5, 127, 1, 44), Filled(1, 5, 0, 1, 65)>>,
      <<Filled(1, 5, 126, 1, 33), Filled(1, 5, 2, 1, 33)>>,
      <<Filled(1, 5, 129, 1, 65), Filled(2, 5, 2, 1, 33)>>,
      <<Filled(1, 2, 63, 1, 33), Filled(1, 2, 1, 1, 33)>>,
      <<Filled(1, 2, 60, 1, 31), Filled(1, 2, 4, 9, 17)>> }

Heaps == INSTANCE PriorityQueues WITH
    kind         <- heap_kind,
    answer       <- heap_answer,
    Kinds        <- DOMAIN HeapKey,
    Keys         <- HeapKey,
    Bits         <- 2,
    ItemMax      <- Items,
    HandleMax    <- 9,
    Lowered      <- 6 .. 9,
    Loads        <- SoftLoads,
    InsertionMax <- Insertions
-----------------------------------------------------------------------------
(* The sets: enough keys for a tree to be rebuilt,                         *)
(* split or merged at a level above the lowest, for two clusters to meet   *)
(* across the end of a table, and for a table to grow.  One hash function  *)
(* is as bad as there is: no rehash helps it.                              *)
SetKey ==
    [ cuckoo     |-> 1 .. 5,
      robin_hood |-> 1 .. 8,
      quotient   |-> 1 .. 9,
      scapegoat  |-> 1 .. 8,
      treap      |-> 1 .. 5,
      splay      |-> 1 .. 6,
      skip_list  |-> 1 .. 5,
      b_tree     |-> 1 .. 11,
      veb        |-> {0, 1, 2, 3, 5, 8, 9, 12, 15},
      x_fast     |-> {0, 1, 2, 3, 6, 7, 8, 13},
      y_fast     |-> {0, 1, 2, 4, 5, 7, 8, 10, 13, 15},
      crit_bit   |-> 1 .. 8,
      roaring    |-> 0 .. 8,
      hamt       |-> 1 .. 8 ]

Bad == [ generation \in 0 .. 9 |-> << [ key \in 1 .. 5 |-> 0 ], [ key \in 1 .. 5 |-> 0 ] >> ]

Better ==
    [ generation \in 0 .. 9 |->
        IF generation < 2 THEN << [ key \in 1 .. 5 |-> key % 2 ], [ key \in 1 .. 5 |-> key % 2 ] >>
        ELSE << [ key \in 1 .. 5 |-> key ], [ key \in 1 .. 5 |-> 3 * key ] >> ]

Fingerprint == << <<6, 0>>, <<6, 1>>, <<6, 2>>, <<7, 0>>, <<7, 1>>, <<0, 0>>, <<0, 1>>, <<1, 0>>, <<5, 0>> >>

Strings == << << >>, <<0>>, <<1>>, <<0, 0>>, <<0, 1>>, <<1, 0>>, <<1, 1>>, <<0, 1, 0>> >>

Chunks == << <<0, 0, 0>>, <<0, 0, 1>>, <<0, 2, 0>>, <<0, 2, 1>>, <<1, 0, 0>>,
             <<2, 1, 0>>, <<2, 1, 1>>, <<2, 1, 2>> >>

Seed == [ k \in DOMAIN SetKey |->
            CASE k = "cuckoo"     -> {Bad, Better}
              [] k = "robin_hood" -> {<<6, 6, 7, 14, 15, 7, 0, 1>>}
              [] k = "quotient"   -> {Fingerprint}
              [] k = "crit_bit"   -> {Strings}
              [] k = "hamt"       -> {Chunks}
              [] OTHER            -> {0} ]

Draw == [ k \in DOMAIN SetKey |-> [ key \in SetKey[k] |->
            CASE k = "treap"     -> 0 .. 2
              [] k = "skip_list" -> 1 .. 3
              [] k = "y_fast"    -> {key % 3}
              [] OTHER           -> {0} ] ]

Size == [ cuckoo |-> 2, kicks |-> [kicks |-> 4, attempts |-> 3, per_capacity |-> 2],
          robin_hood |-> 8, quotient |-> 8, levels |-> 3, degree |-> 2,
          bits |-> [veb |-> 4, x_fast |-> 4, y_fast |-> 4], target |-> 2,
          width |-> 2, span |-> 4, limit |-> 2 ]

Sets == INSTANCE KeySets WITH
    kind   <- set_kind,
    answer <- set_answer,
    Kinds  <- DOMAIN SetKey,
    Keys   <- SetKey,
    Seeds  <- Seed,
    Draws  <- Draw,
    Sizes  <- Size
-----------------------------------------------------------------------------
ContainersInit ==
    /\ Init
    /\ Heaps!Init
    /\ Sets!Init
    /\ \/ in_use = "queue" /\ heap_kind = "binary" /\ set_kind = "treap"
       \/ in_use = "heaps" /\ set_kind = "treap"
       \/ in_use = "sets" /\ heap_kind = "binary"

UseQueue == in_use = "queue" /\ Next /\ UNCHANGED <<heap_vars, set_vars>>
UseHeaps == in_use = "heaps" /\ Heaps!Next /\ UNCHANGED <<vars, set_vars>>
UseSets  == in_use = "sets" /\ Sets!Next /\ UNCHANGED <<vars, heap_vars>>

ContainersNext == UNCHANGED in_use /\ (UseQueue \/ UseHeaps \/ UseSets)

ContainersSpec ==
    ContainersInit /\ [][ContainersNext]_<<in_use, vars, heap_vars, set_vars>>
-----------------------------------------------------------------------------
(* A heap or set that is not in use is as it was made, which is how one    *)
(* that is in use is at the beginning; so its properties are asked of the  *)
(* states and the steps of its own use.                                    *)

(* Every kind of heap keeps its own structure after every call, a soft     *)
(* heap's corruption budget included: StructuresValid of PriorityQueues.   *)
(* (valid_structure of the heaps.)                                         *)
HeapStructuresValid == in_use = "heaps" => Heaps!StructuresValid

(* No heap loses, doubles or changes an item, or pops one behind a better  *)
(* one that it knows: the refinement that PriorityQueues states.  (push,   *)
(* pop, decrease_key and meld of the heaps.)                               *)
ImplementsPriorityQueue ==
    Heaps!Promise!Init /\ [][in_use = "heaps" => Heaps!Promise!Next]_(Heaps!Promise!vars)

(* Every kind of set keeps what its searches rely on: StructuresValid of   *)
(* KeySets.  (valid_structure of the sets.)                                *)
SetStructuresValid == in_use = "sets" => Sets!StructuresValid

(* Ranks, neighbours and the keys of ranks are those of the keys in the    *)
(* set: QueriesExact of KeySets.  (predecessor, successor, rank, select.)  *)
QueriesExact == in_use = "sets" => Sets!QueriesExact

(* Every call answers as a set does, and one that fails leaves the keys as *)
(* they were: the refinement that KeySets states.  (insert, erase, contains*)
(* and clear of the sets.)                                                 *)
ImplementsKeySet ==
    Sets!Promise!Init /\ [][in_use = "sets" => Sets!Promise!Next]_(Sets!Promise!vars)
=============================================================================
