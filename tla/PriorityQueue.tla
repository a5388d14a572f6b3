---------------------------- MODULE PriorityQueue ----------------------------
(***************************************************************************)
(* What two priority queues promise that can be melded.  An item is a pair *)
(* of a key and a handle, which is 0 if the queues are not addressed by    *)
(* handles.  A soft queue may know items by a worse key than their own,    *)
(* the corrupted ones, and prefer others to them.  A monotone queue        *)
(* refuses keys below the last one it has given out, its floor.  Two queues*)
(* that are not alike are melded only if there is nothing to be melded.    *)
(***************************************************************************)
EXTENDS Integers, Bags

CONSTANTS Key, Handle

VARIABLES traits,        \* the kinds of promises: monotone, addressed, soft, alike
          items,         \* the bag of items of each queue
          corrupted,     \* the bag of the corrupted ones
          floor,         \* the last key that left each, if they are monotone
          unused,        \* the handles that no item has had
          answer

vars == <<traits, items, corrupted, floor, unused, answer>>

Sides == {1, 2}

Better(a, b) == a[1] < b[1] \/ (a[1] = b[1] /\ a[2] < b[2])
Worse(a, b) == Better(b, a)

One(item) == SetToBag({item})

Refused(error) == answer' = <<error>> /\ UNCHANGED <<items, floor, unused>>

Push(side, key) ==
    \/ \E handle \in IF traits.addressed THEN unused ELSE {0} :
           /\ traits.monotone => key >= floor[side]
           /\ items' = [items EXCEPT ![side] = @ (+) One(<<key, handle>>)]
           /\ unused' = unused \ {handle}
           /\ answer' = <<"pushed", handle>>
           /\ UNCHANGED floor
    \/ traits.monotone /\ key < floor[side] /\ Refused("invalid_argument")
    \/ traits.addressed /\ unused = {} /\ Refused("overflow_error")

(* An item leaves before all that the queue knows to be better. *)
Take(side, Preferred(_, _)) ==
    \/ \E item \in BagToSet(items[side]) :
           /\ \A other \in BagToSet(items[side]) :
                  Preferred(other, item) => BagIn(other, corrupted[side])
           /\ items' = [items EXCEPT ![side] = @ (-) One(item)]
           /\ floor' = IF traits.monotone THEN [floor EXCEPT ![side] = item[1]] ELSE floor
           /\ answer' = <<"popped", item>>
           /\ UNCHANGED unused
    \/ items[side] = EmptyBag /\ Refused("out_of_range")

Pop(side) == Take(side, Better)
PopMaximum(side) == Take(side, Worse)

DecreaseKey(side, handle, key) ==
    \/ \E item \in BagToSet(items[side]) :
           /\ item[2] = handle
           /\ key <= item[1]
           /\ items' = [items EXCEPT ![side] = (@ (-) One(item)) (+) One(<<key, handle>>)]
           /\ answer' = <<"decreased">>
           /\ UNCHANGED <<floor, unused>>
    \/ \E item \in BagToSet(items[side]) :
           item[2] = handle /\ key > item[1] /\ Refused("invalid_argument")
    \/ /\ \A item \in BagToSet(items[side]) : item[2] # handle
       /\ Refused("out_of_range")

Meld ==
    \/ /\ traits.alike \/ items[2] = EmptyBag
       /\ items' = [items EXCEPT ![1] = @ (+) items[2], ![2] = EmptyBag]
       /\ answer' = <<"melded">>
       /\ UNCHANGED <<floor, unused>>
    \/ ~traits.alike /\ items[2] # EmptyBag /\ Refused("invalid_argument")

(* The queues may have been used before. *)
Init ==
    /\ traits \in [monotone : BOOLEAN, addressed : BOOLEAN, soft : BOOLEAN, alike : BOOLEAN]
    /\ \A side \in Sides :
           /\ IsABag(items[side])
           /\ corrupted[side] \sqsubseteq items[side]
           /\ traits.soft \/ corrupted[side] = EmptyBag
    /\ floor = [side \in Sides |-> 0]
    /\ unused \in SUBSET Handle
    /\ answer = << >>

Next ==
    /\ UNCHANGED traits
    /\ \A side \in Sides : corrupted'[side] \sqsubseteq items'[side]
    /\ traits.soft \/ \A side \in Sides : corrupted'[side] = EmptyBag
    /\ \/ \E side \in Sides, key \in Key : Push(side, key)
       \/ \E side \in Sides : Pop(side) \/ PopMaximum(side)
       \/ \E side \in Sides, handle \in Handle, key \in Key : DecreaseKey(side, handle, key)
       \/ Meld

Spec == Init /\ [][Next]_vars
=============================================================================
