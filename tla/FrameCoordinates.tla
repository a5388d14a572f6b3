-------------------------- MODULE FrameCoordinates --------------------------
(***************************************************************************)
(* The fixed stack frame of a backend plan, in exact arithmetic.  A frame  *)
(* is a record of what the caller configures:                              *)
(*                                                                         *)
(*   slot_count, slot_size, slot_alignment, frame_alignment    the layout  *)
(*   anchor          the byte of the frame the frame base points to        *)
(*   displacements   the lowest and highest displacement from the base     *)
(*   growth          "lower" or "higher": where the stack grows            *)
(*   maximum_chunk   the largest immediate a stack adjustment can have     *)
(*   immediates      the lowest and highest immediate of the base          *)
(*                                                                         *)
(* std::int64_t is Int64, std::size_t is 0 .. SizeMax: both scaled down,   *)
(* with the same number of bits.                                           *)
(***************************************************************************)
EXTENDS Integers

CONSTANT Int64Max

ASSUME Int64MaxAssumption == Int64Max \in Nat

Int64Min == -Int64Max - 1

Int64 == Int64Min .. Int64Max

SizeMax == 2 * Int64Max + 1

IsPowerOfTwo(n) == n # 0 /\ \E k \in 0 .. n : n = 2 ^ k

LayoutAccepted(frame) ==
    /\ frame.slot_size > 0
    /\ IsPowerOfTwo(frame.slot_alignment)
    /\ IsPowerOfTwo(frame.frame_alignment)
    /\ frame.frame_alignment >= frame.slot_alignment

PolicyAccepted(frame) ==
    /\ frame.maximum_chunk > 0
    /\ frame.immediates[1] <= frame.immediates[2]

(* The multiple of a that is not less than v. *)
RoundUp(v, a) == a * ((v + a - 1) \div a)

SlotOffset(frame, slot) == slot * RoundUp(frame.slot_size, frame.slot_alignment)

FrameSize(frame) ==
    IF frame.slot_count = 0 THEN 0
    ELSE RoundUp(SlotOffset(frame, frame.slot_count - 1) + frame.slot_size,
                 frame.frame_alignment)

Displacement(frame, slot) == SlotOffset(frame, slot) - frame.anchor

StackAdjustment(frame) ==
    IF frame.growth = "lower" THEN -FrameSize(frame) ELSE FrameSize(frame)

BaseFromAdjusted(frame) ==
    IF frame.growth = "lower" THEN frame.anchor ELSE frame.anchor - FrameSize(frame)

BaseFromEntry(frame) == StackAdjustment(frame) + BaseFromAdjusted(frame)

SlotFromEntry(frame, slot) == BaseFromEntry(frame) + Displacement(frame, slot)

(* The frame can be planned: the layout makes sense and every number of it *)
(* has a representation.                                                   *)
FrameAccepted(frame) ==
    /\ LayoutAccepted(frame)
    /\ PolicyAccepted(frame)
    /\ frame.displacements[1] <= frame.displacements[2]
    /\ FrameSize(frame) <= SizeMax
    /\ frame.anchor <= FrameSize(frame)
    /\ { StackAdjustment(frame), BaseFromAdjusted(frame), BaseFromEntry(frame) }
         \subseteq Int64
    /\ \A slot \in 0 .. frame.slot_count - 1 :
           /\ Displacement(frame, slot) \in
                  Int64 \cap (frame.displacements[1] .. frame.displacements[2])
           /\ SlotFromEntry(frame, slot) \in Int64
    /\ BaseFromAdjusted(frame) \in frame.immediates[1] .. frame.immediates[2]
=============================================================================
