-------------------------- MODULE FixedFrameProofs --------------------------
(***************************************************************************)
(* Proofs about FixedFrame, for words of any width, any configuration and  *)
(* any stack pointer.                                                      *)
(***************************************************************************)
EXTENDS FixedFrame, WellFoundedInduction, TLAPS

Phases == {"called", "layout", "sized", "addressing", "planned", "legalizing_entry",
           "legalizing_exit", "encoded", "executing", "returned", "rejected"}

(* The size of the frame is known, its coordinates are, the chunks may be  *)
(* emitted, the entry is complete, the code runs.  A call rejected while   *)
(* its code runs keeps what after_entry depends on.                        *)
Entered == after_entry # << >>

Running == phase \in {"executing", "returned"}

Legal == Running \/ phase \in {"legalizing_exit", "encoded"}

Sized == phase \notin {"called", "layout", "rejected"} \/ Entered

Planned == Legal \/ phase \in {"planned", "legalizing_entry"} \/ Entered

Instruction == [opcode : {Decrement, Increment, FrameBase}, operands : Seq(Int)]

TypeOK ==
    /\ frame \in Frames
    /\ entry_pointer \in Int64
    /\ phase \in Phases
    /\ cursor \in 0 .. SizeMax
    /\ offsets \in Seq(0 .. SizeMax)
    /\ frame_size \in 0 .. SizeMax
    /\ displacements \in Seq(Int)
    /\ remaining \in 0 .. SizeMax
    /\ entry \in Seq(Instruction)
    /\ exit \in Seq(Instruction)
    /\ code \in Seq(Instruction)
    /\ pc \in Nat \ {0}
    /\ stack_pointer \in Int64
    /\ frame_base \in Int64

(* Where the slots are. *)
SlotsLaidOut ==
    /\ phase \notin {"called", "rejected"} => LayoutAccepted(frame)
    /\ Len(offsets) <= frame.slot_count
    /\ \A k \in DOMAIN offsets : offsets[k] + frame.slot_size <= cursor
    /\ \A j, k \in DOMAIN offsets : j < k => offsets[j] + frame.slot_size <= offsets[k]
    /\ Sized => Len(offsets) = frame.slot_count /\ cursor <= frame_size
    /\ Len(displacements) <= Len(offsets)
    /\ \A k \in DOMAIN displacements : displacements[k] = offsets[k] - frame.anchor

(* What the frame is planned to be. *)
CoordinatesKnown ==
    /\ phase = "called" => displacements = << >> /\ ~Entered
    /\ Planned => /\ setup = SetupOf(frame_size, frame.anchor)
                  /\ SetupFits(frame_size, frame.anchor)

(* The size of the last chunk of the entry and of the first of the exit.   *)
LastEntry == frame_size - (Len(entry) - 2) * frame.maximum_chunk

FirstExit == frame_size - remaining - (Len(exit) - 1) * frame.maximum_chunk

EntryBegun ==
    /\ frame.maximum_chunk > 0
    /\ remaining + Len(entry) * frame.maximum_chunk = frame_size
    /\ frame_size > 0 => remaining > 0
    /\ \A i \in DOMAIN entry : entry[i] = Adjustment(EntryOpcode, frame.maximum_chunk)
    /\ exit = << >>

EntryComplete ==
    /\ frame.maximum_chunk > 0
    /\ Len(entry) >= 2
    /\ LastEntry \in 0 .. frame.maximum_chunk
    /\ frame_size > 0 => LastEntry > 0
    /\ \A i \in 1 .. Len(entry) - 2 : entry[i] = Adjustment(EntryOpcode, frame.maximum_chunk)
    /\ entry[Len(entry) - 1] = Adjustment(EntryOpcode, LastEntry)
    /\ entry[Len(entry)] = Materialization

ExitBegun ==
    /\ FirstExit \in 0 .. frame.maximum_chunk
    /\ frame_size > 0 => FirstExit > 0
    /\ \E q \in Nat : remaining = q * frame.maximum_chunk
    /\ exit[1] = Adjustment(ExitOpcode, FirstExit)
    /\ \A i \in 2 .. Len(exit) : exit[i] = Adjustment(ExitOpcode, frame.maximum_chunk)

ChunksEmitted ==
    /\ phase \in {"called", "layout", "sized", "addressing", "planned"} =>
           entry = << >> /\ exit = << >>
    /\ phase = "legalizing_entry" => EntryBegun
    /\ Legal => EntryComplete
    /\ Legal /\ phase # "legalizing_exit" => exit # << >> /\ remaining = 0
    /\ phase = "legalizing_exit" /\ exit = << >> => remaining = frame_size
    /\ Legal /\ exit # << >> => ExitBegun

(* The stack pointer when b bytes are reserved. *)
Moved(b) == IF frame.growth = "lower" THEN entry_pointer - b ELSE entry_pointer + b

(* The bytes reserved before instruction p of the code. *)
ReservedAt(p) ==
    IF p < Len(entry) THEN (p - 1) * frame.maximum_chunk
    ELSE IF p <= Len(entry) + 1 THEN frame_size
    ELSE frame_size - FirstExit - (p - Len(entry) - 2) * frame.maximum_chunk

StackMoved ==
    /\ Running => /\ code = entry \o exit
                  /\ pc \in 1 .. Len(code) + 1
                  /\ stack_pointer = Moved(ReservedAt(pc))
                  /\ Entered <=> pc > Len(entry)
    /\ ~Running /\ phase # "rejected" =>
           pc = 1 /\ ~Entered /\ stack_pointer = entry_pointer
    /\ Entered => after_entry = <<Moved(frame_size), Moved(frame_size) + setup.from_adjusted>>

IInv == TypeOK /\ SlotsLaidOut /\ CoordinatesKnown /\ ChunksEmitted /\ StackMoved
-----------------------------------------------------------------------------
(* The fields of the configuration have their types. *)
LEMMA FrameTypes ==
    ASSUME frame \in Frames
    PROVE  /\ frame.slot_count \in 0 .. SizeMax
           /\ frame.slot_size \in 0 .. SizeMax
           /\ frame.slot_alignment \in 0 .. SizeMax
           /\ frame.frame_alignment \in 0 .. SizeMax
           /\ frame.anchor \in 0 .. SizeMax
           /\ frame.displacements[1] \in Int64 /\ frame.displacements[2] \in Int64
           /\ frame.growth \in {"lower", "higher"}
           /\ frame.maximum_chunk \in 0 .. SizeMax
           /\ frame.immediates[1] \in Int64 /\ frame.immediates[2] \in Int64
  BY FramesAssumption

(* The words: both have the same number of bits. *)
LEMMA WordTypes ==
    /\ Int64Max \in Nat
    /\ SizeMax \in Nat /\ SizeMax = 2 * Int64Max + 1
    /\ Int64Min \in Int /\ Int64Min = -Int64Max - 1
    /\ \A n : n \in 0 .. SizeMax <=> n \in Nat /\ n <= SizeMax
    /\ \A n : n \in Int64 <=> n \in Int /\ Int64Min <= n /\ n <= Int64Max
  BY Int64MaxAssumption DEF SizeMax, Int64Min, Int64

(* The alignments of an accepted layout divide something. *)
LEMMA AlignmentsPositive ==
    ASSUME frame \in Frames, LayoutAccepted(frame)
    PROVE  /\ frame.slot_alignment \in Nat \ {0}
           /\ frame.frame_alignment \in Nat \ {0}
           /\ frame.slot_size \in Nat \ {0}
  <1> QED
    BY FrameTypes, WordTypes DEF LayoutAccepted, IsPowerOfTwo

(* Aligning does not go down, and its check is exact. *)
LEMMA AlignUpFacts ==
    ASSUME NEW v \in 0 .. SizeMax, NEW a \in Nat \ {0}
    PROVE  /\ AlignUp(v, a) \in Nat
           /\ v <= AlignUp(v, a)
           /\ AlignUpFits(v, a) <=> AlignUp(v, a) <= SizeMax
  <1> QED
    BY WordTypes DEF AlignUp, AlignUpFits, SizeAddFits

(* Every checked operation is refused exactly when its result does not fit.*)
LEMMA SizeChecksExact ==
    ASSUME NEW u \in 0 .. SizeMax, NEW v \in 0 .. SizeMax
    PROVE  /\ SizeAddFits(u, v) <=> u + v <= SizeMax
           /\ SizeDifferenceFits(u, v) <=> u - v \in Int64
  BY WordTypes DEF SizeAddFits, SizeDifferenceFits

(* The checks on the stack pointer, at the smallest integer too. *)
LEMMA PointerChecksExact ==
    ASSUME NEW p \in Int64, NEW b \in 0 .. SizeMax
    PROVE  /\ IncrementFits(p, b) <=> p + b \in Int64
           /\ DecrementFits(p, b) <=> p - b \in Int64
  BY WordTypes DEF IncrementFits, DecrementFits

(* The check on the frame base. *)
LEMMA SignedChecksExact ==
    ASSUME NEW p \in Int64, NEW d \in Int64
    PROVE  SignedAddFits(p, d) <=> p + d \in Int64
  BY WordTypes DEF SignedAddFits

(* FrameArithmeticIsExact, from the range of the two numbers it tests.     *)
LEMMA ArithmeticExact ==
    ASSUME cursor \in 0 .. SizeMax, stack_pointer \in Int64
    PROVE  FrameArithmeticIsExact
  BY SizeChecksExact, PointerChecksExact, SignedChecksExact DEF FrameArithmeticIsExact
-----------------------------------------------------------------------------
(* A call begins in the inductive invariant. *)
LEMMA InitEstablishes ==
    ASSUME Init
    PROVE  IInv
  <1>1. TypeOK
    BY StackPointersAssumption, WordTypes DEF Init, TypeOK, Phases
  <1>2. SlotsLaidOut
    BY <1>1, FrameTypes, WordTypes DEF Init, SlotsLaidOut, Sized, Entered, TypeOK
  <1>3. CoordinatesKnown
    BY DEF Init, CoordinatesKnown, Planned, Legal, Running, Entered
  <1>5. StackMoved
    BY DEF Init, StackMoved, Running, Entered
  <1> QED
    BY <1>1, <1>2, <1>3, <1>5 DEF IInv, Init, ChunksEmitted, Legal, Running

(* A rejected call changes nothing but its phase. *)
LEMMA ThrowPreserves ==
    ASSUME IInv, Throw
    PROVE  IInv'
  <1>1. /\ phase' = "rejected"
        /\ UNCHANGED <<frame, entry_pointer, plan, machine>>
    BY DEF Throw
  <1>2. TypeOK'
    BY <1>1 DEF IInv, TypeOK, Phases, plan, machine
  <1>3. SlotsLaidOut'
    BY <1>1 DEF IInv, SlotsLaidOut, Sized, Entered, plan, machine
  <1>4. CoordinatesKnown'
    BY <1>1 DEF IInv, CoordinatesKnown, Planned, Legal, Running, Entered, SetupOf, SetupFits,
                plan, machine
  <1>6. StackMoved'
    BY <1>1 DEF IInv, StackMoved, Running, Entered, Moved, plan, machine
  <1> QED
    BY <1>2, <1>3, <1>4, <1>1, <1>6 DEF IInv, ChunksEmitted, Legal, Running

(* Nothing is laid out when the layout starts. *)
LEMMA StartPreserves ==
    ASSUME IInv, Start
    PROVE  IInv'
  <1>1. CASE Throw
    BY <1>1, ThrowPreserves
  <1>2. CASE /\ phase = "called"
             /\ LayoutAccepted(frame)
             /\ phase' = "layout"
             /\ UNCHANGED <<frame, entry_pointer, plan, machine>>
    <2>1. TypeOK'
      BY <1>2 DEF IInv, TypeOK, Phases, plan, machine
    <2>2. SlotsLaidOut'
      BY <1>2 DEF IInv, SlotsLaidOut, LayoutAccepted, CoordinatesKnown, Sized, Entered, plan, machine
    <2>3. CoordinatesKnown'
      BY <1>2 DEF IInv, CoordinatesKnown, Planned, Legal, Running, Entered, plan, machine
    <2>4. ChunksEmitted'
      BY <1>2 DEF IInv, ChunksEmitted, Legal, Running, plan, machine
    <2>5. StackMoved'
      BY <1>2 DEF IInv, StackMoved, Running, Entered, plan, machine
    <2> QED
      BY <2>1, <2>2, <2>3, <2>4, <2>5 DEF IInv
  <1> QED
    BY <1>1, <1>2 DEF Start

(* The new slot begins where the slots before it end, or behind. *)
LEMMA LayoutSlotPreserves ==
    ASSUME IInv, LayoutSlot
    PROVE  IInv'
  <1> DEFINE offset == AlignUp(cursor, frame.slot_alignment)
             fits   == /\ AlignUpFits(cursor, frame.slot_alignment)
                       /\ SizeAddFits(offset, frame.slot_size)
  <1>1. CASE Throw
    BY <1>1, ThrowPreserves
  <1>2. CASE /\ fits
             /\ offsets' = Append(offsets, offset)
             /\ cursor' = offset + frame.slot_size
             /\ UNCHANGED <<frame, entry_pointer, phase, frame_size, displacements,
                            setup, remaining, entry, exit, machine>>
    <2>1. /\ phase = "layout" /\ Len(offsets) < frame.slot_count
          /\ frame \in Frames /\ LayoutAccepted(frame)
          /\ cursor \in 0 .. SizeMax /\ offsets \in Seq(0 .. SizeMax)
          /\ frame.slot_alignment \in Nat \ {0} /\ frame.slot_size \in 0 .. SizeMax
          /\ frame.slot_count \in Nat /\ SizeMax \in Nat
      BY AlignmentsPositive, FrameTypes, WordTypes DEF IInv, TypeOK, SlotsLaidOut, LayoutSlot
    <2>2. /\ offset \in 0 .. SizeMax
          /\ cursor <= offset
          /\ offset + frame.slot_size \in 0 .. SizeMax
      <3>1. offset \in 0 .. SizeMax /\ cursor <= offset
        BY <1>2, <2>1, AlignUpFacts, WordTypes
      <3>2. offset + frame.slot_size <= SizeMax
        BY <1>2, <2>1, <3>1, SizeChecksExact
      <3> HIDE DEF offset, fits
      <3> QED
        BY <2>1, <3>1, <3>2, WordTypes
    <2>3. /\ offsets' \in Seq(0 .. SizeMax)
          /\ Len(offsets') = Len(offsets) + 1
          /\ DOMAIN offsets' = 1 .. Len(offsets) + 1
          /\ \A k \in 1 .. Len(offsets) : offsets'[k] = offsets[k]
          /\ offsets'[Len(offsets) + 1] = offset
      <3> HIDE DEF offset
      <3> QED
        BY <1>2, <2>1, <2>2
    <2>4. /\ DOMAIN offsets = 1 .. Len(offsets) /\ Len(offsets) \in Nat
          /\ \A k \in 1 .. Len(offsets) : offsets[k] \in Nat
          /\ \A k \in 1 .. Len(offsets) : offsets[k] + frame.slot_size <= cursor
          /\ \A j, k \in 1 .. Len(offsets) :
                 j < k => offsets[j] + frame.slot_size <= offsets[k]
      <3>1. /\ DOMAIN offsets = 1 .. Len(offsets) /\ Len(offsets) \in Nat
            /\ \A k \in 1 .. Len(offsets) : offsets[k] \in Nat
        BY ONLY <2>1
      <3>2. SlotsLaidOut
        BY DEF IInv
      <3> QED
        BY <3>1, <3>2 DEF SlotsLaidOut
    <2>5. TypeOK'
      BY <1>2, <2>1, <2>2, <2>3 DEF IInv, TypeOK, machine
    <2>6. SlotsLaidOut'
      <3>1. \A k \in DOMAIN offsets' : offsets'[k] + frame.slot_size <= cursor'
        <4> SUFFICES ASSUME NEW k \in 1 .. Len(offsets) + 1
                     PROVE  offsets'[k] + frame.slot_size <= cursor'
          BY <2>3
        <4> HIDE DEF offset
        <4>1. cursor' = offset + frame.slot_size /\ frame' = frame
          BY <1>2
        <4>2. CASE k \in 1 .. Len(offsets)
          <5>1. /\ offsets[k] \in Int /\ offsets[k] + frame.slot_size <= cursor
                /\ offsets'[k] = offsets[k]
            BY <2>3, <2>4, <4>2
          <5> QED
            BY <2>1, <2>2, <4>1, <5>1, WordTypes
        <4>3. CASE k = Len(offsets) + 1
          BY <2>2, <2>3, <4>1, <4>3, WordTypes
        <4> QED
          BY <2>4, <4>2, <4>3
      <3>2. \A j, k \in DOMAIN offsets' :
                j < k => offsets'[j] + frame.slot_size <= offsets'[k]
        <4>1. SUFFICES ASSUME NEW j \in 1 .. Len(offsets) + 1,
                              NEW k \in 1 .. Len(offsets) + 1, j < k
                       PROVE  offsets'[j] + frame.slot_size <= offsets'[k]
          BY <2>3
        <4>2. j \in 1 .. Len(offsets)
          BY <2>4, <4>1
        <4>3. CASE k \in 1 .. Len(offsets)
          BY <2>3, <2>4, <4>1, <4>2, <4>3
        <4>4. CASE k = Len(offsets) + 1
          <5>1. offsets'[j] = offsets[j] /\ offsets'[k] = offset
            BY ONLY <2>3, <4>2, <4>4
          <5>2. offsets[j] \in Int /\ offsets[j] + frame.slot_size <= cursor
            BY ONLY <2>4, <4>2
          <5>3. offset \in Int /\ cursor \in Int /\ frame.slot_size \in Int /\ cursor <= offset
            BY <2>1, <2>2, WordTypes
          <5> HIDE DEF offset
          <5> QED
            BY ONLY <5>1, <5>2, <5>3
        <4> QED
          BY <2>4, <4>3, <4>4
      <3>3. ~Sized'
        BY <1>2, <2>1 DEF IInv, StackMoved, Sized, Entered, Running, machine
      <3>4. /\ Len(displacements) <= Len(offsets) + 1
            /\ \A k \in DOMAIN displacements : k \in 1 .. Len(offsets)
            /\ \A k \in DOMAIN displacements : displacements[k] = offsets[k] - frame.anchor
        BY <2>4 DEF IInv, TypeOK, SlotsLaidOut
      <3>5. Len(offsets') <= frame.slot_count
        BY <2>1, <2>3, <2>4
      <3>6. \A k \in DOMAIN displacements : displacements[k] = offsets'[k] - frame.anchor
        BY <2>3, <3>4
      <3> HIDE DEF offset, fits
      <3> QED
        BY <1>2, <2>1, <2>3, <3>1, <3>2, <3>3, <3>4, <3>5, <3>6 DEF SlotsLaidOut
    <2>7. CoordinatesKnown'
      BY <1>2, <2>1 DEF IInv, CoordinatesKnown, StackMoved, Planned, Legal, Running, Entered,
                        machine
    <2>8. ChunksEmitted'
      BY <1>2, <2>1 DEF IInv, ChunksEmitted, Legal, Running
    <2>9. StackMoved'
      BY <1>2, <2>1 DEF IInv, StackMoved, Running, Entered, machine
    <2> QED
      BY <2>5, <2>6, <2>7, <2>8, <2>9 DEF IInv
  <1> QED
    BY <1>1, <1>2 DEF LayoutSlot

(* The aligned size still covers every slot. *)
LEMMA FinishLayoutPreserves ==
    ASSUME IInv, FinishLayout
    PROVE  IInv'
  <1>1. CASE Throw
    BY <1>1, ThrowPreserves
  <1>2. CASE /\ AlignUpFits(cursor, frame.frame_alignment)
             /\ frame_size' = AlignUp(cursor, frame.frame_alignment)
             /\ phase' = "sized"
             /\ UNCHANGED <<frame, entry_pointer, cursor, offsets, displacements, setup,
                            remaining, entry, exit, machine>>
    <2>1. /\ phase = "layout" /\ Len(offsets) = frame.slot_count
          /\ frame \in Frames /\ LayoutAccepted(frame)
          /\ cursor \in 0 .. SizeMax
          /\ frame.frame_alignment \in Nat \ {0}
      BY AlignmentsPositive DEF IInv, TypeOK, SlotsLaidOut, FinishLayout
    <2>2. frame_size' \in 0 .. SizeMax /\ cursor <= frame_size'
      BY <1>2, <2>1, AlignUpFacts, WordTypes
    <2>3. TypeOK'
      BY <1>2, <2>2 DEF IInv, TypeOK, Phases, machine
    <2>5. CoordinatesKnown'
      BY <1>2, <2>1 DEF IInv, CoordinatesKnown, StackMoved, Planned, Legal, Running, Entered,
                        machine
    <2>6. ChunksEmitted'
      BY <1>2, <2>1 DEF IInv, ChunksEmitted, Legal, Running
    <2>7. StackMoved'
      BY <1>2, <2>1 DEF IInv, StackMoved, Running, Entered, machine
    <2> QED
      BY <2>3, <1>2, <2>1, <2>2, <2>5, <2>6, <2>7 DEF IInv, SlotsLaidOut
  <1> QED
    BY <1>1, <1>2 DEF FinishLayout

(* The slots stay where they are when the addressing starts. *)
LEMMA StartAddressingPreserves ==
    ASSUME IInv, StartAddressing
    PROVE  IInv'
  <1>1. CASE Throw
    BY <1>1, ThrowPreserves
  <1>2. CASE /\ phase' = "addressing"
             /\ UNCHANGED <<frame, entry_pointer, plan, machine>>
    <2>1. phase = "sized"
      BY DEF StartAddressing
    <2>2. TypeOK'
      BY <1>2 DEF IInv, TypeOK, Phases, plan, machine
    <2>3. SlotsLaidOut'
      BY <1>2, <2>1 DEF IInv, SlotsLaidOut, Sized, Entered, plan, machine
    <2>4. CoordinatesKnown'
      BY <1>2, <2>1 DEF IInv, CoordinatesKnown, StackMoved, Planned, Legal, Running, Entered,
                        plan, machine
    <2>5. ChunksEmitted'
      BY <1>2, <2>1 DEF IInv, ChunksEmitted, Legal, Running, plan
    <2>6. StackMoved'
      BY <1>2, <2>1 DEF IInv, StackMoved, Running, Entered, plan, machine
    <2> QED
      BY <2>2, <2>3, <2>4, <2>5, <2>6 DEF IInv
  <1> QED
    BY <1>1, <1>2 DEF StartAddressing

(* The new displacement is that of the next slot. *)
LEMMA AddressSlotPreserves ==
    ASSUME IInv, AddressSlot
    PROVE  IInv'
  <1> DEFINE k0           == Len(displacements) + 1
             displacement == offsets[k0] - frame.anchor
             fits         == /\ SizeDifferenceFits(offsets[k0], frame.anchor)
                             /\ displacement >= frame.displacements[1]
                             /\ displacement <= frame.displacements[2]
  <1>1. CASE Throw
    BY <1>1, ThrowPreserves
  <1>2. CASE /\ fits
             /\ displacements' = Append(displacements, displacement)
             /\ UNCHANGED <<frame, entry_pointer, phase, cursor, offsets, frame_size,
                            setup, remaining, entry, exit, machine>>
    <2>1. /\ phase = "addressing" /\ Len(displacements) < frame.slot_count
          /\ displacements \in Seq(Int) /\ offsets \in Seq(0 .. SizeMax)
          /\ frame \in Frames
          /\ Len(offsets) = frame.slot_count
      BY DEF IInv, TypeOK, SlotsLaidOut, Sized, AddressSlot
    <2>2. k0 \in 1 .. Len(offsets) /\ offsets[k0] \in 0 .. SizeMax /\ displacement \in Int
      <3>1. frame.slot_count \in Nat /\ frame.anchor \in Nat
        BY <2>1, FrameTypes, WordTypes
      <3>2. k0 \in 1 .. Len(offsets)
        BY <2>1, <3>1
      <3>3. offsets[k0] \in 0 .. SizeMax
        <4> HIDE DEF k0
        <4> QED
          BY <3>2, <2>1, WordTypes
      <3> QED
        BY <3>1, <3>2, <3>3
    <2>3. /\ displacements' \in Seq(Int)
          /\ Len(displacements') = Len(displacements) + 1
          /\ DOMAIN displacements' = 1 .. Len(displacements) + 1
          /\ \A k \in 1 .. Len(displacements) : displacements'[k] = displacements[k]
          /\ displacements'[Len(displacements) + 1] = displacement
      <3> HIDE DEF displacement
      <3> QED
        BY <1>2, <2>1, <2>2
    <2>5. SlotsLaidOut'
      <3>1. SlotsLaidOut
        BY DEF IInv
      <3>2. \A k \in DOMAIN displacements' : displacements'[k] = offsets[k] - frame.anchor
        <4> SUFFICES ASSUME NEW k \in 1 .. Len(displacements) + 1
                     PROVE  displacements'[k] = offsets[k] - frame.anchor
          BY <2>3
        <4>1. CASE k \in 1 .. Len(displacements)
          BY <2>1, <2>3, <3>1, <4>1, SMTT(30) DEF SlotsLaidOut
        <4>2. CASE k = Len(displacements) + 1
          BY <2>3, <4>2
        <4> QED
          BY <2>1, <4>1, <4>2
      <3>3. Len(displacements') <= Len(offsets)
        BY <2>1, <2>2, <2>3
      <3> HIDE DEF fits, displacement
      <3> QED
        BY <1>2, <3>1, <3>2, <3>3 DEF SlotsLaidOut, Sized, Entered, machine
    <2>6. CoordinatesKnown'
      BY <1>2, <2>1 DEF IInv, CoordinatesKnown, StackMoved, Planned, Legal, Running, Entered,
                        machine
    <2>7. ChunksEmitted'
      BY <1>2, <2>1 DEF IInv, ChunksEmitted, Legal, Running
    <2>8. StackMoved'
      BY <1>2, <2>1 DEF IInv, StackMoved, Running, Entered, machine
    <2> QED
      BY <1>2, <2>3, <2>5, <2>6, <2>7, <2>8 DEF IInv, TypeOK, machine
  <1> QED
    BY <1>1, <1>2 DEF AddressSlot

(* The coordinates are set when their checks have passed. *)
LEMMA DeriveEntrySetupPreserves ==
    ASSUME IInv, DeriveEntrySetup
    PROVE  IInv'
  <1>1. CASE Throw
    BY <1>1, ThrowPreserves
  <1>2. CASE /\ SetupFits(frame_size, frame.anchor)
             /\ setup' = SetupOf(frame_size, frame.anchor)
             /\ phase' = "planned"
             /\ UNCHANGED <<frame, entry_pointer, cursor, offsets, frame_size, displacements,
                            remaining, entry, exit, machine>>
    <2>1. phase = "addressing"
      BY DEF DeriveEntrySetup
    <2>3. SlotsLaidOut'
      BY <1>2, <2>1 DEF IInv, SlotsLaidOut, Sized, Entered, machine
    <2>4. CoordinatesKnown'
      BY <1>2, <2>1 DEF CoordinatesKnown, SetupOf, SetupFits
    <2>5. ChunksEmitted'
      BY <1>2, <2>1 DEF IInv, ChunksEmitted, Legal, Running
    <2>6. StackMoved'
      BY <1>2, <2>1 DEF IInv, StackMoved, Running, Entered, machine
    <2> QED
      BY <1>2, <2>3, <2>4, <2>5, <2>6 DEF IInv, TypeOK, Phases, machine
  <1> QED
    BY <1>1, <1>2 DEF DeriveEntrySetup

(* The whole frame is still to be covered when the chunks start. *)
LEMMA StartLegalizationPreserves ==
    ASSUME IInv, StartLegalization
    PROVE  IInv'
  <1>1. CASE Throw
    BY <1>1, ThrowPreserves
  <1>2. CASE /\ PolicyAccepted(frame)
             /\ remaining' = frame_size
             /\ phase' = "legalizing_entry"
             /\ UNCHANGED <<frame, entry_pointer, cursor, offsets, frame_size,
                            displacements, setup, entry, exit, machine>>
    <2>1. phase = "planned" /\ entry = << >> /\ exit = << >> /\ frame_size \in 0 .. SizeMax
      BY DEF StartLegalization, IInv, ChunksEmitted, TypeOK
    <2>2. TypeOK'
      BY <1>2, <2>1 DEF IInv, TypeOK, Phases, machine
    <2>3. SlotsLaidOut'
      BY <1>2, <2>1 DEF IInv, SlotsLaidOut, Sized, Entered, machine
    <2>4. CoordinatesKnown'
      BY <1>2, <2>1 DEF IInv, CoordinatesKnown, SetupOf, SetupFits, Planned, Legal, Running,
                        Entered, machine
    <2>5. ChunksEmitted'
      <3>2. EntryBegun'
        BY <1>2, <2>1, FrameTypes, WordTypes DEF EntryBegun, PolicyAccepted, IInv, TypeOK
      <3> QED
        BY <1>2, <3>2 DEF ChunksEmitted, Legal, Running
    <2>6. StackMoved'
      BY <1>2, <2>1 DEF IInv, StackMoved, Running, Entered, machine
    <2> QED
      BY <2>2, <2>3, <2>4, <2>5, <2>6 DEF IInv
  <1> QED
    BY <1>1, <1>2 DEF StartLegalization

(* The multiples of a chunk. *)
LEMMA NextMultiple ==
    ASSUME NEW n \in Int, NEW c \in 0 .. SizeMax
    PROVE  n * c \in Int /\ (n + 1) * c = n * c + c /\ (n - 1) * c = n * c - c
  BY WordTypes

(* Quotient and remainder. *)
LEMMA Division ==
    ASSUME NEW v \in 0 .. SizeMax, NEW c \in 0 .. SizeMax, c > 0
    PROVE  (v % c) \in 0 .. c - 1 /\ v = (v \div c) * c + (v % c) /\ v \div c \in Nat
  BY WordTypes

(* The instructions of the legalization have their types. *)
LEMMA AdjustmentTypes ==
    ASSUME frame \in Frames, NEW byte_count \in 0 .. SizeMax
    PROVE  /\ Adjustment(EntryOpcode, byte_count) \in Instruction
           /\ Adjustment(ExitOpcode, byte_count) \in Instruction
  BY FrameTypes, WordTypes, RegistersAssumption
     DEF Adjustment, EntryOpcode, ExitOpcode, Instruction, Decrement, Increment, FrameBase

(* The instruction that sets the frame base has its type. *)
LEMMA MaterializationType ==
    ASSUME frame \in Frames, frame_size \in 0 .. SizeMax,
           setup = SetupOf(frame_size, frame.anchor)
    PROVE  Materialization \in Instruction
  <1> QED
    BY FrameTypes, WordTypes, RegistersAssumption DEF Materialization, Instruction,
       FrameBase, SetupOf

(* Another full chunk: what is covered and what remains is the frame. *)
LEMMA EntryChunkPreserves ==
    ASSUME IInv, EntryChunk
    PROVE  IInv'
  <1>1. /\ phase = "legalizing_entry"
        /\ remaining > frame.maximum_chunk
        /\ entry' = Append(entry, Adjustment(EntryOpcode, frame.maximum_chunk))
        /\ remaining' = remaining - frame.maximum_chunk
        /\ UNCHANGED <<frame, entry_pointer, phase, cursor, offsets, frame_size,
                       displacements, setup, exit, machine>>
    BY DEF EntryChunk
  <1>2. /\ frame \in Frames /\ frame.maximum_chunk \in 0 .. SizeMax
        /\ remaining \in 0 .. SizeMax /\ frame_size \in 0 .. SizeMax
        /\ SizeMax \in Nat
        /\ entry \in Seq(Instruction)
        /\ EntryBegun
        /\ Adjustment(EntryOpcode, frame.maximum_chunk) \in Instruction
    BY <1>1, AdjustmentTypes, FrameTypes, WordTypes DEF IInv, TypeOK, ChunksEmitted
  <1>4. SlotsLaidOut'
    BY <1>1 DEF IInv, SlotsLaidOut, Sized, Entered, machine
  <1>5. CoordinatesKnown'
    BY <1>1 DEF IInv, CoordinatesKnown, SetupOf, SetupFits, Planned, Legal, Running,
                Entered, machine
  <1>6. EntryBegun'
    <2> DEFINE chunk == Adjustment(EntryOpcode, frame.maximum_chunk)
    <2>1. /\ frame.maximum_chunk > 0
          /\ remaining + Len(entry) * frame.maximum_chunk = frame_size
          /\ \A i \in 1 .. Len(entry) : entry[i] = chunk
          /\ Len(entry) \in Nat
      BY <1>2 DEF EntryBegun
    <2>2. chunk' = chunk /\ frame' = frame /\ frame_size' = frame_size /\ exit' = exit
      BY <1>1 DEF Adjustment, EntryOpcode
    <2>3. /\ Len(entry') = Len(entry) + 1 /\ DOMAIN entry' = 1 .. Len(entry) + 1
          /\ \A i \in 1 .. Len(entry) : entry'[i] = entry[i]
          /\ entry'[Len(entry) + 1] = chunk
      BY <1>1, <1>2
    <2>4. \A i \in 1 .. Len(entry) + 1 : entry'[i] = chunk
      BY <2>1, <2>3
    <2>5. remaining' + (Len(entry) + 1) * frame.maximum_chunk = frame_size
      <3>1. (Len(entry) + 1) * frame.maximum_chunk
                = Len(entry) * frame.maximum_chunk + frame.maximum_chunk
        <4>1. Len(entry) \in Int /\ frame.maximum_chunk \in 0 .. SizeMax
          BY <1>2, <2>1
        <4> QED
          BY <4>1, NextMultiple
      <3> QED
        BY <1>1, <1>2, <2>1, <3>1
    <2>6. /\ frame'.maximum_chunk > 0
          /\ remaining' + Len(entry') * frame'.maximum_chunk = frame_size'
          /\ frame_size' > 0 => remaining' > 0
          /\ exit' = << >>
      <3> HIDE DEF chunk
      <3> QED
        BY <1>1, <1>2, <2>1, <2>2, <2>3, <2>5 DEF EntryBegun
    <2>7. \A i \in DOMAIN entry' : entry'[i] = chunk'
      <3> HIDE DEF chunk
      <3> QED
        BY <2>2, <2>3, <2>4
    <2> QED
      BY <2>6, <2>7 DEF EntryBegun
  <1>7. ChunksEmitted'
    BY <1>1, <1>6 DEF ChunksEmitted, Legal, Running
  <1>8. StackMoved'
    BY <1>1 DEF IInv, StackMoved, Running, Entered, machine
  <1> QED
    BY <1>1, <1>2, <1>4, <1>5, <1>7, <1>8 DEF IInv, TypeOK, machine

(* The last chunk covers what remained, and the entry is complete. *)
LEMMA LastEntryChunkPreserves ==
    ASSUME IInv, LastEntryChunk
    PROVE  IInv'
  <1>1. /\ phase = "legalizing_entry"
        /\ remaining <= frame.maximum_chunk
        /\ entry' = entry \o <<Adjustment(EntryOpcode, remaining), Materialization>>
        /\ remaining' = frame_size
        /\ phase' = "legalizing_exit"
        /\ UNCHANGED <<frame, entry_pointer, cursor, offsets, frame_size, displacements,
                       setup, exit, machine>>
    BY DEF LastEntryChunk
  <1>2. /\ frame \in Frames /\ frame.maximum_chunk \in 0 .. SizeMax
        /\ remaining \in 0 .. SizeMax /\ frame_size \in 0 .. SizeMax
        /\ SizeMax \in Nat
        /\ entry \in Seq(Instruction)
        /\ EntryBegun
        /\ setup = SetupOf(frame_size, frame.anchor)
    BY <1>1, FrameTypes, WordTypes
       DEF IInv, TypeOK, ChunksEmitted, CoordinatesKnown, Planned
  <1>3. Adjustment(EntryOpcode, remaining) \in Instruction /\ Materialization \in Instruction
    BY <1>2, AdjustmentTypes, MaterializationType
  <1>4. /\ entry' \in Seq(Instruction)
        /\ Len(entry') = Len(entry) + 2
        /\ \A i \in 1 .. Len(entry) : entry'[i] = entry[i]
        /\ entry'[Len(entry) + 1] = Adjustment(EntryOpcode, remaining)
        /\ entry'[Len(entry) + 2] = Materialization
    <2> DEFINE last == Adjustment(EntryOpcode, remaining)
               base == Materialization
    <2>1. last \in Instruction /\ base \in Instruction /\ entry' = entry \o <<last, base>>
      BY <1>1, <1>3
    <2> HIDE DEF last, base
    <2>2. /\ entry' \in Seq(Instruction) /\ Len(entry') = Len(entry) + 2
          /\ \A i \in 1 .. Len(entry) : entry'[i] = entry[i]
          /\ entry'[Len(entry) + 1] = last /\ entry'[Len(entry) + 2] = base
      BY <1>2, <2>1
    <2> QED
      BY <2>2 DEF last, base
  <1>5. TypeOK'
    BY <1>1, <1>2, <1>4 DEF IInv, TypeOK, Phases, machine
  <1>6. SlotsLaidOut'
    BY <1>1 DEF IInv, SlotsLaidOut, Sized, Entered, machine
  <1>7. CoordinatesKnown'
    BY <1>1 DEF IInv, CoordinatesKnown, SetupOf, SetupFits, Planned, Legal, Running,
                Entered, machine
  <1>8. EntryComplete'
    <2>1. /\ frame.maximum_chunk > 0
          /\ remaining + Len(entry) * frame.maximum_chunk = frame_size
          /\ frame_size > 0 => remaining > 0
          /\ \A i \in 1 .. Len(entry) : entry[i] = Adjustment(EntryOpcode, frame.maximum_chunk)
          /\ Len(entry) \in Nat
      BY <1>2 DEF EntryBegun
    <2>2. /\ Materialization' = Materialization /\ frame' = frame /\ frame_size' = frame_size
      BY <1>1 DEF Materialization
    <2>3. LastEntry' = remaining
      BY <1>1, <1>2, <1>4, <2>1 DEF LastEntry
    <2>4. /\ Len(entry') = Len(entry) + 2
          /\ Len(entry') - 2 = Len(entry) /\ Len(entry') - 1 = Len(entry) + 1
      BY <1>4, <2>1
    <2>5. \A i \in 1 .. Len(entry) :
              entry'[i] = Adjustment(EntryOpcode, frame.maximum_chunk)'
      BY <1>4, <2>1, <2>2 DEF Adjustment, EntryOpcode
    <2>6. /\ entry'[Len(entry) + 1] = Adjustment(EntryOpcode, LastEntry)'
          /\ entry'[Len(entry) + 2] = Materialization'
      BY <1>4, <2>2, <2>3 DEF Adjustment, EntryOpcode
    <2>7. /\ frame'.maximum_chunk > 0
          /\ LastEntry' \in 0 .. frame'.maximum_chunk
          /\ frame_size' > 0 => LastEntry' > 0
      BY <1>1, <1>2, <2>1, <2>2, <2>3
    <2> QED
      BY <2>1, <2>4, <2>5, <2>6, <2>7 DEF EntryComplete
  <1>9. exit' = << >>
    BY <1>1, <1>2 DEF EntryBegun
  <1>10. ChunksEmitted'
    BY <1>1, <1>8, <1>9 DEF ChunksEmitted, Legal, Running
  <1>11. StackMoved'
    BY <1>1 DEF IInv, StackMoved, Running, Entered, machine
  <1> QED
    BY <1>5, <1>6, <1>7, <1>10, <1>11 DEF IInv

(* After the first exit chunk, whole chunks remain. *)
LEMMA FirstExitChunkPreserves ==
    ASSUME IInv, FirstExitChunk
    PROVE  IInv'
  <1> DEFINE c == frame.maximum_chunk
             r == frame_size % c
  <1>1. /\ phase = "legalizing_exit" /\ exit = << >>
        /\ frame \in Frames /\ frame_size \in 0 .. SizeMax /\ SizeMax \in Nat
        /\ c \in 0 .. SizeMax /\ c > 0
        /\ remaining = frame_size
        /\ EntryComplete
    BY FrameTypes, WordTypes
       DEF FirstExitChunk, IInv, TypeOK, ChunksEmitted, EntryComplete, Legal
  <1>2. /\ UNCHANGED <<frame, entry_pointer, phase, cursor, offsets, frame_size,
                       displacements, setup, entry, machine>>
    BY DEF FirstExitChunk
  <1>3. r \in 0 .. c - 1 /\ frame_size = (frame_size \div c) * c + r /\ frame_size \div c \in Nat
    BY <1>1, Division
  <1>4. \E first \in 0 .. c :
            /\ exit' = <<Adjustment(ExitOpcode, first)>>
            /\ remaining' = frame_size - first
            /\ remaining' \in 0 .. SizeMax
            /\ frame_size > 0 => first > 0
            /\ \E q \in Nat : remaining' = q * c
    <2>1. CASE r # 0 \/ remaining = 0
      <3>1. exit' = <<Adjustment(ExitOpcode, r)>> /\ remaining' = frame_size - r
        BY <1>1, <2>1 DEF FirstExitChunk
      <3>2. remaining' = (frame_size \div c) * c
        BY <1>1, <1>3, <3>1, NextMultiple
      <3>3. r \in 0 .. c
        BY <1>1, <1>3
      <3>4. remaining' \in 0 .. SizeMax
        <4>1. (frame_size \div c) * c \in Nat
          <5>1. \A q \in Nat : q * c \in Nat
            BY <1>1
          <5> QED
            BY <1>3, <5>1
        <4> HIDE DEF r, c
        <4> QED
          BY <1>1, <3>1, <3>2, <3>3, <4>1
      <3>5. frame_size > 0 => r > 0
        BY <1>1, <1>3, <2>1
      <3> HIDE DEF r
      <3> QED
        BY <1>3, <3>1, <3>2, <3>3, <3>4, <3>5
    <2>2. CASE r = 0 /\ remaining # 0
      <3>1. exit' = <<Adjustment(ExitOpcode, c)>> /\ remaining' = frame_size - c
        BY <1>1, <2>2 DEF FirstExitChunk
      <3>2. frame_size \div c \in Nat \ {0}
        BY <1>1, <1>3, <2>2
      <3>3. /\ (frame_size \div c - 1) * c = (frame_size \div c) * c - c
            /\ (frame_size \div c - 1) * c \in Nat
            /\ frame_size \div c - 1 \in Nat
        BY <1>1, <3>2, NextMultiple
      <3>4. remaining' = (frame_size \div c - 1) * c
        BY <1>1, <1>3, <2>2, <3>1, <3>3
      <3> QED
        BY <1>1, <3>1, <3>3, <3>4
    <2> QED
      BY <2>1, <2>2
  <1>5. PICK first \in 0 .. c :
            /\ exit' = <<Adjustment(ExitOpcode, first)>>
            /\ remaining' = frame_size - first
            /\ remaining' \in 0 .. SizeMax
            /\ frame_size > 0 => first > 0
            /\ \E q \in Nat : remaining' = q * c
    BY <1>4
  <1>6. /\ Len(exit') = 1 /\ DOMAIN exit' = {1}
        /\ exit'[1] = Adjustment(ExitOpcode, first)
        /\ exit' # << >>
        /\ exit' \in Seq(Instruction)
    BY <1>1, <1>5, AdjustmentTypes
  <1>7. TypeOK'
    BY <1>2, <1>5, <1>6 DEF IInv, TypeOK, machine
  <1>8. SlotsLaidOut'
    BY <1>2 DEF IInv, SlotsLaidOut, Sized, Entered, machine
  <1>9. CoordinatesKnown'
    BY <1>2 DEF IInv, CoordinatesKnown, SetupOf, SetupFits, Planned, Legal, Running,
                Entered, machine
  <1>10. EntryComplete'
    BY <1>1, <1>2 DEF EntryComplete, LastEntry, Adjustment, EntryOpcode, Materialization
  <1>11. ExitBegun'
    <2>1. FirstExit' = first
      BY <1>1, <1>2, <1>5, <1>6 DEF FirstExit
    <2> QED
      BY <1>5, <2>1, <1>2, <1>6 DEF ExitBegun, Adjustment, ExitOpcode
  <1>12. ChunksEmitted'
    BY <1>1, <1>2, <1>6, <1>10, <1>11 DEF ChunksEmitted, Legal, Running
  <1>13. StackMoved'
    BY <1>1, <1>2 DEF IInv, StackMoved, Running, Entered, machine
  <1> QED
    BY <1>7, <1>8, <1>9, <1>12, <1>13 DEF IInv

(* Another exit chunk: one whole chunk less remains. *)
LEMMA ExitChunkPreserves ==
    ASSUME IInv, ExitChunk
    PROVE  IInv'
  <1> DEFINE c == frame.maximum_chunk
             chunk == Adjustment(ExitOpcode, c)
  <1>1. /\ phase = "legalizing_exit" /\ exit # << >> /\ remaining > 0
        /\ exit' = Append(exit, chunk)
        /\ remaining' = remaining - c
        /\ UNCHANGED <<frame, entry_pointer, phase, cursor, offsets, frame_size,
                       displacements, setup, entry, machine>>
    BY DEF ExitChunk
  <1>2. /\ frame \in Frames /\ frame_size \in 0 .. SizeMax /\ SizeMax \in Nat
        /\ c \in 0 .. SizeMax /\ c > 0
        /\ remaining \in 0 .. SizeMax
        /\ exit \in Seq(Instruction) /\ Len(exit) \in Nat \ {0}
        /\ EntryComplete /\ ExitBegun
    BY <1>1, FrameTypes, WordTypes DEF IInv, TypeOK, ChunksEmitted, EntryComplete, Legal
  <1>3. PICK q \in Nat : remaining = q * c
    BY <1>2 DEF ExitBegun
  <1>4. q - 1 \in Nat /\ remaining' = (q - 1) * c /\ remaining' \in 0 .. SizeMax
    <2>1. q # 0
      BY <1>1, <1>2, <1>3
    <2>2. (q - 1) * c = q * c - c /\ (q - 1) * c \in Nat
      BY <1>2, <2>1, NextMultiple
    <2> QED
      BY <1>1, <1>2, <1>3, <2>1, <2>2
  <1>5. /\ exit' \in Seq(Instruction)
        /\ Len(exit') = Len(exit) + 1
        /\ \A i \in 1 .. Len(exit) : exit'[i] = exit[i]
        /\ exit'[Len(exit) + 1] = chunk
        /\ exit' # << >>
    <2>1. chunk \in Instruction
      BY <1>2, AdjustmentTypes
    <2> HIDE DEF chunk
    <2> QED
      BY <1>1, <1>2, <2>1
  <1>6. TypeOK'
    BY <1>1, <1>4, <1>5 DEF IInv, TypeOK, machine
  <1>7. SlotsLaidOut'
    BY <1>1 DEF IInv, SlotsLaidOut, Sized, Entered, machine
  <1>8. CoordinatesKnown'
    BY <1>1 DEF IInv, CoordinatesKnown, SetupOf, SetupFits, Planned, Legal, Running,
                Entered, machine
  <1>9. EntryComplete'
    BY <1>1, <1>2 DEF EntryComplete, LastEntry, Adjustment, EntryOpcode, Materialization
  <1>10. ExitBegun'
    <2>1. FirstExit' = FirstExit
      BY <1>2, NextMultiple, <1>5, <1>1 DEF FirstExit
    <2>2. frame' = frame /\ frame_size' = frame_size
      BY <1>1
    <2>3. /\ \A n : Adjustment(ExitOpcode, n) = [opcode |-> ExitOpcode,
                                                 operands |-> <<StackPointerRegister, n>>]
          /\ ExitOpcode' = ExitOpcode
      BY <2>2 DEF Adjustment, ExitOpcode
    <2>4. exit'[1] = Adjustment(ExitOpcode, FirstExit)'
      BY <1>2, <1>5, <2>1, <2>2, SMTT(30) DEF ExitBegun, Adjustment, ExitOpcode
    <2>5. \A i \in 2 .. Len(exit') : exit'[i] = chunk
      <3> SUFFICES ASSUME NEW i \in 2 .. Len(exit) + 1
                   PROVE  exit'[i] = chunk
        BY <1>5
      <3>1. CASE i \in 2 .. Len(exit)
        BY <1>2, <1>5, <3>1 DEF ExitBegun
      <3>2. CASE i = Len(exit) + 1
        BY <1>5, <3>2
      <3> QED
        BY <1>2, <3>1, <3>2
    <2>9. \E n \in Nat : remaining' = n * frame'.maximum_chunk
      BY <1>4, <2>2
    <2> QED
      BY <2>4, <2>5, <2>2, <1>2, <2>1, <2>9 DEF ExitBegun, Adjustment, ExitOpcode
  <1>11. ChunksEmitted'
    BY <1>1, <1>5, <1>9, <1>10 DEF ChunksEmitted, Legal, Running
  <1>12. StackMoved'
    BY <1>1 DEF IInv, StackMoved, Running, Entered, machine
  <1> QED
    BY <1>6, <1>7, <1>8, <1>11, <1>12 DEF IInv

(* Encoding changes no instruction. *)
LEMMA EncodePlanPreserves ==
    ASSUME IInv, EncodePlan
    PROVE  IInv'
  <1>1. /\ phase = "legalizing_exit" /\ exit # << >> /\ remaining = 0
        /\ phase' = "encoded"
        /\ UNCHANGED <<frame, entry_pointer, plan, code, pc, stack_pointer, frame_base,
                       after_entry>>
    BY DEF EncodePlan
  <1>3. SlotsLaidOut'
    BY <1>1 DEF IInv, SlotsLaidOut, Sized, Entered, plan
  <1>4. CoordinatesKnown'
    BY <1>1 DEF IInv, CoordinatesKnown, SetupOf, SetupFits, Planned, Legal, Running,
                Entered, plan
  <1>5. EntryComplete' /\ ExitBegun'
    <2>1. EntryComplete /\ ExitBegun
      BY <1>1 DEF IInv, ChunksEmitted, Legal
    <2> QED
      BY <1>1, <2>1 DEF EntryComplete, ExitBegun, LastEntry, FirstExit, Adjustment,
                        EntryOpcode, ExitOpcode, Materialization, plan
  <1>6. ChunksEmitted'
    BY <1>1, <1>5 DEF ChunksEmitted, Legal, Running, plan
  <1>7. StackMoved'
    BY <1>1 DEF IInv, StackMoved, Running, Entered, plan
  <1> QED
    BY <1>1, <1>3, <1>4, <1>6, <1>7 DEF IInv, TypeOK, Phases, plan

(* The code that runs is the plan, since the decoded sequences are         *)
(* compared with it.                                                       *)
LEMMA DecodePlanPreserves ==
    ASSUME IInv, DecodePlan
    PROVE  IInv'
  <1>1. CASE Throw
    BY <1>1, ThrowPreserves
  <1>2. CASE /\ code' = entry \o exit
             /\ phase' = "executing"
             /\ UNCHANGED <<frame, entry_pointer, plan, bytes, pc, stack_pointer,
                            frame_base, after_entry>>
    <2>1. /\ phase = "encoded" /\ pc = 1 /\ ~Entered /\ stack_pointer = entry_pointer
          /\ frame \in Frames /\ frame.maximum_chunk \in Nat /\ entry_pointer \in Int
          /\ entry \in Seq(Instruction) /\ exit \in Seq(Instruction)
          /\ EntryComplete /\ ExitBegun /\ exit # << >> /\ remaining = 0
          /\ Len(entry) \in Nat /\ Len(entry) >= 2
      BY FrameTypes, WordTypes
         DEF DecodePlan, IInv, TypeOK, ChunksEmitted, StackMoved, Legal, Running,
             EntryComplete
    <2>2. code' \in Seq(Instruction) /\ Len(code') \in Nat /\ Len(code') >= 2
      BY <1>2, <2>1
    <2>3. TypeOK'
      BY <1>2, <2>2 DEF IInv, TypeOK, Phases, plan
    <2>4. SlotsLaidOut'
      BY <1>2, <2>1 DEF IInv, SlotsLaidOut, Sized, Entered, plan
    <2>5. CoordinatesKnown'
      BY <1>2, <2>1 DEF IInv, CoordinatesKnown, SetupOf, SetupFits, Planned, Legal, Running,
                        Entered, plan
    <2>6. EntryComplete' /\ ExitBegun'
      BY <1>2, <2>1 DEF EntryComplete, ExitBegun, LastEntry, FirstExit, Adjustment,
                        EntryOpcode, ExitOpcode, Materialization, plan
    <2>7. ChunksEmitted'
      BY <1>2, <2>1, <2>6 DEF ChunksEmitted, Legal, Running, plan
    <2>8. StackMoved'
      BY <1>2, <2>1, <2>2 DEF ReservedAt, plan, Moved, Entered, StackMoved, Running
    <2> QED
      BY <2>3, <2>4, <2>5, <2>7, <2>8 DEF IInv
  <1> QED
    BY <1>1, <1>2 DEF DecodePlan

(* What each instruction of the running code is, and what it reserves.     *)
LEMMA InstructionAt ==
    ASSUME IInv, phase = "executing", pc <= Len(code)
    PROVE  \/ /\ pc < Len(entry)
              /\ \E b \in 0 .. SizeMax :
                     /\ code[pc] = Adjustment(EntryOpcode, b)
                     /\ ReservedAt(pc + 1) = ReservedAt(pc) + b
           \/ /\ pc = Len(entry)
              /\ code[pc] = Materialization
              /\ ReservedAt(pc) = frame_size /\ ReservedAt(pc + 1) = frame_size
           \/ /\ pc > Len(entry)
              /\ \E b \in 0 .. SizeMax :
                     /\ code[pc] = Adjustment(ExitOpcode, b)
                     /\ ReservedAt(pc + 1) = ReservedAt(pc) - b
  <1> DEFINE c == frame.maximum_chunk
             n == Len(entry)
  <1>1. /\ frame \in Frames /\ c \in 0 .. SizeMax /\ SizeMax \in Nat
        /\ frame_size \in 0 .. SizeMax
        /\ entry \in Seq(Instruction) /\ exit \in Seq(Instruction)
        /\ code = entry \o exit /\ pc \in Nat \ {0}
        /\ EntryComplete /\ ExitBegun /\ exit # << >> /\ remaining = 0
        /\ n \in Nat /\ n >= 2
    <2>1. /\ frame \in Frames /\ frame_size \in 0 .. SizeMax /\ pc \in Nat \ {0}
          /\ entry \in Seq(Instruction) /\ exit \in Seq(Instruction)
      BY DEF IInv, TypeOK
    <2>2. EntryComplete /\ ExitBegun /\ exit # << >> /\ remaining = 0
      BY DEF IInv, ChunksEmitted, Legal, Running
    <2>4. n \in Nat /\ n >= 2
      BY <2>1, <2>2 DEF EntryComplete
    <2> QED
      BY <2>1, <2>2, <2>4, FrameTypes, WordTypes DEF IInv, StackMoved, Running
  <1>2. /\ \A i \in 1 .. n : code[i] = entry[i]
        /\ \A i \in 1 .. Len(exit) : code[n + i] = exit[i]
        /\ Len(code) = n + Len(exit) /\ Len(exit) \in Nat \ {0}
    BY <1>1
  <1>3. CASE pc < n - 1
    <2>1. code[pc] = Adjustment(EntryOpcode, c)
      BY <1>1, <1>2, <1>3 DEF EntryComplete
    <2> QED
      BY <1>1, <1>3, <2>1, NextMultiple DEF ReservedAt
  <1>4. CASE pc = n - 1
    <2>3. ReservedAt(pc + 1) = ReservedAt(pc) + LastEntry
      BY <1>1, <1>4 DEF LastEntry, ReservedAt
    <2> QED
      BY <1>1, <1>4, <1>2, <2>3 DEF EntryComplete
  <1>5. CASE pc = n
    BY <1>1, <1>2, <1>5 DEF EntryComplete, ReservedAt
  <1>6. FirstExit \in 0 .. SizeMax
    BY <1>1 DEF ExitBegun
  <1>7. CASE pc = n + 1
    BY <1>1, <1>6, <1>7, <1>2, SMTT(30) DEF ReservedAt, ExitBegun
  <1>8. CASE pc > n + 1
    <2>2. code[pc] = Adjustment(ExitOpcode, c)
      BY <1>1, <1>2, <1>8 DEF ExitBegun
    <2>4. (pc - n - 1) * c = (pc - n - 2) * c + c /\ (pc - n - 2) * c \in Int
      BY <1>1, NextMultiple
    <2>5. ReservedAt(pc + 1) = ReservedAt(pc) - c
      BY <1>1, <1>6, <1>8, <2>4, SMTT(30) DEF ReservedAt
    <2> QED
      BY <2>2, <2>5, <1>1, <1>8
  <1> QED
    BY <1>1, <1>3, <1>4, <1>5, <1>7, <1>8

(* What the code has reserved is an integer. *)
LEMMA ReservedIsInteger ==
    ASSUME IInv, Legal, NEW p \in Nat
    PROVE  ReservedAt(p) \in Int
  <1>1. /\ frame \in Frames /\ frame_size \in Nat /\ remaining \in Nat
        /\ entry \in Seq(Instruction) /\ exit \in Seq(Instruction)
    BY WordTypes DEF IInv, TypeOK
  <1>2. frame.maximum_chunk \in Nat /\ Len(entry) \in Nat /\ Len(exit) \in Nat
    BY <1>1, FrameTypes, WordTypes, SMTT(30)
  <1> QED
    BY <1>1, <1>2 DEF ReservedAt, FirstExit

(* The displacement of the frame base fits a word.                         *)
LEMMA BaseFits ==
    ASSUME IInv, Planned
    PROVE  setup.from_adjusted \in Int64
  <1>1. /\ frame \in Frames /\ frame_size \in 0 .. SizeMax
        /\ frame.anchor \in 0 .. SizeMax
        /\ setup = SetupOf(frame_size, frame.anchor)
        /\ SetupFits(frame_size, frame.anchor)
    BY FrameTypes DEF IInv, TypeOK, CoordinatesKnown
  <1> QED
    BY <1>1, SizeChecksExact, WordTypes DEF SetupOf, SetupFits

(* An executed instruction moves the stack pointer by what it reserves,    *)
(* and the last one of the entry sets the frame base.                      *)
LEMMA ExecuteInstructionPreserves ==
    ASSUME IInv, ExecuteInstruction
    PROVE  IInv'
  <1> DEFINE instruction == code[pc]
  <1>1. CASE Throw
    BY <1>1, ThrowPreserves
  <1>2. CASE /\ InstructionFits(code[pc])
             /\ stack_pointer' =
                    CASE code[pc].opcode = Decrement -> stack_pointer - code[pc].operands[2]
                      [] code[pc].opcode = Increment -> stack_pointer + code[pc].operands[2]
                      [] code[pc].opcode = FrameBase -> stack_pointer
             /\ frame_base' = IF code[pc].opcode = FrameBase
                              THEN stack_pointer + code[pc].operands[3] ELSE frame_base
             /\ after_entry' = IF pc = Len(entry) THEN <<stack_pointer', frame_base'>>
                               ELSE after_entry
             /\ pc' = pc + 1
             /\ UNCHANGED <<frame, entry_pointer, phase, plan, bytes, code>>
    <2>1. /\ phase = "executing" /\ pc <= Len(code)
          /\ frame \in Frames /\ frame.growth \in {"lower", "higher"}
          /\ entry_pointer \in Int64
          /\ stack_pointer \in Int64 /\ frame_base \in Int64
          /\ pc \in Nat \ {0} /\ Len(code) \in Nat /\ Len(entry) \in Nat
          /\ stack_pointer = Moved(ReservedAt(pc))
          /\ Entered <=> pc > Len(entry)
          /\ setup.from_adjusted \in Int64
      <3>1. phase = "executing" /\ pc <= Len(code)
        BY DEF ExecuteInstruction
      <3>4. stack_pointer = Moved(ReservedAt(pc)) /\ (Entered <=> pc > Len(entry))
        BY <3>1 DEF IInv, StackMoved, Running
      <3> QED
        BY <3>1, <3>4, BaseFits, FrameTypes, SMTT(30) DEF IInv, TypeOK, Planned, Legal, Running
    <2>2. ReservedAt(pc) \in Int /\ entry_pointer \in Int
      BY <2>1, ReservedIsInteger, WordTypes DEF Legal, Running
    <2>3. /\ stack_pointer' = Moved(ReservedAt(pc + 1))
          /\ stack_pointer' \in Int64 /\ frame_base' \in Int64
          /\ pc = Len(entry) =>
                 /\ stack_pointer' = Moved(frame_size)
                 /\ frame_base' = Moved(frame_size) + setup.from_adjusted
      <3>1. CASE /\ pc = Len(entry) /\ code[pc] = Materialization
                 /\ ReservedAt(pc) = frame_size /\ ReservedAt(pc + 1) = frame_size
        BY <3>1, <1>2, <2>1, SignedChecksExact DEF Materialization, Decrement, Increment,
           FrameBase, InstructionFits
      <3>2. ASSUME NEW b \in 0 .. SizeMax, pc # Len(entry),
                   \/ /\ code[pc] = Adjustment(EntryOpcode, b)
                      /\ ReservedAt(pc + 1) = ReservedAt(pc) + b
                   \/ /\ code[pc] = Adjustment(ExitOpcode, b)
                      /\ ReservedAt(pc + 1) = ReservedAt(pc) - b
            PROVE  /\ stack_pointer' = Moved(ReservedAt(pc + 1))
                   /\ stack_pointer' \in Int64 /\ frame_base' \in Int64
        <4>1. code[pc].opcode \in {Decrement, Increment} /\ code[pc].operands[2] = b
          BY <3>2 DEF Adjustment, EntryOpcode, ExitOpcode
        <4>2. frame_base' = frame_base
          BY <1>2, <4>1 DEF Decrement, Increment, FrameBase
        <4>3. CASE code[pc].opcode = Decrement
          <5>1. stack_pointer' = stack_pointer - b /\ DecrementFits(stack_pointer, b)
            BY <1>2, <4>1, <4>3 DEF Decrement, Increment, FrameBase, InstructionFits
          <5>3. \/ frame.growth = "lower" /\ ReservedAt(pc + 1) = ReservedAt(pc) + b
                \/ frame.growth # "lower" /\ ReservedAt(pc + 1) = ReservedAt(pc) - b
            BY <3>2, <4>3 DEF Adjustment, EntryOpcode, ExitOpcode, Decrement, Increment
          <5>4. b \in Int
            BY WordTypes
          <5>5. stack_pointer' = Moved(ReservedAt(pc + 1))
            BY <2>1, <2>2, <5>1, <5>3, <5>4, SMTT(30) DEF Moved
          <5> QED
            BY <2>1, <4>2, <5>1, PointerChecksExact, <5>5
        <4>4. CASE code[pc].opcode = Increment
          <5>1. stack_pointer' = stack_pointer + b /\ IncrementFits(stack_pointer, b)
            BY <1>2, <4>1, <4>4 DEF Decrement, Increment, FrameBase, InstructionFits
          <5>3. \/ frame.growth # "lower" /\ ReservedAt(pc + 1) = ReservedAt(pc) + b
                \/ frame.growth = "lower" /\ ReservedAt(pc + 1) = ReservedAt(pc) - b
            BY <3>2, <4>4 DEF Adjustment, EntryOpcode, ExitOpcode, Decrement, Increment
          <5>4. b \in Int
            BY WordTypes
          <5>5. stack_pointer' = Moved(ReservedAt(pc + 1))
            BY <2>1, <2>2, <5>1, <5>3, <5>4, SMTT(30) DEF Moved
          <5> QED
            BY <2>1, <4>2, <5>1, PointerChecksExact, <5>5
        <4> QED
          BY <4>1, <4>3, <4>4
      <3>3. (pc < Len(entry) \/ pc > Len(entry)) => pc # Len(entry)
        BY <2>1
      <3>4. CASE /\ pc < Len(entry)
                 /\ \E b \in 0 .. SizeMax :
                        /\ code[pc] = Adjustment(EntryOpcode, b)
                        /\ ReservedAt(pc + 1) = ReservedAt(pc) + b
        BY <3>2, <3>3, <3>4
      <3>5. CASE /\ pc > Len(entry)
                 /\ \E b \in 0 .. SizeMax :
                        /\ code[pc] = Adjustment(ExitOpcode, b)
                        /\ ReservedAt(pc + 1) = ReservedAt(pc) - b
        BY <3>2, <3>3, <3>5
      <3> QED
        BY <2>1, <3>1, <3>4, <3>5, InstructionAt
    <2>4. TypeOK'
      BY <2>3, <1>2, <2>1 DEF IInv, TypeOK, plan
    <2>5. Entered' <=> pc' > Len(entry)
      BY <1>2, <2>1 DEF Entered
    <2>6. after_entry' # << >> =>
              after_entry' = <<Moved(frame_size), Moved(frame_size) + setup.from_adjusted>>
      BY <1>2, <2>3 DEF IInv, StackMoved, Entered
    <2>7. SlotsLaidOut'
      BY <1>2, <2>1 DEF IInv, SlotsLaidOut, Sized, plan
    <2>8. CoordinatesKnown'
      BY <1>2, <2>1 DEF IInv, CoordinatesKnown, SetupOf, SetupFits, Planned, Legal, Running,
                        plan
    <2>9. EntryComplete' /\ ExitBegun'
      <3>1. EntryComplete /\ ExitBegun
        BY <2>1 DEF IInv, ChunksEmitted, Legal, Running
      <3> QED
        BY <1>2, <3>1 DEF EntryComplete, ExitBegun, LastEntry, FirstExit, Adjustment,
                          EntryOpcode, ExitOpcode, Materialization, plan
    <2>10. ChunksEmitted'
      BY <1>2, <2>1, <2>9 DEF IInv, ChunksEmitted, Legal, Running, plan
    <2>11. StackMoved'
      <3>2. Moved(ReservedAt(pc))' = Moved(ReservedAt(pc + 1))
        BY <1>2 DEF ReservedAt, FirstExit, plan, Moved
      <3>3. /\ Moved(frame_size)' = Moved(frame_size) /\ setup' = setup
            /\ code' = code /\ entry' = entry /\ exit' = exit /\ phase' = phase
        BY <1>2 DEF Moved, plan
      <3>4. pc' \in 1 .. Len(code) + 1
        BY <1>2, <2>1
      <3>5. code = entry \o exit
        BY <2>1 DEF IInv, StackMoved, Running
      <3> QED
        BY <2>1, <2>3, <2>5, <2>6, <3>2, <3>3, <3>4, <3>5 DEF StackMoved, Running, Entered
    <2> QED
      BY <2>4, <2>7, <2>8, <2>10, <2>11 DEF IInv
  <1> QED
    BY <1>1, <1>2 DEF ExecuteInstruction

(* The return moves nothing. *)
LEMMA ReturnPreserves ==
    ASSUME IInv, Return
    PROVE  IInv'
  <1>1. /\ phase = "executing" /\ phase' = "returned"
        /\ UNCHANGED <<frame, entry_pointer, plan, machine>>
    BY DEF Return
  <1>2. TypeOK'
    BY <1>1 DEF IInv, TypeOK, Phases, plan, machine
  <1>3. SlotsLaidOut'
    BY <1>1 DEF IInv, SlotsLaidOut, Sized, Entered, plan, machine
  <1>4. CoordinatesKnown'
    BY <1>1 DEF IInv, CoordinatesKnown, SetupOf, SetupFits, Planned, Legal, Running,
                Entered, plan, machine
  <1>5. EntryComplete' /\ ExitBegun'
    <2>1. EntryComplete /\ ExitBegun
      BY <1>1 DEF IInv, ChunksEmitted, Legal, Running
    <2> QED
      BY <1>1, <2>1 DEF EntryComplete, ExitBegun, LastEntry, FirstExit, Adjustment,
                        EntryOpcode, ExitOpcode, Materialization, plan
  <1>6. ChunksEmitted'
    BY <1>1, <1>5 DEF IInv, ChunksEmitted, Legal, Running, plan
  <1>7. StackMoved'
    BY <1>1 DEF IInv, StackMoved, Running, Entered, ReservedAt, FirstExit, Moved, plan, machine
  <1> QED
    BY <1>2, <1>3, <1>4, <1>6, <1>7 DEF IInv

(* No step leaves the inductive invariant. *)
LEMMA NextPreserves ==
    ASSUME IInv, [Next]_vars
    PROVE  IInv'
  <1>1. CASE Next
    BY <1>1, StartPreserves, LayoutSlotPreserves, FinishLayoutPreserves,
       StartAddressingPreserves, AddressSlotPreserves, DeriveEntrySetupPreserves,
       StartLegalizationPreserves, EntryChunkPreserves, LastEntryChunkPreserves,
       FirstExitChunkPreserves, ExitChunkPreserves, EncodePlanPreserves,
       DecodePlanPreserves, ExecuteInstructionPreserves, ReturnPreserves DEF Next
  <1>2. CASE UNCHANGED vars
    <2>1. /\ UNCHANGED <<frame, entry_pointer, phase, plan, code, pc, stack_pointer,
                         frame_base, after_entry>>
      BY <1>2 DEF vars, plan
    <2>3. SlotsLaidOut'
      BY <2>1 DEF IInv, SlotsLaidOut, Sized, Entered, plan
    <2>4. CoordinatesKnown'
      BY <2>1 DEF IInv, CoordinatesKnown, SetupOf, SetupFits, Planned, Legal, Running,
                  Entered, plan
    <2>5. ChunksEmitted'
      BY <2>1 DEF IInv, ChunksEmitted, EntryBegun, EntryComplete, ExitBegun, LastEntry,
                  FirstExit, Adjustment, EntryOpcode, ExitOpcode, Materialization, Legal,
                  Running, plan
    <2>6. StackMoved'
      BY <2>1 DEF IInv, StackMoved, Running, Entered, ReservedAt, FirstExit, Moved, plan
    <2> QED
      BY <2>1, <2>3, <2>4, <2>5, <2>6 DEF IInv, TypeOK, plan
  <1> QED
    BY <1>1, <1>2

(* From the layout of the slots to the return of the call, the inductive   *)
(* invariant holds: the types, where the slots are, what the coordinates   *)
(* are, which chunks have been emitted, and how far the stack pointer of   *)
(* the running code is from the one of the caller.                         *)
THEOREM InductiveInvariant == Spec => []IInv
  <1>1. Init => IInv
    BY InitEstablishes
  <1>2. IInv /\ [Next]_vars => IInv'
    BY NextPreserves
  <1> QED
    BY <1>1, <1>2, PTL DEF Spec

(* No overflow check of the layout, of the coordinates or of the execution *)
(* is ever too strict or too lenient.                                      *)
THEOREM ArithmeticIsExact == Spec => []FrameArithmeticIsExact
  <1>1. IInv => FrameArithmeticIsExact
    BY ArithmeticExact DEF IInv, TypeOK
  <1> QED
    BY <1>1, InductiveInvariant, PTL

(* Between entry and exit every slot is within the stack the frame has     *)
(* reserved, at any growth, anchor and chunk size, and no two overlap.     *)
THEOREM SlotsAreReserved == Spec => []SlotsInReservedStack
  <1>1. ASSUME IInv
        PROVE  SlotsInReservedStack
    <2>1. /\ frame \in Frames /\ frame.growth \in {"lower", "higher"}
          /\ frame.slot_size \in Nat /\ frame.anchor \in Nat
          /\ entry_pointer \in Int /\ frame_size \in Nat /\ cursor \in Nat
          /\ \A k \in DOMAIN offsets : offsets[k] \in Nat
      <3>1. TypeOK
        BY <1>1 DEF IInv
      <3>2. frame \in Frames /\ offsets \in Seq(0 .. SizeMax)
        BY <3>1 DEF TypeOK
      <3>3. \A k \in DOMAIN offsets : offsets[k] \in Nat
        BY <3>2, WordTypes
      <3> QED
        BY <3>2, <3>3, <3>1, WordTypes, FrameTypes DEF TypeOK
    <2>3. ASSUME after_entry # << >>, NEW k \in DOMAIN displacements
          PROVE  LET address == after_entry[2] + displacements[k]
                     lowest  == IF frame.growth = "lower" THEN after_entry[1]
                                ELSE entry_pointer
                     end     == IF frame.growth = "lower" THEN entry_pointer
                                ELSE after_entry[1]
                 IN  lowest <= address /\ address + frame.slot_size <= end
      <3>1. /\ after_entry[1] = Moved(frame_size)
            /\ after_entry[2] = Moved(frame_size) + setup.from_adjusted
            /\ setup = SetupOf(frame_size, frame.anchor)
        BY <1>1, <2>3 DEF IInv, StackMoved, CoordinatesKnown, Planned, Entered
      <3>2. /\ k \in DOMAIN offsets
            /\ displacements[k] = offsets[k] - frame.anchor
            /\ offsets[k] \in Nat /\ offsets[k] + frame.slot_size <= frame_size
        <4>2. k \in DOMAIN offsets
          BY <2>3, <1>1 DEF IInv, TypeOK, SlotsLaidOut
        <4> QED
          BY <2>1, <4>2, <1>1, <2>3 DEF IInv, SlotsLaidOut, Sized, Entered
      <3>3. CASE frame.growth = "lower"
        BY <3>1, <3>3, <2>1, <3>2 DEF Moved, SetupOf
      <3>4. CASE frame.growth = "higher"
        BY <3>1, <3>4, <2>1, <3>2 DEF Moved, SetupOf
      <3> QED
        BY <2>1, <3>3, <3>4
    <2> QED
      BY <1>1, <2>1, <2>3 DEF SlotsInReservedStack, IInv, SlotsLaidOut, Sized,
         SlotsDisjoint
  <1> QED
    BY <1>1, InductiveInvariant, PTL
-----------------------------------------------------------------------------
(* Induction, from the well-founded order of the natural numbers: a set of *)
(* natural numbers that is not empty has a least one, and one that holds   *)
(* zero and the successors of its members holds all.                       *)
LEMMA LeastNatural ==
    ASSUME NEW S, S \subseteq Nat, S # {}
    PROVE  \E x \in S : \A y \in S : x <= y
  <1> DEFINE R == OpToRel(<, Nat)
  <1>1. IsWellFoundedOn(R, Nat)
    BY NatLessThanWellFounded
  <1>2. \A x, y \in S : <<y, x>> \in R <=> y < x
    BY DEF OpToRel
  <1> HIDE DEF R
  <1>3. PICK x \in S : \A y \in S : <<y, x>> \notin R
    BY <1>1, WFMin
  <1>4. ASSUME NEW y \in S PROVE x <= y
    <2>1. ~(y < x) /\ x \in Nat /\ y \in Nat
      BY <1>2, <1>3
    <2> QED
      BY <2>1
  <1> QED
    BY <1>4

(* A set of naturals that holds zero and every successor holds them all. *)
LEMMA InductiveSet ==
    ASSUME NEW S, 0 \in S, \A n \in Nat : n \in S => n + 1 \in S
    PROVE  Nat \subseteq S
  <1> DEFINE T == Nat \ S
  <1>1. SUFFICES ASSUME T # {} PROVE FALSE
    OBVIOUS
  <1>2. PICK m \in T : \A y \in T : m <= y
    BY <1>1, LeastNatural
  <1> QED
    BY <1>2

(* The bytes a sequence moves are known from the totals of its prefixes.   *)
LEMMA RunningTotal ==
    ASSUME NEW s, NEW n \in Nat, n = Len(s), NEW W \in [0 .. n -> Int], W[0] = 0,
           \A k \in 1 .. n : W[k] = IF s[k].opcode = FrameBase THEN W[k - 1]
                                     ELSE W[k - 1] + s[k].operands[2]
    PROVE  ByteCount(s) = W[n]
  <1> DEFINE Body(f) == [ k \in 0 .. n |->
                            IF k = 0 THEN 0
                            ELSE IF s[k].opcode = FrameBase THEN f[k - 1]
                            ELSE f[k - 1] + s[k].operands[2] ]
             T == CHOOSE f : f = Body(f)
  <1>1. ByteCount(s) = T[n]
    BY DEF ByteCount
  <1>2. T = Body(T)
    <2> HIDE DEF Body
    <2> QED
      OBVIOUS
  <1> HIDE DEF T
  <1> DEFINE S == { k \in Nat : k <= n => T[k] = W[k] }
  <1>3. 0 \in S
    BY <1>2
  <1>4. ASSUME NEW k \in Nat, k \in S
        PROVE  k + 1 \in S
    <2> SUFFICES ASSUME k + 1 <= n PROVE T[k + 1] = W[k + 1]
      OBVIOUS
    <2>1. /\ T[k + 1] = IF s[k + 1].opcode = FrameBase THEN T[k]
                        ELSE T[k] + s[k + 1].operands[2]
          /\ W[k + 1] = IF s[k + 1].opcode = FrameBase THEN W[k]
                        ELSE W[k] + s[k + 1].operands[2]
      <3>2. T[k + 1] = Body(T)[k + 1] /\ W[k + 1] = Body(W)[k + 1]
        BY <1>2
      <3> QED
        BY <3>2
    <2> QED
      BY <2>1, <1>4
  <1>5. n \in S
    <2> HIDE DEF S
    <2> QED
      BY <1>3, <1>4, InductiveSet
  <1> QED
    BY <1>1, <1>5

(* As many chunks as it takes: the quotient rounded up.                    *)
LEMMA RoundedUpQuotient ==
    ASSUME NEW v \in 0 .. SizeMax, NEW c \in 0 .. SizeMax, c > 0,
           NEW q \in Nat, NEW r \in 1 .. c, v = q * c + r
    PROVE  (v + c - 1) \div c = q + 1
  <1>1. c \in Int /\ v \in Int /\ r \in Int /\ c > 0 /\ r - 1 \in 0 .. c - 1
    BY WordTypes
  <1> DEFINE w == v + c - 1
             d == w \div c
  <1>3. w \in Int /\ d \in Int /\ d * c <= w /\ w < d * c + c
    BY <1>1
  <1>4. (q + 1) * c <= w /\ w < (q + 1) * c + c /\ (q + 1) * c \in Int
    BY <1>1, NextMultiple
  <1> HIDE DEF w, d
  <1>5. ~(d < q + 1)
    <2> SUFFICES ASSUME d + 1 <= q + 1 PROVE FALSE
      BY <1>3
    <2> QED
      BY <1>1, <1>3, <1>4
  <1>6. ~(d > q + 1)
    <2> SUFFICES ASSUME d >= q + 2 PROVE FALSE
      BY <1>3
    <2> QED
      BY <1>1, <1>3, <1>4
  <1> QED
    BY <1>3, <1>5, <1>6 DEF d, w

(* The opcodes and counts of the instructions.                             *)
LEMMA Operands ==
    /\ \A b : /\ Adjustment(EntryOpcode, b).opcode # FrameBase
              /\ Adjustment(ExitOpcode, b).opcode # FrameBase
              /\ Adjustment(EntryOpcode, b).operands[2] = b
              /\ Adjustment(ExitOpcode, b).operands[2] = b
    /\ Materialization.opcode = FrameBase
  BY DEF Adjustment, EntryOpcode, ExitOpcode, Materialization, Decrement, Increment, FrameBase

(* The complete entry moves the stack pointer by the size of the frame, in *)
(* as few instructions as that takes.                                      *)
LEMMA EntryCovers ==
    ASSUME frame \in Frames, frame_size \in 0 .. SizeMax, entry \in Seq(Instruction),
           EntryComplete
    PROVE  /\ ByteCount(entry) = frame_size
           /\ Len(entry) = (IF frame_size = 0 THEN 1
                            ELSE (frame_size + frame.maximum_chunk - 1)
                                     \div frame.maximum_chunk) + 1
           /\ \A i \in DOMAIN entry :
                  entry[i].opcode # FrameBase =>
                      /\ entry[i].operands[2] <= frame.maximum_chunk
                      /\ entry[i].operands[2] = 0 => frame_size = 0
  <1> DEFINE c == frame.maximum_chunk
             n == Len(entry)
             W == [ k \in 0 .. n |-> IF k <= n - 2 THEN k * c ELSE frame_size ]
  <1>1. /\ c \in 0 .. SizeMax /\ c > 0 /\ c \in Int /\ frame_size \in Nat
        /\ n \in Nat /\ n >= 2 /\ DOMAIN entry = 1 .. n
        /\ LastEntry \in 0 .. c /\ (frame_size > 0 => LastEntry > 0)
        /\ LastEntry = frame_size - (n - 2) * c
        /\ (n - 2) * c \in Int
        /\ \A i \in 1 .. n - 2 : entry[i] = Adjustment(EntryOpcode, c)
        /\ entry[n - 1] = Adjustment(EntryOpcode, LastEntry)
        /\ entry[n] = Materialization
    <2>1. c \in 0 .. SizeMax /\ c \in Int /\ frame_size \in Nat
      BY FrameTypes, WordTypes
    <2> QED
      BY <2>1 DEF EntryComplete, LastEntry
  <1>2. W \in [0 .. n -> Int] /\ W[0] = 0
    BY <1>1
  <1>3. ASSUME NEW k \in 1 .. n
        PROVE  W[k] = IF entry[k].opcode = FrameBase THEN W[k - 1]
                      ELSE W[k - 1] + entry[k].operands[2]
    <2>1. CASE k \in 1 .. n - 2
      <3>1. entry[k].opcode # FrameBase /\ entry[k].operands[2] = c
        BY <1>1, <2>1, Operands
      <3>2. W[k] = k * c /\ W[k - 1] = (k - 1) * c /\ k # 0
        <4> HIDE DEF c, n
        <4> QED
          BY <1>1, <2>1
      <3>3. k * c = (k - 1) * c + c
        BY <1>1, <2>1, NextMultiple, SMTT(30)
      <3> QED
        BY <3>1, <3>2, <3>3
    <2>2. CASE k = n - 1
      <3>1. entry[k].opcode # FrameBase /\ entry[k].operands[2] = LastEntry
        BY <1>1, <2>2, Operands
      <3>2. W[k] = frame_size /\ W[k - 1] = (n - 2) * c /\ k # 0
        <4>1. k \in 0 .. n /\ k > n - 2 /\ k - 1 = n - 2 /\ n - 2 \in 0 .. n /\ k # 0
              /\ n \in Int
          BY <1>1, <2>2, SMTT(30)
        <4> QED
          BY <4>1
      <3> QED
        BY <1>1, <3>1, <3>2, SMTT(30)
    <2>3. CASE k = n
      BY <1>1, <2>3, Operands
    <2>4. k \in 1 .. n - 2 \/ k = n - 1 \/ k = n
      <3> HIDE DEF n
      <3> QED
        BY <1>1
    <2> HIDE DEF W, n
    <2> QED
      BY <2>1, <2>2, <2>3, <2>4
  <1>4. ByteCount(entry) = frame_size
    <2>1. ByteCount(entry) = W[n]
      <3>1. n \in Nat /\ n = Len(entry)
        BY <1>1
      <3> HIDE DEF W, n
      <3> QED
        BY <1>2, <1>3, <3>1, RunningTotal
    <2> QED
      BY <1>1, <2>1
  <1>5. CASE frame_size = 0
    <2>1. n = 2
      <3> SUFFICES ASSUME n - 2 >= 1 PROVE FALSE
        BY <1>1
      <3> QED
        BY <1>1, <1>5
    <2> QED
      BY <1>1, <1>4, <1>5, <2>1, Operands
  <1>6. CASE frame_size # 0
    <2>1. (frame_size + c - 1) \div c = (n - 2) + 1
      <3>1. /\ n - 2 \in Nat /\ LastEntry \in 1 .. c
            /\ frame_size = (n - 2) * c + LastEntry
        BY <1>1, <1>6
      <3> QED
        BY <1>1, <3>1, RoundedUpQuotient, ZenonT(60)
    <2>2. ASSUME NEW i \in DOMAIN entry, entry[i].opcode # FrameBase
          PROVE  entry[i].operands[2] \in {c, LastEntry}
      <3>1. CASE i \in 1 .. n - 2
        BY <1>1, <3>1, Operands
      <3>2. CASE i = n - 1
        BY <1>1, <3>2, Operands
      <3>3. CASE i = n
        BY <1>1, <2>2, <3>3, Operands
      <3> QED
        BY <1>1, <3>1, <3>2, <3>3
    <2>3. \A b \in {c, LastEntry} : b <= c /\ (b = 0 => frame_size = 0)
      BY <1>1, <1>6
    <2>4. n = (frame_size + c - 1) \div c + 1
      BY <1>1, <2>1, SMTT(30)
    <2> QED
      BY <1>4, <1>6, <2>2, <2>3, <2>4
  <1> QED
    BY <1>5, <1>6

(* So does the complete exit. *)
LEMMA ExitCovers ==
    ASSUME frame \in Frames, frame_size \in 0 .. SizeMax, exit \in Seq(Instruction),
           frame.maximum_chunk > 0, ExitBegun, exit # << >>, remaining = 0
    PROVE  /\ ByteCount(exit) = frame_size
           /\ Len(exit) = (IF frame_size = 0 THEN 1
                           ELSE (frame_size + frame.maximum_chunk - 1)
                                    \div frame.maximum_chunk)
           /\ \A i \in DOMAIN exit :
                  /\ exit[i].operands[2] <= frame.maximum_chunk
                  /\ exit[i].operands[2] = 0 => frame_size = 0
  <1> DEFINE c == frame.maximum_chunk
             m == Len(exit)
             W == [ k \in 0 .. m |-> IF k = 0 THEN 0 ELSE FirstExit + (k - 1) * c ]
  <1>1. /\ c \in 0 .. SizeMax /\ c > 0 /\ c \in Int /\ frame_size \in Nat
        /\ m \in Nat /\ m >= 1 /\ DOMAIN exit = 1 .. m
        /\ FirstExit \in 0 .. c /\ (frame_size > 0 => FirstExit > 0)
        /\ FirstExit = frame_size - (m - 1) * c
        /\ (m - 1) * c \in Int
        /\ exit[1] = Adjustment(ExitOpcode, FirstExit)
        /\ \A i \in 2 .. m : exit[i] = Adjustment(ExitOpcode, c)
    <2>1. m \in Nat /\ m >= 1 /\ DOMAIN exit = 1 .. m
      OBVIOUS
    <2>2. c \in 0 .. SizeMax /\ c > 0 /\ c \in Int /\ frame_size \in Nat
      BY FrameTypes, WordTypes
    <2> QED
      BY <2>1, <2>2 DEF ExitBegun, FirstExit
  <1>2. W \in [0 .. m -> Int] /\ W[0] = 0
    BY <1>1
  <1>3. ASSUME NEW k \in 1 .. m
        PROVE  W[k] = IF exit[k].opcode = FrameBase THEN W[k - 1]
                      ELSE W[k - 1] + exit[k].operands[2]
    <2>1. CASE k = 1
      BY <1>1, <2>1, Operands
    <2>2. CASE k \in 2 .. m
      <3>1. exit[k].opcode # FrameBase /\ exit[k].operands[2] = c
        BY <1>1, <2>2, Operands
      <3>2. W[k] = FirstExit + (k - 1) * c /\ W[k - 1] = FirstExit + (k - 2) * c /\ k # 0
        <4> HIDE DEF c, m
        <4> QED
          BY <1>1, <2>2
      <3>3. (k - 1) * c = (k - 2) * c + c /\ (k - 2) * c \in Int
        BY <2>2, <1>1, NextMultiple
      <3> QED
        BY <1>1, <3>1, <3>2, <3>3, SMTT(30)
    <2> QED
      BY <1>1, <2>1, <2>2
  <1>4. ByteCount(exit) = frame_size
    <2>1. ByteCount(exit) = W[m]
      <3>1. m \in Nat /\ m = Len(exit)
        BY <1>1
      <3> HIDE DEF W, m
      <3> QED
        BY <1>2, <1>3, <3>1, RunningTotal
    <2> QED
      BY <1>1, <2>1
  <1>5. ASSUME NEW i \in DOMAIN exit
        PROVE  exit[i].operands[2] \in {c, FirstExit}
    BY <1>1, Operands
  <1>6. \A b \in {c, FirstExit} : b <= c /\ (b = 0 => frame_size = 0)
    BY <1>1
  <1>7. CASE frame_size = 0
    <2>1. m = 1
      <3> SUFFICES ASSUME m - 1 >= 1 PROVE FALSE
        BY <1>1
      <3> QED
        BY <1>1, <1>7
    <2> QED
      BY <1>4, <1>5, <1>6, <1>7, <2>1
  <1>8. CASE frame_size # 0
    <2>1. (frame_size + c - 1) \div c = (m - 1) + 1
      <3>1. /\ m - 1 \in Nat /\ FirstExit \in 1 .. c
            /\ frame_size = (m - 1) * c + FirstExit
        BY <1>1, <1>8
      <3> QED
        BY <1>1, <3>1, RoundedUpQuotient, ZenonT(60)
    <2>2. m = (frame_size + c - 1) \div c
      BY <1>1, <2>1
    <2> QED
      BY <1>4, <1>5, <1>6, <1>8, <2>2
  <1> QED
    BY <1>7, <1>8

(* Both sequences move the stack pointer by exactly the frame, in as few   *)
(* instructions as the largest immediate allows.                           *)
THEOREM ChunksAreLegal == Spec => []ChunksLegal
  <1>1. ASSUME IInv
        PROVE  ChunksLegal
    <2> SUFFICES ASSUME phase \in {"encoded", "executing", "returned"}
                 PROVE  ChunksLegal
      BY DEF ChunksLegal
    <2>1. /\ frame \in Frames /\ frame_size \in 0 .. SizeMax
          /\ entry \in Seq(Instruction) /\ exit \in Seq(Instruction)
      BY <1>1 DEF IInv, TypeOK
    <2>2. /\ EntryComplete /\ ExitBegun /\ exit # << >> /\ remaining = 0
      BY <1>1 DEF IInv, ChunksEmitted, Legal, Running
    <2>4. \A i \in ToSet(entry \o exit) :
              (\E k \in DOMAIN entry : i = entry[k]) \/ (\E k \in DOMAIN exit : i = exit[k])
      BY <2>1 DEF ToSet
    <2> QED
      BY <2>1, <2>2, <2>4, EntryCovers, ExitCovers DEF ChunksLegal, EntryComplete
  <1> QED
    BY <1>1, InductiveInvariant, PTL
-----------------------------------------------------------------------------
(* What a loop computes: from a first value, one step after the other.     *)
LEMMA Recursion ==
    ASSUME NEW V, NEW b \in V, NEW n \in Nat, NEW step \in [1 .. n -> [V -> V]]
    PROVE  \E g \in [0 .. n -> V] :
               g[0] = b /\ \A k \in 1 .. n : g[k] = step[k][g[k - 1]]
  <1> DEFINE Good(m, g) == /\ g \in [0 .. m -> V] /\ g[0] = b
                           /\ \A k \in 1 .. m : g[k] = step[k][g[k - 1]]
             S == { m \in Nat : m <= n => \E g : Good(m, g) }
  <1>1. 0 \in S
    <2>1. Good(0, [ k \in 0 .. 0 |-> b ])
      OBVIOUS
    <2> QED
      BY <2>1
  <1>2. ASSUME NEW m \in Nat, m \in S
        PROVE  m + 1 \in S
    <2> SUFFICES ASSUME m + 1 <= n PROVE \E h : Good(m + 1, h)
      OBVIOUS
    <2>1. PICK g : Good(m, g)
      BY <1>2
    <2> DEFINE v == step[m + 1][g[m]]
               h == [ k \in 0 .. m + 1 |-> IF k = m + 1 THEN v ELSE g[k] ]
    <2>2. g \in [0 .. m -> V] /\ g[m] \in V
      BY <2>1
    <2>4. v \in V
      BY <2>2
    <2> HIDE DEF v
    <2>5. h \in [0 .. m + 1 -> V] /\ h[0] = b
      BY <2>1, <2>2, <2>4
    <2>6. ASSUME NEW k \in 1 .. m + 1
          PROVE  h[k] = step[k][h[k - 1]]
      BY <2>1 DEF v
    <2> HIDE DEF h
    <2>7. Good(m + 1, h)
      BY <2>5, <2>6
    <2> HIDE DEF Good
    <2> QED
      BY <2>7
  <1>3. n \in S
    <2> HIDE DEF S
    <2> QED
      BY <1>1, <1>2, InductiveSet
  <1>4. PICK g : Good(n, g)
    BY <1>3
  <1> QED
    BY <1>4

(* The weights of the bytes of a word are the powers of ByteBase.          *)
LEMMA WeightFacts ==
    /\ Weight[0] = 1
    /\ \A k \in 1 .. WordBytes : Weight[k] = ByteBase * Weight[k - 1]
    /\ \A k \in 0 .. WordBytes : Weight[k] \in Nat \ {0}
    /\ WordModulus \in Nat /\ WordModulus >= 4
  <1> DEFINE n == WordBytes
             Steps(f) == [ k \in 0 .. n |-> IF k = 0 THEN 1 ELSE ByteBase * f[k - 1] ]
             step == [ k \in 1 .. n |-> [ v \in Nat |-> ByteBase * v ] ]
  <1>1. n \in Nat /\ n > 0 /\ ByteBase \in Nat /\ ByteBase >= 4
    BY WordAssumption
  <1>2. \E f : f = Steps(f)
    <2>1. step \in [1 .. n -> [Nat -> Nat]]
      <3> HIDE DEF n
      <3> QED
        BY <1>1
    <2>2. PICK g \in [0 .. n -> Nat] : g[0] = 1 /\ \A k \in 1 .. n : g[k] = step[k][g[k - 1]]
      <3> DEFINE V == Nat
                 b == 1
      <3>1. step \in [1 .. n -> [V -> V]] /\ b \in V /\ n \in Nat
        BY <1>1, <2>1
      <3> HIDE DEF step, n, V, b
      <3>2. \E g \in [0 .. n -> V] : g[0] = b /\ \A k \in 1 .. n : g[k] = step[k][g[k - 1]]
        BY <3>1, Recursion
      <3> QED
        BY <3>2 DEF V, b
    <2>3. \A k \in 0 .. n : g[k] = IF k = 0 THEN 1 ELSE ByteBase * g[k - 1]
      <3> SUFFICES ASSUME NEW k \in 1 .. n PROVE g[k] = ByteBase * g[k - 1]
        BY <2>2
      <3>2. g[k - 1] \in Nat
        BY <1>1
      <3> QED
        BY <2>2, <3>2
    <2>5. g = Steps(g)
      BY <2>3
    <2> HIDE DEF Steps
    <2> QED
      BY <2>5
  <1>3. Weight = CHOOSE f : f = Steps(f)
    BY DEF Weight
  <1>4. Weight = Steps(Weight)
    <2> HIDE DEF Steps
    <2> QED
      BY <1>2, <1>3
  <1>5. Weight[0] = 1
    BY <1>1, <1>4
  <1>6. ASSUME NEW k \in 1 .. n
        PROVE  Weight[k] = ByteBase * Weight[k - 1]
    BY <1>1, <1>4
  <1> DEFINE S == { k \in Nat : k <= n => Weight[k] \in Nat \ {0}
                                          /\ (k > 0 => Weight[k] >= 4) }
  <1>7. 0 \in S
    BY <1>5
  <1>8. ASSUME NEW k \in Nat, k \in S
        PROVE  k + 1 \in S
    <2> SUFFICES ASSUME k + 1 <= n PROVE Weight[k + 1] \in Nat \ {0} /\ Weight[k + 1] >= 4
      OBVIOUS
    <2> QED
      BY <1>1, <1>8, <1>6
  <1>9. Nat \subseteq S
    <2> HIDE DEF S
    <2> QED
      BY <1>7, <1>8, InductiveSet
  <1> QED
    BY <1>5, <1>6, <1>9, <1>1 DEF WordModulus

(* One more digit of a number in some base.                                *)
LEMMA DivisionIsUnique ==
    ASSUME NEW c \in Nat \ {0}, NEW q \in Nat, NEW r \in Nat, r < c
    PROVE  (c * q + r) % c = r /\ (c * q + r) \div c = q
  <1> DEFINE v == c * q + r
             Q == v \div c
             R == v % c
  <1>1. c * q \in Nat /\ v \in Nat
    OBVIOUS
  <1>2. R \in 0 .. c - 1 /\ v = c * Q + R /\ Q \in Nat
    <2> HIDE DEF v
    <2> QED
      BY <1>1
  <1> HIDE DEF Q, R
  <1> QED
    BY <1>2, <1>1 DEF Q, R

(* The remainder by a longer weight is the remainder by the shorter one    *)
(* and one more digit.                                                     *)
LEMMA NextDigit ==
    ASSUME NEW m \in Nat, NEW w \in Nat \ {0}, NEW c \in Nat \ {0}
    PROVE  m % (c * w) = (m % w) + ((m \div w) % c) * w
  <1> DEFINE q == m \div w
             r == m % w
             u == q \div c
             d == q % c
  <1>1. r \in 0 .. w - 1 /\ m = w * q + r /\ q \in Nat
    OBVIOUS
  <1>2. d \in 0 .. c - 1 /\ q = c * u + d /\ u \in Nat
    <2> HIDE DEF q
    <2> QED
      BY <1>1
  <1> HIDE DEF q, r, u, d
  <1>3. c * w \in Nat \ {0} /\ w * d \in Nat /\ c * u \in Nat /\ (c * w) * u \in Nat
    BY <1>2
  <1>4. m = (c * w) * u + (w * d + r)
    BY <1>2, <1>3, <1>1
  <1>5. w * d + r \in Nat /\ w * d + r < c * w
    BY <1>2, <1>1, <1>3
  <1>6. m % (c * w) = w * d + r
    <2> DEFINE x == c * w
               y == w * d + r
    <2> HIDE DEF x, y
    <2> QED
      BY <1>2, <1>3, <1>4, <1>5, DivisionIsUnique DEF x, y
  <1> QED
    BY <1>6, <1>1, <1>2 DEF q, r, d

(* A word is encoded in WordBytes bytes.                                   *)
LEMMA EncodedWord ==
    ASSUME NEW n \in Int
    PROVE  /\ EncodeWord(n) \in Seq(Byte)
           /\ Len(EncodeWord(n)) = WordBytes
           /\ n % WordModulus \in Nat
           /\ n % WordModulus < WordModulus
           /\ \A i \in 1 .. WordBytes :
                  EncodeWord(n)[i] = ((n % WordModulus) \div Weight[i - 1]) % ByteBase
  <1> DEFINE m == n % WordModulus
  <1>1. m \in Nat /\ m < WordModulus
    BY WeightFacts
  <1>2. WordBytes \in Nat /\ ByteBase \in Nat /\ ByteBase > 0
    BY WordAssumption
  <1> HIDE DEF m
  <1>3. \A i \in 1 .. WordBytes : (m \div Weight[i - 1]) % ByteBase \in Byte
    <2> SUFFICES ASSUME NEW i \in 1 .. WordBytes
                 PROVE  (m \div Weight[i - 1]) % ByteBase \in Byte
      OBVIOUS
    <2> DEFINE q == m \div Weight[i - 1]
    <2> HIDE DEF q
    <2> QED
      BY <1>2, <1>1, WeightFacts DEF q, Byte
  <1> QED
    BY <1>1, <1>2, <1>3 DEF m, EncodeWord

(* Numbers can be added up.                                                *)
LEMMA SumsExist ==
    ASSUME NEW n \in Nat, NEW d, \A k \in 1 .. n : d[k] \in Nat
    PROVE  \E g \in [0 .. n -> Nat] : g[0] = 0 /\ \A k \in 1 .. n : g[k] = g[k - 1] + d[k]
  <1> DEFINE V == Nat
             b == 0
             step == [ k \in 1 .. n |-> [ v \in V |-> v + d[k] ] ]
  <1>1. step \in [1 .. n -> [V -> V]] /\ b \in V
    OBVIOUS
  <1>2. PICK g \in [0 .. n -> V] : g[0] = b /\ \A k \in 1 .. n : g[k] = step[k][g[k - 1]]
    <2> HIDE DEF step, V, b
    <2> QED
      BY <1>1, Recursion
  <1>3. \A k \in 1 .. n : g[k] = g[k - 1] + d[k]
    <2> SUFFICES ASSUME NEW k \in 1 .. n PROVE g[k] = g[k - 1] + d[k]
      OBVIOUS
    <2>1. g[k - 1] \in V
      OBVIOUS
    <2> QED
      BY <1>2, <2>1
  <1> QED
    BY <1>2, <1>3

(* The loop that reads a word, as a function of the bytes it has read.     *)
LEMMA WordIsRead ==
    ASSUME NEW p \in Seq(Byte), NEW o \in Nat, o + WordBytes <= Len(p)
    PROVE  \E g \in [0 .. WordBytes -> Nat] :
               /\ WordAt(p, o) = g[WordBytes]
               /\ g[0] = 0
               /\ \A i \in 1 .. WordBytes : g[i] = g[i - 1] + p[o + i] * Weight[i - 1]
  <1> DEFINE n == WordBytes
             Steps(f) == [ i \in 0 .. n |-> IF i = 0 THEN 0
                                            ELSE f[i - 1] + p[o + i] * Weight[i - 1] ]
             d == [ i \in 1 .. n |-> p[o + i] * Weight[i - 1] ]
             Value == CHOOSE f : f = Steps(f)
  <1>1. n \in Nat /\ Len(p) \in Nat
    BY WordAssumption
  <1>2. \A i \in 1 .. n : p[o + i] * Weight[i - 1] \in Nat
    <2> SUFFICES ASSUME NEW i \in 1 .. n PROVE p[o + i] * Weight[i - 1] \in Nat
      OBVIOUS
    <2> QED
      BY <1>1, WordAssumption, WeightFacts, SMTT(30) DEF Byte
  <1>3. \A i \in 1 .. n : d[i] \in Nat
    <2> HIDE DEF n
    <2> QED
      BY <1>2
  <1>4. PICK g \in [0 .. n -> Nat] : g[0] = 0 /\ \A k \in 1 .. n : g[k] = g[k - 1] + d[k]
    <2> HIDE DEF d, n, Steps, Value
    <2> QED
      BY <1>3, <1>1, SumsExist
  <1>5. \A i \in 1 .. n : g[i] = g[i - 1] + p[o + i] * Weight[i - 1]
    BY <1>4
  <1>6. Value = Steps(Value)
    <2> HIDE DEF Steps
    <2> QED
      BY <1>4, <1>5
  <1>7. Value[0] = 0
    <2> HIDE DEF Value
    <2> QED
      BY <1>1, <1>6
  <1>8. \A i \in 1 .. n : Value[i] = Value[i - 1] + p[o + i] * Weight[i - 1]
    <2> SUFFICES ASSUME NEW i \in 1 .. n
                 PROVE  Value[i] = Value[i - 1] + p[o + i] * Weight[i - 1]
      OBVIOUS
    <2> HIDE DEF Value
    <2> QED
      BY <1>1, <1>6
  <1>9. Value \in [0 .. n -> Nat]
    <2> DEFINE S == { i \in Nat : i <= n => Value[i] \in Nat }
    <2>1. 0 \in S
      BY <1>7
    <2>2. ASSUME NEW i \in Nat, i \in S PROVE i + 1 \in S
      <3> SUFFICES ASSUME i + 1 <= n PROVE Value[i + 1] \in Nat
        OBVIOUS
      <3>1. i + 1 \in 1 .. n /\ (i + 1) - 1 = i /\ i <= n
        BY <1>1
      <3> HIDE DEF Value, n
      <3> QED
        BY <1>2, <3>1, <2>2, <1>8
    <2>3. Nat \subseteq S
      <3> HIDE DEF S
      <3> QED
        BY <2>1, <2>2, InductiveSet
    <2>4. Value = [ i \in 0 .. n |-> Value[i] ]
      <3> HIDE DEF Steps, Value
      <3> QED
        BY <1>6 DEF Steps
    <2>5. \A i \in 0 .. n : Value[i] \in Nat
      <3> HIDE DEF Value, n
      <3> QED
        BY <2>3, <1>1
    <2> HIDE DEF Value
    <2> QED
      BY <2>4, <2>5
  <1>10. WordAt(p, o) = Value[n]
    BY DEF WordAt
  <1> HIDE DEF Value
  <1> QED
    BY <1>7, <1>8, <1>9, <1>10

(* Reading gives back the word that was written.                           *)
LEMMA WordReadBack ==
    ASSUME NEW p \in Seq(Byte), NEW o \in Nat, o + WordBytes <= Len(p), NEW n \in Int,
           \A i \in 1 .. WordBytes : p[o + i] = EncodeWord(n)[i]
    PROVE  WordAt(p, o) = n % WordModulus
  <1>1. PICK g \in [0 .. WordBytes -> Nat] :
            /\ WordAt(p, o) = g[WordBytes]
            /\ g[0] = 0
            /\ \A i \in 1 .. WordBytes : g[i] = g[i - 1] + p[o + i] * Weight[i - 1]
    BY WordIsRead
  <1> DEFINE m == n % WordModulus
  <1>2. m \in Nat /\ m < WordModulus
        /\ \A i \in 1 .. WordBytes : EncodeWord(n)[i] = (m \div Weight[i - 1]) % ByteBase
    BY EncodedWord
  <1>3. WordBytes \in Nat /\ WordBytes > 0 /\ ByteBase \in Nat \ {0}
    BY WordAssumption
  <1> HIDE DEF m
  <1> DEFINE S == { i \in Nat : i <= WordBytes => g[i] = m % Weight[i] }
  <1>4. 0 \in S
    BY <1>2, <1>1, WeightFacts
  <1>5. ASSUME NEW i \in Nat, i \in S
        PROVE  i + 1 \in S
    <2> SUFFICES ASSUME i + 1 <= WordBytes PROVE g[i + 1] = m % Weight[i + 1]
      OBVIOUS
    <2>1. i + 1 \in 1 .. WordBytes /\ (i + 1) - 1 = i /\ i \in 0 .. WordBytes /\ i <= WordBytes
      BY <1>3
    <2> DEFINE j == i + 1
               w == Weight[i]
    <2>2. g[j] = g[i] + p[o + j] * w
      <3> HIDE DEF j
      <3> QED
        BY <1>1, <2>1 DEF j
    <2>3. p[o + j] = (m \div w) % ByteBase
      <3> HIDE DEF j
      <3> QED
        BY <1>2, <2>1 DEF j
    <2>4. g[i] = m % w
      BY <1>5, <2>1
    <2>5. w \in Nat \ {0} /\ Weight[j] = ByteBase * w
      <3> HIDE DEF j
      <3> QED
        BY <2>1, WeightFacts DEF j
    <2> HIDE DEF j, w
    <2>6. m % (ByteBase * w) = (m % w) + ((m \div w) % ByteBase) * w
      BY <1>2, <1>3, <2>5, NextDigit
    <2> QED
      BY <2>2, <2>3, <2>4, <2>5, <2>6 DEF j
  <1>6. Nat \subseteq S
    <2> HIDE DEF S
    <2> QED
      BY <1>4, <1>5, InductiveSet
  <1>8. m % WordModulus = m
    BY <1>2, WeightFacts
  <1> QED
    BY <1>1, <1>3, <1>6, <1>8 DEF m, WordModulus

(* A word depends on its bytes only, and is a natural number.              *)
LEMMA SameWord ==
    ASSUME NEW p \in Seq(Byte), NEW q \in Seq(Byte), NEW o \in Nat,
           o + WordBytes <= Len(p), o + WordBytes <= Len(q),
           \A i \in 1 .. WordBytes : p[o + i] = q[o + i]
    PROVE  WordAt(p, o) = WordAt(q, o) /\ WordAt(p, o) \in Nat
  <1>1. PICK g \in [0 .. WordBytes -> Nat] :
            /\ WordAt(p, o) = g[WordBytes]
            /\ g[0] = 0
            /\ \A i \in 1 .. WordBytes : g[i] = g[i - 1] + p[o + i] * Weight[i - 1]
    BY WordIsRead
  <1>2. PICK h \in [0 .. WordBytes -> Nat] :
            /\ WordAt(q, o) = h[WordBytes]
            /\ h[0] = 0
            /\ \A i \in 1 .. WordBytes : h[i] = h[i - 1] + q[o + i] * Weight[i - 1]
    BY WordIsRead
  <1>3. WordBytes \in Nat
    BY WordAssumption
  <1> DEFINE S == { i \in Nat : i <= WordBytes => g[i] = h[i] }
  <1>4. 0 \in S
    BY <1>1, <1>2
  <1>5. ASSUME NEW i \in Nat, i \in S
        PROVE  i + 1 \in S
    <2> SUFFICES ASSUME i + 1 <= WordBytes PROVE g[i + 1] = h[i + 1]
      OBVIOUS
    <2> DEFINE j == i + 1
    <2>1. j \in 1 .. WordBytes /\ j - 1 = i /\ g[i] = h[i]
      BY <1>3, <1>5
    <2> HIDE DEF j
    <2> QED
      BY <1>1, <1>2, <2>1 DEF j
  <1>6. Nat \subseteq S
    <2> HIDE DEF S
    <2> QED
      BY <1>4, <1>5, InductiveSet
  <1> QED
    BY <1>1, <1>2, <1>3, <1>6

(* Sizes and signed displacements survive in a word.                       *)
LEMMA NumbersFitWords ==
    /\ \A n \in 0 .. SizeMax : n \in Int /\ n % WordModulus = n
    /\ \A d \in Int64 : d \in Int /\ Signed(d % WordModulus) = d
  <1>1. WordModulus \in Nat /\ SizeMax < WordModulus
    BY WeightFacts, WordHoldsSize
  <1>2. ASSUME NEW n \in 0 .. SizeMax
        PROVE  n \in Int /\ n % WordModulus = n
    BY <1>1, WordTypes
  <1>3. ASSUME NEW d \in Int64
        PROVE  d \in Int /\ Signed(d % WordModulus) = d
    <2> DEFINE h == WordModulus \div 2
               r == WordModulus % 2
    <2>1. WordModulus = 2 * h + r /\ r \in 0 .. 1 /\ h \in Nat
      BY <1>1
    <2>2. d \in Int /\ -Int64Max - 1 <= d /\ d <= Int64Max /\ 2 * Int64Max + 1 < WordModulus
          /\ Int64Max \in Nat
      BY <1>1, WordTypes
    <2> HIDE DEF h, r
    <2>3. Int64Max <= h - 1
      BY <2>1, <2>2
    <2>4. CASE d >= 0
      BY <1>1, <2>2, <2>4, <2>1, <2>3 DEF h, Signed
    <2>5. CASE d < 0
      BY <1>1, <2>2, <2>5, <2>1, <2>3 DEF h, Signed
    <2> QED
      BY <2>2, <2>4, <2>5
  <1> QED
    BY <1>2, <1>3
-----------------------------------------------------------------------------
(* F[k] is the first k of n sequences, one after the other.                *)
Joins(T, n, s, F) ==
    /\ n \in Nat
    /\ \A k \in 1 .. n : s[k] \in Seq(T)
    /\ F \in [0 .. n -> Seq(T)]
    /\ F[0] = << >>
    /\ \A k \in 1 .. n : F[k] = F[k - 1] \o s[k]

(* The sequences of a sequence can be joined one after the other.          *)
LEMMA Concatenations ==
    ASSUME NEW T, NEW n \in Nat, NEW s, \A k \in 1 .. n : s[k] \in Seq(T)
    PROVE  \E F : Joins(T, n, s, F)
  <1> DEFINE V == Seq(T)
             b == << >>
             step == [ k \in 1 .. n |-> [ v \in V |-> v \o s[k] ] ]
  <1>1. b \in V
    OBVIOUS
  <1>2. \A k \in 1 .. n : \A v \in V : v \o s[k] \in V
    OBVIOUS
  <1>3. step \in [1 .. n -> [V -> V]]
    <2> HIDE DEF V
    <2> QED
      BY <1>2
  <1>4. PICK g \in [0 .. n -> V] : g[0] = b /\ \A k \in 1 .. n : g[k] = step[k][g[k - 1]]
    <2> HIDE DEF step, V, b
    <2> QED
      BY ONLY <1>1, <1>3, Recursion
  <1>5. \A k \in 1 .. n : g[k] = g[k - 1] \o s[k]
    <2> SUFFICES ASSUME NEW k \in 1 .. n PROVE g[k] = g[k - 1] \o s[k]
      OBVIOUS
    <2> HIDE DEF V
    <2>1. g[k - 1] \in V
      OBVIOUS
    <2> QED
      BY <1>4, <2>1
  <1>6. g \in [0 .. n -> Seq(T)] /\ g[0] = << >>
    BY <1>4
  <1> HIDE DEF step, V, b
  <1> QED
    BY <1>5, <1>6 DEF Joins

(* That is what flattening computes.                                       *)
LEMMA Flattened ==
    ASSUME NEW T, NEW s \in Seq(Seq(T)), NEW F, Joins(T, Len(s), s, F)
    PROVE  FlattenSeq(s) = F[Len(s)]
  <1> USE DEF Joins
  <1> DEFINE n == Len(s)
             Steps(f) == [ i \in 1 .. n |-> IF i = 1 THEN s[i] ELSE f[i - 1] \o s[i] ]
             G == [ i \in 1 .. n |-> F[i] ]
             H == CHOOSE f : f = Steps(f)
  <1>1. n \in Nat
    OBVIOUS
  <1>2. CASE n = 0
    <2>1. s = << >>
      BY <1>2
    <2> QED
      BY <1>2, <2>1 DEF FlattenSeq
  <1>3. CASE n # 0
    <2>1. \A i \in 1 .. n : G[i] = IF i = 1 THEN s[i] ELSE G[i - 1] \o s[i]
      <3> SUFFICES ASSUME NEW i \in 1 .. n
                   PROVE  G[i] = IF i = 1 THEN s[i] ELSE G[i - 1] \o s[i]
        OBVIOUS
      <3>1. G[i] = F[i] /\ F[i] = F[i - 1] \o s[i]
        OBVIOUS
      <3>2. CASE i = 1
        <4>1. s[i] \in Seq(T) /\ i - 1 = 0
          BY <3>2
        <4>2. << >> \o s[i] = s[i]
          BY <4>1
        <4> QED
          BY <3>1, <3>2, <4>1, <4>2
      <3>3. CASE i # 1
        <4>1. i - 1 \in 1 .. n
          BY <1>1, <3>3
        <4> QED
          BY <3>1, <3>3, <4>1
      <3> QED
        BY <3>2, <3>3
    <2>2. G = Steps(G)
      <3> HIDE DEF n
      <3> QED
        BY <2>1
    <2>3. H = Steps(H)
      <3> HIDE DEF Steps, G
      <3> QED
        BY <2>2
    <2> HIDE DEF H
    <2>4. \A i \in 1 .. n : H[i] = IF i = 1 THEN s[i] ELSE H[i - 1] \o s[i]
      <3> SUFFICES ASSUME NEW i \in 1 .. n
                   PROVE  H[i] = IF i = 1 THEN s[i] ELSE H[i - 1] \o s[i]
        OBVIOUS
      <3>1. H[i] = Steps(H)[i]
        BY <2>3
      <3> QED
        BY <3>1
    <2> DEFINE S == { i \in Nat : 1 <= i /\ i <= n => H[i] = F[i] }
    <2>5. 0 \in S
      OBVIOUS
    <2>6. ASSUME NEW i \in Nat, i \in S PROVE i + 1 \in S
      <3> SUFFICES ASSUME i + 1 <= n PROVE H[i + 1] = F[i + 1]
        OBVIOUS
      <3> DEFINE j == i + 1
      <3>1. j \in 1 .. n /\ j - 1 = i /\ (j # 1 => H[i] = F[i]) /\ (j = 1 => G[j] = s[j])
        BY <1>1, <2>1, <2>6
      <3> HIDE DEF j, n, G
      <3>2. G[j] = F[j]
        BY <3>1 DEF G
      <3>3. H[j] = F[j]
        <4>1. CASE j = 1
          BY <2>4, <3>1, <3>2, <4>1
        <4>2. CASE j # 1
          <5>1. H[j] = H[j - 1] \o s[j]
            BY <2>4, <3>1, <4>2
          <5>2. F[j] = F[j - 1] \o s[j]
            BY <3>1 DEF n
          <5> QED
            BY <3>1, <4>2, <5>1, <5>2
        <4> QED
          BY <4>1, <4>2
      <3> QED
        BY <3>3 DEF j
    <2>7. Nat \subseteq S
      <3> HIDE DEF S
      <3> QED
        BY <2>5, <2>6, InductiveSet
    <2>8. H[n] = F[n]
      <3> HIDE DEF n
      <3> QED
        BY <1>1, <1>3, <2>7
    <2>9. FlattenSeq(s) = H[n]
      BY <1>3 DEF FlattenSeq, H
    <2> QED
      BY <2>8, <2>9
  <1> QED
    BY <1>2, <1>3

(* Two sequences, one after the other.                                     *)
LEMMA Joined ==
    ASSUME NEW T, NEW a \in Seq(T), NEW b \in Seq(T), NEW c, c = a \o b
    PROVE  /\ c \in Seq(T) /\ Len(a) \in Nat /\ Len(b) \in Nat
           /\ Len(c) = Len(a) + Len(b)
           /\ \A i \in 1 .. Len(a) : c[i] = a[i]
           /\ \A i \in 1 .. Len(b) : c[Len(a) + i] = b[i]
  OBVIOUS

(* What is joined first stays at the front.                                *)
LEMMA FrontStays ==
    ASSUME NEW T, NEW n, NEW s, NEW F, Joins(T, n, s, F),
           NEW m \in 0 .. n, NEW k \in 0 .. m
    PROVE  Len(F[k]) <= Len(F[m]) /\ \A i \in 1 .. Len(F[k]) : F[m][i] = F[k][i]
  <1> USE DEF Joins
  <1> DEFINE Kept(j) == Len(F[k]) <= Len(F[j]) /\ \A i \in 1 .. Len(F[k]) : F[j][i] = F[k][i]
             S == { j \in Nat : k <= j /\ j <= n => Kept(j) }
  <1>1. k \in Nat /\ m \in Nat /\ k \in 0 .. n /\ k <= m /\ m <= n
    OBVIOUS
  <1>2. F[k] \in Seq(T) /\ Len(F[k]) \in Nat
    BY <1>1
  <1>3. Kept(k)
    BY <1>2
  <1>4. 0 \in S
    <2> HIDE DEF Kept
    <2> QED
      BY <1>3, <1>1
  <1>5. ASSUME NEW j \in Nat, j \in S PROVE j + 1 \in S
    <2> SUFFICES ASSUME k <= j + 1, j + 1 <= n PROVE Kept(j + 1)
      OBVIOUS
    <2> DEFINE h == j + 1
    <2>1. h \in 1 .. n /\ h - 1 = j /\ j \in 0 .. n /\ h \in Nat
      OBVIOUS
    <2>2. CASE k = h
      <3> HIDE DEF Kept, h
      <3> QED
        BY <1>3, <2>2 DEF h
    <2>3. CASE k # h
      <3>1. k <= j /\ j <= n
        BY <1>1, <2>1, <2>3
      <3>2. Kept(j)
        <4> HIDE DEF Kept
        <4> QED
          BY <1>5, <3>1
      <3> HIDE DEF h
      <3> DEFINE a == F[j]
                 b == s[h]
                 c == F[h]
                 x == F[k]
      <3>5. a \in Seq(T) /\ b \in Seq(T) /\ c = a \o b
        BY <2>1
      <3>6. Len(x) <= Len(a) /\ \A i \in 1 .. Len(x) : a[i] = x[i]
        BY <3>2
      <3> HIDE DEF a, b, c, x
      <3>7. /\ Len(a) \in Nat /\ Len(b) \in Nat /\ Len(c) = Len(a) + Len(b)
            /\ \A i \in 1 .. Len(a) : c[i] = a[i]
        BY <3>5, Joined
      <3>8. Len(x) <= Len(c) /\ \A i \in 1 .. Len(x) : c[i] = x[i]
        <4>1. Len(x) \in Nat
          BY <1>2 DEF x
        <4> QED
          BY <3>6, <3>7, <4>1
      <3> QED
        BY <3>8 DEF h, c, x
    <2> QED
      BY <2>2, <2>3
  <1>6. Nat \subseteq S
    <2> HIDE DEF S
    <2> QED
      BY <1>4, <1>5, InductiveSet
  <1>7. Kept(m)
    <2> HIDE DEF Kept
    <2> QED
      BY <1>1, <1>6
  <1> QED
    BY <1>7

(* How long what is joined is after each piece, and where the pieces are.  *)
LEMMA PieceInPlace ==
    ASSUME NEW T, NEW n, NEW s, NEW F, Joins(T, n, s, F),
           NEW k \in 1 .. n
    PROVE  /\ Len(F[k - 1]) \in Nat /\ Len(s[k]) \in Nat /\ Len(F[k]) \in Nat
           /\ Len(F[k]) <= Len(F[k - 1]) + Len(s[k])
           /\ Len(F[k]) >= Len(F[k - 1]) + Len(s[k])
           /\ Len(F[k]) <= Len(F[n])
  <1> DEFINE a == F[k - 1]
             b == s[k]
             c == F[k]
             x == F[n]
  <1>1. n \in Nat /\ k - 1 \in 0 .. n /\ n \in 0 .. n /\ k \in 0 .. n
    BY DEF Joins
  <1>2. a \in Seq(T) /\ b \in Seq(T) /\ c = a \o b
    BY <1>1 DEF Joins
  <1>3. Len(c) <= Len(x)
    <2> HIDE DEF a, b
    <2> QED
      BY <1>1, FrontStays
  <1> HIDE DEF a, b, c, x
  <1>4. Len(a) \in Nat /\ Len(b) \in Nat /\ Len(c) = Len(a) + Len(b)
    BY <1>2, Joined
  <1>5. Len(c) <= Len(a) + Len(b) /\ Len(c) >= Len(a) + Len(b) /\ Len(c) \in Nat
    BY <1>4
  <1> QED
    BY <1>3, <1>4, <1>5 DEF a, b, c, x

(* PieceInPlace, for a position computed elsewhere. *)
LEMMA PieceAt ==
    ASSUME NEW T, NEW n, NEW s, NEW F, Joins(T, n, s, F),
           NEW k \in 1 .. n, NEW j \in 1 .. Len(s[k]), NEW z, z = Len(F[k - 1]) + j
    PROVE  F[n][z] = s[k][j]
  <1> DEFINE a == F[k - 1]
             b == s[k]
             c == F[k]
             x == F[n]
  <1>1. n \in Nat /\ k - 1 \in 0 .. n /\ n \in 0 .. n /\ k \in 0 .. n
    BY DEF Joins
  <1>2. a \in Seq(T) /\ b \in Seq(T) /\ c = a \o b
    BY <1>1 DEF Joins
  <1>3. \A i \in 1 .. Len(c) : x[i] = c[i]
    <2> HIDE DEF a, b
    <2> QED
      BY <1>1, FrontStays
  <1> HIDE DEF a, b, c, x
  <1>5. j \in 1 .. Len(b) /\ z = Len(a) + j
    BY DEF a, b
  <1>7. x[z] = b[j]
    BY <1>3, <1>2, Joined, <1>5, SMTT(30)
  <1> QED
    BY <1>7 DEF b, x

(* How long it is when no piece is shorter than u.                         *)
LEMMA JoinedLength ==
    ASSUME NEW T, NEW n, NEW s, NEW F, Joins(T, n, s, F),
           NEW u \in Nat, \A k \in 1 .. n : Len(s[k]) >= u
    PROVE  Len(F[n]) >= n * u
  <1> DEFINE S == { j \in Nat : j <= n => Len(F[j]) >= j * u }
  <1>0. n \in Nat /\ F[0] = << >>
    BY DEF Joins
  <1>a. ASSUME NEW k \in 1 .. n
        PROVE  /\ Len(F[k - 1]) \in Nat /\ Len(s[k]) \in Nat /\ Len(F[k]) \in Nat
               /\ Len(F[k]) >= Len(F[k - 1]) + Len(s[k])
    BY PieceInPlace
  <1>1. 0 \in S
    BY <1>0
  <1>2. ASSUME NEW j \in Nat, j \in S PROVE j + 1 \in S
    <2> SUFFICES ASSUME j + 1 <= n PROVE Len(F[j + 1]) >= (j + 1) * u
      OBVIOUS
    <2> DEFINE h == j + 1
    <2>1. h \in 1 .. n /\ h - 1 = j /\ Len(F[j]) >= j * u
      BY <1>0, <1>2
    <2>2. (j + 1) * u = j * u + u /\ j * u \in Nat
      OBVIOUS
    <2> HIDE DEF h
    <2> DEFINE x == Len(F[j])
               y == Len(s[h])
               z == Len(F[h])
               w == j * u
    <2>5. x \in Nat /\ y \in Nat /\ z \in Nat /\ z >= x + y /\ w \in Nat /\ x >= w /\ y >= u
      BY <2>1, <2>2, <1>a
    <2> HIDE DEF x, y, z, w
    <2> QED
      BY <2>2, <2>5 DEF h, z, w
  <1>3. Nat \subseteq S
    <2> HIDE DEF S
    <2> QED
      BY <1>1, <1>2, InductiveSet
  <1> QED
    BY <1>0, <1>3
-----------------------------------------------------------------------------
(* The states of the decoder, and the bytes some other bytes start with.   *)
Cursor == [ok : BOOLEAN, offset : Nat, instructions : Seq(Instruction)]

StartsWith(p, q) ==
    /\ p \in Seq(Byte) /\ q \in Seq(Byte)
    /\ Len(q) <= Len(p)
    /\ \A i \in 1 .. Len(q) : p[i] = q[i]

(* An instruction that is long enough holds its operands.                  *)
LEMMA OperandsInPlace ==
    ASSUME NEW opcode, NEW o \in Nat, NEW length \in Nat,
           length - o >= 1 + OperandCount(opcode) * WordBytes
    PROVE  /\ OperandCount(opcode) \in 2 .. 3
           /\ OperandCount(opcode) = 3 <=> opcode = FrameBase
           /\ \A i \in 1 .. OperandCount(opcode) :
                  /\ o + 1 + (i - 1) * WordBytes \in Nat
                  /\ (o + 1 + (i - 1) * WordBytes) + WordBytes <= length
  <1>1. WordBytes \in Nat
    BY WordAssumption
  <1>2. OperandCount(opcode) = IF opcode = FrameBase THEN 3 ELSE 2
    BY DEF OperandCount
  <1>3. CASE opcode = FrameBase
    BY <1>2, <1>3, <1>1
  <1>4. CASE opcode # FrameBase
    BY <1>2, <1>4, <1>1
  <1> QED
    BY <1>3, <1>4

(* The word an operand of the instruction at an offset is.                 *)
OperandAt(p, o, i) == WordAt(p, o + 1 + (i - 1) * WordBytes)

(* What is decoded at an offset.                                           *)
Decodable(p, c) ==
    /\ c.ok
    /\ c.offset < Len(p)
    /\ p[c.offset + 1] \in {Decrement, Increment, FrameBase}
    /\ Len(p) - c.offset >= 1 + OperandCount(p[c.offset + 1]) * WordBytes

InstructionIn(p, o) ==
    [ opcode   |-> p[o + 1],
      operands |-> IF p[o + 1] = FrameBase
                   THEN <<OperandAt(p, o, 1), OperandAt(p, o, 2), Signed(OperandAt(p, o, 3))>>
                   ELSE <<OperandAt(p, o, 1), OperandAt(p, o, 2)>> ]

(* DecodeInstruction, in these terms. *)
LEMMA DecodeInstructionIs ==
    ASSUME NEW p, NEW c
    PROVE  DecodeInstruction(p, c) =
               IF Decodable(p, c)
               THEN [ ok           |-> TRUE,
                      offset       |-> c.offset + (1 + OperandCount(p[c.offset + 1]) * WordBytes),
                      instructions |-> Append(c.instructions, InstructionIn(p, c.offset)) ]
               ELSE [c EXCEPT !.ok = FALSE]
  BY DEF DecodeInstruction, Decodable, InstructionIn, OperandAt

(* The numbers in a decoded instruction depend on its bytes only.          *)
LEMMA SameOperand ==
    ASSUME NEW p, NEW q, StartsWith(p, q), NEW o \in Nat,
           Len(q) - o >= 1 + OperandCount(q[o + 1]) * WordBytes,
           NEW i \in 1 .. OperandCount(q[o + 1])
    PROVE  OperandAt(p, o, i) = OperandAt(q, o, i) /\ OperandAt(q, o, i) \in Nat
  <1> DEFINE x == o + 1 + (i - 1) * WordBytes
  <1>1. p \in Seq(Byte) /\ q \in Seq(Byte) /\ Len(q) <= Len(p) /\ Len(q) \in Nat /\ Len(p) \in Nat
        /\ \A j \in 1 .. Len(q) : p[j] = q[j]
    BY DEF StartsWith
  <1>2. x \in Nat /\ x + WordBytes <= Len(q)
    BY <1>1, OperandsInPlace
  <1>3. WordBytes \in Nat
    BY WordAssumption
  <1> HIDE DEF x
  <1>5. \A j \in 1 .. WordBytes : p[x + j] = q[x + j]
    <2> SUFFICES ASSUME NEW j \in 1 .. WordBytes PROVE p[x + j] = q[x + j]
      OBVIOUS
    <2> QED
      BY <1>1, <1>2, <1>3
  <1> QED
    BY <1>1, <1>2, <1>3, <1>5, SameWord DEF OperandAt, x

(* The decoder goes from state to state, and over bytes that are there.    *)
LEMMA InstructionDecoded ==
    ASSUME NEW p \in Seq(Byte), NEW c \in Cursor
    PROVE  /\ DecodeInstruction(p, c) \in Cursor
           /\ DecodeInstruction(p, c).ok => c.ok /\ DecodeInstruction(p, c).offset <= Len(p)
  <1>1. c.ok \in BOOLEAN /\ c.offset \in Nat /\ c.instructions \in Seq(Instruction)
        /\ Len(p) \in Nat /\ WordBytes \in Nat
    BY WordAssumption DEF Cursor
  <1>2. CASE Decodable(p, c)
    <2> DEFINE o == c.offset
               opcode == p[o + 1]
               length == 1 + OperandCount(opcode) * WordBytes
    <2>1. Len(p) - o >= length /\ opcode \in {Decrement, Increment, FrameBase}
      BY <1>2 DEF Decodable
    <2>2. OperandCount(opcode) \in 2 .. 3
          /\ (OperandCount(opcode) = 3 <=> opcode = FrameBase)
      BY <1>1, <2>1, OperandsInPlace
    <2>3. length \in Nat
      BY <1>1, <2>2
    <2>4. StartsWith(p, p)
      BY <1>1 DEF StartsWith
    <2>5. \A i \in 1 .. OperandCount(opcode) : OperandAt(p, o, i) \in Nat
      BY <1>1, <2>1, <2>4, SameOperand
    <2>6. WordModulus \in Nat
      BY WeightFacts
    <2>7. InstructionIn(p, o) \in Instruction
      <3>1. OperandAt(p, o, 1) \in Nat /\ OperandAt(p, o, 2) \in Nat
        BY <2>2, <2>5
      <3>2. CASE opcode = FrameBase
        <4> DEFINE a == OperandAt(p, o, 1)
                   b == OperandAt(p, o, 2)
                   d == Signed(OperandAt(p, o, 3))
        <4>3. d \in Int
          BY <2>6, <2>2, <2>5, <3>2 DEF Signed
        <4> HIDE DEF a, b, d
        <4> QED
          BY <2>1, <3>1, <4>3, <3>2 DEF Instruction, InstructionIn, a, b, d
      <3>3. CASE opcode # FrameBase
        <4> DEFINE a == OperandAt(p, o, 1)
                   b == OperandAt(p, o, 2)
        <4> HIDE DEF a, b
        <4> QED
          BY <2>1, <3>1, <3>3 DEF Instruction, InstructionIn, a, b
      <3> QED
        BY <3>2, <3>3
    <2>8. DecodeInstruction(p, c) =
              [ ok |-> TRUE, offset |-> o + length,
                instructions |-> Append(c.instructions, InstructionIn(p, o)) ]
      BY <1>2, DecodeInstructionIs
    <2> HIDE DEF length, o, opcode
    <2>12. c.ok
      BY <1>2 DEF Decodable
    <2> QED
      BY <2>8, <1>1, <2>7, <2>1, <2>3, <2>12 DEF Cursor, o
  <1>3. CASE ~Decodable(p, c)
    BY <1>3, DecodeInstructionIs DEF Cursor
  <1> QED
    BY <1>2, <1>3

(* The decoder reads the same instruction wherever the same bytes follow. *)
LEMMA SameInstruction ==
    ASSUME NEW p, NEW q, StartsWith(p, q), NEW c \in Cursor, DecodeInstruction(q, c).ok
    PROVE  DecodeInstruction(p, c) = DecodeInstruction(q, c)
  <1> DEFINE o == c.offset
             opcode == q[o + 1]
             length == 1 + OperandCount(opcode) * WordBytes
  <1>1. p \in Seq(Byte) /\ q \in Seq(Byte) /\ Len(q) <= Len(p) /\ Len(q) \in Nat /\ Len(p) \in Nat
        /\ \A j \in 1 .. Len(q) : p[j] = q[j]
    BY DEF StartsWith
  <1>2. Decodable(q, c)
    BY DecodeInstructionIs DEF Cursor
  <1>3. o \in Nat
    BY DEF Cursor
  <1>4. Len(q) - o >= length /\ o < Len(q)
    BY <1>2 DEF Decodable
  <1>5. p[o + 1] = opcode
    <2>1. o + 1 \in 1 .. Len(q)
      BY <1>1, <1>3, <1>4
    <2> QED
      BY <1>1, <2>1
  <1>6. length \in Nat
    <2>1. OperandCount(opcode) \in 2 .. 3 /\ WordBytes \in Nat
      BY <1>1, <1>3, <1>4, OperandsInPlace, WordAssumption
    <2> QED
      BY <2>1
  <1>7. Decodable(p, c)
    <2>1. Len(p) - o >= length /\ o < Len(p)
      <3> HIDE DEF length, o
      <3> QED
        BY <1>1, <1>3, <1>4, <1>6
    <2> QED
      BY <1>2, <1>5, <2>1 DEF Decodable
  <1>8. InstructionIn(p, o) = InstructionIn(q, o)
    <2>1. \A i \in 1 .. OperandCount(opcode) : OperandAt(p, o, i) = OperandAt(q, o, i)
      BY <1>3, <1>4, SameOperand
    <2>2. OperandCount(opcode) \in 2 .. 3
          /\ (OperandCount(opcode) = 3 <=> opcode = FrameBase)
      BY <1>1, <1>3, <1>4, OperandsInPlace
    <2> QED
      BY <1>5, <2>1, <2>2 DEF InstructionIn
  <1> QED
    BY <1>2, <1>5, <1>7, <1>8, DecodeInstructionIs

(* The decoder runs from a state over n instructions.                      *)
Runs(p, b, n, g) ==
    /\ n \in Nat
    /\ g \in [0 .. n -> Cursor]
    /\ g[0] = b
    /\ \A k \in 1 .. n : g[k] = DecodeInstruction(p, g[k - 1])

(* The decoder can be run any number of times. *)
LEMMA DecoderRuns ==
    ASSUME NEW p, \A c \in Cursor : DecodeInstruction(p, c) \in Cursor,
           NEW n \in Nat, NEW b \in Cursor
    PROVE  \E g : Runs(p, b, n, g)
  <1> DEFINE V == Cursor
             step == [ k \in 1 .. n |-> [ c \in V |-> DecodeInstruction(p, c) ] ]
  <1>1. \A c \in V : DecodeInstruction(p, c) \in V
    OBVIOUS
  <1>2. b \in V
    OBVIOUS
  <1> HIDE DEF V
  <1>3. step \in [1 .. n -> [V -> V]]
    BY <1>1
  <1>4. PICK g \in [0 .. n -> V] : g[0] = b /\ \A k \in 1 .. n : g[k] = step[k][g[k - 1]]
    <2> HIDE DEF step
    <2> QED
      BY <1>2, <1>3, Recursion, SMTT(30)
  <1>5. \A k \in 1 .. n : g[k] = DecodeInstruction(p, g[k - 1])
    <2> SUFFICES ASSUME NEW k \in 1 .. n PROVE g[k] = DecodeInstruction(p, g[k - 1])
      OBVIOUS
    <2>1. g[k - 1] \in V
      OBVIOUS
    <2> QED
      BY <1>4, <2>1
  <1> QED
    BY <1>4, <1>5 DEF V, Runs

(* Whether a sequence is decoded, and where its decoding begins.           *)
Countable(p, c, tail) ==
    /\ c.ok
    /\ Len(p) >= c.offset + WordBytes + tail
    /\ WordAt(p, c.offset)
           <= (Len(p) - (c.offset + WordBytes) - tail) \div MinimumInstructionBytes

Begin(c) == [ok |-> TRUE, offset |-> c.offset + WordBytes, instructions |-> << >>]

(* DecodeSequence is as many runs as the count says, if the count is       *)
(* plausible.                                                              *)
LEMMA DecodeSequenceIs ==
    ASSUME NEW p \in Seq(Byte), NEW c \in Cursor, NEW tail \in Nat
    PROVE  /\ ~Countable(p, c, tail) => DecodeSequence(p, c, tail) = [c EXCEPT !.ok = FALSE]
           /\ Countable(p, c, tail) =>
                  \E g : /\ Runs(p, Begin(c), WordAt(p, c.offset), g)
                         /\ DecodeSequence(p, c, tail) = g[WordAt(p, c.offset)]
  <1> DEFINE n == WordAt(p, c.offset)
             Steps(f) == [ k \in 0 .. n |-> IF k = 0 THEN Begin(c)
                                            ELSE DecodeInstruction(p, f[k - 1]) ]
             After == CHOOSE f : f = Steps(f)
  <1>2. Countable(p, c, tail) => DecodeSequence(p, c, tail) = After[n]
    BY DEF Countable, DecodeSequence, Begin
  <1>3. ASSUME Countable(p, c, tail)
        PROVE  \E g : Runs(p, Begin(c), n, g) /\ After[n] = g[n]
    <2>1. c.offset \in Nat /\ WordBytes \in Nat /\ Len(p) \in Nat
      BY WordAssumption DEF Cursor
    <2>2. n \in Nat
      BY <1>3, <2>1, SameWord DEF Countable
    <2>3. Begin(c) \in Cursor
      BY <2>1 DEF Cursor, Begin
    <2> HIDE DEF n
    <2>4. PICK g : Runs(p, Begin(c), n, g)
      BY InstructionDecoded, <2>2, <2>3, DecoderRuns
    <2>5. g = Steps(g)
      BY <2>4 DEF Runs
    <2>6. After = Steps(After)
      <3> HIDE DEF Steps
      <3> QED
        BY <2>5
    <2> HIDE DEF After
    <2>8. \A k \in 1 .. n : After[k] = DecodeInstruction(p, After[k - 1])
      <3> SUFFICES ASSUME NEW k \in 1 .. n PROVE After[k] = DecodeInstruction(p, After[k - 1])
        OBVIOUS
      <3> QED
        BY <2>2, <2>6
    <2> HIDE DEF Steps
    <2> DEFINE S == { k \in Nat : k <= n => After[k] = g[k] }
    <2>9. 0 \in S
      BY <2>4, <2>2, <2>6 DEF Runs
    <2>10. ASSUME NEW k \in Nat, k \in S PROVE k + 1 \in S
      <3> SUFFICES ASSUME k + 1 <= n PROVE After[k + 1] = g[k + 1]
        OBVIOUS
      <3> DEFINE j == k + 1
      <3> HIDE DEF j
      <3> QED
        BY <2>4, <2>8, <2>2, <2>10 DEF j, Runs
    <2>11. Nat \subseteq S
      <3> HIDE DEF S
      <3> QED
        BY <2>9, <2>10, InductiveSet
    <2> QED
      BY <2>4, <2>2, <2>11
  <1> HIDE DEF After
  <1> QED
    BY <1>2, <1>3 DEF Countable, DecodeSequence

(* What the decoder has found wrong stays wrong.                           *)
LEMMA RunFacts ==
    ASSUME NEW p \in Seq(Byte), NEW b \in Cursor, NEW n, NEW g, Runs(p, b, n, g)
    PROVE  /\ g[n] \in Cursor
           /\ g[n].ok => \A k \in 0 .. n : g[k].ok
  <1>1. n \in Nat /\ g \in [0 .. n -> Cursor]
        /\ \A k \in 1 .. n : g[k] = DecodeInstruction(p, g[k - 1])
    BY DEF Runs
  <1>3. ASSUME g[n].ok
        PROVE  \A k \in 0 .. n : g[k].ok
    <2> DEFINE S == { k \in Nat : k <= n => g[n - k].ok }
    <2>1. 0 \in S
      BY <1>1, <1>3
    <2>2. ASSUME NEW k \in Nat, k \in S PROVE k + 1 \in S
      <3> SUFFICES ASSUME k + 1 <= n PROVE g[n - (k + 1)].ok
        OBVIOUS
      <3> DEFINE h == n - k
                 c == g[h - 1]
      <3> HIDE DEF h
      <3> HIDE DEF c
      <3> QED
        BY <1>1, <2>2, InstructionDecoded DEF c
    <2>3. Nat \subseteq S
      <3> HIDE DEF S
      <3> QED
        BY <2>1, <2>2, InductiveSet
    <2> SUFFICES ASSUME NEW k \in 0 .. n PROVE g[k].ok
      OBVIOUS
    <2> DEFINE h == n - k
    <2>4. h \in Nat /\ h <= n /\ n - h = k
      BY <1>1
    <2> HIDE DEF h
    <2> QED
      BY <2>4, <2>3
  <1> QED
    BY <1>1, <1>3

(* More bytes make room for more instructions.                             *)
LEMMA QuotientGrows ==
    ASSUME NEW a \in Nat, NEW b \in Nat, a <= b, NEW m \in Nat \ {0}
    PROVE  a \div m <= b \div m
  <1> DEFINE x == a \div m
             y == b \div m
  <1>1. x \in Nat /\ y \in Nat
    OBVIOUS
  <1>2. m * x <= a /\ b < m * y + m
    BY <1>1
  <1> HIDE DEF x, y
  <1>3. ASSUME ~(x <= y) PROVE FALSE
    <2>1. PICK d \in Nat : x = y + 1 + d
      BY <1>1, <1>3
    <2> DEFINE u == m * x
               v == m * y
               w == m * d
    <2> HIDE DEF u, v, w
    <2> QED
      BY <1>2, <1>1, <2>1
  <1> QED
    BY <1>3 DEF x, y

(* A sequence that is decoded from some bytes is decoded from any bytes    *)
(* that start with them.                                                   *)
LEMMA SameSequence ==
    ASSUME NEW p, NEW q, StartsWith(p, q), NEW c \in Cursor, NEW tail \in Nat,
           DecodeSequence(q, c, tail).ok
    PROVE  /\ DecodeSequence(p, c, tail) = DecodeSequence(q, c, tail)
           /\ DecodeSequence(q, c, tail) \in Cursor
           /\ c.ok
  <1> DEFINE o == c.offset
             n == WordAt(q, o)
  <1>1. p \in Seq(Byte) /\ q \in Seq(Byte) /\ Len(q) <= Len(p) /\ Len(q) \in Nat /\ Len(p) \in Nat
        /\ \A j \in 1 .. Len(q) : p[j] = q[j]
    BY DEF StartsWith
  <1>2. o \in Nat /\ WordBytes \in Nat
    BY WordAssumption DEF Cursor
  <1>3. Countable(q, c, tail)
    BY <1>1, DecodeSequenceIs DEF Cursor
  <1>4. o + WordBytes <= Len(q) /\ o + WordBytes <= Len(p)
    BY <1>1, <1>2, <1>3 DEF Countable
  <1>5. WordAt(p, o) = n /\ n \in Nat
    <2>1. \A j \in 1 .. WordBytes : p[o + j] = q[o + j]
      <3> SUFFICES ASSUME NEW j \in 1 .. WordBytes PROVE p[o + j] = q[o + j]
        OBVIOUS
      <3>1. o + j \in 1 .. Len(q)
        BY <1>2, <1>4
      <3> QED
        BY <1>1, <3>1
    <2> QED
      BY <1>1, <1>2, <1>4, <2>1, SameWord
  <1>6. Countable(p, c, tail)
    <2> DEFINE x == Len(q) - (o + WordBytes) - tail
               y == Len(p) - (o + WordBytes) - tail
    <2>1. x \in Nat /\ y \in Nat /\ x <= y /\ Len(p) >= o + WordBytes + tail
      BY <1>1, <1>2, <1>3 DEF Countable
    <2>2. MinimumInstructionBytes \in Nat \ {0}
      BY <1>2 DEF MinimumInstructionBytes
    <2>3. n <= x \div MinimumInstructionBytes
      BY <1>3 DEF Countable
    <2> HIDE DEF x, y
    <2>5. x \div MinimumInstructionBytes \in Nat /\ y \div MinimumInstructionBytes \in Nat
      BY <2>1, <2>2
    <2>6. n <= y \div MinimumInstructionBytes
      BY <1>5, <2>3, <2>1, <2>2, QuotientGrows, <2>5
    <2> QED
      BY <1>3, <1>5, <2>1, <2>6 DEF Countable, y
  <1> HIDE DEF n
  <1>7. PICK g : Runs(q, Begin(c), n, g) /\ DecodeSequence(q, c, tail) = g[n]
    BY <1>1, <1>3, DecodeSequenceIs DEF n
  <1>8. PICK h : Runs(p, Begin(c), n, h) /\ DecodeSequence(p, c, tail) = h[n]
    BY <1>1, <1>5, <1>6, DecodeSequenceIs
  <1>9. Begin(c) \in Cursor
    BY <1>2 DEF Cursor, Begin
  <1>10. g[n] \in Cursor /\ \A k \in 0 .. n : g[k].ok
    BY <1>1, <1>7, <1>9, RunFacts
  <1>11. \A k \in 0 .. n : g[k] \in Cursor
    BY <1>7 DEF Runs
  <1> DEFINE S == { k \in Nat : k <= n => h[k] = g[k] }
  <1>12. 0 \in S
    BY <1>7, <1>8 DEF Runs
  <1>13. ASSUME NEW k \in Nat, k \in S PROVE k + 1 \in S
    <2> SUFFICES ASSUME k + 1 <= n PROVE h[k + 1] = g[k + 1]
      OBVIOUS
    <2> DEFINE j == k + 1
               d == g[k]
    <2>1. j \in 1 .. n /\ j - 1 = k /\ h[k] = d /\ k \in 0 .. n /\ j \in 0 .. n
      BY <1>5, <1>13
    <2> HIDE DEF j
    <2>2. g[j] = DecodeInstruction(q, d) /\ h[j] = DecodeInstruction(p, d) /\ g[j].ok
      BY <1>7, <1>8, <1>10, <2>1 DEF Runs
    <2>3. d \in Cursor
      BY <1>11, <2>1
    <2> HIDE DEF d
    <2> QED
      BY <2>2, <2>3, SameInstruction DEF j
  <1>14. Nat \subseteq S
    <2> HIDE DEF S
    <2> QED
      BY <1>12, <1>13, InductiveSet
  <1> QED
    BY <1>7, <1>8, <1>10, <1>5, <1>14, <1>3 DEF Countable

(* Decoding a sequence goes from a state to a state.                       *)
LEMMA SequenceDecoded ==
    ASSUME NEW p \in Seq(Byte), NEW c \in Cursor, NEW tail \in Nat
    PROVE  DecodeSequence(p, c, tail) \in Cursor
  <1>1. CASE DecodeSequence(p, c, tail).ok
    BY <1>1, SameSequence DEF StartsWith
  <1>2. CASE ~DecodeSequence(p, c, tail).ok
    <2>1. CASE Countable(p, c, tail)
      <3> DEFINE n == WordAt(p, c.offset)
      <3>1. PICK g : Runs(p, Begin(c), n, g) /\ DecodeSequence(p, c, tail) = g[n]
        BY <2>1, DecodeSequenceIs
      <3> HIDE DEF n
      <3> QED
        BY <3>1 DEF Runs
    <2>2. CASE ~Countable(p, c, tail)
      <3>1. DecodeSequence(p, c, tail) = [c EXCEPT !.ok = FALSE]
        BY <2>2, DecodeSequenceIs
      <3> QED
        BY <3>1 DEF Cursor
    <2> QED
      BY <2>1, <2>2
  <1> QED
    BY <1>1, <1>2

(* The states of the decoder before and after each sequence of a plan.     *)
AfterHeader(p) ==
    [ok |-> IsPrefix(Header, p), offset |-> Len(Header), instructions |-> << >>]

AfterEntry(p) == DecodeSequence(p, AfterHeader(p), WordBytes)

AfterExit(p) == DecodeSequence(p, AfterEntry(p), 0)

(* Decode, in these terms. *)
LEMMA DecodeIs ==
    ASSUME NEW p
    PROVE  Decode(p) = [ ok    |-> AfterExit(p).ok /\ AfterExit(p).offset = Len(p),
                         entry |-> AfterEntry(p).instructions,
                         exit  |-> AfterExit(p).instructions ]
  BY DEF Decode, AfterHeader, AfterEntry, AfterExit

(* The header is accepted when the bytes start with it. *)
LEMMA AfterHeaderFacts ==
    ASSUME NEW p \in Seq(Byte)
    PROVE  /\ AfterHeader(p) \in Cursor
           /\ AfterHeader(p).ok <=> /\ Len(Header) <= Len(p)
                                    /\ \A i \in 1 .. Len(Header) : p[i] = Header[i]
  <1>2. IsPrefix(Header, p) \in BOOLEAN
    BY DEF IsPrefix
  <1>4. IsPrefix(Header, p) <=> /\ Len(Header) <= Len(p)
                                /\ \A i \in 1 .. Len(Header) : p[i] = Header[i]
    BY HeaderAssumption DEF IsPrefix
  <1> QED
    BY HeaderAssumption, <1>2, <1>4 DEF AfterHeader, Cursor

(* A plan is decoded as far as it goes, whatever follows it.               *)
LEMMA SamePlan ==
    ASSUME NEW p, NEW q, StartsWith(p, q), Decode(q).ok
    PROVE  AfterExit(p) = AfterExit(q) /\ AfterExit(p).offset = Len(q)
  <1>1. p \in Seq(Byte) /\ q \in Seq(Byte) /\ Len(q) <= Len(p) /\ Len(q) \in Nat /\ Len(p) \in Nat
        /\ \A j \in 1 .. Len(q) : p[j] = q[j]
    BY DEF StartsWith
  <1>2. AfterExit(q).ok /\ AfterExit(q).offset = Len(q)
    BY DecodeIs
  <1>3. AfterHeader(q) \in Cursor /\ AfterEntry(q) \in Cursor /\ WordBytes \in Nat /\ 0 \in Nat
    BY <1>1, AfterHeaderFacts, SequenceDecoded, WordAssumption DEF AfterEntry
  <1>4. DecodeSequence(p, AfterEntry(q), 0) = AfterExit(q) /\ AfterEntry(q).ok
    BY <1>2, <1>3, SameSequence DEF AfterExit
  <1>7. AfterEntry(p) = AfterEntry(q)
    BY <1>3, <1>4, SameSequence, <1>1, AfterHeaderFacts, HeaderAssumption DEF AfterEntry,
       AfterHeader, IsPrefix
  <1> QED
    BY <1>2, <1>4, <1>7 DEF AfterExit

(* No plan is a proper part of the front of another.                       *)
LEMMA PlansEnd ==
    ASSUME NEW p, NEW q, StartsWith(p, q), Decode(q).ok, Decode(p).ok
    PROVE  Len(p) = Len(q)
  <1> QED
    BY DecodeIs, SamePlan
-----------------------------------------------------------------------------
(* The instructions of the plans: registers and byte counts are sizes.     *)
Canonical(i) ==
    \/ \E opcode \in {Decrement, Increment}, a, b \in 0 .. SizeMax :
           i = [opcode |-> opcode, operands |-> <<a, b>>]
    \/ \E a, b \in 0 .. SizeMax, d \in Int64 :
           i = [opcode |-> FrameBase, operands |-> <<a, b, d>>]

(* The opcode and the operands of a canonical instruction. *)
LEMMA CanonicalFacts ==
    ASSUME NEW i, Canonical(i)
    PROVE  /\ i.opcode \in {Decrement, Increment, FrameBase}
           /\ i.operands \in Seq(Int)
           /\ Len(i.operands) = OperandCount(i.opcode)
           /\ OperandCount(i.opcode) \in 2 .. 3
           /\ OperandCount(i.opcode) = 3 <=> i.opcode = FrameBase
           /\ i.opcode \in Byte
  <1>1. \A n \in 0 .. SizeMax : n \in Int
    BY WordTypes
  <1>3. {Decrement, Increment, FrameBase} \subseteq Byte
    BY WordAssumption DEF Decrement, Increment, FrameBase, Byte
  <1>4. ASSUME NEW opcode \in {Decrement, Increment}, NEW a \in 0 .. SizeMax,
               NEW b \in 0 .. SizeMax, i = [opcode |-> opcode, operands |-> <<a, b>>]
        PROVE  /\ i.opcode \in {Decrement, Increment} /\ i.operands \in Seq(Int)
               /\ Len(i.operands) = 2 /\ OperandCount(i.opcode) = 2 /\ i.opcode # FrameBase
    BY <1>1, <1>4 DEF OperandCount, Decrement, Increment, FrameBase
  <1>5. ASSUME NEW a \in 0 .. SizeMax, NEW b \in 0 .. SizeMax, NEW d \in Int64,
               i = [opcode |-> FrameBase, operands |-> <<a, b, d>>]
        PROVE  /\ i.opcode = FrameBase /\ i.operands \in Seq(Int)
               /\ Len(i.operands) = 3 /\ OperandCount(i.opcode) = 3
    BY <1>1, WordTypes, <1>5 DEF OperandCount
  <1>6. CASE \E opcode \in {Decrement, Increment}, a, b \in 0 .. SizeMax :
                 i = [opcode |-> opcode, operands |-> <<a, b>>]
    BY <1>3, <1>4, <1>6
  <1>7. CASE \E a, b \in 0 .. SizeMax, d \in Int64 :
                 i = [opcode |-> FrameBase, operands |-> <<a, b, d>>]
    BY <1>3, <1>5, <1>7
  <1> QED
    BY <1>6, <1>7 DEF Canonical

(* Pieces of one length join to a multiple of it.                          *)
LEMMA EqualPieces ==
    ASSUME NEW T, NEW n, NEW s, NEW F, Joins(T, n, s, F),
           NEW u \in Nat, \A k \in 1 .. n : Len(s[k]) = u
    PROVE  \A k \in 0 .. n : Len(F[k]) = k * u
  <1> DEFINE S == { j \in Nat : j <= n => Len(F[j]) = j * u }
  <1>1. n \in Nat /\ F[0] = << >>
    BY DEF Joins
  <1>2. ASSUME NEW k \in 1 .. n
        PROVE  /\ Len(F[k - 1]) \in Nat /\ Len(F[k]) \in Nat
               /\ Len(F[k]) >= Len(F[k - 1]) + Len(s[k])
               /\ Len(F[k]) <= Len(F[k - 1]) + Len(s[k])
    BY PieceInPlace
  <1>3. 0 \in S
    BY <1>1
  <1>4. ASSUME NEW j \in Nat, j \in S PROVE j + 1 \in S
    <2> SUFFICES ASSUME j + 1 <= n PROVE Len(F[j + 1]) = (j + 1) * u
      OBVIOUS
    <2> DEFINE h == j + 1
               w == j * u
    <2>1. h \in 1 .. n /\ h - 1 = j /\ Len(F[j]) = w
      BY <1>1, <1>4
    <2>2. (j + 1) * u = w + u /\ w \in Nat
      OBVIOUS
    <2> HIDE DEF h, w
    <2>3. /\ Len(F[h]) \in Nat
          /\ Len(F[h]) >= w + Len(s[h]) /\ Len(F[h]) <= w + Len(s[h])
      BY <1>2, <2>1
    <2> QED
      BY <2>2, <2>3, <2>1 DEF h
  <1>5. Nat \subseteq S
    <2> HIDE DEF S
    <2> QED
      BY <1>3, <1>4, InductiveSet
  <1> QED
    BY <1>1, <1>5

(* The bytes of an instruction: its opcode and the words of its operands.  *)
LEMMA EncodedInstruction ==
    ASSUME NEW i, Canonical(i)
    PROVE  /\ EncodeInstruction(i) \in Seq(Byte)
           /\ Len(EncodeInstruction(i)) = 1 + OperandCount(i.opcode) * WordBytes
           /\ EncodeInstruction(i)[1] = i.opcode
           /\ \A k \in 1 .. OperandCount(i.opcode) : \A j \in 1 .. WordBytes :
                  EncodeInstruction(i)[(1 + (k - 1) * WordBytes) + j]
                      = EncodeWord(i.operands[k])[j]
  <1> DEFINE m == Len(i.operands)
             s == [ k \in DOMAIN i.operands |-> EncodeWord(i.operands[k]) ]
  <1>1. /\ i.opcode \in {Decrement, Increment, FrameBase} /\ i.operands \in Seq(Int)
        /\ m = OperandCount(i.opcode) /\ m \in 2 .. 3 /\ i.opcode \in Byte
    BY CanonicalFacts
  <1>2. DOMAIN i.operands = 1 .. m /\ \A k \in 1 .. m : i.operands[k] \in Int
    BY <1>1
  <1>3. WordBytes \in Nat
    BY WordAssumption
  <1>4. \A k \in 1 .. m : /\ s[k] = EncodeWord(i.operands[k])
                          /\ s[k] \in Seq(Byte) /\ Len(s[k]) = WordBytes
    BY <1>2, EncodedWord
  <1>5. s = [ k \in 1 .. m |-> s[k] ]
    BY <1>2
  <1> HIDE DEF s, m
  <1>6. m \in Nat
    BY <1>1
  <1>7. s \in Seq(Seq(Byte)) /\ Len(s) = m
    <2> DEFINE V == Seq(Byte)
    <2> HIDE DEF V
    <2> QED
      BY <1>6, <1>5, <1>4 DEF V
  <1>8. PICK F : Joins(Byte, m, s, F)
    BY <1>4, <1>6, Concatenations
  <1>10. \A k \in 0 .. m : Len(F[k]) = k * WordBytes
    BY <1>3, <1>4, <1>8, EqualPieces
  <1> DEFINE a == <<i.opcode>>
             b == F[m]
             c == EncodeInstruction(i)
  <1>11. a \in Seq(Byte) /\ Len(a) = 1 /\ a[1] = i.opcode
    BY <1>1
  <1>12. b \in Seq(Byte) /\ Len(b) = m * WordBytes
    BY <1>6, <1>8, <1>10 DEF Joins
  <1>13. c = a \o b
    BY <1>7, <1>8, Flattened DEF EncodeInstruction, s
  <1> HIDE DEF a, b, c
  <1>14. /\ c \in Seq(Byte) /\ Len(c) = 1 + m * WordBytes
         /\ c[1] = i.opcode
         /\ \A j \in 1 .. Len(b) : c[1 + j] = b[j]
    <2>1. a \in Seq(Byte) /\ b \in Seq(Byte)
      BY <1>11, <1>12
    <2>2. /\ c \in Seq(Byte) /\ Len(c) = Len(a) + Len(b)
          /\ \A j \in 1 .. Len(a) : c[j] = a[j]
          /\ \A j \in 1 .. Len(b) : c[Len(a) + j] = b[j]
      BY <1>13, <2>1, Joined
    <2> QED
      BY <1>11, <1>12, <2>2
  <1>15. ASSUME NEW k \in 1 .. m, NEW j \in 1 .. WordBytes
         PROVE  c[(1 + (k - 1) * WordBytes) + j] = EncodeWord(i.operands[k])[j]
    <2> DEFINE x == (k - 1) * WordBytes
    <2>1. k - 1 \in 0 .. m /\ k \in 0 .. m
      BY <1>6
    <2>2. Len(F[k - 1]) = x /\ x \in Nat
      BY <1>3, <1>10, <2>1
    <2>3. Len(F[k]) <= Len(b)
      BY <1>8, PieceInPlace DEF b
    <2>4. b[x + j] = s[k][j]
      <3> DEFINE z == Len(F[k - 1]) + j
      <3>1. z = Len(F[k - 1]) + j /\ j \in 1 .. Len(s[k])
        BY <1>4
      <3>2. z = x + j
        BY <2>2
      <3> HIDE DEF z, x
      <3> QED
        BY <3>2, <1>8, <3>1, PieceAt DEF b
    <2> HIDE DEF x
    <2>6. x + j \in 1 .. Len(b)
      BY <1>12, <1>3, <2>2, <2>3, <1>6, <1>10, <2>1
    <2>8. 1 + (x + j) = (1 + x) + j
      BY <2>2
    <2> QED
      BY <1>4, <2>4, <1>14, <2>6, <2>8 DEF x
  <1> QED
    BY <1>1, <1>14, <1>15 DEF c

(* Some bytes hold others at an offset.                                    *)
Holds(p, o, e) ==
    /\ o + Len(e) <= Len(p)
    /\ \A j \in 1 .. Len(e) : p[o + j] = e[j]

(* An instruction is read back.                                            *)
LEMMA InstructionReadBack ==
    ASSUME NEW p \in Seq(Byte), NEW c \in Cursor, c.ok, NEW i, Canonical(i),
           Holds(p, c.offset, EncodeInstruction(i))
    PROVE  /\ Len(EncodeInstruction(i)) \in Nat
           /\ DecodeInstruction(p, c) =
                  [ ok           |-> TRUE,
                    offset       |-> c.offset + Len(EncodeInstruction(i)),
                    instructions |-> Append(c.instructions, i) ]
  <1> DEFINE e == EncodeInstruction(i)
             o == c.offset
             m == OperandCount(i.opcode)
  <1>1. /\ i.opcode \in {Decrement, Increment, FrameBase} /\ i.operands \in Seq(Int)
        /\ Len(i.operands) = m /\ m \in 2 .. 3 /\ (m = 3 <=> i.opcode = FrameBase)
    BY CanonicalFacts
  <1>2. /\ e \in Seq(Byte) /\ Len(e) = 1 + m * WordBytes /\ e[1] = i.opcode
        /\ \A k \in 1 .. m : \A j \in 1 .. WordBytes :
               e[(1 + (k - 1) * WordBytes) + j] = EncodeWord(i.operands[k])[j]
    BY EncodedInstruction
  <1>3. o \in Nat /\ WordBytes \in Nat /\ Len(p) \in Nat /\ Len(e) \in Nat
    BY <1>2, WordAssumption DEF Cursor
  <1>4. o + Len(e) <= Len(p) /\ \A j \in 1 .. Len(e) : p[o + j] = e[j]
    BY DEF Holds
  <1>5. Len(e) >= 1
    BY <1>1, <1>3, <1>2
  <1>6. p[o + 1] = i.opcode
    BY <1>3, <1>5, <1>2, <1>4
  <1>7. Decodable(p, c)
    BY <1>3, <1>4, <1>5, <1>1, <1>2, <1>6, SMTT(30) DEF Decodable
  <1>8. ASSUME NEW k \in 1 .. m
        PROVE  i.operands[k] \in Int /\ OperandAt(p, o, k) = i.operands[k] % WordModulus
    <2> DEFINE x == 1 + (k - 1) * WordBytes
               y == o + 1 + (k - 1) * WordBytes
               n == i.operands[k]
    <2>1. 0 + 1 + (k - 1) * WordBytes \in Nat
          /\ (0 + 1 + (k - 1) * WordBytes) + WordBytes <= Len(e)
      <3>1. 0 \in Nat /\ Len(e) - 0 >= 1 + OperandCount(i.opcode) * WordBytes
        BY <1>2, <1>3
      <3> QED
        BY <1>3, <3>1, OperandsInPlace
    <2>2. (k - 1) * WordBytes \in Nat
      BY <1>1, <1>3
    <2>3. x \in Nat /\ x + WordBytes <= Len(e) /\ y = o + x /\ y \in Nat
      BY <1>3, <2>1, <2>2
    <2>4. n \in Int
      BY <1>1
    <2>5. \A j \in 1 .. WordBytes : e[x + j] = EncodeWord(n)[j]
      BY <1>2
    <2>6. OperandAt(p, o, k) = WordAt(p, y)
      BY DEF OperandAt
    <2> HIDE DEF x, y, n, e, m, o
    <2>8. \A j \in 1 .. WordBytes : p[y + j] = EncodeWord(n)[j]
      <3> SUFFICES ASSUME NEW j \in 1 .. WordBytes PROVE p[y + j] = EncodeWord(n)[j]
        OBVIOUS
      <3>1. x + j \in 1 .. Len(e) /\ y + j = o + (x + j)
        BY <1>3, <2>3
      <3> QED
        BY <2>5, <3>1, <1>4
    <2>9. WordAt(p, y) = n % WordModulus
      BY <2>3, <2>4, <1>3, <1>4, <2>8, WordReadBack
    <2> QED
      BY <2>4, <2>6, <2>9 DEF n
  <1>9. InstructionIn(p, o) = i
    BY <1>1, <1>8, NumbersFitWords, <1>6 DEF Decrement, Increment, FrameBase,
       InstructionIn, Canonical
  <1> QED
    BY <1>2, <1>3, <1>6, <1>7, <1>9, DecodeInstructionIs

(* The bytes of a sequence: its length, and its instructions one after the *)
(* other.                                                                  *)
Pieces(s) == [ k \in DOMAIN s |-> EncodeInstruction(s[k]) ]

Encodes(F, s) ==
    /\ Joins(Byte, Len(s), Pieces(s), F)
    /\ Len(s) \in Nat
    /\ \A k \in 1 .. Len(s) : Pieces(s)[k] = EncodeInstruction(s[k])
    /\ F[Len(s)] \in Seq(Byte)
    /\ EncodeSequence(s) = EncodeWord(Len(s)) \o F[Len(s)]
    /\ Len(F[Len(s)]) >= Len(s) * MinimumInstructionBytes

(* A sequence of canonical instructions is encoded piece by piece. *)
LEMMA EncodedSequence ==
    ASSUME NEW s \in Seq(Instruction), \A k \in 1 .. Len(s) : Canonical(s[k])
    PROVE  \E F : Encodes(F, s)
  <1> DEFINE n == Len(s)
             t == Pieces(s)
             u == MinimumInstructionBytes
  <1>1. n \in Nat /\ DOMAIN s = 1 .. n
    OBVIOUS
  <1>2. WordBytes \in Nat /\ u = 1 + 2 * WordBytes /\ u \in Nat
    BY WordAssumption DEF MinimumInstructionBytes
  <1>3. t = [ k \in 1 .. n |-> t[k] ] /\ \A k \in 1 .. n : t[k] = EncodeInstruction(s[k])
    BY <1>1 DEF Pieces
  <1>4. ASSUME NEW k \in 1 .. n
        PROVE  t[k] \in Seq(Byte) /\ Len(t[k]) >= u
    <2> DEFINE i == s[k]
               m == OperandCount(i.opcode)
               e == EncodeInstruction(i)
    <2>1. Canonical(i)
      OBVIOUS
    <2> HIDE DEF i
    <2>2. m \in 2 .. 3
      BY <2>1, CanonicalFacts
    <2>3. e \in Seq(Byte) /\ Len(e) = 1 + m * WordBytes
      BY <2>1, EncodedInstruction
    <2>4. t[k] = e
      BY <1>3 DEF i
    <2> HIDE DEF t, e, m, u
    <2> QED
      BY <2>3, <2>4, <1>2, <2>2
  <1> HIDE DEF t, u
  <1>5. t \in Seq(Seq(Byte)) /\ Len(t) = n
    <2> DEFINE V == Seq(Byte)
    <2> HIDE DEF V, n
    <2> QED
      BY <1>1, <1>3, <1>4 DEF V
  <1> HIDE DEF n
  <1>7. PICK F : Joins(Byte, n, t, F)
    BY <1>1, <1>4, Concatenations
  <1>10. Len(F[n]) >= n * u
    BY <1>2, <1>7, <1>4, JoinedLength
  <1>11. F[n] \in Seq(Byte)
    BY <1>1, <1>7 DEF Joins
  <1>12. EncodeSequence(s) = EncodeWord(n) \o F[n]
    BY <1>5, <1>7, Flattened DEF EncodeSequence, t, n, Pieces
  <1>13. Encodes(F, s)
    BY <1>1, <1>3, <1>7, <1>10, <1>11, <1>12 DEF Encodes, n, t, u
  <1> QED
    BY <1>13

(* Where the count and the instructions are in the bytes of a sequence.    *)
LEMMA SequenceBytes ==
    ASSUME NEW F, NEW s, Encodes(F, s)
    PROVE  /\ EncodeSequence(s) \in Seq(Byte)
           /\ Len(F[Len(s)]) \in Nat
           /\ Len(EncodeSequence(s)) = WordBytes + Len(F[Len(s)])
           /\ \A j \in 1 .. WordBytes : EncodeSequence(s)[j] = EncodeWord(Len(s))[j]
           /\ \A j \in 1 .. Len(F[Len(s)]) :
                  EncodeSequence(s)[WordBytes + j] = F[Len(s)][j]
  <1> DEFINE a == EncodeWord(Len(s))
             b == F[Len(s)]
             c == EncodeSequence(s)
  <1>2. a \in Seq(Byte) /\ Len(a) = WordBytes
    BY EncodedWord DEF Encodes
  <1>3. b \in Seq(Byte) /\ c = a \o b
    BY DEF Encodes
  <1> HIDE DEF a, b, c
  <1>4. /\ c \in Seq(Byte) /\ Len(b) \in Nat /\ Len(c) = Len(a) + Len(b)
        /\ \A i \in 1 .. Len(a) : c[i] = a[i]
        /\ \A i \in 1 .. Len(b) : c[Len(a) + i] = b[i]
    <2>1. a \in Seq(Byte)
      BY <1>2
    <2> QED
      BY <1>3, <2>1, Joined
  <1> QED
    BY <1>4, <1>2 DEF a, b, c

(* Bytes that hold the sequence hold each of its instructions in its       *)
(* place.                                                                  *)
LEMMA PieceHeld ==
    ASSUME NEW p \in Seq(Byte), NEW o \in Nat, NEW F, NEW s, Encodes(F, s),
           Holds(p, o, EncodeSequence(s)), NEW k \in 1 .. Len(s)
    PROVE  /\ Len(F[k - 1]) \in Nat /\ Len(EncodeInstruction(s[k])) \in Nat
           /\ Len(F[k]) <= Len(F[k - 1]) + Len(EncodeInstruction(s[k]))
           /\ Len(F[k]) >= Len(F[k - 1]) + Len(EncodeInstruction(s[k]))
           /\ Len(F[k]) \in Nat
           /\ Holds(p, o + WordBytes + Len(F[k - 1]), EncodeInstruction(s[k]))
  <1> DEFINE n == Len(s)
             t == Pieces(s)
             e == EncodeInstruction(s[k])
             E == EncodeSequence(s)
             b == F[n]
             x == Len(F[k - 1])
             y == Len(F[k])
  <1>1. Joins(Byte, n, t, F) /\ t[k] = e /\ n \in Nat /\ WordBytes \in Nat
    BY WordAssumption DEF Encodes
  <1>2. /\ Len(b) \in Nat /\ Len(E) = WordBytes + Len(b)
        /\ \A j \in 1 .. Len(b) : E[WordBytes + j] = b[j]
    BY SequenceBytes
  <1>3. o + Len(E) <= Len(p) /\ \A j \in 1 .. Len(E) : p[o + j] = E[j]
    BY DEF Holds
  <1> HIDE DEF n, t, E
  <1>4. k \in 1 .. n
    BY DEF n
  <1>5. x \in Nat /\ Len(t[k]) \in Nat /\ y \in Nat
        /\ y <= x + Len(t[k]) /\ y >= x + Len(t[k]) /\ y <= Len(b)
    BY <1>1, <1>4, PieceInPlace
  <1>6. ASSUME NEW j \in 1 .. Len(t[k])
        PROVE  b[x + j] = t[k][j]
    <2> DEFINE z == x + j
    <2>1. z = Len(F[k - 1]) + j
      OBVIOUS
    <2> HIDE DEF z, x
    <2> QED
      BY <1>1, <1>4, <2>1, PieceAt DEF z, b, x
  <1> HIDE DEF e, b, x, y
  <1>7. Len(e) \in Nat /\ y <= x + Len(e) /\ y >= x + Len(e) /\ y <= Len(b)
        /\ \A j \in 1 .. Len(e) : b[x + j] = e[j]
    BY <1>1, <1>5, <1>6
  <1>9. o + WordBytes + x + Len(e) <= Len(p)
    BY <1>1, <1>2, <1>3, <1>5, <1>7
  <1>10. ASSUME NEW j \in 1 .. Len(e)
         PROVE  p[(o + WordBytes + x) + j] = e[j]
    <2>1. x + j \in 1 .. Len(b)
      BY <1>2, <1>5, <1>7
    <2>4. p[o + (WordBytes + (x + j))] = E[WordBytes + (x + j)]
      BY <1>3, <1>1, <1>2, <2>1
    <2> QED
      BY <1>7, <1>1, <1>5, <2>4, <1>2, <2>1
  <1> QED
    BY <1>5, <1>7, <1>9, <1>10 DEF e, x, y, Holds

(* As many instructions fit as the quotient says.                          *)
LEMMA QuotientHolds ==
    ASSUME NEW a \in Nat, NEW n \in Nat, NEW m \in Nat \ {0}, a >= n * m
    PROVE  n <= a \div m
  <1>1. n * m \in Nat /\ n * m = m * n
    OBVIOUS
  <1>2. (n * m) \div m <= a \div m
    <2> DEFINE b == n * m
    <2> HIDE DEF b
    <2> QED
      BY <1>1, QuotientGrows DEF b
  <1>3. (n * m) \div m = n
    <2> DEFINE b == n * m
               q == b \div m
    <2>1. b = m * q + (b % m) /\ b % m \in 0 .. m - 1 /\ q \in Nat
      BY <1>1
    <2>2. m * n = m * q + (b % m)
      BY <1>1, <2>1
    <2> DEFINE r == b % m
    <2> HIDE DEF q, r, b
    <2>5. n = q
      BY <2>1, <2>2 DEF r
    <2> QED
      BY <2>5 DEF q, b
  <1> QED
    BY <1>2, <1>3

(* Taking one element more of a sequence.                                  *)
LEMMA LongerFront ==
    ASSUME NEW T, NEW s \in Seq(T), NEW k \in 1 .. Len(s)
    PROVE  Append(SubSeq(s, 1, k - 1), s[k]) = SubSeq(s, 1, k)
  OBVIOUS

(* A sequence is read back.                                                *)
LEMMA SequenceReadBack ==
    ASSUME NEW p \in Seq(Byte), NEW c \in Cursor, c.ok, NEW tail \in Nat,
           NEW s \in Seq(Instruction), \A k \in 1 .. Len(s) : Canonical(s[k]),
           Len(s) < WordModulus,
           Holds(p, c.offset, EncodeSequence(s)),
           c.offset + Len(EncodeSequence(s)) + tail <= Len(p)
    PROVE  DecodeSequence(p, c, tail) =
               [ ok           |-> TRUE,
                 offset       |-> c.offset + Len(EncodeSequence(s)),
                 instructions |-> s ]
  <1> DEFINE o == c.offset
             n == Len(s)
             E == EncodeSequence(s)
             count == WordAt(p, o)
  <1>1. o \in Nat /\ n \in Nat /\ WordBytes \in Nat /\ Len(p) \in Nat
    BY WordAssumption DEF Cursor
  <1>2. PICK F : Encodes(F, s)
    BY EncodedSequence
  <1> DEFINE b == F[n]
  <1>3. /\ Len(b) \in Nat /\ Len(E) = WordBytes + Len(b)
        /\ \A j \in 1 .. WordBytes : E[j] = EncodeWord(n)[j]
    BY <1>2, SequenceBytes
  <1>4. o + Len(E) <= Len(p) /\ \A j \in 1 .. Len(E) : p[o + j] = E[j]
    BY DEF Holds
  <1>5. count = n
    <2>1. n \in Int /\ n % WordModulus = n
      <3>2. n < WordModulus
        OBVIOUS
      <3> HIDE DEF n
      <3> QED
        BY <1>1, WeightFacts, <3>2
    <2> HIDE DEF n, E, b
    <2>2. o + WordBytes <= Len(p)
      BY <1>1, <1>3, <1>4
    <2>3. \A j \in 1 .. WordBytes : p[o + j] = EncodeWord(n)[j]
      <3> SUFFICES ASSUME NEW j \in 1 .. WordBytes PROVE p[o + j] = EncodeWord(n)[j]
        OBVIOUS
      <3> QED
        BY <1>3, <1>4, <1>1
    <2> QED
      BY ONLY <2>1, <1>1, <2>2, <2>3, WordReadBack
  <1>6. Countable(p, c, tail)
    <2> DEFINE a == Len(p) - (o + WordBytes) - tail
    <2>1. o + Len(E) + tail <= Len(p)
      OBVIOUS
    <2> HIDE DEF E, b, o, n
    <2>2. Len(p) >= o + WordBytes + tail /\ a \in Nat /\ a >= Len(b)
      BY <1>1, <1>3, <2>1
    <2>3. MinimumInstructionBytes \in Nat \ {0}
      BY <1>1 DEF MinimumInstructionBytes
    <2> HIDE DEF a
    <2>6. a >= n * MinimumInstructionBytes
      BY <1>3, <2>2, <1>2, <1>1, <2>3 DEF Encodes, n, b
    <2> QED
      BY <1>5, <2>2, <1>1, <2>3, <2>6, QuotientHolds DEF Countable, a, o
  <1>7. PICK g : Runs(p, Begin(c), count, g) /\ DecodeSequence(p, c, tail) = g[count]
    BY <1>6, DecodeSequenceIs
  <1>8. g[0] = Begin(c) /\ \A k \in 1 .. n : g[k] = DecodeInstruction(p, g[k - 1])
    BY <1>5, <1>7 DEF Runs
  <1>9. \A k \in 0 .. n : g[k] \in Cursor
    BY <1>5, <1>7 DEF Runs
  <1> DEFINE At(k) == [ ok           |-> TRUE,
                        offset       |-> o + WordBytes + Len(F[k]),
                        instructions |-> SubSeq(s, 1, k) ]
             S == { k \in Nat : k <= n => g[k] = At(k) }
  <1>10. 0 \in S
    <2>2. o + WordBytes + Len(F[0]) = o + WordBytes
      BY <1>1, <1>2 DEF Encodes, Joins
    <2>3. SubSeq(s, 1, 0) = << >>
      OBVIOUS
    <2>4. At(0) = Begin(c)
      BY <2>2, <2>3 DEF Begin
    <2> HIDE DEF At
    <2> QED
      BY <1>8, <2>4
  <1>11. ASSUME NEW k \in Nat, k \in S PROVE k + 1 \in S
    <2> SUFFICES ASSUME k + 1 <= n PROVE g[k + 1] = At(k + 1)
      OBVIOUS
    <2> DEFINE h == k + 1
               d == g[k]
               i == s[h]
               e == EncodeInstruction(i)
    <2>1. h \in 1 .. n /\ h - 1 = k /\ k \in 0 .. n /\ d = At(k)
      BY <1>1, <1>11
    <2> HIDE DEF h
    <2>2. Canonical(i) /\ i \in Instruction
      BY <2>1
    <2>3. /\ Len(F[k]) \in Nat /\ Len(e) \in Nat /\ Len(F[h]) \in Nat
          /\ Len(F[h]) <= Len(F[k]) + Len(e) /\ Len(F[h]) >= Len(F[k]) + Len(e)
          /\ Holds(p, o + WordBytes + Len(F[k]), e)
      BY <2>1, <1>1, <1>2, PieceHeld
    <2>4. d \in Cursor /\ d.ok /\ d.offset = o + WordBytes + Len(F[k])
          /\ d.instructions = SubSeq(s, 1, k)
      BY <1>9, <2>1
    <2>5. g[h] = DecodeInstruction(p, d)
      BY <1>8, <2>1
    <2>6. Append(SubSeq(s, 1, k), i) = SubSeq(s, 1, h)
      BY <2>1, LongerFront
    <2> HIDE DEF d, i, e
    <2>8. d.offset + Len(e) = o + WordBytes + Len(F[h])
      <3> DEFINE x == Len(F[k])
                 y == Len(F[h])
                 z == Len(e)
      <3>1. x \in Nat /\ y \in Nat /\ z \in Nat /\ y <= x + z /\ y >= x + z
        BY <2>3
      <3>2. d.offset = o + WordBytes + x
        BY <2>4
      <3> HIDE DEF x, y, z, o
      <3>3. d.offset + z = o + WordBytes + y
        BY <1>1, <3>1, <3>2
      <3> QED
        BY <3>3 DEF y, z, o
    <2>9. g[h] = At(h)
      BY <2>4, <2>5, <2>6, <2>2, <2>3, InstructionReadBack, <2>8 DEF e
    <2> QED
      BY <2>9 DEF h
  <1>12. Nat \subseteq S
    <2> HIDE DEF S
    <2> QED
      BY <1>10, <1>11, InductiveSet
  <1>13. g[n] = At(n)
    <2> HIDE DEF At, n
    <2> QED
      BY <1>1, <1>12
  <1>14. SubSeq(s, 1, n) = s
    OBVIOUS
  <1>15. o + WordBytes + Len(F[n]) = o + Len(E)
    <2> HIDE DEF E, b
    <2> QED
      BY <1>1, <1>3 DEF b
  <1> HIDE DEF E, n
  <1> QED
    BY <1>5, <1>7, <1>13, <1>14, <1>15 DEF E

(* A plan is read back.                                                    *)
LEMMA PlanReadBack ==
    ASSUME NEW s \in Seq(Instruction), \A k \in 1 .. Len(s) : Canonical(s[k]),
           Len(s) < WordModulus,
           NEW t \in Seq(Instruction), \A k \in 1 .. Len(t) : Canonical(t[k]),
           Len(t) < WordModulus
    PROVE  /\ Encode(s, t) \in Seq(Byte)
           /\ Decode(Encode(s, t)) = [ok |-> TRUE, entry |-> s, exit |-> t]
  <1> DEFINE a == Header
             b == EncodeSequence(s)
             c == EncodeSequence(t)
             ab == a \o b
             p == ab \o c
  <1>1. b \in Seq(Byte)
    <2>1. PICK F : Encodes(F, s)
      BY EncodedSequence
    <2> QED
      BY <2>1, SequenceBytes
  <1>2. c \in Seq(Byte) /\ Len(c) >= WordBytes
    <2>1. PICK F : Encodes(F, t)
      BY EncodedSequence
    <2>2. c \in Seq(Byte) /\ Len(F[Len(t)]) \in Nat /\ Len(c) = WordBytes + Len(F[Len(t)])
      BY <2>1, SequenceBytes
    <2> QED
      BY <2>2, WordAssumption
  <1>3. a \in Seq(Byte)
    BY HeaderAssumption
  <1>4. WordBytes \in Nat
    BY WordAssumption
  <1> HIDE DEF a, b, c
  <1>5. /\ ab \in Seq(Byte) /\ Len(a) \in Nat /\ Len(b) \in Nat
        /\ Len(ab) = Len(a) + Len(b)
        /\ \A i \in 1 .. Len(a) : ab[i] = a[i]
        /\ \A i \in 1 .. Len(b) : ab[Len(a) + i] = b[i]
    BY <1>1, <1>3, Joined
  <1> HIDE DEF ab
  <1>6. /\ p \in Seq(Byte) /\ Len(ab) \in Nat /\ Len(c) \in Nat
        /\ Len(p) = Len(ab) + Len(c)
        /\ \A i \in 1 .. Len(ab) : p[i] = ab[i]
        /\ \A i \in 1 .. Len(c) : p[Len(ab) + i] = c[i]
    <2>1. c \in Seq(Byte)
      BY <1>2
    <2>2. ab \in Seq(Byte)
      BY <1>5
    <2> QED
      BY <2>1, <2>2, Joined
  <1> HIDE DEF p
  <1>7. \A i \in 1 .. Len(a) : p[i] = a[i]
    <2> SUFFICES ASSUME NEW i \in 1 .. Len(a) PROVE p[i] = a[i]
      OBVIOUS
    <2>1. i \in 1 .. Len(ab)
      BY <1>5
    <2> QED
      BY <1>5, <1>6, <2>1
  <1>8. Holds(p, Len(a), b)
    <2>1. Len(a) + Len(b) <= Len(p)
      BY <1>5, <1>6
    <2>2. ASSUME NEW i \in 1 .. Len(b) PROVE p[Len(a) + i] = b[i]
      <3>1. Len(a) + i \in 1 .. Len(ab)
        BY <1>5
      <3> QED
        BY <1>5, <1>6, <3>1
    <2> QED
      BY <2>1, <2>2 DEF Holds
  <1>9. Holds(p, Len(a) + Len(b), c)
    BY <1>5, <1>6 DEF Holds
  <1>10. AfterHeader(p) \in Cursor /\ AfterHeader(p).ok /\ AfterHeader(p).offset = Len(a)
    <2>1. Len(a) <= Len(p)
      BY <1>5, <1>6
    <2>2. AfterHeader(p).ok
      BY <1>6, <1>7, <2>1, AfterHeaderFacts DEF a
    <2>3. AfterHeader(p).offset = Len(a)
      BY DEF AfterHeader, a
    <2> QED
      BY <1>6, <2>2, <2>3, AfterHeaderFacts
  <1>11. AfterEntry(p) = [ok |-> TRUE, offset |-> Len(a) + Len(b), instructions |-> s]
    <2> DEFINE d == AfterHeader(p)
    <2>1. d \in Cursor /\ d.ok /\ d.offset = Len(a)
      BY <1>10
    <2>2. Len(a) + Len(b) + WordBytes <= Len(p)
      BY <1>2, <1>4, <1>5, <1>6
    <2>3. Holds(p, d.offset, b) /\ d.offset + Len(b) + WordBytes <= Len(p)
      BY <1>8, <2>1, <2>2
    <2> HIDE DEF d
    <2>4. DecodeSequence(p, d, WordBytes) =
              [ok |-> TRUE, offset |-> d.offset + Len(b), instructions |-> s]
      BY <1>4, <1>6, <2>1, <2>3, SequenceReadBack DEF b
    <2> QED
      BY <2>1, <2>4 DEF AfterEntry, d
  <1>12. AfterExit(p) =
             [ok |-> TRUE, offset |-> Len(a) + Len(b) + Len(c), instructions |-> t]
    <2> DEFINE d == AfterEntry(p)
    <2>1. d.ok /\ d.offset = Len(a) + Len(b)
      BY <1>11
    <2>2. d \in Cursor
      <3>1. Len(a) + Len(b) \in Nat
        BY <1>5
      <3> QED
        BY <1>11, <3>1 DEF Cursor
    <2>3. Len(a) + Len(b) + Len(c) + 0 <= Len(p) /\ 0 \in Nat
      BY <1>5, <1>6
    <2>4. Holds(p, d.offset, c) /\ d.offset + Len(c) + 0 <= Len(p)
      BY <1>9, <2>1, <2>3
    <2> HIDE DEF d
    <2>5. DecodeSequence(p, d, 0) =
              [ok |-> TRUE, offset |-> d.offset + Len(c), instructions |-> t]
      BY <1>6, <2>1, <2>2, <2>3, <2>4, SequenceReadBack DEF c
    <2> QED
      BY <2>1, <2>5 DEF AfterExit, d
  <1>13. Len(p) = Len(a) + Len(b) + Len(c)
    BY <1>5, <1>6
  <1>14. Decode(p) = [ok |-> TRUE, entry |-> s, exit |-> t]
    <2>1. AfterEntry(p).instructions = s
      BY <1>11
    <2>2. AfterExit(p).ok /\ AfterExit(p).offset = Len(p) /\ AfterExit(p).instructions = t
      BY <1>12, <1>13
    <2>3. (AfterExit(p).ok /\ AfterExit(p).offset = Len(p)) = TRUE
      BY <2>2
    <2> QED
      BY <2>1, <2>2, <2>3, DecodeIs
  <1>15. p = Encode(s, t)
    BY DEF Encode, p, ab, a, b, c
  <1> QED
    BY <1>6, <1>14, <1>15

(* What is decoded ends where its bytes do: neither the front of a plan    *)
(* nor a plan with a byte behind it is one.                                *)
LEMMA PlansAreStrict ==
    ASSUME NEW p \in Seq(Byte), Decode(p).ok
    PROVE  /\ \A n \in 0 .. Len(p) - 1 : ~Decode(SubSeq(p, 1, n)).ok
           /\ \A b \in Byte : ~Decode(Append(p, b)).ok
  <1>1. ASSUME NEW n \in 0 .. Len(p) - 1, Decode(SubSeq(p, 1, n)).ok
        PROVE  FALSE
    <2> DEFINE q == SubSeq(p, 1, n)
    <2>1. /\ q \in Seq(Byte) /\ Len(q) = n /\ n <= Len(p) /\ n # Len(p)
          /\ \A i \in 1 .. n : p[i] = q[i]
      OBVIOUS
    <2>2. Decode(q).ok
      BY <1>1
    <2> HIDE DEF q
    <2> QED
      BY <2>1, <2>2, PlansEnd DEF StartsWith
  <1>2. ASSUME NEW b \in Byte, Decode(Append(p, b)).ok
        PROVE  FALSE
    <2> DEFINE q == Append(p, b)
    <2>1. /\ q \in Seq(Byte) /\ Len(q) = Len(p) + 1 /\ Len(p) \in Nat
          /\ \A i \in 1 .. Len(p) : q[i] = p[i]
      OBVIOUS
    <2>2. Decode(q).ok
      BY <1>2
    <2> HIDE DEF q
    <2> QED
      BY <2>2, <2>1, PlansEnd DEF StartsWith
  <1> QED
    BY <1>1, <1>2
-----------------------------------------------------------------------------
(* A product is at least as large as either of its factors, and a word     *)
(* holds the number of instructions of any frame.                          *)
LEMMA ProductGrows ==
    ASSUME NEW q \in Nat, NEW c \in Nat, c >= 1
    PROVE  q * c >= q /\ q * c \in Nat
  <1>1. PICK d \in Nat : c = 1 + d
    OBVIOUS
  <1> QED
    BY <1>1

(* The number of instructions of a plan fits a word. *)
LEMMA WordHoldsCount ==
    ASSUME NEW n \in Nat, n <= Int64Max + 2
    PROVE  n < WordModulus
  <1> DEFINE w == Weight[WordBytes - 1]
  <1> HIDE DEF w
  <1> QED
    BY WordAssumption, WeightFacts, ProductGrows, WordTypes, WordHoldsSize DEF WordModulus

(* The legalized instructions are canonical.                               *)
LEMMA AdjustmentIsCanonical ==
    ASSUME NEW b \in 0 .. SizeMax
    PROVE  Canonical(Adjustment(EntryOpcode, b)) /\ Canonical(Adjustment(ExitOpcode, b))
  BY RegistersAssumption DEF Canonical, Adjustment, EntryOpcode, ExitOpcode

(* The frame base, too, has a canonical instruction. *)
LEMMA MaterializationIsCanonical ==
    ASSUME setup.from_adjusted \in Int64
    PROVE  Canonical(Materialization)
  BY RegistersAssumption DEF Canonical, Materialization

(* The entry consists of canonical instructions, and is countable. *)
LEMMA EntryIsCanonical ==
    ASSUME frame \in Frames, frame_size \in 0 .. SizeMax, entry \in Seq(Instruction),
           EntryComplete, setup.from_adjusted \in Int64, frame_size <= Int64Max + 1
    PROVE  /\ \A k \in 1 .. Len(entry) : Canonical(entry[k])
           /\ Len(entry) < WordModulus
  <1> DEFINE c == frame.maximum_chunk
             n == Len(entry)
             q == n - 2
  <1>1. c \in 0 .. SizeMax /\ c \in Nat /\ frame_size \in Nat /\ c >= 1
    BY FrameTypes, WordTypes DEF EntryComplete
  <1>2. n \in Nat /\ q \in Nat
    BY DEF EntryComplete
  <1>3. q * c \in Nat /\ q * c >= q
    BY <1>1, <1>2, ProductGrows
  <1>4. LastEntry = frame_size - q * c
    BY DEF LastEntry
  <1>5. LastEntry \in 0 .. c /\ (frame_size > 0 => LastEntry > 0)
    BY DEF EntryComplete
  <1>6. \A k \in 1 .. n - 2 : entry[k] = Adjustment(EntryOpcode, c)
    BY DEF EntryComplete
  <1>7. entry[n - 1] = Adjustment(EntryOpcode, LastEntry) /\ entry[n] = Materialization
    BY DEF EntryComplete
  <1>8. LastEntry \in 0 .. SizeMax
    BY <1>1, <1>5, WordTypes
  <1> HIDE DEF c
  <1>9. ASSUME NEW k \in 1 .. n
        PROVE  Canonical(entry[k])
    <2> HIDE DEF n
    <2> QED
      BY <1>1, <1>6, <1>7, <1>8, <1>2, AdjustmentIsCanonical, MaterializationIsCanonical
  <1>10. n <= Int64Max + 2
    <2> DEFINE x == q * c
    <2>2. q = n - 2
      OBVIOUS
    <2> HIDE DEF x, q, n
    <2> QED
      BY <1>1, <1>2, <1>5, <1>3, <1>4, <2>2, WordTypes
  <1> QED
    BY <1>9, <1>2, <1>10, WordHoldsCount

(* So does, and is, the exit. *)
LEMMA ExitIsCanonical ==
    ASSUME frame \in Frames, frame_size \in 0 .. SizeMax, exit \in Seq(Instruction),
           frame.maximum_chunk > 0, ExitBegun, exit # << >>, remaining = 0,
           frame_size <= Int64Max + 1
    PROVE  /\ \A k \in 1 .. Len(exit) : Canonical(exit[k])
           /\ Len(exit) < WordModulus
  <1> DEFINE c == frame.maximum_chunk
             m == Len(exit)
             q == m - 1
  <1>1. c \in 0 .. SizeMax /\ c \in Nat /\ frame_size \in Nat /\ c >= 1
    BY FrameTypes, WordTypes
  <1>2. m \in Nat /\ q \in Nat
    OBVIOUS
  <1>3. q * c \in Nat /\ q * c >= q
    BY <1>1, <1>2, ProductGrows
  <1>4. FirstExit = frame_size - q * c
    BY <1>1, <1>3 DEF FirstExit
  <1>5. FirstExit \in 0 .. c
    BY DEF ExitBegun
  <1>6. exit[1] = Adjustment(ExitOpcode, FirstExit)
        /\ \A i \in 2 .. m : exit[i] = Adjustment(ExitOpcode, c)
    BY DEF ExitBegun
  <1>7. FirstExit \in 0 .. SizeMax
    BY <1>1, <1>5, WordTypes
  <1> HIDE DEF c
  <1>8. ASSUME NEW k \in 1 .. m
        PROVE  Canonical(exit[k])
    <2> HIDE DEF m
    <2> QED
      BY <1>1, <1>6, <1>7, <1>2, AdjustmentIsCanonical
  <1>9. m <= Int64Max + 2
    <2> DEFINE x == q * c
    <2>2. q = m - 1
      OBVIOUS
    <2> HIDE DEF x, q, m
    <2> QED
      BY <1>1, <1>2, <1>5, <1>3, <1>4, <2>2, WordTypes
  <1> QED
    BY <1>8, <1>2, <1>9, WordHoldsCount

(* The bytes are those of the sequences, until they are decoded.           *)
BytesEncoded == phase = "encoded" => bytes = Encode(entry, exit)

(* The bytes of the plan are not touched between encoding and decoding. *)
LEMMA BytesStayEncoded == Spec => []BytesEncoded
  <1>1. Init => BytesEncoded
    BY DEF Init, BytesEncoded
  <1>2. BytesEncoded /\ [Next]_vars => BytesEncoded'
    <2> SUFFICES ASSUME BytesEncoded, [Next]_vars, phase' = "encoded"
                 PROVE  bytes' = Encode(entry', exit')
      BY DEF BytesEncoded
    <2>1. CASE EncodePlan
      BY <2>1 DEF EncodePlan, plan
    <2>2. CASE UNCHANGED vars
      BY <2>2 DEF vars, BytesEncoded
    <2>3. CASE Start \/ LayoutSlot \/ FinishLayout \/ StartAddressing \/ AddressSlot
      BY <2>3 DEF Start, LayoutSlot, FinishLayout, StartAddressing, AddressSlot, Throw
    <2>4. CASE DeriveEntrySetup \/ StartLegalization \/ EntryChunk \/ LastEntryChunk
               \/ FirstExitChunk \/ ExitChunk
      BY <2>4 DEF DeriveEntrySetup, StartLegalization, EntryChunk, LastEntryChunk,
                  FirstExitChunk, ExitChunk, Throw
    <2>5. CASE DecodePlan \/ ExecuteInstruction \/ Return
      BY <2>5 DEF DecodePlan, ExecuteInstruction, Return, Throw
    <2> QED
      BY <2>1, <2>2, <2>3, <2>4, <2>5 DEF Next
  <1> QED
    BY <1>1, <1>2, PTL DEF Spec

(* The plan of a frame is read back and decoding is strict, in every state *)
(* of the inductive invariant.                                             *)
LEMMA PlanIsReadBack ==
    ASSUME IInv, BytesEncoded
    PROVE  DecodingIsStrict
  <1> SUFFICES ASSUME phase = "encoded"
               PROVE  DecodingIsStrict
    BY DEF DecodingIsStrict
  <1>1. /\ frame \in Frames /\ frame_size \in 0 .. SizeMax
        /\ entry \in Seq(Instruction) /\ exit \in Seq(Instruction)
    BY DEF IInv, TypeOK
  <1>2. /\ EntryComplete /\ ExitBegun /\ exit # << >> /\ remaining = 0
    BY DEF IInv, ChunksEmitted, Legal, Running
  <1>4. Planned
    BY DEF Planned, Legal
  <1>6. frame_size <= Int64Max + 1
    BY <1>4, <1>1, WordTypes DEF IInv, CoordinatesKnown, SetupFits
  <1>8. /\ \A k \in 1 .. Len(exit) : Canonical(exit[k])
        /\ Len(exit) < WordModulus
    BY <1>1, <1>2, <1>6, ExitIsCanonical DEF EntryComplete
  <1>9. bytes \in Seq(Byte) /\ Decode(bytes) = [ok |-> TRUE, entry |-> entry, exit |-> exit]
    BY <1>1, <1>2, <1>4, BaseFits, <1>6, EntryIsCanonical, <1>8, PlanReadBack DEF
       BytesEncoded
  <1> QED
    BY <1>9, PlansAreStrict DEF DecodingIsStrict

(* The decoder reads the plan of every frame back exactly, and accepts     *)
(* neither a proper front of its bytes nor a byte behind them.             *)
THEOREM PlansAreReadBack == Spec => []DecodingIsStrict
  <1>1. IInv /\ BytesEncoded => DecodingIsStrict
    BY PlanIsReadBack
  <1> QED
    BY <1>1, InductiveInvariant, BytesStayEncoded, PTL
-----------------------------------------------------------------------------
(* The geometry of the contract is that of the layout: rounding up is      *)
(* aligning.                                                               *)
LEMMA RoundingAligns ==
    ASSUME NEW v \in Nat, NEW a \in Nat \ {0}
    PROVE  /\ RoundUp(v, a) = AlignUp(v, a)
           /\ AlignUp(v, a) \in Nat /\ v <= AlignUp(v, a)
           /\ \E t \in Nat : AlignUp(v, a) = a * t
  <1> DEFINE q == v \div a
             r == v % a
             x == a * q
  <1>1. v = x + r /\ r \in 0 .. a - 1 /\ q \in Nat /\ x \in Nat
    OBVIOUS
  <1>2. AlignUp(v, a) = IF r = 0 THEN v ELSE v + (a - r)
    BY DEF AlignUp
  <1>3. a * (q + 1) = x + a
    BY <1>1
  <1> HIDE DEF r
  <1>4. CASE r = 0
    <2> HIDE DEF q
    <2>3. RoundUp(v, a) = a * q
      BY <1>1, <1>4, DivisionIsUnique DEF RoundUp
    <2> QED
      BY <1>1, <1>2, <1>4, <2>3
  <1>5. CASE r # 0
    <2>1. v + a - 1 = a * (q + 1) + (r - 1) /\ r - 1 \in Nat /\ r - 1 < a /\ q + 1 \in Nat
      <3> HIDE DEF x, q
      <3> QED
        BY <1>1, <1>3, <1>5
    <2> DEFINE h == q + 1
    <2>2. v + a - 1 = a * h + (r - 1) /\ h \in Nat
      BY <2>1
    <2> HIDE DEF q, h, x
    <2>4. RoundUp(v, a) = a * h
      BY <2>1, <2>2, DivisionIsUnique DEF RoundUp
    <2>5. a * h = v + (a - r)
      BY <1>1, <1>3 DEF h
    <2> QED
      BY <1>1, <1>2, <1>5, <2>2, <2>4, <2>5
  <1> QED
    BY <1>1, <1>4, <1>5

(* Whole multiples of the alignment do not change what has to be added.    *)
LEMMA AligningIsPeriodic ==
    ASSUME NEW v \in Nat, NEW a \in Nat \ {0}, NEW m \in Nat
    PROVE  AlignUp(a * m + v, a) = a * m + AlignUp(v, a)
  <1> DEFINE q == v \div a
             r == v % a
             x == a * q
             y == a * m
  <1>1. v = x + r /\ r \in 0 .. a - 1 /\ q \in Nat /\ x \in Nat /\ y \in Nat
    OBVIOUS
  <1>3. AlignUp(v, a) = IF r = 0 THEN v ELSE v + (a - r)
    BY DEF AlignUp
  <1> DEFINE h == m + q
  <1>4. h \in Nat /\ a * h = y + x
    BY <1>1
  <1> HIDE DEF r, q, x, y, h
  <1>5. y + v = a * h + r /\ r \in Nat /\ r < a
    BY <1>1, <1>4
  <1>7. (y + v) % a = r
    BY <1>5, <1>4, DivisionIsUnique
  <1>9. AlignUp(y + v, a) = y + AlignUp(v, a)
    BY <1>1, <1>3, <1>7 DEF AlignUp
  <1> QED
    BY <1>9 DEF y

(* Where the slots of an accepted layout are.                              *)
LEMMA SlotGeometry ==
    ASSUME frame \in Frames, LayoutAccepted(frame), NEW k \in Nat
    PROVE  /\ SlotOffset(frame, k) \in Nat
           /\ SlotOffset(frame, 0) = 0
           /\ AlignUp(SlotOffset(frame, k) + frame.slot_size, frame.slot_alignment)
                  = SlotOffset(frame, k + 1)
           /\ \A j \in 0 .. k : SlotOffset(frame, j) <= SlotOffset(frame, k)
  <1> DEFINE a == frame.slot_alignment
             v == frame.slot_size
             R == AlignUp(v, a)
  <1>1. a \in Nat \ {0} /\ v \in Nat
    BY AlignmentsPositive
  <1>2. R = RoundUp(v, a) /\ R \in Nat /\ \E t \in Nat : R = a * t
    BY <1>1, RoundingAligns
  <1>4. PICK t \in Nat : R = a * t
    BY <1>2
  <1> HIDE DEF R, a, v
  <1>6. k * R = a * (k * t) /\ k * t \in Nat
    BY <1>1, <1>4
  <1>7. AlignUp(k * R + v, a) = k * R + R
    <2> DEFINE m == k * t
    <2>1. m \in Nat /\ k * R = a * m
      BY <1>6
    <2> HIDE DEF m
    <2>2. AlignUp(a * m + v, a) = a * m + AlignUp(v, a)
      BY <1>1, <2>1, AligningIsPeriodic
    <2> QED
      BY <2>1, <2>2 DEF R
  <1>8. ASSUME NEW j \in 0 .. k
        PROVE  j * R <= k * R
    <2>1. PICK d \in Nat : k = j + d
      OBVIOUS
    <2> QED
      BY <1>2, <2>1
  <1> QED
    BY <1>2, <1>7, <1>8 DEF a, v, SlotOffset

(* How large the frame of an accepted layout is.                           *)
LEMMA FrameGeometry ==
    ASSUME frame \in Frames, LayoutAccepted(frame)
    PROVE  /\ frame.slot_count = 0 => FrameSize(frame) = 0
           /\ frame.slot_count # 0 =>
                  FrameSize(frame)
                      = AlignUp(SlotOffset(frame, frame.slot_count - 1) + frame.slot_size,
                                frame.frame_alignment)
           /\ FrameSize(frame) \in Nat
           /\ \A k \in 0 .. frame.slot_count - 1 :
                  SlotOffset(frame, k) + frame.slot_size <= FrameSize(frame)
  <1> DEFINE a == frame.frame_alignment
             v == frame.slot_size
             n == frame.slot_count
  <1>1. a \in Nat \ {0} /\ v \in Nat /\ n \in Nat
    BY AlignmentsPositive, FrameTypes, WordTypes
  <1>2. CASE n = 0
    BY <1>1, <1>2 DEF FrameSize
  <1>3. CASE n # 0
    <2> DEFINE h == n - 1
               x == SlotOffset(frame, h)
               y == x + v
    <2>1. h \in Nat
      BY <1>1, <1>3
    <2>2. x \in Nat /\ \A k \in 0 .. h : SlotOffset(frame, k) \in Nat /\ SlotOffset(frame, k) <= x
      BY <2>1, SlotGeometry
    <2>3. y \in Nat
      BY <1>1, <2>2
    <2> HIDE DEF y, x, a, v
    <2>5. RoundUp(y, a) = AlignUp(y, a) /\ AlignUp(y, a) \in Nat /\ y <= AlignUp(y, a)
      BY <1>1, <2>3, RoundingAligns
    <2>6. \A k \in 0 .. h : SlotOffset(frame, k) + v <= AlignUp(y, a)
      BY <1>1, <2>2, <2>3, <2>5 DEF y
    <2> QED
      BY <1>3, <2>5, <2>6 DEF y, x, a, v, FrameSize
  <1> QED
    BY <1>2, <1>3
-----------------------------------------------------------------------------
(* What the phases have established of the contract: the layout has the    *)
(* offsets and the size of the contract, and every check that a later      *)
(* phase does not repeat has passed.                                       *)
GeometryKnown ==
    /\ \A k \in DOMAIN offsets : offsets[k] = SlotOffset(frame, k - 1)
    /\ cursor = IF Len(offsets) = 0 THEN 0
                ELSE SlotOffset(frame, Len(offsets) - 1) + frame.slot_size
    /\ phase \notin {"called", "layout", "rejected"} => frame_size = FrameSize(frame)

Addressable ==
    /\ frame.displacements[1] <= frame.displacements[2]
    /\ frame.anchor <= frame_size
    /\ \A k \in DOMAIN displacements :
           displacements[k] \in Int64 \cap (frame.displacements[1] .. frame.displacements[2])

Legalizable ==
    /\ PolicyAccepted(frame)
    /\ frame.immediates[1] <= setup.from_adjusted
    /\ setup.from_adjusted <= frame.immediates[2]

ChecksPassed ==
    /\ phase \in {"called", "layout", "sized"} => displacements = << >>
    /\ phase = "addressing" \/ phase = "planned" \/ phase = "legalizing_entry" \/ Legal
           => Addressable
    /\ phase = "planned" \/ phase = "legalizing_entry" \/ Legal
           => Len(displacements) = frame.slot_count
    /\ phase = "legalizing_entry" \/ Legal => Legalizable
    /\ phase = "rejected" => ~Entered
    /\ Entered => Moved(frame_size) \in Int64

JInv == IInv /\ BytesEncoded /\ GeometryKnown /\ ChecksPassed
-----------------------------------------------------------------------------
(* When the contract lets the call enter the frame. *)
Acceptable ==
    /\ FrameAccepted(frame)
    /\ entry_pointer + StackAdjustment(frame) \in Int64
    /\ entry_pointer + BaseFromEntry(frame) \in Int64

(* The contract computes with the words and the geometry of the frame.     *)
LEMMA ContractGeometry ==
    /\ Contract!Int64 = Int64
    /\ Contract!StackAdjustment(frame) = StackAdjustment(frame)
    /\ Contract!BaseFromEntry(frame) = BaseFromEntry(frame)
    /\ Contract!FrameAccepted(frame) <=> FrameAccepted(frame)
  <1>2. Contract!Int64 = Int64 /\ Contract!SizeMax = SizeMax
    BY DEF Int64, Contract!Int64, Int64Min, Contract!Int64Min, SizeMax, Contract!SizeMax
  <1>3. Contract!LayoutAccepted(frame) <=> LayoutAccepted(frame)
    BY DEF LayoutAccepted, Contract!LayoutAccepted, IsPowerOfTwo, Contract!IsPowerOfTwo
  <1>4. Contract!PolicyAccepted(frame) <=> PolicyAccepted(frame)
    BY DEF PolicyAccepted, Contract!PolicyAccepted
  <1>5. \A v, a : Contract!RoundUp(v, a) = RoundUp(v, a)
    BY DEF RoundUp, Contract!RoundUp
  <1>6. \A k : Contract!SlotOffset(frame, k) = SlotOffset(frame, k)
    BY <1>5 DEF SlotOffset, Contract!SlotOffset
  <1>7. Contract!FrameSize(frame) = FrameSize(frame)
    BY <1>5, <1>6 DEF FrameSize, Contract!FrameSize
  <1>8. \A k : Contract!Displacement(frame, k) = Displacement(frame, k)
    BY <1>6 DEF Displacement, Contract!Displacement
  <1>9. /\ Contract!StackAdjustment(frame) = StackAdjustment(frame)
        /\ Contract!BaseFromAdjusted(frame) = BaseFromAdjusted(frame)
    BY <1>7 DEF StackAdjustment, Contract!StackAdjustment,
                BaseFromAdjusted, Contract!BaseFromAdjusted
  <1>10. Contract!BaseFromEntry(frame) = BaseFromEntry(frame)
    BY <1>9 DEF BaseFromEntry, Contract!BaseFromEntry
  <1>11. \A k : Contract!SlotFromEntry(frame, k) = SlotFromEntry(frame, k)
    BY <1>8, <1>10 DEF SlotFromEntry, Contract!SlotFromEntry
  <1>12. Contract!FrameAccepted(frame) <=> FrameAccepted(frame)
    BY <1>2, <1>3, <1>4, <1>7, <1>8, <1>9, <1>10, <1>11
       DEF FrameAccepted, Contract!FrameAccepted
  <1> QED
    BY <1>2, <1>9, <1>10, <1>12

(* The contract enters the acceptable frames.                              *)
LEMMA ContractAccepts == Contract!CanEnter <=> Acceptable
  BY ContractGeometry DEF Acceptable, Contract!CanEnter

(* A call that throws before it has entered the frame is one the contract  *)
(* rejects.                                                                *)
LEMMA ThrowRejects ==
    ASSUME JInv, Throw, ~Acceptable, ~Entered, phase \notin {"rejected", "returned"}
    PROVE  Contract!Next
  <1> QED
    BY ContractAccepts DEF Contract!Next, Contract!Reject, Throw, Entered, machine

(* The steps before the frame is entered, and those after it that do not   *)
(* leave it, are no steps of the contract.                                 *)
LEMMA InternalStep ==
    ASSUME UNCHANGED <<frame, entry_pointer, after_entry>>,
           phase \notin {"rejected", "returned"}, phase' \notin {"rejected", "returned"},
           phase = "executing" => phase' = "executing",
           Entered => phase = "executing"
    PROVE  UNCHANGED Contract!vars
  BY DEF Contract!vars, Entered
-----------------------------------------------------------------------------
(* The layout has reached the next slot of the contract.                   *)
LEMMA NextOffset ==
    ASSUME JInv, phase = "layout"
    PROVE  AlignUp(cursor, frame.slot_alignment) = SlotOffset(frame, Len(offsets))
  <1>1. frame \in Frames /\ LayoutAccepted(frame) /\ offsets \in Seq(0 .. SizeMax)
    BY DEF JInv, IInv, TypeOK, SlotsLaidOut
  <1>2. frame.slot_alignment \in Nat \ {0} /\ Len(offsets) \in Nat
    BY <1>1, AlignmentsPositive
  <1>3. CASE Len(offsets) = 0
    <2>3. AlignUp(cursor, frame.slot_alignment) = 0
      BY <1>3, <1>2 DEF AlignUp, JInv, GeometryKnown
    <2> QED
      BY <1>3, <2>3, <1>1, SlotGeometry
  <1>4. CASE Len(offsets) # 0
    <2> DEFINE k == Len(offsets) - 1
    <2>1. k \in Nat /\ k + 1 = Len(offsets)
      BY <1>2, <1>4
    <2> HIDE DEF k
    <2>3. AlignUp(SlotOffset(frame, k) + frame.slot_size, frame.slot_alignment)
              = SlotOffset(frame, k + 1)
      BY <1>1, <2>1, SlotGeometry
    <2> QED
      BY <2>1, <1>4, <2>3 DEF JInv, GeometryKnown
  <1> QED
    BY <1>3, <1>4

(* The layout has reached the size of the contract.                        *)
LEMMA SizeReached ==
    ASSUME JInv, phase = "layout", Len(offsets) = frame.slot_count
    PROVE  AlignUp(cursor, frame.frame_alignment) = FrameSize(frame)
  <1>1. frame \in Frames /\ LayoutAccepted(frame)
    BY DEF JInv, IInv, TypeOK, SlotsLaidOut
  <1>3. CASE frame.slot_count = 0
    BY <1>3, <1>1, AlignmentsPositive, FrameGeometry DEF JInv, GeometryKnown, AlignUp
  <1>4. CASE frame.slot_count # 0
    BY <1>4, <1>1, FrameGeometry DEF JInv, GeometryKnown
  <1> QED
    BY <1>3, <1>4

(* The layout stays that of the contract.                                  *)
LEMMA GeometryStays ==
    ASSUME JInv, [Next]_vars
    PROVE  GeometryKnown'
  <1>1. ASSUME UNCHANGED <<frame, cursor, offsets, frame_size>>,
               \/ phase' \in {"called", "layout", "rejected"}
               \/ phase \notin {"called", "layout", "rejected"}
        PROVE  GeometryKnown'
    BY <1>1 DEF JInv, GeometryKnown
  <1>2. ASSUME Throw
        PROVE  GeometryKnown'
    BY <1>1, <1>2 DEF Throw, plan
  <1>3. CASE UNCHANGED vars
    BY <1>1, <1>3 DEF vars
  <1>4. CASE Start \/ StartAddressing \/ AddressSlot \/ DeriveEntrySetup
             \/ StartLegalization
    BY <1>1, <1>2, <1>4 DEF Start, StartAddressing, AddressSlot, DeriveEntrySetup,
                            StartLegalization, plan
  <1>5. CASE EntryChunk \/ LastEntryChunk \/ FirstExitChunk \/ ExitChunk \/ EncodePlan
    BY <1>1, <1>5 DEF EntryChunk, LastEntryChunk, FirstExitChunk, ExitChunk, EncodePlan, plan
  <1>6. CASE DecodePlan \/ ExecuteInstruction \/ Return
    BY <1>1, <1>2, <1>6 DEF DecodePlan, ExecuteInstruction, Return, plan
  <1>7. CASE LayoutSlot
    <2> DEFINE offset == AlignUp(cursor, frame.slot_alignment)
    <2>1. CASE Throw
      BY <1>2, <2>1
    <2>2. CASE /\ offsets' = Append(offsets, offset)
               /\ cursor' = offset + frame.slot_size
               /\ UNCHANGED <<frame, entry_pointer, phase, frame_size, displacements,
                              setup, remaining, entry, exit, machine>>
      <3>1. phase = "layout" /\ offsets \in Seq(0 .. SizeMax)
        BY <1>7 DEF LayoutSlot, JInv, IInv, TypeOK
      <3>2. offset = SlotOffset(frame, Len(offsets))
        BY <3>1, NextOffset
      <3> HIDE DEF offset
      <3>4. /\ Len(offsets) \in Nat /\ DOMAIN offsets = 1 .. Len(offsets)
            /\ Len(offsets') = Len(offsets) + 1
            /\ DOMAIN offsets' = 1 .. Len(offsets) + 1
            /\ \A k \in 1 .. Len(offsets) : offsets'[k] = offsets[k]
            /\ offsets'[Len(offsets) + 1] = offset
        BY <2>2, <3>1
      <3>5. ASSUME NEW k \in 1 .. Len(offsets) + 1
            PROVE  offsets'[k] = SlotOffset(frame, k - 1)
        BY <3>4, <3>2 DEF JInv, GeometryKnown
      <3> QED
        BY <3>4, <3>5, <2>2, <3>2, <3>1 DEF GeometryKnown
    <2> QED
      BY <1>7, <2>1, <2>2 DEF LayoutSlot
  <1>8. CASE FinishLayout
    BY <1>2, <1>8, SizeReached DEF FinishLayout, JInv, GeometryKnown
  <1> QED
    BY <1>3, <1>4, <1>5, <1>6, <1>7, <1>8 DEF Next
-----------------------------------------------------------------------------
(* The code never reserves more than the frame, and all of it is given     *)
(* back in the end.                                                        *)
LEMMA ReservedBounded ==
    ASSUME IInv, phase = "executing", NEW p \in 1 .. Len(code) + 1
    PROVE  /\ ReservedAt(p) \in 0 .. frame_size
           /\ ReservedAt(Len(code) + 1) = 0
  <1> DEFINE c == frame.maximum_chunk
             n == Len(entry)
             m == Len(exit)
  <1>1. /\ frame \in Frames /\ frame_size \in Nat /\ c \in Nat
        /\ entry \in Seq(Instruction) /\ exit \in Seq(Instruction)
    BY FrameTypes, WordTypes DEF IInv, TypeOK
  <1>2. EntryComplete /\ ExitBegun /\ exit # << >> /\ remaining = 0
    BY DEF IInv, ChunksEmitted, Legal, Running
  <1>4. Len(code) = n + m /\ n \in Nat /\ m \in Nat \ {0} /\ p \in Nat
    BY <1>1, <1>2 DEF IInv, StackMoved, Running
  <1>5. /\ n >= 2
        /\ LastEntry \in 0 .. c /\ LastEntry = frame_size - (n - 2) * c
    BY <1>2 DEF EntryComplete, LastEntry
  <1>6. FirstExit \in 0 .. c /\ FirstExit = frame_size - 0 - (m - 1) * c
    BY <1>2 DEF ExitBegun, FirstExit
  <1>7. ASSUME NEW k \in Nat, NEW j \in Nat, k <= j
        PROVE  k * c \in Nat /\ j * c \in Nat /\ k * c <= j * c
               /\ (j - k) * c = j * c - k * c
    <2>1. PICK d \in Nat : j = k + d
      BY <1>7
    <2> QED
      BY <2>1, <1>1, SMTT(30)
  <1>8. ASSUME p < n
        PROVE  ReservedAt(p) \in 0 .. frame_size
    <2>2. p - 1 \in Nat /\ n - 2 \in Nat /\ p - 1 <= n - 2
      BY <1>4, <1>5, <1>8
    <2> DEFINE x == (p - 1) * c
               y == (n - 2) * c
    <2>4. x \in Nat /\ y \in Nat /\ x <= y /\ LastEntry = frame_size - y /\ ReservedAt(p) = x
      BY <1>5, <1>8, <1>7, <2>2 DEF ReservedAt
    <2> HIDE DEF x, y
    <2> QED
      BY <1>1, <2>4, <1>5
  <1>9. ASSUME p >= n, p <= n + 1
        PROVE  ReservedAt(p) \in 0 .. frame_size
    BY <1>4, <1>9, <1>1 DEF ReservedAt
  <1>10. ASSUME NEW r \in Nat, r > n + 1, r <= n + m + 1
         PROVE  /\ ReservedAt(r) \in 0 .. frame_size
                /\ r = n + m + 1 => ReservedAt(r) = 0
    <2> DEFINE k == r - n - 2
               j == m - 1
               x == k * c
               y == j * c
    <2>1. ReservedAt(r) = frame_size - FirstExit - x
      BY <1>4, <1>10 DEF ReservedAt
    <2>2. k \in Nat /\ j \in Nat /\ k <= j /\ (r = n + m + 1 => k = j)
      BY <1>4, <1>10
    <2> HIDE DEF k, j
    <2>3. x \in Nat /\ y \in Nat /\ x <= y /\ (r = n + m + 1 => x = y)
      BY <1>7, <2>2
    <2>4. FirstExit = frame_size - y
      <3>1. FirstExit = frame_size - 0 - y
        BY <1>6 DEF j
      <3> HIDE DEF y
      <3> QED
        BY <1>1, <2>3, <3>1
    <2> HIDE DEF x, y
    <2> QED
      BY <1>1, <2>1, <2>3, <2>4, <1>6
  <1> QED
    BY <1>4, <1>10, <1>8, <1>9

(* An adjustment is refused exactly when it would move the stack pointer   *)
(* to an address that has no representation.                               *)
LEMMA AdjustmentFits ==
    ASSUME IInv, phase = "executing", pc <= Len(code), pc # Len(entry)
    PROVE  InstructionFits(code[pc]) <=> Moved(ReservedAt(pc + 1)) \in Int64
  <1>1. /\ frame \in Frames /\ frame.growth \in {"lower", "higher"}
        /\ entry_pointer \in Int /\ stack_pointer \in Int64
        /\ pc \in Nat /\ Len(entry) \in Nat
    BY FrameTypes, WordTypes DEF IInv, TypeOK
  <1>2. stack_pointer = Moved(ReservedAt(pc)) /\ ReservedAt(pc) \in Int
    BY <1>1, ReservedIsInteger DEF IInv, StackMoved, Legal, Running
  <1>3. PICK b \in 0 .. SizeMax :
            \/ /\ code[pc] = Adjustment(EntryOpcode, b)
               /\ ReservedAt(pc + 1) = ReservedAt(pc) + b
            \/ /\ code[pc] = Adjustment(ExitOpcode, b)
               /\ ReservedAt(pc + 1) = ReservedAt(pc) - b
    BY InstructionAt
  <1>4. code[pc].opcode \in {Decrement, Increment} /\ code[pc].operands[2] = b /\ b \in Int
    BY <1>3, WordTypes DEF Adjustment, EntryOpcode, ExitOpcode
  <1>5. CASE code[pc].opcode = Decrement
    <2>2. \/ frame.growth = "lower" /\ ReservedAt(pc + 1) = ReservedAt(pc) + b
          \/ frame.growth # "lower" /\ ReservedAt(pc + 1) = ReservedAt(pc) - b
      BY <1>3, <1>5 DEF Adjustment, EntryOpcode, ExitOpcode, Decrement, Increment
    <2>3. stack_pointer - b = Moved(ReservedAt(pc + 1))
      BY <1>1, <1>2, <1>4, <2>2, SMTT(30) DEF Moved
    <2> QED
      BY <1>1, <1>4, <1>5, PointerChecksExact, <2>3 DEF Decrement, Increment, FrameBase,
         InstructionFits
  <1>6. CASE code[pc].opcode = Increment
    <2>2. \/ frame.growth # "lower" /\ ReservedAt(pc + 1) = ReservedAt(pc) + b
          \/ frame.growth = "lower" /\ ReservedAt(pc + 1) = ReservedAt(pc) - b
      BY <1>3, <1>6 DEF Adjustment, EntryOpcode, ExitOpcode, Decrement, Increment
    <2>3. stack_pointer + b = Moved(ReservedAt(pc + 1))
      BY <1>1, <1>2, <1>4, <2>2, SMTT(30) DEF Moved
    <2> QED
      BY <1>1, <1>4, <1>6, PointerChecksExact, <2>3 DEF Decrement, Increment, FrameBase,
         InstructionFits
  <1> QED
    BY <1>4, <1>5, <1>6

(* The addresses between two that exist exist.                             *)
LEMMA AddressesBetween ==
    ASSUME frame_size \in Nat, entry_pointer \in Int64, NEW b \in 0 .. frame_size,
           Moved(frame_size) \in Int64
    PROVE  Moved(b) \in Int64
  BY WordTypes DEF Moved

(* Once the frame is entered, nothing of the code throws.                  *)
LEMMA ExitFits ==
    ASSUME JInv, phase = "executing", pc <= Len(code), pc > Len(entry)
    PROVE  InstructionFits(code[pc])
  <1>1. IInv /\ Entered /\ Moved(frame_size) \in Int64
    BY DEF JInv, IInv, StackMoved, Running, ChecksPassed
  <1>2. /\ frame_size \in Nat /\ entry_pointer \in Int64 /\ pc \in Nat \ {0}
        /\ Len(entry) \in Nat /\ Len(code) \in Nat
    BY <1>1, WordTypes DEF IInv, TypeOK
  <1> QED
    BY <1>1, <1>2, ReservedBounded, AddressesBetween, AdjustmentFits
-----------------------------------------------------------------------------
(* Before its code runs the call has not entered the frame, and after it   *)
(* has nothing throws.                                                     *)
LEMMA NotYetEntered ==
    ASSUME IInv, phase \notin {"executing", "returned", "rejected"}
    PROVE  ~Entered
  BY DEF IInv, StackMoved, Running

(* A step that throws is one of a call that has not entered its frame. *)
LEMMA ThrownBeforeEntry ==
    ASSUME JInv, Next, Throw
    PROVE  ~Entered
  <1>1. IInv /\ phase' = "rejected"
    BY DEF JInv, Throw
  <1>2. CASE phase \notin {"executing", "returned", "rejected"}
    BY <1>1, <1>2, NotYetEntered
  <1>3. CASE phase \in {"executing", "returned", "rejected"}
    <2>1. ExecuteInstruction
      BY <1>1, <1>3 DEF Next, Start, LayoutSlot, FinishLayout, StartAddressing, AddressSlot,
                        DeriveEntrySetup, StartLegalization, EntryChunk, LastEntryChunk,
                        FirstExitChunk, ExitChunk, EncodePlan, DecodePlan, Return
    <2> QED
      BY <1>1, <2>1, ExitFits DEF IInv, StackMoved, Running, ExecuteInstruction
  <1> QED
    BY <1>2, <1>3

(* The checks stay passed.                                                 *)
LEMMA ChecksStay ==
    ASSUME JInv, [Next]_vars
    PROVE  ChecksPassed'
  <1>1. IInv /\ ChecksPassed
    BY DEF JInv
  <1>2. ASSUME UNCHANGED <<frame, frame_size, displacements>>, Addressable
        PROVE  Addressable'
    BY <1>2 DEF Addressable
  <1>3. ASSUME UNCHANGED <<frame, setup>>, Legalizable
        PROVE  Legalizable'
    BY <1>3 DEF Legalizable
  <1>4. ASSUME UNCHANGED <<frame, entry_pointer, frame_size, after_entry>>
        PROVE  (Entered => Moved(frame_size) \in Int64)' /\ Entered' = Entered
    BY <1>1, <1>4 DEF ChecksPassed, Entered, Moved
  <1>5. ASSUME Next, Throw
        PROVE  ChecksPassed'
    BY <1>5, ThrownBeforeEntry DEF Throw, machine, ChecksPassed, Legal, Running, Entered
  <1>6. CASE UNCHANGED vars
    BY <1>6, <1>1, <1>2, <1>3, <1>4 DEF vars, ChecksPassed, Legal, Running
  <1>7. CASE Next /\ ~Throw /\ (Start \/ LayoutSlot \/ FinishLayout)
    <2>1. /\ phase \in {"called", "layout"} /\ phase' \in {"layout", "sized"}
          /\ UNCHANGED <<displacements, after_entry>>
      BY <1>7 DEF Start, LayoutSlot, FinishLayout, plan, machine
    <2> QED
      BY <2>1, <1>1, NotYetEntered DEF ChecksPassed, Legal, Running, Entered
  <1>8. CASE Next /\ ~Throw /\ StartAddressing
    <2>1. /\ phase = "sized" /\ phase' = "addressing"
          /\ frame.displacements[1] <= frame.displacements[2]
          /\ frame.anchor <= frame_size
          /\ UNCHANGED <<frame, frame_size, displacements, after_entry>>
      BY <1>8 DEF StartAddressing, plan, machine
    <2> QED
      BY <2>1, <1>1, NotYetEntered DEF ChecksPassed, Legal, Running, Entered, Addressable
  <1>9. CASE Next /\ ~Throw /\ AddressSlot
    <2> DEFINE k0           == Len(displacements) + 1
               displacement == offsets[k0] - frame.anchor
    <2>1. /\ phase = "addressing" /\ Len(displacements) < frame.slot_count
          /\ SizeDifferenceFits(offsets[k0], frame.anchor)
          /\ displacement >= frame.displacements[1]
          /\ displacement <= frame.displacements[2]
          /\ displacements' = Append(displacements, displacement)
          /\ UNCHANGED <<frame, entry_pointer, phase, frame_size, after_entry>>
      BY <1>9 DEF AddressSlot, machine
    <2>2. /\ frame \in Frames /\ displacements \in Seq(Int) /\ offsets \in Seq(0 .. SizeMax)
          /\ Len(offsets) = frame.slot_count
      BY <1>1, <2>1 DEF IInv, TypeOK, SlotsLaidOut, Sized
    <2>3. k0 \in DOMAIN offsets /\ offsets[k0] \in 0 .. SizeMax
      <3>3. k0 \in DOMAIN offsets
        BY <2>1, <2>2
      <3>4. offsets[k0] \in 0 .. SizeMax
        <4> HIDE DEF k0
        <4> QED
          BY <3>3, <2>2, WordTypes
      <3> QED
        BY <3>3, <3>4
    <2>4. displacement \in Int64
      BY <2>1, <2>2, <2>3, FrameTypes, SizeChecksExact
    <2>5. displacement \in Int64 \cap (frame.displacements[1] .. frame.displacements[2])
      BY <2>1, <2>2, <2>4, FrameTypes, WordTypes
    <2> HIDE DEF displacement
    <2>6. /\ DOMAIN displacements = 1 .. Len(displacements) /\ Len(displacements) \in Nat
          /\ DOMAIN displacements' = 1 .. Len(displacements) + 1
          /\ \A k \in 1 .. Len(displacements) : displacements'[k] = displacements[k]
          /\ displacements'[Len(displacements) + 1] = displacement
      BY <2>1, <2>2, <2>5, WordTypes
    <2>7. Addressable
      BY <1>1, <2>1 DEF ChecksPassed
    <2>8. \A k \in DOMAIN displacements' :
              displacements'[k]
                  \in Int64 \cap (frame.displacements[1] .. frame.displacements[2])
      <3> SUFFICES ASSUME NEW k \in 1 .. Len(displacements) + 1
                   PROVE  displacements'[k] \in
                              Int64 \cap (frame.displacements[1] .. frame.displacements[2])
        BY <2>6
      <3>1. CASE k \in 1 .. Len(displacements)
        BY <2>6, <2>7, <3>1 DEF Addressable
      <3>2. CASE k = Len(displacements) + 1
        BY <2>5, <2>6, <3>2
      <3> QED
        BY <2>6, <3>1, <3>2
    <2>10. ~Entered
      BY <1>1, <2>1, NotYetEntered
    <2> QED
      BY <2>1, <2>7, <2>8, <2>10 DEF ChecksPassed, Legal, Running, Entered, Addressable
  <1>10. CASE Next /\ ~Throw /\ DeriveEntrySetup
    <2>1. /\ phase = "addressing" /\ phase' = "planned"
          /\ Len(displacements) = frame.slot_count
          /\ UNCHANGED <<frame, entry_pointer, frame_size, displacements, after_entry>>
      BY <1>10 DEF DeriveEntrySetup, machine
    <2> QED
      BY <1>2, <2>1, <1>1, NotYetEntered DEF ChecksPassed, Legal, Running, Entered
  <1>11. CASE Next /\ ~Throw /\ StartLegalization
    <2>1. /\ phase = "planned" /\ phase' = "legalizing_entry"
          /\ PolicyAccepted(frame)
          /\ setup.from_adjusted >= frame.immediates[1]
          /\ setup.from_adjusted <= frame.immediates[2]
          /\ UNCHANGED <<frame, entry_pointer, frame_size, displacements, setup, after_entry>>
      BY <1>11 DEF StartLegalization, machine
    <2>2. Addressable /\ ~Entered /\ Len(displacements) = frame.slot_count
      BY <1>1, <2>1, NotYetEntered DEF ChecksPassed
    <2>4. Legalizable
      BY <2>1, <1>1, BaseFits, FrameTypes, WordTypes DEF Legalizable, Planned, IInv, TypeOK
    <2> QED
      BY <1>2, <1>3, <2>1, <2>2, <2>4 DEF ChecksPassed, Legal, Running, Entered
  <1>12. CASE Next /\ ~Throw /\ (EntryChunk \/ LastEntryChunk \/ FirstExitChunk \/ ExitChunk
                                 \/ EncodePlan \/ DecodePlan \/ Return)
    <2>1. /\ phase = "legalizing_entry" \/ Legal
          /\ phase' = "legalizing_entry" \/ Legal'
          /\ UNCHANGED <<frame, entry_pointer, frame_size, displacements, setup, after_entry>>
      BY <1>12 DEF EntryChunk, LastEntryChunk, FirstExitChunk, ExitChunk, EncodePlan, DecodePlan,
                   Return, plan, machine, Legal, Running
    <2> QED
      BY <1>1, <1>2, <1>3, <1>4, <2>1 DEF ChecksPassed, Legal, Running
  <1>13. CASE Next /\ ~Throw /\ ExecuteInstruction
    <2>1. /\ phase = "executing" /\ phase' = "executing" /\ pc <= Len(code)
          /\ InstructionFits(code[pc])
          /\ after_entry' = IF pc = Len(entry) THEN <<stack_pointer', frame_base'>>
                            ELSE after_entry
          /\ UNCHANGED <<frame, entry_pointer, frame_size, displacements, setup>>
      BY <1>13 DEF ExecuteInstruction, plan
    <2>3. Entered' => Moved(frame_size)' \in Int64
      <3>1. CASE pc = Len(entry)
        BY <3>1, <1>1, <2>1 DEF ReservedAt, IInv, TypeOK, StackMoved, Running, Moved
      <3>2. CASE pc # Len(entry)
        BY <1>4, <2>1, <3>2
      <3> QED
        BY <3>1, <3>2
    <2> QED
      BY <2>1, <1>1, <1>2, <1>3, <2>3 DEF ChecksPassed, Legal, Running
  <1> QED
    BY <1>5, <1>6, <1>7, <1>8, <1>9, <1>10, <1>11, <1>12, <1>13 DEF Next
-----------------------------------------------------------------------------
(* The numbers of the plan are those of the contract.                      *)
LEMMA ContractNumbers ==
    ASSUME frame \in Frames, entry_pointer \in Int64, frame_size \in 0 .. SizeMax,
           frame_size = FrameSize(frame)
    PROVE  /\ StackAdjustment(frame) \in Int /\ BaseFromAdjusted(frame) \in Int
           /\ BaseFromAdjusted(frame) = SetupOf(frame_size, frame.anchor).from_adjusted
           /\ Moved(frame_size) = entry_pointer + StackAdjustment(frame)
           /\ Moved(frame_size) + BaseFromAdjusted(frame)
                  = entry_pointer + BaseFromEntry(frame)
  <1>2. /\ StackAdjustment(frame) = IF frame.growth = "lower" THEN -frame_size ELSE frame_size
        /\ BaseFromAdjusted(frame) = IF frame.growth = "lower" THEN frame.anchor
                                     ELSE frame.anchor - frame_size
    BY DEF StackAdjustment, BaseFromAdjusted
  <1>6. BaseFromEntry(frame) = StackAdjustment(frame) + BaseFromAdjusted(frame)
    BY DEF BaseFromEntry
  <1> QED
    BY FrameTypes, WordTypes, <1>2, <1>6 DEF SetupOf, Moved

(* The checks of the coordinates are exact, the composed address of every  *)
(* slot included.                                                          *)
LEMMA SetupChecksExact ==
    ASSUME frame \in Frames, frame_size \in 0 .. SizeMax, frame_size = FrameSize(frame),
           offsets \in Seq(0 .. SizeMax), Len(offsets) = frame.slot_count,
           \A k \in DOMAIN offsets : offsets[k] = SlotOffset(frame, k - 1)
    PROVE  SetupFits(frame_size, frame.anchor) <=>
               /\ StackAdjustment(frame) \in Int64
               /\ BaseFromAdjusted(frame) \in Int64
               /\ BaseFromEntry(frame) \in Int64
               /\ \A slot \in 0 .. frame.slot_count - 1 : SlotFromEntry(frame, slot) \in Int64
  <1> DEFINE n == frame.slot_count
             a == frame.anchor
  <1>1. /\ frame.growth \in {"lower", "higher"} /\ a \in 0 .. SizeMax /\ a \in Nat
        /\ frame_size \in Nat /\ n \in Nat
    BY FrameTypes, WordTypes
  <1>2. DOMAIN offsets = 1 .. n /\ \A k \in 1 .. n : offsets[k] \in 0 .. SizeMax
    BY WordTypes
  <1>3. \A slot \in 0 .. n - 1 : slot + 1 \in 1 .. n /\ (slot + 1) - 1 = slot
    BY <1>1
  <1>4. \A k \in 1 .. n : k - 1 \in 0 .. n - 1
    BY <1>1
  <1>5. \A k \in 1 .. n : SlotOffset(frame, k - 1) = offsets[k]
    BY <1>2
  <1>6. CASE frame.growth = "lower"
    <2>1. /\ StackAdjustment(frame) = -frame_size /\ BaseFromAdjusted(frame) = a
          /\ BaseFromEntry(frame) = -frame_size + a
      BY <1>6 DEF StackAdjustment, BaseFromAdjusted, BaseFromEntry
    <2>2. ASSUME NEW k \in 1 .. n
          PROVE  SlotFromEntry(frame, k - 1) = offsets[k] - frame_size
      BY <1>5, <2>1, <1>2, WordTypes, <1>1 DEF SlotFromEntry, Displacement
    <2>3. \A k \in 1 .. n : SizeDifferenceFits(offsets[k], frame_size)
                                <=> SlotFromEntry(frame, k - 1) \in Int64
      BY <1>2, <2>2, SizeChecksExact
    <2>5. SizeDifferenceFits(a, frame_size) <=> BaseFromEntry(frame) \in Int64
      BY <1>1, <2>1, SizeChecksExact, SMTT(30)
    <2>6. /\ frame_size <= Int64Max + 1 <=> StackAdjustment(frame) \in Int64
          /\ a <= Int64Max <=> BaseFromAdjusted(frame) \in Int64
      <3>1. -frame_size \in Int64 <=> frame_size <= Int64Max + 1
        BY <1>1, WordTypes
      <3> QED
        BY <2>1, <3>1, <1>1, WordTypes
    <2>7. SetupFits(frame_size, a) <=>
              /\ frame_size <= Int64Max + 1
              /\ a <= Int64Max
              /\ SizeDifferenceFits(a, frame_size)
              /\ \A k \in 1 .. n : SizeDifferenceFits(offsets[k], frame_size)
      BY <1>2, <1>6 DEF SetupFits
    <2> QED
      BY <1>3, <1>4, <2>3, <2>5, <2>6, <2>7
  <1>7. CASE frame.growth # "lower"
    <2>1. /\ StackAdjustment(frame) = frame_size /\ BaseFromAdjusted(frame) = a - frame_size
          /\ BaseFromEntry(frame) = frame_size + (a - frame_size)
      BY <1>7 DEF StackAdjustment, BaseFromAdjusted, BaseFromEntry
    <2>2. ASSUME NEW k \in 1 .. n
          PROVE  SlotFromEntry(frame, k - 1) = offsets[k] /\ offsets[k] \in Nat
      BY <1>5, <2>1, <1>2, WordTypes, <1>1 DEF SlotFromEntry, Displacement
    <2>3. \A k \in 1 .. n : offsets[k] <= Int64Max
                                <=> SlotFromEntry(frame, k - 1) \in Int64
      BY ONLY <2>2, WordTypes
    <2>6. /\ frame_size <= Int64Max <=> StackAdjustment(frame) \in Int64
          /\ a <= Int64Max <=> BaseFromEntry(frame) \in Int64
      BY <1>1, <2>1, WordTypes
    <2>7. SetupFits(frame_size, a) <=>
              /\ frame_size <= Int64Max
              /\ a <= Int64Max
              /\ SizeDifferenceFits(a, frame_size)
              /\ \A k \in 1 .. n : offsets[k] <= Int64Max
      BY <1>2, <1>7 DEF SetupFits
    <2> QED
      BY <1>3, <1>4, <2>3, <1>1, <2>1, SizeChecksExact, <2>6, <2>7
  <1> QED
    BY <1>6, <1>7
-----------------------------------------------------------------------------
(* The layout throws only when the frame does not fit a size.              *)
LEMMA LayoutThrows ==
    ASSUME JInv,
           \/ LayoutSlot /\ Throw
           \/ FinishLayout /\ Throw
    PROVE  ~Acceptable
  <1>1. /\ phase = "layout" /\ phase' = "rejected"
        /\ frame \in Frames /\ LayoutAccepted(frame)
        /\ cursor \in 0 .. SizeMax /\ offsets \in Seq(0 .. SizeMax)
    BY DEF LayoutSlot, FinishLayout, Throw, JInv, IInv, TypeOK, SlotsLaidOut
  <1>2. /\ frame.slot_alignment \in Nat \ {0} /\ frame.frame_alignment \in Nat \ {0}
        /\ frame.slot_size \in 0 .. SizeMax /\ frame.slot_size \in Nat
        /\ frame.slot_count \in Nat /\ SizeMax \in Nat /\ Len(offsets) \in Nat
    BY <1>1, AlignmentsPositive, FrameTypes, WordTypes
  <1>3. FrameSize(frame) \in Nat
    BY <1>1, FrameGeometry
  <1>4. SUFFICES FrameSize(frame) > SizeMax
    BY <1>2, <1>3 DEF Acceptable, FrameAccepted
  <1>5. CASE LayoutSlot
    <2> DEFINE offset == AlignUp(cursor, frame.slot_alignment)
    <2>1. /\ Len(offsets) < frame.slot_count
          /\ ~(AlignUpFits(cursor, frame.slot_alignment)
               /\ SizeAddFits(offset, frame.slot_size))
      BY <1>1, <1>5 DEF LayoutSlot
    <2>3. offset + frame.slot_size <= FrameSize(frame)
      BY <1>2, <2>1, <1>1, NextOffset, FrameGeometry
    <2>4. offset \in Nat /\ (AlignUpFits(cursor, frame.slot_alignment) <=> offset <= SizeMax)
      BY <1>1, <1>2, AlignUpFacts
    <2> HIDE DEF offset
    <2>5. CASE offset <= SizeMax
      <3>2. ~(offset + frame.slot_size <= SizeMax)
        BY <1>2, <2>1, <2>4, <2>5, WordTypes, SizeChecksExact
      <3> QED
        BY <1>2, <1>3, <2>3, <2>4, <3>2
    <2>6. CASE ~(offset <= SizeMax)
      BY <1>2, <1>3, <2>3, <2>4, <2>6
    <2> QED
      BY <2>5, <2>6
  <1>6. CASE FinishLayout
    <2>1. /\ Len(offsets) = frame.slot_count
          /\ ~AlignUpFits(cursor, frame.frame_alignment)
      BY <1>1, <1>6 DEF FinishLayout
    <2>3. ~(AlignUp(cursor, frame.frame_alignment) <= SizeMax)
      BY <1>1, <1>2, <2>1, AlignUpFacts
    <2> QED
      BY <1>2, <1>3, <1>1, <2>1, SizeReached, <2>3
  <1> QED
    BY <1>5, <1>6

(* What is known of a frame that has been laid out.                        *)
LEMMA LaidOut ==
    ASSUME JInv, phase \notin {"called", "layout", "rejected"}
    PROVE  /\ frame \in Frames /\ LayoutAccepted(frame) /\ entry_pointer \in Int64
           /\ frame_size \in 0 .. SizeMax /\ frame_size = FrameSize(frame)
           /\ offsets \in Seq(0 .. SizeMax) /\ Len(offsets) = frame.slot_count
           /\ \A k \in DOMAIN offsets : offsets[k] = SlotOffset(frame, k - 1)
           /\ displacements \in Seq(Int)
           /\ \A k \in DOMAIN displacements : displacements[k] = offsets[k] - frame.anchor
  <1> QED
    BY DEF JInv, IInv, TypeOK, SlotsLaidOut, GeometryKnown, Sized

(* The addressing throws only when the anchor is outside the frame or a    *)
(* displacement is out of the configured range.                            *)
LEMMA AddressingThrows ==
    ASSUME JInv,
           \/ StartAddressing /\ Throw
           \/ AddressSlot /\ Throw
    PROVE  ~Acceptable
  <1>1. phase \in {"sized", "addressing"} /\ phase' = "rejected"
    BY DEF StartAddressing, AddressSlot, Throw
  <1>2. /\ frame \in Frames /\ frame_size = FrameSize(frame) /\ displacements \in Seq(Int)
        /\ offsets \in Seq(0 .. SizeMax) /\ Len(offsets) = frame.slot_count
        /\ \A k \in DOMAIN offsets : offsets[k] = SlotOffset(frame, k - 1)
    BY <1>1, LaidOut
  <1>3. CASE StartAddressing
    BY <1>1, <1>2, <1>3 DEF StartAddressing, Acceptable, FrameAccepted
  <1>4. CASE AddressSlot
    <2> DEFINE k0           == Len(displacements) + 1
               displacement == offsets[k0] - frame.anchor
    <2>1. /\ Len(displacements) < frame.slot_count
          /\ ~ /\ SizeDifferenceFits(offsets[k0], frame.anchor)
               /\ displacement >= frame.displacements[1]
               /\ displacement <= frame.displacements[2]
      BY <1>1, <1>4 DEF AddressSlot
    <2>2. /\ Len(displacements) \in Nat /\ frame.slot_count \in Nat
          /\ frame.anchor \in 0 .. SizeMax
          /\ frame.displacements[1] \in Int64 /\ frame.displacements[2] \in Int64
      BY <1>2, FrameTypes, WordTypes
    <2>3. k0 \in DOMAIN offsets /\ Len(displacements) = k0 - 1
          /\ Len(displacements) \in 0 .. frame.slot_count - 1
      BY <1>2, <2>1, <2>2
    <2>4. offsets[k0] \in 0 .. SizeMax
      <3> HIDE DEF k0
      <3> QED
        BY <2>3, <1>2, WordTypes
    <2>5. SizeDifferenceFits(offsets[k0], frame.anchor) <=> displacement \in Int64
      <3> HIDE DEF k0
      <3> QED
        BY <2>2, <2>4, SizeChecksExact
    <2>6. /\ \A n \in Int64 : n \in Int
          /\ frame.displacements[1] \in Int /\ frame.displacements[2] \in Int
      BY <2>2, WordTypes
    <2>7. displacement
              \notin Int64 \cap (frame.displacements[1] .. frame.displacements[2])
      <3> HIDE DEF displacement
      <3> QED
        BY ONLY <2>1, <2>5, <2>6
    <2> QED
      BY <2>3, <1>2, <2>7 DEF Acceptable, FrameAccepted, Displacement
  <1> QED
    BY <1>3, <1>4

(* The planning throws only when a coordinate has no representation or an  *)
(* immediate is out of the configured range.                               *)
LEMMA PlanningThrows ==
    ASSUME JInv,
           \/ DeriveEntrySetup /\ Throw
           \/ StartLegalization /\ Throw
    PROVE  ~Acceptable
  <1>1. phase \in {"addressing", "planned"} /\ phase' = "rejected"
    BY DEF DeriveEntrySetup, StartLegalization, Throw
  <1>2. /\ frame \in Frames /\ frame_size \in 0 .. SizeMax /\ frame_size = FrameSize(frame)
        /\ entry_pointer \in Int64
        /\ offsets \in Seq(0 .. SizeMax) /\ Len(offsets) = frame.slot_count
        /\ \A k \in DOMAIN offsets : offsets[k] = SlotOffset(frame, k - 1)
    BY <1>1, LaidOut
  <1>3. CASE DeriveEntrySetup
    BY <1>1, <1>3, <1>2, SetupChecksExact DEF DeriveEntrySetup, Acceptable, FrameAccepted
  <1>4. CASE StartLegalization
    <2>1. /\ phase = "planned"
          /\ ~ /\ PolicyAccepted(frame)
               /\ setup.from_adjusted >= frame.immediates[1]
               /\ setup.from_adjusted <= frame.immediates[2]
      BY <1>1, <1>4 DEF StartLegalization
    <2>3. frame.immediates[1] \in Int /\ frame.immediates[2] \in Int
      BY <1>2, FrameTypes, WordTypes
    <2>4. ~(PolicyAccepted(frame)
            /\ BaseFromAdjusted(frame) \in frame.immediates[1] .. frame.immediates[2])
      BY <2>1, <1>2, ContractNumbers, <2>3 DEF JInv, IInv, CoordinatesKnown, Planned
    <2> QED
      BY <2>4 DEF Acceptable, FrameAccepted
  <1> QED
    BY <1>3, <1>4

(* The plan that is encoded is the plan that is decoded: no plan throws.   *)
LEMMA DecodingNeverThrows ==
    ASSUME JInv, DecodePlan, Throw
    PROVE  FALSE
  <1> QED
    BY PlanIsReadBack DEF DecodingIsStrict, JInv, DecodePlan, Throw

(* The code throws only when the stack pointer it would reserve the frame  *)
(* at, or the frame base, does not exist.                                  *)
LEMMA ExecutionThrows ==
    ASSUME JInv, ExecuteInstruction, Throw
    PROVE  ~Acceptable
  <1>1. /\ phase = "executing" /\ phase' = "rejected" /\ pc <= Len(code)
        /\ ~InstructionFits(code[pc])
    BY DEF ExecuteInstruction, Throw
  <1>2. IInv
    BY DEF JInv
  <1>3. /\ frame \in Frames /\ frame_size \in 0 .. SizeMax /\ frame_size = FrameSize(frame)
        /\ entry_pointer \in Int64
    BY <1>1, LaidOut
  <1>4. /\ StackAdjustment(frame) \in Int /\ BaseFromAdjusted(frame) \in Int
        /\ BaseFromAdjusted(frame) = SetupOf(frame_size, frame.anchor).from_adjusted
        /\ Moved(frame_size) = entry_pointer + StackAdjustment(frame)
        /\ Moved(frame_size) + BaseFromAdjusted(frame) = entry_pointer + BaseFromEntry(frame)
    BY <1>3, ContractNumbers
  <1>6. /\ pc \in Nat \ {0} /\ Len(entry) \in Nat /\ Len(code) \in Nat
    BY <1>2 DEF IInv, TypeOK
  <1>7. CASE pc < Len(entry)
    <2>4. frame_size \in Nat
      BY <1>3, WordTypes
    <2>5. Moved(frame_size) \notin Int64
      BY <1>3, <1>1, <1>2, <1>6, <1>7, AdjustmentFits, ReservedBounded, <2>4,
         AddressesBetween
    <2> QED
      BY <1>4, <2>5 DEF Acceptable
  <1>8. CASE pc = Len(entry)
    <2>1. code[pc] = Materialization /\ ReservedAt(pc) = frame_size
      BY <1>1, <1>2, <1>6, <1>8, InstructionAt
    <2>2. /\ stack_pointer \in Int64 /\ stack_pointer = Moved(frame_size)
          /\ setup = SetupOf(frame_size, frame.anchor)
      BY <1>1, <1>2, <2>1 DEF IInv, TypeOK, StackMoved, CoordinatesKnown, Planned, Legal,
                              Running
    <2>4. ~SignedAddFits(stack_pointer, setup.from_adjusted)
      BY <2>1, <1>1 DEF Materialization, InstructionFits, Decrement, Increment, FrameBase
    <2>5. stack_pointer + setup.from_adjusted \notin Int64
      BY <2>2, <1>1, <1>2, BaseFits, <2>4, SignedChecksExact DEF Planned, Legal, Running
    <2> QED
      BY <1>4, <2>2, <2>5 DEF Acceptable
  <1> QED
    BY <1>1, ExitFits, <1>6, <1>7, <1>8
(* A frame whose code runs is one the contract accepts.                    *)
LEMMA RunningIsAccepted ==
    ASSUME JInv, phase = "executing"
    PROVE  FrameAccepted(frame)
  <1>1. /\ frame \in Frames /\ LayoutAccepted(frame) /\ entry_pointer \in Int64
        /\ frame_size \in 0 .. SizeMax /\ frame_size = FrameSize(frame)
        /\ offsets \in Seq(0 .. SizeMax) /\ Len(offsets) = frame.slot_count
        /\ \A k \in DOMAIN offsets : offsets[k] = SlotOffset(frame, k - 1)
        /\ displacements \in Seq(Int)
        /\ \A k \in DOMAIN displacements : displacements[k] = offsets[k] - frame.anchor
    BY LaidOut
  <1>2. /\ Addressable /\ Legalizable /\ Len(displacements) = frame.slot_count
        /\ setup = SetupOf(frame_size, frame.anchor)
        /\ SetupFits(frame_size, frame.anchor)
    BY DEF JInv, IInv, ChecksPassed, CoordinatesKnown, Planned, Legal, Running
  <1>3. /\ StackAdjustment(frame) \in Int64
        /\ BaseFromAdjusted(frame) \in Int64
        /\ BaseFromEntry(frame) \in Int64
        /\ \A slot \in 0 .. frame.slot_count - 1 : SlotFromEntry(frame, slot) \in Int64
    BY <1>1, <1>2, SetupChecksExact
  <1>4. frame.slot_count \in Nat
    BY <1>1, FrameTypes, WordTypes
  <1>5. ASSUME NEW slot \in 0 .. frame.slot_count - 1
        PROVE  Displacement(frame, slot) \in
                   Int64 \cap (frame.displacements[1] .. frame.displacements[2])
    <2> DEFINE k == slot + 1
    <2>1. /\ DOMAIN displacements = 1 .. frame.slot_count
          /\ DOMAIN offsets = 1 .. frame.slot_count
      BY <1>1, <1>2
    <2>2. k \in 1 .. frame.slot_count /\ k - 1 = slot
      BY <1>4
    <2> HIDE DEF k
    <2>4. displacements[k] \in Int64 \cap (frame.displacements[1] .. frame.displacements[2])
      BY <1>2, <2>1, <2>2 DEF Addressable
    <2> QED
      BY <1>1, <2>1, <2>2, <2>4 DEF Displacement
  <1>6. setup.from_adjusted = BaseFromAdjusted(frame)
    BY <1>1, <1>2, ContractNumbers
  <1>7. BaseFromAdjusted(frame) \in frame.immediates[1] .. frame.immediates[2]
    BY <1>1, <1>3, FrameTypes, WordTypes, <1>2, <1>6 DEF Legalizable
  <1> QED
    BY <1>1, <1>3, <1>5, <1>7, <1>2, WordTypes DEF FrameAccepted, Addressable, Legalizable

(* The instruction that sets the frame base enters the frame.              *)
LEMMA MaterializationEnters ==
    ASSUME JInv, IInv', ExecuteInstruction, ~Throw, pc = Len(entry)
    PROVE  Contract!Enter
  <1>1. /\ phase = "executing" /\ phase' = "executing" /\ pc <= Len(code)
        /\ after_entry' = <<stack_pointer', frame_base'>>
        /\ pc' = pc + 1
        /\ UNCHANGED <<frame, entry_pointer, frame_size, setup, entry>>
    BY DEF ExecuteInstruction, plan
  <1>3. ~Entered /\ setup = SetupOf(frame_size, frame.anchor)
    BY <1>1 DEF IInv, StackMoved, CoordinatesKnown, Planned, Legal, Running, JInv, TypeOK
  <1>5. Entered'
    BY <1>1 DEF Entered
  <1>8. /\ stack_pointer' = entry_pointer + StackAdjustment(frame)
        /\ frame_base' = entry_pointer + BaseFromEntry(frame)
    BY <1>3, <1>5, <1>1, LaidOut, ContractNumbers DEF IInv, StackMoved, Moved
  <1>9. Acceptable
    BY <1>1, <1>8, RunningIsAccepted DEF Acceptable, IInv, TypeOK
  <1> QED
    BY <1>1, <1>3, <1>5, <1>8, <1>9, ContractAccepts, ContractGeometry DEF Contract!Enter,
       Entered

(* The call returns the stack pointer it was given.                        *)
LEMMA ReturnLeaves ==
    ASSUME JInv, Return
    PROVE  Contract!Leave
  <1>1. /\ phase = "executing" /\ phase' = "returned" /\ pc = Len(code) + 1
        /\ UNCHANGED <<frame, entry_pointer, stack_pointer, frame_base, after_entry>>
    BY DEF Return, machine
  <1>2. IInv
    BY DEF JInv
  <1>3. /\ code = entry \o exit /\ entry \in Seq(Instruction) /\ exit \in Seq(Instruction)
        /\ entry_pointer \in Int
        /\ stack_pointer = Moved(ReservedAt(pc)) /\ (Entered <=> pc > Len(entry))
    BY <1>1, <1>2, WordTypes DEF IInv, TypeOK, StackMoved, Running
  <1>4. Len(code) + 1 \in 1 .. Len(code) + 1 /\ pc > Len(entry)
    BY <1>1, <1>3
  <1> QED
    BY <1>1, <1>3, <1>4, <1>2, ReservedBounded DEF Contract!Leave, Entered, Moved

(* Every step of the call is a step of the contract, or none.              *)
LEMMA StepImplements ==
    ASSUME JInv, IInv', [Next]_vars
    PROVE  Contract!Next \/ UNCHANGED Contract!vars
  <1>3. CASE UNCHANGED vars
    BY <1>3 DEF vars, Contract!vars
  <1>4. CASE Next /\ Throw
    <2>2. phase' = "rejected"
      BY <1>4 DEF Throw
    <2>3. ~Acceptable /\ phase \notin {"rejected", "returned"}
      <3>1. CASE Start
        BY <2>2, <3>1 DEF Start, Acceptable, FrameAccepted
      <3>2. CASE LayoutSlot \/ FinishLayout
        BY <1>4, <3>2, LayoutThrows DEF LayoutSlot, FinishLayout
      <3>3. CASE StartAddressing \/ AddressSlot
        BY <1>4, <3>3, AddressingThrows DEF StartAddressing, AddressSlot
      <3>4. CASE DeriveEntrySetup \/ StartLegalization
        BY <1>4, <3>4, PlanningThrows DEF DeriveEntrySetup, StartLegalization
      <3>5. CASE DecodePlan
        BY <1>4, <3>5, DecodingNeverThrows
      <3>6. CASE ExecuteInstruction
        BY <1>4, <3>6, ExecutionThrows DEF ExecuteInstruction
      <3>7. CASE EntryChunk \/ LastEntryChunk \/ FirstExitChunk \/ ExitChunk \/ EncodePlan
                 \/ Return
        BY <2>2, <3>7 DEF EntryChunk, LastEntryChunk, FirstExitChunk, ExitChunk, EncodePlan,
                          Return
      <3> QED
        BY <1>4, <3>1, <3>2, <3>3, <3>4, <3>5, <3>6, <3>7 DEF Next
    <2> QED
      BY <1>4, ThrownBeforeEntry, <2>3, ThrowRejects
  <1>5. ASSUME UNCHANGED <<frame, entry_pointer, after_entry>>,
               phase \notin {"rejected", "returned", "executing"},
               phase' \notin {"rejected", "returned"}
        PROVE  UNCHANGED Contract!vars
    BY <1>5, InternalStep DEF JInv, IInv, StackMoved, ChecksPassed, Running
  <1>6. CASE Next /\ ~Throw /\ (Start \/ LayoutSlot \/ FinishLayout \/ StartAddressing
                                \/ AddressSlot \/ DeriveEntrySetup \/ StartLegalization)
    BY <1>5, <1>6 DEF Start, LayoutSlot, FinishLayout, StartAddressing, AddressSlot,
                      DeriveEntrySetup, StartLegalization, plan, machine
  <1>7. CASE Next /\ ~Throw /\ (EntryChunk \/ LastEntryChunk \/ FirstExitChunk \/ ExitChunk
                                \/ EncodePlan \/ DecodePlan)
    BY <1>5, <1>7 DEF EntryChunk, LastEntryChunk, FirstExitChunk, ExitChunk, EncodePlan,
                      DecodePlan, plan, machine
  <1>8. CASE Next /\ ~Throw /\ ExecuteInstruction
    BY <1>8, MaterializationEnters, InternalStep DEF Contract!Next, ExecuteInstruction
  <1>9. CASE Next /\ ~Throw /\ Return
    BY <1>9, ReturnLeaves DEF Contract!Next
  <1> QED
    BY <1>3, <1>4, <1>6, <1>7, <1>8, <1>9 DEF Next

(* Planning, encoding, decoding and executing a frame does, for every      *)
(* configuration and every stack pointer, what the contract says: entry    *)
(* reserves the frame and sets its base, exit gives the stack back, and    *)
(* the call is rejected if and only if a number of the frame or one of its *)
(* addresses has no representation.                                        *)
THEOREM FrameImplementsContract == Spec => ImplementsFrameContract
  <1>1. Init => JInv
    <2> SUFFICES ASSUME Init
                 PROVE  JInv
      OBVIOUS
    <2> QED
      BY InitEstablishes DEF Init, JInv, BytesEncoded, GeometryKnown, ChecksPassed, Legal,
         Running, Entered
  <1>2. JInv /\ [Next]_vars => GeometryKnown' /\ ChecksPassed'
    BY GeometryStays, ChecksStay
  <1>3. IInv /\ BytesEncoded /\ GeometryKnown /\ ChecksPassed <=> JInv
    BY DEF JInv
  <1>4. Init => Contract!Init
    BY DEF Init, Contract!Init
  <1>6. Init => GeometryKnown /\ ChecksPassed
    BY <1>1, <1>3
  <1>7. Spec => [](GeometryKnown /\ ChecksPassed)
    <2>1. IInv /\ BytesEncoded /\ (GeometryKnown /\ ChecksPassed) /\ [Next]_vars
              => (GeometryKnown /\ ChecksPassed)'
      BY <1>2, <1>3
    <2> QED
      BY <1>6, <2>1, InductiveInvariant, BytesStayEncoded, PTL DEF Spec
  <1>8. IInv /\ BytesEncoded /\ (GeometryKnown /\ ChecksPassed) /\ IInv' /\ [Next]_vars
            => [Contract!Next]_Contract!vars
    BY <1>3, StepImplements
  <1> QED
    BY <1>4, <1>7, <1>8, InductiveInvariant, BytesStayEncoded, PTL
       DEF Spec, ImplementsFrameContract, Contract!Spec
=============================================================================
