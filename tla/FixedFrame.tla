----------------------------- MODULE FixedFrame -----------------------------
(***************************************************************************)
(* The fixed-frame phases of the backend, from the layout of the stack     *)
(* slots to the execution of the encoded entry and exit sequences: every   *)
(* loop of the code is an action, every check a guard, and an exception    *)
(* ends the call in phase "rejected".                                      *)
(***************************************************************************)
EXTENDS FrameCoordinates, SequencesExt

CONSTANTS Frames, StackPointers,
          StackPointerRegister, FrameBaseRegister

CONSTANTS WordBytes, ByteBase,
          Header    \* the magic bytes and the version

ASSUME WordAssumption == WordBytes \in Nat \ {0} /\ ByteBase \in Nat \ (0 .. 3)

(* The types of the fields of the configuration, and of the registers. *)
ASSUME FramesAssumption ==
    Frames \subseteq [ slot_count      : 0 .. SizeMax,
                       slot_size       : 0 .. SizeMax,
                       slot_alignment  : 0 .. SizeMax,
                       frame_alignment : 0 .. SizeMax,
                       anchor          : 0 .. SizeMax,
                       displacements   : Int64 \X Int64,
                       growth          : {"lower", "higher"},
                       maximum_chunk   : 0 .. SizeMax,
                       immediates      : Int64 \X Int64 ]

ASSUME StackPointersAssumption == StackPointers \subseteq Int64

ASSUME RegistersAssumption ==
    StackPointerRegister \in 0 .. SizeMax /\ FrameBaseRegister \in 0 .. SizeMax

-----------------------------------------------------------------------------
(* The byte format of the entry and exit sequences.  An instruction is an  *)
(* opcode, one byte, and its operands, one little-endian word each:        *)
(*                                                                         *)
(*   1  decrement   stack-pointer register, byte count                     *)
(*   2  increment   stack-pointer register, byte count                     *)
(*   3  frame base  frame-base register, stack-pointer register, signed    *)
(*                  displacement, in two's complement                      *)
(*                                                                         *)
(* A plan is a header, the number of entry instructions, these, the number *)
(* of exit instructions, and these.  A word of the code has 8 bytes of 256 *)
(* values; here WordBytes bytes of ByteBase values.                        *)
Byte == 0 .. ByteBase - 1

(* What one in the byte after the k lowest of a word is worth. *)
Weight[k \in 0 .. WordBytes] == IF k = 0 THEN 1 ELSE ByteBase * Weight[k - 1]

WordModulus == Weight[WordBytes]

(* A word holds every size. *)
ASSUME WordHoldsSize == SizeMax < WordModulus

ASSUME HeaderAssumption == Header \in Seq(Byte)

Decrement == 1
Increment == 2
FrameBase == 3

OperandCount(opcode) == IF opcode = FrameBase THEN 3 ELSE 2

(* The shortest instruction: an opcode and two words. *)
MinimumInstructionBytes == 1 + 2 * WordBytes

EncodeWord(n) ==
    [ i \in 1 .. WordBytes |-> ((n % WordModulus) \div Weight[i - 1]) % ByteBase ]

EncodeInstruction(instruction) ==
    <<instruction.opcode>>
    \o FlattenSeq([ i \in DOMAIN instruction.operands |-> EncodeWord(instruction.operands[i]) ])

EncodeSequence(instructions) ==
    EncodeWord(Len(instructions))
    \o FlattenSeq([ i \in DOMAIN instructions |-> EncodeInstruction(instructions[i]) ])

Encode(entry, exit) == Header \o EncodeSequence(entry) \o EncodeSequence(exit)
-----------------------------------------------------------------------------
(* Faulty: the most significant byte comes first. *)
BigEndianWord(bytes, offset) ==
    LET Value[i \in 0 .. WordBytes] ==
            IF i = 0 THEN 0 ELSE Value[i - 1] * ByteBase + bytes[offset + i]
    IN  Value[WordBytes]

(* The word at an offset, and its signed reading. *)
WordAt(bytes, offset) ==
    LET Value[i \in 0 .. WordBytes] ==
            IF i = 0 THEN 0 ELSE Value[i - 1] + bytes[offset + i] * Weight[i - 1]
    IN  Value[WordBytes]

Signed(word) ==
    IF word <= WordModulus \div 2 - 1 THEN word ELSE -1 - (WordModulus - 1 - word)

(* The decoder is a cursor over the bytes: the offset reached, the         *)
(* instructions decoded, and whether everything read so far was there.     *)
DecodeInstruction(bytes, cursor) ==
    LET opcode    == bytes[cursor.offset + 1]
        length    == 1 + OperandCount(opcode) * WordBytes
        Operand(i) == WordAt(bytes, cursor.offset + 1 + (i - 1) * WordBytes)
    IN  IF /\ cursor.ok
           /\ cursor.offset < Len(bytes)
           /\ opcode \in {Decrement, Increment, FrameBase}
           /\ Len(bytes) - cursor.offset >= length
        THEN [ ok           |-> TRUE,
               offset       |-> cursor.offset + length,
               instructions |-> Append(cursor.instructions,
                   [ opcode   |-> opcode,
                     operands |-> IF opcode = FrameBase
                                  THEN <<Operand(1), Operand(2), Signed(Operand(3))>>
                                  ELSE <<Operand(1), Operand(2)>> ]) ]
        ELSE [cursor EXCEPT !.ok = FALSE]

(* A count and as many instructions, when the bytes left after a tail can  *)
(* hold them.                                                              *)
DecodeSequence(bytes, cursor, tail) ==
    LET start == cursor.offset + WordBytes
        count == WordAt(bytes, cursor.offset)
        After[k \in 0 .. count] ==
            IF k = 0 THEN [ok |-> TRUE, offset |-> start, instructions |-> << >>]
            ELSE DecodeInstruction(bytes, After[k - 1])
    IN  IF /\ cursor.ok
           /\ Len(bytes) >= start + tail
           /\ count <= (Len(bytes) - start - tail) \div MinimumInstructionBytes
        THEN After[count]
        ELSE [cursor EXCEPT !.ok = FALSE]

Decode(bytes) ==
    LET header == [ ok           |-> IsPrefix(Header, bytes),
                    offset       |-> Len(Header),
                    instructions |-> << >> ]
        entry  == DecodeSequence(bytes, header, WordBytes)
        exit   == DecodeSequence(bytes, entry, 0)
    IN  [ ok    |-> exit.ok /\ exit.offset = Len(bytes),
          entry |-> entry.instructions,
          exit  |-> exit.instructions ]
-----------------------------------------------------------------------------
VARIABLES frame,          \* the configuration
          entry_pointer,  \* the stack pointer on entry
          phase,
          cursor,         \* end of the slots laid out so far
          offsets,        \* byte offsets of the slots
          frame_size,
          displacements,  \* of the slots, from the frame base
          setup,          \* stack adjustment and base coordinates
          remaining,      \* bytes the legalization has still to cover
          entry, exit,    \* symbolic instructions
          bytes,          \* their encoding
          code, pc,       \* the decoded sequences, and the next instruction
          stack_pointer, frame_base,
          after_entry     \* the snapshot <<stack pointer, frame base>>

plan == <<cursor, offsets, frame_size, displacements, setup, remaining, entry, exit>>
machine == <<bytes, code, pc, stack_pointer, frame_base, after_entry>>
vars == <<frame, entry_pointer, phase, cursor, offsets, frame_size, displacements,
          setup, remaining, entry, exit, bytes, code, pc, stack_pointer, frame_base,
          after_entry>>

Init ==
    /\ frame \in Frames
    /\ entry_pointer \in StackPointers
    /\ phase = "called"
    /\ cursor = 0 /\ offsets = << >> /\ frame_size = 0
    /\ displacements = << >>
    /\ setup = << >> /\ remaining = 0
    /\ entry = << >> /\ exit = << >>
    /\ bytes = << >> /\ code = << >> /\ pc = 1
    /\ stack_pointer = entry_pointer /\ frame_base = 0
    /\ after_entry = << >>

(* An exception: nothing of the call is returned. *)
Throw ==
    /\ phase' = "rejected"
    /\ UNCHANGED <<frame, entry_pointer, plan, machine>>
-----------------------------------------------------------------------------
(* Checked arithmetic, with the comparisons of the code. *)
SizeAddFits(left, right) == left <= SizeMax - right

AlignUpFits(value, alignment) ==
    value % alignment = 0 \/ SizeAddFits(value, alignment - (value % alignment))

(* Faulty: the next slot starts in the padded one. *)
AlignUpTowardsZero(value, alignment) == value - (value % alignment)

AlignUp(value, alignment) ==
    IF value % alignment = 0 THEN value ELSE value + (alignment - (value % alignment))

(* signed_size_difference and checked_displacement. *)
SizeDifferenceFits(first, second) ==
    IF first >= second THEN first - second <= Int64Max
                       ELSE second - first <= Int64Max + 1

IncrementFits(value, magnitude) ==
    IF value >= 0 THEN magnitude <= Int64Max - value
    ELSE magnitude < -value \/ magnitude + value <= Int64Max

(* Faulty: the smallest integer has the magnitude of the largest. *)
DecrementFitsSymmetric(value, magnitude) ==
    IF value <= 0 THEN magnitude <= Int64Max + value
    ELSE magnitude <= value \/ magnitude - value <= Int64Max

DecrementFits(value, magnitude) ==
    IF value <= 0 THEN magnitude <= (Int64Max + 1) + value
    ELSE magnitude <= value \/ magnitude - value <= Int64Max + 1

SignedAddFits(left, right) ==
    /\ right > 0 => left <= Int64Max - right
    /\ right < 0 => left >= Int64Min - right
-----------------------------------------------------------------------------
(* layout_scratch_aware_backend_frame *)
Start ==
    /\ phase = "called"
    /\ \/ /\ LayoutAccepted(frame)
          /\ phase' = "layout"
          /\ UNCHANGED <<frame, entry_pointer, plan, machine>>
       \/ ~LayoutAccepted(frame) /\ Throw

LayoutSlot ==
    /\ phase = "layout"
    /\ Len(offsets) < frame.slot_count
    /\ LET offset == AlignUp(cursor, frame.slot_alignment)
           fits   == /\ AlignUpFits(cursor, frame.slot_alignment)
                     /\ SizeAddFits(offset, frame.slot_size)
       IN  \/ /\ fits
              /\ offsets' = Append(offsets, offset)
              /\ cursor' = offset + frame.slot_size
              /\ UNCHANGED <<frame, entry_pointer, phase, frame_size, displacements,
                             setup, remaining, entry, exit, machine>>
           \/ ~fits /\ Throw

FinishLayout ==
    /\ phase = "layout"
    /\ Len(offsets) = frame.slot_count
    /\ \/ /\ AlignUpFits(cursor, frame.frame_alignment)
          /\ frame_size' = AlignUp(cursor, frame.frame_alignment)
          /\ phase' = "sized"
          /\ UNCHANGED <<frame, entry_pointer, cursor, offsets, displacements, setup,
                         remaining, entry, exit, machine>>
       \/ ~AlignUpFits(cursor, frame.frame_alignment) /\ Throw

(* address_scratch_aware_backend_frame *)
StartAddressing ==
    /\ phase = "sized"
    /\ LET accepted == /\ frame.displacements[1] <= frame.displacements[2]
                       /\ frame.anchor <= frame_size
       IN  \/ /\ accepted
              /\ phase' = "addressing"
              /\ UNCHANGED <<frame, entry_pointer, plan, machine>>
           \/ ~accepted /\ Throw

AddressSlot ==
    /\ phase = "addressing"
    /\ Len(displacements) < frame.slot_count
    /\ LET offset       == offsets[Len(displacements) + 1]
           displacement == offset - frame.anchor
           fits         == /\ SizeDifferenceFits(offset, frame.anchor)
                           /\ displacement >= frame.displacements[1]
                           /\ displacement <= frame.displacements[2]
       IN  \/ /\ fits
              /\ displacements' = Append(displacements, displacement)
              /\ UNCHANGED <<frame, entry_pointer, phase, cursor, offsets, frame_size,
                             setup, remaining, entry, exit, machine>>
           \/ ~fits /\ Throw

(* Faulty: the base of a frame above the stack pointer ignores that it     *)
(* moved.                                                                  *)
SetupFromUnmovedPointer(size, anchor) ==
    [ adjustment    |-> IF frame.growth = "lower" THEN -size ELSE size,
      from_adjusted |-> anchor,
      from_entry    |-> anchor ]

(* The coordinates derive_stack_directed_backend_frame_entry computes, and *)
(* its overflow checks, the composition of every slot included.            *)
SetupOf(size, anchor) ==
    IF frame.growth = "lower"
    THEN [ adjustment |-> -size, from_adjusted |-> anchor, from_entry |-> anchor - size ]
    ELSE [ adjustment |-> size, from_adjusted |-> anchor - size, from_entry |-> anchor ]

SetupFits(size, anchor) ==
    /\ IF frame.growth = "lower"
       THEN /\ size <= Int64Max + 1
            /\ anchor <= Int64Max
       ELSE /\ size <= Int64Max
            /\ anchor <= Int64Max
    /\ SizeDifferenceFits(anchor, size)
    /\ \A k \in DOMAIN offsets :
           IF frame.growth = "lower" THEN SizeDifferenceFits(offsets[k], size)
                                     ELSE offsets[k] <= Int64Max

DeriveEntrySetup ==
    /\ phase = "addressing"
    /\ Len(displacements) = frame.slot_count
    /\ \/ /\ SetupFits(frame_size, frame.anchor)
          /\ setup' = SetupOf(frame_size, frame.anchor)
          /\ phase' = "planned"
          /\ UNCHANGED <<frame, entry_pointer, cursor, offsets, frame_size, displacements,
                         remaining, entry, exit, machine>>
       \/ ~SetupFits(frame_size, frame.anchor) /\ Throw
-----------------------------------------------------------------------------
(* The symbolic instruction of a legal action: the opcode of an adjustment *)
(* gives its direction, exit undoes entry.                                 *)
EntryOpcode == IF frame.growth = "lower" THEN Decrement ELSE Increment

(* Faulty: exit moves the stack pointer as entry did. *)
SameOpcode == IF frame.growth = "lower" THEN Decrement ELSE Increment

ExitOpcode == IF frame.growth = "lower" THEN Increment ELSE Decrement

Adjustment(opcode, byte_count) ==
    [opcode |-> opcode, operands |-> <<StackPointerRegister, byte_count>>]

Materialization ==
    [ opcode   |-> FrameBase,
      operands |-> <<FrameBaseRegister, StackPointerRegister, setup.from_adjusted>> ]

(* legalize_fixed_frame_actions *)
StartLegalization ==
    /\ phase = "planned"
    /\ LET accepted == /\ PolicyAccepted(frame)
                       /\ setup.from_adjusted >= frame.immediates[1]
                       /\ setup.from_adjusted <= frame.immediates[2]
       IN  \/ /\ accepted
              /\ remaining' = frame_size
              /\ phase' = "legalizing_entry"
              /\ UNCHANGED <<frame, entry_pointer, cursor, offsets, frame_size,
                             displacements, setup, entry, exit, machine>>
           \/ ~accepted /\ Throw

(* Faulty: a full chunk is taken when the last one would do. *)
EagerEntryChunk ==
    /\ phase = "legalizing_entry"
    /\ remaining >= frame.maximum_chunk
    /\ entry' = Append(entry, Adjustment(EntryOpcode, frame.maximum_chunk))
    /\ remaining' = remaining - frame.maximum_chunk
    /\ UNCHANGED <<frame, entry_pointer, phase, cursor, offsets, frame_size,
                   displacements, setup, exit, machine>>

(* The body of the loop of append_entry_chunks. *)
EntryChunk ==
    /\ phase = "legalizing_entry"
    /\ remaining > frame.maximum_chunk
    /\ entry' = Append(entry, Adjustment(EntryOpcode, frame.maximum_chunk))
    /\ remaining' = remaining - frame.maximum_chunk
    /\ UNCHANGED <<frame, entry_pointer, phase, cursor, offsets, frame_size,
                   displacements, setup, exit, machine>>

(* What is left, zero only if the frame is empty, and the frame base.      *)
LastEntryChunk ==
    /\ phase = "legalizing_entry"
    /\ remaining <= frame.maximum_chunk
    /\ entry' = entry \o <<Adjustment(EntryOpcode, remaining), Materialization>>
    /\ remaining' = frame_size
    /\ phase' = "legalizing_exit"
    /\ UNCHANGED <<frame, entry_pointer, cursor, offsets, frame_size, displacements,
                   setup, exit, machine>>

(* append_inverse_exit_chunks: the remainder first, then full chunks. *)
FirstExitChunk ==
    /\ phase = "legalizing_exit"
    /\ exit = << >>
    /\ LET remainder == remaining % frame.maximum_chunk
       IN  \/ /\ remainder # 0 \/ remaining = 0
              /\ exit' = <<Adjustment(ExitOpcode, remainder)>>
              /\ remaining' = remaining - remainder
           \/ /\ remainder = 0 /\ remaining # 0
              /\ exit' = <<Adjustment(ExitOpcode, frame.maximum_chunk)>>
              /\ remaining' = remaining - frame.maximum_chunk
    /\ UNCHANGED <<frame, entry_pointer, phase, cursor, offsets, frame_size,
                   displacements, setup, entry, machine>>

ExitChunk ==
    /\ phase = "legalizing_exit"
    /\ exit # << >>
    /\ remaining > 0
    /\ exit' = Append(exit, Adjustment(ExitOpcode, frame.maximum_chunk))
    /\ remaining' = remaining - frame.maximum_chunk
    /\ UNCHANGED <<frame, entry_pointer, phase, cursor, offsets, frame_size,
                   displacements, setup, entry, machine>>

(* encode_backend_fixed_frame_bytecode *)
EncodePlan ==
    /\ phase = "legalizing_exit"
    /\ exit # << >>
    /\ remaining = 0
    /\ bytes' = Encode(entry, exit)
    /\ phase' = "encoded"
    /\ UNCHANGED <<frame, entry_pointer, plan, code, pc, stack_pointer, frame_base,
                   after_entry>>
-----------------------------------------------------------------------------
(* execute_backend_fixed_frame_bytecode: the bytes are decoded and must be *)
(* the plan.                                                               *)
DecodePlan ==
    /\ phase = "encoded"
    /\ LET decoded   == Decode(bytes)
           canonical == decoded.ok /\ decoded.entry = entry /\ decoded.exit = exit
       IN  \/ /\ canonical
              /\ code' = decoded.entry \o decoded.exit
              /\ phase' = "executing"
              /\ UNCHANGED <<frame, entry_pointer, plan, bytes, pc, stack_pointer,
                             frame_base, after_entry>>
           \/ ~canonical /\ Throw

InstructionFits(instruction) ==
    CASE instruction.opcode = Decrement ->
            DecrementFits(stack_pointer, instruction.operands[2])
      [] instruction.opcode = Increment ->
            IncrementFits(stack_pointer, instruction.operands[2])
      [] instruction.opcode = FrameBase ->
            SignedAddFits(stack_pointer, instruction.operands[3])

ExecuteInstruction ==
    /\ phase = "executing"
    /\ pc <= Len(code)
    /\ \/ /\ InstructionFits(code[pc])
          /\ stack_pointer' =
                 CASE code[pc].opcode = Decrement -> stack_pointer - code[pc].operands[2]
                   [] code[pc].opcode = Increment -> stack_pointer + code[pc].operands[2]
                   [] code[pc].opcode = FrameBase -> stack_pointer
          /\ frame_base' = IF code[pc].opcode = FrameBase
                           THEN stack_pointer + code[pc].operands[3] ELSE frame_base
          /\ after_entry' = IF pc = Len(entry) THEN <<stack_pointer', frame_base'>>
                            ELSE after_entry
          /\ pc' = pc + 1
          /\ UNCHANGED <<frame, entry_pointer, phase, plan, bytes, code>>
       \/ ~InstructionFits(code[pc]) /\ Throw

Return ==
    /\ phase = "executing"
    /\ pc = Len(code) + 1
    /\ phase' = "returned"
    /\ UNCHANGED <<frame, entry_pointer, plan, machine>>

Next ==
    \/ Start \/ LayoutSlot \/ FinishLayout \/ StartAddressing \/ AddressSlot
    \/ DeriveEntrySetup \/ StartLegalization \/ EntryChunk \/ LastEntryChunk
    \/ FirstExitChunk \/ ExitChunk \/ EncodePlan \/ DecodePlan
    \/ ExecuteInstruction \/ Return

Spec == Init /\ [][Next]_vars
-----------------------------------------------------------------------------
(* The overflow checks refuse an operation if and only if its exact result*)
(* has no representation: from the cursor the code has reached no size is  *)
(* wrapped, and from the stack pointer in force no overflow is missed or   *)
(* spurious, at the smallest integer either.                               *)
FrameArithmeticIsExact ==
    /\ \A size \in 0 .. SizeMax :
           /\ SizeAddFits(cursor, size) <=> cursor + size <= SizeMax
           /\ SizeDifferenceFits(cursor, size) <=> cursor - size \in Int64
           /\ SizeDifferenceFits(size, cursor) <=> size - cursor \in Int64
           /\ IncrementFits(stack_pointer, size) <=> stack_pointer + size \in Int64
           /\ DecrementFits(stack_pointer, size) <=> stack_pointer - size \in Int64
    /\ \A offset \in Int64 :
           SignedAddFits(stack_pointer, offset) <=> stack_pointer + offset \in Int64

(* Two slots never share a byte, and when the size of the frame is known   *)
(* every slot ends inside it.                                              *)
SlotsDisjoint ==
    /\ \A j, k \in DOMAIN offsets :
           j < k => offsets[j] + frame.slot_size <= offsets[k]
    /\ phase \notin {"called", "layout", "rejected"} =>
           \A k \in DOMAIN offsets : offsets[k] + frame.slot_size <= frame_size

(* The bytes a sequence of instructions moves the stack pointer by. *)
ByteCount(instructions) ==
    LET Total[k \in 0 .. Len(instructions)] ==
            IF k = 0 THEN 0
            ELSE IF instructions[k].opcode = FrameBase THEN Total[k - 1]
            ELSE Total[k - 1] + instructions[k].operands[2]
    IN  Total[Len(instructions)]

(* Every immediate of the legalized sequences fits the instruction it is   *)
(* in, both sequences move the stack pointer by the size of the frame, in  *)
(* as few instructions as that takes, and none of them moves it by zero    *)
(* unless the frame is empty.                                              *)
ChunksLegal ==
    phase \in {"encoded", "executing", "returned"} =>
        LET largest == frame.maximum_chunk
            fewest  == IF frame_size = 0 THEN 1 ELSE (frame_size + largest - 1) \div largest
        IN  /\ ByteCount(entry) = frame_size /\ Len(entry) = fewest + 1
            /\ ByteCount(exit) = frame_size /\ Len(exit) = fewest
            /\ \A i \in ToSet(entry \o exit) :
                   i.opcode # FrameBase => /\ i.operands[2] <= largest
                                          /\ (i.operands[2] = 0 => frame_size = 0)

(* The decoder reads a plan back exactly, and is strict: it accepts no     *)
(* proper prefix of a plan and no plan followed by a byte.                 *)
DecodingIsStrict ==
    phase = "encoded" =>
        /\ Decode(bytes) = [ok |-> TRUE, entry |-> entry, exit |-> exit]
        /\ \A n \in 0 .. Len(bytes) - 1 : ~Decode(SubSeq(bytes, 1, n)).ok
        /\ \A b \in Byte : ~Decode(Append(bytes, b)).ok

(* Between entry and exit, the addresses the body reaches through the frame*)
(* base lie between the stack pointer of the caller and the one in force:  *)
(* no slot overlaps the stack of the caller, none is left unprotected, and *)
(* from the layout on no slot overlaps another.                            *)
SlotsInReservedStack ==
    /\ SlotsDisjoint
    /\ after_entry # << >> =>
        \A k \in DOMAIN displacements :
            LET address == after_entry[2] + displacements[k]
                lowest  == IF frame.growth = "lower" THEN after_entry[1] ELSE entry_pointer
                end     == IF frame.growth = "lower" THEN entry_pointer ELSE after_entry[1]
            IN  lowest <= address /\ address + frame.slot_size <= end

Contract == INSTANCE FrameContract WITH
    stack_pointer <- IF phase = "returned" THEN stack_pointer
                     ELSE IF after_entry # << >> THEN after_entry[1] ELSE entry_pointer,
    frame_base    <- IF after_entry # << >> THEN after_entry[2] ELSE 0,
    status        <- CASE phase = "rejected" -> "rejected"
                       [] phase = "returned" -> "left"
                       [] phase = "executing" /\ after_entry # << >> -> "entered"
                       [] OTHER -> "called"

(* The call does what the contract says, in exact arithmetic: the frame is *)
(* rejected only if one of its numbers has no representation or its        *)
(* addresses do not exist, entry reserves all of it and sets the base to   *)
(* its anchor, exit restores the stack pointer, whatever the chunks.      *)
ImplementsFrameContract == Contract!Spec
=============================================================================
