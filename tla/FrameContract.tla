---------------------------- MODULE FrameContract ----------------------------
(***************************************************************************)
(* What the planned entry and exit sequences promise to the code between   *)
(* them: entry reserves the frame on the stack and points the frame base   *)
(* at its anchor, exit gives the stack back.  Each is one step.            *)
(***************************************************************************)
EXTENDS FrameCoordinates

CONSTANTS Frames,       \* the frames callers configure
          StackPointers \* what the stack pointer can hold on entry

VARIABLES frame,           \* the configured frame
          entry_pointer,   \* the stack pointer of the caller
          stack_pointer, frame_base,
          status           \* "called", "entered", "left" or "rejected"

vars == <<frame, entry_pointer, stack_pointer, frame_base, status>>

Init ==
    /\ frame \in Frames
    /\ entry_pointer \in StackPointers
    /\ stack_pointer = entry_pointer
    /\ frame_base = 0
    /\ status = "called"

(* The frame can be planned and its addresses exist. *)
CanEnter ==
    /\ FrameAccepted(frame)
    /\ entry_pointer + StackAdjustment(frame) \in Int64
    /\ entry_pointer + BaseFromEntry(frame) \in Int64

Enter ==
    /\ status = "called"
    /\ CanEnter
    /\ stack_pointer' = entry_pointer + StackAdjustment(frame)
    /\ frame_base' = entry_pointer + BaseFromEntry(frame)
    /\ status' = "entered"
    /\ UNCHANGED <<frame, entry_pointer>>

Leave ==
    /\ status = "entered"
    /\ stack_pointer' = entry_pointer
    /\ status' = "left"
    /\ UNCHANGED <<frame, entry_pointer, frame_base>>

Reject ==
    /\ status = "called"
    /\ ~CanEnter
    /\ status' = "rejected"
    /\ UNCHANGED <<frame, entry_pointer, stack_pointer, frame_base>>

Next == Enter \/ Leave \/ Reject

Spec == Init /\ [][Next]_vars
=============================================================================
