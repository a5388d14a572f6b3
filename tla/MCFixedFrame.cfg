CONSTANTS
    Int64Max = 7
    WordBytes = 2
    ByteBase = 4
    Header <- MCHeader
    Frames <- MCFrames
    StackPointers <- MCStackPointers
    StackPointerRegister = 3
    FrameBaseRegister = 2
SPECIFICATION Spec
INVARIANTS
    FrameArithmeticIsExact
    ChunksLegal
    DecodingIsStrict
    SlotsInReservedStack
PROPERTIES
    ImplementsFrameContract
CHECK_DEADLOCK FALSE
