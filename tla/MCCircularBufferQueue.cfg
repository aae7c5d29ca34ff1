SPECIFICATION ReservedSpec
CONSTANTS
    BufferSize <- MCBufferSize
    Byte <- MCByte
    Zero <- MCZero
    UIntMod <- MCUIntMod
INVARIANT BlankByteKept
PROPERTY ImplementsQueue
