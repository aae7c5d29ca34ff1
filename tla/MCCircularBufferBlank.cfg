SPECIFICATION Spec
CONSTANTS
    BufferSize <- MCBufferSize
    Byte <- MCByte
    Zero <- MCZero
    UIntMod <- MCUIntMod
INVARIANT BlankByteKept
CHECK_DEADLOCK FALSE
