SPECIFICATION Spec
CONSTANTS
    BufferSize <- MCBufferSize
    Byte <- MCByte
    Zero <- MCZero
    UIntMod <- MCUIntMod
INVARIANTS
    TypeOK
    CopiesInBounds
    PutSparesUnread
    ReadSegmentsAgree
    WriteSegmentsAgree
PROPERTY SizeAccounting
CHECK_DEADLOCK FALSE
