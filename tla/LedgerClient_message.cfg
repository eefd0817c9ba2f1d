SPECIFICATION SignSpec
CONSTANTS
    a = a
    b = b
    format = format
    Byte <- FramedByte
    Valid <- FramedValid
    Payloads <- FramedPayloads
    FlashSize = 4
    CHUNK_SIZE = 1
INVARIANT
    SignReturnsItsMessage
