\* One client over a lossy transport; the device locks and restarts at will.
SPECIFICATION FairSignSpec
CONSTANTS
    a = a
    b = b
    format = format
    Byte <- MCByte
    Valid <- MCValid
    Payloads <- MCPayloads
    FlashSize = 3
    CHUNK_SIZE = 1
INVARIANTS
    ClientTypeOK
    OneTransactionPerResult
    SignsMessageOnceInitAcked
PROPERTY
    CallReturns
