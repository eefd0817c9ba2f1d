\* Any host, power losses and failures anywhere, changes of phrase.
SPECIFICATION DeviceSpec
CONSTANTS
    b = b
    Byte <- MCByte
    Valid <- MCValid
    Payloads <- MCPayloads
    FlashSize = 1
    Seeds = {s1, s2}
    Zero = Zero
    MayFail = TRUE
    HostRequests <- MCRequests
SYMMETRY SeedSymmetry
INVARIANTS
    DeviceTypeOK
    OwnKeyGiven
    SignedByPresentKey
PROPERTIES
    KeysStableWhileServing
    ImplementsHandler
