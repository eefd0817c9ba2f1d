SPECIFICATION QuerySpec
CONSTANTS
    b = b
    Byte <- MCByte
    Valid <- MCValid
    Payloads <- MCPayloads
    FlashSize = 1
    Seeds = {s1, s2}
    Zero = Zero
    MayFail = FALSE
    HostRequests <- MCRequests
    Calls = {"digest"}
SYMMETRY SeedSymmetry
INVARIANT
    DigestReturnsDigest
