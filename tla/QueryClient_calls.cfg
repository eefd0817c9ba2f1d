\* Every call, locks, restarts and changes of phrase in the middle of it.
SPECIFICATION FairQuerySpec
CONSTANTS
    b = b
    Byte <- MCByte
    Valid <- MCValid
    Payloads <- MCPayloads
    FlashSize = 1
    Seeds = {s1, s2}
    Zero = Zero
    MayFail = FALSE
    HostRequests <- MCRequests
    Calls = {"getVersion", "getAddress", "showAddress", "digest"}
INVARIANTS
    QueryTypeOK
    KeysOfThisCall
    ReturnsApprovedAddress
PROPERTY
    QueryReturns
