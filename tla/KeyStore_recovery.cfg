\* The OS services work: nothing is lost by mistake, and the device recovers.
SPECIFICATION FairSpec
CONSTANTS
    Seeds = {s1, s2, s3}
    Zero = Zero
    MayFail = FALSE
PROPERTIES
    KeepsOwnKeys
    Recovers
    SetupAdvances
