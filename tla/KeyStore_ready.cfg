SPECIFICATION Spec
CONSTANTS
    Seeds = {s1, s2}
    Zero = Zero
    MayFail = TRUE
INVARIANT
    ReadyMeansInitialized
