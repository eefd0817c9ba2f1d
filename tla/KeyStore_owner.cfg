SPECIFICATION Spec
CONSTANTS
    Seeds = {s1, s2, s3}
    Zero = Zero
    MayFail = FALSE
INVARIANT
    PublicKeyOfSeed
