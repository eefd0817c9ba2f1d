\* Power loss at every flash write, OS errors, changes of recovery phrase.
SPECIFICATION Spec
CONSTANTS
    Seeds = {s1, s2, s3}
    Zero = Zero
    MayFail = TRUE
SYMMETRY SeedSymmetry
INVARIANTS
    StoreTypeOK
    SlotSeedMatches
    KeysMatchUnlessCut
    NoKeyInFreeSlot
