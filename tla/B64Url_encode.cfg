SPECIFICATION Spec
CONSTANTS
    Inputs <- MCInputs
    OutLens <- MCOutLens
INVARIANTS
    EncoderTypeOK
    WithinRoom
    EncodesInput
