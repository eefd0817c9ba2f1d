\* Any host: every command in any order, locks, restarts and user decisions.
SPECIFICATION Spec
CONSTANTS
    a = a
    b = b
    Byte <- MCByte
    Valid <- MCValid
    Payloads <- MCPayloads
    FlashSize = 3
INVARIANTS
    HandlerTypeOK
    SignsWhatWasShown
    NoReviewAfterOverflow
PROPERTY
    Implements
