\* Two transactions in a row, parsed, shown and signed.
SPECIFICATION DigestSpec
CONSTANTS
    OWNER_LEN = 2
    MAX_NUMBER_TAGS = 2
    UI_BUFFER = 4
    KEY_LEN = 3
    PAGE_LEN = 2
    FORMAT_2 = 50
    RSA_KEY <- MCKey
    Numerals <- MCNumerals
    Buffers <- MCBuffers
    MAX_PARSES = 2
    Transactions <- MCTransactions
INVARIANTS
    ParserTypeOK
    StaysInBuffer
    NothingStale
    AcceptedIsEncoded
    EncodedIsParsedBack
    ReviewCoversTransaction
    DigestIsDeepHash
    DigestBindsTransaction
