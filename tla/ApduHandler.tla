------------------------------ MODULE ApduHandler ------------------------------
(***************************************************************************)
(* The command interface of the app while it runs: apdu_handler.c, the     *)
(* reply functions of actions.h, the transaction buffer of tx.c, and the   *)
(* operations of crypto.c / crypto_store.c on the stored signature.        *)
(*                                                                         *)
(* A transaction is uploaded in chunks to a buffer, parsed in place and    *)
(* shown; the parser keeps pointers into the buffer, and both the screens  *)
(* and the digest read it through them, when the user has long been        *)
(* looking at it.  The SIGN command is answered only when the user         *)
(* decides; its signature stays in flash until GET_SIG fetches it.         *)
(*                                                                         *)
(* Abstractions: a transaction is the byte sequence parser_parse and       *)
(* parser_validate accept (Valid); its deephash and its signature are      *)
(* represented by the transaction itself.  The key slot does not change    *)
(* while commands are served (KeyStore), so one signature cell is enough.  *)
(* The SDK delivers no command while a reply is pending (external).        *)
(***************************************************************************)
EXTENDS Naturals, SequencesExt

CONSTANTS
    Byte,         \* the values a byte of a transaction takes
    Valid,        \* the byte sequences that parse and validate
    Payloads,     \* the data fields a command may carry
    FlashSize     \* FLASH_BUFFER_SIZE

NoTx == <<>>

\* Every length field precedes its bytes, so what parses has no proper prefix
\* that does: AcceptedArePrefixFree of TxDigest_proofs, for the real encoding.
ASSUME ValidAssumption ==
    /\ Valid \subseteq Seq(Byte) \ {NoTx}
    /\ \A v, w \in Valid : IsPrefix(v, w) => v = w
ASSUME PayloadsAssumption == Payloads \subseteq Seq(Byte)
ASSUME FlashSizeAssumption == FlashSize \in Nat

Instructions == {"GET_VERSION", "GET_ADDR", "SIGN", "GET_SIG", "GET_PK",
                 "unknown", "malformed"}

\* P1 is the payload type of SIGN and the confirmation flag of GET_ADDR.
P1_INIT == 0
P1_ADD  == 1
P1_LAST == 2

Requests == [ins : Instructions, p1 : 0..3, p2 : 0..2, data : Payloads]

Parts == {"none", "version", "address", "pk0", "pk1", "deephash", "sig0", "sig1"}

StatusWords ==
    {"OK", "WRONG_LENGTH", "INVALIDP1P2", "OUTPUT_BUFFER_TOO_SMALL",
     "TX_NOT_INITIALIZED", "DATA_INVALID", "COMMAND_NOT_ALLOWED",
     "CONDITIONS_NOT_SATISFIED", "EXECUTION_ERROR", "INS_NOT_SUPPORTED",
     "SIGN_VERIFY_ERROR", "pending"}

VARIABLES
    device_initialized,  \* set by the key store
    pin_validated,       \* external: the device is unlocked
    tx_initialized,      \* an upload is in progress
    buffer,              \* the bytes uploaded, and the room there is for them
    parsed_len,          \* how far the parser's pointers reach into buffer
    review,              \* what is on screen
    awaiting,            \* IO_ASYNCH_REPLY: the reply comes from the review
    N_crypto_sig,        \* flash: the stored signature
    signature_set,       \* RAM: it can be fetched
    reply,               \* the last reply
    shown,               \* ghost: the transaction put on screen
    overflowed           \* ghost: bytes since P1_INIT did not fit the buffer

upload  == <<tx_initialized, buffer, parsed_len, overflowed>>
screens == <<review, awaiting, shown>>
sigs    == <<N_crypto_sig, signature_set>>
dvars   == <<device_initialized, pin_validated, upload, screens, sigs, reply>>

\* The handler's memory has its type, and the upload never leaves its buffer.
HandlerTypeOK ==
    /\ device_initialized \in BOOLEAN
    /\ pin_validated \in BOOLEAN
    /\ tx_initialized \in BOOLEAN
    /\ buffer \in [data : Seq(Byte), size : {0, FlashSize}]
    /\ Len(buffer.data) <= buffer.size
    /\ parsed_len \in Nat
    /\ review \in {"none", "txn", "address"}
    /\ awaiting \in BOOLEAN
    /\ N_crypto_sig \in Valid \cup {NoTx}
    /\ signature_set \in BOOLEAN
    /\ reply \in [sw : StatusWords, part : Parts, of : Valid \cup {NoTx}]
    /\ shown \in Valid \cup {NoTx}
    /\ overflowed \in BOOLEAN

Init ==
    /\ device_initialized \in BOOLEAN
    /\ pin_validated \in BOOLEAN
    /\ tx_initialized = FALSE
    /\ buffer = [data |-> <<>>, size |-> 0]
    /\ parsed_len = 0
    /\ review = "none"
    /\ awaiting = FALSE
    /\ N_crypto_sig = NoTx
    /\ signature_set = FALSE
    /\ reply = [sw |-> "pending", part |-> "none", of |-> NoTx]
    /\ shown = NoTx
    /\ overflowed = FALSE

-----------------------------------------------------------------------------
(* Replies.                                                                *)

Reply(sw, part, tx) == reply' = [sw |-> sw, part |-> part, of |-> tx]

\* THROW(sw) before anything changed.
Refused(sw) ==
    /\ Reply(sw, "none", NoTx)
    /\ UNCHANGED <<device_initialized, pin_validated, upload, screens, sigs>>

\* A complete answer that changes nothing.
Answered(part) ==
    /\ Reply("OK", part, NoTx)
    /\ UNCHANGED <<device_initialized, pin_validated, upload, screens, sigs>>

-----------------------------------------------------------------------------
(* The upload: process_chunk, on the buffer of tx.c.                       *)

\* A mutated form: the capacity check is off by one.
Fits_mut(data) == Len(buffer.data) + Len(data) <= buffer.size + 1

\* tx_append takes the whole payload or none of it.
Fits(data) == Len(buffer.data) + Len(data) <= buffer.size

tx_append(data) == buffer' = [buffer EXCEPT !.data = @ \o data]

ChunkInit ==
    /\ buffer' = [data |-> <<>>, size |-> FlashSize]
    /\ tx_initialized' = TRUE
    /\ overflowed' = FALSE
    /\ Reply("OK", "none", NoTx)
    /\ UNCHANGED <<parsed_len, screens, sigs>>

\* A mutated form: the upload goes on after an overflow.
ChunkOverflow_mut ==
    /\ overflowed' = TRUE
    /\ Reply("OUTPUT_BUFFER_TOO_SMALL", "none", NoTx)
    /\ UNCHANGED <<tx_initialized, buffer, parsed_len, screens, sigs>>

ChunkOverflow ==
    /\ tx_initialized' = FALSE
    /\ overflowed' = TRUE
    /\ Reply("OUTPUT_BUFFER_TOO_SMALL", "none", NoTx)
    /\ UNCHANGED <<buffer, parsed_len, screens, sigs>>

\* The bytes go into the buffer whether or not an upload is in progress.
ChunkAdd(data) ==
    \/ /\ Fits(data)
       /\ tx_append(data)
       /\ Reply("OK", "none", NoTx)
       /\ UNCHANGED <<tx_initialized, overflowed, parsed_len, screens, sigs>>
    \/ ~Fits(data) /\ ChunkOverflow

ChunkUnknown ==
    /\ tx_initialized' = FALSE
    /\ Reply("INVALIDP1P2", "none", NoTx)
    /\ UNCHANGED <<buffer, parsed_len, overflowed, screens, sigs>>

-----------------------------------------------------------------------------
(* The last chunk: the buffer is parsed, and shown if it is valid.         *)

\* A mutated form: handleSign forgets IO_ASYNCH_REPLY and answers at once.
ReviewTransaction_mut(tx) ==
    /\ parsed_len' = Len(tx)
    /\ review' = "txn"
    /\ shown' = tx
    /\ Reply("pending", "none", NoTx)
    /\ UNCHANGED <<sigs, awaiting>>

\* tx_initialized stays set, and the bytes stay in the buffer.
ReviewTransaction(tx) ==
    /\ parsed_len' = Len(tx)
    /\ review' = "txn"
    /\ shown' = tx
    /\ awaiting' = TRUE
    /\ Reply("pending", "none", NoTx)
    /\ UNCHANGED sigs

\* A failed parse leaves the parser's pointers anywhere in the buffer.
RejectData ==
    /\ parsed_len' \in 0..Len(buffer'.data)
    /\ Reply("DATA_INVALID", "none", NoTx)
    /\ UNCHANGED <<screens, sigs>>

\* parser_parse ignores what follows the transaction in the buffer.
tx_parse(data) == {tx \in Valid : IsPrefix(tx, data)}

ChunkLast(data) ==
    \/ ~tx_initialized /\ Refused("TX_NOT_INITIALIZED")
    \/ tx_initialized /\ ~Fits(data) /\ ChunkOverflow
    \/ /\ tx_initialized
       /\ Fits(data)
       /\ tx_append(data)
       /\ \/ \E tx \in tx_parse(buffer.data \o data) : ReviewTransaction(tx)
          \/ tx_parse(buffer.data \o data) = {} /\ RejectData
       /\ UNCHANGED <<tx_initialized, overflowed>>

handleSign(req) ==
    /\ \/ req.p2 # 0 /\ Refused("INVALIDP1P2")
       \/ /\ req.p2 = 0
          /\ \/ req.p1 = P1_INIT /\ ChunkInit
             \/ req.p1 = P1_ADD /\ ChunkAdd(req.data)
             \/ req.p1 = P1_LAST /\ ChunkLast(req.data)
             \/ req.p1 \notin {P1_INIT, P1_ADD, P1_LAST} /\ ChunkUnknown
    /\ UNCHANGED <<device_initialized, pin_validated>>

-----------------------------------------------------------------------------
(* The other commands.                                                     *)

handle_getversion == Answered("version")

\* With P1 set the address is shown first; the hash or the encoding may fail.
handleGetAddress(req) ==
    \/ req.data # <<>> /\ Refused("COMMAND_NOT_ALLOWED")
    \/ /\ req.data = <<>>
       /\ \/ Refused("EXECUTION_ERROR")
          \/ req.p1 = 0 /\ Answered("address")
          \/ /\ req.p1 # 0
             /\ review' = "address"
             /\ awaiting' = TRUE
             /\ Reply("pending", "none", NoTx)
             /\ UNCHANGED <<device_initialized, pin_validated, upload, shown,
                            sigs>>

handleGetPubKeyPart(req) ==
    \/ req.data # <<>> /\ Refused("COMMAND_NOT_ALLOWED")
    \/ req.data = <<>> /\ req.p2 > 1 /\ Refused("CONDITIONS_NOT_SATISFIED")
    \/ req.data = <<>> /\ req.p2 = 0 /\ Answered("pk0")
    \/ req.data = <<>> /\ req.p2 = 1 /\ Answered("pk1")

\* A mutated form: the signature can be fetched again and again.
LastSignaturePart_mut ==
    /\ Reply("OK", "sig1", N_crypto_sig)
    /\ UNCHANGED <<device_initialized, pin_validated, upload, screens, sigs>>

\* crypto_signature_part, index 1: the signature is erased.
LastSignaturePart ==
    /\ Reply("OK", "sig1", N_crypto_sig)
    /\ N_crypto_sig' = NoTx
    /\ signature_set' = FALSE
    /\ UNCHANGED <<device_initialized, pin_validated, upload, screens>>

FirstSignaturePart ==
    /\ Reply("OK", "sig0", N_crypto_sig)
    /\ UNCHANGED <<device_initialized, pin_validated, upload, screens, sigs>>

handleGetSigPart(req) ==
    \/ req.data # <<>> /\ Refused("COMMAND_NOT_ALLOWED")
    \/ /\ req.data = <<>>
       /\ \/ /\ ~signature_set \/ req.p2 > 1
             /\ Refused("CONDITIONS_NOT_SATISFIED")
          \/ signature_set /\ req.p2 = 0 /\ FirstSignaturePart
          \/ signature_set /\ req.p2 = 1 /\ LastSignaturePart

-----------------------------------------------------------------------------
(* handleApdu: the checks in the order of the code, then the command.      *)

Served(req) ==
    \/ req.ins = "GET_ADDR" /\ handleGetAddress(req)
    \/ req.ins = "SIGN" /\ handleSign(req)
    \/ req.ins = "GET_SIG" /\ handleGetSigPart(req)
    \/ req.ins = "GET_PK" /\ handleGetPubKeyPart(req)

handleApdu(req) ==
    /\ ~awaiting
    /\ \/ req.ins = "malformed" /\ Refused("WRONG_LENGTH")
       \/ req.ins = "GET_VERSION" /\ handle_getversion
       \/ /\ req.ins \notin {"malformed", "GET_VERSION"}
          /\ ~device_initialized
          /\ Refused("TX_NOT_INITIALIZED")
       \/ /\ req.ins = "unknown"
          /\ device_initialized
          /\ Refused("INS_NOT_SUPPORTED")
       \/ /\ req.ins \notin {"malformed", "GET_VERSION", "unknown"}
          /\ device_initialized
          /\ ~pin_validated
          /\ Refused("COMMAND_NOT_ALLOWED")
       \/ device_initialized /\ pin_validated /\ Served(req)

-----------------------------------------------------------------------------
(* The user's decision ends a review; its callback sends the reply.        *)

\* The transaction the parser's pointers cover at this moment.
Covered == SubSeq(buffer.data, 1, parsed_len)

\* A mutated form: the callback forgets to send its reply.
ReviewEnds_mut ==
    /\ review' = "none"
    /\ shown' = NoTx
    /\ UNCHANGED <<awaiting, device_initialized, pin_validated, upload>>

ReviewEnds ==
    /\ review' = "none"
    /\ awaiting' = FALSE
    /\ shown' = NoTx
    /\ UNCHANGED <<device_initialized, pin_validated, upload>>

\* A mutated form: a signature not yet collected is not replaced.
app_sign_mut ==
    /\ review = "txn"
    /\ N_crypto_sig' = IF signature_set THEN N_crypto_sig ELSE Covered
    /\ signature_set' = TRUE
    /\ Reply("OK", "deephash", Covered)
    /\ ReviewEnds

\* app_sign: crypto_sign digests what the pointers cover, signs and stores it.
app_sign ==
    /\ review = "txn"
    /\ N_crypto_sig' = Covered
    /\ signature_set' = TRUE
    /\ Reply("OK", "deephash", Covered)
    /\ ReviewEnds

\* The digest or the RSA operation fails: an older signature stays.
app_sign_fails ==
    /\ review = "txn"
    /\ Reply("SIGN_VERIFY_ERROR", "none", NoTx)
    /\ ReviewEnds
    /\ UNCHANGED sigs

app_reject ==
    /\ review # "none"
    /\ Reply("COMMAND_NOT_ALLOWED", "none", NoTx)
    /\ ReviewEnds
    /\ UNCHANGED sigs

\* The view could not render an item: the same end, another status word.
app_reply_error ==
    /\ review # "none"
    /\ Reply("DATA_INVALID", "none", NoTx)
    /\ ReviewEnds
    /\ UNCHANGED sigs

app_reply_address ==
    /\ review = "address"
    /\ Reply("OK", "address", NoTx)
    /\ ReviewEnds
    /\ UNCHANGED sigs

UserDecides ==
    app_sign \/ app_sign_fails \/ app_reject \/ app_reply_error
    \/ app_reply_address

-----------------------------------------------------------------------------
(* The surroundings.                                                       *)

\* The key store finishes its set-up (KeyStore!StorePrivateKey).
SetupDone ==
    /\ ~device_initialized
    /\ ~awaiting
    /\ device_initialized' = TRUE
    /\ UNCHANGED <<pin_validated, upload, screens, sigs, reply>>

\* The device locks itself or is unlocked.
TogglePin ==
    /\ pin_validated' = ~pin_validated
    /\ UNCHANGED <<device_initialized, upload, screens, sigs, reply>>

\* Power loss and boot: RAM starts over, the signature cell in flash stays.
Restart ==
    /\ device_initialized' \in BOOLEAN
    /\ pin_validated' = FALSE
    /\ tx_initialized' = FALSE
    /\ buffer' = [data |-> <<>>, size |-> 0]
    /\ parsed_len' = 0
    /\ overflowed' = FALSE
    /\ review' = "none"
    /\ awaiting' = FALSE
    /\ shown' = NoTx
    /\ signature_set' = FALSE
    /\ Reply("pending", "none", NoTx)
    /\ UNCHANGED N_crypto_sig

Next ==
    \/ \E req \in Requests : handleApdu(req)
    \/ UserDecides
    \/ SetupDone \/ TogglePin \/ Restart

Spec == Init /\ [][Next]_dvars

-----------------------------------------------------------------------------
(* Properties.                                                             *)

\* As long as a transaction is on screen, the bytes the digest will be taken
\* of are the bytes that were parsed and shown: nothing the host may do in
\* between reaches the buffer or the parser's pointers.
SignsWhatWasShown ==
    review = "txn" => parsed_len <= Len(buffer.data) /\ Covered = shown

\* No review of an upload that lost bytes because the buffer was full.
NoReviewAfterOverflow == review = "txn" => ~overflowed

\* Refinement: handler, buffer, review and signature cell together promise
\* what SigningService says.
Asked == IF review = "txn" THEN Covered ELSE NoTx
Held  == IF signature_set THEN N_crypto_sig ELSE NoTx
Given == IF reply.part \in {"sig0", "sig1"}
         THEN [of |-> reply.of, part |-> reply.part]
         ELSE [of |-> NoTx, part |-> "none"]

Service == INSTANCE SigningService
           WITH asked <- Asked, held <- Held, given <- Given

Implements == Service!Spec
=============================================================================
