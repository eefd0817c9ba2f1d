--------------------------- MODULE ApduHandler_proofs ---------------------------
(***************************************************************************)
(* The command handler implements SigningService, for every host, every    *)
(* set of transactions and every buffer size.                              *)
(*                                                                         *)
(* The work is in one invariant: from the last chunk to the user's         *)
(* decision, the bytes under the parser's pointers are the transaction     *)
(* that was parsed, because the pending reply keeps every other command    *)
(* out.                                                                    *)
(***************************************************************************)
EXTENDS ApduHandler, SequenceTheorems, TLAPS

\* A reply is pending exactly while something is on screen, and no signature
\* part is in the reply buffer then.
OneReplyPending ==
    /\ awaiting <=> review # "none"
    /\ awaiting => reply.part = "none"

\* The bytes under the parser's pointers are those that were parsed.
ReviewIntact ==
    review = "txn" =>
        /\ shown \in Valid
        /\ parsed_len <= Len(buffer.data)
        /\ Covered = shown
        /\ tx_initialized

UploadComplete == tx_initialized => ~overflowed

SignatureReal == signature_set => N_crypto_sig \in Valid

IInv == HandlerTypeOK /\ OneReplyPending /\ ReviewIntact /\ UploadComplete
               /\ SignatureReal

-----------------------------------------------------------------------------
(* Transactions as prefixes of the buffer.                                 *)

\* What tx_parse finds is what its pointers then cover.
LEMMA ParsedIsCovered ==
    ASSUME NEW data \in Seq(Byte), NEW tx \in tx_parse(data)
    PROVE  /\ tx \in Valid
           /\ Len(tx) <= Len(data)
           /\ SubSeq(data, 1, Len(tx)) = tx
<1>1. tx \in Valid /\ tx \in Seq(Byte) /\ IsPrefix(tx, data)
  BY ValidAssumption DEF tx_parse
<1>2. Len(tx) <= Len(data) /\ SubSeq(tx, 1, Len(tx)) = SubSeq(data, 1, Len(tx))
  BY <1>1 DEF IsPrefix
<1>3. SubSeq(tx, 1, Len(tx)) = tx
  BY <1>1
<1>4. QED
  BY <1>1, <1>2, <1>3

\* A buffer just reset is a buffer, of either size.
LEMMA EmptyBuffer ==
    ASSUME NEW size \in {0, FlashSize},
           NEW b, b = [data |-> <<>>, size |-> size]
    PROVE  /\ b \in [data : Seq(Byte), size : {0, FlashSize}]
           /\ Len(b.data) <= b.size
<1>1. <<>> \in Seq(Byte) /\ Len(<<>>) = 0
  OBVIOUS
<1>2. size \in Nat
  BY FlashSizeAssumption
<1>3. QED
  BY <1>1, <1>2

-----------------------------------------------------------------------------
(* What a command can do, whichever it is.                                 *)

\* An answer that changes nothing and gives no part of a signature.
Quiet ==
    /\ \E sw \in StatusWords, part \in Parts \ {"sig0", "sig1"} :
          Reply(sw, part, NoTx)
    /\ UNCHANGED <<upload, screens, sigs>>

Added ==
    \E data \in Payloads :
        /\ Fits(data)
        /\ tx_append(data)
        /\ Reply("OK", "none", NoTx)
        /\ UNCHANGED <<tx_initialized, overflowed, parsed_len, screens, sigs>>

Completed ==
    \E data \in Payloads :
        /\ tx_initialized
        /\ Fits(data)
        /\ tx_append(data)
        /\ UNCHANGED <<tx_initialized, overflowed>>
        /\ \/ \E tx \in tx_parse(buffer.data \o data) : ReviewTransaction(tx)
           \/ RejectData

AddressShown ==
    /\ review' = "address"
    /\ awaiting' = TRUE
    /\ Reply("pending", "none", NoTx)
    /\ UNCHANGED <<upload, shown, sigs>>

CommandStep ==
    /\ ~awaiting
    /\ UNCHANGED <<device_initialized, pin_validated>>
    /\ \/ Quiet \/ ChunkInit \/ ChunkOverflow \/ Added \/ Completed
       \/ ChunkUnknown \/ AddressShown
       \/ signature_set /\ (FirstSignaturePart \/ LastSignaturePart)

\* handleApdu does one of these.
LEMMA CommandSteps ==
    ASSUME NEW req \in Requests, handleApdu(req)
    PROVE  CommandStep
<1> USE DEF CommandStep
<1>1. req.data \in Payloads
  BY DEF Requests
<1>2. ~awaiting
  BY DEF handleApdu
<1>3. ASSUME NEW sw \in StatusWords, Refused(sw) PROVE CommandStep
  BY <1>2, <1>3 DEF Refused, Quiet, Parts
<1>4. ASSUME NEW part \in Parts \ {"sig0", "sig1"}, Answered(part)
      PROVE  CommandStep
  BY <1>2, <1>4 DEF Answered, Quiet, StatusWords
<1>5. ASSUME handleSign(req) PROVE CommandStep
  <2>1. UNCHANGED <<device_initialized, pin_validated>>
    BY <1>5 DEF handleSign
  <2>2. CASE Refused("INVALIDP1P2")
    BY <2>2, <1>3 DEF StatusWords
  <2>3. CASE ChunkInit \/ ChunkUnknown
    BY <2>3, <2>1, <1>2
  <2>4. CASE ChunkAdd(req.data)
    BY <2>4, <2>1, <1>1, <1>2 DEF ChunkAdd, Added
  <2>5. CASE ChunkLast(req.data)
    <3>1. CASE Refused("TX_NOT_INITIALIZED")
      BY <3>1, <1>3 DEF StatusWords
    <3>2. CASE ~Refused("TX_NOT_INITIALIZED")
      BY <2>5, <3>2, <2>1, <1>1, <1>2 DEF ChunkLast, Completed
    <3>3. QED
      BY <3>1, <3>2
  <2>6. QED
    BY <1>5, <2>2, <2>3, <2>4, <2>5 DEF handleSign
<1>6. ASSUME handleGetAddress(req) PROVE CommandStep
  <2>1. CASE Refused("COMMAND_NOT_ALLOWED") \/ Refused("EXECUTION_ERROR")
    BY <2>1, <1>3 DEF StatusWords
  <2>2. CASE Answered("address")
    BY <2>2, <1>4 DEF Parts
  <2>3. QED
    BY <1>2, <1>6, <2>1, <2>2 DEF handleGetAddress, AddressShown
<1>7. ASSUME handleGetPubKeyPart(req) PROVE CommandStep
  BY <1>7, <1>3, <1>4 DEF handleGetPubKeyPart, StatusWords, Parts
<1>8. ASSUME handleGetSigPart(req) PROVE CommandStep
  <2>1. CASE Refused("COMMAND_NOT_ALLOWED") \/ Refused("CONDITIONS_NOT_SATISFIED")
    BY <2>1, <1>3 DEF StatusWords
  <2>2. CASE signature_set /\ (FirstSignaturePart \/ LastSignaturePart)
    BY <2>2, <1>2 DEF FirstSignaturePart, LastSignaturePart
  <2>3. QED
    BY <1>8, <2>1, <2>2 DEF handleGetSigPart
<1>9. QED
  <2>1. CASE Served(req)
    BY <2>1, <1>5, <1>6, <1>7, <1>8 DEF Served
  <2>2. CASE ~Served(req)
    BY <2>2, <1>3, <1>4 DEF handleApdu, handle_getversion, StatusWords, Parts
  <2>3. QED
    BY <2>1, <2>2

-----------------------------------------------------------------------------

\* A device that has just started satisfies the invariant.
LEMMA InitIInv == Init => IInv
<1> SUFFICES ASSUME Init PROVE IInv
  OBVIOUS
<1>1. HandlerTypeOK
  <2>1. /\ buffer \in [data : Seq(Byte), size : {0, FlashSize}]
        /\ Len(buffer.data) <= buffer.size
    BY EmptyBuffer DEF Init
  <2>2. QED
    BY <2>1 DEF Init, HandlerTypeOK, StatusWords, Parts
<1>2. QED
  BY <1>1 DEF Init, IInv, OneReplyPending, ReviewIntact, UploadComplete,
              SignatureReal

\* Appending a payload that fits keeps the buffer within its room.
LEMMA AppendFits ==
    ASSUME HandlerTypeOK, NEW data \in Payloads, Fits(data), tx_append(data)
    PROVE  /\ buffer' \in [data : Seq(Byte), size : {0, FlashSize}]
           /\ Len(buffer'.data) <= buffer'.size
           /\ buffer'.data = buffer.data \o data
           /\ buffer'.data \in Seq(Byte)
<1>1. data \in Seq(Byte) /\ buffer.data \in Seq(Byte)
  BY PayloadsAssumption DEF HandlerTypeOK
<1>2. buffer.data \o data \in Seq(Byte)
  BY <1>1
<1>3. buffer' = [data |-> buffer.data \o data, size |-> buffer.size]
  BY DEF HandlerTypeOK, tx_append
<1>4. Len(buffer.data \o data) = Len(buffer.data) + Len(data)
  BY <1>1
<1>5. QED
  BY <1>2, <1>3, <1>4 DEF HandlerTypeOK, Fits

\* A command keeps the invariant.
LEMMA CommandIInv ==
    ASSUME IInv, CommandStep
    PROVE  IInv'
<1> USE DEF IInv, OneReplyPending, ReviewIntact, UploadComplete, SignatureReal,
            CommandStep
<1>1. review = "none" /\ ~awaiting
  OBVIOUS
<1>2. CASE Quiet
  BY <1>1, <1>2 DEF Quiet, Reply, HandlerTypeOK, upload, screens, sigs, NoTx
<1>3. CASE ChunkInit
  <2>1. /\ buffer' \in [data : Seq(Byte), size : {0, FlashSize}]
        /\ Len(buffer'.data) <= buffer'.size
    BY <1>3, EmptyBuffer DEF ChunkInit
  <2>2. QED
    BY <1>1, <1>3, <2>1
       DEF ChunkInit, Reply, HandlerTypeOK, screens, sigs, StatusWords, Parts
<1>4. CASE ChunkOverflow
  BY <1>1, <1>4
     DEF ChunkOverflow, Reply, HandlerTypeOK, screens, sigs, NoTx, StatusWords, Parts
<1>5. CASE Added
  <2>1. PICK data \in Payloads :
            /\ Fits(data)
            /\ tx_append(data)
            /\ Reply("OK", "none", NoTx)
            /\ UNCHANGED <<tx_initialized, overflowed, parsed_len, screens,
                           sigs>>
    BY <1>5 DEF Added
  <2>2. QED
    BY <1>1, <2>1, AppendFits
       DEF Reply, HandlerTypeOK, screens, sigs, NoTx, StatusWords, Parts
<1>6. CASE Completed
  <2>1. PICK data \in Payloads :
            /\ tx_initialized
            /\ Fits(data)
            /\ tx_append(data)
            /\ UNCHANGED <<tx_initialized, overflowed>>
            /\ \/ \E tx \in tx_parse(buffer.data \o data) : ReviewTransaction(tx)
               \/ RejectData
    BY <1>6 DEF Completed
  <2>2. CASE RejectData
    BY <1>1, <2>1, <2>2, AppendFits
       DEF RejectData, Reply, HandlerTypeOK, screens, sigs, NoTx, StatusWords, Parts
  <2>3. ASSUME NEW tx \in tx_parse(buffer.data \o data), ReviewTransaction(tx)
        PROVE  IInv'
    <3>1. /\ buffer' \in [data : Seq(Byte), size : {0, FlashSize}]
          /\ Len(buffer'.data) <= buffer'.size
          /\ buffer'.data = buffer.data \o data
          /\ buffer'.data \in Seq(Byte)
      BY <2>1, AppendFits
    <3>2. /\ tx \in Valid
          /\ Len(tx) <= Len(buffer'.data)
          /\ SubSeq(buffer'.data, 1, Len(tx)) = tx
      BY <3>1, ParsedIsCovered
    <3>3. Len(tx) \in Nat
      BY <3>2, ValidAssumption
    <3>4. Covered' = tx
      BY <2>3, <3>2 DEF ReviewTransaction, Covered
    <3>5. HandlerTypeOK'
      BY <2>1, <2>3, <3>1, <3>2, <3>3
         DEF ReviewTransaction, Reply, HandlerTypeOK, sigs, NoTx, StatusWords, Parts
    <3>6. QED
      BY <2>1, <2>3, <3>2, <3>4, <3>5 DEF ReviewTransaction, Reply, sigs
  <2>4. QED
    BY <2>1, <2>2, <2>3
<1>7. CASE ChunkUnknown
  BY <1>1, <1>7
     DEF ChunkUnknown, Reply, HandlerTypeOK, screens, sigs, NoTx, StatusWords, Parts
<1>8. CASE AddressShown
  BY <1>1, <1>8
     DEF AddressShown, Reply, HandlerTypeOK, upload, sigs, NoTx, StatusWords, Parts
<1>9. CASE signature_set /\ FirstSignaturePart
  BY <1>1, <1>9
     DEF FirstSignaturePart, Reply, HandlerTypeOK, upload, screens, sigs, StatusWords,
         Parts
<1>10. CASE signature_set /\ LastSignaturePart
  BY <1>1, <1>10
     DEF LastSignaturePart, Reply, HandlerTypeOK, upload, screens, NoTx, StatusWords,
         Parts
<1>11. QED
  BY <1>2, <1>3, <1>4, <1>5, <1>6, <1>7, <1>8, <1>9, <1>10

\* Every step keeps the invariant.
LEMMA NextIInv == IInv /\ [Next]_dvars => IInv'
<1> SUFFICES ASSUME IInv, [Next]_dvars PROVE IInv'
  OBVIOUS
<1>1. CASE \E req \in Requests : handleApdu(req)
  BY <1>1, CommandSteps, CommandIInv
<1> USE DEF IInv, OneReplyPending, ReviewIntact, UploadComplete, SignatureReal,
            HandlerTypeOK, Reply, StatusWords, Parts
<1>2. CASE app_sign
  BY <1>2 DEF app_sign, ReviewEnds, upload, NoTx
<1>3. CASE app_sign_fails \/ app_reject \/ app_reply_error \/ app_reply_address
  <2>1. ReviewEnds /\ UNCHANGED sigs
    BY <1>3 DEF app_sign_fails, app_reject, app_reply_error, app_reply_address
  <2>2. reply' \in [sw : StatusWords, part : Parts, of : Valid \cup {NoTx}]
    BY <1>3 DEF app_sign_fails, app_reject, app_reply_error, app_reply_address
  <2>3. QED
    BY <2>1, <2>2 DEF ReviewEnds, upload, sigs
<1>4. CASE SetupDone
  BY <1>4 DEF SetupDone, upload, screens, sigs, Covered
<1>5. CASE TogglePin
  BY <1>5 DEF TogglePin, upload, screens, sigs, Covered
<1>6. CASE Restart
  <2>1. /\ buffer' \in [data : Seq(Byte), size : {0, FlashSize}]
        /\ Len(buffer'.data) <= buffer'.size
    BY <1>6, EmptyBuffer DEF Restart
  <2>2. QED
    BY <1>6, <2>1 DEF Restart
<1>7. CASE UNCHANGED dvars
  BY <1>7 DEF dvars, upload, screens, sigs, Covered
<1>8. QED
  BY <1>1, <1>2, <1>3, <1>4, <1>5, <1>6, <1>7 DEF Next, UserDecides

\* The invariant holds in every reachable state.
THEOREM Invariance == Spec => []IInv
<1>1. Init => IInv
  BY InitIInv
<1>2. IInv /\ [Next]_dvars => IInv'
  BY NextIInv
<1>3. QED
  BY <1>1, <1>2, PTL DEF Spec

\* Every variable keeps its type; in particular the buffer never holds more
\* than its room.
THEOREM TypeCorrect == Spec => []HandlerTypeOK
<1>1. IInv => HandlerTypeOK
  BY DEF IInv
<1>2. QED
  BY <1>1, Invariance, PTL

\* What the user decides on is what will be signed.
THEOREM ShownIsSigned == Spec => []SignsWhatWasShown
<1>1. IInv => SignsWhatWasShown
  BY DEF IInv, ReviewIntact, SignsWhatWasShown
<1>2. QED
  BY <1>1, Invariance, PTL

\* Uploads that lost bytes to a full buffer never come to a review.
THEOREM OverflowIsNotReviewed == Spec => []NoReviewAfterOverflow
<1>1. IInv => NoReviewAfterOverflow
  BY DEF IInv, ReviewIntact, UploadComplete, NoReviewAfterOverflow
<1>2. QED
  BY <1>1, Invariance, PTL

-----------------------------------------------------------------------------
(* The handler implements SigningService.                                  *)

\* A device that has just started maps to a service that starts.
LEMMA ServiceInit == Init => Service!Init
BY DEF Init, Service!Init, Asked, Held, Given, Service!NothingGiven

\* An answer that gives no part of a signature and starts no review is Other.
LEMMA OtherAnswer ==
    ASSUME review # "txn", review' # "txn", UNCHANGED sigs,
           reply'.part \notin {"sig0", "sig1"}
    PROVE  Service!Next
<1>1. Asked' = Asked /\ Held' = Held
  BY DEF Asked, Held, sigs
<1>2. Given' = Service!NothingGiven
  BY DEF Given, Service!NothingGiven
<1>3. QED
  BY <1>1, <1>2 DEF Service!Next, Service!Other

\* Every command maps to a step of the service.
LEMMA CommandService ==
    ASSUME IInv, CommandStep
    PROVE  Service!Next
<1>1. review = "none" /\ ~awaiting
  BY DEF CommandStep, IInv, OneReplyPending
<1>2. CASE Quiet
  BY <1>1, <1>2, OtherAnswer DEF Quiet, Reply, screens
<1>3. CASE ChunkInit \/ ChunkOverflow \/ ChunkUnknown \/ Added
  BY <1>1, <1>3, OtherAnswer
     DEF ChunkInit, ChunkOverflow, ChunkUnknown, Added, Reply, screens
<1>4. CASE AddressShown
  BY <1>1, <1>4, OtherAnswer DEF AddressShown, Reply
<1>5. CASE Completed
  <2>1. PICK data \in Payloads :
            /\ Fits(data)
            /\ tx_append(data)
            /\ \/ \E tx \in tx_parse(buffer.data \o data) : ReviewTransaction(tx)
               \/ RejectData
    BY <1>5 DEF Completed
  <2>2. CASE RejectData
    BY <1>1, <2>2, OtherAnswer DEF RejectData, Reply, screens
  <2>3. ASSUME NEW tx \in tx_parse(buffer.data \o data), ReviewTransaction(tx)
        PROVE  Service!Ask
    <3>1. buffer'.data = buffer.data \o data /\ buffer'.data \in Seq(Byte)
      BY <2>1, AppendFits DEF IInv
    <3>2. tx \in Valid /\ Covered' = tx
      BY <2>3, <3>1, ParsedIsCovered DEF ReviewTransaction, Covered
    <3>3. QED
      BY <1>1, <2>3, <3>2
         DEF Service!Ask, Service!NothingGiven, Asked, Held, Given,
             ReviewTransaction, Reply, sigs
  <2>4. QED
    BY <2>1, <2>2, <2>3 DEF Service!Next
<1>6. CASE signature_set /\ FirstSignaturePart
  <2>1. N_crypto_sig # NoTx
    BY <1>6, ValidAssumption DEF IInv, SignatureReal
  <2>2. Service!CollectFirst
    BY <1>1, <1>6, <2>1
       DEF FirstSignaturePart, Reply, screens, sigs, Asked, Held, Given,
           Service!CollectFirst
  <2>3. QED
    BY <2>2 DEF Service!Next
<1>7. CASE signature_set /\ LastSignaturePart
  <2>1. N_crypto_sig # NoTx
    BY <1>7, ValidAssumption DEF IInv, SignatureReal
  <2>2. Service!CollectLast
    BY <1>1, <1>7, <2>1
       DEF LastSignaturePart, Reply, screens, Asked, Held, Given,
           Service!CollectLast
  <2>3. QED
    BY <2>2 DEF Service!Next
<1>8. QED
  BY <1>2, <1>3, <1>4, <1>5, <1>6, <1>7 DEF CommandStep

\* Every step maps to a step of the service or to a stutter.
LEMMA NextService ==
    ASSUME IInv, [Next]_dvars
    PROVE  [Service!Next]_(Service!svars)
<1>1. CASE \E req \in Requests : handleApdu(req)
  BY <1>1, CommandSteps, CommandService
<1>2. CASE app_sign
  <2>1. Asked # NoTx /\ Asked = Covered
    BY <1>2, ValidAssumption DEF app_sign, Asked, IInv, ReviewIntact
  <2>2. Asked' = NoTx /\ Held' = Asked
    BY <1>2, <2>1 DEF app_sign, ReviewEnds, Asked, Held
  <2>3. Given' = Given
    BY <1>2 DEF app_sign, Reply, Given, IInv, OneReplyPending
  <2>4. QED
    BY <2>1, <2>2, <2>3 DEF Service!Next, Service!Grant
<1>3. CASE app_sign_fails \/ app_reject \/ app_reply_error \/ app_reply_address
  <2>1. /\ review # "none" /\ review' = "none"
        /\ UNCHANGED sigs
        /\ reply'.part \notin {"sig0", "sig1"}
    BY <1>3 DEF app_sign_fails, app_reject, app_reply_error, app_reply_address,
                ReviewEnds, Reply
  <2>2. CASE review = "txn"
    <3>1. Asked # NoTx
      BY <2>2, ValidAssumption DEF Asked, IInv, ReviewIntact
    <3>2. Asked' = NoTx /\ Held' = Held
      BY <2>1 DEF Asked, Held, sigs
    <3>3. Given' = Given
      BY <2>1 DEF Given, IInv, OneReplyPending
    <3>4. QED
      BY <3>1, <3>2, <3>3 DEF Service!Next, Service!Deny
  <2>3. CASE review # "txn"
    BY <2>1, <2>3, OtherAnswer
  <2>4. QED
    BY <2>2, <2>3
<1>4. CASE Restart
  <2>1. Asked' = NoTx /\ Held' = NoTx
    BY <1>4 DEF Restart, Asked, Held
  <2>2. Given' = Service!NothingGiven
    BY <1>4 DEF Restart, Reply, Given, Service!NothingGiven
  <2>3. QED
    BY <2>1, <2>2 DEF Service!Next, Service!Restart
<1>5. CASE SetupDone \/ TogglePin \/ UNCHANGED dvars
  <2>1. UNCHANGED <<upload, screens, sigs, reply>>
    BY <1>5 DEF SetupDone, TogglePin, dvars
  <2>2. QED
    BY <2>1 DEF Service!svars, Asked, Held, Given, Covered, upload, screens,
                sigs
<1>6. QED
  BY <1>1, <1>2, <1>3, <1>4, <1>5 DEF Next, UserDecides

\* The command handler implements the signing service: only what was shown
\* and granted is signed, and its signature is handed out once.
THEOREM HandlerImplementsService == Spec => Implements
<1>1. Init => Service!Init
  BY ServiceInit
<1>2. IInv /\ [Next]_dvars => [Service!Next]_(Service!svars)
  BY NextService
<1>3. QED
  BY <1>1, <1>2, Invariance, PTL DEF Spec, Implements, Service!Spec
=============================================================================
