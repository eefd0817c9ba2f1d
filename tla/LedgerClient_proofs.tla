-------------------------- MODULE LedgerClient_proofs --------------------------
(***************************************************************************)
(* sign() over a lossy transport, for every set of transactions, every     *)
(* chunk size and every buffer: what it returns belongs together, and it   *)
(* is of its message when the device accepted the first chunk.  The client *)
(* and the device together implement the device of ApduHandler, so that    *)
(* what is proved there for every host holds for this one.                 *)
(***************************************************************************)
EXTENDS LedgerClient, ApduHandler_proofs

\* The bytes of m that chunks 1..i hold.
Uploaded(m, i) ==
    SubSeq(m, 1, IF (i - 1) * CHUNK_SIZE > Len(m) THEN Len(m)
                                                  ELSE (i - 1) * CHUNK_SIZE)

LastChunkTaken == step = "chunk" /\ AllSent /\ link = "taken"

Fetching == step \in {"sig0", "sig1"}

\* The variables of a call agree on whether one is running.
CallRuns ==
    /\ step = "idle" <=> message = NoTx
    /\ step = "idle" <=> link = "none"
    /\ step = "chunk" => chunkIdx >= 1

\* Only the last chunk of the running call puts something on screen, and no
\* answer to another command comes from the user.
ReviewOwned ==
    /\ review # "address"
    /\ link = "taken" /\ ~LastChunkTaken => review = "none"
    /\ Fetching => review = "none"

\* The stored signature is of the deephash the call holds or is about to get.
SignatureOwned ==
    /\ LastChunkTaken /\ reply.sw = "OK" /\ signature_set =>
           N_crypto_sig = reply.of
    /\ Fetching /\ signature_set => N_crypto_sig = digest
    /\ Fetching /\ link = "taken" /\ reply.sw = "OK" => reply.of = digest
    /\ step = "sig1" => part0 = digest

\* From an accepted first chunk on, the buffer of a device that has not
\* restarted holds what was uploaded.
UploadInStep ==
    /\ step = "chunk" /\ link = "sent" /\ chunkIdx > 1 /\ initAcked
           /\ tx_initialized =>
           buffer.data = Uploaded(message, chunkIdx - 1)
    /\ step = "chunk" /\ link = "taken" /\ ~AllSent /\ reply.sw = "OK"
           /\ (chunkIdx = 1 \/ initAcked) /\ tx_initialized =>
           buffer.data = Uploaded(message, chunkIdx)

\* With the first chunk accepted, what is reviewed, signed and returned is the
\* message.
MessageReviewed ==
    initAcked =>
        /\ LastChunkTaken /\ review = "txn" => Covered = message
        /\ LastChunkTaken /\ reply.sw = "OK" => reply.of = message
        /\ Fetching => digest = message

CallInv == ClientTypeOK /\ CallRuns /\ ReviewOwned /\ SignatureOwned
                        /\ UploadInStep /\ MessageReviewed
                        /\ OneTransactionPerResult
                        /\ SignsMessageOnceInitAcked

ClientIInv == IInv /\ CallInv
-----------------------------------------------------------------------------
(* The chunks of a message.                                                *)

\* Multiplication by a natural number is monotonic.
LEMMA Scaled ==
    ASSUME NEW a \in Nat, NEW b \in Nat, NEW c \in Nat, a <= b
    PROVE  a * c <= b * c
<1>1. PICK d \in Nat : b = a + d
  OBVIOUS
<1>2. b * c = a * c + d * c /\ d * c \in Nat /\ a * c \in Nat
  BY <1>1
<1>3. QED
  BY <1>2

\* The number of chunks that hold bytes is the length divided by the chunk
\* size, rounded up.
LEMMA RoundsUp ==
    ASSUME NEW l \in Nat \ {0}, NEW c \in Nat \ {0},
           NEW q, q = (l + c - 1) \div c
    PROVE  q \in Nat \ {0} /\ l <= q * c /\ q * c < l + c
<1>1. q \in Nat /\ q * c <= l + c - 1 /\ l + c - 1 < q * c + c
  OBVIOUS
<1>2. q # 0
  BY <1>1
<1>3. QED
  BY <1>1, <1>2

\* The chunks are the message cut in pieces: one after the other they add up
\* to it.
LEMMA ChunksAddUp ==
    ASSUME NEW m \in Valid, NEW n, n = Len(prepareChunks(m))
    PROVE  /\ n \in Nat /\ n >= 2
           /\ DOMAIN prepareChunks(m) = 1..n
           /\ prepareChunks(m)[1] = NoTx
           /\ Uploaded(m, 1) = NoTx
           /\ Uploaded(m, n) = m
           /\ \A k \in 2..n :
                 Uploaded(m, k - 1) \o prepareChunks(m)[k] = Uploaded(m, k)
<1> DEFINE c == CHUNK_SIZE
           l == Len(m)
           q == (l + c - 1) \div c
           cut(x) == IF x > l THEN l ELSE x
           piece(i) == SubSeq(m, (i - 1) * c + 1, cut(i * c))
           pieces == [i \in 1..q |-> piece(i)]
<1>1. m \in Seq(Byte) /\ m # NoTx
  BY ValidAssumption
<1>2. l \in Nat \ {0} /\ c \in Nat \ {0}
  BY <1>1, ChunkSizeAssumption DEF NoTx
<1>3. q \in Nat \ {0} /\ l <= q * c /\ q * c < l + c
  <2> HIDE DEF c, l
  <2>1. QED
    BY <1>2, RoundsUp
<1>4. prepareChunks(m) = <<NoTx>> \o pieces
  BY DEF prepareChunks
<1> HIDE DEF c, l, q
<1>5. \A i \in 1..q : piece(i) \in Seq(Byte)
  <2> SUFFICES ASSUME NEW i \in 1..q PROVE piece(i) \in Seq(Byte)
    OBVIOUS
  <2> DEFINE x == (i - 1) * c
  <2>1. x \in Nat /\ i * c \in Nat
    BY <1>2, <1>3
  <2>2. cut(i * c) \in 0..l
    BY <1>2, <2>1
  <2>3. \A j \in (x + 1)..cut(i * c) : m[j] \in Byte
    BY <1>1, <2>1, <2>2 DEF l
  <2> HIDE DEF x, cut
  <2>4. SubSeq(m, x + 1, cut(i * c)) \in Seq(Byte)
    BY <2>1, <2>2, <2>3, SubSeqProperties
  <2>5. QED
    BY <2>4 DEF x
<1>6. pieces \in Seq(Seq(Byte)) /\ Len(pieces) = q
  BY <1>3, <1>5
<1>7. /\ n = q + 1
      /\ DOMAIN prepareChunks(m) = 1..n
      /\ prepareChunks(m)[1] = NoTx
      /\ \A k \in 2..n : prepareChunks(m)[k] = piece(k - 1)
  <2>1. NoTx \in Seq(Byte)
    BY DEF NoTx
  <2>2. <<NoTx>> \in Seq(Seq(Byte)) /\ Len(<<NoTx>>) = 1
    BY <2>1
  <2> HIDE DEF piece
  <2>3. \A i \in 1..q : pieces[i] = piece(i)
    OBVIOUS
  <2> HIDE DEF pieces
  <2>4. /\ Len(<<NoTx>> \o pieces) = 1 + q
        /\ DOMAIN (<<NoTx>> \o pieces) = 1..(1 + q)
        /\ (<<NoTx>> \o pieces)[1] = NoTx
        /\ \A k \in 2..(1 + q) : (<<NoTx>> \o pieces)[k] = pieces[k - 1]
    BY <2>2, <1>6, <1>3
  <2>5. QED
    BY <2>3, <2>4, <1>4, <1>3
<1>8. \A i : Uploaded(m, i) = SubSeq(m, 1, cut((i - 1) * c))
  BY DEF Uploaded, c, l
<1>9. Uploaded(m, 1) = NoTx
  <2>1. cut((1 - 1) * c) = 0
    BY <1>2
  <2>2. QED
    BY <2>1, <1>8, SubSeqEmpty DEF NoTx
<1>10. Uploaded(m, n) = m
  <2>1. cut((n - 1) * c) = l
    BY <1>2, <1>3, <1>7
  <2>2. QED
    BY <2>1, <1>1, <1>8, SubSeqFull DEF l
<1>11. ASSUME NEW k \in 2..n
       PROVE  Uploaded(m, k - 1) \o prepareChunks(m)[k] = Uploaded(m, k)
  <2> DEFINE x == (k - 2) * c
             y == (k - 1) * c
  <2>1. k - 2 \in Nat /\ k - 1 \in Nat /\ k - 1 <= q
    BY <1>3, <1>7
  <2>2. x \in Nat /\ y \in Nat /\ y = x + c
    BY <2>1, <1>2
  <2>3. y <= q * c
    BY <2>1, <1>2, <1>3, Scaled
  <2> HIDE DEF x, y
  <2>4. q * c \in Nat /\ x < l
    BY <1>2, <1>3, <2>2, <2>3
  <2>5. cut(x) = x /\ cut(y) \in x..l
    BY <1>2, <2>2, <2>4
  <2>6. prepareChunks(m)[k] = SubSeq(m, x + 1, cut(y))
    <3>1. (k - 1) - 1 = k - 2
      BY <2>1
    <3>2. QED
      BY <1>7, <3>1 DEF x, y
  <2>7. /\ Uploaded(m, k - 1) = SubSeq(m, 1, cut(x))
        /\ Uploaded(m, k) = SubSeq(m, 1, cut(y))
    <3>1. (k - 1) - 1 = k - 2
      BY <2>1
    <3>2. QED
      BY <1>8, <3>1 DEF x, y
  <2> HIDE DEF cut
  <2>8. SubSeq(m, 1, x) \o SubSeq(m, x + 1, cut(y)) = SubSeq(m, 1, cut(y))
    <3>1. 1 \in 1..(Len(m) + 1) /\ x \in (1 - 1)..Len(m) /\ cut(y) \in x..Len(m)
      BY <1>2, <2>2, <2>4, <2>5 DEF l
    <3>2. QED
      BY <1>1, <3>1, ConcatAdjacentSubSeq
  <2>9. QED
    BY <2>5, <2>6, <2>7, <2>8
<1>12. n \in Nat /\ n >= 2
  BY <1>3, <1>7
<1>13. QED
  BY <1>7, <1>9, <1>10, <1>11, <1>12

\* Without a message there is only the first chunk, or at least a number.
LEMMA NoMessageChunks == Len(prepareChunks(NoTx)) \in Nat
<1> DEFINE q == (Len(NoTx) + CHUNK_SIZE - 1) \div CHUNK_SIZE
           piece(i) == SubSeq(NoTx, (i - 1) * CHUNK_SIZE + 1,
                              IF i * CHUNK_SIZE > Len(NoTx)
                              THEN Len(NoTx) ELSE i * CHUNK_SIZE)
           pieces == [i \in 1..q |-> piece(i)]
           All == {NoTx} \cup {piece(i) : i \in 1..q}
<1>1. q \in Nat
  BY ChunkSizeAssumption DEF NoTx
<1>2. prepareChunks(NoTx) = <<NoTx>> \o pieces
  BY DEF prepareChunks
<1> HIDE DEF q, piece
<1>3. pieces \in Seq(All)
  BY <1>1
<1>4. <<NoTx>> \in Seq(All)
  OBVIOUS
<1> HIDE DEF pieces, All
<1>5. Len(<<NoTx>> \o pieces) \in Nat
  BY <1>3, <1>4
<1>6. QED
  BY <1>2, <1>5

-----------------------------------------------------------------------------
(* What the device does with the client's commands.                        *)

\* SIGN with P1_INIT: an OK means an empty buffer.
LEMMA InitSent ==
    ASSUME NEW req, req.ins = "SIGN", req.p1 = P1_INIT, req.p2 = 0,
           handleApdu(req)
    PROVE  /\ UNCHANGED <<screens, sigs>>
           /\ reply'.sw = "OK" => buffer'.data = NoTx
<1>1. \/ \E sw \in StatusWords \ {"OK"} : Refused(sw)
      \/ handleSign(req)
  BY DEF handleApdu, Served, StatusWords
<1>2. CASE \E sw \in StatusWords \ {"OK"} : Refused(sw)
  BY <1>2 DEF Refused, Reply
<1>3. CASE handleSign(req)
  <2>1. ChunkInit
    BY <1>3 DEF handleSign, P1_INIT, P1_ADD, P1_LAST
  <2>2. QED
    BY <2>1 DEF ChunkInit, Reply, NoTx
<1>4. QED
  BY <1>1, <1>2, <1>3

\* SIGN with P1_ADD: an OK means the payload is at the end of the buffer.
LEMMA AddSent ==
    ASSUME HandlerTypeOK, NEW req, req.ins = "SIGN", req.p1 = P1_ADD, req.p2 = 0,
           req.data \in Payloads, handleApdu(req)
    PROVE  /\ UNCHANGED <<screens, sigs>>
           /\ reply'.sw = "OK" => /\ buffer'.data = buffer.data \o req.data
                                  /\ tx_initialized' = tx_initialized
<1>1. \/ \E sw \in StatusWords \ {"OK"} : Refused(sw)
      \/ handleSign(req)
  BY DEF handleApdu, Served, StatusWords
<1>2. CASE \E sw \in StatusWords \ {"OK"} : Refused(sw)
  <2>1. reply'.sw # "OK" /\ UNCHANGED <<screens, sigs>>
    BY <1>2 DEF Refused, Reply
  <2>2. QED
    BY <2>1
<1>3. CASE handleSign(req)
  <2>1. ChunkAdd(req.data)
    BY <1>3 DEF handleSign, P1_INIT, P1_ADD, P1_LAST
  <2>2. CASE ChunkOverflow
    BY <2>2 DEF ChunkOverflow, Reply
  <2>3. CASE ~ChunkOverflow
    BY <2>1, <2>3, AppendFits DEF ChunkAdd, Reply
  <2>4. QED
    BY <2>2, <2>3
<1>4. QED
  BY <1>1, <1>2, <1>3

\* SIGN with P1_LAST is never answered at once with OK; a review is of a
\* transaction at the beginning of the upload.
LEMMA LastSent ==
    ASSUME HandlerTypeOK, NEW req, req.ins = "SIGN", req.p1 = P1_LAST, req.p2 = 0,
           req.data \in Payloads, handleApdu(req), review = "none"
    PROVE  /\ UNCHANGED sigs
           /\ reply'.sw # "OK"
           /\ review' \in {"none", "txn"}
           /\ review' = "txn" =>
                 /\ tx_initialized
                 /\ Covered' \in tx_parse(buffer.data \o req.data)
<1>1. \/ \E sw \in StatusWords \ {"OK"} : Refused(sw)
      \/ handleSign(req)
  BY DEF handleApdu, Served, StatusWords
<1>2. CASE \E sw \in StatusWords \ {"OK"} : Refused(sw)
  BY <1>2 DEF Refused, Reply, screens
<1>3. CASE handleSign(req)
  <2>1. ChunkLast(req.data)
    BY <1>3 DEF handleSign, P1_INIT, P1_ADD, P1_LAST
  <2>2. CASE Refused("TX_NOT_INITIALIZED") \/ ChunkOverflow
    BY <2>2 DEF Refused, ChunkOverflow, Reply, screens
  <2>3. CASE RejectData
    BY <2>3 DEF RejectData, Reply, screens
  <2>4. ASSUME tx_initialized, Fits(req.data), tx_append(req.data),
               NEW tx \in tx_parse(buffer.data \o req.data),
               ReviewTransaction(tx)
        PROVE  /\ UNCHANGED sigs /\ reply'.sw # "OK" /\ review' = "txn"
               /\ Covered' \in tx_parse(buffer.data \o req.data)
    <3>1. buffer'.data = buffer.data \o req.data /\ buffer'.data \in Seq(Byte)
      BY <2>4, AppendFits
    <3>2. Covered' = tx
      BY <2>4, <3>1, ParsedIsCovered DEF ReviewTransaction, Covered
    <3>3. QED
      BY <2>4, <3>2 DEF ReviewTransaction, Reply
  <2>5. CASE /\ tx_initialized
             /\ Fits(req.data)
             /\ tx_append(req.data)
             /\ \E tx \in tx_parse(buffer.data \o req.data) : ReviewTransaction(tx)
    BY <2>4, <2>5
  <2>6. QED
    BY <2>1, <2>2, <2>3, <2>5 DEF ChunkLast
<1>4. QED
  BY <1>1, <1>2, <1>3

\* GET_SIG answers OK only with the stored signature, and leaves it or erases
\* it.
LEMMA SigAsked ==
    ASSUME NEW req, req.ins = "GET_SIG", handleApdu(req)
    PROVE  /\ UNCHANGED screens
           /\ reply'.sw = "OK" => signature_set /\ reply'.of = N_crypto_sig
           /\ signature_set' => /\ signature_set
                                /\ N_crypto_sig' = N_crypto_sig
<1>1. \/ \E sw \in StatusWords \ {"OK"} : Refused(sw)
      \/ signature_set /\ (FirstSignaturePart \/ LastSignaturePart)
  BY DEF handleApdu, Served, handleGetSigPart, StatusWords
<1>2. QED
  BY <1>1 DEF Refused, FirstSignaturePart, LastSignaturePart, Reply, sigs

\* Every request of the client is a command the device knows.
LEMMA RequestIsCommand ==
    ASSUME ClientTypeOK, CallRuns, link = "sent"
    PROVE  /\ Request \in Requests
           /\ step = "chunk" =>
                 Request = [ins |-> "SIGN", p1 |-> PayloadType, p2 |-> 0,
                            data |-> prepareChunks(message)[chunkIdx]]
           /\ Fetching => Request.ins = "GET_SIG"
<1>1. message \in Valid /\ step \in {"chunk", "sig0", "sig1"}
  BY DEF ClientTypeOK, CallRuns
<1>2. /\ DOMAIN prepareChunks(message) = 1..NumChunks
      /\ NumChunks \in Nat /\ NumChunks >= 2
      /\ prepareChunks(message)[1] = NoTx
  BY <1>1, ChunksAddUp DEF NumChunks
<1>3. NoTx \in Payloads
  BY <1>1, <1>2, ChunksArePayloads
<1>4. CASE step = "chunk"
  <2>1. prepareChunks(message)[chunkIdx] \in Payloads
    BY <1>1, <1>2, <1>4, ChunksArePayloads DEF ClientTypeOK, CallRuns
  <2>2. PayloadType \in 0..3
    BY DEF PayloadType, P1_INIT, P1_ADD, P1_LAST
  <2>3. Request = [ins |-> "SIGN", p1 |-> PayloadType, p2 |-> 0,
                   data |-> prepareChunks(message)[chunkIdx]]
    BY <1>4 DEF Request
  <2>4. QED
    BY <1>4, <2>1, <2>2, <2>3 DEF Requests, Instructions, Fetching
<1>5. CASE step = "sig0"
  BY <1>3, <1>5 DEF Request, Requests, Instructions, Fetching, NoTx
<1>6. CASE step = "sig1"
  BY <1>3, <1>6 DEF Request, Requests, Instructions, Fetching, NoTx
<1>7. QED
  BY <1>1, <1>4, <1>5, <1>6

-----------------------------------------------------------------------------
(* Every step keeps the invariant.                                         *)

\* A running call has a message, and at least two chunks of it.
LEMMA Running ==
    ASSUME CallInv, step # "idle"
    PROVE  /\ message \in Valid /\ message # NoTx
           /\ NumChunks \in Nat /\ NumChunks >= 2
           /\ chunkIdx \in Nat /\ chunkIdx <= NumChunks
           /\ link \in {"sent", "taken"}
<1>1. message \in Valid /\ message # NoTx
  BY DEF CallInv, ClientTypeOK, CallRuns
<1>2. NumChunks \in Nat /\ NumChunks >= 2
  BY <1>1, ChunksAddUp DEF NumChunks
<1>3. QED
  BY <1>1, <1>2 DEF CallInv, ClientTypeOK, CallRuns

\* The client starts with nothing to hold.
LEMMA InitCall == Init /\ ClientInit => CallInv
<1> SUFFICES ASSUME Init, ClientInit PROVE CallInv
  OBVIOUS
<1>1. NumChunks \in Nat
  BY NoMessageChunks DEF ClientInit, NumChunks
<1>2. ClientTypeOK
  <2>1. chunkIdx \in 0..NumChunks
    BY <1>1 DEF ClientInit
  <2>2. QED
    BY <2>1 DEF ClientInit, ClientTypeOK, NoResult
<1>3. QED
  BY <1>2 DEF Init, ClientInit, CallInv, CallRuns, ReviewOwned, SignatureOwned,
              UploadInStep, MessageReviewed, Fetching, LastChunkTaken,
              OneTransactionPerResult, SignsMessageOnceInitAcked, NoResult

\* A new call.
LEMMA StartCall ==
    ASSUME ClientIInv, Start
    PROVE  CallInv'
<1>1. PICK m \in Valid : sign(m) /\ UNCHANGED dvars
  BY DEF Start
<1>2. m # NoTx
  BY ValidAssumption
<1>3. NumChunks' \in Nat /\ NumChunks' >= 2
  BY <1>1, ChunksAddUp DEF sign, NumChunks
<1>4. ClientTypeOK'
  BY <1>1, <1>3
     DEF ClientIInv, CallInv, ClientTypeOK, sign, NoResult
<1>5. ReviewOwned'
  BY <1>1 DEF ClientIInv, CallInv, ReviewOwned, Fetching, sign, dvars, screens
<1>6. QED
  BY <1>1, <1>2, <1>4, <1>5
     DEF CallInv, CallRuns, SignatureOwned, UploadInStep, MessageReviewed,
         Fetching, LastChunkTaken, OneTransactionPerResult,
         SignsMessageOnceInitAcked, NoResult, sign

\* A command is taken.
LEMMA DeliverCall ==
    ASSUME ClientIInv, Deliver
    PROVE  CallInv'
<1> USE DEF ClientIInv
<1>1. /\ link = "sent" /\ link' = "taken"
      /\ handleApdu(Request)
      /\ UNCHANGED <<message, step, chunkIdx, digest, part0, initAcked, result>>
  BY DEF Deliver
<1>2. step # "idle" /\ step \in {"chunk", "sig0", "sig1"}
  BY <1>1 DEF CallInv, ClientTypeOK, CallRuns
<1>3. /\ message \in Valid
      /\ NumChunks \in Nat /\ NumChunks >= 2
      /\ chunkIdx \in Nat /\ chunkIdx <= NumChunks
      /\ NumChunks' = NumChunks
  BY <1>1, <1>2, Running DEF NumChunks
<1>4. review = "none" /\ Request \in Requests /\ HandlerTypeOK
  BY <1>1, RequestIsCommand DEF handleApdu, IInv, OneReplyPending, CallInv
<1>5. /\ ClientTypeOK' /\ CallRuns'
      /\ OneTransactionPerResult' /\ SignsMessageOnceInitAcked'
  BY <1>1, <1>3 DEF CallInv, ClientTypeOK, CallRuns, OneTransactionPerResult,
                    SignsMessageOnceInitAcked
<1> USE DEF CallInv, ReviewOwned, SignatureOwned, UploadInStep,
            MessageReviewed, Fetching, LastChunkTaken, AllSent
<1>6. CASE step = "chunk"
  <2> DEFINE data == prepareChunks(message)[chunkIdx]
  <2>1. Request = [ins |-> "SIGN", p1 |-> PayloadType, p2 |-> 0, data |-> data]
    BY <1>1, <1>6, RequestIsCommand
  <2>2. data \in Payloads
    BY <1>4, <2>1 DEF Requests
  <2>3. chunkIdx >= 1
    BY <1>6 DEF CallRuns
  <2> HIDE DEF data
  <2>4. CASE chunkIdx = 1
    <3>1. PayloadType = P1_INIT
      BY <1>3, <2>4 DEF PayloadType
    <3>2. /\ UNCHANGED <<screens, sigs>>
          /\ reply'.sw = "OK" => buffer'.data = NoTx
      BY <1>1, <2>1, <3>1, InitSent
    <3>3. Uploaded(message, chunkIdx) = NoTx
      BY <1>3, <2>4, ChunksAddUp
    <3>4. QED
      BY <1>1, <1>3, <1>4, <1>5, <1>6, <2>4, <3>2, <3>3 DEF screens
  <2>5. CASE chunkIdx > 1 /\ ~AllSent
    <3>1. PayloadType = P1_ADD
      BY <1>3, <2>5 DEF PayloadType
    <3>2. /\ UNCHANGED <<screens, sigs>>
          /\ reply'.sw = "OK" => /\ buffer'.data = buffer.data \o data
                                 /\ tx_initialized' = tx_initialized
      <4>1. /\ Request.ins = "SIGN" /\ Request.p1 = P1_ADD
            /\ Request.p2 = 0 /\ Request.data = data
        BY <2>1, <3>1
      <4>2. QED
        BY <1>1, <1>4, <2>2, <4>1, AddSent
    <3>3. Uploaded(message, chunkIdx - 1) \o data = Uploaded(message, chunkIdx)
      <4>1. chunkIdx \in 2..NumChunks
        BY <1>3, <2>5
      <4>2. QED
        BY <1>3, <4>1, ChunksAddUp DEF NumChunks, data
    <3>4. QED
      <4>1. ~AllSent' /\ ~LastChunkTaken' /\ ~Fetching' /\ link' # "sent"
        BY <1>1, <1>3, <1>6, <2>5
      <4>2. ReviewOwned' /\ SignatureOwned' /\ MessageReviewed'
        BY <1>1, <1>4, <1>6, <3>2, <4>1 DEF screens
      <4>3. UploadInStep'
        <5>1. ASSUME reply'.sw = "OK", initAcked, tx_initialized'
              PROVE  buffer'.data = Uploaded(message, chunkIdx)
          <6>1. tx_initialized /\ buffer'.data = buffer.data \o data
            BY <3>2, <5>1
          <6>2. buffer.data = Uploaded(message, chunkIdx - 1)
            BY <1>1, <1>6, <2>5, <5>1, <6>1
          <6>3. QED
            BY <3>3, <6>1, <6>2
        <5>2. UNCHANGED <<message, chunkIdx, initAcked>> /\ chunkIdx' # 1
          BY <1>1, <1>3, <2>5
        <5>3. QED
          BY <4>1, <5>1, <5>2
      <4>4. QED
        BY <1>5, <4>2, <4>3
  <2>6. CASE AllSent
    <3>1. PayloadType = P1_LAST
      BY <2>6 DEF PayloadType
    <3>2. /\ UNCHANGED sigs
          /\ reply'.sw # "OK"
          /\ review' \in {"none", "txn"}
          /\ review' = "txn" =>
                /\ tx_initialized
                /\ Covered' \in tx_parse(buffer.data \o data)
      BY <1>1, <1>4, <2>1, <2>2, <3>1, LastSent
    <3>3. Uploaded(message, chunkIdx - 1) \o data = message
      <4>1. chunkIdx \in 2..NumChunks
        BY <1>3, <2>6
      <4>2. QED
        BY <1>3, <2>6, <4>1, ChunksAddUp DEF NumChunks, data
    <3>4. ASSUME initAcked, review' = "txn" PROVE Covered' = message
      <4>1. buffer.data = Uploaded(message, chunkIdx - 1)
        BY <1>1, <1>3, <1>6, <2>6, <3>2, <3>4
      <4>2. Covered' \in Valid /\ IsPrefix(Covered', message)
        BY <3>2, <3>3, <3>4, <4>1 DEF tx_parse
      <4>3. QED
        BY <1>3, <4>2, ValidAssumption
    <3>5. QED
      BY <1>1, <1>3, <1>4, <1>5, <1>6, <2>6, <3>2, <3>4
  <2>7. QED
    BY <2>3, <1>3, <2>4, <2>5, <2>6
<1>7. CASE Fetching
  <2>1. Request.ins = "GET_SIG"
    BY <1>1, <1>7, RequestIsCommand
  <2>2. /\ UNCHANGED screens
        /\ reply'.sw = "OK" => signature_set /\ reply'.of = N_crypto_sig
        /\ signature_set' => /\ signature_set
                             /\ N_crypto_sig' = N_crypto_sig
    BY <1>1, <2>1, SigAsked
  <2>3. QED
    BY <1>1, <1>4, <1>5, <1>7, <2>2 DEF screens
<1>8. QED
  BY <1>2, <1>6, <1>7

\* A call that returns leaves nothing behind but its result.
LEMMA CallReturned ==
    ASSUME ClientIInv, UNCHANGED dvars, NEW res, Returns(res),
           res \in [ok : BOOLEAN, of : Valid \cup {NoTx},
                    deephash : Valid \cup {NoTx}, sig0 : Valid \cup {NoTx},
                    sig1 : Valid \cup {NoTx}, initAcked : BOOLEAN],
           res.ok => res.sig0 = res.deephash /\ res.sig1 = res.deephash,
           res.ok /\ res.initAcked => res.deephash = res.of
    PROVE  CallInv'
<1>1. NumChunks' \in Nat
  BY NoMessageChunks DEF Returns, NumChunks
<1>2. ClientTypeOK'
  <2>1. chunkIdx' \in 0..NumChunks'
    BY <1>1 DEF Returns
  <2>2. QED
    BY <2>1 DEF Returns, ClientTypeOK
<1>3. review' # "address"
  BY DEF ClientIInv, CallInv, ReviewOwned, dvars, screens
<1>4. QED
  BY <1>2, <1>3
     DEF CallInv, CallRuns, ReviewOwned, SignatureOwned, UploadInStep,
         MessageReviewed, Fetching, LastChunkTaken, OneTransactionPerResult,
         SignsMessageOnceInitAcked, Returns

\* An answer, or an error in its place, takes the call one step further.
LEMMA AnswerCall ==
    ASSUME ClientIInv, UNCHANGED dvars, link \in {"sent", "taken"},
           NEW code, NEW tx \in Valid \cup {NoTx}, HandleAnswer(code, tx),
           code = "OK" => /\ link = "taken" /\ review = "none"
                          /\ reply.sw = "OK" /\ tx = reply.of
    PROVE  CallInv'
<1> USE DEF ClientIInv
<1>1. step # "idle"
  BY DEF CallInv, CallRuns
<1>2. /\ message \in Valid /\ message # NoTx
      /\ NumChunks \in Nat /\ NumChunks >= 2
      /\ chunkIdx \in Nat /\ chunkIdx <= NumChunks
  BY <1>1, Running
<1>3. ASSUME Returns(NoResult) PROVE CallInv'
  BY <1>3, CallReturned DEF NoResult
<1> USE DEF CallInv, CallRuns, ReviewOwned, SignatureOwned, UploadInStep,
            MessageReviewed, Fetching, LastChunkTaken, AllSent,
            OneTransactionPerResult, SignsMessageOnceInitAcked
<1>4. CASE FirstChunkAnswered(code)
  <2>1. /\ step = "chunk" /\ chunkIdx = 1 /\ chunkIdx' = 2
        /\ initAcked' = (code = "OK")
        /\ link' = "sent"
        /\ UNCHANGED <<message, step, digest, part0, result>>
    BY <1>4 DEF FirstChunkAnswered, SendNextChunk
  <2>2. ClientTypeOK'
    BY <1>2, <2>1 DEF ClientTypeOK, NumChunks
  <2>3. UploadInStep'
    <3>1. chunkIdx' - 1 = chunkIdx /\ ~(link' = "taken")
      BY <2>1
    <3>2. UNCHANGED <<buffer, tx_initialized>>
      BY DEF dvars, upload
    <3>3. initAcked' => link = "taken" /\ reply.sw = "OK" /\ ~AllSent
      <4>1. initAcked' => code = "OK"
        BY <2>1, Zenon
      <4>2. ~AllSent
        BY <1>2, <2>1
      <4>3. QED
        BY <4>1, <4>2
    <3>4. initAcked' /\ tx_initialized => buffer.data = Uploaded(message, chunkIdx)
      BY <2>1, <3>3
    <3>5. QED
      BY <2>1, <3>1, <3>2, <3>4
  <2>4. QED
    BY <1>2, <2>1, <2>2, <2>3 DEF dvars, screens
<1>5. CASE LaterChunkAnswered(code, tx)
  <2>1. step = "chunk" /\ chunkIdx > 1
    BY <1>5 DEF LaterChunkAnswered
  <2>2. CASE code # "OK"
    BY <1>3, <1>5, <2>2 DEF LaterChunkAnswered, GoesOn
  <2>3. CASE code = "OK" /\ ~AllSent
    <3>1. /\ chunkIdx' = chunkIdx + 1 /\ link' = "sent"
          /\ UNCHANGED <<message, step, digest, part0, initAcked, result>>
      BY <1>5, <2>3 DEF LaterChunkAnswered, GoesOn, SendNextChunk
    <3>2. ClientTypeOK'
      BY <1>2, <2>3, <3>1 DEF ClientTypeOK, NumChunks
    <3>3. UploadInStep'
      <4>1. chunkIdx' - 1 = chunkIdx
        BY <1>2, <3>1
      <4>2. QED
        BY <1>2, <2>1, <2>3, <3>1, <4>1 DEF dvars, upload
    <3>4. QED
      BY <1>2, <2>1, <3>1, <3>2, <3>3 DEF dvars, screens
  <2>4. CASE code = "OK" /\ AllSent
    <3>1. /\ digest' = tx /\ step' = "sig0" /\ link' = "sent"
          /\ UNCHANGED <<message, chunkIdx, part0, initAcked, result>>
      BY <1>5, <2>4 DEF LaterChunkAnswered, GoesOn
    <3>2. ClientTypeOK'
      BY <3>1 DEF ClientTypeOK, NumChunks
    <3>3. QED
      BY <1>2, <2>1, <2>4, <3>1, <3>2 DEF dvars, screens, sigs
  <2>5. QED
    BY <2>2, <2>3, <2>4
<1>6. CASE FirstPartAnswered(code, tx)
  <2>1. step = "sig0"
    BY <1>6 DEF FirstPartAnswered
  <2>2. CASE code # "OK"
    BY <1>3, <1>6, <2>2 DEF FirstPartAnswered
  <2>3. CASE code = "OK"
    <3>1. /\ part0' = tx /\ step' = "sig1" /\ link' = "sent"
          /\ UNCHANGED <<message, chunkIdx, digest, initAcked, result>>
      BY <1>6, <2>3 DEF FirstPartAnswered
    <3>2. ClientTypeOK'
      BY <3>1 DEF ClientTypeOK, NumChunks
    <3>3. QED
      BY <1>2, <2>1, <2>3, <3>1, <3>2 DEF dvars, screens, sigs
  <2>4. QED
    BY <2>2, <2>3
<1>7. CASE SecondPartAnswered(code, tx)
  <2>1. step = "sig1"
    BY <1>7 DEF SecondPartAnswered
  <2>2. CASE code # "OK"
    BY <1>3, <1>7, <2>2 DEF SecondPartAnswered
  <2>3. CASE code = "OK"
    <3> DEFINE res == [ok |-> TRUE, of |-> message, deephash |-> digest,
                       sig0 |-> part0, sig1 |-> tx, initAcked |-> initAcked]
    <3>1. Returns(res)
      BY <1>7, <2>3 DEF SecondPartAnswered
    <3>2. tx = digest /\ part0 = digest /\ (initAcked => digest = message)
      BY <2>1, <2>3
    <3>3. QED
      BY <3>1, <3>2, CallReturned DEF ClientTypeOK
  <2>4. QED
    BY <2>2, <2>3
<1>8. QED
  BY <1>4, <1>5, <1>6, <1>7 DEF HandleAnswer

\* The device acts on its own: its user, its lock, its power.
LEMMA DeviceCall ==
    ASSUME ClientIInv, Device
    PROVE  CallInv'
<1> USE DEF ClientIInv
<1>1. UNCHANGED <<message, step, chunkIdx, link, digest, part0, initAcked, result>>
  BY DEF Device, cvars
<1>2. /\ NumChunks' = NumChunks
      /\ ClientTypeOK' /\ CallRuns'
      /\ OneTransactionPerResult' /\ SignsMessageOnceInitAcked'
  BY <1>1 DEF CallInv, ClientTypeOK, CallRuns, OneTransactionPerResult,
              SignsMessageOnceInitAcked, NumChunks
<1> USE DEF CallInv, ReviewOwned, SignatureOwned, UploadInStep,
            MessageReviewed, Fetching, LastChunkTaken, AllSent
<1>3. CASE app_sign
  <2>1. /\ review = "txn" /\ review' = "none"
        /\ N_crypto_sig' = Covered /\ reply'.of = Covered
        /\ UNCHANGED upload
    BY <1>3 DEF app_sign, ReviewEnds, Reply
  <2>2. QED
    BY <1>1, <1>2, <2>1 DEF upload
<1>4. CASE app_sign_fails \/ app_reject \/ app_reply_error \/ app_reply_address
  <2>1. /\ review # "none" /\ review' = "none"
        /\ UNCHANGED <<upload, sigs>>
        /\ reply'.sw = "OK" => review = "address"
    BY <1>4 DEF app_sign_fails, app_reject, app_reply_error, app_reply_address,
                ReviewEnds, Reply
  <2>2. QED
    BY <1>1, <1>2, <2>1 DEF upload, sigs
<1>5. CASE SetupDone \/ TogglePin
  <2>1. UNCHANGED <<upload, screens, sigs, reply>>
    BY <1>5 DEF SetupDone, TogglePin
  <2>2. QED
    BY <1>1, <1>2, <2>1 DEF upload, screens, sigs, Covered
<1>6. CASE Restart
  <2>1. /\ tx_initialized' = FALSE /\ review' = "none"
        /\ signature_set' = FALSE /\ reply'.sw = "pending"
    BY <1>6 DEF Restart, Reply
  <2>2. QED
    BY <1>1, <1>2, <2>1
<1>7. QED
  BY <1>3, <1>4, <1>5, <1>6 DEF Device, UserDecides

\* Every step of the client and its device is a step of the device of
\* ApduHandler, or leaves the device alone.
LEMMA ClientStepIsDeviceStep ==
    ASSUME ClientTypeOK, CallRuns, [ClientNext]_vars
    PROVE  [Next]_dvars
<1>1. CASE Deliver
  <2>1. Request \in Requests /\ handleApdu(Request)
    BY <1>1, RequestIsCommand DEF Deliver
  <2>2. QED
    BY <2>1 DEF Next
<1>2. CASE Start \/ Respond \/ TransportFails \/ UNCHANGED vars
  <2>1. UNCHANGED dvars
    BY <1>2 DEF Start, Respond, TransportFails, vars
  <2>2. QED
    BY <2>1
<1>3. CASE Device
  BY <1>3 DEF Device, Next
<1>4. QED
  BY <1>1, <1>2, <1>3 DEF ClientNext

\* Every step keeps the invariant.
LEMMA NextClientIInv ==
    ASSUME ClientIInv, [ClientNext]_vars
    PROVE  ClientIInv'
<1>1. IInv'
  <2>1. IInv /\ [Next]_dvars
    BY ClientStepIsDeviceStep DEF ClientIInv, CallInv
  <2>2. QED
    BY <2>1, NextIInv
<1>2. CallInv'
  <2>1. CASE Start
    BY <2>1, StartCall
  <2>2. CASE Deliver
    BY <2>2, DeliverCall
  <2>3. CASE Respond
    <3>1. /\ link = "taken" /\ ~awaiting
          /\ HandleAnswer(reply.sw, reply.of)
          /\ UNCHANGED dvars
      BY <2>3 DEF Respond
    <3>2. review = "none" /\ reply.of \in Valid \cup {NoTx}
      BY <3>1 DEF ClientIInv, IInv, OneReplyPending, HandlerTypeOK
    <3>3. QED
      BY <3>1, <3>2, AnswerCall
  <2>4. CASE TransportFails
    BY <2>4, AnswerCall DEF TransportFails
  <2>5. CASE Device
    BY <2>5, DeviceCall
  <2>6. CASE UNCHANGED vars
    BY <2>6 DEF ClientIInv, CallInv, ClientTypeOK, CallRuns, ReviewOwned,
                SignatureOwned, UploadInStep, MessageReviewed, Fetching,
                LastChunkTaken, AllSent, NumChunks, Covered,
                OneTransactionPerResult, SignsMessageOnceInitAcked, vars, dvars,
                cvars, upload, screens, sigs
  <2>7. QED
    BY <2>1, <2>2, <2>3, <2>4, <2>5, <2>6 DEF ClientNext
<1>3. QED
  BY <1>1, <1>2 DEF ClientIInv

\* The invariant holds in every reachable state of client and device.
THEOREM ClientInvariance == SignSpec => []ClientIInv
<1>1. Init /\ ClientInit => ClientIInv
  BY InitIInv, InitCall DEF ClientIInv
<1>2. ClientIInv /\ [ClientNext]_vars => ClientIInv'
  BY NextClientIInv
<1>3. QED
  BY <1>1, <1>2, PTL DEF SignSpec

\* Every variable of a sign() call keeps its type.
THEOREM ClientTypeCorrect == SignSpec => []ClientTypeOK
<1>1. ClientIInv => ClientTypeOK
  BY DEF ClientIInv, CallInv
<1>2. QED
  BY <1>1, ClientInvariance, PTL

\* Deephash and both halves of the signature are of one transaction in every
\* result sign() returns, whatever the transport loses and however often the
\* device restarts.
THEOREM ResultsBelongTogether == SignSpec => []OneTransactionPerResult
<1>1. ClientIInv => OneTransactionPerResult
  BY DEF ClientIInv, CallInv
<1>2. QED
  BY <1>1, ClientInvariance, PTL

\* When the device accepted the first chunk, a result of sign() is of the
\* message it was called with.
THEOREM MessageIsSigned == SignSpec => []SignsMessageOnceInitAcked
<1>1. ClientIInv => SignsMessageOnceInitAcked
  BY DEF ClientIInv, CallInv
<1>2. QED
  BY <1>1, ClientInvariance, PTL

\* The client is one of the hosts ApduHandler is specified for, so that every
\* theorem about Spec holds of it.
THEOREM ClientIsHost == SignSpec => Spec
<1>1. ClientIInv /\ [ClientNext]_vars => [Next]_dvars
  BY ClientStepIsDeviceStep DEF ClientIInv, CallInv
<1>2. QED
  BY <1>1, ClientInvariance, PTL DEF SignSpec, Spec

\* Through the client too, only what was shown and granted is signed, and its
\* signature is handed out once.
THEOREM ClientSeesService == SignSpec => Implements
BY ClientIsHost, HandlerImplementsService, PTL
=============================================================================
