----------------------------- MODULE LedgerClient -----------------------------
(***************************************************************************)
(* The JavaScript library's sign() (js/src/index.js) talking to the app of *)
(* ApduHandler over a transport that may lose a request or a response,     *)
(* while the device locks, restarts and waits for its user.                *)
(*                                                                         *)
(* sign() uploads the encoded message in chunks with SIGN, waits for the   *)
(* deephash, and fetches the signature with two GET_SIG commands.  Each    *)
(* transport.send is awaited before the next one; an exception of the      *)
(* transport becomes a return code like any other.  A message is the       *)
(* transaction encodeTx makes of it.                                       *)
(***************************************************************************)
EXTENDS ApduHandler

CONSTANT CHUNK_SIZE   \* bytes of the message in a chunk

ASSUME ChunkSizeAssumption == CHUNK_SIZE \in Nat \ {0}

VARIABLES
    message,    \* the argument of the running sign() call, or NoTx
    step,       \* what the call is waiting for
    chunkIdx,   \* the chunk being sent, counted from 1
    link,       \* the request: none, on its way, or taken by the device
    digest,     \* the deephash returned for the last chunk
    part0,      \* the first half of the signature
    initAcked,  \* ghost: the device's answer to the first chunk was OK
    result      \* what the last call returned

cvars == <<message, step, chunkIdx, link, digest, part0, initAcked, result>>
vars == <<dvars, cvars>>

NoResult == [ok |-> FALSE, of |-> NoTx, deephash |-> NoTx, sig0 |-> NoTx,
             sig1 |-> NoTx, initAcked |-> FALSE]

-----------------------------------------------------------------------------
\* prepareChunks: the first chunk holds no part of the message.
prepareChunks(m) ==
    <<NoTx>> \o [i \in 1..((Len(m) + CHUNK_SIZE - 1) \div CHUNK_SIZE) |->
                    SubSeq(m, (i - 1) * CHUNK_SIZE + 1,
                           IF i * CHUNK_SIZE > Len(m) THEN Len(m)
                                                      ELSE i * CHUNK_SIZE)]

\* Every chunk fits the data field of a command: CHUNK_SIZE is below its limit.
ASSUME ChunksArePayloads ==
    \A m \in Valid : \A i \in DOMAIN prepareChunks(m) :
        prepareChunks(m)[i] \in Payloads

NumChunks == Len(prepareChunks(message))

\* signSendChunk: the payload type.
PayloadType ==
    CASE chunkIdx = NumChunks -> P1_LAST
      [] chunkIdx = 1 /\ chunkIdx # NumChunks -> P1_INIT
      [] OTHER -> P1_ADD

\* The command the call has sent: signSendChunk or getSignaturePart.
Request ==
    CASE step = "chunk" -> [ins |-> "SIGN", p1 |-> PayloadType, p2 |-> 0,
                            data |-> prepareChunks(message)[chunkIdx]]
      [] step = "sig0" -> [ins |-> "GET_SIG", p1 |-> 0, p2 |-> 0, data |-> <<>>]
      [] step = "sig1" -> [ins |-> "GET_SIG", p1 |-> 0, p2 |-> 1, data |-> <<>>]

ClientInit ==
    /\ message = NoTx
    /\ step = "idle"
    /\ chunkIdx = 0
    /\ link = "none"
    /\ digest = NoTx
    /\ part0 = NoTx
    /\ initAcked = FALSE
    /\ result = NoResult

\* sign(m) is called, and the first chunk is sent.
sign(m) ==
    /\ step = "idle"
    /\ message' = m
    /\ step' = "chunk"
    /\ chunkIdx' = 1
    /\ link' = "sent"
    /\ result' = NoResult
    /\ UNCHANGED <<digest, part0, initAcked>>

\* The call returns res; nothing of it is left.
Returns(res) ==
    /\ result' = res
    /\ message' = NoTx
    /\ step' = "idle"
    /\ chunkIdx' = 0
    /\ link' = "none"
    /\ digest' = NoTx
    /\ part0' = NoTx
    /\ initAcked' = FALSE

-----------------------------------------------------------------------------
(* What the call does with an answer; code is the reply's return code and  *)
(* tx what its output stands for.                                          *)

SendNextChunk ==
    /\ chunkIdx' = chunkIdx + 1
    /\ link' = "sent"
    /\ UNCHANGED <<message, step, digest, part0, result>>

\* signGetDigest puts the first answer in `result` and overwrites it: whatever
\* it was, the loop goes on with the next chunk.
FirstChunkAnswered(code) ==
    /\ step = "chunk" /\ chunkIdx = 1
    /\ initAcked' = (code = "OK")
    /\ SendNextChunk

\* A mutated form: only the last answer counts.
GoesOn_mut(code) == code = "OK" \/ chunkIdx < NumChunks

\* The loop stops at an error.
GoesOn(code) == code = "OK"

\* A mutated form: one chunk too many.
AllSent_mut == chunkIdx > NumChunks

AllSent == chunkIdx = NumChunks

LaterChunkAnswered(code, tx) ==
    /\ step = "chunk" /\ chunkIdx > 1
    /\ \/ ~GoesOn(code) /\ Returns(NoResult)
       \/ /\ GoesOn(code) /\ ~AllSent
          /\ SendNextChunk
          /\ UNCHANGED initAcked
       \/ /\ GoesOn(code) /\ AllSent
          /\ digest' = tx
          /\ step' = "sig0"
          /\ link' = "sent"
          /\ UNCHANGED <<message, chunkIdx, part0, initAcked, result>>

FirstPartAnswered(code, tx) ==
    /\ step = "sig0"
    /\ \/ code # "OK" /\ Returns(NoResult)
       \/ /\ code = "OK"
          /\ part0' = tx
          /\ step' = "sig1"
          /\ link' = "sent"
          /\ UNCHANGED <<message, chunkIdx, digest, initAcked, result>>

SecondPartAnswered(code, tx) ==
    /\ step = "sig1"
    /\ \/ code # "OK" /\ Returns(NoResult)
       \/ /\ code = "OK"
          /\ Returns([ok |-> TRUE, of |-> message, deephash |-> digest,
                      sig0 |-> part0, sig1 |-> tx, initAcked |-> initAcked])

HandleAnswer(code, tx) ==
    \/ FirstChunkAnswered(code) \/ LaterChunkAnswered(code, tx)
    \/ FirstPartAnswered(code, tx) \/ SecondPartAnswered(code, tx)

-----------------------------------------------------------------------------
(* The exchange.                                                           *)

Start == (\E m \in Valid : sign(m)) /\ UNCHANGED dvars

\* The device takes the request; a review keeps the answer back.
Deliver ==
    /\ link = "sent"
    /\ handleApdu(Request)
    /\ link' = "taken"
    /\ UNCHANGED <<message, step, chunkIdx, digest, part0, initAcked, result>>

Respond ==
    /\ link = "taken"
    /\ ~awaiting
    /\ reply.sw # "pending"
    /\ HandleAnswer(reply.sw, reply.of)
    /\ UNCHANGED dvars

\* The request or its response is lost: the transport throws, and
\* processErrorResponse makes a return code of it.
TransportFails ==
    /\ link \in {"sent", "taken"}
    /\ HandleAnswer("ffff", NoTx)
    /\ UNCHANGED dvars

\* The device restarted under a request it had taken.
Disconnected == link = "taken" /\ ~awaiting /\ reply.sw = "pending"

Device == (UserDecides \/ SetupDone \/ TogglePin \/ Restart) /\ UNCHANGED cvars

ClientNext == Start \/ Deliver \/ Respond \/ TransportFails \/ Device

SignSpec == Init /\ ClientInit /\ [][ClientNext]_vars

\* A request arrives, its answer too, a restart is noticed, and the user
\* decides; nothing makes the transport fail otherwise.
SignFairness ==
    /\ WF_vars(Deliver)
    /\ WF_vars(Respond)
    /\ WF_vars(Disconnected /\ TransportFails)
    /\ WF_vars(UserDecides /\ UNCHANGED cvars)

FairSignSpec == SignSpec /\ SignFairness

-----------------------------------------------------------------------------
(* Properties.                                                             *)

ClientTypeOK ==
    /\ message \in Valid \cup {NoTx}
    /\ step \in {"idle", "chunk", "sig0", "sig1"}
    /\ chunkIdx \in 0..NumChunks
    /\ link \in {"none", "sent", "taken"}
    /\ digest \in Valid \cup {NoTx}
    /\ part0 \in Valid \cup {NoTx}
    /\ initAcked \in BOOLEAN
    /\ result \in [ok : BOOLEAN, of : Valid \cup {NoTx},
                   deephash : Valid \cup {NoTx}, sig0 : Valid \cup {NoTx},
                   sig1 : Valid \cup {NoTx}, initAcked : BOOLEAN]

\* The three answers a successful sign() puts together, from three commands,
\* are of one transaction: the deephash and both halves of the signature,
\* whatever was signed, left uncollected or lost in a restart before.
OneTransactionPerResult ==
    result.ok => /\ result.sig0 = result.deephash
                 /\ result.sig1 = result.deephash

\* When the device accepted the first chunk, the signature returned is of the
\* message sign() was called with: no bytes of an earlier or interrupted upload
\* and no missing chunk stand between them.
SignsMessageOnceInitAcked ==
    result.ok /\ result.initAcked => result.deephash = result.of

\* Every sign() call returns, through losses, locks and restarts.
CallReturns == (step # "idle") ~> (step = "idle")

\* docs/APDUSPEC.md: SIGN "shows the transaction content on screen and signs
\* (if accepted) the transaction"; sign(message) resolves to the signature of
\* its message.
SignReturnsItsMessage == result.ok => result.deephash = result.of
=============================================================================
