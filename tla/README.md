# Formal verification of the Permaweb (Arweave) Ledger app

TLA+ models of the app in `app/src` and of its JavaScript client in `js/src`,
model-checked with TLC and, where stated, proved with TLAPS. `PROJECT.json`
lists the runs, the theorems, the source lines behind every definition, the
mutants that show each property can fail, and the hazards the properties are
aimed at.

## 1. The system

A Ledger device runs the app. It keeps an RSA-4096 key pair derived from the
device's recovery phrase, which takes minutes to compute and is therefore kept
in flash. A host sends commands (APDUs); the client library turns "sign this
transaction" into about a dozen of them. The user confirms on the screen.

| Component | Source | State | Operations |
|---|---|---|---|
| key store | `crypto_store.c`, `common/main.c` | two flash slots (seed, primes, key pair, flag), `slot_in_use`, `device_initialized` | boot, `crypto_store_init`, erase, set up |
| command handler | `apdu_handler.c`, `common/actions.h`, `common/tx.c`, `crypto.c`, signature cell of `crypto_store.c` | upload buffer, `tx_initialized`, review, pending reply, stored signature | GET_VERSION, GET_ADDR, GET_PK, SIGN (init, add, last), GET_SIG, the callbacks of a review |
| transaction parser | `parser_impl.c`, `parser.c` 35-58 and 162-341 | `parser_tx_obj` (pointers into the buffer), context | parse, validate, list and render the items |
| deep hash | `parser.c` 60-160, `crypto_helper.c` | accumulators on the stack | `parser_getDigest` |
| base64url, address | `b64url.c`, `addr.c`, `crypto.c` 104-133 | none | encode, pages of the address |
| client | `js/src/index.js`, `common.js` | one call in progress | getVersion, appInfo, getAddress, showAddress, digest, sign |
| device | `apdu_handler.c`, `crypto.c` 104-196, `crypto_store.c` getters | all of the above in one program; the I/O buffer, which holds the address under review | key store and command handler together |
| external | zxlib, BOLOS SDK (submodules, absent), transport, user | screens, I/O loop | screens call the callbacks; buffering; key derivation, RSA |

Interactions. `main` asks the key store whether a slot fits the phrase and
either goes to the idle screen or shows the initialize screen, whose callback
is `crypto_store_init`. `device_initialized` gates the command handler. SIGN
fills the buffer of `tx.c`; the last chunk calls `tx_parse`, which leaves
pointers into that buffer in `parser_tx_obj`; the review is shown through them
and, when the user accepts, `app_sign` hashes through the same pointers, signs
and stores the signature in flash for GET_SIG. The client awaits each answer
before it sends the next command.

What is hard:

- **crashes**: flash is written field by field and the power can go at any
  write; RAM flags (`signature_set`, `device_initialized`) and flash disagree
  after a restart; the flash may belong to another recovery phrase;
- **order**: commands come in any order, from any host; a review lasts as long
  as the user likes and reads shared memory; the client combines the answers
  of several commands into one result;
- **delivery**: requests and answers get lost, the device locks in between;
- **limits**: a full buffer, lengths that come from the transaction, tables of
  fixed size, globals that are never cleared.

What makes each component correct:

- *key store*: a device that serves commands uses keys of its own phrase; good
  keys are never thrown away by mistake; a slot that counts as free holds no
  `rsa_priv`; whatever was interrupted, set-up can finish;
- *handler*: only what was shown and granted is signed; the signature is
  handed out in two parts and erased with the second; nothing incomplete is
  shown; the buffer is not overrun;
- *parser*: never outside the buffer; an accepted transaction has one reading,
  the review has an item for every element of it and nothing of an earlier
  transaction, and which items are cut is known;
- *client*: the parts of a result belong together and to the message; a call
  returns.

## 2. The modules

| Module | Models | Checked by |
|---|---|---|
| `KeyStore` | the key store | `MCKeyStore`, `KeyStore_proofs` |
| `SigningService` | abstract: what the handler promises | through `ApduHandler` |
| `ApduHandler` | the command handler, its user and its host | `MCApduHandler`, `ApduHandler_proofs` |
| `LedgerClient` | `sign()` of the client, composed with `ApduHandler` | `MCLedgerClient`, `LedgerClient_proofs` |
| `TxParser` | the parser and the review; the client's encoder as reference | `MCTxDigest`, `TxParser_proofs`, `TxDigest_proofs` |
| `Device` | key store and handler in one program: EXTENDS `ApduHandler`, INSTANCEs `KeyStore` | `MCDevice`, `Device_proofs` |
| `QueryClient` | the calls of the client that upload nothing, composed with `Device` | `MCQueryClient`, `QueryClient_proofs` |
| `TxDigest` | the digest that is signed: EXTENDS `TxParser` | `MCTxDigest`, `TxDigest_proofs` |
| `DeepHash` | Arweave's deep hash, the reference for `TxDigest`, which it EXTENDS | `MCTxDigest`, `TxDigest_proofs` |
| `B64Url` | `b64url_encode`, against RFC 4648 | `MCB64Url`, `B64Url_proofs` |

An operator has the name of the function it models where TLA+ allows it. An
operator whose name ends in `_mut` or `_in_use` is a mutated form of the next
definition: a plausible bug used to show that a property can fail. It is part
of no specification.

### KeyStore

State: `N_crypto_store` (flash), `deviceSeed` (the phrase the device is set up
with), the RAM variables `slot_in_use` and `device_initialized`, the screen,
and `pc`, the flash write about to happen. Keys, primes and master seeds are
represented by the phrase they derive from, because the code derives them
deterministically; a pair made from primes of another phrase would be visible
as that phrase. Every `MEMCPY_NV` / `SET_NV` is one atomic step, `PowerLoss` may
come before each of them, and `SwitchSeed` may come while the device is off.
With `MayFail`, each derivation may return an error: separately for each slot
comparison (`ok`), and at each step of the set-up up to the key pair.

`cut` is a ghost: the slots in which a power loss fell between the writes of
`initialized`, `rsa_pub` and `rsa_priv`, or after the private key was erased
and before the master seed was. In those slots the keys are indeed wrong
(finding `keystore_owner`); `KeysMatchUnlessCut` says that this is the *only* way
they can be.

### ApduHandler and SigningService

One action per command of `handleApdu` (`handleSign` with its three payload
types, `handleGetSigPart`, ...), one per callback of `actions.h`, and three for
the surroundings. The order of the checks in `handleApdu` is kept: `CLA` and
length errors are one request kind (`malformed`), then the instruction, then
`device_initialized` and the PIN. `awaiting` is the `IO_ASYNCH_REPLY` flag: the SDK
delivers no command while a reply is pending.

A transaction is a byte sequence the parser accepts (`Valid`), and its deephash
and signature are represented by that sequence. `ValidAssumption` says that no
accepted sequence is a proper prefix of another; in the code every length
precedes its bytes, and `AcceptedArePrefixFree` proves it of the real encoding.
`tx_parse` ignores bytes after the transaction, as the code does. The parser's
pointers are `parsed_len`; `Covered` is what is behind them *at the moment of
reading*, so a change of the buffer during a review would show.

`SigningService` has three variables: the transaction the user is asked about,
the one whose signature can be collected, and the part last handed out.
`Implements` is refinement under `Asked`, `Held` and `Given`, which are functions
of the handler's state.

### Device

The two components run in one thread: `handleApdu` is called from the main loop
(`pc = "loop"`), key set-up from a screen callback, and while it runs no command
is handled. They share `device_initialized`, `slot_in_use` and the keys in flash.
`K == INSTANCE KeyStore` gives the key store's actions on the same variables, so
`PowerOff` is `K!PowerLoss` and the handler's `Restart` in one step, and a set-up
step is a step of `K` that leaves the handler's memory alone.

Added to the two is what neither has by itself. `Command` is a command together
with what it puts into the I/O buffer: `G_io_apdu_buffer` stands for the key the
address, or the half of the owner, in that buffer is made of. The address of a
review is built *before* the review and is read from the buffer page by page
(`addr_getItem`) and again when it is sent (`app_reply_address`). `Sign` is
`app_sign` with the slot and the private key it uses, kept in the ghost `signer`.
`ImplementsHandler` says that with the key store's steps hidden the composition
is a behaviour of `ApduHandler`, whose own steps of `device_initialized` are any:
what is checked and proved there holds of the device. `HostRequests` are the commands
the host sends: nine of them in the runs of the device, those of the calls in the
runs of `QueryClient`, any in the theorems; `ApduHandler` is checked with all of them.

### QueryClient

EXTENDS `Device` with one running call. A call is the list of the commands it sends
(`getAddress` is GET_ADDR, GET_PK 0, GET_PK 1), and a command is sent when the
answer before it has been looked at. `GoesOn` is the client's test of the return
code, `Returns` what the application gets. Anything the device can do may happen
between two commands: a lock, a restart, another phrase, a key set-up.
`digest()` does not look at its first answer (`js/src/index.js:460-473`).

Ghosts: `approved` is the address on the screen when the user approved during
this call; `phrases` are the phrases the device had during the call, `damaged` that it
worked on a slot a power loss had cut. A phrase changed between two commands does
mix two keys in one result of `getAddress`, and nothing in the protocol lets the
client notice. `KeysOfThisCall` says that this is the *only* way: each part is of a
phrase the device had during this very call, so the parts are of one key when the
phrase stayed, and nothing of an earlier phrase gets in when it changed.

`digest()` is modelled as it runs with a Transaction. With a Buffer, which
`index.d.ts` declares, it fails in `encodeTx` before it sends anything.

### LedgerClient

EXTENDS `ApduHandler` with one running `sign()` call: `step` is the `await` it
stands at, `link` whether its request is on the way or taken by the device.
The transport may lose the request or the answer at any time; the client sees
an error code either way (`processErrorResponse`). The device meanwhile locks,
unlocks, restarts, and waits for its user.

Both transports lose messages and never deliver one late: an answer that comes
after its call gave up is not handed to the next call, and a request that was
given up does not reach the device. Whether that can happen is up to the
transport library, which is not in the repository.

### TxParser

`_read`, one action per element, with the three ways each read can end; then
`parser_validate` over the items `parser_getItem` would show. A pointer is an
offset. A length is stored before its bytes are known to be there, as in
`parser_readElement`, so an element can have a new length and an old pointer.
`parser_tx_obj` survives from one transaction to the next. Formatting functions
are represented by whether they succeed: the size check of `b64url_encode`,
the size checks of the others, and `Numerals` for zxlib's number formatting.
Expert mode is constant in a behaviour: it is changed in the menu, never during
a command. `encodeTx` is the client's encoder, translated with its truncation
of lengths to 16 bits. `tx_getItem` is what the screens call:
`ReviewCoversTransaction` speaks of what it answers, so the order of its checks
(`tx.c`, then `parser_getItem`) is part of the property. `BeyondTags` is the check
of the index into the tags; no item comes to it (`NoneBeyond`, proved).

Success is not completeness, so how much an item shows is a definition of its own,
`Displayed`, the bytes of an element its pages hold:

- `parser_printTag` (`parser.c:273-275`) prints a tag's key with `%s` into the buffer
  for the item's name: it ends at the first zero byte and after `KEY_LEN - 1`
  characters. Only the value is paged;
- `parser_printSize` (`parser.c:228-229`) and `parser_printQuantity` copy the text and
  page it as a C string (`CString`): it ends at the first zero byte;
- a reward and a tag's value go to zxlib with their length (`Paged`): a page ends at
  its first zero byte, and the number of pages is a `uint8_t`, so that a text of more
  than 255 pages loses some or all of them. Both are external and
  what is assumed of them is in section 7;
- target, last transaction and data root are shown in base64url, or refused.

All of these are accepted when they are cut. `ReviewCoversTransaction` says that the
items cover every element once, and that an element is shown whole exactly when it
is `Legible`. It does not say that the user sees the whole transaction: with a long
key, or a zero byte in a text, the code does not show it.

### TxDigest

EXTENDS `TxParser` with `crypto_sign` of what was accepted. `parser_getDigest` is
kept as the code has it: one accumulator, the list lengths 9 and 2 and the order
of the fields written out, a loop over the tags. `DeepHash` has the network's
definition: `deepHash` is a recursion over a tree of blobs and lists, and `SignatureData` the tree of a
transaction of format 2. The recursion is a function of the depth, and `DEPTH`
is 3, the depth of that tree. A hash is represented by what it is taken of,
so two hashes are equal only when everything below them is: SHA-384 without
collisions. `crypto_sha384`'s decimal tags are records with the number in them.

### B64Url

The loop of `b64url_encode`, one action per byte. The index is cut to its eight
bits; `|` is a sum because its operands share no bit, and a character is its
index in `b64url_charset`. The reference takes the characters of each group of
three bytes directly, without a carry. The check for NULL
(`b64url.c:32-34`) is left out: no caller passes one. `TxParser` uses only the check of the room.

## 3. The runs

| Run | Bounds | Question and answer |
|---|---|---|
| `keystore_crash` | 3 phrases (symmetric), errors possible | Power loss at every write, errors, changes of phrase: the slot opened is of the phrase, keys match unless cut, a free slot has no `rsa_priv`. Holds. |
| `keystore_recovery` | 3 phrases, no errors, fairness | Keys of the phrase are never erased, every step of the app brings set-up nearer its end, and the device ends up initialised. Holds. |
| `keystore_owner` | 3 phrases | An initialised device has the public key of its phrase. **Violated**, finding 1. |
| `keystore_ready` | 2 phrases, errors possible | Ready means initialised. **Violated**, finding 2. |
| `apdu_service` | 3 transactions over 2 byte values, payloads of 0-1 bytes, buffer of 3 | Any host: what is shown is signed, nothing overflowed is shown, the handler implements the service. Holds. |
| `device_serve` | 2 phrases (symmetric), errors and power losses anywhere, 9 commands, 1 transaction | Address, owner and signature are made with the keys of the present phrase, the keys stay while commands are served, and the composition implements `ApduHandler`. Holds. |
| `query_calls` | 2 phrases, no errors, power losses anywhere, all four calls, fairness | The parts of a `getAddress` are in place and of phrases the device had during the call, `showAddress` returns the address approved in that call, and every call returns. Holds. |
| `query_digest` | as `query_calls`, call `digest` of a transaction | `digest()` returns a digest. **Violated**, finding 4. |
| `client_sign` | as `apdu_service`, chunks of 1 byte, fairness | The parts of a result belong to one transaction, and to the message once the first chunk was accepted; every call returns. Holds. |
| `client_message` | 2 transactions with a common first byte, buffer of 4 | `sign(m)` returns a signature of `m`. **Violated**, finding 3. |
| `parser_accept` | 78 buffers of 27 transactions, RSA keys of 2 bytes, 2 tags, formatting room 4, names of 3 bytes with their zero, pages of 2; 2 parses between restarts | Well-formed, truncated at every byte, lengthened, padded, oversized: what is accepted is one encoded transaction, with an item for every element, cut exactly when it is not legible, and signed with its deep hash, which no other transaction has. Holds. |
| `b64_encode` | up to 5 bytes over 3 values, 4 buffer sizes | The encoding is base64's, no character is written past the buffer, and only what does not fit is refused. Holds. |

Why the bounds are enough. Three phrases are what an eviction of two slots
takes; one more is interchangeable with those. The buffer of three bytes holds
one transaction and can be padded, continued and overflowed; transactions of
one and two bytes, one of which is the tail of another, give every way two
uploads can run into each other. Longer payloads only skip buffer contents that
are reached byte by byte. In `client_message` transactions begin alike, as real
ones do with their format field, so that the counterexample does not depend on
a transaction being the tail of another. Two parses are what it takes to leave
something of one transaction in `parser_tx_obj` when the next one fails or
succeeds; one value is long enough for a length to need both its bytes and for
the text not to fit 255 pages. Names of 3 bytes and pages of 2 are where the texts of
these transactions are cut and not cut: keys that just fit and just do not, zero
bytes in keys, values, numbers and at the end and the beginning of a page; all of
them are accepted. Five bytes
are a complete group and each way an encoding can end. In the
runs of the device two phrases are enough: a slot of the own phrase, of the
other one, a damaged one and a free one all occur, and in `device_serve` a
failing derivation makes the device evict a slot. `query_calls` leaves the failures
to `device_serve`, so that its liveness can be checked on the same states.
`QueryClient` sends nothing to sign, so one transaction fills the constant. Runs
with liveness use no symmetry. Two transactions signed in a row are what two
equal digests take; some of the 27 differ in one field, or in two that are
exchanged, in the order of their tags, or only in where the bytes of the tags are
cut. The theorems of section 5 hold without these bounds.

Deadlock is checked in every run: a device can always be switched off, a parser
that is not in the middle of a transaction can always be restarted, and the
middle of a transaction always has a next step; an encoder that is done can be
called again.

## 4. Findings

1. **`initialized` before the keys** (`crypto_store.c:304`). A power loss between
   the writes leaves a slot the next boot opens, with a public key that is empty
   or another phrase's. `docs/APDUSPEC.md:175` promises the owner's key.
2. **Ready but not initialised** (`crypto_store.c:347`). When the derivation fails
   once at boot and works afterwards, `crypto_store_init` finds the slot, returns
   `zxerr_ok` and leaves `device_initialized` false: every command but GET_VERSION is
   refused until the app is restarted. `tests_zemu/tests/address.test.ts:48-50`
   takes "Ready" for initialised. That `zxerr_ok` leads to the Ready screen is zxlib's behaviour,
   external here.
3. **First chunk not checked** (`js/src/index.js:391`). The answer to `P1_INIT` is
   overwritten. If it was lost or refused while an earlier upload is still in
   the buffer, the new chunks follow that upload, the user is shown the earlier
   transaction, and `sign()` returns its signature. With the answer checked the
   property holds: `SignsMessageOnceInitAcked`.
4. **`digest()` sends no digest command** (`js/src/index.js:422`). `INS` of
   `common.js:4-11` has no `GET_DIGEST`, so the instruction byte is `undefined`, which
   the transport's buffer turns into 0, and 0 is GET_VERSION. The device answers
   every chunk with its version, even when it is locked, and the call returns the
   first bytes of that answer as the digest. This is `digest()` of a Transaction; with
   a Buffer, as declared, it fails before anything is sent.
   `js/src/index.d.ts:34-35,56` promises `digest: Buffer`. The firmware has no such
   instruction either.

## 5. Proofs

TLAPS checks these for every value of the constants.

`KeyStore_proofs`: any set of phrases, any pattern of failures.
`IInv` adds to the checked invariants what they need to be inductive:
`Progress` (during set-up, what each write so far has left in the slot in use and
that this slot does not open yet), `Erasing` (what the wipe has already cleared),
`Serving` (while commands are served the slot in use is initialised, of the
present phrase, and nothing is being written), and `SlotsComplete` (an
initialised slot that is neither damaged nor cut holds the pair of its own
seed). Without the last two, the opening of a slot at boot could not be shown to
find right keys: the boot compares only the master seed. From `IInv` follow
`TypeCorrect`, `OpensItsOwnSlot`, `KeysAreRight`, `FreeSlotsHaveNoKey`. `OwnKeysAreKept` is an
action property under `MayFail = FALSE`: with derivation errors the code does
take a slot of the present phrase for a foreign one. `SetupEnds`, under the same
condition, is the safety half of `Recovers`: `Distance` counts the steps to a device
that serves commands, and each step of the app makes it less, from whatever an
interruption left in flash. It needs `NothingToOpen`: while the initialize screen
waits there is no slot that `crypto_store_init` could find and boot did not, which is
exactly what fails in finding 2. What remains to TLC is that the steps are taken.

`ApduHandler_proofs`: any byte set, any prefix-free set of transactions, any
payloads, any buffer size. `IInv` has `OneReplyPending` (a reply is pending exactly
during a review), `ReviewIntact` (during a review the bytes under the parser's
pointers are the transaction shown), `UploadComplete` (an upload in progress
has lost nothing) and `SignatureReal`. Every command is first reduced to a few
kinds of step (`CommandSteps`), and invariance and refinement are then shown
for each kind. `HandlerImplementsService` is the refinement: initial states map to
initial states, every step to a step of `SigningService` or a stutter.

`B64Url_proofs`: any bytes, any length, any room. `EncodesInput` speaks of a
finished encoding, so `IInv` says what holds in the loop (`Carried`): after 3g + r
bytes, 4g + r characters are written, they are the reference's, and the carry
is the last 2r bits of the last byte. Each step is then a case distinction on
r. `RoomIsExact` shows that the check made before the loop counts exactly the
characters that will be written.

`Device_proofs`: any host, and all of the above together. `KeyStoreStep` and `HandlerStep`
show that each step of the device is a step of `KeyStore` and one of `ApduHandler`, or
leaves them alone; the invariants of both then hold of the device. For the
handler this takes `ServedOnly`: what a command leaves behind (a review, a key in
the reply, a signature) is there only on an initialised device, so that set-up
never ends under a review. `OwnKeyGiven` and `SignedByPresentKey` become inductive with
it: by `Serving` of the key store no step but a power loss reaches the keys of an
initialised device, and a power loss takes the review, the reply and
`signature_set` with it. `DeviceImplementsHandler`, `DeviceImplementsKeyStore` and, through
them, `DeviceImplementsService` are the refinements.

`LedgerClient_proofs`: any set of transactions, any size of chunk, any losses,
locks, restarts and decisions of the user. The client is one host among those
`ApduHandler` allows (`ClientIsHost`), so `ClientIInv` is the handler's `IInv` and what
the call knows: that no review but its own is on screen (`ReviewOwned`), that the
stored signature, if there still is one, is of the deephash the call was given
(`SignatureOwned`), and, from an accepted first chunk on, that the buffer holds the
chunks sent so far (`UploadInStep`) and only the message is reviewed
(`MessageReviewed`). The last step of that needs `ChunksAddUp`: the chunks of a message,
`ceil(len / CHUNK_SIZE)` of them and the last one short, make the message again.
`MessageIsSigned` is the other side of finding 3: with the answer to the first chunk
checked, no earlier upload can get into a `sign()`. `ClientSeesService` carries the
refinement of the handler over to the composition.

`QueryClient_proofs`: any phrases, failures, losses and power losses. `QueryIInv` is
the device's invariant and `QInv`: the answers so far are of phrases of the call, in
their order (`AddressSoFar`); an address that waits to be sent is in the I/O buffer as
it was approved (`ApprovedWaits`); a call that shows nothing has no review
(`ReviewOwned`). `KeysOfThisCall` needs the device's `OwnKeyGiven` for each of the three
answers, its `ServedOnly` (an answer that waits is of an initialised device), and
`Calm`: the present phrase is one of the call's, and the slot in use is not cut.

`TxParser_proofs`: any buffer, any limits, any number of transactions one after the
other. `parser_tx_obj` is never cleared, so what is in it may be of any earlier
transaction. `PInv` therefore counts the reads: `ReadsEnd` (reading ends exactly after
the last read of this transaction), `FreshIsRead` (the fields set by this
transaction are those of the reads done, each read another field) and
`AcceptedIsShown` (every item of an accepted transaction was found displayable). An
accepted transaction has done all its reads, so nothing it shows is stale.
`ReviewCoversAll` is a case distinction on the items and the last of them, with
`NoneBeyond` (no item's tag is outside the array) and `WholeIfLegible` (all bytes of a
text are displayed exactly when it is legible).

`TxDigest_proofs`: any buffers and transactions of fields of any length. An encoding is a
concatenation of pieces, one for each read (`EncodedPieces`). `EInv` says that the
bytes consumed are the pieces read (`EncodedSoFar`), which gives `AcceptedHasOneReading`;
and that in a buffer that begins with the client's encoding each read finds the
client's text (`ReadsTheirs`), so that an encoded transaction is refused only when it
cannot be signed (`RefusedIsUnsignable`), which gives `EncodedComesBack`. `NumberEncoded` is
where the client's truncation of lengths to 16 bits comes in: a buffer of at most 65535
bytes cannot contain a piece whose length was truncated. For the digest both the
accumulators and the deep hash are shown to be chains of hashes
(`DigestIsOfParsed`, `TransactionHashed`): `SignsDeepHash` says they are the same chain, and
`DigestIsOfOne`, from `ChainsDiffer` and `ListsDiffer`, that two different
transactions never have the same. These theorems are of `DigestSpec`;
`SigningIsParsing` shows that it implements the parser's `Spec`, and
`SigningKeepsParsing` brings all the parser's invariants to the specification the
run checks. The last part joins the parser to the command handler: an encoding that
begins with another has the same pieces one after the other (`NextAlike`, `AllAlike`), so
it is the same (`AcceptedArePrefixFree`), and the bytes of every accepted transaction
are such an encoding (`AcceptsAccepted`).

Induction. The concatenation of the encoder, the accumulators and the deep hash
are recursive functions. `NatSetInduction` (a set that contains 0, and with each
number the next, contains all) is proved from the well-foundedness of `<` and is about a
set, not an operator, so it can be used where the library's induction theorems
cannot; it gives the existence and uniqueness of such a function and what it
computes.

Assumptions: the named ASSUMEs of the modules, which TLC evaluates on its
instances. About the code are `ValidAssumption` (no accepted transaction is a proper
prefix of another; the handler's transactions are abstract, and for those the parser
accepts it is a theorem: `AcceptedArePrefixFree` with `AcceptsAccepted`) and `BuffersAssumption` (at
most 65535 bytes are parsed: offsets are `uint16_t` and the buffer is smaller). `ChunksArePayloads` (a chunk
fits the data field of a command) and `CommandsAssumption` (the client is one of the hosts
considered) relate two constants; the others give constants their types.

Every safety invariant and action property the passing runs check is also a
theorem. Only model-checked: liveness under fairness (`Recovers`, `CallReturns`,
`QueryReturns`), which is out of the prover's reach, and the four violated
properties, which are false.

## 6. Fairness

- `KeyStore!FairSpec`: weak fairness of boot, of `crypto_store_init` and of each of
  its parts: the app starts when the device is on, the user accepts the
  initialize screen, and the procedure is sequential code that runs while there
  is power. `Recovers` is conditional on power losses and changes of phrase
  coming to an end; nothing is assumed about them.
- `LedgerClient!FairSignSpec`: weak fairness of the delivery of a request and of
  its answer, of the user's decision, and of the transport noticing that a
  device restarted under a request. None of losses, locks or restarts.
- `QueryClient!FairQuerySpec`: the same for the delivery, the answer, the decision
  and the restart noticed, and weak fairness of boot and of set-up as in
  `KeyStore`. `QueryReturns` is conditional on power losses coming to an end.

## 7. What is assumed of code outside the repository

zxlib and the SDK are submodules that are not in the tree. From how `src/`
uses them: one NV write is atomic; no command is delivered while a reply is
pending; a review ends with exactly one of the callbacks of `actions.h`; the
initialize screen goes to the idle screen when its callback returns `zxerr_ok`
and stays otherwise; `tx_append` takes a whole payload or none; the derivation
of keys is deterministic; hash and signature are injective; `pageStringExt` fills the
pages one after the other with the characters of the length it is given, a page is
shown as a C string, and the number of pages is kept in the
`uint8_t` the code gives it, so it is taken modulo 256.

## 8. Not modelled, and the plan

Not modelled:

- `appInfo` (`index.js`): answered by the dashboard, no code of this repository runs;
  one command, one answer, which `getVersion` already shows.
- `crypto_derivePrime`, `crypto_derive_seed`: straight-line hashing and a primality
  test done by the OS. They keep no state; what matters to the store is that the
  result depends on the phrase only and that each may fail, which is modelled.
- `deps/sha512`: third-party, host builds only.
- The characters of the review items: `z_str3join`, `intstr_to_fpstr_inplace` and the
  trimming of numbers are zxlib's. Which bytes of an element are shown is modelled,
  with zxlib's division into pages as assumed in section 7.
- Tests, fuzzing, emulation, build files.

The plan of the project is carried out. What a next step would add: the counterpart
of `SetupEnds` for the calls of the client, that each answer leaves one command less
to wait for; and, if zxlib were in the tree, its pages and screens in place of what
section 7 assumes.
