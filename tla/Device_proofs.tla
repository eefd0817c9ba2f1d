----------------------------- MODULE Device_proofs -----------------------------
(***************************************************************************)
(* The device implements its two components, for every host, every set of  *)
(* transactions and of recovery phrases, and every pattern of failures.    *)
(*                                                                         *)
(* Each step of the device is a step of the key store and a step of the    *)
(* handler, or leaves the one or the other alone.  The invariants proved   *)
(* of each component then hold of the device, and together they show that  *)
(* the commands use the keys of the device's own phrase.                   *)
(***************************************************************************)
EXTENDS Device, ApduHandler_proofs

KP == INSTANCE KeyStore_proofs

\* Commands leave something behind only on a device that is initialised.
ServedOnly ==
    \/ review # "none"
    \/ reply.part \in {"address", "pk0", "pk1"}
    \/ signature_set
    => device_initialized

DInv == KP!IInv /\ IInv /\ ServedOnly /\ OwnKeyGiven /\ SignedByPresentKey

-----------------------------------------------------------------------------
(* K and KP are the same key store, with and without its proofs.           *)

\* Each action, with its definitions expanded, is the same formula.
LEMMA SameStore ==
    /\ K!Init <=> KP!Init
    /\ K!vars = KP!vars
    /\ K!Boot <=> KP!Boot
    /\ K!crypto_store_init <=> KP!crypto_store_init
    /\ K!crypto_uninitialized_slot <=> KP!crypto_uninitialized_slot
    /\ K!crypto_initialize_slot <=> KP!crypto_initialize_slot
    /\ K!PowerLoss <=> KP!PowerLoss
    /\ K!SwitchSeed <=> KP!SwitchSeed
    /\ K!Next <=> KP!Next
<1> USE DEF K!flash, KP!flash, K!Slots, KP!Slots, K!KEY_SLOT_1,
            KP!KEY_SLOT_1, K!KEY_SLOT_2, KP!KEY_SLOT_2
<1>1. (K!Init <=> KP!Init) /\ K!vars = KP!vars
  BY DEF K!Init, KP!Init, K!vars, KP!vars
<1>2. /\ K!Boot <=> KP!Boot
      /\ K!crypto_store_init <=> KP!crypto_store_init
  BY DEF K!crypto_store_init, KP!crypto_store_init, K!InitEvict, KP!InitEvict,
     K!InitReuse, KP!InitReuse, K!InitFree, KP!InitFree, K!Accepting,
     KP!Accepting, K!Boot, KP!Boot, K!BootFound, KP!BootFound,
     K!BootNotFound, KP!BootNotFound, K!Outcomes, KP!Outcomes, K!Passed,
     KP!Passed, K!Opens, KP!Opens, K!IsFree, KP!IsFree, K!NoneFits,
     KP!NoneFits, K!same_masterseed, KP!same_masterseed,
     K!crypto_store_slot_is_initialized,
     KP!crypto_store_slot_is_initialized
<1>3. K!crypto_uninitialized_slot <=> KP!crypto_uninitialized_slot
  BY DEF K!crypto_uninitialized_slot, KP!crypto_uninitialized_slot,
     K!WipePrimes, KP!WipePrimes, K!WipePrivateKey, KP!WipePrivateKey,
     K!WipeSeed, KP!WipeSeed, K!WipeInitialized, KP!WipeInitialized
<1>4. K!crypto_initialize_slot <=> KP!crypto_initialize_slot
  BY DEF K!crypto_initialize_slot, KP!crypto_initialize_slot,
     K!crypto_deriveMasterSeed, KP!crypto_deriveMasterSeed,
     K!crypto_init_primes, KP!crypto_init_primes, K!GeneratePair,
     KP!GeneratePair, K!SetInitialized, KP!SetInitialized,
     K!StorePublicKey, KP!StorePublicKey, K!StorePrivateKey,
     KP!StorePrivateKey, K!SetupFails, KP!SetupFails
<1>5. (K!PowerLoss <=> KP!PowerLoss) /\ (K!SwitchSeed <=> KP!SwitchSeed)
  BY DEF K!PowerLoss, KP!PowerLoss, K!SwitchSeed, KP!SwitchSeed, K!Damaged,
     KP!Damaged
<1>6. K!Next <=> KP!Next
  BY <1>2, <1>3, <1>4, <1>5 DEF K!Next, KP!Next
<1>7. QED
  BY <1>1, <1>2, <1>3, <1>4, <1>5, <1>6

\* So is what commands read of the store.
LEMMA SameReads ==
    /\ K!crypto_store_get_pubkey = KP!crypto_store_get_pubkey
    /\ K!crypto_store_get_privkey = KP!crypto_store_get_privkey
    /\ K!StoreTypeOK <=> KP!StoreTypeOK
  BY DEF K!crypto_store_is_initialized, KP!crypto_store_is_initialized,
     K!crypto_store_get_pubkey, KP!crypto_store_get_pubkey,
     K!crypto_store_get_privkey, KP!crypto_store_get_privkey, K!StoreTypeOK,
     KP!StoreTypeOK, K!Material, KP!Material, K!crypto_store_t,
     KP!crypto_store_t, K!Steps, KP!Steps, K!WipeSteps, KP!WipeSteps,
     K!SetupSteps, KP!SetupSteps,
     K!Slots, KP!Slots, K!KEY_SLOT_1, KP!KEY_SLOT_1, K!KEY_SLOT_2,
     KP!KEY_SLOT_2

\* KeyStore's invariant is the device's, too.
LEMMA StoreIInv ==
    /\ KP!Init => KP!IInv
    /\ KP!IInv /\ [KP!Next]_(KP!vars) => KP!IInv'
    /\ KP!IInv => KP!KeysMatchUnlessCut
  BY KP!InitIInv, KP!NextIInv, KP!ServingKeys, SeedsAssumption,
     MayFailAssumption DEF KP!ZeroIsNoSeed, KP!MayFailIsBoolean

-----------------------------------------------------------------------------
(* Steps of the device as steps of the key store.                          *)

\* A command reads the store and writes nothing to it.
LEMMA CommandKeys ==
    ASSUME NEW req \in HostRequests, Command(req)
    PROVE  UNCHANGED KP!vars
<1>1. UNCHANGED device_initialized
  BY CommandSteps, HostRequestsAssumption DEF Command, CommandStep
<1>2. QED
  BY <1>1 DEF Command, kvars, KP!vars

\* Nor does the user's decision.
LEMMA DecisionKeys == Decision => UNCHANGED KP!vars
  BY DEF Decision, Sign, ReplyAddress, Declined, app_sign, app_sign_fails,
         app_reject, app_reply_error, app_reply_address, ReviewEnds, kvars,
         KP!vars

\* Every step is one of the key store, or leaves it as it is.
LEMMA KeyStoreStep == [DeviceNext]_vars => [KP!Next]_(KP!vars)
<1> SUFFICES ASSUME [DeviceNext]_vars PROVE [KP!Next]_(KP!vars)
  OBVIOUS
<1>1. CASE \E req \in HostRequests : Command(req)
  BY <1>1, CommandKeys
<1>2. CASE Decision
  BY <1>2, DecisionKeys
<1>3. CASE SetUp
  BY <1>3, SameStore DEF SetUp, KP!Next
<1>4. CASE PowerOn
  BY <1>4, SameStore DEF PowerOn, KP!Next
<1>5. CASE PowerOff
  BY <1>5, SameStore DEF PowerOff, KP!Next
<1>6. CASE Lock
  BY <1>6 DEF Lock, TogglePin, kvars, KP!vars
<1>7. CASE UNCHANGED vars
  BY <1>7 DEF vars, dvars, kvars, KP!vars
<1>8. QED
  BY <1>1, <1>2, <1>3, <1>4, <1>5, <1>6, <1>7 DEF DeviceNext

-----------------------------------------------------------------------------
(* While commands are served, only a power loss reaches the key store.     *)

\* No other guard of the key store holds on the idle screen.
LEMMA StoreWhileServing ==
    ASSUME KP!IInv, device_initialized, [KP!Next]_(KP!vars)
    PROVE  KP!PowerLoss \/ UNCHANGED KP!vars
<1>1. pc = "loop" /\ screen = "ready"
  BY DEF KP!IInv, KP!Serving
<1>2. QED
  BY <1>1 DEF KP!Next, KP!Boot, KP!SwitchSeed, KP!crypto_store_init,
              KP!InitEvict, KP!InitReuse, KP!InitFree, KP!Accepting,
              KP!crypto_uninitialized_slot, KP!WipePrimes, KP!WipePrivateKey,
              KP!WipeSeed, KP!WipeInitialized, KP!crypto_initialize_slot,
              KP!crypto_deriveMasterSeed, KP!crypto_init_primes,
              KP!GeneratePair, KP!SetInitialized, KP!StorePublicKey,
              KP!StorePrivateKey, KP!SetupFails

\* Set-up and boot come before the first command, and leave a device that is
\* initialised or one that is not yet.
LEMMA SetUpSteps ==
    ASSUME KP!IInv, SetUp \/ PowerOn
    PROVE  ~device_initialized /\ device_initialized' \in BOOLEAN
<1>1. \/ KP!Boot \/ KP!SwitchSeed \/ KP!crypto_store_init
      \/ KP!crypto_uninitialized_slot \/ KP!crypto_initialize_slot
  BY SameStore DEF SetUp, PowerOn
<1>2. \/ pc = "off"
      \/ pc = "loop" /\ screen = "initialize"
      \/ pc \in KP!WipeSteps \cup KP!SetupSteps
  <2> USE DEF KP!WipeSteps, KP!SetupSteps
  <2>1. KP!Boot \/ KP!SwitchSeed => pc = "off"
    BY DEF KP!Boot, KP!SwitchSeed
  <2>2. KP!crypto_store_init => pc = "loop" /\ screen = "initialize"
    BY DEF KP!crypto_store_init, KP!InitEvict, KP!InitReuse, KP!InitFree,
           KP!Accepting
  <2>3. KP!crypto_uninitialized_slot => pc \in KP!WipeSteps
    BY DEF KP!crypto_uninitialized_slot, KP!WipePrimes, KP!WipePrivateKey,
           KP!WipeSeed, KP!WipeInitialized
  <2>4. KP!crypto_initialize_slot => pc \in KP!SetupSteps
    BY DEF KP!crypto_initialize_slot, KP!crypto_deriveMasterSeed,
           KP!crypto_init_primes, KP!GeneratePair, KP!SetInitialized,
           KP!StorePublicKey, KP!StorePrivateKey, KP!SetupFails
  <2>5. QED
    BY <1>1, <2>1, <2>2, <2>3, <2>4
<1>3. ~device_initialized
  BY <1>2 DEF KP!IInv, KP!Serving, KP!WipeSteps, KP!SetupSteps
<1>4. [KP!Next]_(KP!vars)
  BY <1>1 DEF KP!Next
<1>5. KP!IInv'
  BY <1>4, StoreIInv
<1>6. device_initialized' \in BOOLEAN
  BY <1>5 DEF KP!IInv, KP!StoreTypeOK
<1>7. QED
  BY <1>3, <1>6

\* Every step is one of the handler, or leaves it as it is; set-up and boot are
\* SetupDone when they leave the device initialised.
LEMMA HandlerStep ==
    ASSUME KP!IInv, OneReplyPending, ServedOnly, [DeviceNext]_vars
    PROVE  [Next]_dvars
<1>1. CASE \E req \in HostRequests : Command(req)
  BY <1>1, HostRequestsAssumption DEF Command, Next
<1>2. CASE Decision
  BY <1>2 DEF Decision, Sign, ReplyAddress, Declined, Next, UserDecides
<1>3. CASE SetUp \/ PowerOn
  <2>1. ~device_initialized /\ device_initialized' \in BOOLEAN
    BY <1>3, SetUpSteps
  <2>2. ~awaiting
    BY <2>1 DEF OneReplyPending, ServedOnly
  <2>3. UNCHANGED <<pin_validated, upload, screens, sigs, reply>>
    BY <1>3 DEF SetUp, PowerOn
  <2>4. CASE device_initialized'
    BY <2>1, <2>2, <2>3, <2>4 DEF SetupDone, Next
  <2>5. CASE ~device_initialized'
    <3>1. device_initialized' = device_initialized
      BY <2>1, <2>5 DEF KP!IInv, KP!StoreTypeOK
    <3>2. QED
      BY <2>3, <3>1 DEF dvars
  <2>6. QED
    BY <2>4, <2>5
<1>4. CASE PowerOff
  BY <1>4 DEF PowerOff, Next
<1>5. CASE Lock
  BY <1>5 DEF Lock, Next
<1>6. CASE UNCHANGED vars
  BY <1>6 DEF vars
<1>7. QED
  BY <1>1, <1>2, <1>3, <1>4, <1>5, <1>6 DEF DeviceNext

-----------------------------------------------------------------------------
(* The invariant.                                                          *)

\* An erased device satisfies it.
LEMMA DeviceInitInv == DeviceInit => DInv
<1> SUFFICES ASSUME DeviceInit PROVE DInv
  OBVIOUS
<1>1. KP!IInv /\ IInv
  BY SameStore, StoreIInv, InitIInv DEF DeviceInit
<1>2. ServedOnly /\ OwnKeyGiven /\ SignedByPresentKey
  BY DEF DeviceInit, Init, ServedOnly, OwnKeyGiven, SignedByPresentKey
<1>3. QED
  BY <1>1, <1>2 DEF DInv

\* A command that is not refused finds the device initialised, and none makes
\* a signature.
LEMMA CommandServes ==
    ASSUME OneReplyPending, NEW req \in Requests, handleApdu(req)
    PROVE  /\ review = "none"
           /\ signature_set' => signature_set
           /\ \/ device_initialized
              \/ /\ UNCHANGED <<screens, sigs>>
                 /\ reply'.part \in {"none", "version"}
<1>1. CommandStep
  BY CommandSteps
<1>2. review = "none"
  BY <1>1 DEF CommandStep, OneReplyPending
<1>3. signature_set' => signature_set
  BY <1>1 DEF CommandStep, Quiet, ChunkInit, ChunkOverflow, Added, Completed,
              ReviewTransaction, RejectData, ChunkUnknown, AddressShown,
              FirstSignaturePart, LastSignaturePart, sigs
<1>4. \/ device_initialized
      \/ /\ UNCHANGED <<screens, sigs>>
         /\ reply'.part \in {"none", "version"}
  BY DEF handleApdu, Refused, handle_getversion, Answered, Reply
<1>5. QED
  BY <1>2, <1>3, <1>4

\* A command fills the I/O buffer from the slot in use, and that is of the
\* device's phrase because the device is initialised.
LEMMA CommandInv ==
    ASSUME DInv, NEW req \in HostRequests, Command(req)
    PROVE  ServedOnly' /\ OwnKeyGiven' /\ SignedByPresentKey'
<1>1. UNCHANGED KP!vars
  BY CommandKeys
<1>2. req \in Requests /\ handleApdu(req) /\ OneReplyPending
  BY HostRequestsAssumption DEF Command, DInv, IInv
<1>3. /\ review = "none"
      /\ signature_set' => signature_set
      /\ \/ device_initialized
         \/ /\ UNCHANGED <<screens, sigs>>
            /\ reply'.part \in {"none", "version"}
  BY <1>2, CommandServes
<1>4. ServedOnly'
  BY <1>1, <1>3 DEF ServedOnly, DInv, KP!vars, screens
<1>5. SignedByPresentKey'
  BY <1>1, <1>3 DEF SignedByPresentKey, DInv, KP!vars, Command,
                    K!crypto_store_get_privkey, K!crypto_store_get_pubkey,
                    K!crypto_store_is_initialized
<1>6. OwnKeyGiven'
  <2> SUFFICES ASSUME slot_in_use' \notin cut',
                      review' = "address"
                      \/ reply'.part \in {"address", "pk0", "pk1"}
               PROVE  G_io_apdu_buffer' = deviceSeed'
    BY DEF OwnKeyGiven, addr_getItem
  <2>1. device_initialized
    BY <1>3 DEF screens
  <2>2. K!crypto_store_get_pubkey = deviceSeed
    BY <1>1, <2>1, StoreIInv, SameReads DEF DInv, KP!KeysMatchUnlessCut, KP!vars
  <2>3. G_io_apdu_buffer' = K!crypto_store_get_pubkey
    BY DEF Command, Filled, crypto_fillAddress, crypto_pubkey_part
  <2>4. QED
    BY <1>1, <2>2, <2>3 DEF KP!vars
<1>7. QED
  BY <1>4, <1>5, <1>6

\* A review was opened by a command that was served, so its end is covered by
\* the same fact.
LEMMA DecisionInv ==
    ASSUME DInv, Decision
    PROVE  ServedOnly' /\ OwnKeyGiven' /\ SignedByPresentKey'
<1>1. UNCHANGED KP!vars
  BY DecisionKeys
<1>2. review # "none" /\ review' = "none" /\ device_initialized
  BY DEF Decision, Sign, ReplyAddress, Declined, app_sign, app_sign_fails,
         app_reject, app_reply_error, app_reply_address, ReviewEnds, DInv,
         ServedOnly
<1>3. ServedOnly'
  BY <1>1, <1>2 DEF ServedOnly, KP!vars
<1>4. CASE Sign
  <2>1. slot_in_use \notin cut =>
            K!crypto_store_get_privkey = K!crypto_store_get_pubkey
    BY <1>2, StoreIInv, SameReads DEF DInv, KP!KeysMatchUnlessCut
  <2>2. SignedByPresentKey'
    BY <1>1, <1>4, <2>1 DEF SignedByPresentKey, Sign, KP!vars,
                    K!crypto_store_get_privkey, K!crypto_store_get_pubkey,
                    K!crypto_store_is_initialized
  <2>3. OwnKeyGiven'
    BY <1>2, <1>4 DEF OwnKeyGiven, Sign, app_sign, Reply
  <2>4. QED
    BY <1>3, <2>2, <2>3
<1>5. CASE ReplyAddress
  <2>1. SignedByPresentKey'
    BY <1>1, <1>5 DEF DInv, SignedByPresentKey, ReplyAddress, app_reply_address,
                    sigs, KP!vars,
                    K!crypto_store_get_privkey, K!crypto_store_get_pubkey,
                    K!crypto_store_is_initialized
  <2>2. OwnKeyGiven'
    BY <1>1, <1>2, <1>5 DEF DInv, OwnKeyGiven, addr_getItem, ReplyAddress,
                    app_reply_address, KP!vars
  <2>3. QED
    BY <1>3, <2>1, <2>2
<1>6. CASE Declined
  <2>1. SignedByPresentKey'
    BY <1>1, <1>6 DEF DInv, SignedByPresentKey, Declined, app_sign_fails,
                    app_reject, app_reply_error, sigs, KP!vars,
                    K!crypto_store_get_privkey, K!crypto_store_get_pubkey,
                    K!crypto_store_is_initialized
  <2>2. OwnKeyGiven'
    BY <1>2, <1>6 DEF OwnKeyGiven, Declined, app_sign_fails, app_reject,
                    app_reply_error, Reply
  <2>3. QED
    BY <1>3, <2>1, <2>2
<1>7. QED
  BY <1>4, <1>5, <1>6 DEF Decision

\* Every step keeps it.
LEMMA DeviceNextInv == DInv /\ [DeviceNext]_vars => DInv'
<1> SUFFICES ASSUME DInv, [DeviceNext]_vars PROVE DInv'
  OBVIOUS
<1>1. KP!IInv'
  BY KeyStoreStep, StoreIInv DEF DInv
<1>2. IInv'
  BY HandlerStep, NextIInv DEF DInv, IInv
<1>3. ServedOnly' /\ OwnKeyGiven' /\ SignedByPresentKey'
  <2>1. CASE \E req \in HostRequests : Command(req)
    BY <2>1, CommandInv
  <2>2. CASE Decision
    BY <2>2, DecisionInv
  <2>3. CASE SetUp \/ PowerOn
    <3>1. ~device_initialized
      BY <2>3, SetUpSteps DEF DInv
    <3>2. UNCHANGED <<screens, sigs, reply>>
      BY <2>3 DEF SetUp, PowerOn
    <3>3. QED
      BY <3>1, <3>2 DEF DInv, ServedOnly, OwnKeyGiven, SignedByPresentKey,
                        screens, sigs
  <2>4. CASE PowerOff
    BY <2>4 DEF PowerOff, Restart, Reply, ServedOnly, OwnKeyGiven,
                SignedByPresentKey
  <2>5. CASE Lock \/ UNCHANGED vars
    <3>1. UNCHANGED <<device_initialized, screens, sigs, reply, kvars,
                      G_io_apdu_buffer, signer>>
      BY <2>5 DEF Lock, TogglePin, vars, dvars
    <3>2. QED
      BY <3>1 DEF DInv, ServedOnly, OwnKeyGiven, SignedByPresentKey,
                  addr_getItem, screens, sigs, kvars,
                  K!crypto_store_get_privkey, K!crypto_store_get_pubkey,
                  K!crypto_store_is_initialized
  <2>6. QED
    BY <2>1, <2>2, <2>3, <2>4, <2>5 DEF DeviceNext
<1>4. QED
  BY <1>1, <1>2, <1>3 DEF DInv

\* Keys, handler and what the commands left behind fit together in every
\* reachable state.
THEOREM DeviceInvariance == DeviceSpec => []DInv
  BY DeviceInitInv, DeviceNextInv, PTL DEF DeviceSpec

-----------------------------------------------------------------------------
(* What follows for the device.                                            *)

\* What is read of a well-typed store is a key or nothing.
LEMMA MaterialRead ==
    ASSUME KP!StoreTypeOK
    PROVE  /\ Zero \in K!Material
           /\ K!crypto_store_get_pubkey \in K!Material
           /\ K!crypto_store_get_privkey \in K!Material
           /\ slot_in_use \in K!Slots
           /\ 0 \in K!Slots
  BY DEF KP!StoreTypeOK, KP!crypto_store_t, KP!Material, KP!Slots, KP!KEY_SLOT_1,
         KP!KEY_SLOT_2, K!Material, K!Slots, K!KEY_SLOT_1, K!KEY_SLOT_2,
         K!crypto_store_get_pubkey, K!crypto_store_get_privkey,
         K!crypto_store_is_initialized

\* The I/O buffer and the last signature are made of keys.
Made == /\ G_io_apdu_buffer \in K!Material
        /\ signer \in [slot : K!Slots, key : K!Material]

\* Whatever a step puts there comes from the store.
LEMMA NextMade ==
    ASSUME KP!StoreTypeOK, Made, [DeviceNext]_vars
    PROVE  Made'
<1> USE MaterialRead DEF Made
<1>0. /\ K!Material' = K!Material
      /\ K!Slots' = K!Slots
  BY DEF K!Material, K!Slots, K!KEY_SLOT_1, K!KEY_SLOT_2
<1>1. CASE \E req \in HostRequests : Command(req)
  BY <1>0, <1>1 DEF Command, Filled, crypto_fillAddress, crypto_pubkey_part
<1>2. CASE Decision
  BY <1>0, <1>2 DEF Decision, Sign, ReplyAddress, Declined
<1>3. CASE SetUp \/ PowerOn \/ Lock \/ UNCHANGED vars
  BY <1>0, <1>3 DEF SetUp, PowerOn, Lock, vars
<1>4. CASE PowerOff
  BY <1>0, <1>4 DEF PowerOff, NotSigned
<1>5. QED
  BY <1>1, <1>2, <1>3, <1>4 DEF DeviceNext

\* Every variable of the device keeps its type: a host cannot bring the handler,
\* nor an interruption the key store, out of it.
THEOREM DeviceTypeCorrect == DeviceSpec => []DeviceTypeOK
<1>1. DeviceInit => Made
  <2> SUFFICES ASSUME DeviceInit PROVE Made
    OBVIOUS
  <2>1. KP!StoreTypeOK
    BY DeviceInitInv DEF DInv, KP!IInv
  <2>2. QED
    BY <2>1, MaterialRead DEF DeviceInit, Made, NotSigned
<1>2. DInv /\ Made /\ [DeviceNext]_vars => Made'
  BY NextMade DEF DInv, KP!IInv
<1>3. DInv /\ Made => DeviceTypeOK
  BY SameReads DEF DInv, IInv, KP!IInv, Made, DeviceTypeOK
<1>4. QED
  BY <1>1, <1>2, <1>3, DeviceInvariance, PTL DEF DeviceSpec

\* Addresses and owners given out are of the device's present phrase.
THEOREM OwnKeysAreGiven == DeviceSpec => []OwnKeyGiven
<1>1. DInv => OwnKeyGiven
  BY DEF DInv
<1>2. QED
  BY <1>1, DeviceInvariance, PTL

\* A signature that can be fetched is of the private key that belongs to the
\* public key given out now.
THEOREM PresentKeySigns == DeviceSpec => []SignedByPresentKey
<1>1. DInv => SignedByPresentKey
  BY DEF DInv
<1>2. QED
  BY <1>1, DeviceInvariance, PTL

\* While commands are served no step touches flash, slot in use or phrase.
THEOREM KeysAreStable == DeviceSpec => KeysStableWhileServing
<1>1. ASSUME DInv, [DeviceNext]_vars, device_initialized, device_initialized'
      PROVE  UNCHANGED <<N_crypto_store, slot_in_use, deviceSeed>>
  <2>1. KP!PowerLoss \/ UNCHANGED KP!vars
    BY <1>1, KeyStoreStep, StoreWhileServing DEF DInv
  <2>2. QED
    BY <1>1, <2>1 DEF KP!PowerLoss, KP!vars
<1>2. DInv /\ [DeviceNext]_vars =>
          [device_initialized /\ device_initialized' =>
              UNCHANGED <<N_crypto_store, slot_in_use, deviceSeed>>]_vars
  BY <1>1
<1>3. QED
  BY <1>2, DeviceInvariance, PTL DEF DeviceSpec, KeysStableWhileServing

\* With the key store's steps hidden the device is a command handler.
THEOREM DeviceImplementsHandler == DeviceSpec => ImplementsHandler
<1>1. DeviceInit => Init
  BY DEF DeviceInit
<1>2. DInv /\ [DeviceNext]_vars => [Next]_dvars
  BY HandlerStep DEF DInv, IInv
<1>3. QED
  BY <1>1, <1>2, DeviceInvariance, PTL DEF DeviceSpec, ImplementsHandler, Spec

\* With the commands hidden it is a key store.
THEOREM DeviceImplementsKeyStore == DeviceSpec => K!Spec
<1>1. DeviceInit => K!Init
  BY DEF DeviceInit
<1>2. [DeviceNext]_vars => [K!Next]_(K!vars)
  BY KeyStoreStep, SameStore DEF K!vars, KP!vars
<1>3. QED
  BY <1>1, <1>2, PTL DEF DeviceSpec, K!Spec

\* The device as a whole promises what SigningService says.
THEOREM DeviceImplementsService == DeviceSpec => Implements
  BY DeviceImplementsHandler, HandlerImplementsService, PTL DEF ImplementsHandler
=============================================================================
