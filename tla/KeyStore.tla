------------------------------- MODULE KeyStore -------------------------------
(***************************************************************************)
(* The RSA key store of the device: app/src/crypto_store.c and the boot    *)
(* code of app/src/common/main.c that uses it.                             *)
(*                                                                         *)
(* The store has two slots in flash.  A slot holds the master seed it was  *)
(* made for, the two primes, the RSA pair and a flag `initialized`.  The   *)
(* pair takes minutes to compute, so it is kept across restarts; the two   *)
(* slots let a user alternate between two recovery phrases.  Flash is      *)
(* written field by field and the power may go at any moment, so a slot    *)
(* can be found half written or half erased at the next boot.              *)
(*                                                                         *)
(* A key, a pair of primes and a master seed are all represented by the    *)
(* recovery phrase (the member of Seeds) they are derived from: the code   *)
(* derives them deterministically.  Each MEMCPY_NV / SET_NV is one step.   *)
(***************************************************************************)
EXTENDS Naturals

CONSTANTS
    Seeds,     \* the recovery phrases the device is ever given
    Zero,      \* an erased flash field
    MayFail    \* TRUE: the OS's derivation and RSA services may return errors

ASSUME ZeroIsNoSeed == Zero \notin Seeds
ASSUME MayFailIsBoolean == MayFail \in BOOLEAN

KEY_SLOT_1 == 0
KEY_SLOT_2 == 1
Slots == {KEY_SLOT_1, KEY_SLOT_2}

Material == Seeds \cup {Zero}

crypto_store_t == [masterSeed : Material, pq : Material, rsa_pub : Material,
                   rsa_priv : Material, initialized : BOOLEAN]

VARIABLES
    N_crypto_store,      \* flash: the two slots
    deviceSeed,          \* the recovery phrase the device is set up with
    slot_in_use,         \* RAM
    device_initialized,  \* RAM: commands other than GET_VERSION are served
    screen,              \* the screen shown when nothing is running
    pc,                  \* the flash write or OS call about to happen
    wiping,              \* the slot crypto_uninitialized_slot is erasing
    pair,                \* the generated pair, in RAM until it is stored
    cut                  \* ghost: slots whose keys a power loss left damaged

flash == <<N_crypto_store, cut>>
vars == <<N_crypto_store, deviceSeed, slot_in_use, device_initialized,
          screen, pc, wiping, pair, cut>>

WipeSteps  == {"wipe_pq", "wipe_priv", "wipe_seed", "wipe_init"}
SetupSteps == {"seed", "primes", "keys", "set_init", "store_pub", "store_priv"}
Steps == {"off", "loop"} \cup WipeSteps \cup SetupSteps

\* Flash and RAM have their types in every state of boot, set-up and erasing.
StoreTypeOK ==
    /\ N_crypto_store \in [Slots -> crypto_store_t]
    /\ deviceSeed \in Seeds
    /\ slot_in_use \in Slots
    /\ device_initialized \in BOOLEAN
    /\ screen \in {"off", "initialize", "ready"}
    /\ pc \in Steps
    /\ wiping \in Slots
    /\ pair \in Material
    /\ cut \subseteq Slots

-----------------------------------------------------------------------------
(* What the code reads from the store.                                     *)

crypto_store_slot_is_initialized(slot) == N_crypto_store[slot].initialized

crypto_store_is_initialized == N_crypto_store[slot_in_use].initialized

\* Zero stands for the NULL of an uninitialised slot, too.
crypto_store_get_pubkey ==
    IF crypto_store_is_initialized THEN N_crypto_store[slot_in_use].rsa_pub
                                   ELSE Zero

crypto_store_get_privkey ==
    IF crypto_store_is_initialized THEN N_crypto_store[slot_in_use].rsa_priv
                                   ELSE Zero

\* A mutated form: the comparison is left out.
same_masterseed_mut(slot, ok) == ok[slot]

\* A mutated form: the slot in use is compared, not the one asked about.
same_masterseed_in_use(slot, ok) ==
    ok[slot] /\ N_crypto_store[slot_in_use].masterSeed = deviceSeed

\* An error of the derivation is reported as "another seed".  ok[slot] says
\* whether the derivation made for that slot succeeds.
same_masterseed(slot, ok) ==
    ok[slot] /\ N_crypto_store[slot].masterSeed = deviceSeed

Outcomes == IF MayFail THEN BOOLEAN ELSE {TRUE}

\* The slots are tried in order: slot 2 is looked at only when slot 1 is
\* initialised for another seed.
Passed(slot, ok) ==
    \A t \in Slots : t < slot => /\ crypto_store_slot_is_initialized(t)
                                 /\ ~same_masterseed(t, ok)

Opens(slot, ok) ==
    /\ Passed(slot, ok)
    /\ crypto_store_slot_is_initialized(slot)
    /\ same_masterseed(slot, ok)

IsFree(slot, ok) ==
    Passed(slot, ok) /\ ~crypto_store_slot_is_initialized(slot)

NoneFits(ok) ==
    \A s \in Slots : /\ crypto_store_slot_is_initialized(s)
                     /\ ~same_masterseed(s, ok)

-----------------------------------------------------------------------------
Init ==
    /\ N_crypto_store = [s \in Slots |->
                            [masterSeed |-> Zero, pq |-> Zero, rsa_pub |-> Zero,
                             rsa_priv |-> Zero, initialized |-> FALSE]]
    /\ deviceSeed \in Seeds
    /\ slot_in_use = KEY_SLOT_1
    /\ device_initialized = FALSE
    /\ screen = "off"
    /\ pc = "off"
    /\ wiping = KEY_SLOT_1
    /\ pair = Zero
    /\ cut = {}

\* main(): device_initialized = crypto_store_init_test(), then a screen.
BootFound(slot, ok) ==
    /\ Opens(slot, ok)
    /\ slot_in_use' = slot
    /\ device_initialized' = TRUE
    /\ screen' = "ready"

BootNotFound(ok) ==
    /\ \A s \in Slots : ~Opens(s, ok)
    /\ screen' = "initialize"
    /\ UNCHANGED <<slot_in_use, device_initialized>>

Boot ==
    /\ pc = "off"
    /\ pc' = "loop"
    /\ \E ok \in [Slots -> Outcomes] :
          BootNotFound(ok) \/ \E s \in Slots : BootFound(s, ok)
    /\ UNCHANGED <<flash, deviceSeed, wiping, pair>>

-----------------------------------------------------------------------------
(* crypto_store_init, which the initialize screen calls when the user      *)
(* accepts.  The screen is "ready" when it returns zxerr_ok.               *)

\* A mutated form: set-up can be started at any time.
Accepting_mut == pc = "loop"

Accepting == pc = "loop" /\ screen = "initialize"

\* The slot is there after all.  device_initialized is not touched.
InitReuse(slot, ok) ==
    /\ Accepting
    /\ Opens(slot, ok)
    /\ slot_in_use' = slot
    /\ screen' = "ready"
    /\ UNCHANGED <<flash, deviceSeed, device_initialized, pc, wiping, pair>>

InitFree(slot, ok) ==
    /\ Accepting
    /\ IsFree(slot, ok)
    /\ slot_in_use' = slot
    /\ pc' = "seed"
    /\ UNCHANGED <<flash, deviceSeed, device_initialized, screen, wiping, pair>>

InitEvict(ok) ==
    /\ Accepting
    /\ NoneFits(ok)
    /\ pc' = "wipe_pq"
    /\ wiping' = KEY_SLOT_1
    /\ UNCHANGED <<flash, deviceSeed, slot_in_use, device_initialized, screen,
                   pair>>

crypto_store_init ==
    \E ok \in [Slots -> Outcomes] :
        \/ InitEvict(ok)
        \/ \E s \in Slots : InitReuse(s, ok) \/ InitFree(s, ok)

-----------------------------------------------------------------------------
(* crypto_uninitialized_slot: four writes; rsa_pub is left as it is.       *)

WipePrimes ==
    /\ pc = "wipe_pq"
    /\ pc' = "wipe_priv"
    /\ N_crypto_store' = [N_crypto_store EXCEPT ![wiping].pq = Zero]
    /\ UNCHANGED <<deviceSeed, slot_in_use, device_initialized, screen,
                   wiping, pair, cut>>

\* A mutated form: the private key is left behind.
WipePrivateKey_mut ==
    /\ pc = "wipe_priv"
    /\ pc' = "wipe_seed"
    /\ UNCHANGED <<N_crypto_store, deviceSeed, slot_in_use, device_initialized,
                   screen, wiping, pair, cut>>

WipePrivateKey ==
    /\ pc = "wipe_priv"
    /\ pc' = "wipe_seed"
    /\ N_crypto_store' = [N_crypto_store EXCEPT ![wiping].rsa_priv = Zero]
    /\ UNCHANGED <<deviceSeed, slot_in_use, device_initialized, screen,
                   wiping, pair, cut>>

\* Without its master seed a damaged slot can no longer be opened.
WipeSeed ==
    /\ pc = "wipe_seed"
    /\ pc' = "wipe_init"
    /\ N_crypto_store' = [N_crypto_store EXCEPT ![wiping].masterSeed = Zero]
    /\ cut' = cut \ {wiping}
    /\ UNCHANGED <<deviceSeed, slot_in_use, device_initialized, screen,
                   wiping, pair>>

\* A mutated form: the loop over the slots runs once too often.
WipeInitialized_mut ==
    /\ pc = "wipe_init"
    /\ N_crypto_store' = [N_crypto_store EXCEPT ![wiping].initialized = FALSE]
    /\ wiping' = wiping + 1
    /\ pc' = "wipe_pq"
    /\ UNCHANGED <<deviceSeed, slot_in_use, device_initialized, screen, pair,
                   cut>>

\* Slot 1 first, then slot 2, then slot 1 is set up afresh.
WipeInitialized ==
    /\ pc = "wipe_init"
    /\ N_crypto_store' = [N_crypto_store EXCEPT ![wiping].initialized = FALSE]
    /\ \/ /\ wiping = KEY_SLOT_1
          /\ wiping' = KEY_SLOT_2
          /\ pc' = "wipe_pq"
          /\ UNCHANGED slot_in_use
       \/ /\ wiping = KEY_SLOT_2
          /\ wiping' = KEY_SLOT_1
          /\ pc' = "seed"
          /\ slot_in_use' = KEY_SLOT_1
    /\ UNCHANGED <<deviceSeed, device_initialized, screen, pair, cut>>

crypto_uninitialized_slot ==
    WipePrimes \/ WipePrivateKey \/ WipeSeed \/ WipeInitialized

-----------------------------------------------------------------------------
(* crypto_initialize_slot.                                                 *)

crypto_deriveMasterSeed ==
    /\ pc = "seed"
    /\ pc' = "primes"
    /\ N_crypto_store' = [N_crypto_store EXCEPT
                             ![slot_in_use].masterSeed = deviceSeed]
    /\ UNCHANGED <<deviceSeed, slot_in_use, device_initialized, screen,
                   wiping, pair, cut>>

\* A mutated form: primes already in flash are taken as they are.
crypto_init_primes_mut ==
    /\ pc = "primes"
    /\ pc' = "keys"
    /\ N_crypto_store' =
          IF N_crypto_store[slot_in_use].pq # Zero THEN N_crypto_store
          ELSE [N_crypto_store EXCEPT
                  ![slot_in_use].pq = N_crypto_store[slot_in_use].masterSeed]
    /\ UNCHANGED <<deviceSeed, slot_in_use, device_initialized, screen,
                   wiping, pair, cut>>

\* The primes come from the master seed in flash and go back to flash.
crypto_init_primes ==
    /\ pc = "primes"
    /\ pc' = "keys"
    /\ N_crypto_store' = [N_crypto_store EXCEPT
            ![slot_in_use].pq = N_crypto_store[slot_in_use].masterSeed]
    /\ UNCHANGED <<deviceSeed, slot_in_use, device_initialized, screen,
                   wiping, pair, cut>>

\* crypto_init_keys: the pair is generated, then the flag and the two keys
\* are stored in that order.
GeneratePair ==
    /\ pc = "keys"
    /\ pc' = "set_init"
    /\ pair' = N_crypto_store[slot_in_use].pq
    /\ UNCHANGED <<flash, deviceSeed, slot_in_use, device_initialized, screen,
                   wiping>>

SetInitialized ==
    /\ pc = "set_init"
    /\ pc' = "store_pub"
    /\ N_crypto_store' = [N_crypto_store EXCEPT
                             ![slot_in_use].initialized = TRUE]
    /\ UNCHANGED <<deviceSeed, slot_in_use, device_initialized, screen,
                   wiping, pair, cut>>

StorePublicKey ==
    /\ pc = "store_pub"
    /\ pc' = "store_priv"
    /\ N_crypto_store' = [N_crypto_store EXCEPT ![slot_in_use].rsa_pub = pair]
    /\ UNCHANGED <<deviceSeed, slot_in_use, device_initialized, screen,
                   wiping, pair, cut>>

\* A mutated form: crypto_initialize_slot forgets device_initialized.
StorePrivateKey_mut ==
    /\ pc = "store_priv"
    /\ pc' = "loop"
    /\ N_crypto_store' = [N_crypto_store EXCEPT ![slot_in_use].rsa_priv = pair]
    /\ pair' = Zero
    /\ screen' = "ready"
    /\ UNCHANGED <<deviceSeed, slot_in_use, wiping, cut, device_initialized>>

\* The last write; crypto_initialize_slot then returns zxerr_ok.
StorePrivateKey ==
    /\ pc = "store_priv"
    /\ pc' = "loop"
    /\ N_crypto_store' = [N_crypto_store EXCEPT ![slot_in_use].rsa_priv = pair]
    /\ pair' = Zero
    /\ device_initialized' = TRUE
    /\ screen' = "ready"
    /\ UNCHANGED <<deviceSeed, slot_in_use, wiping, cut>>

\* An OS service fails: every step up to the pair returns the error before it
\* writes, and the initialize screen stays.
SetupFails ==
    /\ MayFail
    /\ pc \in {"seed", "primes", "keys"}
    /\ pc' = "loop"
    /\ UNCHANGED <<flash, deviceSeed, slot_in_use, device_initialized, screen,
                   wiping, pair>>

crypto_initialize_slot ==
    \/ crypto_deriveMasterSeed \/ crypto_init_primes \/ GeneratePair
    \/ SetInitialized \/ StorePublicKey \/ StorePrivateKey \/ SetupFails

-----------------------------------------------------------------------------
\* The slots whose keys are incomplete while their seed already, or still,
\* opens them.
Damaged ==
    (IF pc \in {"store_pub", "store_priv"} THEN {slot_in_use} ELSE {}) \cup
    (IF pc = "wipe_seed" THEN {wiping} ELSE {})

\* The power goes, or the app is closed: RAM is lost, flash stays.
PowerLoss ==
    /\ pc # "off"
    /\ pc' = "off"
    /\ screen' = "off"
    /\ slot_in_use' = KEY_SLOT_1
    /\ device_initialized' = FALSE
    /\ wiping' = KEY_SLOT_1
    /\ pair' = Zero
    /\ cut' = cut \cup Damaged
    /\ UNCHANGED <<N_crypto_store, deviceSeed>>

\* The device is reset with another recovery phrase (or a passphrase).
SwitchSeed ==
    /\ pc = "off"
    /\ deviceSeed' \in Seeds \ {deviceSeed}
    /\ UNCHANGED <<flash, slot_in_use, device_initialized, screen, pc, wiping,
                   pair>>

Next ==
    \/ Boot \/ crypto_store_init \/ crypto_uninitialized_slot
    \/ crypto_initialize_slot \/ PowerLoss \/ SwitchSeed

Spec == Init /\ [][Next]_vars

\* The app starts when the device is switched on, the user accepts the
\* initialize screen, and the procedure runs while there is power.
Fairness ==
    /\ WF_vars(Boot)
    /\ WF_vars(crypto_store_init)
    /\ WF_vars(crypto_uninitialized_slot)
    /\ WF_vars(crypto_initialize_slot)

FairSpec == Spec /\ Fairness

-----------------------------------------------------------------------------
(* Properties.                                                             *)

Holds(slot, seed) ==
    /\ N_crypto_store[slot].initialized
    /\ N_crypto_store[slot].masterSeed = seed

\* A device that serves commands works on a slot made for the recovery phrase
\* it is set up with now, whatever was interrupted or swapped before
\* (device_initialized, slot_in_use and the slot's masterSeed agree).
SlotSeedMatches == device_initialized => Holds(slot_in_use, deviceSeed)

\* Both keys the app then uses (crypto_store_get_pubkey/_privkey) belong to
\* that phrase, unless a power loss fell between the writes of that very slot:
\* initialized, rsa_pub, rsa_priv; or rsa_priv and masterSeed when erasing.
KeysMatchUnlessCut ==
    device_initialized /\ slot_in_use \notin cut =>
        /\ crypto_store_get_pubkey = deviceSeed
        /\ crypto_store_get_privkey = deviceSeed

\* No private key stays in a slot that counts as free: `initialized` is the
\* first thing written on the way in and the last one on the way out, also
\* when the power goes between the writes.  This is about rsa_priv only: a set-up
\* cut before `initialized` leaves its master seed and its primes in the slot.
NoKeyInFreeSlot ==
    \A s \in Slots :
        ~N_crypto_store[s].initialized => N_crypto_store[s].rsa_priv = Zero

\* A slot that holds the keys of the current phrase is never erased or
\* rewritten: no step of the app takes it away (branch order of
\* crypto_store_init).
KeepsOwnKeys ==
    [][\A s \in Slots :
          /\ Holds(s, deviceSeed) /\ pc \notin {"store_pub", "store_priv"}
          => UNCHANGED N_crypto_store[s]]_vars

\* Once power losses and changes of phrase are over, the device ends up
\* initialised, from whatever half-written flash it was left with.
Recovers ==
    (<>[][~(PowerLoss \/ SwitchSeed)]_vars) => <>[]device_initialized

\* The steps of the app, at most, from here to a device that serves commands.
Distance ==
    LET SetupLeft == [seed |-> 6, primes |-> 5, keys |-> 4, set_init |-> 3,
                      store_pub |-> 2, store_priv |-> 1]
        WipeLeft  == [wipe_pq |-> 4, wipe_priv |-> 3, wipe_seed |-> 2,
                      wipe_init |-> 1]
    IN  IF device_initialized THEN 0
        ELSE CASE pc \in SetupSteps -> SetupLeft[pc]
               [] pc \in WipeSteps  -> WipeLeft[pc] +
                                      (IF wiping = KEY_SLOT_1 THEN 10 ELSE 6)
               [] pc = "loop"      -> 15
               [] pc = "off"       -> 16

\* With working OS services each step of the app brings set-up nearer its end,
\* whatever an interruption left in flash: it never finds at the second look a
\* slot that boot has not found, never erases twice, and never ends without a
\* device that serves commands (crypto_store_init, crypto_initialize_slot).
SetupAdvances ==
    [][PowerLoss \/ SwitchSeed \/ Distance' < Distance]_vars

-----------------------------------------------------------------------------
(* What the documentation promises and a power loss or an OS error breaks. *)

\* docs/APDUSPEC.md: GET_PUBKEY gets the "owner" (the RSA public key) of the
\* ledger out, so an initialised device gives the key of its phrase.
PublicKeyOfSeed == device_initialized => crypto_store_get_pubkey = deviceSeed

\* tests_zemu/tests/address.test.ts: once "Ready" shows, "here we have the
\* device initialized".
ReadyMeansInitialized == screen = "ready" => device_initialized
=============================================================================
