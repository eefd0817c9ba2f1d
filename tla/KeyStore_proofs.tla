---------------------------- MODULE KeyStore_proofs ----------------------------
(***************************************************************************)
(* The safety properties of KeyStore for any set of recovery phrases.      *)
(*                                                                         *)
(* IInv says, for each step of the procedure, what is already in flash;    *)
(* with it a power loss between any two writes is one more step to check.  *)
(***************************************************************************)
EXTENDS KeyStore, TLAPS

\* A device that serves commands is at rest, on a slot of its own phrase.
Serving ==
    device_initialized =>
        pc = "loop" /\ screen = "ready" /\ Holds(slot_in_use, deviceSeed)

\* While a slot is set up: it is free until its pair is ready, and seed,
\* primes and pair follow one another.
Progress ==
    /\ pc \in {"seed", "primes", "keys", "set_init"} =>
           ~N_crypto_store[slot_in_use].initialized
    /\ pc \in SetupSteps \ {"seed"} =>
           N_crypto_store[slot_in_use].masterSeed = deviceSeed
    /\ pc \in SetupSteps \ {"seed", "primes"} =>
           N_crypto_store[slot_in_use].pq = deviceSeed
    /\ pc \in {"set_init", "store_pub", "store_priv"} => pair = deviceSeed
    /\ pc \in {"store_pub", "store_priv"} =>
           N_crypto_store[slot_in_use].initialized
    /\ pc = "store_priv" => N_crypto_store[slot_in_use].rsa_pub = deviceSeed

\* While the slots are erased.
Erasing ==
    /\ pc \in WipeSteps /\ wiping = KEY_SLOT_2 =>
           ~N_crypto_store[KEY_SLOT_1].initialized
    /\ pc \in {"wipe_seed", "wipe_init"} =>
           N_crypto_store[wiping].rsa_priv = Zero
    /\ pc = "wipe_init" => N_crypto_store[wiping].masterSeed = Zero

\* A slot that can be opened and is not known to be damaged holds both keys.
Complete(s) ==
    /\ N_crypto_store[s].initialized
    /\ N_crypto_store[s].masterSeed # Zero
    /\ s \notin cut \cup Damaged
    => /\ N_crypto_store[s].rsa_pub = N_crypto_store[s].masterSeed
       /\ N_crypto_store[s].rsa_priv = N_crypto_store[s].masterSeed

SlotsComplete == \A s \in Slots : Complete(s)

IInv == StoreTypeOK /\ Serving /\ Progress /\ Erasing /\ SlotsComplete
               /\ NoKeyInFreeSlot

-----------------------------------------------------------------------------

\* An erased device satisfies the invariant.
LEMMA InitIInv == Init => IInv
<1> SUFFICES ASSUME Init PROVE IInv
  OBVIOUS
<1> USE DEF Init, Slots, KEY_SLOT_1, KEY_SLOT_2
<1>1. StoreTypeOK
  BY DEF StoreTypeOK, crypto_store_t, Material, Steps
<1>2. Serving /\ Progress /\ Erasing
  BY DEF Serving, Progress, Erasing, SetupSteps, WipeSteps
<1>3. SlotsComplete /\ NoKeyInFreeSlot
  BY DEF SlotsComplete, Complete, NoKeyInFreeSlot
<1>4. QED
  BY <1>1, <1>2, <1>3 DEF IInv

\* Every step keeps it.
LEMMA NextIInv == IInv /\ [Next]_vars => IInv'
<1> SUFFICES ASSUME IInv, [Next]_vars PROVE IInv'
  OBVIOUS
<1> USE ZeroIsNoSeed
    DEF IInv, StoreTypeOK, crypto_store_t, Material, Slots, KEY_SLOT_1, KEY_SLOT_2,
        Steps, SetupSteps, WipeSteps, Serving, Holds, Progress, Erasing,
        SlotsComplete, Complete, Damaged, NoKeyInFreeSlot
<1>1. CASE Boot
  <2>1. PICK ok \in [Slots -> Outcomes] :
              BootNotFound(ok) \/ \E s \in Slots : BootFound(s, ok)
    BY <1>1 DEF Boot
  <2>2. CASE BootNotFound(ok)
    BY <1>1, <2>2 DEF Boot, BootNotFound, flash
  <2>3. CASE \E s \in Slots : BootFound(s, ok)
    <3>1. PICK s \in Slots : BootFound(s, ok)
      BY <2>3
    <3>2. Holds(s, deviceSeed)
      BY <3>1 DEF BootFound, Opens, same_masterseed,
                  crypto_store_slot_is_initialized
    <3>3. QED
      BY <1>1, <3>1, <3>2 DEF Boot, BootFound, flash
  <2>4. QED
    BY <2>1, <2>2, <2>3
<1>2. CASE crypto_store_init
  <2>1. PICK ok \in [Slots -> Outcomes] :
              \/ InitEvict(ok)
              \/ \E s \in Slots : InitReuse(s, ok) \/ InitFree(s, ok)
    BY <1>2 DEF crypto_store_init
  <2>2. CASE InitEvict(ok)
    BY <2>2 DEF InitEvict, Accepting, flash
  <2>3. ASSUME NEW s \in Slots, InitReuse(s, ok) PROVE IInv'
    BY <2>3 DEF InitReuse, Accepting, flash
  <2>4. ASSUME NEW s \in Slots, InitFree(s, ok) PROVE IInv'
    BY <2>4 DEF InitFree, Accepting, IsFree, crypto_store_slot_is_initialized,
                flash
  <2>5. QED
    BY <2>1, <2>2, <2>3, <2>4
<1>3. CASE WipePrimes
  BY <1>3 DEF WipePrimes
<1>4. CASE WipePrivateKey
  BY <1>4 DEF WipePrivateKey
<1>5. CASE WipeSeed
  BY <1>5 DEF WipeSeed
<1>6. CASE WipeInitialized
  BY <1>6, ZenonT(30) DEF WipeInitialized
<1>7. CASE crypto_deriveMasterSeed
  BY <1>7 DEF crypto_deriveMasterSeed
<1>8. CASE crypto_init_primes
  BY <1>8 DEF crypto_init_primes
<1>9. CASE GeneratePair
  BY <1>9 DEF GeneratePair, flash
<1>10. CASE SetInitialized
  BY <1>10 DEF SetInitialized
<1>11. CASE StorePublicKey
  BY <1>11 DEF StorePublicKey
<1>12. CASE StorePrivateKey
  BY <1>12 DEF StorePrivateKey
<1>13. CASE SetupFails
  BY <1>13 DEF SetupFails, flash
<1>14. CASE PowerLoss
  BY <1>14 DEF PowerLoss
<1>15. CASE SwitchSeed
  BY <1>15 DEF SwitchSeed, flash
<1>16. CASE UNCHANGED vars
  BY <1>16 DEF vars
<1>17. QED
  BY <1>1, <1>2, <1>3, <1>4, <1>5, <1>6, <1>7, <1>8, <1>9, <1>10, <1>11,
     <1>12, <1>13, <1>14, <1>15, <1>16
  DEF Next, crypto_uninitialized_slot, crypto_initialize_slot

-----------------------------------------------------------------------------

\* The invariant holds in every reachable state.
THEOREM Invariance == Spec => []IInv
<1>1. Init => IInv
  BY InitIInv
<1>2. IInv /\ [Next]_vars => IInv'
  BY NextIInv
<1>3. QED
  BY <1>1, <1>2, PTL DEF Spec

\* Every variable keeps its type, through any interleaving of writes, power
\* losses and changes of phrase.
THEOREM TypeCorrect == Spec => []StoreTypeOK
<1>1. IInv => StoreTypeOK
  BY DEF IInv
<1>2. QED
  BY <1>1, Invariance, PTL

\* A device that serves commands works on a slot made for its own phrase.
THEOREM OpensItsOwnSlot == Spec => []SlotSeedMatches
<1>1. IInv => SlotSeedMatches
  BY DEF IInv, Serving, SlotSeedMatches
<1>2. QED
  BY <1>1, Invariance, PTL

\* The pair of a slot that serves commands is complete.
LEMMA ServingKeys == IInv => KeysMatchUnlessCut
<1> SUFFICES ASSUME IInv, device_initialized, slot_in_use \notin cut
             PROVE  /\ crypto_store_get_pubkey = deviceSeed
                    /\ crypto_store_get_privkey = deviceSeed
  BY DEF KeysMatchUnlessCut
<1>1. pc = "loop" /\ Holds(slot_in_use, deviceSeed)
  BY DEF IInv, Serving
<1>2. slot_in_use \in Slots /\ deviceSeed # Zero
  BY ZeroIsNoSeed DEF IInv, StoreTypeOK
<1>3. slot_in_use \notin cut \cup Damaged
  BY <1>1 DEF Damaged
<1>4. /\ N_crypto_store[slot_in_use].rsa_pub = deviceSeed
      /\ N_crypto_store[slot_in_use].rsa_priv = deviceSeed
  BY <1>1, <1>2, <1>3 DEF IInv, SlotsComplete, Complete, Holds
<1>5. QED
  BY <1>1, <1>4 DEF Holds, crypto_store_get_pubkey, crypto_store_get_privkey,
                    crypto_store_is_initialized

\* Both keys in use are those of the phrase, unless their slot was cut.
THEOREM KeysAreRight == Spec => []KeysMatchUnlessCut
  BY ServingKeys, Invariance, PTL

\* A free slot holds no rsa_priv.
THEOREM FreeSlotsHaveNoKey == Spec => []NoKeyInFreeSlot
<1>1. IInv => NoKeyInFreeSlot
  BY DEF IInv
<1>2. QED
  BY <1>1, Invariance, PTL

-----------------------------------------------------------------------------
(* KeepsOwnKeys needs the OS services to work: a derivation that fails is  *)
(* read as "another phrase" and may evict the keys of this one.            *)

\* Both slots are erased only when neither is of the current phrase.
EvictsOthers == pc \in WipeSteps => \A s \in Slots : ~Holds(s, deviceSeed)

OwnStep ==
    \A s \in Slots :
        /\ Holds(s, deviceSeed) /\ pc \notin {"store_pub", "store_priv"}
        => UNCHANGED N_crypto_store[s]

\* crypto_store_init compares both slots before it erases either.
LEMMA NextEvictsOthers ==
    ASSUME MayFail = FALSE, IInv, EvictsOthers, [Next]_vars
    PROVE  EvictsOthers'
<1> USE ZeroIsNoSeed
    DEF IInv, StoreTypeOK, crypto_store_t, Material, Slots, KEY_SLOT_1, KEY_SLOT_2,
        Steps, SetupSteps, WipeSteps, Holds, EvictsOthers
<1>1. CASE Boot
  BY <1>1 DEF Boot
<1>2. CASE crypto_store_init
  <2>1. PICK ok \in [Slots -> Outcomes] :
              \/ InitEvict(ok)
              \/ \E s \in Slots : InitReuse(s, ok) \/ InitFree(s, ok)
    BY <1>2 DEF crypto_store_init
  <2>2. CASE InitEvict(ok)
    <3>1. \A s \in Slots : ok[s]
      BY <2>1 DEF Outcomes
    <3>2. \A s \in Slots : ~Holds(s, deviceSeed)
      BY <2>2, <3>1 DEF InitEvict, NoneFits, same_masterseed
    <3>3. QED
      BY <2>2, <3>2 DEF InitEvict, flash
  <2>3. ASSUME NEW s \in Slots, InitReuse(s, ok) PROVE EvictsOthers'
    BY <2>3 DEF InitReuse, Accepting
  <2>4. ASSUME NEW s \in Slots, InitFree(s, ok) PROVE EvictsOthers'
    BY <2>4 DEF InitFree
  <2>5. QED
    BY <2>1, <2>2, <2>3, <2>4
<1>3. CASE crypto_uninitialized_slot
  BY <1>3 DEF crypto_uninitialized_slot, WipePrimes, WipePrivateKey, WipeSeed,
              WipeInitialized
<1>4. CASE crypto_initialize_slot
  BY <1>4 DEF crypto_initialize_slot, crypto_deriveMasterSeed,
              crypto_init_primes, GeneratePair, SetInitialized, StorePublicKey,
              StorePrivateKey, SetupFails
<1>5. CASE PowerLoss
  BY <1>5 DEF PowerLoss
<1>6. CASE SwitchSeed
  BY <1>6 DEF SwitchSeed
<1>7. CASE UNCHANGED vars
  BY <1>7 DEF vars
<1>8. QED
  BY <1>1, <1>2, <1>3, <1>4, <1>5, <1>6, <1>7 DEF Next

\* The steps that write to a slot write to one the phrase does not hold.
LEMMA NextKeepsOwnKeys ==
    ASSUME IInv, EvictsOthers, [Next]_vars
    PROVE  OwnStep
<1> USE DEF IInv, StoreTypeOK, crypto_store_t, Slots, KEY_SLOT_1, KEY_SLOT_2,
            Holds, OwnStep
<1>1. CASE Boot
  BY <1>1 DEF Boot, flash
<1>2. CASE crypto_store_init
  BY <1>2 DEF crypto_store_init, InitEvict, InitReuse, InitFree, flash
<1>3. CASE crypto_uninitialized_slot
  BY <1>3 DEF crypto_uninitialized_slot, WipePrimes, WipePrivateKey, WipeSeed,
              WipeInitialized, EvictsOthers, WipeSteps
<1>4. CASE crypto_initialize_slot
  BY <1>4 DEF crypto_initialize_slot, crypto_deriveMasterSeed,
              crypto_init_primes, GeneratePair, SetInitialized, StorePublicKey,
              StorePrivateKey, SetupFails, flash, Progress
<1>5. CASE PowerLoss
  BY <1>5 DEF PowerLoss
<1>6. CASE SwitchSeed
  BY <1>6 DEF SwitchSeed, flash
<1>7. CASE UNCHANGED vars
  BY <1>7 DEF vars
<1>8. QED
  BY <1>1, <1>2, <1>3, <1>4, <1>5, <1>6, <1>7 DEF Next

\* With working OS services no step of the app touches the keys of the phrase
\* the device is set up with.
THEOREM OwnKeysAreKept == ASSUME MayFail = FALSE PROVE Spec => KeepsOwnKeys
<1>1. Init => EvictsOthers
  BY DEF Init, EvictsOthers, WipeSteps
<1>2. IInv /\ EvictsOthers /\ [Next]_vars => EvictsOthers'
  BY NextEvictsOthers
<1>3. Spec => []EvictsOthers
  BY <1>1, <1>2, Invariance, PTL DEF Spec
<1>4. IInv /\ EvictsOthers /\ [Next]_vars => [OwnStep]_vars
  BY NextKeepsOwnKeys
<1>5. Spec => [][OwnStep]_vars
  BY <1>3, <1>4, Invariance, PTL DEF Spec
<1>6. QED
  BY <1>5, PTL DEF KeepsOwnKeys, OwnStep

-----------------------------------------------------------------------------
(* The end of set-up: the initialize screen shows only when boot has found *)
(* no slot, and then crypto_store_init finds none either.                  *)

\* The screen that asks for set-up waits on a store without a slot to open.
NothingToOpen ==
    pc = "loop" /\ ~device_initialized =>
        \A ok \in [Slots -> Outcomes], s \in Slots : ~Opens(s, ok)

\* The OS services have one outcome, and two looks at the store are the same.
LEMMA OneOutcome ==
    ASSUME MayFail = FALSE, NEW ok \in [Slots -> Outcomes],
           NEW oks \in [Slots -> Outcomes]
    PROVE  ok = oks
<1>1. \A s \in Slots : ok[s] = TRUE /\ oks[s] = TRUE
  BY DEF Outcomes
<1>2. ok = [s \in Slots |-> TRUE] /\ oks = [s \in Slots |-> TRUE]
  BY <1>1, Zenon
<1>3. QED
  BY <1>2

\* Only boot and the last write of a set-up lead back to the main loop.
LEMMA NextNothingToOpen ==
    ASSUME MayFail = FALSE, IInv, NothingToOpen, [Next]_vars
    PROVE  NothingToOpen'
<1>1. CASE Boot
  <2>1. PICK ok \in [Slots -> Outcomes] :
              BootNotFound(ok) \/ \E s \in Slots : BootFound(s, ok)
    BY <1>1 DEF Boot
  <2>2. CASE BootNotFound(ok)
    <3>1. \A oks \in [Slots -> Outcomes], s \in Slots : ~Opens(s, oks)
      BY <2>2, OneOutcome DEF BootNotFound
    <3>2. UNCHANGED <<N_crypto_store, deviceSeed>>
      BY <1>1 DEF Boot, flash
    <3>3. QED
      BY <3>1, <3>2 DEF NothingToOpen, Opens, Passed, same_masterseed,
                        crypto_store_slot_is_initialized, Slots, KEY_SLOT_1,
                        KEY_SLOT_2, Outcomes
  <2>3. CASE \E s \in Slots : BootFound(s, ok)
    BY <2>3 DEF BootFound, NothingToOpen
  <2>4. QED
    BY <2>1, <2>2, <2>3
<1>2. CASE crypto_store_init
  BY <1>2 DEF crypto_store_init, InitEvict, InitReuse, InitFree, Accepting, IInv,
              Serving, NothingToOpen
<1>3. CASE crypto_uninitialized_slot
  BY <1>3 DEF crypto_uninitialized_slot, WipePrimes, WipePrivateKey, WipeSeed,
              WipeInitialized, NothingToOpen
<1>4. CASE crypto_initialize_slot
  BY <1>4 DEF crypto_initialize_slot, crypto_deriveMasterSeed,
              crypto_init_primes, GeneratePair, SetInitialized, StorePublicKey,
              StorePrivateKey, SetupFails, NothingToOpen
<1>5. CASE PowerLoss \/ SwitchSeed
  BY <1>5 DEF PowerLoss, SwitchSeed, NothingToOpen
<1>6. CASE UNCHANGED vars
  BY <1>6 DEF vars, NothingToOpen, Opens, Passed, same_masterseed,
              crypto_store_slot_is_initialized, Slots, KEY_SLOT_1, KEY_SLOT_2,
              Outcomes
<1>7. QED
  BY <1>1, <1>2, <1>3, <1>4, <1>5, <1>6 DEF Next

Advances == PowerLoss \/ SwitchSeed \/ Distance' < Distance

\* Each step of the app, with its place in the way to the end.
LEMMA NextAdvances ==
    ASSUME MayFail = FALSE, IInv, NothingToOpen, Next
    PROVE  Advances
<1> USE DEF Advances, Distance, SetupSteps, WipeSteps
<1>1. /\ device_initialized => pc = "loop" /\ screen = "ready"
      /\ wiping \in {0, 1} /\ device_initialized \in BOOLEAN
  BY DEF IInv, Serving, StoreTypeOK, Slots, KEY_SLOT_1, KEY_SLOT_2
<1>2. CASE Boot
  <2>1. pc = "off" /\ pc' = "loop"
    BY <1>2 DEF Boot
  <2>2. QED
    BY <1>1, <2>1
<1>3. CASE crypto_store_init
  <2>1. PICK ok \in [Slots -> Outcomes] :
              \/ InitEvict(ok)
              \/ \E s \in Slots : InitReuse(s, ok) \/ InitFree(s, ok)
    BY <1>3 DEF crypto_store_init
  <2>2. pc = "loop" /\ ~device_initialized
    BY <1>1, <2>1 DEF InitEvict, InitReuse, InitFree, Accepting
  <2>3. \A s \in Slots : ~InitReuse(s, ok)
    BY <2>2 DEF NothingToOpen, InitReuse
  <2>4. CASE InitEvict(ok)
    BY <2>2, <2>4 DEF InitEvict, KEY_SLOT_1
  <2>5. CASE \E s \in Slots : InitFree(s, ok)
    BY <2>2, <2>5 DEF InitFree
  <2>6. QED
    BY <2>1, <2>3, <2>4, <2>5
<1>4. CASE WipePrimes
  BY <1>1, <1>4 DEF WipePrimes
<1>5. CASE WipePrivateKey
  BY <1>1, <1>5 DEF WipePrivateKey
<1>6. CASE WipeSeed
  BY <1>1, <1>6 DEF WipeSeed
<1>7. CASE WipeInitialized
  BY <1>1, <1>7 DEF WipeInitialized, KEY_SLOT_1, KEY_SLOT_2
<1>8. CASE crypto_deriveMasterSeed
  BY <1>1, <1>8 DEF crypto_deriveMasterSeed
<1>9. CASE crypto_init_primes
  BY <1>1, <1>9 DEF crypto_init_primes
<1>10. CASE GeneratePair
  BY <1>1, <1>10 DEF GeneratePair
<1>11. CASE SetInitialized
  BY <1>1, <1>11 DEF SetInitialized
<1>12. CASE StorePublicKey
  BY <1>1, <1>12 DEF StorePublicKey
<1>13. CASE StorePrivateKey
  BY <1>1, <1>13 DEF StorePrivateKey
<1>14. CASE SetupFails
  BY <1>14 DEF SetupFails
<1>15. CASE PowerLoss \/ SwitchSeed
  BY <1>15
<1>16. QED
  BY <1>2, <1>3, <1>4, <1>5, <1>6, <1>7, <1>8, <1>9, <1>10, <1>11, <1>12,
     <1>13, <1>14, <1>15
  DEF Next, crypto_uninitialized_slot, crypto_initialize_slot

\* With working OS services set-up ends after at most sixteen steps of the app
\* without a power loss or a change of phrase, from whatever flash it starts with:
\* the safety half of Recovers.
THEOREM SetupEnds == ASSUME MayFail = FALSE PROVE Spec => SetupAdvances
<1>1. Init => NothingToOpen
  BY DEF Init, NothingToOpen
<1>2. IInv /\ NothingToOpen /\ [Next]_vars => NothingToOpen'
  BY NextNothingToOpen
<1>3. Spec => []NothingToOpen
  BY <1>1, <1>2, Invariance, PTL DEF Spec
<1>4. IInv /\ NothingToOpen /\ [Next]_vars => [Advances]_vars
  BY NextAdvances
<1>5. Spec => [][Advances]_vars
  BY <1>3, <1>4, Invariance, PTL DEF Spec
<1>6. QED
  BY <1>5, PTL DEF SetupAdvances, Advances
=============================================================================
