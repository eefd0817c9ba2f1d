-------------------------------- MODULE Device --------------------------------
(***************************************************************************)
(* The device: the command handler (ApduHandler) and the key store         *)
(* (KeyStore) in one program, with the operations of crypto.c and          *)
(* crypto_store.c that use the keys to answer commands.                    *)
(*                                                                         *)
(* Commands are handled by the main loop, key set-up runs in a callback of *)
(* a screen: while it runs, no command is handled.  The two share the flag *)
(* device_initialized, the slot in use, and the keys behind it.            *)
(*                                                                         *)
(* The address is built in the I/O buffer and stays there, to be shown     *)
(* page by page and then sent, while the user looks at it.                 *)
(***************************************************************************)
EXTENDS ApduHandler

CONSTANTS
    Seeds, Zero, MayFail,   \* of KeyStore
    HostRequests            \* the commands the host sends

ASSUME HostRequestsAssumption == HostRequests \subseteq Requests
\* KeyStore's own.
ASSUME SeedsAssumption == Zero \notin Seeds
ASSUME MayFailAssumption == MayFail \in BOOLEAN

VARIABLES N_crypto_store, deviceSeed, slot_in_use, screen, pc, wiping, pair, cut

K == INSTANCE KeyStore

VARIABLES
    G_io_apdu_buffer,  \* the public key the reply in the buffer is made of
    signer             \* ghost: slot and private key of the last signature

kvars == <<N_crypto_store, deviceSeed, slot_in_use, screen, pc, wiping, pair, cut>>
vars  == <<dvars, kvars, G_io_apdu_buffer, signer>>

NotSigned == [slot |-> 0, key |-> Zero]

DeviceInit ==
    /\ Init
    /\ K!Init
    /\ G_io_apdu_buffer = Zero
    /\ signer = NotSigned

-----------------------------------------------------------------------------
(* The keys behind the commands.                                           *)

\* A mutated form: the first slot's key, whatever the slot in use.
crypto_fillAddress_mut == N_crypto_store[0].rsa_pub

\* crypto_fillAddress and crypto_pubkey_part: the key the address, or a half
\* of the owner, is made of.
crypto_fillAddress == K!crypto_store_get_pubkey
crypto_pubkey_part == K!crypto_store_get_pubkey

\* A slot that is not initialised has neither.
crypto_getpubkey_part == K!crypto_store_is_initialized

\* The key behind what the handler puts into the I/O buffer.
Filled(part) ==
    CASE part = "address"        -> crypto_fillAddress
      [] part \in {"pk0", "pk1"} -> crypto_pubkey_part
      [] OTHER                   -> Zero

\* The review of an address shows what is in the I/O buffer at that moment.
addr_getItem == G_io_apdu_buffer

\* The main loop hands a command to handleApdu; with a review the address is
\* filled in before it is shown.
Command(req) ==
    /\ pc = "loop"
    /\ handleApdu(req)
    /\ LET part == IF review' = "address" THEN "address" ELSE reply'.part IN
          /\ part \in {"address", "pk0", "pk1"} => crypto_getpubkey_part
          /\ G_io_apdu_buffer' = Filled(part)
    /\ UNCHANGED <<kvars, signer>>

\* The review calls crypto_sign: it needs an initialised slot, and the digest
\* takes the place of whatever is in the buffer.
Sign ==
    /\ app_sign
    /\ K!crypto_store_is_initialized
    /\ signer' = [slot |-> slot_in_use, key |-> K!crypto_store_get_privkey]
    /\ G_io_apdu_buffer' = Zero

\* The address is sent as it is in the buffer.
ReplyAddress == app_reply_address /\ UNCHANGED <<G_io_apdu_buffer, signer>>

\* The buffer is cleared, or holds a status word only.
Declined ==
    /\ app_sign_fails \/ app_reject \/ app_reply_error
    /\ G_io_apdu_buffer' = Zero
    /\ UNCHANGED signer

Decision == (Sign \/ ReplyAddress \/ Declined) /\ UNCHANGED kvars

-----------------------------------------------------------------------------
(* Key set-up, power and lock.                                             *)

SetUp ==
    /\ K!crypto_store_init \/ K!crypto_uninitialized_slot
       \/ K!crypto_initialize_slot
    /\ UNCHANGED <<pin_validated, upload, screens, sigs, reply,
                   G_io_apdu_buffer, signer>>

PowerOn ==
    /\ K!Boot \/ K!SwitchSeed
    /\ UNCHANGED <<pin_validated, upload, screens, sigs, reply,
                   G_io_apdu_buffer, signer>>

\* A mutated form: the flag of the stored signature outlives the restart.
PowerOff_mut ==
    /\ K!PowerLoss
    /\ pin_validated' = FALSE /\ tx_initialized' = FALSE
    /\ buffer' = [data |-> <<>>, size |-> 0] /\ parsed_len' = 0
    /\ overflowed' = FALSE /\ review' = "none" /\ awaiting' = FALSE
    /\ shown' = NoTx /\ Reply("pending", "none", NoTx)
    /\ G_io_apdu_buffer' = Zero /\ signer' = NotSigned
    /\ UNCHANGED sigs

\* RAM is lost in both components.
PowerOff ==
    /\ K!PowerLoss
    /\ Restart
    /\ G_io_apdu_buffer' = Zero
    /\ signer' = NotSigned

\* What happens to the lock during set-up is seen when it is over.
Lock == pc = "loop" /\ TogglePin /\ UNCHANGED <<kvars, G_io_apdu_buffer, signer>>

DeviceNext ==
    \/ \E req \in HostRequests : Command(req)
    \/ Decision \/ SetUp \/ PowerOn \/ PowerOff \/ Lock

DeviceSpec == DeviceInit /\ [][DeviceNext]_vars

-----------------------------------------------------------------------------
(* Properties.                                                             *)

DeviceTypeOK ==
    /\ HandlerTypeOK
    /\ K!StoreTypeOK
    /\ G_io_apdu_buffer \in K!Material
    /\ signer \in [slot : K!Slots, key : K!Material]

\* An address on the screen, one sent after the user's approval, and a half of
\* the owner are made of the key of the phrase the device has now, whatever
\* slot, restart or set-up came before, unless a power loss damaged the slot.
OwnKeyGiven ==
    slot_in_use \notin cut =>
        /\ review = "address" => addr_getItem = deviceSeed
        /\ reply.part \in {"address", "pk0", "pk1"} => G_io_apdu_buffer = deviceSeed

\* The signature GET_SIG hands out lies in the slot GET_SIG reads, and was made
\* with the private key that belongs to the public key GET_PK gives now: between
\* SIGN and GET_SIG neither the slot in use nor its keys change.
SignedByPresentKey ==
    signature_set =>
        /\ signer.slot = slot_in_use
        /\ signer.key = K!crypto_store_get_privkey
        /\ slot_in_use \notin cut => signer.key = K!crypto_store_get_pubkey

\* No step takes the keys from under the commands: while commands are served the
\* store, the slot in use and the phrase stay as they are.
KeysStableWhileServing ==
    [][device_initialized /\ device_initialized' =>
           UNCHANGED <<N_crypto_store, slot_in_use, deviceSeed>>]_vars

\* Refinement: with the key store's steps hidden the device is the handler that
\* ApduHandler describes, so what is shown there holds of the device.
ImplementsHandler == Spec
=============================================================================
