----------------------------- MODULE QueryClient -----------------------------
(***************************************************************************)
(* The calls of the JavaScript library that ask the device for something   *)
(* and leave it as it is: getVersion, getAddress, showAddress and digest   *)
(* (js/src/index.js), with the whole device behind a transport that may    *)
(* lose a request or an answer.  sign() is in LedgerClient.                *)
(*                                                                         *)
(* A call is the list of the commands it sends; each is awaited before the *)
(* next.  Between two of them the device may lock, restart, be given       *)
(* another recovery phrase, and compute new keys.                          *)
(***************************************************************************)
EXTENDS Device

CONSTANT Calls   \* the calls the application makes

ASSUME CallsAssumption ==
    Calls \subseteq {"showAddress", "getAddress", "getVersion", "digest"}

VARIABLES
    call,       \* the running call, or "none"
    got,        \* the answers it has
    link,       \* its request: none, on its way, or taken by the device
    approved,   \* ghost: the address the user approved during the call
    phrases,    \* ghost: the phrases the device had during the call
    damaged,    \* ghost: it worked on a damaged slot during the call
    result      \* what the last call returned

qvars == <<call, got, link, approved, phrases, damaged, result>>
allvars == <<vars, qvars>>

Cmd(ins, p1, p2) == [ins |-> ins, p1 |-> p1, p2 |-> p2, data |-> <<>>]

ONLY_RETRIEVE == 0
SHOW_ADDRESS_IN_DEVICE == 1

\* A mutated form: the address is only retrieved.
showAddress_mut == <<Cmd("GET_ADDR", ONLY_RETRIEVE, 0)>>

showAddress == <<Cmd("GET_ADDR", SHOW_ADDRESS_IN_DEVICE, 0)>>

getAddress == <<Cmd("GET_ADDR", ONLY_RETRIEVE, 0),
                Cmd("GET_PK", ONLY_RETRIEVE, 0),
                Cmd("GET_PK", ONLY_RETRIEVE, 1)>>

getVersion == <<Cmd("GET_VERSION", 0, 0)>>

\* digest() of a transaction; with a Buffer it fails before it sends anything.
\* INS has no GET_DIGEST: the transport makes a zero byte of the undefined
\* instruction, and zero is GET_VERSION.  It ignores the chunks' bytes.
digest == <<Cmd("GET_VERSION", P1_INIT, 0),
            Cmd("GET_VERSION", P1_ADD, 0),
            Cmd("GET_VERSION", P1_LAST, 0)>>

Commands(c) ==
    CASE c = "showAddress" -> showAddress [] c = "getAddress" -> getAddress
      [] c = "getVersion"  -> getVersion  [] c = "digest"     -> digest

\* The client is the host of the device, or one of its hosts.
ASSUME CommandsAssumption ==
    \A c \in Calls : \A i \in DOMAIN Commands(c) : Commands(c)[i] \in HostRequests

NoResult == [call |-> "none", ok |-> FALSE, got |-> <<>>, approved |-> Zero,
             phrases |-> {}, damaged |-> FALSE]

\* The slot the commands use was cut by a power loss.
OnCutSlot == device_initialized /\ slot_in_use \in cut

NoAnswer == [part |-> "none", key |-> Zero]

QueryInit ==
    /\ DeviceInit
    /\ call = "none" /\ got = <<>> /\ link = "none"
    /\ approved = Zero /\ phrases = {} /\ damaged = FALSE
    /\ result = NoResult

-----------------------------------------------------------------------------
(* The call.                                                               *)

Start(c) ==
    /\ call = "none"
    /\ call' = c
    /\ link' = "sent"
    /\ approved' = Zero
    /\ phrases' = {deviceSeed}
    /\ damaged' = OnCutSlot
    /\ result' = NoResult
    /\ UNCHANGED <<vars, got>>

Deliver ==
    /\ link = "sent"
    /\ Command(Commands(call)[Len(got) + 1])
    /\ link' = "taken"
    /\ UNCHANGED <<call, got, approved, phrases, damaged, result>>

\* The call returns with the answers as.
Returns(ok, as) ==
    /\ result' = [call |-> call, ok |-> ok, got |-> as, approved |-> approved,
                  phrases |-> phrases, damaged |-> damaged]
    /\ call' = "none" /\ got' = <<>> /\ link' = "none"
    /\ approved' = Zero /\ phrases' = {} /\ damaged' = FALSE

\* A mutated form: only the last return code is looked at.
GoesOn_mut(code) == code = "OK" \/ Len(got) + 1 < Len(Commands(call))

\* digest() does not look at the answer to its first chunk.
GoesOn(code) == code = "OK" \/ (call = "digest" /\ got = <<>>)

\* A mutated form: one answer too many is waited for.
IsLast_mut == Len(got) = Len(Commands(call))

\* The answer that comes is the last.
IsLast == Len(got) + 1 = Len(Commands(call))

HandleAnswer(code, a) ==
    /\ \/ ~GoesOn(code) /\ Returns(FALSE, <<>>)
       \/ GoesOn(code) /\ IsLast /\ Returns(TRUE, Append(got, a))
       \/ /\ GoesOn(code) /\ ~IsLast
          /\ got' = Append(got, a)
          /\ link' = "sent"
          /\ UNCHANGED <<call, approved, phrases, damaged, result>>
    /\ UNCHANGED vars

Respond ==
    /\ link = "taken" /\ ~awaiting /\ reply.sw # "pending"
    /\ HandleAnswer(reply.sw, [part |-> reply.part, key |-> G_io_apdu_buffer])

\* The request or its answer is lost: the transport throws.
TransportFails == link \in {"sent", "taken"} /\ HandleAnswer("ffff", NoAnswer)

\* The device restarted under a request it had taken.
Disconnected == link = "taken" /\ ~awaiting /\ reply.sw = "pending"

\* The device moves on its own, or its user does something.
DeviceStep ==
    /\ Decision \/ SetUp \/ PowerOn \/ PowerOff \/ Lock
    /\ approved' = IF call # "none" /\ review = "address" /\ reply'.sw = "OK"
                   THEN addr_getItem ELSE approved
    /\ phrases' = IF call # "none" THEN phrases \cup {deviceSeed'} ELSE {}
    /\ damaged' = (call # "none" /\ (damaged \/ OnCutSlot'))
    /\ UNCHANGED <<call, got, link, result>>

QueryNext ==
    \/ \E c \in Calls : Start(c)
    \/ Deliver \/ Respond \/ TransportFails \/ DeviceStep

QuerySpec == QueryInit /\ [][QueryNext]_allvars

\* The device is switched on, set-up runs to its end, the user accepts and
\* decides, a request arrives, its answer too, and a restart is noticed.
QueryFairness ==
    /\ WF_allvars(DeviceStep /\ K!Boot)
    /\ WF_allvars(DeviceStep /\ SetUp)
    /\ WF_allvars(DeviceStep /\ Decision)
    /\ WF_allvars(Deliver)
    /\ WF_allvars(Respond)
    /\ WF_allvars(Disconnected /\ TransportFails)

FairQuerySpec == QuerySpec /\ QueryFairness

-----------------------------------------------------------------------------
(* Properties.                                                             *)

QueryTypeOK ==
    /\ call \in Calls \cup {"none"}
    /\ got \in Seq([part : Parts, key : K!Material])
    /\ call # "none" => Len(got) < Len(Commands(call))
    /\ link \in (IF call = "none" THEN {"none"} ELSE {"sent", "taken"})
    /\ approved \in K!Material
    /\ phrases \subseteq Seeds
    /\ damaged \in BOOLEAN

\* getAddress() puts an address and two halves of the owner together from three
\* commands.  They are in their places and each is of a phrase the device had
\* during this very call, through locks, restarts, new keys and answers that get
\* lost: nothing of an earlier phrase or call gets in, and only a phrase changed in
\* the middle of the call can make two keys of one result.  A slot a power loss cut
\* gives other keys (KeysMatchUnlessCut).
KeysOfThisCall ==
    result.ok /\ result.call = "getAddress" /\ ~result.damaged =>
        \E k, k0, k1 \in result.phrases :
            result.got = <<[part |-> "address", key |-> k],
                           [part |-> "pk0", key |-> k0],
                           [part |-> "pk1", key |-> k1]>>

\* The address a successful showAddress() returns is the one the user approved on
\* the screen during this very call, not one left over from an earlier review or
\* rebuilt after a restart.
ReturnsApprovedAddress ==
    result.ok /\ result.call = "showAddress" =>
        result.got = <<[part |-> "address", key |-> result.approved]>>

\* Once power losses are over every call returns, also one whose request comes
\* while the keys are still being computed, or that waits for the user.
QueryReturns ==
    (<>[][~PowerOff]_allvars) => ((call # "none") ~> (call = "none"))

\* js/src/index.d.ts: digest(message: Buffer): Promise<ResponseDigest>, whose
\* digest is that of the message.
DigestReturnsDigest ==
    result.ok /\ result.call = "digest" =>
        \A i \in {Len(result.got)} : result.got[i].part = "deephash"
=============================================================================
