---------------------------- MODULE SigningService ----------------------------
(***************************************************************************)
(* What the app promises to the user of the device and to its host: a      *)
(* signature exists only for a transaction the user was asked about and    *)
(* granted, the host collects it in two parts, and the second part can be  *)
(* had once.                                                               *)
(***************************************************************************)
EXTENDS Naturals

CONSTANTS
    Valid,   \* the transactions that can be signed
    NoTx     \* none of them

VARIABLES
    asked,   \* the transaction the user is being asked about
    held,    \* the transaction whose signature can be collected
    given    \* the part of a signature last handed out

svars == <<asked, held, given>>

NothingGiven == [of |-> NoTx, part |-> "none"]

Init ==
    /\ asked = NoTx
    /\ held = NoTx
    /\ given = NothingGiven

\* The host submits a transaction, and the user is asked about it.
Ask ==
    /\ asked = NoTx
    /\ asked' \in Valid
    /\ given' = NothingGiven
    /\ UNCHANGED held

\* The user grants the signature: it replaces one not yet collected.
Grant ==
    /\ asked # NoTx
    /\ held' = asked
    /\ asked' = NoTx
    /\ UNCHANGED given

\* The user refuses, or the signature cannot be made.
Deny ==
    /\ asked # NoTx
    /\ asked' = NoTx
    /\ UNCHANGED <<held, given>>

CollectFirst ==
    /\ asked = NoTx
    /\ held # NoTx
    /\ given' = [of |-> held, part |-> "sig0"]
    /\ UNCHANGED <<asked, held>>

CollectLast ==
    /\ asked = NoTx
    /\ held # NoTx
    /\ given' = [of |-> held, part |-> "sig1"]
    /\ held' = NoTx
    /\ UNCHANGED asked

\* Any other answer of the device.
Other ==
    /\ given' = NothingGiven
    /\ UNCHANGED <<asked, held>>

\* A restart forgets the question and the signature.
Restart ==
    /\ asked' = NoTx
    /\ held' = NoTx
    /\ given' = NothingGiven

Next ==
    Ask \/ Grant \/ Deny \/ CollectFirst \/ CollectLast \/ Other \/ Restart

Spec == Init /\ [][Next]_svars
=============================================================================
