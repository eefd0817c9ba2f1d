---------------------------- MODULE MCQueryClient ----------------------------
(* A small instance of QueryClient.  The calls upload nothing, so the device *)
(* has nothing to review but its address: one transaction, no upload.        *)
EXTENDS QueryClient

CONSTANT b

MCByte == {b}
MCValid == {<<b>>}
MCPayloads == {<<>>}

\* What the calls send.
MCRequests ==
    {Cmd("GET_VERSION", p1, 0) : p1 \in {P1_INIT, P1_ADD, P1_LAST}}
    \cup {Cmd("GET_ADDR", p1, 0) : p1 \in {ONLY_RETRIEVE, SHOW_ADDRESS_IN_DEVICE}}
    \cup {Cmd("GET_PK", ONLY_RETRIEVE, p2) : p2 \in {0, 1}}

SeedSymmetry == Permutations(Seeds)
=============================================================================
