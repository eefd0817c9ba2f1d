------------------------------ MODULE MCDevice ------------------------------
(* A small instance of Device: two recovery phrases, an eviction being       *)
(* possible when derivations fail, and one transaction of one byte.          *)
(* ApduHandler is checked with every command and more transactions; here     *)
(* each command that is served is enough.                                    *)
EXTENDS Device

CONSTANT b

MCByte == {b}
MCValid == {<<b>>}
MCPayloads == {<<>>, <<b>>}

Cmd(ins, p1, p2, data) == [ins |-> ins, p1 |-> p1, p2 |-> p2, data |-> data]

MCRequests ==
    {Cmd("GET_VERSION", 0, 0, <<>>), Cmd("SIGN", P1_INIT, 0, <<>>),
     Cmd("SIGN", P1_LAST, 0, <<b>>)}
    \cup {Cmd("GET_ADDR", p1, 0, <<>>) : p1 \in {0, 1}}
    \cup {Cmd(ins, 0, p2, <<>>) : ins \in {"GET_SIG", "GET_PK"}, p2 \in {0, 1}}

SeedSymmetry == Permutations(Seeds)
=============================================================================
