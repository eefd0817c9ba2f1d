------------------------------- MODULE DeepHash -------------------------------
(***************************************************************************)
(* The reference for TxDigest: Arweave's deep hash, which the network      *)
(* recomputes to verify a signature.  It is a recursion over a tree, and a *)
(* tree is a blob of data or a list of trees.                              *)
(***************************************************************************)
EXTENDS TxDigest

Blob(data)  == [blob |-> data]
List(trees) == [list |-> trees]

\* A tag is a list in the list of tags, which is in the list of a transaction.
DEPTH == 3

\* The trees of at most so many levels of lists.
Trees[d \in 0..DEPTH] ==
    IF d = 0 THEN [blob : Seq(Byte)]
             ELSE [blob : Seq(Byte)] \cup [list : Seq(Trees[d - 1])]

blobHash(data) ==
    [tagHash |-> [tag |-> "blob", number |-> Len(data)], dataHash |-> [sha384 |-> data]]

\* The hash of a list, from those of its elements.
listHash(hashes) ==
    LET acc[i \in 0..Len(hashes)] ==
            IF i = 0 THEN [tag |-> "list", number |-> Len(hashes)]
                     ELSE [acc |-> acc[i - 1], hash |-> hashes[i]]
    IN  acc[Len(hashes)]

\* The recursion of the network's definition, by the depth of the tree.
hashOf[d \in 0..DEPTH] ==
    [tree \in Trees[d] |->
        IF "blob" \in DOMAIN tree
        THEN blobHash(tree.blob)
        ELSE listHash([i \in 1..Len(tree.list) |-> hashOf[d - 1][tree.list[i]]])]

deepHash(tree) == hashOf[DEPTH][tree]

\* What a signature of a transaction of format 2 is over.
SignatureData(tx) ==
    List(<<Blob(tx.format), Blob(tx.owner), Blob(tx.target), Blob(tx.quantity),
           Blob(tx.reward), Blob(tx.last_tx),
           List([i \in 1..Len(tx.tags) |->
                    List(<<Blob(tx.tags[i].key), Blob(tx.tags[i].value)>>)]),
           Blob(tx.data_size), Blob(tx.data_root)>>)

-----------------------------------------------------------------------------
(* The property.                                                           *)

\* The digest that crypto_sign signs is the deep hash the network verifies:
\* what an accepted buffer encodes, hashed by parser_getDigest's accumulators
\* with their written-out list lengths and order, gives the recursive hash of
\* the client's transaction.
DigestIsDeepHash ==
    status = "ok" =>
        \A tx \in Transactions :
            Len(encodeTx(tx)) <= Len(buffer)
                /\ SubSeq(buffer, 1, Len(encodeTx(tx))) = encodeTx(tx)
            => parser_getDigest = deepHash(SignatureData(tx))
=============================================================================
