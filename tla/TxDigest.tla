------------------------------- MODULE TxDigest -------------------------------
(***************************************************************************)
(* The digest that is signed: parser_getDigest of parser.c, taken of       *)
(* parser_tx_obj after a transaction was accepted (TxParser).              *)
(*                                                                         *)
(* The code accumulates the hashes of a nested list by hand.  DeepHash     *)
(* compares the result with Arweave's deep hash of that list.              *)
(*                                                                         *)
(* Abstraction: crypto_sha384 has no collisions, so a hash is represented  *)
(* by what it is taken of: a tag, data, or a pair of hashes, each a record *)
(* with fields of its own.                                                 *)
(***************************************************************************)
EXTENDS TxParser

\* The tag's text, "blob" or "list" followed by a number in decimal.
hashTag(tagName, tagNumber) == [tag |-> tagName, number |-> tagNumber]

hashBlob(data) ==
    [tagHash |-> hashTag("blob", Len(data)), dataHash |-> [sha384 |-> data]]

hashAccumulate(acc, hash) == [acc |-> acc, hash |-> hash]

hashChunkWithAccumulator(acc, data) == hashAccumulate(acc, hashBlob(data))

\* A mutated form: the tag's key is not hashed.
parser_getTagDigest_mut(i) ==
    hashChunkWithAccumulator(hashTag("list", 2), Bytes(Value(i)))

parser_getTagDigest(i) ==
    hashChunkWithAccumulator(
        hashChunkWithAccumulator(hashTag("list", 2), Bytes(Key(i))),
        Bytes(Value(i)))

\* A mutated form: the loop starts at the second tag.
TagsDigest_mut ==
    LET acc[i \in 0..tags_count] ==
            IF i <= 1 THEN hashTag("list", tags_count)
            ELSE hashAccumulate(acc[i - 1], parser_getTagDigest(i))
    IN  acc[tags_count]

TagsDigest ==
    LET acc[i \in 0..tags_count] ==
            IF i = 0 THEN hashTag("list", tags_count)
            ELSE hashAccumulate(acc[i - 1], parser_getTagDigest(i))
    IN  acc[tags_count]

parser_applyDigestTags(dh) == hashAccumulate(dh, TagsDigest)

\* The accumulator after the elements es.
Chunks(dh, es) ==
    LET acc[i \in 0..Len(es)] ==
            IF i = 0 THEN dh
            ELSE hashChunkWithAccumulator(acc[i - 1], Bytes(es[i]))
    IN  acc[Len(es)]

\* The fields in the order of parser_tx_t, with the tags between them.
parser_getDigest ==
    Chunks(parser_applyDigestTags(Chunks(hashTag("list", 9), Header)), Trailer)

VARIABLE signed   \* the digests signed since the restart, and what was shown

dvars == <<vars, signed>>

\* The user accepts; a failing hash or RSA operation signs nothing.
crypto_sign ==
    /\ status = "ok"
    /\ signed' = signed \cup {[digest |-> parser_getDigest, tx |-> Parsed]}
    /\ UNCHANGED vars

DigestInit == Init /\ signed = {}

DigestNext == \/ (\E data \in Buffers : parser_parse(data)) /\ UNCHANGED signed
              \/ (_read \/ parser_validate) /\ UNCHANGED signed
              \/ crypto_sign
              \/ Restart /\ signed' = {}

DigestSpec == DigestInit /\ [][DigestNext]_dvars

-----------------------------------------------------------------------------
(* The property.                                                           *)

\* A digest stands for one transaction: transactions that differ in a field, in
\* a tag, or in where one tag ends and the next begins have different digests,
\* so no signature is of a transaction other than the one that was shown.
DigestBindsTransaction ==
    \A s, t \in signed : s.digest = t.digest => s.tx = t.tx
=============================================================================
