------------------------------- MODULE TxParser -------------------------------
(***************************************************************************)
(* Parsing and validating a transaction: parser_impl.c, parser_validate    *)
(* and parser_getItem of parser.c, and, as the reference they are checked  *)
(* against, the encoder of js/src/index.js.                                *)
(*                                                                         *)
(* The parser fills the global parser_tx_obj with pointers into the        *)
(* transaction buffer, element by element.  Nobody clears it between two   *)
(* transactions: after a parse that stops half way it holds a mixture.     *)
(*                                                                         *)
(* Abstractions: a pointer is an offset into the buffer; an item of the    *)
(* review is represented by the elements it is of, and the formatting      *)
(* functions by whether they succeed and which bytes they hand out.        *)
(***************************************************************************)
EXTENDS Naturals, Sequences, FiniteSets

CONSTANTS
    OWNER_LEN,        \* 512
    MAX_NUMBER_TAGS,  \* 16
    UI_BUFFER,        \* the size of the formatting buffers, 200
    KEY_LEN,          \* outKeyLen: the size of the buffer for an item's name
    PAGE_LEN,         \* the characters on a page of an item's value
    FORMAT_2,         \* the character '2'
    RSA_KEY,          \* the public key of the device
    Numerals,         \* the strings zxlib's intstr_to_fpstr_inplace formats
    Buffers,          \* the buffer contents handed to tx_parse
    Transactions,     \* transactions the client encodes
    MAX_PARSES        \* bound: transactions parsed between two restarts

Byte == 0..255
U16Values == 0..65535

ASSUME LimitsAssumption ==
    /\ OWNER_LEN \in U16Values
    /\ MAX_NUMBER_TAGS \in U16Values
    /\ UI_BUFFER \in Nat
    /\ KEY_LEN \in Nat \ {0}
    /\ PAGE_LEN \in Nat \ {0}
    /\ MAX_PARSES \in Nat
    /\ FORMAT_2 \in Byte
ASSUME BuffersAssumption ==
    \A b \in Buffers : b \in Seq(Byte) /\ Len(b) \in U16Values

MAX_PAGES              == 255   \* pageCount is a uint8_t
CONST_NUM_UI_ITEMS     == 4
DATA_SIZE_NUM_UI_ITEMS == 1
DATA_ROOT_NUM_UI_ITEMS == 1

Field(name) == <<name, 0>>
Key(i)      == <<"key", i>>
Value(i)    == <<"value", i>>

\* parser_tx_t: the fields before the tags, those after them, and the tags.
Header  == <<Field("format"), Field("owner"), Field("target"),
             Field("quantity"), Field("reward"), Field("last_tx")>>
Trailer == <<Field("data_size"), Field("data_root")>>

Fields      == {Header[i] : i \in 1..6} \cup {Trailer[i] : i \in 1..2}
TagsUpTo(n) == {Key(i) : i \in 1..n} \cup {Value(i) : i \in 1..n}
Elements    == Fields \cup TagsUpTo(MAX_NUMBER_TAGS)

VARIABLES
    buffer,      \* the transaction buffer
    offset,      \* ctx->offset
    pos,         \* how far _read is: the number of reads done
    ptr,         \* parser_tx_obj: where each element is,
    len,         \* its length,
    tags_count,  \* and the number of tags
    status,      \* "idle", "reading", "parsed" or what tx_parse returned
    expert,      \* app_mode_expert()
    fresh,       \* ghost: the elements read since this parse began
    parses       \* bounded: the transactions parsed since the restart

vars == <<buffer, offset, pos, ptr, len, tags_count, status, expert, fresh, parses>>

Errors == {"no_data", "unexpected_buffer_end", "unexpected_tx_version",
           "value_out_of_range", "unexpected_error", "not_displayable"}

Init ==
    /\ buffer = <<>>
    /\ offset = 0
    /\ pos = 0
    /\ ptr = [e \in Elements |-> 0]
    /\ len = [e \in Elements |-> 0]
    /\ tags_count = 0
    /\ status = "idle"
    /\ expert \in BOOLEAN
    /\ fresh = {}
    /\ parses = 0

-----------------------------------------------------------------------------
(* Reading.                                                                *)

\* CTX_CHECK_AVAIL
Available(n) == offset + n <= Len(buffer)

\* Byte number i of the buffer, counted from 1.  Reads past the transaction,
\* were there any, would find old contents of the flash: 0 here.
ByteAt(i) == IF i <= Len(buffer) THEN buffer[i] ELSE 0

\* A mutated form: the bytes are read in the other order.
U16_mut == ByteAt(offset + 1) + ByteAt(offset + 2) * 256

\* The number parser_readU16 returns.
U16 == ByteAt(offset + 1) * 256 + ByteAt(offset + 2)

\* A mutated form: checked before the length itself is skipped.
Complete_mut(n) == Available(n)

\* An element of n bytes is there, after the two bytes of its length.
Complete(n) == Available(2 + n)

Last == 9 + 2 * tags_count      \* the number of reads of a whole transaction

\* What read number k + 1 is for.
Reads(k) ==
    CASE k < 6                  -> Header[k + 1]
      [] k = 6                  -> Field("tags_count")
      [] k \in 7..(Last - 3)    -> IF k % 2 = 1 THEN Key((k - 5) \div 2)
                                                ELSE Value((k - 6) \div 2)
      [] OTHER                  -> Trailer[k - Last + 3]

\* The context points at the start of the buffer.
parser_init_context(data) == buffer' = data /\ offset' = 0 /\ pos' = 0

\* parser_parse, as far as the call of _read.
parser_parse(data) ==
    /\ status \notin {"reading", "parsed"}
    /\ parses < MAX_PARSES
    /\ parser_init_context(data)
    /\ status' = IF data = <<>> THEN "no_data" ELSE "reading"
    /\ fresh' = {}
    /\ parses' = parses + 1
    /\ UNCHANGED <<ptr, len, tags_count, expert>>

\* parser_readU16 finds fewer than two bytes.
TruncatedLength ==
    /\ status = "reading"
    /\ ~Available(2)
    /\ status' = "unexpected_buffer_end"
    /\ UNCHANGED <<buffer, offset, pos, ptr, len, tags_count, expert, fresh, parses>>

ReadingElement == status = "reading" /\ pos # 6 /\ Available(2)

\* The length is stored before the bytes are known to be there: the element
\* now has a new length and an old pointer.
TruncatedElement ==
    /\ ReadingElement
    /\ ~Complete(U16)
    /\ len' = [len EXCEPT ![Reads(pos)] = U16]
    /\ offset' = offset + 2
    /\ status' = "unexpected_buffer_end"
    /\ UNCHANGED <<buffer, pos, ptr, tags_count, expert, fresh, parses>>

\* The versions _read supports.
Supported(e, n) ==
    /\ e = Field("format") => n = 1 /\ ByteAt(offset + 3) = FORMAT_2
    /\ e = Field("owner") => n = OWNER_LEN

\* parser_readElement, and what _read does with the element.
ReadElement ==
    LET e == Reads(pos) IN
    /\ ReadingElement
    /\ Complete(U16)
    /\ len' = [len EXCEPT ![e] = U16]
    /\ ptr' = [ptr EXCEPT ![e] = offset + 2]
    /\ offset' = offset + 2 + U16
    /\ pos' = pos + 1
    /\ fresh' = fresh \cup {e}
    /\ status' = IF ~Supported(e, U16) THEN "unexpected_tx_version"
                 ELSE IF pos + 1 = Last THEN "parsed" ELSE "reading"
    /\ UNCHANGED <<buffer, tags_count, expert, parses>>

\* A mutated form: the limit is not checked.
WithinLimit_mut(n) == TRUE

WithinLimit(n) == n <= MAX_NUMBER_TAGS

ReadTagsCount ==
    /\ status = "reading"
    /\ pos = 6
    /\ Available(2)
    /\ tags_count' = U16
    /\ offset' = offset + 2
    /\ pos' = pos + 1
    /\ status' = IF WithinLimit(U16) THEN "reading" ELSE "value_out_of_range"
    /\ UNCHANGED <<buffer, ptr, len, expert, fresh, parses>>

_read == TruncatedLength \/ TruncatedElement \/ ReadElement \/ ReadTagsCount

-----------------------------------------------------------------------------
(* The items of the review, and validation.                                *)

Bytes(e) == [i \in 1..len[e] |-> ByteAt(ptr[e] + i)]

RootItems == IF len[Field("data_root")] > 0 THEN DATA_ROOT_NUM_UI_ITEMS ELSE 0

\* A mutated form: the data root is counted even when there is none.
_getNumItems_mut ==
    IF ~expert THEN CONST_NUM_UI_ITEMS
    ELSE CONST_NUM_UI_ITEMS + tags_count + DATA_SIZE_NUM_UI_ITEMS
         + DATA_ROOT_NUM_UI_ITEMS

_getNumItems ==
    IF ~expert THEN CONST_NUM_UI_ITEMS
    ELSE CONST_NUM_UI_ITEMS + tags_count + DATA_SIZE_NUM_UI_ITEMS + RootItems

\* A mutated form: a missing data root still takes its place.
TagOfItem_mut(displayIdx) ==
    displayIdx - (CONST_NUM_UI_ITEMS + DATA_SIZE_NUM_UI_ITEMS
                  + DATA_ROOT_NUM_UI_ITEMS) + 1

\* The tag, counted from 1, that an item after the fields shows.
TagOfItem(displayIdx) ==
    displayIdx - (CONST_NUM_UI_ITEMS + DATA_SIZE_NUM_UI_ITEMS + RootItems) + 1

\* The elements an item is of.
parser_getItem(displayIdx) ==
    CASE displayIdx <= 3                   -> {Header[displayIdx + 3]}
      [] displayIdx = 4                    -> {Field("data_size")}
      [] displayIdx = 5 /\ RootItems # 0   -> {Field("data_root")}
      [] OTHER -> {Key(TagOfItem(displayIdx)), Value(TagOfItem(displayIdx))}

Items == 0..(_getNumItems - 1)

\* b64url_encode: something to encode, and room for the characters.
Encodable(s) == Len(s) > 0 /\ Len(s) + (Len(s) + 2) \div 3 <= UI_BUFFER

\* Whether printing a string succeeds: parser_printTarget, parser_printLastTx
\* and parser_printData, parser_printQuantity, parser_printSize.  Printing a
\* reward or a tag always does.  How much is printed is another question.
Displayable(e, s) ==
    /\ e \in {Field("target"), Field("last_tx"), Field("data_root")} => Encodable(s)
    /\ e = Field("quantity")  => Len(s) <= UI_BUFFER /\ s \in Numerals
    /\ e = Field("data_size") => Len(s) <= UI_BUFFER

\* The array of tags has no such tag.
BeyondTags(displayIdx) ==
    /\ displayIdx > 4 /\ ~(displayIdx = 5 /\ RootItems # 0)
    /\ TagOfItem(displayIdx) > MAX_NUMBER_TAGS

\* What parser_getItem answers: its text, or an error.
ItemAnswer(displayIdx) ==
    CASE displayIdx \notin Items -> "no_data"
      [] displayIdx \in Items /\ BeyondTags(displayIdx) -> "unexpected_value"
      [] OTHER -> IF \A e \in parser_getItem(displayIdx) : Displayable(e, Bytes(e))
                  THEN "ok" ELSE "not_displayable"

\* What the review gets.  The index after the last passes the first check.
tx_getItem(displayIdx) ==
    IF displayIdx > _getNumItems THEN "no_data" ELSE ItemAnswer(displayIdx)

\* The bytes of s, by number, that are left when it is taken for a C string.
CString(s) == {i \in 1..Len(s) : \A j \in 1..i : s[j] # 0}

\* pageStringExt of zxlib: the bytes of s that are on a page.  A page is a C
\* string, and their number is what eight bits leave of it.
Paged(s) ==
    LET pageCount == ((Len(s) + PAGE_LEN - 1) \div PAGE_LEN) % (MAX_PAGES + 1) IN
    {i \in 1..Len(s) :
        /\ i <= pageCount * PAGE_LEN
        /\ \A j \in 1..i :
               (j - 1) \div PAGE_LEN = (i - 1) \div PAGE_LEN => s[j] # 0}

\* The bytes of element e, when it is s, that the pages of its item hold.  What
\* is not a text is printed in base64url.
Displayed(e, s) ==
    CASE e[1] = "key"                       -> {i \in CString(s) : i < KEY_LEN}
      [] e[1] \in {"quantity", "data_size"} -> CString(s)
      [] e[1] \in {"reward", "value"}       -> Paged(s)
      [] OTHER                              -> 1..Len(s)

_validateTx == Bytes(Field("owner")) = RSA_KEY

parser_validate ==
    /\ status = "parsed"
    /\ status' = IF ~_validateTx THEN "unexpected_error"
                 ELSE IF \A i \in Items : ItemAnswer(i) = "ok"
                      THEN "ok" ELSE "not_displayable"
    /\ UNCHANGED <<buffer, offset, pos, ptr, len, tags_count, expert, fresh, parses>>

\* The application starts again, with its variables zeroed.
Restart ==
    /\ status \notin {"idle", "reading", "parsed"}
    /\ buffer' = <<>> /\ offset' = 0 /\ pos' = 0
    /\ ptr' = [e \in Elements |-> 0] /\ len' = [e \in Elements |-> 0]
    /\ tags_count' = 0 /\ status' = "idle" /\ fresh' = {} /\ parses' = 0
    /\ UNCHANGED expert

\* tx_parse, which parser_parse begins and parser_validate ends.
Next == \/ \E data \in Buffers : parser_parse(data)
        \/ _read
        \/ parser_validate
        \/ Restart

Spec == Init /\ [][Next]_vars

-----------------------------------------------------------------------------
(* The other side: ArweaveApp.encodeTx.                                    *)

encodeu16(n) == <<(n \div 256) % 256, n % 256>>

encodeWithLen(s) == encodeu16(Len(s)) \o s

flatten(ss) ==
    LET f[i \in 0..Len(ss)] == IF i = 0 THEN <<>> ELSE f[i - 1] \o ss[i]
    IN  f[Len(ss)]

ASSUME TransactionsAssumption ==
    Transactions \subseteq
        [format : Seq(Byte), owner : Seq(Byte), target : Seq(Byte),
         quantity : Seq(Byte), reward : Seq(Byte), last_tx : Seq(Byte),
         tags : Seq([key : Seq(Byte), value : Seq(Byte)]),
         data_size : Seq(Byte), data_root : Seq(Byte)]

\* A transaction: the bytes of its fields, and its tags in order.
encodeTx(tx) ==
    flatten(<<encodeWithLen(tx.format), encodeWithLen(tx.owner),
              encodeWithLen(tx.target), encodeWithLen(tx.quantity),
              encodeWithLen(tx.reward), encodeWithLen(tx.last_tx),
              encodeu16(Len(tx.tags)),
              flatten([i \in 1..Len(tx.tags) |->
                  encodeWithLen(tx.tags[i].key) \o encodeWithLen(tx.tags[i].value)]),
              encodeWithLen(tx.data_size), encodeWithLen(tx.data_root)>>)

-----------------------------------------------------------------------------
(* Properties.                                                             *)

\* parser_tx_obj always has its type, and a count of tags that was accepted
\* stays within the array.
ParserTypeOK ==
    /\ buffer \in Buffers \cup {<<>>}
    /\ offset \in 0..Len(buffer)
    /\ pos \in Nat
    /\ ptr \in [Elements -> U16Values]
    /\ len \in [Elements -> U16Values]
    /\ tags_count \in U16Values
    /\ status \in {"idle", "reading", "parsed", "ok"} \cup Errors
    /\ expert \in BOOLEAN
    /\ fresh \subseteq Elements
    /\ parses \in 0..MAX_PARSES
    /\ status \in {"reading", "parsed", "ok"} /\ pos > 6 =>
           tags_count <= MAX_NUMBER_TAGS

\* What the device hashes and shows after tx_parse.
Parsed == [format |-> Bytes(Field("format")), owner |-> Bytes(Field("owner")),
           target |-> Bytes(Field("target")), quantity |-> Bytes(Field("quantity")),
           reward |-> Bytes(Field("reward")), last_tx |-> Bytes(Field("last_tx")),
           tags |-> [i \in 1..tags_count |->
                        [key |-> Bytes(Key(i)), value |-> Bytes(Value(i))]],
           data_size |-> Bytes(Field("data_size")),
           data_root |-> Bytes(Field("data_root"))]

\* Reading stays inside the transaction: every element this parse has set lies
\* in the bytes consumed so far, whatever the lengths in the buffer say
\* (parser_readElement, parser_readU16).
StaysInBuffer ==
    \A e \in fresh : ptr[e] + len[e] <= offset /\ offset <= Len(buffer)

\* A transaction that was accepted shows, and hashes, nothing of the
\* transactions before it: every element of an item and of the digest was read
\* by this parse, though parser_tx_obj is never cleared.
NothingStale ==
    status = "ok" =>
        /\ \A i \in Items : parser_getItem(i) \subseteq fresh
        /\ Fields \cup TagsUpTo(tags_count) \subseteq fresh

\* An accepted transaction has one reading only: the bytes consumed are the
\* client's encoding of the fields the device shows and signs.
AcceptedIsEncoded ==
    status = "ok" => /\ offset <= Len(buffer)
                     /\ SubSeq(buffer, 1, offset) = encodeTx(Parsed)

\* What the device can sign: its own transaction, all of whose items it can
\* display in the current mode.
Signable(tx) ==
    /\ tx.format = <<FORMAT_2>>
    /\ tx.owner = RSA_KEY /\ Len(RSA_KEY) = OWNER_LEN
    /\ Len(tx.tags) <= MAX_NUMBER_TAGS
    /\ Displayable(Field("target"), tx.target)
    /\ Displayable(Field("quantity"), tx.quantity)
    /\ Displayable(Field("last_tx"), tx.last_tx)
    /\ expert => /\ Displayable(Field("data_size"), tx.data_size)
                 /\ tx.data_root # <<>> =>
                        Displayable(Field("data_root"), tx.data_root)

\* What the client encodes the device parses back: an encoded transaction is
\* refused only when it cannot be signed, accepted only as itself, and the
\* verdict does not depend on the transactions parsed before.
EncodedIsParsedBack ==
    \A tx \in Transactions : buffer = encodeTx(tx) =>
        /\ status \in Errors => ~Signable(tx)
        /\ status = "ok" => Signable(tx) /\ Parsed = tx

\* When an element is printed whole: no zero byte ends it, a tag's key fits the
\* buffer for the name, and a text that was not copied first fits the pages.
Legible(e, s) ==
    /\ e[1] \in {"key", "value", "reward", "quantity", "data_size"} =>
           \A i \in 1..Len(s) : s[i] # 0
    /\ e[1] = "key" => Len(s) < KEY_LEN
    /\ e[1] \in {"reward", "value"} => Len(s) <= MAX_PAGES * PAGE_LEN

\* In expert mode the review, which asks tx_getItem for one index after the
\* other until there is no data, reaches an item for every element but the
\* version and the owner's own key, for the data root exactly when there is one,
\* and no element twice.  The items are not all the transaction says: those of
\* them that are not legible are cut, and accepted all the same.
ReviewCoversTransaction ==
    LET Shown == {i \in 0..(MAX_NUMBER_TAGS + 8) : tx_getItem(i) = "ok"} IN
    status = "ok" /\ expert =>
        /\ Shown = 0..(Cardinality(Shown) - 1)
        /\ UNION {parser_getItem(i) : i \in Shown} =
               (Fields \cup TagsUpTo(tags_count))
                   \ ({Field("format"), Field("owner")} \cup
                      {e \in {Field("data_root")} : Bytes(e) = <<>>})
        /\ \A i, j \in Shown : i # j => parser_getItem(i) \cap parser_getItem(j) = {}
        /\ \A e \in UNION {parser_getItem(i) : i \in Shown} :
               Displayed(e, Bytes(e)) = 1..len[e] <=> Legible(e, Bytes(e))
=============================================================================
