----------------------------- MODULE MCTxDigest -----------------------------
(* A small instance of TxParser, TxDigest and DeepHash: keys of 2 bytes, at   *)
(* most 2 tags, formatting buffers of 4 bytes, names of 2 characters, pages   *)
(* of 2.  The buffers are encodings and damaged encodings.                    *)
EXTENDS DeepHash

MCKey      == <<7, 8>>
MCZero     == <<48>>
MCNumerals == {MCZero, <<49>>, <<49, 48>>, <<49, 0>>}

Tag(k, v) == [key |-> k, value |-> v]
T1 == Tag(<<1>>, <<2, 3>>)
T2 == Tag(<<>>, <<4>>)

Base == [format |-> <<50>>, owner |-> MCKey, target |-> <<5, 6, 9>>,
         quantity |-> <<49, 48>>, reward |-> MCZero, last_tx |-> <<6>>,
         tags |-> <<>>, data_size |-> MCZero, data_root |-> <<>>]

\* A value of more than 255 pages, whose length needs both bytes.
Long == Tag(<<1>>, [i \in 1..511 |-> 1 + (i % 255)])

\* A name and a page that are filled and a name that is too long; zero bytes at
\* the end and in the middle of texts.
Cuts == {<<Tag(<<1, 2>>, <<2, 0, 3, 4>>), Tag(<<1, 2, 3>>, <<>>)>>,
         <<Tag(<<1, 0>>, <<0, 4>>), Tag(<<0, 1>>, <<4, 5>>)>>}

Acceptance ==
    {[Base EXCEPT !.tags = ts, !.data_root = r] :
        ts \in {<<>>, <<T1>>, <<T1, T2>>}, r \in {<<>>, <<9>>}}
    \cup {[Base EXCEPT !.tags = ts, !.data_size = <<49, 0, 50>>] : ts \in Cuts}
    \cup {[Base EXCEPT !.quantity = <<49, 0>>, !.reward = <<49, 0, 51>>],
          [Base EXCEPT !.tags = <<T2, T1, T2>>], [Base EXCEPT !.tags = <<Long>>],
          [Base EXCEPT !.target = <<>>], [Base EXCEPT !.last_tx = <<1, 2, 3, 4>>],
          [Base EXCEPT !.quantity = <<50, 48>>], [Base EXCEPT !.format = <<49>>],
          [Base EXCEPT !.owner = <<7, 9>>], [Base EXCEPT !.owner = <<7>>],
          [Base EXCEPT !.data_size = <<49, 49, 49, 49, 49>>],
          [Base EXCEPT !.data_root = <<1, 2, 3, 4>>]}

\* Transactions that differ from Base or from each other in one field, in one
\* tag, in the order of the tags, or only in where the bytes of the tags are cut.
Alike ==
    {[Base EXCEPT !.tags = ts] :
        ts \in {<<Tag(<<>>, <<2, 3>>)>>, <<Tag(<<1, 2>>, <<3>>)>>,
                <<Tag(<<4>>, <<2, 3>>)>>, <<T2, T1>>,
                <<Tag(<<1>>, <<2>>), Tag(<<3>>, <<4>>)>>}}
    \cup {[Base EXCEPT !.quantity = MCZero, !.reward = <<49, 48>>],
          [Base EXCEPT !.target = <<6>>, !.last_tx = <<5, 6, 9>>],
          [Base EXCEPT !.data_size = <<49>>]}

MCTransactions == Acceptance \cup Alike

Whole == encodeTx([Base EXCEPT !.tags = <<T1>>, !.data_root = <<9>>])

Truncated  == {SubSeq(Whole, 1, n) : n \in 0..(Len(Whole) - 1)}
Lengthened == {[Whole EXCEPT ![i] = @ + 1] : i \in {2, 5, 9, 14, 18, 21, 24, 26, 29}}
Huge       == {[Whole EXCEPT ![i] = 255] : i \in {1, 8, 23, 25}}

MCBuffers == {encodeTx(tx) : tx \in MCTransactions}
             \cup Truncated \cup Lengthened \cup Huge \cup {Whole \o <<0, 1>>}
=============================================================================
