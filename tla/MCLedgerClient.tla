---------------------------- MODULE MCLedgerClient ----------------------------
(***************************************************************************)
(* A TLC instance of LedgerClient: chunks of one byte, so that a message   *)
(* takes two or three; <<b>> is a transaction and also the tail of         *)
(* another, so a lost first half would go unnoticed.                       *)
(***************************************************************************)
EXTENDS LedgerClient

CONSTANTS a, b, format

MCByte == {a, b}
MCValid == {<<a, a>>, <<a, b>>, <<b>>}
MCPayloads == {<<>>, <<a>>, <<b>>}

\* Transactions that begin alike, as real ones do with their format field: the
\* end of one is never the beginning or the end of another.
FramedByte == {a, b, format}
FramedValid == {<<format, a>>, <<format, b>>}
FramedPayloads == {<<>>, <<a>>, <<b>>, <<format>>}
=============================================================================
