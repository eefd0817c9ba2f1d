---------------------------- MODULE MCApduHandler ----------------------------
(***************************************************************************)
(* A TLC instance of ApduHandler.  Two transactions share their first      *)
(* byte, a third has one byte; the buffer holds three bytes, so uploads    *)
(* can be cut short, continued, padded and overflowed.  A payload is a     *)
(* byte or empty: longer ones only skip intermediate buffers.              *)
(***************************************************************************)
EXTENDS ApduHandler

CONSTANTS a, b

MCByte == {a, b}
MCValid == {<<a, a>>, <<a, b>>, <<b>>}
MCPayloads == {<<>>, <<a>>, <<b>>}
=============================================================================
