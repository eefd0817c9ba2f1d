------------------------------- MODULE MCB64Url -------------------------------
(***************************************************************************)
(* A TLC instance of B64Url: up to five bytes, so that every position in a *)
(* group of three occurs at the end and before another byte; bytes with    *)
(* bits set on both sides of every boundary.                               *)
(***************************************************************************)
EXTENDS B64Url

MCBytes == {0, 91, 255}
MCInputs == UNION {[1..n -> MCBytes] : n \in 0..5}
MCOutLens == {2, 4, 5, 7}
=============================================================================
