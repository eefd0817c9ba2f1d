------------------------------ MODULE MCKeyStore ------------------------------
(***************************************************************************)
(* TLC instances of KeyStore.  Three recovery phrases are needed for an    *)
(* eviction (two slots); they are interchangeable, so symmetric in the     *)
(* safety runs.                                                            *)
(***************************************************************************)
EXTENDS KeyStore, TLC

SeedSymmetry == Permutations(Seeds)
=============================================================================
