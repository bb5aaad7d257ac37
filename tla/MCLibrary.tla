------------------------------ MODULE MCLibrary ------------------------------
(* Instances of Library for TLC.                                            *)
EXTENDS Library

CONSTANTS fiction, essays

MCNames == {fiction, essays}
SymmetricNames == Permutations(MCNames)

=============================================================================
