---------------------------- MODULE MCRunStream ----------------------------
(* TLC instances of RunStream.                                             *)
EXTENDS RunStream, TLC

Symmetry == Permutations(Watchers)
=============================================================================
