---------------------------- MODULE MCKeepAwake -----------------------------
(* Instances of KeepAwake for TLC.                                         *)
EXTENDS KeepAwake, TLC

Symmetry == Permutations(Scopes)
=============================================================================
