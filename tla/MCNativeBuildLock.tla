-------------------------- MODULE MCNativeBuildLock -------------------------
(* Instances of NativeBuildLock for TLC.                                   *)
EXTENDS NativeBuildLock, TLC

Symmetry == Permutations(Builders)
=============================================================================
