---------------------------- MODULE MCNativeRun ----------------------------
(* Small instances of NativeRun.                                           *)
EXTENDS NativeRun

CONSTANTS upstream, candidate, u1, u2, a, b, c

(* supervise-native for the upstream batch, and supervise-native-pair.     *)
Pairs == {<<upstream>>, <<upstream, candidate>>}
Single == {<<upstream>>}
TwoUnits == <<u1, u2>>

(* The candidate may be imported from another build the next time.         *)
Imports == [r \in Runs |-> IF r = upstream THEN {a} ELSE {b, c}]
=============================================================================
