------------------------- MODULE MCSqliteConnection --------------------------
(* Instances of SqliteConnection for TLC.                                  *)
EXTENDS SqliteConnection, TLC

CONSTANTS m1, m2

(* Two versions of an application: the second one adds a migration with an *)
(* id between those of the first.                                          *)
TwoVersions == [m \in Migrators |-> IF m = m1 THEN {1, 3} ELSE {1, 2, 3, 4}]
=============================================================================
