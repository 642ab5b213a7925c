---------------------------- MODULE MCMigration ----------------------------
(* A rehearsal in which the conversion replaces its governance, its        *)
(* configuration and one shim, and adds the other.                         *)
EXTENDS Migration

CONSTANTS old, new, other

MCObjects == {old, new, other}

Rehearsed == [c \in 1..N |-> IF c = 3 THEN Absent ELSE old]
Conversion == [c \in 1..N |-> new]
=============================================================================
