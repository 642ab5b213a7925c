--------------------------- MODULE MCTransaction ---------------------------
(* Plans small enough for TLC that hold every kind of change.              *)
EXTENDS Transaction

CONSTANTS old, new, other

MCObjects == {old, new, other}

\* An update, a create and a delete.
UpdateCreateDelete == [c \in 1..N |-> IF c = 2 THEN Absent ELSE old]
UpdateCreateDeleteAfter == [c \in 1..N |-> IF c = 3 THEN Absent ELSE new]

=============================================================================
