----------------------------- MODULE MCAppliers -----------------------------
EXTENDS Appliers

CONSTANTS old, new, other

MCObjects == {old, new, other}

\* Two plans that update the same files differently.
Updated == [c \in 1..N |-> old]
UpdatedNew == [c \in 1..N |-> new]
UpdatedOther == [c \in 1..N |-> other]

\* One plan that creates a file, applied twice.
Created == [c \in 1..N |-> Absent]
=============================================================================
