------------------------------ MODULE Appliers ------------------------------
(***************************************************************************)
(* Two processes run "remek apply" on the same destinations at the same    *)
(* time: nothing in apply_changes locks a repository, so their calls of    *)
(* apply_changes interleave at every rename and every probe.  Each call is *)
(* Transaction with its own private names and locals; the destinations are *)
(* the only thing they share.                                              *)
(***************************************************************************)
EXTENDS Integers

CONSTANTS N, Expected, FirstAfter, SecondAfter, Objects, Absent, Broken, Unknown, Faults

\* Two plans made from the same preimages, and the identities they name.
ASSUME PlansAssumption ==
  /\ N \in Nat \ {0}
  /\ {Expected, FirstAfter, SecondAfter} \subseteq [1..N -> Objects \cup {Absent}]
  /\ \A c \in 1..N : Expected[c] \notin {FirstAfter[c], SecondAfter[c]}

ASSUME IdentitiesAssumption ==
  /\ Absent \notin Objects /\ Broken \notin Objects /\ Unknown \notin Objects
  /\ Absent # Broken /\ Absent # Unknown /\ Broken # Unknown
  /\ Faults \subseteq {"check", "stage", "abandon", "commit", "rollback", "cleanup", "ended"}

VARIABLES
  dest,
  stage1, backup1, rollback1, phase1, step1, index1, seen1, threw1,
  raised1, residue1, changed1, outcome1, base1,
  stage2, backup2, rollback2, phase2, step2, index2, seen2, threw2,
  raised2, residue2, changed2, outcome2, base2

own1 == <<stage1, backup1, rollback1, phase1, step1, index1, seen1, threw1,
          raised1, residue1, changed1, outcome1, base1>>
own2 == <<stage2, backup2, rollback2, phase2, step2, index2, seen2, threw2,
          raised2, residue2, changed2, outcome2, base2>>
vars == <<dest, own1, own2>>

First == INSTANCE Transaction WITH
  After <- FirstAfter, Foreign <- {}, Interruptible <- FALSE,
  stage <- stage1, backup <- backup1, rollback <- rollback1, phase <- phase1,
  step <- step1, index <- index1, seen <- seen1, threw <- threw1, raised <- raised1,
  residue <- residue1, changed <- changed1, outcome <- outcome1, base <- base1

Second == INSTANCE Transaction WITH
  After <- SecondAfter, Foreign <- {}, Interruptible <- FALSE,
  stage <- stage2, backup <- backup2, rollback <- rollback2, phase <- phase2,
  step <- step2, index <- index2, seen <- seen2, threw <- threw2, raised <- raised2,
  residue <- residue2, changed <- changed2, outcome <- outcome2, base <- base2

\* Both plans were saved when their preimages were current.
Init == First!Init /\ Second!Init /\ dest = Expected

FirstSteps == First!Step /\ UNCHANGED own2
SecondSteps == Second!Step /\ UNCHANGED own1
BothReturned == step1 = "done" /\ step2 = "done" /\ UNCHANGED vars

Next == FirstSteps \/ SecondSteps \/ BothReturned

Spec == Init /\ [][Next]_vars

Change == 1..N
Done == step1 = "done" /\ step2 = "done"
Applied1 == Done /\ First!ExitCode = 0
Applied2 == Done /\ Second!ExitCode = 0

\* Two different plans made from the same preimages are not both applied with
\* exit 0, if they update or delete some file: the second to rename its preimage
\* away finds it gone.
OneWinner == FirstAfter # SecondAfter => ~(Applied1 /\ Applied2)

\* What a call reported applied with exit 0 is still there once the other
\* call returns too: in place, or preserved under a name the other reports
\* (docs/threat-model.md:19-20, "preserve foreign race winners").
WinnerKept ==
  /\ Applied1 => \A c \in Change :
       \/ FirstAfter[c] = dest[c]
       \/ FirstAfter[c] = backup2[c] /\ Second!Reported("backup", c)
       \/ FirstAfter[c] = rollback2[c] /\ Second!Reported("rollback", c)
  /\ Applied2 => \A c \in Change :
       \/ SecondAfter[c] = dest[c]
       \/ SecondAfter[c] = backup1[c] /\ First!Reported("backup", c)
       \/ SecondAfter[c] = rollback1[c] /\ First!Reported("rollback", c)

=============================================================================
