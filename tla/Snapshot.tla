------------------------------ MODULE Snapshot ------------------------------
(***************************************************************************)
(* snapshot_tree (filesystem.py): a directory tree is read twice, file by  *)
(* file, while anybody may write it, and is returned when both readings    *)
(* and the directory's own times agree.  Everything remek decides rests on *)
(* such readings: candidates, toolchains, release payloads.                *)
(*                                                                         *)
(* One step is one directory listing or one read of a file, which checks   *)
(* itself (_read_at compares the identities before and after).  The tree   *)
(* has files in its root (Top) and in one subdirectory (Nested); limits,   *)
(* links and special files, which refuse the tree, are left out.  A        *)
(* definition marked "slip" stands for a plausible mistake; no action uses *)
(* it.                                                                     *)
(***************************************************************************)
EXTENDS Integers

CONSTANTS
  Top, Nested,      \* the names a file may have, in the root and below it
  Contents,         \* bytes and mode of a file
  Absent,           \* no such file
  MaxChanges        \* bound on the writes of others

ASSUME NamesAssumption == Top \cap Nested = {}
ASSUME AbsentAssumption == Absent \notin Contents
ASSUME BoundAssumption == MaxChanges \in Nat

Files == Top \cup Nested
Tree == [Files -> Contents \cup {Absent}]
Empty == [f \in Files |-> Absent]
Passes == {1, 2}

VARIABLES
  disk,      \* the files as they are
  stamp,     \* the times of the root directory: they advance with its entries
  changes,   \* how often others have written
  step,      \* where the reader is
  opened,    \* stamp when the root was inspected, and then opened
  pass,      \* which of the two readings is running
  dir,       \* the directory being read
  todo,      \* its listed files that are still to be read
  tree,      \* what each pass has read
  past,      \* history: contents each file has had since the root was opened
  reverted,  \* history: a file went back to such a content, unseen by stamp
  mid        \* history: disk and past between the two passes

reader == <<step, opened, pass, dir, todo, tree>>
vars == <<disk, stamp, changes, step, opened, pass, dir, todo, tree, past, reverted, mid>>

Held == [f \in Files |-> {disk[f]}]

Init ==
  /\ disk \in Tree
  /\ stamp = 0
  /\ changes = 0
  /\ step = "inspect"
  /\ opened = 0
  /\ pass = 1
  /\ dir = "top"
  /\ todo = {}
  /\ tree = [p \in Passes |-> Empty]
  /\ past = Held
  /\ reverted = FALSE
  /\ mid = [disk |-> disk, past |-> Held]

-----------------------------------------------------------------------------
(* The reader *)

\* lstat of the path (459).
Inspect ==
  /\ step = "inspect"
  /\ opened' = stamp
  /\ step' = "open"
  /\ UNCHANGED <<disk, stamp, changes, pass, dir, todo, tree, past, reverted, mid>>

\* The descriptor must be of the directory that was inspected (469-482).
Open ==
  /\ step = "open"
  /\ step' = IF stamp = opened THEN "list" ELSE "refused"
  /\ past' = Held
  /\ reverted' = FALSE
  /\ UNCHANGED <<disk, stamp, changes, opened, pass, dir, todo, tree, mid>>

In(d) == IF d = "top" THEN Top ELSE Nested

\* One directory is listed whole before its files are read (370-391, 411).
List ==
  /\ step = "list"
  /\ todo' = {f \in In(dir) : disk[f] # Absent}
  /\ step' = "read"
  /\ UNCHANGED <<disk, stamp, changes, opened, pass, dir, tree, past, reverted, mid>>

\* A listed file is read; one that is gone by now refuses the tree (438).
Read(f) ==
  /\ step = "read"
  /\ f \in todo
  /\ IF disk[f] # Absent
     THEN /\ tree' = [tree EXCEPT ![pass][f] = disk[f]]
          /\ todo' = todo \ {f}
          /\ UNCHANGED step
     ELSE step' = "refused" /\ UNCHANGED <<tree, todo>>
  /\ UNCHANGED <<disk, stamp, changes, opened, pass, dir, past, reverted, mid>>

\* The next directory of the pass, which was pushed when it was listed.
NextDirectory ==
  /\ step = "read" /\ todo = {} /\ dir = "top"
  /\ dir' = "nested"
  /\ step' = "list"
  /\ UNCHANGED <<disk, stamp, changes, opened, pass, todo, tree, past, reverted, mid>>

\* The second reading starts at the root again (484).
NextPass ==
  /\ step = "read" /\ todo = {} /\ dir = "nested" /\ pass = 1
  /\ pass' = 2
  /\ dir' = "top"
  /\ step' = "list"
  /\ mid' = [disk |-> disk, past |-> past]
  /\ UNCHANGED <<disk, stamp, changes, opened, todo, tree, past, reverted>>

\* Slip: the second reading only checks that the same files are there.
AgreeOnNames == \A f \in Files : (tree[1][f] = Absent) <=> (tree[2][f] = Absent)

Agree == tree[1] = tree[2]
Unmoved == stamp = opened

\* The two readings and the times of the root are compared (486-493).
Compare ==
  /\ step = "read" /\ todo = {} /\ dir = "nested" /\ pass = 2
  /\ step' = IF Agree /\ Unmoved THEN "returned" ELSE "refused"
  /\ UNCHANGED <<disk, stamp, changes, opened, pass, dir, todo, tree, past, reverted, mid>>

\* Somebody reads the tree again.
Again ==
  /\ step \in {"returned", "refused"}
  /\ step' = "inspect"
  /\ opened' = 0
  /\ pass' = 1
  /\ dir' = "top"
  /\ todo' = {}
  /\ tree' = [p \in Passes |-> Empty]
  /\ UNCHANGED <<disk, stamp, changes, past, reverted, mid>>

-----------------------------------------------------------------------------
(* Others.  An entry that is created, removed or renamed into place advances *)
(* the times of its directory; only those of the root are looked at.  A      *)
(* write in place advances nothing.                                          *)

Entry(f, c) == f \in Top /\ (c = Absent \/ disk[f] = Absent)

Write(f, c) ==
  /\ changes < MaxChanges
  /\ c # disk[f]
  /\ changes' = changes + 1
  /\ disk' = [disk EXCEPT ![f] = c]
  /\ \/ f \in Top /\ stamp' = stamp + 1
     \/ ~Entry(f, c) /\ stamp' = stamp
  /\ past' = [past EXCEPT ![f] = @ \cup {c}]
  /\ reverted' = (reverted \/ (c \in past[f] /\ stamp' = stamp))
  /\ UNCHANGED mid

Changed(f, c) == Write(f, c) /\ UNCHANGED reader

\* The file changes while it is read, which the read notices (188-194, 209).
Overlapped(f, c) ==
  /\ step = "read" /\ f \in todo
  /\ Write(f, c)
  /\ step' = "refused"
  /\ UNCHANGED <<opened, pass, dir, todo, tree>>

Reader == Inspect \/ Open \/ List \/ NextDirectory \/ NextPass \/ Compare \/ Again

Next ==
  \/ Reader
  \/ \E f \in Files : Read(f)
  \/ \E f \in Files, c \in Contents \cup {Absent} : Changed(f, c) \/ Overlapped(f, c)

Spec == Init /\ [][Next]_vars

-----------------------------------------------------------------------------

\* The type of every variable.
TypeOK ==
  /\ disk \in Tree
  /\ stamp \in Nat /\ opened \in Nat /\ changes \in 0..MaxChanges
  /\ step \in {"inspect", "open", "list", "read", "returned", "refused"}
  /\ pass \in Passes
  /\ dir \in {"top", "nested"}
  /\ todo \subseteq In(dir)
  /\ tree \in [Passes -> Tree]
  /\ past \in [Files -> SUBSET (Contents \cup {Absent})]
  /\ reverted \in BOOLEAN
  /\ mid \in [disk : Tree, past : [Files -> SUBSET (Contents \cup {Absent})]]

\* A tree that is returned was the whole tree at one instant, the one between
\* the two readings, although the files were read one by one: unless a file
\* was put back to a content it had had, by a write that leaves the times of
\* the root alone (snapshot_tree, filesystem.py:458-497; docs/design.md:84).
InstantRead == step = "returned" /\ ~reverted => tree[2] = mid.disk
=============================================================================
