--------------------------- MODULE SnapshotProofs ---------------------------
(***************************************************************************)
(* A tree read twice and found the same is the tree that was there between *)
(* the two readings, for any files, contents and number of writes.         *)
(***************************************************************************)
EXTENDS Snapshot, TLAPS

\* The files the running pass has dealt with: read, or found missing.
Visited ==
  IF step = "list" THEN (IF dir = "top" THEN {} ELSE Top)
  ELSE IF dir = "top" THEN Top \ todo ELSE Files \ todo

\* Nothing went back unseen since the root was opened.
Quiet == ~reverted /\ stamp = opened

HistoryInv ==
  /\ opened <= stamp
  /\ \A f \in Files : disk[f] \in past[f]

FreshPass ==
  step \in {"inspect", "open"} =>
    pass = 1 /\ dir = "top" /\ todo = {} /\ tree = [p \in Passes |-> Empty]

\* What the first reading saw was there at some time before mid.
FirstPass ==
  step \in {"list", "read"} /\ pass = 1 =>
    /\ tree[2] = Empty
    /\ \A f \in Files : IF f \in Visited THEN tree[1][f] \in past[f]
                                         ELSE tree[1][f] = Absent

\* What the second reading saw is what was there at mid, or is newer.
SecondPass ==
  step \in {"list", "read"} /\ pass = 2 =>
    /\ \A f \in Files : tree[1][f] \in mid.past[f] /\ mid.past[f] \subseteq past[f]
    /\ \A f \in Files \ Visited : tree[2][f] = Absent
    /\ Quiet => \A f \in Files : disk[f] = mid.disk[f] \/ disk[f] \notin mid.past[f]
    /\ Quiet => \A f \in Visited : tree[2][f] = mid.disk[f] \/ tree[2][f] \notin mid.past[f]

SnapshotInv ==
  TypeOK /\ HistoryInv /\ FreshPass /\ FirstPass /\ SecondPass /\ InstantRead

USE DEF Passes

LEMMA FilesSplit == Top \subseteq Files /\ Nested \subseteq Files /\ Files \ Top = Nested
BY NamesAssumption DEF Files

LEMMA InitTyped == Init => TypeOK
<1> SUFFICES ASSUME Init PROVE TypeOK OBVIOUS
<1>1. Held \in [Files -> SUBSET (Contents \cup {Absent})] BY DEF Init, Held, Tree
<1>2. [p \in Passes |-> Empty] \in [Passes -> Tree] BY DEF Empty, Tree
<1>3. disk \in Tree /\ 0 \in 0..MaxChanges BY BoundAssumption DEF Init
<1>4. mid \in [disk : Tree, past : [Files -> SUBSET (Contents \cup {Absent})]]
  BY <1>1, <1>3 DEF Init
<1> QED BY <1>1, <1>2, <1>3, <1>4 DEF Init, TypeOK, In

LEMMA StepTyped == TypeOK /\ [Next]_vars => TypeOK'
<1> SUFFICES ASSUME TypeOK, [Next]_vars PROVE TypeOK' OBVIOUS
<1> USE FilesSplit DEF TypeOK
<1>1. ASSUME Inspect PROVE TypeOK' BY <1>1 DEF Inspect, In
<1>2. ASSUME Open PROVE TypeOK'
  <2>1. Held \in [Files -> SUBSET (Contents \cup {Absent})] BY DEF Held, Tree
  <2> QED BY <1>2, <2>1 DEF Open, In
<1>3. ASSUME List PROVE TypeOK' BY <1>3 DEF List, In
<1>4. ASSUME NextDirectory PROVE TypeOK' BY <1>4 DEF NextDirectory, In
<1>5. ASSUME NextPass PROVE TypeOK' BY <1>5 DEF NextPass, In
<1>6. ASSUME Compare PROVE TypeOK' BY <1>6 DEF Compare, In
<1>7. ASSUME Again PROVE TypeOK' BY <1>7 DEF Again, Empty, Tree, In
<1>8. ASSUME NEW f \in Files, Read(f) PROVE TypeOK'
  <2>1. tree' \in [Passes -> Tree] BY <1>8 DEF Read, Tree
  <2>2. todo' \subseteq In(dir)' BY <1>8 DEF Read, In
  <2> QED BY <1>8, <2>1, <2>2 DEF Read
<1>9. ASSUME NEW f \in Files, NEW c \in Contents \cup {Absent}, Write(f, c),
             UNCHANGED <<opened, pass, dir, todo, tree>>,
             step' \in {step, "refused"}
      PROVE  TypeOK'
  <2>1. disk' \in Tree BY <1>9 DEF Write, Tree
  <2>2. past' \in [Files -> SUBSET (Contents \cup {Absent})] BY <1>9 DEF Write
  <2>3. stamp' \in Nat /\ changes' \in 0..MaxChanges BY <1>9, BoundAssumption DEF Write
  <2>4. todo' \subseteq In(dir)' BY <1>9 DEF In
  <2> QED BY <1>9, <2>1, <2>2, <2>3, <2>4 DEF Write
<1>10. CASE UNCHANGED vars BY <1>10 DEF vars, In
<1> QED BY <1>1, <1>2, <1>3, <1>4, <1>5, <1>6, <1>7, <1>8, <1>9, <1>10
        DEF Next, Reader, Changed, Overlapped, reader

LEMMA InitSnapshot == Init => SnapshotInv
<1> SUFFICES ASSUME Init PROVE SnapshotInv OBVIOUS
<1>1. TypeOK BY InitTyped
<1> QED BY <1>1 DEF SnapshotInv, Init, HistoryInv, FreshPass, FirstPass, SecondPass,
                    InstantRead, Held

LEMMA StepSnapshot == SnapshotInv /\ [Next]_vars => SnapshotInv'
<1> SUFFICES ASSUME SnapshotInv, [Next]_vars PROVE SnapshotInv' OBVIOUS
<1> USE FilesSplit
<1>0. TypeOK' BY StepTyped DEF SnapshotInv
<1>1. ASSUME Inspect PROVE SnapshotInv'
  BY <1>0, <1>1 DEF SnapshotInv, Inspect, TypeOK, HistoryInv, FreshPass, FirstPass,
                    SecondPass, InstantRead
<1>2. ASSUME Open PROVE SnapshotInv'
  BY <1>0, <1>2 DEF SnapshotInv, Open, TypeOK, HistoryInv, FreshPass, FirstPass, SecondPass,
                    InstantRead, Held, Visited, Empty
<1>3. ASSUME List PROVE SnapshotInv'
  <2>1. \A f \in Files : f \in Visited' =>
          f \in Visited \/ (f \in In(dir) /\ f \notin Visited /\ disk[f] = Absent)
    BY <1>3 DEF List, Visited, In, SnapshotInv, TypeOK
  <2>2. Visited \subseteq Visited' BY <1>3 DEF List, Visited, In, SnapshotInv, TypeOK
  <2>3. FirstPass'
    BY <1>3, <2>1, <2>2 DEF List, FirstPass, SnapshotInv, TypeOK, HistoryInv, Visited
  <2>4. SecondPass'
    <3>1. ASSUME step \in {"list", "read"}, pass = 2 PROVE SecondPass'
      <4>1. \A f \in Files \ Visited' : tree'[2][f] = Absent
        BY <1>3, <3>1, <2>2 DEF List, SecondPass, SnapshotInv
      <4>2. Quiet' => Quiet BY <1>3 DEF List, Quiet
      <4>3. Quiet => \A f \in Visited' :
                       tree[2][f] = mid.disk[f] \/ tree[2][f] \notin mid.past[f]
        BY <1>3, <3>1, <2>1 DEF SecondPass, SnapshotInv, Visited
      <4> QED BY <1>3, <3>1, <4>1, <4>2, <4>3 DEF List, SecondPass, SnapshotInv, Quiet
    <3> QED BY <1>3, <3>1 DEF List, SecondPass
  <2> QED BY <1>0, <1>3, <2>3, <2>4 DEF SnapshotInv, List, HistoryInv, FreshPass, InstantRead
<1>4. ASSUME NextDirectory PROVE SnapshotInv'
  <2>1. Visited' = Visited BY <1>4 DEF NextDirectory, Visited
  <2> QED BY <1>0, <1>4, <2>1 DEF SnapshotInv, NextDirectory, HistoryInv, FreshPass, FirstPass,
                    SecondPass, InstantRead, Quiet
<1>5. ASSUME NextPass PROVE SnapshotInv'
  <2>1. Visited = Files /\ Visited' = {} BY <1>5 DEF NextPass, Visited
  <2>2. SecondPass'
    BY <1>5, <2>1 DEF SnapshotInv, NextPass, SecondPass, FirstPass, HistoryInv, TypeOK, Empty, Quiet
  <2> QED BY <1>0, <1>5, <2>2 DEF SnapshotInv, NextPass, HistoryInv, FreshPass, FirstPass, InstantRead
<1>6. ASSUME Compare PROVE SnapshotInv'
  <2>1. ASSUME Agree, Unmoved, ~reverted PROVE tree[2] = mid.disk
    <3>1. Visited = Files BY <1>6 DEF Compare, Visited
    <3>2. \A f \in Files : tree[2][f] = mid.disk[f]
      BY <1>6, <2>1, <3>1 DEF Compare, SnapshotInv, SecondPass, Quiet, Agree, Unmoved
    <3> QED BY <3>2 DEF SnapshotInv, TypeOK, Tree
  <2> QED BY <1>0, <1>6, <2>1 DEF SnapshotInv, Compare, HistoryInv, FreshPass, FirstPass,
                    SecondPass, InstantRead
<1>7. ASSUME Again PROVE SnapshotInv'
  BY <1>0, <1>7 DEF SnapshotInv, Again, TypeOK, HistoryInv, FreshPass, FirstPass, SecondPass,
                    InstantRead
<1>8. ASSUME NEW f \in Files, Read(f) PROVE SnapshotInv'
  <2>1. CASE disk[f] = Absent
    BY <1>0, <1>8, <2>1 DEF SnapshotInv, Read, HistoryInv, FreshPass, FirstPass, SecondPass,
                    InstantRead
  <2>2. CASE disk[f] # Absent
    <3>1. step = "read" /\ step' = "read" /\ UNCHANGED <<disk, stamp, opened, pass, dir, past, reverted, mid>>
      BY <1>8, <2>2 DEF Read
    <3>2. f \notin Visited /\ Visited' = Visited \cup {f}
      BY <1>8, <2>2, <3>1 DEF Read, Visited, SnapshotInv, TypeOK, In
    <3>3. /\ tree'[pass][f] = disk[f]
          /\ \A g \in Files \ {f} : tree'[pass][g] = tree[pass][g]
          /\ \A p \in Passes \ {pass} : tree'[p] = tree[p]
      BY <1>8, <2>2 DEF Read, SnapshotInv, TypeOK, Tree
    <3>4. FirstPass'
      BY <3>1, <3>2, <3>3 DEF FirstPass, SnapshotInv, HistoryInv, TypeOK
    <3>5. SecondPass'
      <4>1. ASSUME pass = 2 PROVE SecondPass'
        <5>1. tree'[1] = tree[1] BY <3>3, <4>1
        <5>2. Quiet' <=> Quiet BY <3>1 DEF Quiet
        <5>3. /\ \A g \in Files : tree'[1][g] \in mid'.past[g] /\ mid'.past[g] \subseteq past'[g]
              /\ Quiet => \A g \in Files : disk'[g] = mid'.disk[g] \/ disk'[g] \notin mid'.past[g]
          BY <3>1, <4>1, <5>1 DEF SecondPass, SnapshotInv
        <5>4. \A g \in Files \ Visited' : tree'[2][g] = Absent
          BY <3>1, <3>2, <3>3, <4>1 DEF SecondPass, SnapshotInv
        <5>5. ASSUME Quiet, NEW g \in Visited', g \in Files
              PROVE  tree'[2][g] = mid'.disk[g] \/ tree'[2][g] \notin mid'.past[g]
          <6>1. CASE g = f BY <3>1, <3>3, <4>1, <5>5, <6>1 DEF SecondPass, SnapshotInv
          <6>2. CASE g # f
            BY <3>1, <3>2, <3>3, <4>1, <5>5, <6>2 DEF SecondPass, SnapshotInv
          <6> QED BY <6>1, <6>2
        <5>6. Visited' \subseteq Files
          BY <3>1 DEF Visited, SnapshotInv, TypeOK, In, Files
        <5> QED BY <3>1, <5>2, <5>3, <5>4, <5>5, <5>6 DEF SecondPass
      <4> QED BY <3>1, <4>1 DEF SecondPass
    <3> QED BY <1>0, <3>1, <3>4, <3>5 DEF SnapshotInv, HistoryInv, FreshPass, InstantRead
  <2> QED BY <2>1, <2>2
<1>9. ASSUME NEW f \in Files, NEW c \in Contents \cup {Absent}, Write(f, c),
             UNCHANGED <<opened, pass, dir, todo, tree>>,
             step' \in {step, "refused"}
      PROVE  SnapshotInv'
  <2>1. /\ disk'[f] = c /\ \A g \in Files \ {f} : disk'[g] = disk[g]
        /\ past'[f] = past[f] \cup {c} /\ \A g \in Files \ {f} : past'[g] = past[g]
        /\ mid' = mid
    BY <1>9 DEF Write, SnapshotInv, TypeOK, Tree
  <2>2. HistoryInv'
    BY <1>9, <2>1 DEF Write, SnapshotInv, HistoryInv, TypeOK
  <2>3. step' \in {"list", "read"} => step' = step /\ Visited' = Visited
    BY <1>9 DEF Visited
  <2>4. FirstPass'
    BY <1>9, <2>1, <2>3 DEF SnapshotInv, FirstPass
  <2>5. SecondPass'
    <3>1. ASSUME step' \in {"list", "read"}, pass = 2 PROVE SecondPass'
      <4>1. Quiet' => Quiet /\ c \notin past[f]
        <5>1. stamp \in Nat /\ opened \in Nat /\ opened <= stamp /\ opened' = opened
          BY <1>9 DEF SnapshotInv, HistoryInv, TypeOK
        <5>2. stamp' = stamp + 1 \/ stamp' = stamp BY <1>9 DEF Write
        <5>3. stamp' = opened' => stamp' = stamp /\ stamp = opened BY <5>1, <5>2
        <5>4. ~reverted' => ~reverted /\ ~(c \in past[f] /\ stamp' = stamp)
          BY <1>9 DEF Write
        <5> QED BY <5>3, <5>4 DEF Quiet
      <4>2. mid.past[f] \subseteq past[f] BY <2>3, <3>1 DEF SnapshotInv, SecondPass
      <4>3. Quiet' => \A g \in Files : disk'[g] = mid.disk[g] \/ disk'[g] \notin mid.past[g]
        BY <2>1, <2>3, <3>1, <4>1, <4>2 DEF SnapshotInv, SecondPass
      <4> QED BY <1>9, <2>1, <2>3, <3>1, <4>1, <4>3 DEF SnapshotInv, SecondPass
    <3> QED BY <1>9, <3>1 DEF SecondPass
  <2>6. InstantRead'
    BY <1>9, <2>1 DEF SnapshotInv, InstantRead, Write
  <2>7. FreshPass' BY <1>9 DEF SnapshotInv, FreshPass
  <2> QED BY <1>0, <2>2, <2>4, <2>5, <2>6, <2>7 DEF SnapshotInv
<1>10. CASE UNCHANGED vars
  BY <1>0, <1>10 DEF vars, SnapshotInv, HistoryInv, FreshPass, FirstPass, SecondPass,
                     InstantRead, Visited, Quiet
<1> QED BY <1>1, <1>2, <1>3, <1>4, <1>5, <1>6, <1>7, <1>8, <1>9, <1>10
        DEF Next, Reader, Changed, Overlapped, reader

\* snapshot_tree returns a tree that was there at one instant, however many
\* files it has and whoever writes them meanwhile (filesystem.py:458-497).
THEOREM ReadsAnInstant == Spec => []InstantRead
<1>1. SnapshotInv => InstantRead BY DEF SnapshotInv
<1> QED BY InitSnapshot, StepSnapshot, <1>1, PTL DEF Spec
=============================================================================
