-------------------------- MODULE TransactionProofs --------------------------
(***************************************************************************)
(* What Transaction guarantees for every plan, every set of failing phases *)
(* and every behaviour of other processes.                                 *)
(***************************************************************************)
EXTENDS Transaction, TLAPS

---------------------------------------------------------------------------
(* What the operators return.                                               *)

LEMMA ContentHolds == Absent \in Content /\ Broken \in Content /\ Objects \subseteq Content
BY DEF Content

\* _remove_expected leaves an identity and names an identity, Unknown or nothing.
LEMMA RemovalTyped ==
  ASSUME NEW content \in Content, NEW expected \in Content,
         NEW r \in RemoveExpected(content, expected)
  PROVE  r.left \in Content /\ r.named \in Content \cup {Unknown}
BY DEF RemoveExpected, Content

LEMMA NamedTyped ==
  ASSUME NEW slot \in Slots, NEW c \in Change, NEW identity \in Content \cup {Unknown}
  PROVE  Named(slot, c, identity) \in Residues
BY DEF Named, Residues

LEMMA EntryTyped ==
  ASSUME NEW slot \in Slots, NEW c \in Change, NEW identity \in Content \cup {Unknown}
  PROVE  Entry(slot, c, identity) \subseteq Residues
BY NamedTyped DEF Entry

\* Every identity of a plan is one a name can hold.
LEMMA PlanTyped ==
  ASSUME NEW c \in Change
  PROVE  Expected[c] \in Content /\ After[c] \in Content
BY PlanAssumption DEF Content

\* The loops stay within the plan's changes.
LEMMA EachChangeTyped ==
  ASSUME index \in Change, NEW ph, NEW st, EachChange(ph, st)
  PROVE  phase' \in {phase, ph} /\ step' \in {step, st} /\ index' \in Change
BY NAssumption DEF EachChange, GoTo, Change

LEMMA NextRestorationTyped ==
  ASSUME index \in Change, NextRestoration
  PROVE  phase' = phase /\ step' \in {"classify", "unstage"} /\ index' \in Change
BY NAssumption DEF NextRestoration, GoTo, Change

LEMMA NextInstallationTyped ==
  ASSUME index \in Change, NextInstallation
  PROVE  phase' = phase /\ step' \in {"displace", "verify"} /\ index' \in Change
BY NAssumption DEF NextInstallation, GoTo, Change

LEMMA RollBackTyped ==
  ASSUME NEW e \in Raised, RollBack(e)
  PROVE  phase' = "rollback" /\ step' = "classify" /\ index' \in Change /\ raised' \in Raised
BY NAssumption DEF RollBack, GoTo, Change

LEMMA RaisedTyped ==
  ASSUME NEW condition \in BOOLEAN
  PROVE  Failures \subseteq Raised /\ Unless(condition) \subseteq Raised /\ "none" \in Raised
BY DEF Failures, Unless, Raised

---------------------------------------------------------------------------
LEMMA InitTyped ==
  ASSUME Init
  PROVE  TypeOK
<1>1. FilesTyped
  BY ContentHolds DEF Init, FilesTyped, Content
<1>2. ControlTyped
  <2>1. index \in Change
    BY NAssumption DEF Init, Change
  <2> QED
    BY <2>1, ContentHolds DEF Init, ControlTyped, Phases, Steps, Raised
<1>3. ToldTyped
  BY DEF Init, ToldTyped, Outcomes
<1> QED
  BY <1>1, <1>2, <1>3 DEF TypeOK

LEMMA StepTyped ==
  ASSUME TypeOK, [Next]_vars
  PROVE  TypeOK'
<1> USE DEF TypeOK
<1>1. CASE Probe
  <2>1. FilesTyped'
    BY <1>1 DEF Probe, FilesTyped, files
  <2>2. ControlTyped'
    BY <1>1, EachChangeTyped, RaisedTyped DEF Probe, ControlTyped, GoTo, Return, local, Phases, Steps, Raised
  <2>3. ToldTyped'
    BY <1>1 DEF Probe, ToldTyped, Return, Outcomes
  <2> QED
    BY <2>1, <2>2, <2>3
<1>2. CASE Stage
  <2>1. FilesTyped'
    BY <1>2, PlanTyped, ContentHolds DEF Stage, FilesTyped, ControlTyped
  <2>2. ControlTyped'
    BY <1>2, EachChangeTyped, RaisedTyped, NAssumption DEF Stage, ControlTyped, GoTo, local, Phases, Steps, Change, Raised
  <2>3. ToldTyped'
    BY <1>2 DEF Stage, ToldTyped, told
  <2> QED
    BY <2>1, <2>2, <2>3
<1>3. CASE Unstage
  <2>1. FilesTyped'
    BY <1>3, PlanTyped, RemovalTyped DEF Unstage, FilesTyped, ControlTyped
  <2>2. ControlTyped'
    BY <1>3, EachChangeTyped DEF Unstage, ControlTyped, AfterUnstaging, local, Phases, Steps
  <2>3. ToldTyped'
    BY <1>3, PlanTyped, RemovalTyped, EntryTyped DEF Unstage, ToldTyped, ControlTyped, FilesTyped, Slots
  <2> QED
    BY <2>1, <2>2, <2>3
<1>4. CASE Recheck
  <2>1. FilesTyped'
    BY <1>4 DEF Recheck, FilesTyped, files
  <2>2. ControlTyped'
    BY <1>4, EachChangeTyped, RollBackTyped, RaisedTyped DEF Recheck, ControlTyped, local, Phases, Steps, Raised
  <2>3. ToldTyped'
    BY <1>4 DEF Recheck, ToldTyped, told
  <2> QED
    BY <2>1, <2>2, <2>3
<1>5. CASE Displace
  <2>1. FilesTyped'
    BY <1>5, ContentHolds DEF Displace, FilesTyped, MoveAside, files, ControlTyped
  <2>2. ControlTyped'
    BY <1>5, RaisedTyped DEF Displace, ControlTyped, GoTo, local, Phases, Steps, Raised
  <2>3. ToldTyped'
    BY <1>5 DEF Displace, ToldTyped, told
  <2> QED
    BY <2>1, <2>2, <2>3
<1>6. CASE Displaced
  <2>1. FilesTyped'
    BY <1>6 DEF Displaced, FilesTyped, files
  <2>2. ControlTyped'
    BY <1>6, RollBackTyped, RaisedTyped DEF Displaced, ControlTyped, GoTo, local, Phases, Steps, Raised
  <2>3. ToldTyped'
    BY <1>6 DEF Displaced, ToldTyped, told
  <2> QED
    BY <2>1, <2>2, <2>3
<1>7. CASE Install
  <2>1. FilesTyped'
    BY <1>7, ContentHolds DEF Install, FilesTyped, MoveIn, files, ControlTyped
  <2>2. ControlTyped'
    BY <1>7, RaisedTyped DEF Install, ControlTyped, GoTo, local, Phases, Steps, Raised
  <2>3. ToldTyped'
    BY <1>7 DEF Install, ToldTyped, told
  <2> QED
    BY <2>1, <2>2, <2>3
<1>8. CASE Installed
  <2>1. FilesTyped'
    BY <1>8 DEF Installed, FilesTyped, files
  <2>2. ControlTyped'
    BY <1>8, RollBackTyped, RaisedTyped DEF Installed, ControlTyped, GoTo, local, Phases, Steps, Raised
  <2>3. ToldTyped'
    BY <1>8 DEF Installed, ToldTyped, told
  <2> QED
    BY <2>1, <2>2, <2>3
<1>9. CASE Confirm
  <2>1. FilesTyped'
    BY <1>9 DEF Confirm, FilesTyped, files
  <2>2. ControlTyped'
    BY <1>9, NextInstallationTyped, RollBackTyped, RaisedTyped DEF Confirm, ControlTyped, local, Phases, Steps, Raised
  <2>3. ToldTyped'
    BY <1>9 DEF Confirm, ToldTyped, told
  <2> QED
    BY <2>1, <2>2, <2>3
<1>10. CASE Verify
  <2>1. FilesTyped'
    BY <1>10 DEF Verify, FilesTyped, files
  <2>2. ControlTyped'
    BY <1>10, RollBackTyped, NAssumption DEF Verify, ControlTyped, GoTo, local, Phases, Steps, Change, Raised
  <2>3. ToldTyped'
    BY <1>10 DEF Verify, ToldTyped, told
  <2> QED
    BY <2>1, <2>2, <2>3
<1>11. CASE Classify
  <2>1. FilesTyped'
    BY <1>11 DEF Classify, FilesTyped, files
  <2>2. ControlTyped'
    BY <1>11 DEF Classify, ControlTyped, GoTo, Phases, Steps, FilesTyped
  <2>3. ToldTyped'
    BY <1>11 DEF Classify, ToldTyped, told
  <2> QED
    BY <2>1, <2>2, <2>3
<1>12. CASE Quarantine
  <2>1. FilesTyped'
    BY <1>12, ContentHolds DEF Quarantine, FilesTyped, MoveOut, files, ControlTyped
  <2>2. ControlTyped'
    BY <1>12 DEF Quarantine, ControlTyped, GoTo, Phases, Steps
  <2>3. ToldTyped'
    BY <1>12 DEF Quarantine, ToldTyped, told
  <2> QED
    BY <2>1, <2>2, <2>3
<1>13. CASE Quarantined
  <2>1. FilesTyped'
    BY <1>13 DEF Quarantined, FilesTyped, files
  <2>2. ControlTyped'
    BY <1>13, NextRestorationTyped DEF Quarantined, ControlTyped, GoTo, GiveUp, Phases, Steps, FilesTyped
  <2>3. ToldTyped'
    BY <1>13, NamedTyped, EntryTyped DEF Quarantined, ToldTyped, GiveUp, ControlTyped, FilesTyped, Slots
  <2> QED
    BY <2>1, <2>2, <2>3
<1>14. CASE Restore
  <2>1. FilesTyped'
    BY <1>14, ContentHolds DEF Restore, FilesTyped, MoveBack, files, ControlTyped
  <2>2. ControlTyped'
    BY <1>14 DEF Restore, ControlTyped, GoTo, Phases, Steps
  <2>3. ToldTyped'
    BY <1>14 DEF Restore, ToldTyped, told
  <2> QED
    BY <2>1, <2>2, <2>3
<1>15. CASE Restored
  <2>1. FilesTyped'
    BY <1>15 DEF Restored, FilesTyped, files
  <2>2. ControlTyped'
    BY <1>15, NextRestorationTyped DEF Restored, ControlTyped, GoTo, GiveUp, Phases, Steps, FilesTyped
  <2>3. ToldTyped'
    BY <1>15, NamedTyped, EntryTyped DEF Restored, ToldTyped, GiveUp, ControlTyped, FilesTyped, Slots
  <2> QED
    BY <2>1, <2>2, <2>3
<1>16. CASE Settle
  <2>1. FilesTyped'
    BY <1>16, PlanTyped, RemovalTyped DEF Settle, FilesTyped, ControlTyped
  <2>2. ControlTyped'
    BY <1>16 DEF Settle, ControlTyped, GoTo, local, Phases, Steps
  <2>3. ToldTyped'
    BY <1>16, PlanTyped, RemovalTyped, EntryTyped, NamedTyped, SMTT(30) DEF Settle, ToldTyped, ControlTyped, FilesTyped, Slots
  <2> QED
    BY <2>1, <2>2, <2>3
<1>17. CASE Unquarantine
  <2>1. FilesTyped'
    BY <1>17, PlanTyped, RemovalTyped DEF Unquarantine, FilesTyped, ControlTyped
  <2>2. ControlTyped'
    BY <1>17, NextRestorationTyped DEF Unquarantine, ControlTyped, local, Phases, Steps
  <2>3. ToldTyped'
    BY <1>17, PlanTyped, RemovalTyped, EntryTyped DEF Unquarantine, ToldTyped, ControlTyped, FilesTyped, Slots
  <2> QED
    BY <2>1, <2>2, <2>3
<1>18. CASE RestorationFails
  <2>1. FilesTyped'
    BY <1>18 DEF RestorationFails, FilesTyped, files
  <2>2. ControlTyped'
    BY <1>18, NextRestorationTyped DEF RestorationFails, ControlTyped, local, Phases, Steps
  <2>3. ToldTyped'
    BY <1>18, EntryTyped DEF RestorationFails, ToldTyped, ControlTyped, FilesTyped, Slots
  <2> QED
    BY <2>1, <2>2, <2>3
<1>19. CASE Sweep
  <2>1. FilesTyped'
    BY <1>19 DEF Sweep, FilesTyped, files
  <2>2. ControlTyped'
    BY <1>19, NAssumption DEF Sweep, ControlTyped, GoTo, local, Phases, Steps, Change
  <2>3. ToldTyped'
    BY <1>19, EntryTyped DEF Sweep, ToldTyped, Unnamed, ControlTyped, FilesTyped, Slots
  <2> QED
    BY <2>1, <2>2, <2>3
<1>20. CASE Cleanup
  <2>1. FilesTyped'
    BY <1>20, PlanTyped, RemovalTyped, SMTT(30) DEF Cleanup, FilesTyped, ControlTyped
  <2>2. ControlTyped'
    BY <1>20, EachChangeTyped DEF Cleanup, ControlTyped, local, Phases, Steps
  <2>3. ToldTyped'
    BY <1>20, PlanTyped, RemovalTyped, EntryTyped DEF Cleanup, ToldTyped, ControlTyped, FilesTyped, Slots
  <2> QED
    BY <2>1, <2>2, <2>3
<1>21. CASE Remaining
  <2>1. FilesTyped'
    BY <1>21 DEF Remaining, FilesTyped, files
  <2>2. ControlTyped'
    BY <1>21, EachChangeTyped DEF Remaining, ControlTyped, local, Phases, Steps
  <2>3. ToldTyped'
    BY <1>21, NamedTyped DEF Remaining, ToldTyped, ControlTyped, FilesTyped, Slots
  <2> QED
    BY <2>1, <2>2, <2>3
<1>22. CASE Conclude
  <2>1. FilesTyped'
    BY <1>22 DEF Conclude, FilesTyped, files
  <2>2. ControlTyped'
    BY <1>22 DEF Conclude, ControlTyped, GoTo, Return, ReturnResidue, local, Phases, Steps, Raised
  <2>3. ToldTyped'
    BY <1>22 DEF Conclude, ToldTyped, Return, ReturnResidue, Outcomes
  <2> QED
    BY <2>1, <2>2, <2>3
<1>23. CASE Close
  <2>1. FilesTyped'
    BY <1>23 DEF Close, FilesTyped, files
  <2>2. ControlTyped'
    BY <1>23, RaisedTyped DEF Close, ControlTyped, GoTo, Return, local, Phases, Steps, Raised
  <2>3. ToldTyped'
    BY <1>23 DEF Close, ToldTyped, Return, Outcomes
  <2> QED
    BY <2>1, <2>2, <2>3
<1>24. CASE Interrupt
  <2>1. FilesTyped'
    BY <1>24 DEF Interrupt, FilesTyped, files
  <2>2. ControlTyped'
    BY <1>24 DEF Interrupt, ControlTyped, GoTo, Return, local, Phases, Steps, Raised
  <2>3. ToldTyped'
    BY <1>24 DEF Interrupt, ToldTyped, Return, Outcomes
  <2> QED
    BY <2>1, <2>2, <2>3
<1>25. CASE ForeignWrite
  BY <1>25, IdentityAssumption
  DEF ForeignWrite, FilesTyped, ControlTyped, ToldTyped, Content, control, local, told
<1>26. CASE UNCHANGED vars
  BY <1>26 DEF vars, FilesTyped, ControlTyped, ToldTyped, files, control, local, told
<1> QED
  BY <1>1, <1>2, <1>3, <1>4, <1>5, <1>6, <1>7, <1>8, <1>9, <1>10, <1>11, <1>12, <1>13, <1>14, <1>15, <1>16, <1>17, <1>18, <1>19, <1>20, <1>21, <1>22, <1>23, <1>24, <1>25, <1>26 DEF Next, Step, Returned

\* Whatever fails and whatever other processes do, every variable of the call
\* keeps its type: no loop leaves the plan, no residue entry is malformed.
THEOREM TypeCorrect == Spec => []TypeOK
BY InitTyped, StepTyped, PTL DEF Spec

---------------------------------------------------------------------------
(* Which calls each block of apply_changes makes.                           *)

CommitSteps == {"recheck", "displace", "displaced", "install", "installed", "confirm", "verify"}
RestorationSteps == {"classify", "quarantine", "quarantined", "restore", "restored",
                     "settle", "unquarantine"}
EndingSteps == {"unstage", "remaining", "conclude"}

InPhase ==
  /\ phase = "check" => step = "probe"
  /\ phase = "stage" => step = "stage"
  /\ phase = "abandon" => step \in {"unstage", "conclude"}
  /\ phase = "commit" => step \in CommitSteps
  /\ phase = "rollback" => step \in RestorationSteps \cup EndingSteps \cup {"sweep"}
  /\ phase = "cleanup" => step \in EndingSteps \cup {"cleanup", "close"}
  /\ phase = "ended" => step = "done"

\* The staging loop has staged every change before the one it is at.
StagedSoFar == phase = "stage" => \A c \in Change : c < index => stage[c] = After[c]

StagedInv == TypeOK /\ InPhase /\ StagedSoFar /\ StagedBeforeReplace

Planned(c) == base[c] = Expected[c] /\ Expected[c] # Absent

\* Until its displacement a destination holds what it held at the start.
NotDisplaced(c) ==
  \/ phase \in {"check", "stage"}
  \/ step = "recheck"
  \/ phase = "commit" /\ step # "verify" /\ c > index
  \/ step = "displace" /\ c = index

Untouched == \A c \in Change : NotDisplaced(c) => dest[c] = base[c]

\* Nothing is installed over a name before its preimage is the backup.
BackedUp == step \in {"install", "installed"} /\ Planned(index) => backup[index] = Expected[index]

\* What the rollback decides on is what lies at the destination.
SeenIsCurrent ==
  /\ step \in {"quarantine", "restore", "settle"} => seen = dest[index]
  /\ step = "quarantine" => seen = After[index]

PriorInv == TypeOK /\ InPhase /\ Untouched /\ BackedUp /\ SeenIsCurrent /\ PriorNeverLost

LEMMA PhaseOfStep ==
  ASSUME TypeOK, InPhase
  PROVE  /\ step = "probe" => phase = "check"
         /\ step = "stage" => phase = "stage"
         /\ step \in CommitSteps => phase = "commit"
         /\ step \in RestorationSteps => phase = "rollback"
BY DEF TypeOK, ControlTyped, InPhase, Phases, CommitSteps, RestorationSteps, EndingSteps

LEMMA PhaseStep ==
  ASSUME TypeOK, InPhase, [Next]_vars
  PROVE  InPhase'
<1> USE DEF InPhase, TypeOK, ControlTyped, Phases, CommitSteps, RestorationSteps, EndingSteps
<1>1. CASE Probe
  BY <1>1 DEF Probe, EachChange, GoTo, Return
<1>2. CASE Stage
  BY <1>2 DEF Stage, EachChange, GoTo
<1>3. CASE Unstage
  BY <1>3 DEF Unstage, EachChange, GoTo, AfterUnstaging
<1>4. CASE Recheck
  BY <1>4 DEF Recheck, EachChange, GoTo, RollBack
<1>5. CASE Displace
  BY <1>5 DEF Displace, GoTo
<1>6. CASE Displaced
  BY <1>6 DEF Displaced, GoTo, RollBack
<1>7. CASE Install
  BY <1>7 DEF Install, GoTo
<1>8. CASE Installed
  BY <1>8 DEF Installed, GoTo, RollBack
<1>9. CASE Confirm
  BY <1>9 DEF Confirm, NextInstallation, GoTo, RollBack
<1>10. CASE Verify
  BY <1>10 DEF Verify, GoTo, RollBack
<1>11. CASE Classify
  BY <1>11 DEF Classify, GoTo
<1>12. CASE Quarantine
  BY <1>12 DEF Quarantine, GoTo
<1>13. CASE Quarantined
  BY <1>13 DEF Quarantined, GoTo, GiveUp, NextRestoration
<1>14. CASE Restore
  BY <1>14 DEF Restore, GoTo
<1>15. CASE Restored
  BY <1>15 DEF Restored, GoTo, GiveUp, NextRestoration
<1>16. CASE Settle
  BY <1>16 DEF Settle, GoTo
<1>17. CASE Unquarantine
  BY <1>17 DEF Unquarantine, GoTo, NextRestoration
<1>18. CASE RestorationFails
  BY <1>18 DEF RestorationFails, GoTo, NextRestoration
<1>19. CASE Sweep
  BY <1>19 DEF Sweep, GoTo
<1>20. CASE Cleanup
  BY <1>20 DEF Cleanup, EachChange, GoTo
<1>21. CASE Remaining
  BY <1>21 DEF Remaining, EachChange, GoTo
<1>22. CASE Conclude
  BY <1>22 DEF Conclude, GoTo, Return, ReturnResidue
<1>23. CASE Close
  BY <1>23 DEF Close, GoTo, Return
<1>24. CASE Interrupt
  BY <1>24 DEF Interrupt, Unclassified, GoTo, Return
<1>25. CASE ForeignWrite
  BY <1>25 DEF ForeignWrite, control
<1>26. CASE UNCHANGED vars
  BY <1>26 DEF vars, control
<1> QED
  BY <1>1, <1>2, <1>3, <1>4, <1>5, <1>6, <1>7, <1>8, <1>9, <1>10, <1>11, <1>12, <1>13, <1>14, <1>15, <1>16, <1>17, <1>18, <1>19, <1>20, <1>21, <1>22, <1>23, <1>24, <1>25, <1>26 DEF Next, Step, Returned

\* The steps of the blocks that undo, clean up and report.
LaterStep ==
  \/ Unstage \/ Classify \/ Quarantine \/ Quarantined \/ Restore \/ Restored
  \/ Settle \/ Unquarantine \/ RestorationFails \/ Sweep
  \/ Cleanup \/ Remaining \/ Conclude \/ Close \/ Interrupt

\* None of them goes back to staging or committing.
LEMMA LaterPhases ==
  ASSUME TypeOK, InPhase, LaterStep
  PROVE  phase \notin {"check", "stage", "commit"} /\ phase' \in {phase, "ended"}
<1> USE DEF InPhase, TypeOK, ControlTyped, Phases, CommitSteps
<1>1. CASE Unstage
  BY <1>1 DEF Unstage, EachChange, GoTo
<1>2. CASE Classify
  BY <1>2 DEF Classify, GoTo
<1>3. CASE Quarantine
  BY <1>3 DEF Quarantine, GoTo
<1>4. CASE Quarantined
  BY <1>4 DEF Quarantined, GoTo, GiveUp, NextRestoration
<1>5. CASE Restore
  BY <1>5 DEF Restore, GoTo
<1>6. CASE Restored
  BY <1>6 DEF Restored, GoTo, GiveUp, NextRestoration
<1>7. CASE Settle
  BY <1>7 DEF Settle, GoTo
<1>8. CASE Unquarantine
  BY <1>8 DEF Unquarantine, GoTo, NextRestoration
<1>9. CASE RestorationFails
  BY <1>9 DEF RestorationFails, GoTo, NextRestoration
<1>10. CASE Sweep
  BY <1>10 DEF Sweep, GoTo
<1>11. CASE Cleanup
  BY <1>11 DEF Cleanup, EachChange, GoTo
<1>12. CASE Remaining
  BY <1>12 DEF Remaining, EachChange, GoTo
<1>13. CASE Conclude
  BY <1>13 DEF Conclude, GoTo, Return, ReturnResidue
<1>14. CASE Close
  BY <1>14 DEF Close, GoTo, Return
<1>15. CASE Interrupt
  BY <1>15 DEF Interrupt, Unclassified, GoTo, Return
<1> QED
  BY <1>1, <1>2, <1>3, <1>4, <1>5, <1>6, <1>7, <1>8, <1>9, <1>10, <1>11, <1>12, <1>13, <1>14, <1>15 DEF LaterStep

---------------------------------------------------------------------------
LEMMA InitStaged == Init => StagedInv
<1> SUFFICES ASSUME Init PROVE StagedInv
  OBVIOUS
<1>1. TypeOK
  BY InitTyped
<1> QED
  BY <1>1 DEF Init, StagedInv, InPhase, StagedSoFar, StagedBeforeReplace

LEMMA StepStaged ==
  ASSUME StagedInv, [Next]_vars
  PROVE  StagedInv'
<1>1. TypeOK' /\ InPhase'
  BY StepTyped, PhaseStep DEF StagedInv
<1> USE <1>1, PhaseOfStep DEF StagedInv, InPhase, TypeOK, ControlTyped, FilesTyped
<1>2. CASE Probe
  BY <1>2, NAssumption DEF Probe, EachChange, GoTo, Return, StagedSoFar, StagedBeforeReplace, Change
<1>3. CASE Stage
  <2>1. \A c \in Change : c < index => stage[c] = After[c]
    BY <1>3 DEF Stage, StagedSoFar, Phases
  <2>2. CASE stage' = [stage EXCEPT ![index] = After[index]] /\ EachChange("commit", "recheck")
    <3>1. \A c \in Change : c <= index => stage'[c] = After[c]
      BY <2>1, <2>2 DEF Change
    <3>2. index < N => phase' = "stage" /\ index' = index + 1
      BY <1>3, <2>2 DEF Stage, EachChange, GoTo
    <3>3. ~(index < N) => step' = "recheck" /\ index = N
      BY <2>2, NAssumption DEF EachChange, GoTo, Change
    <3> QED
      BY <3>1, <3>2, <3>3, NAssumption DEF StagedSoFar, StagedBeforeReplace, Change, Phases
  <2>3. CASE GoTo("abandon", "unstage", 1)
    BY <2>3 DEF GoTo, StagedSoFar, StagedBeforeReplace
  <2> QED
    BY <1>3, <2>2, <2>3 DEF Stage
<1>4. CASE Recheck
  BY <1>4 DEF Recheck, EachChange, GoTo, RollBack, files, StagedSoFar, StagedBeforeReplace, Change, CommitSteps
<1>5. CASE Displace
  <2>1. UNCHANGED stage /\ step' \in {"install", "displaced"} /\ phase' = phase /\ index' = index
    BY <1>5 DEF Displace, MoveAside, files, GoTo
  <2> QED
    BY <1>5, <2>1 DEF Displace, StagedSoFar, StagedBeforeReplace, Change
<1>6. CASE Displaced
  BY <1>6 DEF Displaced, GoTo, RollBack, files, StagedSoFar, StagedBeforeReplace, Change
<1>7. CASE Install
  <2>1. step' \in {"confirm", "installed"} /\ phase' = phase /\ index' = index
    BY <1>7 DEF Install, GoTo
  <2>2. \A c \in Change : c # index => stage'[c] = stage[c]
    BY <1>7 DEF Install, MoveIn, files
  <2>3. step = "install"
    BY <1>7 DEF Install
  <2> QED
    BY <2>1, <2>2, <2>3 DEF StagedSoFar, StagedBeforeReplace, Change
<1>8. CASE Installed
  BY <1>8 DEF Installed, GoTo, RollBack, files, StagedSoFar, StagedBeforeReplace, Change
<1>9. CASE Confirm
  BY <1>9 DEF Confirm, NextInstallation, GoTo, RollBack, files, StagedSoFar, StagedBeforeReplace, Change
<1>10. CASE Verify
  BY <1>10 DEF Verify, GoTo, RollBack, StagedSoFar, StagedBeforeReplace
<1>11. CASE LaterStep
  BY <1>11, LaterPhases DEF StagedSoFar, StagedBeforeReplace
<1>12. CASE ForeignWrite
  BY <1>12 DEF ForeignWrite, control, StagedSoFar, StagedBeforeReplace
<1>13. CASE UNCHANGED vars
  BY <1>13 DEF vars, files, control, StagedSoFar, StagedBeforeReplace
<1> QED
  BY <1>2, <1>3, <1>4, <1>5, <1>6, <1>7, <1>8, <1>9, <1>10, <1>11, <1>12, <1>13
  DEF Next, Step, LaterStep, Returned

\* transaction.py stages the whole plan before the first public rename: whatever
\* fails and whatever other processes write, the staged object of every change
\* lies complete until that change is installed.
THEOREM StagingPrecedesCommit == Spec => []StagedBeforeReplace
<1>1. StagedInv /\ [Next]_vars => StagedInv'
  BY StepStaged
<1> QED
  BY InitStaged, <1>1, PTL DEF Spec, StagedInv

---------------------------------------------------------------------------
(* The preimage.  A preimage counts as planned when the plan is not stale.   *)

\* A step of the blocks after the commit that moves neither a destination nor a
\* backup cannot lose a preimage.
LEMMA LaterKeepsPrior ==
  ASSUME PriorInv, TypeOK', InPhase', LaterStep
  PROVE  /\ Untouched' /\ BackedUp' /\ phase' \in {phase, "ended"}
         /\ UNCHANGED <<dest, backup, base>> => PriorNeverLost'
<1>1. phase \notin {"check", "stage", "commit"} /\ phase' \in {phase, "ended"}
  BY LaterPhases DEF PriorInv
<1>2. step' \notin {"recheck", "displace", "install", "installed"}
  BY <1>1, PhaseOfStep DEF InPhase, TypeOK, ControlTyped, Phases, CommitSteps, RestorationSteps, EndingSteps
<1>3. Untouched' /\ BackedUp'
  BY <1>1, <1>2 DEF Untouched, NotDisplaced, BackedUp
<1>4. UNCHANGED <<dest, backup, base>> => PriorNeverLost'
  BY <1>1 DEF PriorInv, PriorNeverLost
<1> QED
  BY <1>1, <1>3, <1>4

LEMMA InitPrior == Init => PriorInv
<1> SUFFICES ASSUME Init PROVE PriorInv
  OBVIOUS
<1>1. TypeOK
  BY InitTyped
<1> QED
  BY <1>1 DEF Init, PriorInv, InPhase, Untouched, BackedUp, SeenIsCurrent, PriorNeverLost

LEMMA StepPrior ==
  ASSUME Foreign = {}, PriorInv, [Next]_vars
  PROVE  PriorInv'
<1>1. TypeOK' /\ InPhase'
  BY StepTyped, PhaseStep DEF PriorInv
<1> USE <1>1, PhaseOfStep DEF PriorInv, TypeOK, ControlTyped, FilesTyped
<1>2. CASE Probe
  BY <1>2, NAssumption DEF Probe, EachChange, GoTo, Return, files, local, Untouched, NotDisplaced, BackedUp, SeenIsCurrent, PriorNeverLost, Planned
<1>3. CASE Stage
  BY <1>3, NAssumption DEF Stage, EachChange, GoTo, local, Untouched, NotDisplaced, BackedUp, SeenIsCurrent, PriorNeverLost, Planned
<1>4. CASE Recheck
  BY <1>4 DEF Recheck, EachChange, GoTo, RollBack, files, local, Change, CommitSteps, Untouched, NotDisplaced, BackedUp, SeenIsCurrent, PriorNeverLost, Planned
<1>5. CASE Displace
  BY <1>5 DEF Displace, MoveAside, files, GoTo, local, Change, CommitSteps, Untouched, NotDisplaced, BackedUp, SeenIsCurrent, PriorNeverLost, Planned
<1>6. CASE Displaced
  BY <1>6 DEF Displaced, DisplaceTookEffect, GoTo, RollBack, files, local, Change, CommitSteps, Untouched, NotDisplaced, BackedUp, SeenIsCurrent, PriorNeverLost, Planned
<1>7. CASE Install
  BY <1>7 DEF Install, MoveIn, files, GoTo, local, Change, CommitSteps, Untouched, NotDisplaced, BackedUp, SeenIsCurrent, PriorNeverLost, Planned
<1>8. CASE Installed
  BY <1>8 DEF Installed, GoTo, RollBack, files, local, Change, CommitSteps, Untouched, NotDisplaced, BackedUp, SeenIsCurrent, PriorNeverLost, Planned
<1>9. CASE Confirm
  BY <1>9 DEF Confirm, NextInstallation, GoTo, RollBack, files, local, Change, CommitSteps, Untouched, NotDisplaced, BackedUp, SeenIsCurrent, PriorNeverLost, Planned
<1>10. CASE Verify
  BY <1>10 DEF Verify, GoTo, RollBack, files, local, CommitSteps, Untouched, NotDisplaced, BackedUp, SeenIsCurrent, PriorNeverLost, Planned
<1>11. CASE LaterStep
  <2>1. /\ Untouched' /\ BackedUp' /\ phase' \in {phase, "ended"}
        /\ UNCHANGED <<dest, backup, base>> => PriorNeverLost'
    BY <1>11, LaterKeepsPrior
  <2> USE DEF SeenIsCurrent
  <2>2. CASE Unstage
    BY <2>1, <2>2 DEF Unstage, EachChange, GoTo, AfterUnstaging
  <2>3. CASE Classify
    BY <2>1, <2>3 DEF Classify, MustQuarantine, GoTo, files
  <2>4. CASE Quarantine
    <3>1. dest[index] = After[index] /\ After[index] # Expected[index]
      BY <2>4, PlanAssumption DEF Quarantine
    <3>2. phase = "rollback" /\ UNCHANGED <<backup, base>>
      BY <2>4 DEF Quarantine, MoveOut, files, RestorationSteps
    <3>3. \A c \in Change : dest'[c] = dest[c] \/ c = index
      BY <2>4 DEF Quarantine, MoveOut, files
    <3>4. PriorNeverLost'
      BY <3>1, <3>2, <3>3 DEF PriorNeverLost
    <3> QED
      BY <2>1, <2>4, <3>4 DEF Quarantine, GoTo
  <2>5. CASE Quarantined
    BY <2>1, <2>5 DEF Quarantined, GiveUp, NextRestoration, GoTo, files
  <2>6. CASE Restore
    <3>1. phase = "rollback" /\ seen = dest[index]
      BY <2>6 DEF Restore, RestorationSteps
    <3>2. PriorNeverLost'
      BY <2>1, <2>6, <3>1 DEF Restore, CanRestore, MoveBack, files, PriorNeverLost
    <3> QED
      BY <2>1, <2>6, <3>2 DEF Restore, GoTo, files
  <2>7. CASE Restored
    BY <2>1, <2>7 DEF Restored, GiveUp, NextRestoration, GoTo, files
  <2>8. CASE Settle
    <3>1. phase = "rollback" /\ seen = dest[index] /\ UNCHANGED <<dest, base>>
      BY <2>8 DEF Settle, RestorationSteps
    <3>2. \A c \in Change : c # index \/ dest[index] # Expected[index] => backup'[c] = backup[c]
      BY <2>8, <3>1 DEF Settle
    <3>3. PriorNeverLost'
      BY <3>1, <3>2 DEF PriorNeverLost
    <3> QED
      BY <2>1, <2>8, <3>3 DEF Settle, GoTo
  <2>9. CASE Unquarantine
    BY <2>1, <2>9 DEF Unquarantine, NextRestoration, GoTo
  <2>10. CASE RestorationFails
    BY <2>1, <2>10 DEF RestorationFails, NextRestoration, GoTo, files
  <2>11. CASE Sweep
    BY <2>1, <2>11 DEF Sweep, GoTo, files
  <2>12. CASE Cleanup
    <3>1. phase = "cleanup"
      BY <2>12 DEF Cleanup, InPhase, Phases, CommitSteps, RestorationSteps, EndingSteps
    <3> QED
      BY <2>1, <2>12, <3>1 DEF Cleanup, EachChange, GoTo, PriorNeverLost
  <2>13. CASE Remaining
    BY <2>1, <2>13 DEF Remaining, EachChange, GoTo, files
  <2>14. CASE Conclude
    BY <2>1, <2>14 DEF Conclude, Return, ReturnResidue, GoTo, files
  <2>15. CASE Close
    BY <2>1, <2>15 DEF Close, Return, GoTo, files
  <2>16. CASE Interrupt
    BY <2>1, <2>16 DEF Interrupt, Unclassified, Return, GoTo, files
  <2> QED
    BY <1>11, <2>2, <2>3, <2>4, <2>5, <2>6, <2>7, <2>8, <2>9, <2>10, <2>11, <2>12, <2>13, <2>14, <2>15, <2>16 DEF LaterStep
<1>12. CASE ForeignWrite
  BY <1>12 DEF ForeignWrite
<1>13. CASE UNCHANGED vars
  BY <1>13 DEF vars, files, control, local, Untouched, NotDisplaced, BackedUp, SeenIsCurrent, PriorNeverLost, Planned
<1> QED
  BY <1>2, <1>3, <1>4, <1>5, <1>6, <1>7, <1>8, <1>9, <1>10, <1>11, <1>12, <1>13
  DEF Next, Step, LaterStep, Returned

\* While no other process writes, the preimage of every change of a plan that is
\* not stale exists, in place or as a backup, whatever fails and wherever.
THEOREM PriorKept ==
  ASSUME Foreign = {}
  PROVE  Spec => []PriorNeverLost
<1>1. PriorInv /\ [Next]_vars => PriorInv'
  BY StepPrior
<1> QED
  BY InitPrior, <1>1, PTL DEF Spec, PriorInv

=============================================================================
