---------------------------- MODULE OutcomeProofs ----------------------------
(***************************************************************************)
(* What apply_changes tells its caller, for every plan and every set of    *)
(* failing phases: what it leaves at its private names is named in its     *)
(* residue, whatever other processes do, and its exit code and its changed *)
(* paths are right while nobody else writes and SIGINT finds it guarded.   *)
(* The last part is about a call that others write beside.                 *)
(***************************************************************************)
EXTENDS TransactionProofs

---------------------------------------------------------------------------
(* The private names                                                       *)

Accounted(slot, contents, c) == contents[c] # Absent => Reported(slot, c)

\* A private name holds an object only if the change has one for it, and only
\* after the block that makes it has begun.
Placed ==
  /\ \A c \in Change : stage[c] # Absent => HasStage(c)
  /\ phase \in {"commit", "cleanup"} => \A c \in Change : backup[c] # Absent => Expected[c] # Absent
  /\ phase = "check" => \A c \in Change : stage[c] = Absent
  /\ phase \in {"check", "stage", "abandon"} => \A c \in Change : backup[c] = Absent
  /\ phase \notin {"rollback", "ended"} => \A c \in Change : rollback[c] = Absent

StagesAccounted ==
  /\ step = "unstage" => \A c \in Change : c < index => Accounted("stage", stage, c)
  /\ step \in {"sweep", "remaining", "conclude", "close"} =>
       \A c \in Change : Accounted("stage", stage, c)

BackupsAccounted ==
  /\ step = "cleanup" => \A c \in Change : c < index => Accounted("backup", backup, c)
  /\ phase = "cleanup" /\ step # "cleanup" => \A c \in Change : Accounted("backup", backup, c)
  /\ phase = "rollback" /\ step \in {"remaining", "conclude"} =>
       \A c \in Change : Accounted("backup", backup, c) /\ Accounted("rollback", rollback, c)

AllAccounted ==
  \A c \in Change :
    /\ Accounted("stage", stage, c) /\ Accounted("backup", backup, c)
    /\ Accounted("rollback", rollback, c)

ResidueInv ==
  /\ TypeOK /\ InPhase /\ Placed /\ StagesAccounted /\ BackupsAccounted
  /\ step = "done" => AllAccounted \/ (Interruptible /\ ExitCode = 130)

LEMMA RemovalNames ==
  ASSUME NEW content, NEW expected, NEW r \in RemoveExpected(content, expected)
  PROVE  /\ r.left # Absent => r.named # Absent
         /\ content = Absent => r.left = Absent
BY IdentityAssumption DEF RemoveExpected

LEMMA EntryReports ==
  ASSUME NEW slot, NEW c \in Change, NEW identity, identity # Absent,
         Entry(slot, c, identity) \subseteq residue'
  PROVE  Reported(slot, c)'
BY DEF Entry, Named, Reported

\* The residue only grows.
LEMMA ReportsStay ==
  ASSUME NEW slot, NEW c, residue \subseteq residue', Reported(slot, c)
  PROVE  Reported(slot, c)'
BY DEF Reported

\* Nothing else moves an object to a private name, or names one less.
LEMMA StillAccounted ==
  ASSUME NEW slot, NEW c, NEW contents, Accounted(slot, contents, c), residue \subseteq residue'
  PROVE  contents[c] # Absent => Reported(slot, c)'
BY ReportsStay DEF Accounted

LEMMA InitResidue == Init => ResidueInv
<1> SUFFICES ASSUME Init PROVE ResidueInv OBVIOUS
<1>1. TypeOK BY InitTyped
<1> QED
  BY <1>1 DEF Init, ResidueInv, InPhase, Placed, StagesAccounted, BackupsAccounted

LEMMA ResidueGrows == ASSUME [Next]_vars PROVE residue \subseteq residue'
BY DEF Next, Step, Probe, Stage, Unstage, Recheck, Displace, Displaced, Install, Installed, Confirm,
       Verify, Classify, Quarantine, Quarantined, GiveUp, Restore, Restored, Settle, Unquarantine,
       RestorationFails, Sweep, Cleanup, Remaining, Conclude, Close, Interrupt, ForeignWrite,
       Returned, Return, ReturnResidue, told, vars

\* At the end of each block everything is accounted for.
LEMMA EndOfBlock ==
  ASSUME ResidueInv, step \in {"conclude", "close"}
  PROVE  AllAccounted
<1>1. phase \in {"abandon", "rollback", "cleanup"} /\ (step = "close" => phase = "cleanup")
  BY DEF ResidueInv, TypeOK, ControlTyped, InPhase, Phases, CommitSteps, RestorationSteps,
         EndingSteps
<1> QED
  BY <1>1 DEF ResidueInv, Placed, StagesAccounted, BackupsAccounted, AllAccounted, Accounted

\* A step that leaves the private names alone loses no account of them.
LEMMA NamesAlone ==
  ASSUME ResidueInv, residue \subseteq residue', UNCHANGED <<stage, backup, rollback>>,
         NEW slot, NEW contents \in {stage, backup, rollback}, NEW c \in Change,
         Accounted(slot, contents, c)
  PROVE  contents' = contents /\ (contents[c] # Absent => Reported(slot, c)')
BY StillAccounted

\* The steps up to the end of the commit.
LEMMA ForwardAccounted ==
  ASSUME ResidueInv, [Next]_vars,
         Probe \/ Stage \/ Recheck \/ Displace \/ Displaced \/ Install \/ Installed \/ Confirm \/ Verify
  PROVE  ResidueInv'
<1>1. TypeOK' /\ InPhase' BY StepTyped, PhaseStep DEF ResidueInv
<1> USE <1>1 DEF ResidueInv
<1>2. CASE Probe
  <2>1. phase = "check" /\ UNCHANGED <<stage, backup, rollback>>
    BY <1>2, PhaseOfStep DEF Probe, files
  <2>2. AllAccounted' BY <2>1 DEF Placed, AllAccounted, Accounted
  <2>3. phase' \in {"check", "stage", "ended"} /\ step' \in {"probe", "stage", "done"}
    BY <1>2, <2>1 DEF Probe, EachChange, GoTo, Return
  <2> QED BY <2>1, <2>2, <2>3 DEF Placed, StagesAccounted, BackupsAccounted
<1>3. CASE Stage
  <2>1. phase = "stage" /\ UNCHANGED <<backup, rollback>>
    BY <1>3, PhaseOfStep DEF Stage
  <2>2. \A c \in Change : stage'[c] # Absent => HasStage(c)
    BY <1>3 DEF Stage, Placed, HasStage, TypeOK, FilesTyped
  <2>3. \/ phase' \in {"stage", "commit"} /\ step' \in {"stage", "recheck"}
        \/ phase' = "abandon" /\ step' = "unstage" /\ index' = 1
    BY <1>3, <2>1 DEF Stage, EachChange, GoTo
  <2> QED
    BY <2>1, <2>2, <2>3 DEF Placed, StagesAccounted, BackupsAccounted, Change
<1>4. CASE Displace
  <2>1. phase = "commit" /\ phase' = "commit" /\ step' \in {"install", "displaced"}
    BY <1>4, PhaseOfStep DEF Displace, GoTo, CommitSteps
  <2>2. UNCHANGED <<stage, rollback>> BY <1>4 DEF Displace, MoveAside, files
  <2>3. \A c \in Change : backup'[c] # Absent => Expected[c] # Absent
    BY <1>4, <2>1 DEF Displace, MoveAside, files, Placed, TypeOK, FilesTyped
  <2> QED BY <2>1, <2>2, <2>3 DEF Placed, StagesAccounted, BackupsAccounted
<1>5. CASE Install
  <2>1. phase = "commit" /\ phase' = "commit" /\ step' \in {"confirm", "installed"}
    BY <1>5, PhaseOfStep DEF Install, GoTo, CommitSteps
  <2>2. UNCHANGED <<backup, rollback>> BY <1>5 DEF Install, MoveIn, files
  <2>3. \A c \in Change : stage'[c] # Absent => HasStage(c)
    BY <1>5 DEF Install, MoveIn, files, Placed, TypeOK, FilesTyped
  <2> QED BY <2>1, <2>2, <2>3 DEF Placed, StagesAccounted, BackupsAccounted
<1>6. CASE Recheck \/ Displaced \/ Installed \/ Confirm \/ Verify
  <2>1. phase = "commit" /\ UNCHANGED <<stage, backup, rollback>>
    BY <1>6, PhaseOfStep DEF Recheck, Displaced, Installed, Confirm, Verify, files, CommitSteps
  <2>2. \/ phase' = "commit" /\ step' \in CommitSteps
        \/ phase' = "rollback" /\ step' = "classify"
        \/ phase' = "cleanup" /\ step' = "cleanup" /\ index' = 1
    BY <1>6, <2>1 DEF Recheck, Displaced, Installed, Confirm, Verify, EachChange, NextInstallation,
                      RollBack, GoTo, CommitSteps
  <2> QED
    BY <2>1, <2>2 DEF Placed, StagesAccounted, BackupsAccounted, CommitSteps, Change
<1> QED BY <1>2, <1>3, <1>4, <1>5, <1>6

\* The steps of the rollback up to the sweep, which may leave anything.
LEMMA RestorationAccounted ==
  ASSUME ResidueInv, [Next]_vars,
         Classify \/ Quarantine \/ Quarantined \/ Restore \/ Restored \/ Settle \/ Unquarantine
           \/ RestorationFails
  PROVE  ResidueInv'
<1>1. TypeOK' /\ InPhase' BY StepTyped, PhaseStep DEF ResidueInv
<1>2. step \in RestorationSteps /\ phase = "rollback"
  BY PhaseOfStep DEF ResidueInv, Classify, Quarantine, Quarantined, Restore, Restored, Settle,
                     Unquarantine, RestorationFails, RestorationSteps
<1>3. phase' = "rollback"
  BY <1>2 DEF Classify, Quarantine, Quarantined, GiveUp, Restore, Restored, Settle, Unquarantine,
              RestorationFails, NextRestoration, GoTo
<1>4. step' \in RestorationSteps \/ (step' = "unstage" /\ index' = 1)
  BY DEF Classify, Quarantine, Quarantined, GiveUp, Restore, Restored, Settle, Unquarantine,
         RestorationFails, NextRestoration, GoTo, RestorationSteps
<1>5. UNCHANGED stage
  BY DEF Classify, Quarantine, MoveOut, Quarantined, Restore, MoveBack, Restored, Settle,
         Unquarantine, RestorationFails, files
<1> QED
  BY <1>1, <1>2, <1>3, <1>4, <1>5
  DEF ResidueInv, Placed, StagesAccounted, BackupsAccounted, RestorationSteps, Change

\* _stage_residue, in each of the three blocks that call it.
LEMMA UnstageAccounted ==
  ASSUME ResidueInv, [Next]_vars, Unstage
  PROVE  ResidueInv'
<1>1. TypeOK' /\ InPhase' BY StepTyped, PhaseStep DEF ResidueInv
<1>2. residue \subseteq residue' BY ResidueGrows
<1>3. step = "unstage" /\ UNCHANGED <<backup, rollback>> /\ index \in Change
  BY DEF Unstage, ResidueInv, TypeOK, ControlTyped
<1>4. phase \in {"abandon", "rollback", "cleanup"}
  BY <1>3 DEF ResidueInv, TypeOK, ControlTyped, InPhase, Phases, CommitSteps
<1>5. ASSUME NEW c \in Change, c = index PROVE Accounted("stage", stage, c)'
  <2>1. CASE HasStage(index)
    <3>1. PICK r \in RemoveExpected(stage[index], After[index]) :
            /\ stage' = [stage EXCEPT ![index] = r.left]
            /\ residue' = residue \cup Entry("stage", index, r.named)
      BY <2>1 DEF Unstage
    <3>2. stage'[c] = r.left BY <1>3, <1>5, <3>1 DEF ResidueInv, TypeOK, FilesTyped
    <3>3. ASSUME r.left # Absent PROVE Reported("stage", c)'
      <4>1. r.named # Absent BY <3>3, RemovalNames
      <4>2. Entry("stage", c, r.named) \subseteq residue' BY <1>5, <3>1
      <4> QED BY <4>1, <4>2, EntryReports
    <3> QED BY <3>2, <3>3 DEF Accounted
  <2>2. CASE ~HasStage(index)
    BY <1>3, <1>5, <2>2 DEF Unstage, ResidueInv, Placed, Accounted
  <2> QED BY <2>1, <2>2
<1>6. \A c \in Change : c # index => stage'[c] = stage[c]
  BY DEF Unstage, ResidueInv, TypeOK, FilesTyped
<1>7. \A c \in Change : c <= index => Accounted("stage", stage, c)'
  <2> TAKE c \in Change
  <2>1. CASE c = index BY <1>5, <2>1
  <2>2. CASE c # index
    <3>1. c <= index => Accounted("stage", stage, c)
      BY <1>3, <2>2 DEF ResidueInv, StagesAccounted, Change
    <3> QED BY <1>2, <1>6, <2>2, <3>1, ReportsStay DEF Accounted
  <2> QED BY <2>1, <2>2
<1>8. /\ phase' = phase
      /\ \/ step' = "unstage" /\ index' = index + 1
         \/ step' \in {"conclude", "sweep", "remaining"} /\ index = N
      /\ phase = "rollback" => step' \in {"unstage", "sweep"}
  BY <1>3, <1>4, NAssumption DEF Unstage, EachChange, AfterUnstaging, GoTo, Change
<1>9. StagesAccounted'
  BY <1>3, <1>7, <1>8, NAssumption DEF StagesAccounted, Change
<1>10. phase = "cleanup" => \A c \in Change : Accounted("backup", backup, c)'
  BY <1>2, <1>3, StillAccounted DEF ResidueInv, BackupsAccounted, Accounted
<1>11. BackupsAccounted'
  BY <1>4, <1>8, <1>10 DEF BackupsAccounted
<1>12. \A c \in Change : stage'[c] # Absent => HasStage(c)
  BY <1>6 DEF Unstage, ResidueInv, Placed, HasStage
<1>13. Placed' BY <1>3, <1>4, <1>8, <1>12 DEF ResidueInv, Placed
<1> QED BY <1>1, <1>8, <1>9, <1>11, <1>13 DEF ResidueInv

\* The last look at the private names of a rollback.
LEMMA SweepAccounted ==
  ASSUME ResidueInv, [Next]_vars, Sweep
  PROVE  ResidueInv'
<1>1. TypeOK' /\ InPhase' BY StepTyped, PhaseStep DEF ResidueInv
<1>2. residue \subseteq residue' BY ResidueGrows
<1>3. step = "sweep" /\ step' = "remaining" /\ UNCHANGED <<stage, backup, rollback, phase>>
  BY DEF Sweep, GoTo, files
<1>4. phase = "rollback"
  BY <1>3 DEF ResidueInv, TypeOK, ControlTyped, InPhase, Phases, CommitSteps, EndingSteps
<1>5. \A c \in Change : Accounted("stage", stage, c)'
  BY <1>2, <1>3, ReportsStay DEF ResidueInv, StagesAccounted, Accounted
<1>6. ASSUME NEW slot \in {"backup", "rollback"}, NEW c \in Change,
             NEW contents, contents = (IF slot = "backup" THEN backup ELSE rollback),
             contents[c] # Absent
      PROVE  Reported(slot, c)'
  <2>1. CASE c \in Unnamed(slot)
    <3>1. PICK identity : identity # Absent /\ Entry(slot, c, identity) \subseteq residue'
      BY <1>6, <2>1, IdentityAssumption DEF Sweep
    <3> QED BY <3>1, EntryReports
  <2>2. CASE c \notin Unnamed(slot)
    BY <1>2, <2>2, ReportsStay DEF Unnamed, Reported
  <2> QED BY <2>1, <2>2
<1>7. \A c \in Change : Accounted("backup", backup, c)' /\ Accounted("rollback", rollback, c)'
  BY <1>3, <1>6 DEF Accounted
<1> QED
  BY <1>1, <1>3, <1>4, <1>5, <1>7 DEF ResidueInv, Placed, StagesAccounted, BackupsAccounted

\* The backups of a commit that is over.
LEMMA CleanupAccounted ==
  ASSUME ResidueInv, [Next]_vars, Cleanup
  PROVE  ResidueInv'
<1>1. TypeOK' /\ InPhase' BY StepTyped, PhaseStep DEF ResidueInv
<1>2. residue \subseteq residue' BY ResidueGrows
<1>3. step = "cleanup" /\ UNCHANGED <<stage, rollback>> /\ index \in Change
  BY DEF Cleanup, ResidueInv, TypeOK, ControlTyped
<1>4. phase = "cleanup"
  BY <1>3 DEF ResidueInv, TypeOK, ControlTyped, InPhase, Phases, CommitSteps, RestorationSteps,
              EndingSteps
<1>5. ASSUME NEW c \in Change, c = index
      PROVE  Accounted("backup", backup, c)' /\ (backup'[c] # Absent => Expected[c] # Absent)
  <2>1. CASE Expected[index] # Absent
    <3>1. PICK r \in RemoveExpected(backup[index], Expected[index]) :
            /\ backup' = [backup EXCEPT ![index] = r.left]
            /\ residue' = residue \cup Entry("backup", index, r.named)
      BY <2>1 DEF Cleanup
    <3>2. backup'[c] = r.left BY <1>3, <1>5, <3>1 DEF ResidueInv, TypeOK, FilesTyped
    <3>3. ASSUME r.left # Absent PROVE Reported("backup", c)'
      <4>1. r.named # Absent BY <3>3, RemovalNames
      <4>2. Entry("backup", c, r.named) \subseteq residue' BY <1>5, <3>1
      <4> QED BY <4>1, <4>2, EntryReports
    <3> QED BY <1>5, <2>1, <3>2, <3>3 DEF Accounted
  <2>2. CASE Expected[index] = Absent
    BY <1>3, <1>4, <1>5, <2>2 DEF Cleanup, ResidueInv, Placed, Accounted
  <2> QED BY <2>1, <2>2
<1>6. \A c \in Change : c # index => backup'[c] = backup[c]
  BY DEF Cleanup, ResidueInv, TypeOK, FilesTyped
<1>7. \A c \in Change : c <= index => Accounted("backup", backup, c)'
  <2> TAKE c \in Change
  <2>1. CASE c = index BY <1>5, <2>1
  <2>2. CASE c # index
    <3>1. c <= index => Accounted("backup", backup, c)
      BY <1>3, <2>2 DEF ResidueInv, BackupsAccounted, Change
    <3> QED BY <1>2, <1>6, <2>2, <3>1, ReportsStay DEF Accounted
  <2> QED BY <2>1, <2>2
<1>8. /\ phase' = phase
      /\ \/ step' = "cleanup" /\ index' = index + 1
         \/ step' = "unstage" /\ index = N /\ index' = 1
  BY <1>3, <1>4, NAssumption DEF Cleanup, EachChange, GoTo, Change
<1>9. StagesAccounted' BY <1>8 DEF StagesAccounted, Change
<1>10. BackupsAccounted'
  BY <1>3, <1>4, <1>7, <1>8, NAssumption DEF BackupsAccounted, Change
<1>11. \A c \in Change : backup'[c] # Absent => Expected[c] # Absent
  BY <1>4, <1>5, <1>6 DEF ResidueInv, Placed
<1>12. Placed' BY <1>3, <1>4, <1>8, <1>11 DEF ResidueInv, Placed
<1> QED BY <1>1, <1>8, <1>9, <1>10, <1>12 DEF ResidueInv

\* The steps that only report.
LEMMA ReportingAccounted ==
  ASSUME ResidueInv, [Next]_vars,
         Remaining \/ Conclude \/ Close \/ Interrupt \/ ForeignWrite \/ UNCHANGED vars
  PROVE  ResidueInv'
<1>1. TypeOK' /\ InPhase' BY StepTyped, PhaseStep DEF ResidueInv
<1>2. residue \subseteq residue' BY ResidueGrows
<1>3. UNCHANGED <<stage, backup, rollback>>
  BY DEF Remaining, Conclude, Close, Interrupt, ForeignWrite, vars, files
<1>4. \A c \in Change :
        /\ Accounted("stage", stage, c) => Accounted("stage", stage, c)'
        /\ Accounted("backup", backup, c) => Accounted("backup", backup, c)'
        /\ Accounted("rollback", rollback, c) => Accounted("rollback", rollback, c)'
  BY <1>2, <1>3, ReportsStay DEF Accounted
<1>5. AllAccounted => AllAccounted' BY <1>4 DEF AllAccounted
<1>6. CASE Remaining
  <2>1. step = "remaining" /\ phase' = phase /\ step' \in {"remaining", "conclude"}
    BY <1>6 DEF Remaining, EachChange, GoTo
  <2>2. phase \in {"rollback", "cleanup"}
    BY <2>1 DEF ResidueInv, TypeOK, ControlTyped, InPhase, Phases, CommitSteps
  <2> QED
    BY <1>1, <1>3, <1>4, <2>1, <2>2 DEF ResidueInv, Placed, StagesAccounted, BackupsAccounted
<1>7. CASE Conclude \/ Close
  <2>1. AllAccounted /\ step \in {"conclude", "close"}
    BY <1>7, EndOfBlock DEF Conclude, Close
  <2>2. \/ phase' = "ended" /\ step' = "done"
        \/ phase' = phase /\ phase = "cleanup" /\ step' = "close"
    <3>1. CASE Conclude
      <4>1. phase \in {"abandon", "rollback", "cleanup"}
        BY <3>1 DEF Conclude, ResidueInv, TypeOK, ControlTyped, InPhase, Phases, CommitSteps
      <4> QED BY <3>1, <4>1 DEF Conclude, Return, ReturnResidue, GoTo
    <3>2. CASE Close BY <3>2 DEF Close, Return, GoTo
    <3> QED BY <1>7, <3>1, <3>2
  <2> QED
    BY <1>1, <1>3, <1>5, <2>1, <2>2
    DEF ResidueInv, Placed, StagesAccounted, BackupsAccounted, AllAccounted
<1>8. CASE Interrupt
  <2>1. phase' = "ended" /\ step' = "done" /\ outcome' = "unchanged" /\ raised' = "interrupt"
    BY <1>8 DEF Interrupt, Return, GoTo
  <2>2. Interruptible /\ ExitCode' = 130 BY <1>8, <2>1 DEF ExitCode, Interrupt
  <2> QED
    BY <1>1, <1>3, <2>1, <2>2 DEF ResidueInv, Placed, StagesAccounted, BackupsAccounted
<1>9. CASE ForeignWrite \/ UNCHANGED vars
  <2>1. UNCHANGED <<phase, step, index, raised, outcome>>
    BY <1>9 DEF ForeignWrite, control, told, vars
  <2>2. ExitCode' = ExitCode BY <2>1 DEF ExitCode
  <2> QED
    BY <1>1, <1>3, <1>4, <1>5, <2>1, <2>2
    DEF ResidueInv, Placed, StagesAccounted, BackupsAccounted
<1> QED BY <1>6, <1>7, <1>8, <1>9

LEMMA StepResidue == ASSUME ResidueInv, [Next]_vars PROVE ResidueInv'
BY ForwardAccounted, RestorationAccounted, UnstageAccounted, SweepAccounted, CleanupAccounted,
   ReportingAccounted
DEF Next, Step, Returned

\* An object apply_changes leaves at a private name is named in its residue,
\* unless SIGINT has ended the handler that names it (transaction.py:495-564).
THEOREM ResidueIsNamed == Spec => []ResidueComplete
<1>1. ResidueInv /\ [Next]_vars => ResidueInv' BY StepResidue
<1>2. ResidueInv => ResidueComplete
  BY DEF ResidueInv, AllAccounted, Accounted, ResidueComplete
<1> QED BY InitResidue, <1>1, <1>2, PTL DEF Spec

---------------------------------------------------------------------------
(* The destinations.  Nobody else writes, and SIGINT does not land between *)
(* the calls of a handler (where TransactionSigint shows what it does).    *)

Told(c) == dest[c] # base[c] => c \in changed \/ Reported("dest", c)

\* A plan that is past its first check was not stale.
Fresh ==
  /\ phase = "check" => \A c \in Change : c < index => base[c] = Expected[c]
  /\ phase \notin {"check", "ended"} => \A c \in Change : base[c] = Expected[c]

\* What the blocks have done to the destinations.
Moved ==
  /\ phase \in {"check", "stage", "abandon"} => \A c \in Change : dest[c] = base[c]
  /\ phase = "commit" /\ step # "recheck" => \A c \in Change : c < index => dest[c] = After[c]
  /\ step = "verify" \/ phase = "cleanup" => \A c \in Change : dest[c] = After[c]

\* What has been looked at before the end of a block that has not succeeded.
Looked ==
  /\ step = "remaining" => \A c \in Change : c < index => Told(c)
  /\ step = "conclude" /\ (phase = "rollback" \/ (phase = "cleanup" /\ residue # {})) =>
       \A c \in Change : Told(c)

Raising ==
  phase \in {"abandon", "rollback"} \/ step \in {"displaced", "installed"} =>
    raised \in {"error", "interrupt"}

OutcomeInv ==
  /\ ResidueInv /\ Fresh /\ Moved /\ Looked /\ Raising
  /\ step = "close" => residue = {} /\ outcome = "applied"
  /\ ExitTruthful /\ ChangeReported

LEMMA InitOutcome == Init => OutcomeInv
<1> SUFFICES ASSUME Init PROVE OutcomeInv OBVIOUS
<1>1. ResidueInv BY InitResidue
<1> QED
  BY <1>1, NAssumption
  DEF Init, OutcomeInv, Fresh, Moved, Looked, Raising, ExitTruthful, ChangeReported, Change

LEMMA ExceptionsRaised ==
  ASSUME NEW condition, NEW e \in Unless(condition) \cup Failures
  PROVE  e \in {"error", "interrupt"}
BY DEF Unless, Failures

LEMMA EndsClean ==
  ASSUME AllAccounted, residue = {}
  PROVE  Clean
BY DEF AllAccounted, Accounted, Reported, Clean

LEMMA CheckOutcome ==
  ASSUME OutcomeInv, ResidueInv', Probe \/ Stage
  PROVE  OutcomeInv'
<1> USE NAssumption DEF OutcomeInv, ResidueInv, TypeOK, ControlTyped, Change
<1>1. CASE Probe
  <2>1. phase = "check" /\ UNCHANGED <<files, base>>
    BY <1>1, PhaseOfStep DEF Probe
  <2>2. CASE dest[index] = Expected[index] /\ EachChange("stage", "stage")
    <3>1. \A c \in Change : c <= index => base[c] = Expected[c]
      BY <2>1, <2>2 DEF Fresh, Moved
    <3>2. \/ phase' = "check" /\ step' = "probe" /\ index' = index + 1
          \/ phase' = "stage" /\ step' = "stage" /\ index = N
      BY <1>1, <2>1, <2>2 DEF Probe, EachChange, GoTo
    <3> QED
      BY <2>1, <3>1, <3>2
      DEF files, Fresh, Moved, Looked, Raising, ExitTruthful, ChangeReported
  <2>3. ASSUME NEW e \in Unless(dest[index] = Expected[index]) \cup Failures, Return("unchanged", e)
        PROVE  OutcomeInv'
    <3>1. e \in {"error", "interrupt"} BY ExceptionsRaised
    <3>2. /\ phase' = "ended" /\ step' = "done" /\ outcome' = "unchanged" /\ raised' = e
      BY <2>3 DEF Return, GoTo
    <3>3. Clean' BY <2>1 DEF Placed, Clean, files
    <3>4. dest' = base' /\ (\A c \in Change : dest'[c] = base'[c])
      BY <2>1 DEF Moved, FilesTyped, files
    <3>5. ExitCode' \in {2, 130} BY <3>1, <3>2 DEF ExitCode
    <3> QED
      BY <3>1, <3>2, <3>3, <3>4, <3>5
      DEF Fresh, Moved, Looked, Raising, ExitTruthful, ChangeReported
  <2> QED BY <1>1, <2>2, <2>3 DEF Probe
<1>2. CASE Stage
  <2>1. phase = "stage" /\ UNCHANGED <<dest, base>>
    BY <1>2, PhaseOfStep DEF Stage
  <2>2. \/ phase' \in {"stage", "commit"} /\ step' \in {"stage", "recheck"}
        \/ phase' = "abandon" /\ step' = "unstage" /\ raised' \in {"error", "interrupt"}
    BY <1>2, <2>1 DEF Stage, EachChange, GoTo, Failures
  <2>3. phase' = "commit" => step' = "recheck"
    BY <1>2, <2>1 DEF Stage, EachChange, GoTo
  <2> QED
    BY <2>1, <2>2, <2>3 DEF Fresh, Moved, Looked, Raising, ExitTruthful, ChangeReported
<1> QED BY <1>1, <1>2

\* A rollback starts with an exception and a plan that was not stale.
LEMMA RollBackOutcome ==
  ASSUME OutcomeInv, ResidueInv', phase = "commit", UNCHANGED base,
         NEW e \in {"error", "interrupt"}, RollBack(e)
  PROVE  OutcomeInv'
BY DEF RollBack, GoTo, OutcomeInv, Fresh, Moved, Looked, Raising, ExitTruthful, ChangeReported

LEMMA CommitOutcome ==
  ASSUME OutcomeInv, ResidueInv',
         Recheck \/ Displace \/ Displaced \/ Install \/ Installed \/ Confirm \/ Verify
  PROVE  OutcomeInv'
<1> USE DEF OutcomeInv, ResidueInv, TypeOK, ControlTyped
<1>1. phase = "commit" /\ UNCHANGED base
  BY PhaseOfStep DEF Recheck, Displace, Displaced, Install, Installed, Confirm, Verify, CommitSteps
<1>2. \A c \in Change : c # index => dest'[c] = dest[c]
  BY DEF Recheck, Displace, MoveAside, Displaced, Install, MoveIn, Installed, Confirm, Verify,
         files, FilesTyped
<1>3. CASE /\ phase' = "commit" /\ step' \in {"displaced", "install", "installed", "confirm"}
           /\ index' = index /\ step # "recheck"
           /\ step' \in {"displaced", "installed"} => raised' \in {"error", "interrupt"}
  <2>1. \A c \in Change : c < index => dest'[c] = After[c]
    BY <1>1, <1>2, <1>3 DEF Moved, Change
  <2> QED
    BY <1>1, <1>3, <2>1 DEF Fresh, Moved, Looked, Raising, ExitTruthful, ChangeReported
<1>4. ASSUME NEW e \in {"error", "interrupt"}, RollBack(e) PROVE OutcomeInv'
  BY <1>1, <1>4, RollBackOutcome
<1>5. CASE Recheck
  <2>1. ASSUME EachChange(phase, "displace") PROVE OutcomeInv'
    <3>1. /\ phase' = "commit" /\ UNCHANGED <<dest, base>>
          /\ step' = "recheck" \/ (step' = "displace" /\ index' = 1)
      BY <1>1, <1>5, <2>1 DEF Recheck, EachChange, GoTo, files
    <3> QED
      BY <1>1, <3>1 DEF Fresh, Moved, Looked, Raising, ExitTruthful, ChangeReported, Change
  <2>2. ASSUME NEW e \in Unless(dest[index] = Expected[index]) \cup Failures, RollBack(e)
        PROVE  OutcomeInv'
    BY <1>4, <2>2, ExceptionsRaised
  <2> QED BY <1>5, <2>1, <2>2 DEF Recheck
<1>6. CASE Displace
  <2>1. /\ phase' = "commit" /\ step = "displace" /\ step' \in {"install", "displaced"}
        /\ index' = index
        /\ step' = "displaced" => raised' \in {"error", "interrupt"}
    BY <1>1, <1>6 DEF Displace, GoTo, Unless, Failures
  <2> QED BY <1>3, <2>1
<1>7. CASE Displaced
  <2>1. ASSUME GoTo(phase, "install", index) PROVE OutcomeInv'
    BY <1>1, <1>3, <1>7, <2>1 DEF GoTo, Displaced
  <2>2. ASSUME NEW e \in (IF DisplaceTookEffect THEN {} ELSE {raised}) \cup Failures, RollBack(e)
        PROVE  OutcomeInv'
    <3>1. e \in {"error", "interrupt"} BY <1>7 DEF Displaced, Raising, Failures
    <3> QED BY <1>4, <2>2, <3>1
  <2> QED BY <1>7, <2>1, <2>2 DEF Displaced
<1>8. CASE Install
  <2>1. /\ phase' = "commit" /\ step = "install" /\ step' \in {"confirm", "installed"}
        /\ index' = index
        /\ step' = "installed" => raised' \in {"error", "interrupt"}
    BY <1>1, <1>8 DEF Install, GoTo, Unless, Failures
  <2> QED BY <1>3, <2>1
<1>9. CASE Installed
  <2>1. ASSUME GoTo(phase, "confirm", index) PROVE OutcomeInv'
    BY <1>1, <1>3, <1>9, <2>1 DEF GoTo, Installed
  <2>2. ASSUME NEW e \in (IF InstallTookEffect THEN {} ELSE {raised}) \cup Failures, RollBack(e)
        PROVE  OutcomeInv'
    <3>1. e \in {"error", "interrupt"} BY <1>9 DEF Installed, Raising, Failures
    <3> QED BY <1>4, <2>2, <3>1
  <2> QED BY <1>9, <2>1, <2>2 DEF Installed
<1>10. CASE Confirm
  <2>1. ASSUME dest[index] = After[index], NextInstallation PROVE OutcomeInv'
    <3>1. step # "recheck" /\ UNCHANGED dest BY <1>10 DEF Confirm, files
    <3>2. \A c \in Change : c <= index => dest'[c] = After[c]
      BY <1>1, <2>1, <3>1 DEF Moved, Change
    <3>3. /\ phase' = "commit"
          /\ \/ step' = "displace" /\ index' = index + 1
             \/ step' = "verify" /\ index = N /\ index' = 1
      BY <1>1, <2>1, NAssumption DEF NextInstallation, GoTo, Change
    <3> QED
      BY <1>1, <3>2, <3>3, NAssumption
      DEF Fresh, Moved, Looked, Raising, ExitTruthful, ChangeReported, Change
  <2>2. ASSUME NEW e \in Unless(dest[index] = After[index]) \cup Failures, RollBack(e)
        PROVE  OutcomeInv'
    BY <1>4, <2>2, ExceptionsRaised
  <2> QED BY <1>10, <2>1, <2>2 DEF Confirm
<1>11. CASE Verify
  <2>1. ASSUME GoTo("cleanup", "cleanup", 1) PROVE OutcomeInv'
    BY <1>1, <1>11, <2>1
    DEF Verify, GoTo, files, Fresh, Moved, Looked, Raising, ExitTruthful, ChangeReported
  <2> QED BY <1>4, <1>11, <2>1 DEF Verify
<1> QED BY <1>5, <1>6, <1>7, <1>8, <1>9, <1>10, <1>11

\* The rollback and the cleanup, up to the last look at the destinations.
LEMMA UndoOutcome ==
  ASSUME OutcomeInv, ResidueInv',
         \/ Classify \/ Quarantine \/ Quarantined \/ Restore \/ Restored \/ Settle \/ Unquarantine
         \/ RestorationFails \/ Sweep \/ Cleanup \/ Unstage
  PROVE  OutcomeInv'
<1> USE DEF OutcomeInv, ResidueInv, TypeOK, ControlTyped
<1>1. phase' = phase /\ phase \in {"abandon", "rollback", "cleanup"}
  <2>1. LaterStep BY DEF LaterStep
  <2>2. phase \notin {"check", "stage", "commit"} /\ phase' \in {phase, "ended"}
    BY <2>1, LaterPhases
  <2>3. step \in RestorationSteps \cup EndingSteps \cup {"sweep", "cleanup"}
    BY DEF Classify, Quarantine, Quarantined, Restore, Restored, Settle, Unquarantine,
           RestorationFails, Sweep, Cleanup, Unstage, RestorationSteps, EndingSteps
  <2>4. phase # "ended"
    BY <2>3 DEF InPhase, RestorationSteps, EndingSteps
  <2>5. phase' = phase
    BY DEF Classify, Quarantine, Quarantined, GiveUp, Restore, Restored, Settle, Unquarantine,
           RestorationFails, NextRestoration, Sweep, Cleanup, Unstage, EachChange, GoTo
  <2> QED BY <2>2, <2>4, <2>5 DEF Phases
<1>2. UNCHANGED <<raised, base, outcome>>
  BY DEF Classify, Quarantine, Quarantined, Restore, Restored, Settle, Unquarantine,
         RestorationFails, Sweep, Cleanup, Unstage, told
<1>3. phase # "rollback" => UNCHANGED dest
  <2>1. Classify \/ Quarantine \/ Quarantined \/ Restore \/ Restored \/ Settle \/ Unquarantine
          \/ RestorationFails => phase = "rollback"
    BY PhaseOfStep
    DEF Classify, Quarantine, Quarantined, Restore, Restored, Settle, Unquarantine,
        RestorationFails, RestorationSteps
  <2> QED BY <2>1 DEF Sweep, Cleanup, Unstage, files
<1>4. /\ step' \notin {"done", "close", "verify", "displaced", "installed"}
      /\ step' = "remaining" => index' = 1
      /\ step' = "conclude" => phase = "abandon" \/ (phase = "cleanup" /\ residue' = {})
  BY <1>1 DEF Classify, Quarantine, Quarantined, GiveUp, Restore, Restored, Settle, Unquarantine,
              RestorationFails, NextRestoration, Sweep, Cleanup, Unstage, AfterUnstaging, EachChange,
              GoTo
<1>5. Fresh' /\ Raising' BY <1>1, <1>2, <1>4 DEF Fresh, Raising
<1>6. Moved' BY <1>1, <1>2, <1>3, <1>4 DEF Moved
<1>7. Looked' BY <1>1, <1>4 DEF Looked, Change
<1> QED BY <1>4, <1>5, <1>6, <1>7 DEF ExitTruthful, ChangeReported

LEMMA RemainingOutcome ==
  ASSUME OutcomeInv, ResidueInv', Remaining
  PROVE  OutcomeInv'
<1> USE DEF OutcomeInv, ResidueInv, TypeOK, ControlTyped
<1>1. /\ step = "remaining" /\ phase' = phase /\ UNCHANGED <<dest, base, raised, outcome>>
      /\ residue \subseteq residue' /\ changed \subseteq changed'
  BY DEF Remaining, EachChange, GoTo, files
<1>2. phase \in {"rollback", "cleanup"}
  BY <1>1 DEF InPhase, Phases, CommitSteps
<1>3. \A c \in Change : Told(c) => Told(c)'
  BY <1>1, ReportsStay DEF Told
<1>4. ASSUME NEW c \in Change, c = index PROVE Told(c)'
  <2>1. base[c] = Expected[c] BY <1>2 DEF Fresh
  <2>2. CASE changed' = IF NotPrior(index) THEN changed \cup {index} ELSE changed
    BY <1>1, <1>4, <2>1, <2>2 DEF NotPrior, Told
  <2>3. CASE residue' = residue \cup {Named("dest", index, Unknown)}
    <3>1. Unknown # Absent /\ Entry("dest", c, Unknown) \subseteq residue'
      BY <1>4, <2>3, IdentityAssumption DEF Entry
    <3>2. Reported("dest", c)' BY <3>1, EntryReports
    <3> QED BY <3>2 DEF Told
  <2> QED BY <2>2, <2>3 DEF Remaining
<1>5. \A c \in Change : c <= index => Told(c)'
  BY <1>1, <1>3, <1>4 DEF Looked, Change
<1>6. \/ step' = "remaining" /\ index' = index + 1
      \/ step' = "conclude" /\ index = N
  BY NAssumption DEF Remaining, EachChange, GoTo, Change
<1>7. Looked' BY <1>5, <1>6, NAssumption DEF Looked, Change
<1> QED BY <1>1, <1>2, <1>6, <1>7 DEF Fresh, Moved, Raising, ExitTruthful, ChangeReported

LEMMA ConcludeOutcome ==
  ASSUME OutcomeInv, ResidueInv', Conclude \/ Close
  PROVE  OutcomeInv'
<1> USE DEF OutcomeInv, ResidueInv, TypeOK, ControlTyped
<1>1. UNCHANGED <<dest, stage, backup, rollback, residue, base>> /\ step \in {"conclude", "close"}
  BY DEF Conclude, Close, files
<1>2. AllAccounted BY <1>1, EndOfBlock
<1>3. residue = {} => Clean' BY <1>1, <1>2, EndsClean DEF Clean
<1>4. phase \in {"abandon", "rollback", "cleanup"}
  BY <1>1 DEF InPhase, Phases, CommitSteps
<1>5. ASSUME NEW result, NEW e, Return(result, e), changed' = changed,
             result = "applied" => phase = "cleanup" /\ residue = {},
             e = "none" => result = "applied",
             result \in {"unchanged", "restored", "applied", "residue", "unknown"},
             result \in {"unchanged", "restored"} =>
               residue = {} /\ (\A c \in Change : dest[c] = base[c]),
             result # "applied" => \A c \in Change : Told(c)
      PROVE  OutcomeInv'
  <2>1. phase' = "ended" /\ step' = "done" /\ outcome' = result /\ raised' = e
    BY <1>5 DEF Return, GoTo
  <2>2. ExitCode' = 0 => dest' = After /\ Clean'
    <3>1. ASSUME ExitCode' = 0 PROVE result = "applied" BY <1>5, <2>1, <3>1 DEF ExitCode
    <3>2. result = "applied" => \A c \in Change : dest'[c] = After[c]
      BY <1>1, <1>5 DEF Moved
    <3> QED BY <1>1, <1>3, <1>5, <3>1, <3>2, PlanAssumption DEF FilesTyped
  <2>3. ExitCode' \in {2, 130} => dest' = base' /\ Clean'
    <3>1. ASSUME ExitCode' \in {2, 130} PROVE result \in {"unchanged", "restored"}
      BY <1>5, <2>1, <3>1 DEF ExitCode
    <3> QED BY <1>1, <1>3, <1>5, <3>1 DEF FilesTyped
  <2>4. \A c \in Change : Told(c) => Told(c)' BY <1>1, <1>5 DEF Told, Reported
  <2> QED
    BY <1>5, <2>1, <2>2, <2>3, <2>4
    DEF Fresh, Moved, Looked, Raising, ExitTruthful, ChangeReported, Told
<1>6. CASE Close
  <2>1. phase = "cleanup" /\ residue = {} /\ outcome = "applied" /\ changed' = changed
    BY <1>4, <1>6 DEF Close, InPhase, EndingSteps, RestorationSteps
  <2> QED BY <1>5, <1>6, <2>1 DEF Close
<1>7. CASE Conclude /\ residue # {}
  <2>1. PICK result \in {"residue", "unknown"} : Return(result, "error") /\ changed' = changed
    BY <1>7 DEF Conclude, ReturnResidue
  <2>2. \A c \in Change : Told(c)
    BY <1>4, <1>7 DEF Conclude, Looked, Moved, Told
  <2> QED BY <1>5, <2>1, <2>2
<1>8. CASE Conclude /\ residue = {} /\ phase = "abandon"
  <2>1. Return("unchanged", raised) /\ changed' = changed BY <1>8 DEF Conclude
  <2>2. raised \in {"error", "interrupt"} /\ \A c \in Change : dest[c] = base[c]
    BY <1>8 DEF Raising, Moved
  <2> QED BY <1>5, <1>8, <2>1, <2>2 DEF Told
<1>9. CASE Conclude /\ residue = {} /\ phase = "rollback"
  <2>1. /\ changed' = changed /\ raised \in {"error", "interrupt"}
        /\ \A c \in Change : Told(c)
    BY <1>9 DEF Conclude, Raising, Looked
  <2>2. CASE changed = {}
    <3>1. Return("restored", raised) BY <1>9, <2>2 DEF Conclude
    <3>2. \A c \in Change : dest[c] = base[c] BY <1>9, <2>1, <2>2 DEF Told, Reported
    <3> QED BY <1>5, <1>9, <2>1, <3>1, <3>2
  <2>3. CASE changed # {}
    <3>1. Return("unknown", "error") BY <1>9, <2>3 DEF Conclude
    <3> QED BY <1>5, <2>1, <3>1
  <2> QED BY <2>2, <2>3
<1>10. CASE Conclude /\ residue = {} /\ phase = "cleanup"
  <2>1. phase' = phase /\ step' = "close" /\ outcome' = "applied"
    BY <1>10 DEF Conclude, GoTo
  <2> QED
    BY <1>1, <1>10, <2>1 DEF Fresh, Moved, Looked, Raising, ExitTruthful, ChangeReported
<1> QED BY <1>4, <1>6, <1>7, <1>8, <1>9, <1>10

LEMMA StepOutcome ==
  ASSUME Foreign = {}, ~Interruptible, OutcomeInv, [Next]_vars
  PROVE  OutcomeInv'
<1>1. ResidueInv' BY StepResidue DEF OutcomeInv
<1>2. ~Interrupt /\ ~ForeignWrite BY DEF Interrupt, ForeignWrite
<1>3. CASE UNCHANGED vars
  <2>1. ExitCode' = ExitCode BY <1>3 DEF vars, control, told, ExitCode
  <2> QED
    BY <1>1, <1>3, <2>1
    DEF vars, files, control, local, told, OutcomeInv, Fresh, Moved, Looked, Raising, Told, Reported,
        Clean, ExitTruthful, ChangeReported
<1> QED
  BY <1>1, <1>2, <1>3, CheckOutcome, CommitOutcome, UndoOutcome, RemainingOutcome, ConcludeOutcome
  DEF Next, Step, Returned

\* Success means that the plan is in place, an exit code for an unchanged or
\* restored state that nothing is changed, and none of them leaves a private
\* object behind (transaction.py:495-564, docs/contracts.md, "Exits").
THEOREM ExitCodeIsTrue ==
  ASSUME Foreign = {}, ~Interruptible
  PROVE  Spec => []ExitTruthful
<1>1. OutcomeInv => ExitTruthful BY DEF OutcomeInv
<1>2. OutcomeInv /\ [Next]_vars => OutcomeInv' BY StepOutcome
<1> QED BY InitOutcome, <1>1, <1>2, PTL DEF Spec

\* A destination that is left changed by a call that raises is in its changed
\* paths or in its residue (_remaining_changes, transaction.py:373).
THEOREM ChangesAreReported ==
  ASSUME Foreign = {}, ~Interruptible
  PROVE  Spec => []ChangeReported
<1>1. OutcomeInv => ChangeReported BY DEF OutcomeInv
<1>2. OutcomeInv /\ [Next]_vars => OutcomeInv' BY StepOutcome
<1> QED BY InitOutcome, <1>1, <1>2, PTL DEF Spec

---------------------------------------------------------------------------
(* The atomic mutation                                                     *)

\* When a change is installed its name is free and its object complete.
ReadyToInstall ==
  step = "install" => dest[index] = Absent /\ (HasStage(index) => stage[index] = After[index])

AtomicInv == OutcomeInv /\ PriorInv /\ StagedInv /\ ReadyToInstall

LEMMA InitAtomic == Init => AtomicInv
BY InitOutcome, InitPrior, InitStaged DEF AtomicInv, ReadyToInstall, Init

LEMMA StepAtomic ==
  ASSUME Foreign = {}, ~Interruptible, AtomicInv, [Next]_vars
  PROVE  AtomicInv'
<1>1. OutcomeInv' /\ PriorInv' /\ StagedInv' BY StepOutcome, StepPrior, StepStaged DEF AtomicInv
<1> USE DEF AtomicInv, OutcomeInv, PriorInv, StagedInv, TypeOK, ControlTyped, FilesTyped
<1>2. CASE Displace
  <2>1. phase = "commit" /\ index \in Change BY <1>2, PhaseOfStep DEF Displace, CommitSteps
  <2>2. dest[index] = Expected[index]
    BY <1>2, <2>1 DEF Displace, Untouched, NotDisplaced, Fresh
  <2>3. HasStage(index) => stage[index] = After[index]
    BY <1>2, <2>1 DEF Displace, StagedBeforeReplace
  <2>4. index' = index BY <1>2 DEF Displace, GoTo
  <2>5. UNCHANGED stage BY <1>2 DEF Displace, MoveAside, files
  <2>6. step' = "install" => dest'[index] = Absent
    BY <1>2, <2>1, <2>2 DEF Displace, MoveAside, GoTo, files
  <2> QED BY <1>1, <2>3, <2>4, <2>5, <2>6 DEF ReadyToInstall, HasStage
<1>3. CASE Displaced
  <2>1. phase = "commit" /\ index \in Change BY <1>3, PhaseOfStep DEF Displaced, CommitSteps
  <2>2. HasStage(index) => stage[index] = After[index]
    BY <1>3, <2>1 DEF Displaced, StagedBeforeReplace
  <2>3. step' = "install" => index' = index /\ dest[index] = Absent
    BY <1>3 DEF Displaced, DisplaceTookEffect, GoTo, RollBack
  <2> QED BY <1>1, <1>3, <2>2, <2>3 DEF Displaced, files, ReadyToInstall, HasStage
<1>4. CASE UNCHANGED vars
  BY <1>1, <1>4 DEF vars, files, control, ReadyToInstall, HasStage
<1>5. ASSUME ~Displace, ~Displaced, ~UNCHANGED vars PROVE step' # "install"
  BY <1>5 DEF Next, Step, Probe, Stage, Unstage, AfterUnstaging, Recheck, Install, Installed, Confirm,
       NextInstallation, Verify, Classify, Quarantine, Quarantined, GiveUp, Restore, Restored, Settle,
       Unquarantine, RestorationFails, NextRestoration, Sweep, Cleanup, Remaining, Conclude, Close,
       Interrupt, ForeignWrite, Returned, Return, ReturnResidue, RollBack, EachChange, GoTo
<1> QED BY <1>1, <1>2, <1>3, <1>4, <1>5 DEF ReadyToInstall

LEMMA VerdictOf ==
  ASSUME TypeOK, InPhase
  PROVE  /\ phase \in {"check", "stage", "abandon"} \/ step = "recheck" => Verdict = "unopened"
         /\ phase = "commit" /\ step # "recheck" => Verdict = "open"
         /\ phase = "rollback" => Verdict = "aborted"
         /\ phase = "cleanup" /\ step # "close" => Verdict = "committed"
         /\ phase = "ended" \/ step = "close" => Verdict = "closed"
BY DEF Verdict, TypeOK, ControlTyped, InPhase, Phases, CommitSteps, RestorationSteps, EndingSteps

LEMMA PlaceOf ==
  ASSUME NEW c \in Change
  PROVE  /\ Place(c) \in {"prior", "missing", "planned", "other"}
         /\ Place(c) = "prior" <=> dest[c] = Expected[c]
         /\ Place(c) = "planned" <=> dest[c] = After[c]
         /\ Place(c) = "missing" <=> dest[c] = Absent /\ Absent \notin {Expected[c], After[c]}
BY PlanAssumption DEF Place

places == [c \in Change |-> Place(c)]

LEMMA NextPlaceOf ==
  ASSUME NEW c \in Change
  PROVE  /\ Place(c)' \in {"prior", "missing", "planned", "other"}
         /\ Place(c)' = "prior" <=> dest'[c] = Expected[c]
         /\ Place(c)' = "planned" <=> dest'[c] = After[c]
         /\ Place(c)' = "missing" <=> dest'[c] = Absent /\ Absent \notin {Expected[c], After[c]}
BY PlanAssumption DEF Place

\* A step changes one destination of the abstract call, or none.
LEMMA OnePlaced ==
  ASSUME NEW c \in Change, \A d \in Change : d # c => dest'[d] = dest[d]
  PROVE  places' = [places EXCEPT ![c] = Place(c)']
<1>1. \A d \in Change : d # c => Place(d)' = Place(d) BY DEF Place
<1>2. places' = [d \in Change |-> Place(d)'] BY DEF places
<1>3. [places EXCEPT ![c] = Place(c)'] = [d \in Change |-> IF d = c THEN Place(c)' ELSE Place(d)]
  BY DEF places
<1>4. \A d \in Change : (IF d = c THEN Place(c)' ELSE Place(d)) = Place(d)' BY <1>1
<1> QED BY <1>2, <1>3, <1>4

LEMMA NonePlaced == UNCHANGED dest => UNCHANGED places
BY DEF places, Place

LEMMA Stutters ==
  ASSUME UNCHANGED dest, UNCHANGED Verdict, UNCHANGED outcome
  PROVE  UNCHANGED Abstract!vars
BY NonePlaced DEF Abstract!vars, places

\* A destination goes forward: displaced, or installed.
LEMMA GoesForward ==
  ASSUME NEW c \in Change, \A d \in Change : d # c => dest'[d] = dest[d],
         Verdict = "open", Verdict' = "open", UNCHANGED outcome,
         \A d \in Change : (d < c => dest[d] = After[d]) /\ (d > c => dest[d] = Expected[d]),
         dest'[c] # dest[c],
         \/ dest[c] = Expected[c] /\ dest'[c] \in {Absent, After[c]}
         \/ dest[c] = Absent /\ dest'[c] = After[c]
  PROVE  Abstract!Next
<1>1. places' = [places EXCEPT ![c] = Place(c)'] BY OnePlaced
<1>2. \A d \in Change : (d < c => places[d] = "planned") /\ (d > c => places[d] = "prior")
  BY PlaceOf DEF places
<1>3. Place(c)' \in Abstract!Places \ {"other"} /\ Abstract!Rank(Place(c)') > Abstract!Rank(places[c])
  <2>1. \/ Place(c) = "prior" /\ Place(c)' \in {"missing", "planned"}
        \/ Place(c) = "missing" /\ Place(c)' = "planned"
    BY PlaceOf, NextPlaceOf
  <2> QED BY <2>1 DEF Abstract!Places, Abstract!Rank, places
<1>4. Abstract!Forward(c) BY <1>1, <1>2, <1>3 DEF Abstract!Forward, Abstract!Change, Change, places
<1> QED BY <1>4 DEF Abstract!Next, Abstract!Change, Change

\* A destination goes back: quarantined, or restored.
LEMMA GoesBack ==
  ASSUME NEW c \in Change, \A d \in Change : d # c => dest'[d] = dest[d],
         Verdict = "aborted", Verdict' = "aborted", UNCHANGED outcome,
         \/ dest[c] = After[c] /\ dest'[c] = Absent /\ After[c] # Absent
         \/ dest[c] = Absent /\ dest'[c] = Expected[c] /\ Expected[c] # Absent
  PROVE  Abstract!Next
<1>1. places' = [places EXCEPT ![c] = Place(c)'] BY OnePlaced
<1>2. Place(c)' \in Abstract!Places \ {"other"} /\ Abstract!Rank(Place(c)') < Abstract!Rank(places[c])
  <2>1. \/ Place(c) = "planned" /\ Place(c)' \in {"missing", "prior"}
        \/ Place(c) \in {"missing", "planned"} /\ Place(c)' = "prior"
    BY PlaceOf, NextPlaceOf, PlanAssumption
  <2> QED BY <2>1 DEF Abstract!Places, Abstract!Rank, places
<1>3. places[c] # "other" BY PlaceOf, PlanAssumption DEF places
<1>4. Abstract!Back(c) BY <1>1, <1>2, <1>3 DEF Abstract!Back, Abstract!Change, Change, places
<1> QED BY <1>4 DEF Abstract!Next, Abstract!Change, Change

\* The commit: opened, moved forward, committed or aborted.
LEMMA CommitImplements ==
  ASSUME AtomicInv, AtomicInv',
         Recheck \/ Displace \/ Displaced \/ Install \/ Installed \/ Confirm \/ Verify
  PROVE  Abstract!Next \/ UNCHANGED Abstract!vars
<1> USE DEF AtomicInv, OutcomeInv, PriorInv, StagedInv, TypeOK, ControlTyped, FilesTyped
<1>1. phase = "commit" /\ index \in Change
  BY PhaseOfStep DEF Recheck, Displace, Displaced, Install, Installed, Confirm, Verify, CommitSteps
<1>2. UNCHANGED outcome
  BY DEF Recheck, Displace, Displaced, Install, Installed, Confirm, Verify, told
<1>3. ASSUME NEW e, RollBack(e), UNCHANGED dest PROVE Abstract!Next
  <2>1. Verdict \in {"unopened", "open"} BY <1>1, VerdictOf
  <2>2. Verdict' = "aborted" BY <1>3, VerdictOf DEF RollBack, GoTo, Verdict
  <2>3. Abstract!Abort BY <1>2, <1>3, <2>1, <2>2, NonePlaced DEF Abstract!Abort, places
  <2> QED BY <2>3 DEF Abstract!Next
<1>4. step # "recheck" => Verdict = "open" BY <1>1, VerdictOf
<1>5. phase' = "commit" /\ step' # "recheck" => Verdict' = "open" BY DEF Verdict
<1>6. CASE Recheck
  <2>1. UNCHANGED dest BY <1>6 DEF Recheck, files
  <2>2. Verdict = "unopened" BY <1>6, VerdictOf DEF Recheck
  <2>3. CASE phase' = "commit" /\ step' = "recheck"
    BY <1>2, <2>1, <2>2, <2>3, Stutters DEF Verdict
  <2>4. CASE phase' = "commit" /\ step' = "displace"
    <3>1. \A c \in Change : dest[c] = Expected[c]
      BY <1>1, <1>6 DEF Recheck, Untouched, NotDisplaced, Fresh
    <3>2. \A c \in Change : places[c] = "prior" BY <3>1, PlaceOf DEF places
    <3>3. Abstract!Open
      BY <1>2, <1>5, <2>1, <2>2, <2>4, <3>2, NonePlaced
      DEF Abstract!Open, Abstract!All, Abstract!Change, Change, places
    <3> QED BY <3>3 DEF Abstract!Next
  <2>5. \/ phase' = "commit" /\ step' \in {"recheck", "displace"}
        \/ \E e : RollBack(e)
    BY <1>1, <1>6 DEF Recheck, EachChange, GoTo
  <2> QED BY <1>3, <2>1, <2>3, <2>4, <2>5
<1>7. CASE Displace
  <2>1. \A d \in Change : (d < index => dest[d] = After[d]) /\ (d >= index => dest[d] = Expected[d])
    BY <1>1, <1>7 DEF Displace, Moved, Fresh, Untouched, NotDisplaced, Change
  <2>2. phase' = "commit" /\ step' # "recheck" BY <1>1, <1>7 DEF Displace, GoTo
  <2>3. Verdict = "open" /\ Verdict' = "open" BY <1>4, <1>5, <1>7, <2>2 DEF Displace
  <2>4. CASE UNCHANGED dest BY <1>2, <2>3, <2>4, Stutters
  <2>5. CASE ~UNCHANGED dest
    <3>1. MoveAside BY <1>7, <2>5 DEF Displace, files
    <3>2. dest'[index] = Absent /\ \A d \in Change : d # index => dest'[d] = dest[d]
      BY <1>1, <3>1 DEF MoveAside
    <3>3. dest'[index] # dest[index] BY <3>1, <3>2 DEF MoveAside
    <3> QED BY <1>1, <1>2, <2>1, <2>3, <3>2, <3>3, GoesForward DEF Change
  <2> QED BY <2>4, <2>5
<1>8. CASE Install
  <2>1. \A d \in Change : (d < index => dest[d] = After[d]) /\ (d > index => dest[d] = Expected[d])
    BY <1>1, <1>8 DEF Install, Moved, Fresh, Untouched, NotDisplaced, Change
  <2>2. phase' = "commit" /\ step' # "recheck" BY <1>1, <1>8 DEF Install, GoTo
  <2>3. Verdict = "open" /\ Verdict' = "open" BY <1>4, <1>5, <1>8, <2>2 DEF Install
  <2>4. CASE UNCHANGED dest BY <1>2, <2>3, <2>4, Stutters
  <2>5. CASE ~UNCHANGED dest
    <3>1. MoveIn /\ HasStage(index) BY <1>8, <2>5 DEF Install, files
    <3>2. dest[index] = Absent /\ stage[index] = After[index] /\ After[index] # Absent
      BY <1>8, <3>1 DEF Install, ReadyToInstall, HasStage
    <3>3. dest'[index] = After[index] /\ \A d \in Change : d # index => dest'[d] = dest[d]
      BY <1>1, <3>1, <3>2 DEF MoveIn
    <3> QED BY <1>1, <1>2, <2>1, <2>3, <3>2, <3>3, GoesForward
  <2> QED BY <2>4, <2>5
<1>9. CASE Displaced \/ Installed \/ Confirm
  <2>1. UNCHANGED dest /\ step # "recheck" BY <1>9 DEF Displaced, Installed, Confirm, files
  <2>2. \/ phase' = "commit" /\ step' # "recheck"
        \/ \E e : RollBack(e)
    BY <1>1, <1>9 DEF Displaced, Installed, Confirm, NextInstallation, GoTo
  <2>3. CASE phase' = "commit" /\ step' # "recheck"
    BY <1>2, <1>4, <1>5, <2>1, <2>3, Stutters
  <2> QED BY <1>3, <2>1, <2>2, <2>3
<1>10. CASE Verify
  <2>1. UNCHANGED dest /\ step = "verify" BY <1>10 DEF Verify, files
  <2>2. CASE GoTo("cleanup", "cleanup", 1)
    <3>1. Verdict = "open" /\ Verdict' = "committed" BY <1>4, <2>1, <2>2 DEF GoTo, Verdict
    <3>2. \A c \in Change : places[c] = "planned" BY <2>1, PlaceOf DEF Moved, places
    <3>3. Abstract!Commit
      BY <1>2, <2>1, <3>1, <3>2, NonePlaced
      DEF Abstract!Commit, Abstract!All, Abstract!Change, Change, places
    <3> QED BY <3>3 DEF Abstract!Next
  <2> QED BY <1>3, <1>10, <2>1, <2>2 DEF Verify
<1> QED BY <1>6, <1>7, <1>8, <1>9, <1>10

\* The rollback goes back; nothing else in it, or in the cleanup, is seen.
LEMMA UndoImplements ==
  ASSUME AtomicInv, AtomicInv',
         \/ Classify \/ Quarantine \/ Quarantined \/ Restore \/ Restored \/ Settle \/ Unquarantine
         \/ RestorationFails \/ Sweep \/ Cleanup \/ Unstage \/ Remaining
  PROVE  Abstract!Next \/ UNCHANGED Abstract!vars
<1> USE DEF AtomicInv, OutcomeInv, PriorInv, StagedInv, TypeOK, ControlTyped, FilesTyped
<1>1. UNCHANGED outcome
  BY DEF Classify, Quarantine, Quarantined, Restore, Restored, Settle, Unquarantine,
         RestorationFails, Sweep, Cleanup, Unstage, Remaining, told
<1>2. /\ phase' = phase /\ step # "recheck" /\ step' # "recheck" /\ step # "close" /\ step' # "close"
  BY DEF Classify, Quarantine, Quarantined, GiveUp, Restore, Restored, Settle, Unquarantine,
         RestorationFails, NextRestoration, Sweep, Cleanup, Unstage, AfterUnstaging, Remaining,
         EachChange, GoTo
<1>3. Verdict' = Verdict BY <1>2 DEF Verdict
<1>4. CASE UNCHANGED dest BY <1>1, <1>3, <1>4, Stutters
<1>5. CASE Quarantine /\ ~UNCHANGED dest
  <2>1. phase = "rollback" /\ index \in Change BY <1>5, PhaseOfStep DEF Quarantine, RestorationSteps
  <2>2. MoveOut /\ seen = dest[index] /\ seen = After[index]
    BY <1>5 DEF Quarantine, files, SeenIsCurrent
  <2>3. /\ dest'[index] = Absent /\ dest[index] = After[index] /\ After[index] # Absent
        /\ \A d \in Change : d # index => dest'[d] = dest[d]
    BY <2>1, <2>2 DEF MoveOut
  <2>4. Verdict = "aborted" BY <2>1, VerdictOf
  <2> QED BY <1>1, <1>3, <2>1, <2>3, <2>4, GoesBack
<1>6. CASE Restore /\ ~UNCHANGED dest
  <2>1. phase = "rollback" /\ index \in Change BY <1>6, PhaseOfStep DEF Restore, RestorationSteps
  <2>2. MoveBack /\ CanRestore(seen) /\ seen = dest[index]
    BY <1>6 DEF Restore, files, SeenIsCurrent
  <2>3. /\ dest[index] = Absent /\ dest'[index] = Expected[index] /\ Expected[index] # Absent
        /\ \A d \in Change : d # index => dest'[d] = dest[d]
    BY <2>1, <2>2 DEF MoveBack, CanRestore
  <2>4. Verdict = "aborted" BY <2>1, VerdictOf
  <2> QED BY <1>1, <1>3, <2>1, <2>3, <2>4, GoesBack
<1> QED
  BY <1>4, <1>5, <1>6 DEF Classify, Quarantined, Restored, Settle, Unquarantine, RestorationFails,
                          Sweep, Cleanup, Unstage, Remaining, files

\* A call ends with an outcome it has earned.
LEMMA ReportImplements ==
  ASSUME AtomicInv, AtomicInv', Probe \/ Stage \/ Conclude \/ Close
  PROVE  Abstract!Next \/ UNCHANGED Abstract!vars
<1> USE DEF AtomicInv, OutcomeInv, PriorInv, StagedInv, TypeOK, ControlTyped, FilesTyped
<1>1. UNCHANGED dest BY DEF Probe, Stage, Conclude, Close, files
<1>2. ASSUME NEW result \in {"unchanged", "applied", "restored", "residue", "unknown"},
             Verdict \in {"unopened", "aborted", "committed"},
             outcome' = result, Verdict' = "closed",
             result = "applied" => Verdict = "committed",
             result = "restored" => Verdict = "aborted" /\ \A c \in Change : dest[c] = Expected[c],
             result = "unchanged" => Verdict = "unopened"
      PROVE  Abstract!Next
  <2>1. result = "restored" => \A c \in Change : places[c] = "prior"
    BY <1>2, PlaceOf DEF places
  <2>2. Abstract!Report(result)
    BY <1>1, <1>2, <2>1, NonePlaced
    DEF Abstract!Report, Abstract!All, Abstract!Change, Change, places
  <2> QED BY <2>2 DEF Abstract!Next
<1>3. ASSUME NEW result, NEW e, Return(result, e) PROVE outcome' = result /\ Verdict' = "closed"
  BY <1>3 DEF Return, GoTo, Verdict
<1>4. CASE Probe
  <2>1. phase = "check" /\ Verdict = "unopened" BY <1>4, PhaseOfStep, VerdictOf DEF Probe
  <2>2. CASE EachChange("stage", "stage") /\ UNCHANGED outcome
    <3>1. Verdict' = "unopened" BY <2>1, <2>2 DEF EachChange, GoTo, Verdict
    <3> QED BY <1>1, <2>1, <2>2, <3>1, Stutters
  <2>3. ASSUME NEW e, Return("unchanged", e) PROVE Abstract!Next
    BY <1>2, <1>3, <2>1, <2>3
  <2> QED BY <1>4, <2>2, <2>3 DEF Probe
<1>5. CASE Stage
  <2>1. phase = "stage" /\ Verdict = "unopened" BY <1>5, PhaseOfStep, VerdictOf DEF Stage
  <2>2. phase' \in {"stage", "abandon"} \/ (phase' = "commit" /\ step' = "recheck")
    BY <1>5, <2>1 DEF Stage, EachChange, GoTo
  <2>3. Verdict' = "unopened" BY <2>2 DEF Verdict
  <2> QED BY <1>1, <1>5, <2>1, <2>3, Stutters DEF Stage, told
<1>6. CASE Close
  <2>1. step = "close" /\ Verdict = "closed" BY <1>6, VerdictOf DEF Close
  <2>2. Verdict' = "closed" /\ outcome' = outcome BY <1>3, <1>6 DEF Close
  <2> QED BY <1>1, <2>1, <2>2, Stutters
<1>7. CASE Conclude
  <2>1. step = "conclude" /\ phase \in {"abandon", "rollback", "cleanup"}
    BY <1>7 DEF Conclude, InPhase, Phases, CommitSteps
  <2>2. /\ phase = "abandon" => Verdict = "unopened"
        /\ phase = "rollback" => Verdict = "aborted"
        /\ phase = "cleanup" => Verdict = "committed"
    BY <2>1, VerdictOf
  <2>3. CASE residue # {}
    <3>1. PICK result \in {"residue", "unknown"} : Return(result, "error")
      BY <1>7, <2>3 DEF Conclude, ReturnResidue
    <3> QED BY <1>2, <1>3, <2>1, <2>2, <3>1
  <2>4. CASE residue = {} /\ phase = "abandon"
    <3>1. Return("unchanged", raised) BY <1>7, <2>4 DEF Conclude
    <3> QED BY <1>2, <1>3, <2>2, <2>4, <3>1
  <2>5. CASE residue = {} /\ phase = "rollback" /\ changed = {}
    <3>1. Return("restored", raised) BY <1>7, <2>5 DEF Conclude
    <3>2. \A c \in Change : dest[c] = base[c]
      BY <2>1, <2>5 DEF Looked, Told, Reported
    <3>3. \A c \in Change : dest[c] = Expected[c] BY <2>5, <3>2 DEF Fresh
    <3> QED BY <1>2, <1>3, <2>2, <2>5, <3>1, <3>3
  <2>6. CASE residue = {} /\ phase = "rollback" /\ changed # {}
    <3>1. Return("unknown", "error") BY <1>7, <2>6 DEF Conclude
    <3> QED BY <1>2, <1>3, <2>2, <2>6, <3>1
  <2>7. CASE residue = {} /\ phase = "cleanup"
    <3>1. phase' = "cleanup" /\ step' = "close" /\ outcome' = "applied"
      BY <1>7, <2>7 DEF Conclude, GoTo
    <3>2. Verdict' = "closed" BY <3>1 DEF Verdict
    <3> QED BY <1>2, <2>2, <2>7, <3>1, <3>2
  <2> QED BY <2>1, <2>3, <2>4, <2>5, <2>6, <2>7
<1> QED BY <1>4, <1>5, <1>6, <1>7

\* apply_changes is an atomic mutation to whoever looks at the destinations and
\* the outcome, however long the plan and whichever calls fail.
THEOREM IsAtomicMutation ==
  ASSUME Foreign = {}, ~Interruptible
  PROVE  Spec => ImplementsAtomicMutation
<1>1. Init => Abstract!Init
  <2> SUFFICES ASSUME Init PROVE Abstract!Init OBVIOUS
  <2>1. places \in [Change -> Abstract!Places] BY PlaceOf DEF places, Abstract!Places
  <2> QED BY <2>1 DEF Init, Verdict, Abstract!Init, Abstract!Change, Change, places
<1>2. AtomicInv /\ [Next]_vars => AtomicInv' BY StepAtomic
<1>3. AtomicInv /\ AtomicInv' /\ [Next]_vars => [Abstract!Next]_(Abstract!vars)
  <2> SUFFICES ASSUME AtomicInv, AtomicInv', [Next]_vars
               PROVE  Abstract!Next \/ UNCHANGED Abstract!vars
    OBVIOUS
  <2>1. ~Interrupt /\ ~ForeignWrite BY DEF Interrupt, ForeignWrite
  <2>2. CASE UNCHANGED vars
    BY <2>2, Stutters DEF vars, files, control, told, Verdict
  <2> QED BY <2>1, <2>2, CommitImplements, UndoImplements, ReportImplements DEF Next, Step, Returned
<1> QED
  BY InitAtomic, <1>1, <1>2, <1>3, PTL DEF Spec, ImplementsAtomicMutation, Abstract!Spec
---------------------------------------------------------------------------
(* A commit that fails is undone, where only checks and calls of the       *)
(* commit fail.  SIGINT that nothing classifies may end the rollback.      *)

\* What a change is like before it is displaced, in between, and installed.
AtPrior(c) == dest[c] = Expected[c] /\ backup[c] = Absent /\ rollback[c] = Absent
Vacant(c) == dest[c] = Absent /\ backup[c] = Expected[c] /\ rollback[c] = Absent
InPlace(c) == dest[c] = After[c] /\ backup[c] = Expected[c] /\ rollback[c] = Absent
Recoverable(c) == AtPrior(c) \/ Vacant(c) \/ InPlace(c)

\* A staged object is whole.
WholeStages == \A c \in Change : stage[c] \in {Absent, After[c]}

NothingTold == phase # "ended" => residue = {}
NothingChanged == phase \notin {"cleanup", "ended"} => changed = {}

NotStale ==
  /\ phase = "check" => \A c \in Change : c < index => base[c] = Expected[c]
  /\ phase \notin {"check", "ended"} => \A c \in Change : base[c] = Expected[c]

BeforeCommit ==
  phase \in {"check", "stage"} =>
    \A c \in Change :
      /\ dest[c] = base[c] /\ backup[c] = Absent /\ rollback[c] = Absent
      /\ phase = "check" => stage[c] = Absent

InCommit ==
  phase = "commit" =>
    /\ \A c \in Change :
         /\ step = "recheck" \/ (step # "verify" /\ c > index) => AtPrior(c)
         /\ step = "verify" \/ (step # "recheck" /\ c < index) => InPlace(c)
    /\ step = "displace" => AtPrior(index)
    /\ step = "displaced" => AtPrior(index) \/ Vacant(index)
    /\ step = "install" => Vacant(index) /\ stage[index] = After[index]
    /\ step = "installed" => Vacant(index) \/ InPlace(index)
    /\ step = "confirm" => InPlace(index)
    /\ step = "installed" => After[index] # Absent

\* The change the rollback is at, call by call.
Undoing ==
  /\ step = "classify" => Recoverable(index)
  /\ step = "quarantine" => InPlace(index) /\ After[index] # Absent
  /\ step = "quarantined" =>
       ~threw /\ dest[index] = Absent /\ backup[index] = Expected[index]
  /\ step = "restore" =>
       /\ seen = dest[index]
       /\ \/ dest[index] = Expected[index] /\ backup[index] = Absent
          \/ dest[index] = Absent /\ backup[index] = Expected[index]
  /\ step = "restored" => ~threw
  /\ step \in {"restored", "settle", "unquarantine"} =>
       dest[index] = Expected[index] /\ backup[index] = Absent
  /\ step \in {"settle", "unquarantine"} => seen = Expected[index]
  /\ rollback[index] \in {Absent, After[index]}

InRollback ==
  phase = "rollback" =>
    /\ raised \in {"error", "interrupt"}
    /\ step \in RestorationSteps =>
         /\ Undoing
         /\ \A c \in Change : (c < index => Recoverable(c)) /\ (c > index => AtPrior(c))
    /\ step \notin RestorationSteps => \A c \in Change : AtPrior(c)

InCleanup ==
  phase = "cleanup" =>
    /\ step # "remaining"
    /\ step = "close" => outcome = "applied"
    /\ \A c \in Change :
         /\ dest[c] = After[c] /\ rollback[c] = Absent /\ backup[c] \in {Absent, Expected[c]}
         /\ step # "cleanup" \/ c < index => backup[c] = Absent

\* The stages that have been removed, in either block.
Unstaged ==
  phase \in {"rollback", "cleanup"} =>
    \A c \in Change :
      step \in {"sweep", "remaining", "conclude", "close"} \/ (step = "unstage" /\ c < index) =>
        stage[c] = Absent

\* What a call that has returned says.
Answers ==
  phase = "ended" =>
    /\ FailedCommitRestores
    /\ outcome = "applied" => dest = After /\ Clean
    /\ raised = "error" => dest = base /\ Clean /\ outcome # "applied"

Excepts == step \in {"displaced", "installed"} => raised \in {"error", "interrupt"}

RestoreInv ==
  /\ TypeOK /\ InPhase /\ phase # "abandon"
  /\ WholeStages /\ NothingTold /\ NothingChanged /\ NotStale
  /\ BeforeCommit /\ InCommit /\ InRollback /\ InCleanup /\ Unstaged
  /\ Excepts /\ Answers

LEMMA NothingFails ==
  ASSUME Faults \subseteq {"check", "commit"}, phase \notin {"check", "commit"}
  PROVE  Failures = {}
BY DEF Failures

\* What is removed where no call fails is gone, and not named.
LEMMA RemovedWhole ==
  ASSUME Failures = {}, NEW content, NEW expected, content \in {Absent, expected},
         NEW r \in RemoveExpected(content, expected)
  PROVE  r.left = Absent /\ r.named = Absent
BY DEF RemoveExpected

LEMMA InitRestore == Init => RestoreInv
<1> SUFFICES ASSUME Init PROVE RestoreInv OBVIOUS
<1>1. TypeOK BY InitTyped
<1> QED
  BY <1>1, NAssumption
  DEF Init, RestoreInv, InPhase, WholeStages, NothingTold, NothingChanged, NotStale, BeforeCommit,
      InCommit, InRollback, InCleanup, Unstaged, Excepts, Answers, Change

LEMMA CheckRestores ==
  ASSUME Faults \subseteq {"check", "commit"}, RestoreInv, TypeOK', InPhase', Probe \/ Stage
  PROVE  RestoreInv'
<1> USE NAssumption DEF RestoreInv, TypeOK, ControlTyped, FilesTyped, Change
<1>1. CASE Probe
  <2>1. phase = "check" /\ UNCHANGED <<files, residue, changed, base>>
    BY <1>1, PhaseOfStep DEF Probe
  <2>2. CASE dest[index] = Expected[index] /\ EachChange("stage", "stage")
    <3>1. \A c \in Change : c <= index => base[c] = Expected[c]
      BY <2>1, <2>2 DEF NotStale, BeforeCommit
    <3>2. \/ phase' = "check" /\ step' = "probe" /\ index' = index + 1
          \/ phase' = "stage" /\ step' = "stage" /\ index = N
      BY <1>1, <2>1, <2>2 DEF Probe, EachChange, GoTo
    <3> QED
      BY <2>1, <3>1, <3>2
      DEF files, WholeStages, NothingTold, NothingChanged, NotStale, BeforeCommit, InCommit,
          InRollback, InCleanup, Unstaged, Excepts, Answers
  <2>3. ASSUME NEW e \in Unless(dest[index] = Expected[index]) \cup Failures, Return("unchanged", e)
        PROVE  RestoreInv'
    <3>1. /\ phase' = "ended" /\ step' = "done" /\ outcome' = "unchanged"
      BY <2>3 DEF Return, GoTo
    <3>2. Clean' BY <2>1 DEF BeforeCommit, Clean, files
    <3>3. dest' = base' /\ (\A c \in Change : dest'[c] = base'[c])
      BY <2>1 DEF BeforeCommit, files
    <3>4. Answers' BY <3>1, <3>2, <3>3 DEF Answers, FailedCommitRestores
    <3> QED
      BY <2>1, <3>1, <3>4
      DEF files, WholeStages, NothingTold, NothingChanged, NotStale, BeforeCommit, InCommit,
          InRollback, InCleanup, Unstaged, Excepts
  <2> QED BY <1>1, <2>2, <2>3 DEF Probe
<1>2. CASE Stage
  <2>1. phase = "stage" /\ UNCHANGED <<dest, backup, rollback, told, base>>
    BY <1>2, PhaseOfStep DEF Stage
  <2>2. /\ stage' = [stage EXCEPT ![index] = After[index]] /\ EachChange("commit", "recheck")
    BY <1>2, <2>1, NothingFails DEF Stage
  <2>3. \/ phase' = "stage" /\ step' = "stage"
        \/ phase' = "commit" /\ step' = "recheck"
    BY <1>2, <2>1, <2>2 DEF Stage, EachChange, GoTo
  <2>4. WholeStages' BY <2>2 DEF WholeStages
  <2>5. InCommit' BY <2>1, <2>3 DEF InCommit, BeforeCommit, NotStale, AtPrior
  <2> QED
    BY <2>1, <2>3, <2>4, <2>5
    DEF told, NothingTold, NothingChanged, NotStale, BeforeCommit, InRollback, InCleanup, Unstaged,
        Excepts, Answers
<1> QED BY <1>1, <1>2

\* Whatever ends the commit, every change can be undone.
LEMMA RollBackRestores ==
  ASSUME RestoreInv, TypeOK', InPhase', phase = "commit", UNCHANGED <<files, told, base>>,
         \A c \in Change : Recoverable(c),
         NEW e \in {"error", "interrupt"}, RollBack(e)
  PROVE  RestoreInv'
<1>1. phase' = "rollback" /\ step' = "classify" /\ index' = N /\ raised' = e
  BY DEF RollBack, GoTo
<1>2. N \in Change /\ \A c \in Change : ~(c > N) BY NAssumption DEF Change
<1>3. \A c \in Change : Recoverable(c)'
  BY DEF Recoverable, AtPrior, Vacant, InPlace, files
<1>4. InRollback'
  <2>1. rollback'[N] = Absent BY <1>2, <1>3 DEF Recoverable, AtPrior, Vacant, InPlace
  <2>2. Undoing' BY <1>1, <1>2, <1>3, <2>1 DEF Undoing
  <2> QED BY <1>1, <1>2, <1>3, <2>2 DEF InRollback, RestorationSteps
<1> QED
  BY <1>1, <1>4
  DEF RestoreInv, files, told, WholeStages, NothingTold, NothingChanged, NotStale, BeforeCommit,
      InCommit, InCleanup, Unstaged, Excepts, Answers

\* The rest of the invariant while the commit goes on.
LEMMA CommitGoesOn ==
  ASSUME RestoreInv, TypeOK', InPhase', phase = "commit", phase' = "commit", UNCHANGED <<told, base>>,
         WholeStages', InCommit', Excepts'
  PROVE  RestoreInv'
BY DEF RestoreInv, told, NothingTold, NothingChanged, NotStale, BeforeCommit, InRollback, InCleanup,
       Unstaged, Answers

LEMMA InCommitRecoverable ==
  ASSUME RestoreInv, phase = "commit"
  PROVE  \A c \in Change : Recoverable(c)
<1>1. step \in CommitSteps BY DEF RestoreInv, InPhase
<1>2. index \in Change BY DEF RestoreInv, TypeOK, ControlTyped
<1>3. \A c \in Change : c < index \/ c = index \/ c > index BY <1>2, NAssumption DEF Change
<1> QED BY <1>1, <1>3 DEF RestoreInv, InCommit, Recoverable, CommitSteps

LEMMA CommitRestores ==
  ASSUME StagedInv, RestoreInv, TypeOK', InPhase',
         Recheck \/ Displace \/ Displaced \/ Install \/ Installed \/ Confirm \/ Verify
  PROVE  RestoreInv'
<1> USE NAssumption DEF RestoreInv, TypeOK, ControlTyped, FilesTyped, Change
<1>1. phase = "commit" /\ UNCHANGED <<told, base>>
  BY PhaseOfStep DEF Recheck, Displace, Displaced, Install, Installed, Confirm, Verify, CommitSteps
<1>2. \A c \in Change : Recoverable(c) BY <1>1, InCommitRecoverable
<1>3. ASSUME NEW e \in {"error", "interrupt"}, RollBack(e), UNCHANGED files PROVE RestoreInv'
  BY <1>1, <1>2, <1>3, RollBackRestores
<1>4. CASE Recheck
  <2>1. CASE \E e \in Unless(dest[index] = Expected[index]) \cup Failures : RollBack(e)
    BY <1>3, <1>4, <2>1, ExceptionsRaised DEF Recheck
  <2>2. CASE EachChange(phase, "displace")
    <3>1. /\ phase' = "commit" /\ UNCHANGED files
          /\ \/ step' = "recheck"
             \/ step' = "displace" /\ index' = 1
      BY <1>1, <1>4, <2>2 DEF Recheck, EachChange, GoTo
    <3>2. InCommit' BY <1>1, <1>4, <3>1 DEF Recheck, InCommit, files, AtPrior
    <3> QED BY <1>1, <3>1, <3>2, CommitGoesOn DEF files, WholeStages, Excepts
  <2> QED BY <1>4, <2>1, <2>2 DEF Recheck
<1>5. CASE Displace
  <2>1. /\ phase' = "commit" /\ index' = index /\ UNCHANGED <<stage, rollback>>
        /\ step' \in {"install", "displaced"} /\ step = "displace"
    BY <1>1, <1>5 DEF Displace, MoveAside, files, GoTo
  <2>2. AtPrior(index) BY <1>1, <2>1 DEF InCommit
  <2>3. \A c \in Change \ {index} : dest'[c] = dest[c] /\ backup'[c] = backup[c]
    BY <1>5 DEF Displace, MoveAside, files
  <2>4. step' = "install" => Vacant(index)'
    BY <1>5, <2>1, <2>2 DEF Displace, MoveAside, files, GoTo, AtPrior, Vacant
  <2>5. step' = "displaced" => AtPrior(index)' \/ Vacant(index)'
    BY <1>5, <2>1, <2>2 DEF Displace, MoveAside, files, GoTo, AtPrior, Vacant
  <2>6. stage[index] = After[index]
    BY <1>1, <2>1 DEF StagedInv, StagedBeforeReplace, HasStage, WholeStages
  <2>7. \A c \in Change : /\ c > index => AtPrior(c)'
                          /\ c < index => InPlace(c)'
    BY <1>1, <2>1, <2>3 DEF InCommit, AtPrior, InPlace
  <2>8. InCommit' BY <2>1, <2>4, <2>5, <2>6, <2>7 DEF InCommit, AtPrior, Vacant
  <2>9. Excepts'
    BY <1>5, <2>1, ExceptionsRaised DEF Displace, Excepts, GoTo
  <2> QED BY <1>1, <2>1, <2>8, <2>9, CommitGoesOn DEF WholeStages
<1>6. CASE Displaced
  <2>1. step = "displaced" /\ UNCHANGED files BY <1>6 DEF Displaced
  <2>2. CASE DisplaceTookEffect /\ GoTo(phase, "install", index)
    <3>1. phase' = "commit" /\ step' = "install" /\ index' = index BY <1>1, <2>2 DEF GoTo
    <3>2. Vacant(index) BY <1>1, <2>1, <2>2 DEF InCommit, AtPrior, Vacant, DisplaceTookEffect
    <3>3. stage[index] = After[index]
      BY <1>1, <2>1 DEF StagedInv, StagedBeforeReplace, HasStage, WholeStages
    <3>4. InCommit' BY <1>1, <2>1, <3>1, <3>2, <3>3 DEF InCommit, files, AtPrior, Vacant, InPlace
    <3> QED BY <1>1, <2>1, <3>1, <3>4, CommitGoesOn DEF files, WholeStages, Excepts
  <2>3. CASE \E e \in (IF DisplaceTookEffect THEN {} ELSE {raised}) \cup Failures : RollBack(e)
    BY <1>3, <2>1, <2>3 DEF Failures, Excepts
  <2> QED BY <1>6, <2>2, <2>3 DEF Displaced
<1>7. CASE Install
  <2>1. /\ phase' = "commit" /\ index' = index /\ UNCHANGED <<backup, rollback>>
        /\ step' \in {"confirm", "installed"} /\ step = "install"
    BY <1>1, <1>7 DEF Install, MoveIn, files, GoTo
  <2>2. Vacant(index) /\ stage[index] = After[index] BY <1>1, <2>1 DEF InCommit
  <2>3. \A c \in Change \ {index} : dest'[c] = dest[c] /\ stage'[c] = stage[c]
    BY <1>7 DEF Install, MoveIn, files
  <2>4. WholeStages'
    BY <1>7, <2>2 DEF Install, MoveIn, files, WholeStages
  <2>5. step' = "confirm" => InPlace(index)'
    BY <1>7, <2>1, <2>2 DEF Install, MoveIn, files, GoTo, HasStage, Vacant, InPlace
  <2>6. step' = "installed" => (Vacant(index)' \/ InPlace(index)') /\ After[index] # Absent
    BY <1>7, <2>1, <2>2 DEF Install, MoveIn, files, GoTo, HasStage, Vacant, InPlace
  <2>7. \A c \in Change : /\ c > index => AtPrior(c)'
                          /\ c < index => InPlace(c)'
    BY <1>1, <2>1, <2>3 DEF InCommit, AtPrior, InPlace
  <2>8. InCommit' BY <2>1, <2>5, <2>6, <2>7 DEF InCommit, Vacant, InPlace
  <2>9. Excepts'
    BY <1>7, <2>1, ExceptionsRaised DEF Install, Excepts, GoTo
  <2> QED BY <1>1, <2>1, <2>4, <2>8, <2>9, CommitGoesOn
<1>8. CASE Installed
  <2>1. step = "installed" /\ UNCHANGED files BY <1>8 DEF Installed
  <2>2. CASE InstallTookEffect /\ GoTo(phase, "confirm", index)
    <3>1. phase' = "commit" /\ step' = "confirm" /\ index' = index BY <1>1, <2>2 DEF GoTo
    <3>2. InPlace(index) BY <1>1, <2>1, <2>2 DEF InCommit, InPlace, Vacant, InstallTookEffect
    <3>3. InCommit' BY <1>1, <2>1, <3>1, <3>2 DEF InCommit, files, AtPrior, InPlace
    <3> QED BY <1>1, <2>1, <3>1, <3>3, CommitGoesOn DEF files, WholeStages, Excepts
  <2>3. CASE \E e \in (IF InstallTookEffect THEN {} ELSE {raised}) \cup Failures : RollBack(e)
    BY <1>3, <2>1, <2>3 DEF Failures, Excepts
  <2> QED BY <1>8, <2>2, <2>3 DEF Installed
<1>9. CASE Confirm
  <2>1. step = "confirm" /\ UNCHANGED files BY <1>9 DEF Confirm
  <2>2. CASE NextInstallation
    <3>1. /\ phase' = "commit"
          /\ \/ index < N /\ step' = "displace" /\ index' = index + 1
             \/ index = N /\ step' = "verify"
      BY <1>1, <2>2 DEF NextInstallation, GoTo
    <3>2. \A c \in Change : /\ c <= index => InPlace(c)
                            /\ c > index => AtPrior(c)
      BY <1>1, <2>1 DEF InCommit
    <3>3. InCommit' BY <2>1, <3>1, <3>2 DEF InCommit, files, AtPrior, InPlace
    <3> QED BY <1>1, <2>1, <3>1, <3>3, CommitGoesOn DEF files, WholeStages, Excepts
  <2>3. CASE \E e \in Unless(dest[index] = After[index]) \cup Failures : RollBack(e)
    BY <1>3, <2>1, <2>3, ExceptionsRaised
  <2> QED BY <1>9, <2>2, <2>3 DEF Confirm
<1>10. CASE Verify
  <2>1. step = "verify" /\ UNCHANGED files BY <1>10 DEF Verify
  <2>2. CASE GoTo("cleanup", "cleanup", 1)
    <3>1. phase' = "cleanup" /\ step' = "cleanup" /\ index' = 1 BY <2>2 DEF GoTo
    <3>2. InCleanup' BY <1>1, <2>1, <3>1 DEF InCleanup, InCommit, InPlace, files
    <3> QED
      BY <1>1, <2>1, <3>1, <3>2
      DEF told, files, WholeStages, NothingTold, NothingChanged, NotStale, BeforeCommit, InCommit,
          InRollback, Unstaged, Excepts, Answers
  <2>3. CASE \E e \in {"error", "interrupt"} : RollBack(e) BY <1>3, <2>1, <2>3
  <2> QED BY <1>10, <2>2, <2>3 DEF Verify
<1> QED BY <1>4, <1>5, <1>6, <1>7, <1>8, <1>9, <1>10

\* The rest of the invariant while the rollback goes on.
LEMMA RollbackGoesOn ==
  ASSUME RestoreInv, TypeOK', InPhase', phase = "rollback", phase' = "rollback",
         UNCHANGED <<stage, changed, outcome, base>>, residue' = {},
         step' \notin {"sweep", "remaining", "conclude", "close"}, step' = "unstage" => index' = 1,
         InRollback'
  PROVE  RestoreInv'
<1>1. \A c \in Change : ~(c < 1) BY NAssumption DEF Change
<1>2. step' \notin CommitSteps
  BY DEF InPhase, CommitSteps, RestorationSteps, EndingSteps
<1> QED
  BY <1>1, <1>2
  DEF RestoreInv, WholeStages, NothingTold, NothingChanged, NotStale, BeforeCommit, InCommit,
      InCleanup, Unstaged, Excepts, Answers, CommitSteps

LEMMA UndoRestores ==
  ASSUME Faults \subseteq {"check", "commit"}, RestoreInv, TypeOK', InPhase',
         \/ Classify \/ Quarantine \/ Quarantined \/ Restore \/ Restored \/ Settle
         \/ Unquarantine \/ RestorationFails
  PROVE  RestoreInv'
<1> USE NAssumption DEF RestoreInv, TypeOK, ControlTyped, FilesTyped, Change
<1>1. step \in RestorationSteps
  BY DEF Classify, Quarantine, Quarantined, Restore, Restored, Settle, Unquarantine,
         RestorationFails, RestorationSteps
<1>2. phase = "rollback" BY <1>1, PhaseOfStep
<1>3. Failures = {} BY <1>2, NothingFails
<1>4. residue = {} BY <1>2 DEF NothingTold
<1>5. /\ raised \in {"error", "interrupt"} /\ Undoing
      /\ \A c \in Change : (c < index => Recoverable(c)) /\ (c > index => AtPrior(c))
  BY <1>1, <1>2 DEF InRollback
<1>6. Expected[index] # After[index] BY PlanAssumption
\* The other changes stay as they are.
<1>7. ASSUME index' = index, phase' = "rollback", step' \in RestorationSteps, UNCHANGED raised, Undoing',
             \A c \in Change \ {index} :
               dest'[c] = dest[c] /\ backup'[c] = backup[c] /\ rollback'[c] = rollback[c]
      PROVE  InRollback'
  <2>1. \A c \in Change \ {index} :
          /\ AtPrior(c) => AtPrior(c)'
          /\ Recoverable(c) => Recoverable(c)'
    BY <1>7 DEF Recoverable, AtPrior, Vacant, InPlace
  <2>2. \A c \in Change : (c < index' => Recoverable(c)') /\ (c > index' => AtPrior(c)')
    BY <1>5, <1>7, <2>1
  <2> QED BY <1>5, <1>7, <2>2 DEF InRollback
<1>8. CASE Classify
  <2>1. /\ phase' = "rollback" /\ index' = index /\ UNCHANGED files /\ seen' = dest[index]
        /\ UNCHANGED <<raised, told, base>> /\ step = "classify"
        /\ step' = IF dest[index] = After[index] /\ dest[index] # Absent
                   THEN "quarantine" ELSE "restore"
    BY <1>2, <1>8 DEF Classify, GoTo, MustQuarantine
  <2>2. Recoverable(index) BY <1>5, <2>1 DEF Undoing
  <2>3. rollback[index] = Absent BY <2>2 DEF Recoverable, AtPrior, Vacant, InPlace
  <2>4. CASE step' = "quarantine"
    <3>1. InPlace(index) /\ After[index] # Absent
      BY <1>6, <2>1, <2>2, <2>4 DEF Recoverable, AtPrior, Vacant, InPlace
    <3>2. Undoing' BY <2>1, <2>3, <2>4, <3>1 DEF Undoing, InPlace, files
    <3> QED BY <1>2, <1>4, <1>7, <2>1, <2>4, <3>2, RollbackGoesOn DEF files, told, RestorationSteps
  <2>5. CASE step' = "restore"
    <3>1. \/ dest[index] = Expected[index] /\ backup[index] = Absent
          \/ dest[index] = Absent /\ backup[index] = Expected[index]
      BY <2>1, <2>2, <2>5 DEF Recoverable, AtPrior, Vacant, InPlace
    <3>2. Undoing' BY <2>1, <2>3, <2>5, <3>1 DEF Undoing, files
    <3> QED BY <1>2, <1>4, <1>7, <2>1, <2>5, <3>2, RollbackGoesOn DEF files, told, RestorationSteps
  <2> QED BY <2>1, <2>4, <2>5
<1>9. CASE Quarantine
  <2>1. /\ phase' = "rollback" /\ index' = index /\ step' = "quarantined" /\ step = "quarantine"
        /\ UNCHANGED <<raised, told, base, stage>>
    BY <1>2, <1>9 DEF Quarantine, GoTo, MoveOut, files
  <2>2. InPlace(index) /\ After[index] # Absent BY <1>5, <2>1 DEF Undoing
  <2>3. MoveOut /\ threw' = FALSE BY <1>3, <1>9, <2>2 DEF Quarantine, InPlace
  <2>4. Undoing' BY <2>1, <2>2, <2>3 DEF Undoing, MoveOut, InPlace
  <2>5. \A c \in Change \ {index} :
          dest'[c] = dest[c] /\ backup'[c] = backup[c] /\ rollback'[c] = rollback[c]
    BY <2>3 DEF MoveOut
  <2> QED BY <1>2, <1>4, <1>7, <2>1, <2>4, <2>5, RollbackGoesOn DEF told, RestorationSteps
<1>10. CASE Quarantined
  <2>1. ~threw BY <1>5, <1>10 DEF Quarantined, Undoing
  <2>2. /\ phase' = "rollback" /\ index' = index /\ step' = "restore" /\ step = "quarantined"
        /\ UNCHANGED <<files, residue, raised, changed, outcome, base>> /\ seen' = dest[index]
    BY <1>2, <1>10, <2>1 DEF Quarantined, GoTo
  <2>3. Undoing' BY <1>5, <2>2 DEF Undoing, files
  <2> QED BY <1>2, <1>4, <1>7, <2>2, <2>3, RollbackGoesOn DEF files, RestorationSteps
<1>11. CASE Restore
  <2>1. /\ phase' = "rollback" /\ index' = index /\ step' \in {"settle", "restored"}
        /\ step = "restore" /\ UNCHANGED <<raised, told, base, stage, rollback, seen>>
    BY <1>2, <1>11 DEF Restore, GoTo, MoveBack, files
  <2>2. /\ seen = dest[index]
        /\ \/ dest[index] = Expected[index] /\ backup[index] = Absent
           \/ dest[index] = Absent /\ backup[index] = Expected[index]
    BY <1>5, <2>1 DEF Undoing
  <2>3. CASE ~CanRestore(seen)
    <3>1. UNCHANGED files /\ step' = "settle" BY <1>11, <2>3 DEF Restore, GoTo
    <3>2. dest[index] = Expected[index] /\ backup[index] = Absent
      BY <2>2, <2>3 DEF CanRestore
    <3>3. Undoing' BY <1>5, <2>1, <2>2, <3>1, <3>2 DEF Undoing, files
    <3> QED BY <1>2, <1>4, <1>7, <2>1, <3>1, <3>3, RollbackGoesOn DEF files, told, RestorationSteps
  <2>4. CASE CanRestore(seen)
    <3>1. MoveBack /\ threw' = FALSE /\ step' = "restored"
      BY <1>3, <1>11, <2>2, <2>4 DEF Restore, CanRestore, GoTo
    <3>2. Undoing' BY <1>5, <2>1, <2>4, <3>1 DEF Undoing, MoveBack, CanRestore
    <3>3. \A c \in Change \ {index} :
            dest'[c] = dest[c] /\ backup'[c] = backup[c] /\ rollback'[c] = rollback[c]
      BY <3>1 DEF MoveBack
    <3> QED BY <1>2, <1>4, <1>7, <2>1, <3>1, <3>2, <3>3, RollbackGoesOn DEF told, RestorationSteps
  <2> QED BY <2>3, <2>4
<1>12. CASE Restored
  <2>1. ~threw BY <1>5, <1>12 DEF Restored, Undoing
  <2>2. /\ phase' = "rollback" /\ index' = index /\ step' = "settle" /\ step = "restored"
        /\ UNCHANGED <<files, residue, raised, changed, outcome, base>> /\ seen' = dest[index]
    BY <1>2, <1>12, <2>1 DEF Restored, GoTo
  <2>3. Undoing' BY <1>5, <2>2 DEF Undoing, files
  <2> QED BY <1>2, <1>4, <1>7, <2>2, <2>3, RollbackGoesOn DEF files, RestorationSteps
<1>13. CASE Settle
  <2>1. /\ phase' = "rollback" /\ index' = index /\ step' = "unquarantine" /\ step = "settle"
        /\ UNCHANGED <<dest, stage, rollback, local, raised, changed, outcome, base>>
    BY <1>2, <1>13 DEF Settle, GoTo
  <2>2. seen = Expected[index] /\ dest[index] = Expected[index] /\ backup[index] = Absent
    BY <1>5, <2>1 DEF Undoing
  <2>3. PICK r : /\ r \in RemoveExpected(backup[index], Expected[index])
                    \/ r = [left |-> backup[index], named |-> backup[index]]
                 /\ backup' = [backup EXCEPT ![index] = r.left]
                 /\ residue' = residue \cup Entry("backup", index, r.named)
    BY <1>13, <2>2 DEF Settle
  <2>4. r.left = Absent /\ r.named = Absent BY <1>3, <2>2, <2>3, RemovedWhole
  <2>5. residue' = {} BY <1>4, <2>3, <2>4 DEF Entry
  <2>6. Undoing' BY <1>5, <2>1, <2>2, <2>3, <2>4 DEF Undoing, local
  <2>7. \A c \in Change \ {index} :
          dest'[c] = dest[c] /\ backup'[c] = backup[c] /\ rollback'[c] = rollback[c]
    BY <2>1, <2>3
  <2> QED BY <1>2, <1>7, <2>1, <2>5, <2>6, <2>7, RollbackGoesOn DEF RestorationSteps
<1>14. CASE Unquarantine
  <2>1. /\ phase' = "rollback" /\ step = "unquarantine" /\ NextRestoration
        /\ UNCHANGED <<dest, stage, backup, local, raised, changed, outcome, base>>
    BY <1>2, <1>14 DEF Unquarantine, NextRestoration, GoTo
  <2>2. /\ seen = Expected[index] /\ dest[index] = Expected[index] /\ backup[index] = Absent
        /\ rollback[index] \in {Absent, After[index]}
    BY <1>5, <2>1 DEF Undoing
  <2>3. PICK r : /\ r \in RemoveExpected(rollback[index], After[index])
                    \/ (rollback[index] = Absent
                        /\ r = [left |-> rollback[index], named |-> rollback[index]])
                 /\ rollback' = [rollback EXCEPT ![index] = r.left]
                 /\ residue' = residue \cup Entry("rollback", index, r.named)
    BY <1>14, <2>2 DEF Unquarantine
  <2>4. r.left = Absent /\ r.named = Absent BY <1>3, <2>2, <2>3, RemovedWhole
  <2>5. residue' = {} BY <1>4, <2>3, <2>4 DEF Entry
  <2>6. AtPrior(index)' \/ index' # index BY <2>1, <2>2, <2>3, <2>4 DEF AtPrior
  <2>7. \A c \in Change : /\ c >= index => AtPrior(c)'
                          /\ c < index => Recoverable(c)'
    BY <1>5, <2>1, <2>2, <2>3, <2>4 DEF Recoverable, AtPrior, Vacant, InPlace
  <2>8. \/ index > 1 /\ step' = "classify" /\ index' = index - 1
        \/ index = 1 /\ step' = "unstage" /\ index' = 1
    BY <2>1 DEF NextRestoration, GoTo
  <2>9. CASE step' = "classify"
    <3>1. Recoverable(index)' BY <2>7, <2>8, <2>9
    <3>2. Undoing' BY <2>9, <3>1 DEF Undoing, Recoverable, AtPrior, Vacant, InPlace
    <3>3. InRollback' BY <1>5, <2>1, <2>7, <2>8, <2>9, <3>2 DEF InRollback, RestorationSteps
    <3> QED BY <1>2, <2>1, <2>5, <2>9, <3>3, RollbackGoesOn
  <2>10. CASE step' = "unstage"
    <3>1. InRollback' BY <1>5, <2>1, <2>7, <2>8, <2>10 DEF InRollback, RestorationSteps
    <3> QED BY <1>2, <2>1, <2>5, <2>8, <2>10, <3>1, RollbackGoesOn
  <2> QED BY <2>8, <2>9, <2>10
<1>15. CASE RestorationFails BY <1>3, <1>15 DEF RestorationFails
<1> QED BY <1>8, <1>9, <1>10, <1>11, <1>12, <1>13, <1>14, <1>15

LEMMA NothingUnited == ASSUME NEW T, \A x \in T : x = {} PROVE UNION T = {}
OBVIOUS

\* Where everything is undone.
LEMMA EndsAt ==
  ASSUME RestoreInv, phase = "rollback", step \notin RestorationSteps
  PROVE  dest = base /\ \A c \in Change : AtPrior(c)
BY DEF RestoreInv, InRollback, NotStale, AtPrior, TypeOK, FilesTyped

LEMMA EndingRestores ==
  ASSUME Faults \subseteq {"check", "commit"}, RestoreInv, TypeOK', InPhase',
         Unstage \/ Sweep \/ Cleanup \/ Remaining
  PROVE  RestoreInv'
<1> USE NAssumption DEF RestoreInv, TypeOK, ControlTyped, FilesTyped, Change
<1>1. /\ phase \in {"rollback", "cleanup"}
      /\ step \in {"unstage", "sweep", "cleanup", "remaining"} /\ step \notin RestorationSteps
  BY DEF Unstage, Sweep, Cleanup, Remaining, InPhase, Phases, CommitSteps, RestorationSteps
<1>2. Failures = {} BY <1>1, NothingFails
<1>3. residue = {} BY <1>1 DEF NothingTold
<1>4. phase = "rollback" => \A c \in Change : AtPrior(c) BY <1>1 DEF InRollback
<1>5. CASE Unstage
  <2>1. /\ phase' = phase /\ step = "unstage"
        /\ UNCHANGED <<dest, backup, rollback, raised, changed, outcome, base>>
    BY <1>5 DEF Unstage, EachChange, GoTo
  <2>2. /\ residue' = {} /\ stage'[index] = Absent
        /\ \A c \in Change \ {index} : stage'[c] = stage[c]
    <3>1. CASE HasStage(index)
      <4>1. PICK r \in RemoveExpected(stage[index], After[index]) :
              /\ stage' = [stage EXCEPT ![index] = r.left]
              /\ residue' = residue \cup Entry("stage", index, r.named)
        BY <1>5, <3>1 DEF Unstage
      <4>2. index \in Change /\ stage[index] \in {Absent, After[index]} BY DEF WholeStages
      <4>3. r.left = Absent /\ r.named = Absent BY <1>2, <4>2, RemovedWhole
      <4> QED BY <1>3, <4>1, <4>3 DEF Entry
    <3>2. CASE ~HasStage(index)
      BY <1>3, <1>5, <3>2 DEF Unstage, HasStage, WholeStages
    <3> QED BY <3>1, <3>2
  <2>3. WholeStages' BY <2>2 DEF WholeStages
  <2>4. \A c \in Change : c <= index => stage'[c] = Absent
    BY <1>1, <2>1, <2>2 DEF Unstaged
  <2>5. \/ step' = "unstage" /\ index' = index + 1
        \/ index = N /\ step' = IF phase = "rollback" THEN "sweep" ELSE "conclude"
    BY <1>1, <1>5, <2>1, <2>2 DEF Unstage, EachChange, GoTo, AfterUnstaging
  <2>6. Unstaged' BY <2>1, <2>4, <2>5 DEF Unstaged
  <2>7. InRollback' /\ InCleanup'
    BY <1>1, <1>4, <2>1, <2>5 DEF InRollback, InCleanup, AtPrior, RestorationSteps
  <2> QED
    BY <1>1, <2>1, <2>2, <2>3, <2>5, <2>6, <2>7
    DEF NothingTold, NothingChanged, NotStale, BeforeCommit, InCommit, Excepts, Answers
<1>6. CASE Sweep
  <2>1. /\ phase' = phase /\ step = "sweep" /\ step' = "remaining" /\ index' = 1
        /\ UNCHANGED <<files, raised, changed, outcome, base>>
    BY <1>6 DEF Sweep, GoTo
  <2>2. phase = "rollback"
    BY <1>1, <2>1 DEF InPhase, Phases, EndingSteps
  <2>3. \A c \in Change : backup[c] = Absent /\ rollback[c] = Absent
    BY <1>4, <2>2 DEF AtPrior
  <2>4. residue' = {}
    <3> DEFINE Swept(slot, contents, unreadable) ==
                 UNION {Entry(slot, c, IF c \in unreadable THEN Unknown ELSE contents[c]) :
                          c \in Unnamed(slot)}
    <3>1. PICK lostBackup \in SUBSET Unnamed("backup"), lostRollback \in SUBSET Unnamed("rollback") :
            /\ Failures = {} => lostBackup \cup lostRollback = {}
            /\ residue' = residue \cup Swept("backup", backup, lostBackup)
                                  \cup Swept("rollback", rollback, lostRollback)
      BY <1>6 DEF Sweep
    <3>2. lostBackup = {} /\ lostRollback = {} BY <1>2, <3>1
    <3>3. ASSUME NEW c \in Unnamed("backup")
          PROVE  Entry("backup", c, IF c \in lostBackup THEN Unknown ELSE backup[c]) = {}
      <4>1. c \notin lostBackup /\ backup[c] = Absent BY <2>3, <3>2 DEF Unnamed
      <4> QED BY <4>1 DEF Entry
    <3>4. ASSUME NEW c \in Unnamed("rollback")
          PROVE  Entry("rollback", c, IF c \in lostRollback THEN Unknown ELSE rollback[c]) = {}
      <4>1. c \notin lostRollback /\ rollback[c] = Absent BY <2>3, <3>2 DEF Unnamed
      <4> QED BY <4>1 DEF Entry
    <3>5. Swept("backup", backup, lostBackup) = {}
      <4> DEFINE T == {Entry("backup", c, IF c \in lostBackup THEN Unknown ELSE backup[c]) : c \in Unnamed("backup")}
      <4>1. \A x \in T : x = {} BY <3>3
      <4> HIDE DEF T
      <4>2. UNION T = {} BY <4>1, NothingUnited
      <4> QED BY <4>2 DEF T
    <3>6. Swept("rollback", rollback, lostRollback) = {}
      <4> DEFINE T == {Entry("rollback", c, IF c \in lostRollback THEN Unknown ELSE rollback[c]) : c \in Unnamed("rollback")}
      <4>1. \A x \in T : x = {} BY <3>4
      <4> HIDE DEF T
      <4>2. UNION T = {} BY <4>1, NothingUnited
      <4> QED BY <4>2 DEF T
    <3> HIDE DEF Swept
    <3> QED BY <1>3, <3>1, <3>5, <3>6
  <2>5. InRollback' BY <1>4, <2>1, <2>2 DEF InRollback, AtPrior, files, RestorationSteps
  <2>6. Unstaged' BY <1>1, <2>1 DEF Unstaged, files
  <2> QED
    BY <1>1, <2>1, <2>2, <2>4, <2>5, <2>6
    DEF files, WholeStages, NothingTold, NothingChanged, NotStale, BeforeCommit, InCommit, InCleanup,
        Excepts, Answers
<1>7. CASE Cleanup
  <2>1. /\ phase' = phase /\ step = "cleanup" /\ phase = "cleanup"
        /\ UNCHANGED <<dest, stage, rollback, raised, changed, outcome, base>>
    BY <1>1, <1>7 DEF Cleanup, EachChange, GoTo, InPhase, RestorationSteps, EndingSteps
  <2>2. /\ residue' = {} /\ backup'[index] = Absent
        /\ \A c \in Change \ {index} : backup'[c] = backup[c]
    <3>1. CASE Expected[index] # Absent
      <4>1. PICK r \in RemoveExpected(backup[index], Expected[index]) :
              /\ backup' = [backup EXCEPT ![index] = r.left]
              /\ residue' = residue \cup Entry("backup", index, r.named)
        BY <1>7, <3>1 DEF Cleanup
      <4>2. r.left = Absent /\ r.named = Absent
        BY <1>2, <2>1, RemovedWhole DEF InCleanup
      <4> QED BY <1>3, <4>1, <4>2 DEF Entry
    <3>2. CASE Expected[index] = Absent
      BY <1>3, <1>7, <2>1, <3>2 DEF Cleanup, InCleanup
    <3> QED BY <3>1, <3>2
  <2>3. \/ step' = "cleanup" /\ index' = index + 1
        \/ index = N /\ step' = "unstage" /\ index' = 1
    BY <1>7, <2>1 DEF Cleanup, EachChange, GoTo
  <2>4. \A c \in Change : c <= index => backup'[c] = Absent
    BY <2>1, <2>2 DEF InCleanup
  <2>5. InCleanup' BY <2>1, <2>2, <2>3, <2>4 DEF InCleanup
  <2>6. Unstaged' BY <2>1, <2>3 DEF Unstaged
  <2> QED
    BY <2>1, <2>2, <2>3, <2>5, <2>6
    DEF WholeStages, NothingTold, NothingChanged, NotStale, BeforeCommit, InCommit, InRollback,
        Excepts, Answers
<1>8. CASE Remaining
  <2>1. /\ phase' = phase /\ step = "remaining" /\ step' \in {"remaining", "conclude"}
        /\ UNCHANGED <<files, raised, outcome, base>>
    BY <1>8 DEF Remaining, EachChange, GoTo
  <2>2. phase = "rollback" BY <1>1, <2>1 DEF InCleanup
  <2>3. UNCHANGED <<residue, changed>>
    BY <1>2, <1>4, <1>8, <2>2 DEF Remaining, NotPrior, AtPrior
  <2>4. InRollback' BY <1>4, <2>1, <2>2 DEF InRollback, AtPrior, files, RestorationSteps
  <2>5. Unstaged' BY <2>1, <2>2 DEF Unstaged, files
  <2> QED
    BY <2>1, <2>2, <2>3, <2>4, <2>5
    DEF files, WholeStages, NothingTold, NothingChanged, NotStale, BeforeCommit, InCommit, InCleanup,
        Excepts, Answers
<1> QED BY <1>5, <1>6, <1>7, <1>8

LEMMA ReturnRestores ==
  ASSUME Faults \subseteq {"check", "commit"}, RestoreInv, TypeOK', InPhase',
         Conclude \/ Close
  PROVE  RestoreInv'
<1> USE DEF RestoreInv, TypeOK, ControlTyped, FilesTyped
<1>1. /\ phase \in {"rollback", "cleanup"} /\ step \notin RestorationSteps
      /\ step \in {"conclude", "close"}
  BY DEF Conclude, Close, InPhase, Phases, CommitSteps, RestorationSteps
<1>2. Failures = {} /\ residue = {} BY <1>1, NothingFails DEF NothingTold
<1>3. phase = "rollback" => dest = base /\ \A c \in Change : AtPrior(c) BY <1>1, EndsAt
<1>4. phase = "cleanup" => \A c \in Change : dest[c] = After[c] BY DEF InCleanup
<1>5. Clean
  BY <1>1, <1>3 DEF Unstaged, InCleanup, AtPrior, Clean
<1>6. UNCHANGED <<files, residue, base>> BY DEF Conclude, Close
<1>7. After \in [Change -> Content] /\ dest \in [Change -> Content]
  BY PlanAssumption DEF Content
<1>8. CASE step' = "close"
  <2>1. /\ phase = "cleanup" /\ phase' = "cleanup" /\ step = "conclude" /\ index' = index
        /\ outcome' = "applied" /\ raised' = raised
    BY <1>1, <1>8 DEF Conclude, Close, Return, ReturnResidue, GoTo
  <2>2. InCleanup' BY <1>6, <1>8, <2>1 DEF InCleanup, files
  <2>3. Unstaged' BY <1>6, <1>8, <2>1 DEF Unstaged, files
  <2> QED
    BY <1>2, <1>6, <1>8, <2>1, <2>2, <2>3
    DEF files, WholeStages, NothingTold, NothingChanged, NotStale, BeforeCommit, InCommit,
        InRollback, Excepts, Answers
<1>9. CASE step' # "close"
  <2>1. phase' = "ended" /\ step' = "done"
    BY <1>9 DEF Conclude, Close, Return, ReturnResidue, GoTo
  <2>2. \/ /\ phase = "rollback" /\ step = "conclude" /\ outcome' = "restored"
           /\ raised' \in {"error", "interrupt"}
        \/ phase = "cleanup" /\ step = "close" /\ outcome' = "applied" /\ raised' = "none"
    <3>1. CASE Conclude
      BY <1>1, <1>2, <1>9, <3>1 DEF Conclude, Return, GoTo, InRollback, NothingChanged
    <3>2. CASE Close
      BY <1>1, <1>2, <3>2 DEF Close, Return, InCleanup, InPhase, RestorationSteps, EndingSteps
    <3> QED BY <3>1, <3>2
  <2>3. Clean => Clean' BY <1>6 DEF Clean, files
  <2>4. Answers'
    <3>1. FailedCommitRestores' BY <1>1, <1>3, <1>4, <1>6, <2>2 DEF FailedCommitRestores, files
    <3>2. phase = "cleanup" => dest' = After BY <1>4, <1>6, <1>7 DEF files
    <3>3. phase = "rollback" => dest' = base' BY <1>3, <1>6 DEF files
    <3> QED BY <1>5, <2>2, <2>3, <3>1, <3>2, <3>3 DEF Answers
  <2> QED
    BY <1>6, <2>1, <2>4
    DEF files, WholeStages, NothingTold, NothingChanged, NotStale, BeforeCommit, InCommit,
        InRollback, InCleanup, Unstaged, Excepts
<1> QED BY <1>8, <1>9

\* SIGINT that nothing classifies: the change the rollback is at and those
\* before it can still be taken back by hand.
LEMMA InterruptRestores ==
  ASSUME Faults \subseteq {"check", "commit"}, RestoreInv, TypeOK', InPhase', Interrupt
  PROVE  RestoreInv'
<1> USE DEF RestoreInv, TypeOK, ControlTyped, FilesTyped
<1>1. /\ phase \in {"rollback", "cleanup"}
      /\ step \in RestorationSteps => step = "classify"
  <2>1. CASE step \in {"unstage", "classify", "sweep", "cleanup", "remaining", "conclude"}
    BY <2>1 DEF InPhase, Phases, CommitSteps, RestorationSteps
  <2>2. CASE step \in {"quarantined", "restored", "unquarantine"} /\ Failures # {}
    BY <2>2, NothingFails DEF InPhase, Phases, CommitSteps, RestorationSteps
  <2> QED BY <2>1, <2>2 DEF Interrupt, Unclassified
<1>2. /\ phase' = "ended" /\ step' = "done" /\ outcome' = "unchanged" /\ raised' = "interrupt"
      /\ UNCHANGED <<files, residue, changed, base>>
  BY DEF Interrupt, Return, GoTo
<1>3. \/ \A c \in Change : dest[c] = After[c]
      \/ \A c \in Change : base[c] \in {Absent, dest[c], backup[c]}
  <2>1. CASE phase = "cleanup" BY <2>1 DEF InCleanup
  <2>2. CASE phase = "rollback" /\ step \notin RestorationSteps
    BY <1>1, <2>2 DEF InRollback, NotStale, AtPrior
  <2>3. CASE phase = "rollback" /\ step = "classify"
    <3>1. \A c \in Change : Recoverable(c)
      BY <2>3 DEF InRollback, Undoing, RestorationSteps, Recoverable, Change
    <3> QED BY <2>3, <3>1 DEF NotStale, Recoverable, AtPrior, Vacant, InPlace
  <2> QED BY <1>1, <2>1, <2>2, <2>3
<1>4. Answers'
  BY <1>2, <1>3 DEF Answers, FailedCommitRestores, Escaped, files
<1> QED
  BY <1>2, <1>4
  DEF files, WholeStages, NothingTold, NothingChanged, NotStale, BeforeCommit, InCommit,
      InRollback, InCleanup, Unstaged, Excepts

LEMMA StepRestore ==
  ASSUME Foreign = {}, Faults \subseteq {"check", "commit"}, StagedInv, RestoreInv, [Next]_vars
  PROVE  RestoreInv'
<1>1. TypeOK' /\ InPhase' BY StepTyped, PhaseStep DEF RestoreInv
<1>2. CASE ForeignWrite BY <1>2 DEF ForeignWrite
<1>3. CASE UNCHANGED vars
  <2>1. UNCHANGED <<files, control, local, raised, told, base>> BY <1>3 DEF vars
  <2> USE <1>1, <2>1 DEF RestoreInv, files, control, local, told
  <2>2. WholeStages' /\ NothingTold' /\ NothingChanged' /\ NotStale' /\ BeforeCommit' /\ Unstaged'
    BY DEF WholeStages, NothingTold, NothingChanged, NotStale, BeforeCommit, Unstaged
  <2>3. InCommit' BY DEF InCommit, AtPrior, Vacant, InPlace
  <2>4. InRollback' BY DEF InRollback, Undoing, Recoverable, AtPrior, Vacant, InPlace
  <2>5. InCleanup' /\ Excepts' BY DEF InCleanup, Excepts
  <2>6. Answers' BY DEF Answers, FailedCommitRestores, Escaped, Clean
  <2> QED BY <2>2, <2>3, <2>4, <2>5, <2>6
<1> QED
  BY <1>1, <1>2, <1>3, CheckRestores, CommitRestores, UndoRestores, EndingRestores, ReturnRestores,
     InterruptRestores
  DEF Next, Step, Returned

\* A call that raises nothing has applied the plan.
LEMMA StepAnswers ==
  ASSUME Faults \subseteq {"check", "commit"}, RestoreInv, Step, step' = "done", raised' = "none"
  PROVE  outcome' = "applied"
<1> USE DEF RestoreInv, TypeOK, ControlTyped
<1>1. \/ Probe \/ Conclude \/ Close \/ Interrupt
  BY DEF Step, Stage, Unstage, AfterUnstaging, Recheck, Displace, Displaced, Install, Installed,
         Confirm, Verify, Classify, Quarantine, Quarantined, GiveUp, Restore, Restored, Settle,
         Unquarantine, RestorationFails, Sweep, Cleanup, Remaining, EachChange, NextInstallation,
         NextRestoration, RollBack, GoTo
<1>2. CASE Probe
  <2>1. step = "probe" /\ phase = "check" BY <1>2, PhaseOfStep DEF Probe
  <2>2. PICK e \in Unless(dest[index] = Expected[index]) \cup Failures : Return("unchanged", e)
    BY <1>2, <2>1 DEF Probe, EachChange, GoTo
  <2> QED BY <2>2, ExceptionsRaised DEF Return
<1>3. CASE Conclude
  <2>1. phase \in {"rollback", "cleanup"} /\ step = "conclude"
    BY <1>3 DEF Conclude, InPhase, Phases, CommitSteps
  <2>2. phase = "rollback" => raised \in {"error", "interrupt"} BY DEF InRollback
  <2> QED BY <1>3, <2>1, <2>2 DEF Conclude, Return, ReturnResidue, GoTo
<1>4. CASE Close
  <2>1. phase = "cleanup" /\ step = "close"
    BY <1>4 DEF Close, InPhase, Phases, CommitSteps, RestorationSteps, EndingSteps
  <2> QED BY <1>4, <2>1 DEF Close, Return, InCleanup
<1>5. CASE Interrupt BY <1>5 DEF Interrupt, Return
<1> QED BY <1>1, <1>2, <1>3, <1>4, <1>5

LEMMA DoneIsEnded == ASSUME RestoreInv, step = "done" PROVE phase = "ended"
BY DEF RestoreInv, InPhase, TypeOK, ControlTyped, Phases, CommitSteps, RestorationSteps, EndingSteps

LEMMA BaseStays == Step => UNCHANGED base
BY DEF Step, Probe, Stage, Unstage, Recheck, Displace, Displaced, Install, Installed, Confirm, Verify,
       Classify, Quarantine, Quarantined, GiveUp, Restore, Restored, Settle, Unquarantine,
       RestorationFails, Sweep, Cleanup, Remaining, Conclude, Close, Interrupt

\* A commit that fails, and only it, is undone: everything is applied or
\* everything is as it was, for any number of changes, unless SIGINT ends the
\* call where no clause classifies it; then every preimage is in place or at
\* its backup name (transaction.py:463-525).
THEOREM FailedCommitsRestore ==
  ASSUME Foreign = {}, Faults \subseteq {"check", "commit"}
  PROVE  Spec => []FailedCommitRestores
<1>1. RestoreInv => FailedCommitRestores
  <2> SUFFICES ASSUME RestoreInv, step = "done" PROVE FailedCommitRestores
    BY DEF FailedCommitRestores
  <2> QED BY DoneIsEnded DEF RestoreInv, Answers
<1>2. StagedInv /\ RestoreInv /\ [Next]_vars => StagedInv' /\ RestoreInv'
  BY StepStaged, StepRestore
<1> QED BY InitStaged, InitRestore, <1>1, <1>2, PTL DEF Spec

---------------------------------------------------------------------------
(* A call beside other writers: what holds of its private names and its    *)
(* locals whoever writes the destinations, and what one of its steps can   *)
(* do to the names of a change.                                            *)

\* A stage is whole, torn or gone, and what is installed is whole.
StagesShaped ==
  /\ \A c \in Change : stage[c] \in {Absent, Broken, After[c]}
  /\ step = "install" /\ HasStage(index) => stage[index] = After[index]

\* No rename to a private name takes the place of an object that lies there.
NamesFree ==
  /\ \A c \in Change : NotDisplaced(c) => backup[c] = Absent
  /\ phase = "rollback" /\ step \in RestorationSteps =>
       \A c \in Change :
         c < index \/ (c = index /\ step \in {"classify", "quarantine"}) => rollback[c] = Absent

\* The changes the installation loop has passed, and those it has to keep.
Passed(c) == step = "verify" \/ (phase = "commit" /\ step # "recheck" /\ c < index)
Committed(c) == Passed(c) \/ phase = "cleanup" \/ (step = "done" /\ raised = "none")

\* What was displaced is kept until the cleanup comes to it.
BackupsKept ==
  \A c \in Change :
    /\ Expected[c] # Absent
    /\ \/ Passed(c)
       \/ c = index /\ step \in {"install", "installed", "confirm"}
       \/ step = "cleanup" /\ c >= index
    => backup[c] # Absent

PrivateInv ==
  /\ StagedInv /\ ResidueInv /\ StagesShaped /\ NamesFree /\ BackupsKept /\ Raising
  /\ step = "close" => residue = {}

\* The cleanup has removed the backup of c, and found it to be the preimage.
Won(c) ==
  \/ step = "done" /\ raised = "none"
  \/ phase = "cleanup" /\ residue = {} /\ (step # "cleanup" \/ c < index)

\* The change is in place, and its preimage was this call's to remove.
Owns(c) == Committed(c) /\ (backup[c] = Expected[c] \/ Won(c))

NotInstalled(c) == NotDisplaced(c) \/ (c = index /\ step \in {"displaced", "install"})

\* The rollback of c goes by a look that found the preimage in place.
Decided(c) ==
  c = index /\ step \in {"restore", "settle", "unquarantine"} /\ seen = Expected[c]

\* An object that another call installed is still there.
KeptHere(theirs, c) ==
  dest[c] = theirs \/ (theirs # Absent /\ theirs \in {backup[c], rollback[c]})

LEMMA InitPrivate == Init => PrivateInv
<1> SUFFICES ASSUME Init PROVE PrivateInv OBVIOUS
<1>1. StagedInv /\ ResidueInv BY InitStaged, InitResidue
<1>2. StagesShaped /\ NamesFree /\ BackupsKept /\ Raising /\ (step = "close" => residue = {})
  BY DEF Init, StagesShaped, NamesFree, BackupsKept, Raising, Passed
<1> QED BY <1>1, <1>2 DEF PrivateInv

\* What a step of another process can change of it.
LEMMA OthersLeavePrivate ==
  ASSUME PrivateInv, dest' \in [Change -> Content],
         UNCHANGED <<stage, backup, rollback, control, local, raised, told, base>>
  PROVE  PrivateInv'
<1> USE DEF control, local, told, PrivateInv
<1>1. TypeOK' BY DEF StagedInv, TypeOK, FilesTyped, ControlTyped, ToldTyped
<1>2. StagedInv'
  BY <1>1 DEF StagedInv, InPhase, StagedSoFar, StagedBeforeReplace
<1>3. ResidueInv'
  <2>1. ExitCode' = ExitCode BY DEF ExitCode
  <2> QED
    BY <1>1, <2>1 DEF ResidueInv, InPhase, Placed, StagesAccounted, BackupsAccounted, AllAccounted,
                      Accounted, Reported
<1>4. StagesShaped' /\ NamesFree' /\ BackupsKept' /\ Raising'
  BY DEF StagesShaped, NamesFree, NotDisplaced, BackupsKept, Passed, Raising
<1> QED BY <1>2, <1>3, <1>4

\* What is left of an object is the object, a part of it, or nothing.
LEMMA RemovalLeaves ==
  ASSUME NEW content, NEW expected, NEW r \in RemoveExpected(content, expected)
  PROVE  /\ r.left \in {content, Absent, Broken}
         /\ content # expected => r.left = content
         /\ r.named = Absent => r.left = Absent /\ content \in {Absent, expected}
BY IdentityAssumption DEF RemoveExpected

LEMMA StepShapes ==
  ASSUME PrivateInv, [Next]_vars
  PROVE  StagesShaped'
<1> USE DEF PrivateInv, StagedInv, TypeOK, ControlTyped, FilesTyped, StagesShaped
<1>1. CASE Stage
  <2>1. step' # "install" BY <1>1 DEF Stage, EachChange, GoTo
  <2>2. \A c \in Change : stage'[c] = stage[c] \/ stage'[c] \in {Absent, Broken, After[c]}
    BY <1>1 DEF Stage
  <2> QED BY <2>1, <2>2
<1>2. CASE Unstage
  <2>1. step' # "install" BY <1>2 DEF Unstage, EachChange, GoTo, AfterUnstaging
  <2>2. \A c \in Change : stage'[c] \in {stage[c], Absent, Broken}
    BY <1>2, RemovalLeaves DEF Unstage
  <2> QED BY <2>1, <2>2
<1>3. CASE Install
  <2>1. step' # "install" BY <1>3 DEF Install, GoTo
  <2>2. \A c \in Change : stage'[c] \in {stage[c], Absent} BY <1>3 DEF Install, MoveIn, files
  <2> QED BY <2>1, <2>2
<1>4. CASE Displace \/ Displaced
  <2>1. phase = "commit" /\ step \in {"displace", "displaced"} /\ UNCHANGED stage
    BY <1>4, PhaseOfStep DEF Displace, Displaced, MoveAside, files, CommitSteps
  <2>2. step' = "install" => index' = index
    BY <1>4 DEF Displace, Displaced, RollBack, GoTo
  <2> QED BY <2>1, <2>2 DEF StagedBeforeReplace, HasStage
<1>5. CASE UNCHANGED vars BY <1>5 DEF vars, files, control, HasStage
<1>6. CASE ForeignWrite BY <1>6 DEF ForeignWrite, control, HasStage
<1>7. CASE Probe \/ Recheck \/ Installed \/ Confirm \/ Verify \/ Remaining \/ Conclude \/ Close \/ Interrupt
  <2>1. UNCHANGED stage BY <1>7 DEF Probe, Recheck, Installed, Confirm, Verify, Remaining, Conclude,
                                    Close, Interrupt, files
  <2>2. step' # "install"
    BY <1>7 DEF Probe, Recheck, Installed, Confirm, Verify, Remaining, Conclude, Close, Interrupt,
                EachChange, NextInstallation, Return, ReturnResidue, RollBack, GoTo
  <2> QED BY <2>1, <2>2
<1>8. CASE Classify \/ Quarantine \/ Quarantined \/ Restore \/ Restored \/ Settle \/ Unquarantine
           \/ RestorationFails \/ Sweep \/ Cleanup
  <2>1. UNCHANGED stage
    BY <1>8 DEF Classify, Quarantine, MoveOut, Quarantined, Restore, MoveBack, Restored, Settle,
                Unquarantine, RestorationFails, Sweep, Cleanup, files
  <2>2. step' # "install"
    BY <1>8 DEF Classify, Quarantine, Quarantined, GiveUp, Restore, Restored, Settle, Unquarantine,
                RestorationFails, NextRestoration, Sweep, Cleanup, EachChange, GoTo
  <2> QED BY <2>1, <2>2
<1> QED BY <1>1, <1>2, <1>3, <1>4, <1>5, <1>6, <1>7, <1>8 DEF Next, Step, Returned

Leaves(c) == UNCHANGED <<dest[c], backup[c], rollback[c]>>

SetsAside(c) ==
  /\ step = "displace" /\ c = index /\ dest[c] # Absent /\ Expected[c] # Absent /\ backup[c] = Absent
  /\ backup'[c] = dest[c] /\ dest'[c] = Absent /\ rollback'[c] = rollback[c]

PutsIn(c) ==
  /\ step = "install" /\ c = index /\ HasStage(c)
  /\ dest'[c] = After[c] /\ UNCHANGED <<backup[c], rollback[c]>>

TakesOut(c) ==
  /\ step = "quarantine" /\ c = index /\ dest[c] # Absent /\ rollback[c] = Absent
  /\ rollback'[c] = dest[c] /\ dest'[c] = Absent /\ backup'[c] = backup[c]

PutsBack(c) ==
  /\ step = "restore" /\ c = index /\ backup[c] = Expected[c] /\ Expected[c] # Absent
  /\ dest'[c] = Expected[c] /\ backup'[c] = Absent /\ rollback'[c] = rollback[c]

DropsBackup(c) ==
  /\ step \in {"settle", "cleanup"} /\ c = index /\ backup[c] = Expected[c]
  /\ backup'[c] \in {Expected[c], Absent, Broken} /\ UNCHANGED <<dest[c], rollback[c]>>

DropsRollback(c) ==
  /\ step = "unquarantine" /\ c = index /\ seen = Expected[c] /\ rollback[c] = After[c]
  /\ rollback'[c] \in {After[c], Absent, Broken} /\ UNCHANGED <<dest[c], backup[c]>>

\* What a step does to the names of a change, whoever else writes.
LEMMA StepMoves ==
  ASSUME PrivateInv, Step, NEW c \in Change
  PROVE  \/ Leaves(c) \/ SetsAside(c) \/ PutsIn(c) \/ TakesOut(c) \/ PutsBack(c)
         \/ DropsBackup(c) \/ DropsRollback(c)
<1> USE DEF PrivateInv, StagedInv, TypeOK, ControlTyped, FilesTyped
<1>1. CASE Displace
  <2>1. UNCHANGED files \/ (MoveAside /\ Expected[index] # Absent) BY <1>1 DEF Displace
  <2>2. step = "displace" /\ backup[index] = Absent
    BY <1>1 DEF Displace, NamesFree, NotDisplaced
  <2> QED BY <2>1, <2>2 DEF MoveAside, files, Leaves, SetsAside
<1>2. CASE Install
  <2>1. UNCHANGED files \/ (MoveIn /\ HasStage(index)) BY <1>2 DEF Install
  <2>2. step = "install" /\ (HasStage(index) => stage[index] = After[index])
    BY <1>2 DEF Install, StagesShaped
  <2> QED BY <2>1, <2>2 DEF MoveIn, files, Leaves, PutsIn
<1>3. CASE Quarantine
  <2>1. UNCHANGED files \/ MoveOut BY <1>3 DEF Quarantine
  <2>2. step = "quarantine" /\ rollback[index] = Absent
    BY <1>3, PhaseOfStep DEF Quarantine, NamesFree, RestorationSteps
  <2> QED BY <2>1, <2>2 DEF MoveOut, files, Leaves, TakesOut
<1>4. CASE Restore
  <2>1. UNCHANGED files \/ (MoveBack /\ CanRestore(seen)) BY <1>4 DEF Restore
  <2>2. step = "restore" BY <1>4 DEF Restore
  <2> QED BY <2>1, <2>2 DEF MoveBack, CanRestore, files, Leaves, PutsBack
<1>5. CASE Settle
  <2>1. PICK left \in {backup[index], Absent, Broken} :
          /\ backup' = [backup EXCEPT ![index] = left]
          /\ backup[index] # Expected[index] => left = backup[index]
    <3>1. CASE seen = Expected[index] /\ backup[index] = Expected[index]
      BY <1>5, <3>1, RemovalLeaves DEF Settle
    <3>2. CASE ~(seen = Expected[index] /\ backup[index] = Expected[index])
      <4>1. PICK r \in {[left |-> backup[index], named |-> backup[index]]} :
              backup' = [backup EXCEPT ![index] = r.left]
        BY <1>5, <3>2 DEF Settle
      <4>2. r.left = backup[index] OBVIOUS
      <4> QED BY <4>1, <4>2
    <3> QED BY <3>1, <3>2
  <2>2. step = "settle" /\ UNCHANGED <<dest, rollback>> BY <1>5 DEF Settle
  <2> QED BY <2>1, <2>2 DEF Leaves, DropsBackup
<1>6. CASE Cleanup
  <2>1. \/ UNCHANGED backup
        \/ \E left \in {backup[index], Absent, Broken} :
             /\ backup' = [backup EXCEPT ![index] = left]
             /\ backup[index] # Expected[index] => left = backup[index]
    BY <1>6, RemovalLeaves DEF Cleanup
  <2>2. step = "cleanup" /\ UNCHANGED <<dest, rollback>> BY <1>6 DEF Cleanup
  <2> QED BY <2>1, <2>2 DEF Leaves, DropsBackup
<1>7. CASE Unquarantine
  <2>1. PICK left \in {rollback[index], Absent, Broken} :
          /\ rollback' = [rollback EXCEPT ![index] = left]
          /\ left # rollback[index] => seen = Expected[index] /\ rollback[index] = After[index]
    <3>1. CASE seen = Expected[index] /\ rollback[index] = After[index]
      BY <1>7, <3>1, RemovalLeaves DEF Unquarantine
    <3>2. CASE ~(seen = Expected[index] /\ rollback[index] = After[index])
      <4>1. PICK r \in {[left |-> rollback[index], named |-> rollback[index]]} :
              rollback' = [rollback EXCEPT ![index] = r.left]
        BY <1>7, <3>2 DEF Unquarantine
      <4>2. r.left = rollback[index] OBVIOUS
      <4> QED BY <4>1, <4>2
    <3> QED BY <3>1, <3>2
  <2>2. step = "unquarantine" /\ UNCHANGED <<dest, backup>> BY <1>7 DEF Unquarantine
  <2> QED BY <2>1, <2>2 DEF Leaves, DropsRollback
<1>8. CASE UNCHANGED <<dest, backup, rollback>> BY <1>8 DEF Leaves
<1> QED
  BY <1>1, <1>2, <1>3, <1>4, <1>5, <1>6, <1>7, <1>8
  DEF Step, Probe, Stage, Unstage, Recheck, Displaced, Installed, Confirm, Verify, Classify,
      Quarantined, Restored, RestorationFails, Sweep, Remaining, Conclude, Close, Interrupt, files

LEMMA PhaseAfter ==
  ASSUME PrivateInv, Step
  PROVE  TypeOK' /\ InPhase'
BY StepTyped, PhaseStep DEF PrivateInv, StagedInv, Next

\* No step goes back before the displacement of a change.
LEMMA DisplacedForGood ==
  ASSUME PrivateInv, Step, NEW c \in Change, NotDisplaced(c)'
  PROVE  NotDisplaced(c) /\ ~(step = "displace" /\ c = index)
<1> USE DEF PrivateInv, StagedInv, TypeOK, ControlTyped, Change
<1>1. TypeOK' /\ InPhase' BY PhaseAfter
<1>2. phase' \in {"check", "stage", "commit"}
  BY <1>1, PhaseOfStep DEF NotDisplaced, CommitSteps, InPhase, Phases, RestorationSteps, EndingSteps
<1>3. CASE LaterStep BY <1>2, <1>3, LaterPhases
<1>4. CASE Probe \/ Stage
  BY <1>4, PhaseOfStep DEF Probe, Stage, NotDisplaced
<1>5. CASE Recheck BY <1>5 DEF Recheck, NotDisplaced
<1>6. CASE Displace \/ Displaced \/ Install \/ Installed
  <2>1. /\ phase' # "rollback" => index' = index /\ step' \in {"displaced", "install", "installed", "confirm"}
        /\ phase = "commit" /\ step \in {"displace", "displaced", "install", "installed"}
        /\ phase' \in {"commit", "rollback"}
    BY <1>6, PhaseOfStep DEF Displace, Displaced, Install, Installed, RollBack, GoTo, CommitSteps
  <2> QED BY <1>2, <2>1 DEF NotDisplaced
<1>7. CASE Confirm \/ Verify
  <2>1. phase' # "rollback" => \/ step' = "displace" /\ index' = index + 1
                               \/ step' = "verify" \/ phase' = "cleanup"
    BY <1>7 DEF Confirm, Verify, NextInstallation, RollBack, GoTo
  <2>2. phase = "commit" /\ step \in {"confirm", "verify"} /\ phase' \in {"commit", "cleanup", "rollback"}
    BY <1>7, PhaseOfStep DEF Confirm, Verify, NextInstallation, RollBack, GoTo, CommitSteps
  <2>3. step = "verify" => step' # "displace"
    BY <1>7 DEF Confirm, Verify, RollBack, GoTo
  <2> QED BY <1>2, <2>1, <2>2, <2>3 DEF NotDisplaced
<1> QED BY <1>3, <1>4, <1>5, <1>6, <1>7 DEF Step, LaterStep

\* The rollback has not come to c.
Ahead(c) ==
  /\ phase = "rollback" /\ step \in RestorationSteps
  /\ c < index \/ (c = index /\ step \in {"classify", "quarantine"})

LEMMA RollbackWalksBack ==
  ASSUME PrivateInv, Step, NEW c \in Change, Ahead(c)'
  PROVE  phase = "commit" \/ (Ahead(c) /\ ~(step = "quarantine" /\ c = index))
<1> USE DEF PrivateInv, StagedInv, TypeOK, ControlTyped, Change
<1>1. CASE Probe \/ Stage
  BY <1>1, PhaseOfStep DEF Probe, Stage, EachChange, GoTo, Return, Ahead
<1>2. CASE Recheck \/ Displace \/ Displaced \/ Install \/ Installed \/ Confirm \/ Verify
  BY <1>2, PhaseOfStep DEF Recheck, Displace, Displaced, Install, Installed, Confirm, Verify, CommitSteps
<1>3. CASE Classify \/ Quarantine \/ Restore \/ Settle
  <2>1. /\ phase = "rollback" /\ step \in {"classify", "quarantine", "restore", "settle"}
        /\ index' = index /\ step' \in {"quarantine", "restore", "quarantined", "restored", "settle", "unquarantine"}
        /\ step' = "quarantine" => step = "classify"
    BY <1>3, PhaseOfStep DEF Classify, Quarantine, Restore, Settle, GoTo, RestorationSteps
  <2> QED BY <2>1 DEF Ahead, RestorationSteps
<1>4. CASE Quarantined \/ Restored \/ Unquarantine \/ RestorationFails
  <2>1. phase = "rollback" /\ step \in RestorationSteps /\ step # "quarantine"
    BY <1>4, PhaseOfStep DEF Quarantined, Restored, Unquarantine, RestorationFails, RestorationSteps
  <2>2. \/ index' = index - 1
        \/ step' = "unstage"
        \/ index' = index /\ step' \in {"restore", "settle"}
    BY <1>4 DEF Quarantined, Restored, GiveUp, Unquarantine, RestorationFails, NextRestoration, GoTo
  <2> QED BY <2>1, <2>2 DEF Ahead, RestorationSteps
<1>5. CASE Unstage \/ Sweep \/ Cleanup \/ Remaining \/ Conclude \/ Close \/ Interrupt
  BY <1>5 DEF Unstage, Sweep, Cleanup, Remaining, Conclude, Close, Interrupt, EachChange,
              AfterUnstaging, Return, ReturnResidue, GoTo, Ahead, InPhase, RestorationSteps, EndingSteps
<1> QED BY <1>1, <1>2, <1>3, <1>4, <1>5 DEF Step

LEMMA StepFree ==
  ASSUME PrivateInv, Step
  PROVE  NamesFree'
<1> USE DEF PrivateInv, StagedInv
<1>1. ASSUME NEW c \in Change, NotDisplaced(c)' PROVE backup'[c] = Absent
  <2>1. NotDisplaced(c) /\ ~(step = "displace" /\ c = index) BY <1>1, DisplacedForGood
  <2>2. step \notin RestorationSteps \cup {"cleanup"}
    BY <2>1, PhaseOfStep DEF NotDisplaced, InPhase, CommitSteps, RestorationSteps, EndingSteps
  <2>3. backup[c] = Absent BY <2>1 DEF NamesFree
  <2> QED
    BY <2>1, <2>2, <2>3, StepMoves
    DEF Leaves, SetsAside, PutsIn, TakesOut, PutsBack, DropsBackup, DropsRollback, RestorationSteps
<1>2. ASSUME NEW c \in Change, Ahead(c)' PROVE rollback'[c] = Absent
  <2>1. phase = "commit" \/ (Ahead(c) /\ ~(step = "quarantine" /\ c = index))
    BY <1>2, RollbackWalksBack
  <2>2. rollback[c] = Absent BY <2>1 DEF Ahead, NamesFree, ResidueInv, Placed
  <2>3. ~TakesOut(c) BY <2>1, PhaseOfStep DEF TakesOut, RestorationSteps
  <2>4. ~DropsRollback(c) BY <2>1, PhaseOfStep DEF DropsRollback, Ahead, RestorationSteps, TypeOK, ControlTyped, Change
  <2> QED
    BY <2>2, <2>3, <2>4, StepMoves DEF Leaves, SetsAside, PutsIn, PutsBack, DropsBackup
<1> QED BY <1>1, <1>2 DEF NamesFree, Ahead

\* The changes whose backups the commit needs.
Needed(c) ==
  \/ Passed(c)
  \/ c = index /\ step \in {"install", "installed", "confirm"}
  \/ step = "cleanup" /\ c >= index

LEMMA NeededSince ==
  ASSUME PrivateInv, Step, NEW c \in Change, Needed(c)'
  PROVE  \/ Needed(c) /\ ~(step = "cleanup" /\ c = index)
         \/ c = index /\ Displace /\ (Expected[c] # Absent => MoveAside)
         \/ c = index /\ Displaced /\ DisplaceTookEffect /\ UNCHANGED backup
<1> USE DEF PrivateInv, StagedInv, TypeOK, ControlTyped, Change
<1>1. TypeOK' /\ InPhase' BY PhaseAfter
<1>2. phase' \in {"commit", "cleanup"}
  BY <1>1, PhaseOfStep DEF Needed, Passed, CommitSteps, InPhase, Phases, RestorationSteps, EndingSteps
<1>3. CASE Probe \/ Stage
  BY <1>2, <1>3, PhaseOfStep DEF Probe, Stage, EachChange, GoTo, Return, Needed, Passed
<1>4. CASE Recheck
  <2>1. index' = 1 \/ step' = "recheck"
    BY <1>2, <1>4 DEF Recheck, EachChange, RollBack, GoTo
  <2>2. step' \in {"recheck", "displace"}
    BY <1>2, <1>4 DEF Recheck, EachChange, RollBack, GoTo
  <2> QED BY <2>1, <2>2 DEF Needed, Passed
<1>5. CASE Displace
  <2>1. step' \in {"install", "displaced"} /\ index' = index /\ step = "displace" /\ phase = "commit"
    BY <1>5, PhaseOfStep DEF Displace, GoTo, CommitSteps
  <2>2. step' = "install" => (Expected[index] # Absent => MoveAside)
    BY <1>5 DEF Displace, GoTo
  <2> QED BY <1>5, <2>1, <2>2 DEF Needed, Passed
<1>6. CASE Displaced
  <2>1. step' = "install" /\ index' = index /\ step = "displaced" /\ phase = "commit" /\ DisplaceTookEffect
    BY <1>2, <1>6, PhaseOfStep DEF Displaced, RollBack, GoTo, CommitSteps
  <2> QED BY <1>6, <2>1 DEF Displaced, files, Needed, Passed
<1>7. CASE Install \/ Installed
  <2>1. /\ step' \in {"installed", "confirm"} /\ index' = index
        /\ step \in {"install", "installed"} /\ phase = "commit"
    BY <1>2, <1>7, PhaseOfStep DEF Install, Installed, RollBack, GoTo, CommitSteps
  <2> QED BY <2>1 DEF Needed, Passed
<1>8. CASE Confirm
  <2>1. /\ phase = "commit" /\ step = "confirm"
        /\ \/ step' = "displace" /\ index' = index + 1
           \/ step' = "verify" /\ index = N
    BY <1>2, <1>8, PhaseOfStep, NAssumption DEF Confirm, NextInstallation, RollBack, GoTo, CommitSteps
  <2> QED BY <2>1, NAssumption DEF Needed, Passed
<1>9. CASE Verify BY <1>9 DEF Verify, Needed, Passed
<1>10. CASE LaterStep
  <2>1. phase = "cleanup" /\ phase' = "cleanup" BY <1>2, <1>10, LaterPhases
  <2>2. step' = "cleanup" /\ c >= index'
    BY <1>1, <2>1 DEF Needed, Passed, InPhase, EndingSteps
  <2>3. Cleanup /\ index' = index + 1
    BY <1>10, <2>1, <2>2
    DEF LaterStep, Unstage, Classify, Quarantine, Quarantined, GiveUp, Restore, Restored, Settle,
        Unquarantine, RestorationFails, NextRestoration, Sweep, Cleanup, Remaining, Conclude, Close,
        Interrupt, EachChange, AfterUnstaging, Return, ReturnResidue, GoTo
  <2> QED BY <2>2, <2>3 DEF Cleanup, Needed
<1> QED BY <1>3, <1>4, <1>5, <1>6, <1>7, <1>8, <1>9, <1>10 DEF Step, LaterStep

LEMMA StepBackups ==
  ASSUME PrivateInv, Step
  PROVE  BackupsKept'
<1> USE DEF PrivateInv, StagedInv, TypeOK, FilesTyped, ControlTyped
<1>1. SUFFICES ASSUME NEW c \in Change, Expected[c] # Absent, Needed(c)' PROVE backup'[c] # Absent
  BY DEF BackupsKept, Needed
<1>2. CASE c = index /\ Displace /\ (Expected[c] # Absent => MoveAside)
  BY <1>1, <1>2 DEF MoveAside
<1>3. CASE c = index /\ Displaced /\ DisplaceTookEffect /\ UNCHANGED backup
  BY <1>1, <1>3 DEF DisplaceTookEffect
<1>4. CASE Needed(c) /\ ~(step = "cleanup" /\ c = index)
  <2>1. backup[c] # Absent BY <1>1, <1>4 DEF BackupsKept, Needed
  <2>2. step \notin RestorationSteps
    BY <1>4, PhaseOfStep DEF Needed, Passed, RestorationSteps
  <2> QED
    BY <1>4, <2>1, <2>2, StepMoves
    DEF Leaves, SetsAside, PutsIn, TakesOut, PutsBack, DropsBackup, DropsRollback, RestorationSteps
<1> QED BY <1>1, <1>2, <1>3, <1>4, NeededSince

\* An exception is being handled wherever one is needed.
LEMMA StepRaises ==
  ASSUME PrivateInv, Step
  PROVE  Raising' /\ (step' = "close" => residue' = {})
<1> USE DEF PrivateInv, StagedInv, TypeOK, ControlTyped, Raising
<1>1. CASE Probe
  BY <1>1, PhaseOfStep, ExceptionsRaised DEF Probe, EachChange, GoTo, Return
<1>2. CASE Stage
  BY <1>2, PhaseOfStep DEF Stage, EachChange, GoTo, Failures
<1>3. CASE Recheck \/ Confirm \/ Verify
  <2>1. \/ \E e \in {"error", "interrupt"} : RollBack(e)
        \/ step' \in {"recheck", "displace", "verify", "cleanup"} /\ phase' \in {"commit", "cleanup"}
    BY <1>3, PhaseOfStep, ExceptionsRaised DEF Recheck, Confirm, Verify, EachChange, NextInstallation, GoTo, CommitSteps
  <2> QED BY <2>1 DEF RollBack, GoTo
<1>4. CASE Displace \/ Install
  <2>1. phase' = "commit" /\ step' \in {"install", "confirm", "displaced", "installed"}
    BY <1>4, PhaseOfStep DEF Displace, Install, GoTo, CommitSteps
  <2>2. step' \in {"displaced", "installed"} => raised' \in {"error", "interrupt"}
    BY <1>4, ExceptionsRaised DEF Displace, Install, GoTo
  <2> QED BY <2>1, <2>2
<1>5. CASE Displaced \/ Installed
  <2>1. \/ \E e \in {"error", "interrupt"} : RollBack(e)
        \/ phase' = "commit" /\ step' \in {"install", "confirm"}
    BY <1>5, PhaseOfStep DEF Displaced, Installed, Failures, GoTo, CommitSteps
  <2> QED BY <2>1 DEF RollBack, GoTo
<1>6. CASE Conclude
  <2>1. \/ phase' = "ended" /\ step' = "done"
        \/ phase' = phase /\ step' = "close" /\ residue' = {} /\ phase \notin {"abandon", "rollback"}
    BY <1>6 DEF Conclude, Return, ReturnResidue, GoTo
  <2> QED BY <2>1
<1>7. CASE Close \/ Interrupt BY <1>7 DEF Close, Interrupt, Return, GoTo
<1>8. CASE LaterStep /\ UNCHANGED raised
  <2>1. phase \notin {"check", "stage", "commit"} /\ phase' \in {phase, "ended"}
    BY <1>8, LaterPhases
  <2>2. step' \in {"displaced", "installed", "close"} => Conclude
    BY <1>8 DEF LaterStep, Unstage, Classify, Quarantine, Quarantined, GiveUp, Restore, Restored, Settle,
        Unquarantine, RestorationFails, NextRestoration, Sweep, Cleanup, Remaining, Close,
        Interrupt, EachChange, AfterUnstaging, Return, GoTo
  <2> QED BY <1>6, <1>8, <2>1, <2>2
<1> QED
  BY <1>1, <1>2, <1>3, <1>4, <1>5, <1>6, <1>7, <1>8
  DEF Step, LaterStep, Unstage, Classify, Quarantine, Quarantined, GiveUp, Restore, Restored, Settle,
      Unquarantine, RestorationFails, Sweep, Cleanup, Remaining

LEMMA StepPrivate ==
  ASSUME PrivateInv, [Next]_vars
  PROVE  PrivateInv'
<1>1. StagedInv' /\ ResidueInv' BY StepStaged, StepResidue DEF PrivateInv
<1>2. CASE Step
  BY <1>1, <1>2, StepShapes, StepFree, StepBackups, StepRaises DEF PrivateInv, Next
<1>3. CASE ForeignWrite
  <2>1. dest' \in [Change -> Content]
    BY <1>1 DEF StagedInv, TypeOK, FilesTyped
  <2>2. StagesShaped' /\ NamesFree' /\ BackupsKept' /\ Raising' /\ (step' = "close" => residue' = {})
    BY <1>3 DEF ForeignWrite, control, local, told, PrivateInv, StagesShaped, NamesFree, NotDisplaced,
                BackupsKept, Passed, Raising
  <2> QED BY <1>1, <2>2 DEF PrivateInv
<1>4. CASE UNCHANGED vars
  <2>1. StagesShaped' /\ NamesFree' /\ BackupsKept' /\ Raising' /\ (step' = "close" => residue' = {})
    BY <1>4 DEF vars, files, control, local, told, PrivateInv, StagesShaped, NamesFree, NotDisplaced,
                BackupsKept, Passed, Raising
  <2> QED BY <1>1, <2>1 DEF PrivateInv
<1> QED BY <1>2, <1>3, <1>4 DEF Next, Returned

\* A change is won by the removal of its preimage from where it was kept.
LEMMA WinsByCleanup ==
  ASSUME PrivateInv, Step, NEW c \in Change, Expected[c] # Absent, Won(c)'
  PROVE  \/ Won(c)
         \/ phase = "cleanup" /\ DropsBackup(c) /\ backup'[c] = Absent
<1> USE DEF PrivateInv, StagedInv, TypeOK, ControlTyped, FilesTyped, Change
<1>1. CASE step' = "done" /\ raised' = "none"
  <2>1. Probe \/ Conclude \/ Close \/ Interrupt
    BY <1>1 DEF Step, Stage, Unstage, AfterUnstaging, Recheck, Displace, Displaced, Install, Installed,
         Confirm, Verify, Classify, Quarantine, Quarantined, GiveUp, Restore, Restored, Settle,
         Unquarantine, RestorationFails, Sweep, Cleanup, Remaining, EachChange, NextInstallation,
         NextRestoration, RollBack, GoTo
  <2>2. ~Probe /\ ~Interrupt
    BY <1>1, ExceptionsRaised DEF Probe, Interrupt, EachChange, GoTo, Return
  <2>3. ~Conclude BY <1>1 DEF Conclude, Return, ReturnResidue, GoTo, Raising
  <2>4. Close /\ phase = "cleanup" /\ step = "close"
    BY <2>1, <2>2, <2>3 DEF Close, InPhase, Phases, CommitSteps, RestorationSteps, EndingSteps
  <2> QED BY <2>4 DEF Won
<1>2. CASE phase' = "cleanup" /\ residue' = {} /\ (step' # "cleanup" \/ c < index')
  <2>1. residue = {} BY <1>2, ResidueGrows DEF Next
  <2>2. CASE phase # "cleanup"
    <3>1. Verify
      BY <1>2, <2>2, PhaseOfStep, LaterPhases
      DEF Step, LaterStep, Probe, Stage, Recheck, Displace, Displaced, Install, Installed, Confirm,
          EachChange, NextInstallation, RollBack, Return, GoTo, CommitSteps
    <3>2. step' = "cleanup" /\ index' = 1 BY <1>2, <3>1 DEF Verify, RollBack, GoTo
    <3> QED BY <1>2, <3>2
  <2>3. CASE phase = "cleanup" /\ step # "cleanup" BY <2>1, <2>3 DEF Won
  <2>4. CASE phase = "cleanup" /\ step = "cleanup" /\ c # index
    <3>1. Cleanup
      BY <1>2, <2>4 DEF Step, Probe, Stage, Unstage, Recheck, Displace, Displaced, Install, Installed,
         Confirm, Verify, Classify, Quarantine, Quarantined, Restore, Restored, Settle,
         Unquarantine, RestorationFails, Sweep, Cleanup, Remaining, Conclude, Close, Interrupt, Return, GoTo
    <3> QED BY <1>2, <2>1, <2>4, <3>1, NAssumption DEF Won, Cleanup, EachChange, GoTo
  <2>5. CASE phase = "cleanup" /\ step = "cleanup" /\ c = index
    <3>1. Cleanup
      BY <1>2, <2>5 DEF Step, Probe, Stage, Unstage, Recheck, Displace, Displaced, Install, Installed,
         Confirm, Verify, Classify, Quarantine, Quarantined, Restore, Restored, Settle,
         Unquarantine, RestorationFails, Sweep, Cleanup, Remaining, Conclude, Close, Interrupt, Return, GoTo
    <3>2. PICK r \in RemoveExpected(backup[index], Expected[index]) :
            /\ backup' = [backup EXCEPT ![index] = r.left]
            /\ residue' = residue \cup Entry("backup", index, r.named)
      BY <2>5, <3>1 DEF Cleanup
    <3>3. r.named = Absent BY <1>2, <3>2 DEF Entry
    <3>4. r.left = Absent /\ backup[index] \in {Absent, Expected[index]} BY <3>3, RemovalLeaves
    <3>5. backup[c] # Absent BY <2>5 DEF BackupsKept
    <3> QED BY <2>5, <3>1, <3>2, <3>4, <3>5 DEF Cleanup, DropsBackup
  <2> QED BY <2>2, <2>3, <2>4, <2>5
<1> QED BY <1>1, <1>2 DEF Won

\* A change is committed when it is confirmed to be in place.
LEMMA CommitsByConfirm ==
  ASSUME PrivateInv, Step, NEW c \in Change, Expected[c] # Absent, Committed(c)'
  PROVE  Committed(c) \/ (dest[c] = After[c] /\ dest'[c] = dest[c])
<1> USE DEF PrivateInv, StagedInv, TypeOK, ControlTyped, Change
<1>1. CASE Won(c)'
  BY <1>1, WinsByCleanup DEF Won, Committed, DropsBackup, InPhase, Phases, CommitSteps, RestorationSteps, EndingSteps
<1>2. CASE Passed(c)'
  <2>1. TypeOK' /\ InPhase' BY PhaseAfter
  <2>2. phase' = "commit"
    BY <1>2, <2>1, PhaseOfStep DEF Passed, CommitSteps, InPhase, Phases, RestorationSteps, EndingSteps
  <2>3. CASE Passed(c) BY <2>3 DEF Committed
  <2>4. CASE ~Passed(c)
    <3>1. Recheck \/ Confirm \/ Displace \/ Displaced \/ Install \/ Installed
      BY <1>2, <2>2, PhaseOfStep, LaterPhases
      DEF Step, LaterStep, Probe, Stage, EachChange, Return, Verify, RollBack, GoTo, Passed
    <3>2. ~Recheck BY <1>2, <2>2 DEF Recheck, EachChange, RollBack, GoTo, Passed
    <3>3. ~Displace /\ ~Displaced /\ ~Install /\ ~Installed
      BY <1>2, <2>2, <2>4, PhaseOfStep DEF Displace, Displaced, Install, Installed, RollBack, GoTo, Passed, CommitSteps
    <3>4. Confirm BY <3>1, <3>2, <3>3
    <3>5. dest[index] = After[index] /\ UNCHANGED dest
      BY <2>2, <3>4 DEF Confirm, RollBack, GoTo, files
    <3>6. c = index
      BY <1>2, <2>2, <2>4, <3>4, PhaseOfStep, NAssumption DEF Confirm, NextInstallation, RollBack, GoTo, Passed, CommitSteps
    <3> QED BY <3>5, <3>6
  <2> QED BY <2>3, <2>4
<1>3. CASE phase' = "cleanup"
  <2>1. phase = "cleanup" \/ Verify
    BY <1>3, PhaseOfStep, LaterPhases
    DEF Step, LaterStep, Probe, Stage, Recheck, Displace, Displaced, Install, Installed, Confirm,
        EachChange, NextInstallation, RollBack, Return, GoTo, CommitSteps
  <2> QED BY <2>1 DEF Verify, Committed, Passed
<1> QED BY <1>1, <1>2, <1>3 DEF Committed, Won

\* What is committed is left in place.
LEMMA CommittedMoves ==
  ASSUME PrivateInv, Step, NEW c \in Change, Committed(c)
  PROVE  Leaves(c) \/ DropsBackup(c)
<1>1. \/ phase \in {"commit", "cleanup", "ended"} /\ ~(c = index /\ step \in {"displace", "install"})
  BY PhaseOfStep DEF Committed, Passed, PrivateInv, StagedInv, TypeOK, ControlTyped, InPhase, Phases, Change,
     CommitSteps, RestorationSteps, EndingSteps
<1>2. step \notin RestorationSteps BY <1>1, PhaseOfStep DEF PrivateInv, StagedInv
<1> QED
  BY <1>1, <1>2, StepMoves
  DEF SetsAside, PutsIn, TakesOut, PutsBack, DropsRollback, RestorationSteps

LEMMA OwnsByConfirm ==
  ASSUME PrivateInv, Step, NEW c \in Change, Expected[c] # Absent, Owns(c)'
  PROVE  (Owns(c) \/ dest[c] = After[c]) /\ dest'[c] = dest[c]
<1>1. CASE Committed(c)
  <2>1. Leaves(c) \/ DropsBackup(c) BY <1>1, CommittedMoves
  <2>2. Won(c)' => Won(c) \/ backup[c] = Expected[c] BY WinsByCleanup DEF DropsBackup
  <2> QED BY <1>1, <2>1, <2>2 DEF Owns, Leaves, DropsBackup
<1>2. CASE ~Committed(c) BY <1>2, CommitsByConfirm DEF Owns
<1> QED BY <1>1, <1>2

\* A rollback decides by what it has just seen.
LEMMA DecidesBySight ==
  ASSUME PrivateInv, Step, NEW c \in Change, Decided(c)'
  PROVE  Decided(c) \/ dest[c] = Expected[c]
<1> USE DEF PrivateInv, StagedInv, TypeOK, ControlTyped, Decided
<1>1. CASE Classify BY <1>1 DEF Classify, GoTo
<1>2. CASE Quarantined BY <1>2 DEF Quarantined, GiveUp, NextRestoration, GoTo
<1>3. CASE Restored BY <1>3 DEF Restored, GiveUp, NextRestoration, GoTo
<1>4. CASE Restore BY <1>4 DEF Restore, CanRestore, GoTo
<1>5. CASE Settle
  <2>1. /\ step = "settle" /\ index' = index /\ seen' = seen
    BY <1>5 DEF Settle, GoTo, local
  <2> QED BY <2>1
<1> QED
  BY <1>1, <1>2, <1>3, <1>4, <1>5
  DEF Step, Probe, Stage, Unstage, AfterUnstaging, Recheck, Displace, Displaced, Install, Installed,
      Confirm, Verify, Quarantine, Unquarantine, RestorationFails, Sweep, Cleanup, Remaining,
      Conclude, Close, Interrupt, EachChange, NextInstallation, NextRestoration, RollBack, Return,
      ReturnResidue, GoTo

\* Until it installs a change a call only sets its destination aside.
LEMMA InstalledForGood ==
  ASSUME PrivateInv, Step, NEW c \in Change, NotInstalled(c)'
  PROVE  NotInstalled(c) /\ (Leaves(c) \/ SetsAside(c))
<1> USE DEF PrivateInv, StagedInv, TypeOK, ControlTyped, Change
<1>1. NotInstalled(c) /\ ~(c = index /\ step = "install")
  <2>1. CASE NotDisplaced(c)' BY <2>1, DisplacedForGood, PhaseOfStep DEF NotInstalled, NotDisplaced, CommitSteps
  <2>2. CASE c = index' /\ step' \in {"displaced", "install"}
    <3>1. Displace \/ Displaced
      BY <2>2
      DEF Step, Probe, Stage, Unstage, AfterUnstaging, Recheck, Install, Installed, Confirm, Verify,
          Classify, Quarantine, Quarantined, GiveUp, Restore, Restored, Settle, Unquarantine,
          RestorationFails, Sweep, Cleanup, Remaining, Conclude, Close, Interrupt, EachChange,
          NextInstallation, NextRestoration, RollBack, Return, ReturnResidue, GoTo
    <3> QED BY <2>2, <3>1 DEF Displace, Displaced, RollBack, GoTo, NotInstalled, NotDisplaced
  <2> QED BY <2>1, <2>2 DEF NotInstalled
<1>2. step \notin RestorationSteps \cup {"cleanup"}
  BY <1>1, PhaseOfStep DEF NotInstalled, NotDisplaced, InPhase, CommitSteps, RestorationSteps, EndingSteps
<1> QED
  BY <1>1, <1>2, StepMoves DEF PutsIn, TakesOut, PutsBack, DropsBackup, DropsRollback, RestorationSteps

\* What a step leaves at a destination.
LEMMA StepLeaves ==
  ASSUME PrivateInv, Step, NEW c \in Change
  PROVE  dest'[c] \in {dest[c], Absent, Expected[c], After[c]}
BY StepMoves DEF Leaves, SetsAside, PutsIn, TakesOut, PutsBack, DropsBackup, DropsRollback

\* A call keeps an object that another has put in the place of the preimage.
LEMMA KeepsTheirs ==
  ASSUME PrivateInv, Step, NEW c \in Change, NEW theirs, Expected[c] # Absent,
         Expected[c] \notin {dest[c], backup[c], rollback[c]},
         NotInstalled(c) => {dest[c], backup[c]} \subseteq {Absent, Expected[c], theirs},
         Decided(c) => dest[c] = theirs,
         KeptHere(theirs, c)
  PROVE  KeptHere(theirs, c)'
<1> USE DEF KeptHere
<1>1. CASE Leaves(c) BY <1>1 DEF Leaves
<1>2. CASE SetsAside(c) BY <1>2 DEF SetsAside
<1>3. CASE PutsIn(c)
  <2>1. NotInstalled(c) /\ backup[c] # Absent
    BY <1>3 DEF PutsIn, NotInstalled, PrivateInv, BackupsKept
  <2> QED BY <1>3, <2>1 DEF PutsIn
<1>4. CASE TakesOut(c) BY <1>4 DEF TakesOut
<1>5. CASE PutsBack(c) BY <1>5 DEF PutsBack
<1>6. CASE DropsBackup(c) BY <1>6 DEF DropsBackup
<1>7. CASE DropsRollback(c) BY <1>7 DEF DropsRollback, Decided
<1> QED BY <1>1, <1>2, <1>3, <1>4, <1>5, <1>6, <1>7, StepMoves

\* A destination holds what others left there, or what the plan names.
Sourced == \A c \in Change : dest[c] \in {base[c], Expected[c], After[c], Absent}

LEMMA StepSourced ==
  ASSUME PrivateInv, Sourced, [Next]_vars
  PROVE  Sourced'
<1>1. CASE Step
  <2>1. UNCHANGED base BY <1>1, BaseStays
  <2> QED BY <1>1, <2>1, StepLeaves DEF Sourced
<1>2. CASE ForeignWrite
  BY <1>2 DEF ForeignWrite, Sourced, PrivateInv, StagedInv, TypeOK, FilesTyped
<1>3. CASE UNCHANGED vars BY <1>3 DEF vars, files, Sourced
<1> QED BY <1>1, <1>2, <1>3 DEF Next, Returned

LEMMA ForeignSurvives ==
  ASSUME PrivateInv, Sourced, [Next]_vars, base' = base, NEW o \in Foreign,
         \A c \in Change : o \notin {Expected[c], After[c], Absent},
         Held(o), ~Held(o)'
  PROVE  \E c \in Change : dest[c] = o /\ dest'[c] \notin {o, Absent}
<1>1. PICK c \in Change : o \in {dest[c], backup[c], rollback[c]} BY DEF Held
<1>2. o \notin {dest'[c], backup'[c], rollback'[c]} BY DEF Held
<1>3. o \notin {Expected[c], After[c], Absent} OBVIOUS
<1>4. CASE Step
  <2>1. ~Leaves(c) /\ ~SetsAside(c) /\ ~TakesOut(c) /\ ~DropsBackup(c) /\ ~DropsRollback(c)
    BY <1>1, <1>2, <1>3 DEF Leaves, SetsAside, TakesOut, DropsBackup, DropsRollback
  <2>2. PutsIn(c) \/ PutsBack(c) BY <1>4, <2>1, StepMoves
  <2> QED BY <1>1, <1>2, <1>3, <2>2 DEF PutsIn, PutsBack, HasStage
<1>5. CASE ForeignWrite
  <2>1. PICK d \in Change, written \in Foreign :
          /\ dest[d] # written /\ dest' = [dest EXCEPT ![d] = written]
          /\ base' = [base EXCEPT ![d] = written]
    BY <1>5 DEF ForeignWrite
  <2>2. base[d] = written
    BY <2>1 DEF PrivateInv, StagedInv, TypeOK, FilesTyped
  <2>3. dest[d] # o BY <2>1, <2>2 DEF Sourced
  <2> QED
    BY <1>1, <1>2, <1>5, <2>1, <2>3 DEF ForeignWrite, PrivateInv, StagedInv, TypeOK, FilesTyped
<1>6. CASE UNCHANGED vars BY <1>1, <1>2, <1>6 DEF vars, files
<1> QED BY <1>4, <1>5, <1>6 DEF Next, Returned

\* What another process left at a destination disappears only under a rename
\* that takes its place: no removal of apply_changes deletes it, and no rename
\* to a private name covers it (transaction.py:254-332, 463-532).
THEOREM ForeignKept == Spec => ForeignNotRemoved
<1>1. Init => PrivateInv /\ Sourced
  BY InitPrivate DEF Init, Sourced
<1>2. PrivateInv /\ Sourced /\ [Next]_vars => PrivateInv' /\ Sourced'
  BY StepPrivate, StepSourced
<1>3. PrivateInv /\ Sourced /\ [Next]_vars =>
        [\A o \in Foreign :
           /\ \A c \in Change : o \notin {Expected[c], After[c], Absent}
           /\ Held(o) /\ ~Held(o)' /\ base' = base
           => \E c \in Change : dest[c] = o /\ dest'[c] \notin {o, Absent}]_vars
  BY ForeignSurvives
<1> QED BY <1>1, <1>2, <1>3, PTL DEF Spec, ForeignNotRemoved

=============================================================================
