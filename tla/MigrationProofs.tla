-------------------------- MODULE MigrationProofs --------------------------
(***************************************************************************)
(* What the migration tool guarantees for a rehearsal of any size, any     *)
(* reports and any set of failing calls.                                   *)
(***************************************************************************)
EXTENDS Migration, OutcomeProofs

Trees == {Original, Revised}

MigrationTyped ==
  /\ source \in Trees /\ archive \in Trees /\ report \in Reports
  /\ inventory \in [tree : Trees \cup {None}, report : Reports \cup {None}]

\* What an undisturbed command has made sure of when it gets somewhere.
Applying == {"mapping", "prevalidate", "apply", "transaction"}
Reconstructing == {"reconstruct"} \cup Applying
Saving == {"output", "save mapping", "save plan"}

InventoryRead ==
  /\ at \in {"report", "archive", "target"} \cup Saving \cup Reconstructing =>
       inventory.tree = source
  /\ at \in {"archive", "target"} \cup Saving \cup Reconstructing => inventory.report = report
  /\ at \in {"target"} \cup Saving \cup Reconstructing => archive = inventory.tree

\* Only the rehearsal of the one tree is converted.
TargetRead == at \in Reconstructing /\ converting => inventory.tree = Original

DocumentsRead ==
  /\ at \in {"source", "report", "archive", "target"} /\ command # "plan" => loaded = documents.plan
  /\ at \in Reconstructing => loaded = documents.plan
  /\ at \in Applying => loaded = inventory
  /\ at \in Applying \ {"mapping"} => documents.mapping = inventory

Prepared == quiet => InventoryRead /\ TargetRead /\ DocumentsRead

\* The transaction is called for changes only.
CalledForChanges == at = "transaction" => converting

MigrationInv == TypeOK /\ MigrationTyped /\ Prepared /\ CalledForChanges

---------------------------------------------------------------------------
\* A rehearsal that is the owned tree of what was read is that of Original.
LEMMA OneTree ==
  ASSUME TypeOK, NEW tree, dest = OwnedTree(tree)
  PROVE  tree = Original
<1>1. 1 \in Change BY NAssumption DEF Change
<1>2. dest[1] \in Content BY <1>1 DEF TypeOK, FilesTyped
<1>3. tree # Original => dest[1] = None BY <1>1 DEF OwnedTree
<1> QED BY <1>2, <1>3, NoneAssumption

LEMMA NoCallTyped ==
  ASSUME NEW place \in [Change -> Content], NoCall(place)
  PROVE  TypeOK
<1>1. 1 \in Change BY NAssumption DEF Change
<1>2. FilesTyped BY ContentHolds DEF NoCall, FilesTyped
<1>3. ControlTyped BY <1>1, ContentHolds DEF NoCall, ControlTyped, Phases, Steps, Raised
<1>4. ToldTyped BY DEF NoCall, ToldTyped, Outcomes
<1> QED BY <1>2, <1>3, <1>4 DEF TypeOK

LEMMA InitMigration == MigrationInit => MigrationInv
<1> SUFFICES ASSUME MigrationInit PROVE MigrationInv OBVIOUS
<1>1. Expected \in [Change -> Content] BY PlanAssumption DEF Content
<1>2. TypeOK BY <1>1, NoCallTyped DEF MigrationInit
<1>3. MigrationTyped BY DEF MigrationInit, MigrationTyped, Idle, NoInventory, Trees
<1> QED
  BY <1>2, <1>3 DEF MigrationInit, MigrationInv, Prepared, InventoryRead, TargetRead, DocumentsRead,
     CalledForChanges, Applying, Reconstructing, Saving

---------------------------------------------------------------------------
(* The types *)

LEMMA LeaveTyped == TypeOK /\ Leave => TypeOK'
<1> SUFFICES ASSUME TypeOK, Leave PROVE TypeOK' OBVIOUS
<1>1. 1 \in Change BY NAssumption DEF Change
<1>2. FilesTyped' BY ContentHolds DEF Leave, TypeOK, FilesTyped
<1>3. ControlTyped' BY <1>1, ContentHolds DEF Leave, GoTo, ControlTyped, Phases, Steps, Raised
<1>4. ToldTyped' BY DEF Leave, ToldTyped, Outcomes
<1> QED BY <1>2, <1>3, <1>4 DEF TypeOK

LEMMA ApplyTyped == TypeOK /\ Apply => TypeOK'
<1> SUFFICES ASSUME TypeOK, Apply PROVE TypeOK' OBVIOUS
<1>1. 1 \in Change BY NAssumption DEF Change
<1>2. CASE converting
  <2>1. FilesTyped' BY <1>2 DEF Apply, TypeOK, FilesTyped, files
  <2>2. ControlTyped'
    BY <1>1, <1>2 DEF Apply, GoTo, local, TypeOK, ControlTyped, Phases, Steps, Raised
  <2>3. ToldTyped' BY <1>2 DEF Apply, TypeOK, ToldTyped, Outcomes
  <2> QED BY <2>1, <2>2, <2>3 DEF TypeOK
<1>3. CASE ~converting
  <2>1. UNCHANGED vars BY <1>3 DEF Apply
  <2> QED BY <2>1, StepTyped
<1> QED BY <1>2, <1>3

LEMMA OwnTyped == TypeOK /\ Own => TypeOK'
<1> SUFFICES ASSUME TypeOK, Own PROVE TypeOK' OBVIOUS
<1>1. /\ UNCHANGED <<stage, backup, rollback, control, local, raised, told>>
      /\ dest' \in [Change -> Content] /\ base' \in [Change -> Content]
  <2>1. Expected \in [Change -> Content] BY PlanAssumption DEF Content
  <2>2. dest \in [Change -> Content] /\ base \in [Change -> Content] BY DEF TypeOK, FilesTyped
  <2>3. ASSUME NEW c \in Change, NEW o \in Objects \cup {Absent}, Tamper(c, o)
        PROVE  dest' \in [Change -> Content] /\ base' = dest'
    BY <2>2, <2>3 DEF Tamper, Content
  <2> QED BY <2>1, <2>2, <2>3 DEF Own, Revise, Discard, Rehearse, Tamper, Act
<1>2. FilesTyped' BY <1>1 DEF TypeOK, FilesTyped
<1>3. ControlTyped' BY <1>1 DEF TypeOK, ControlTyped, control, local
<1>4. ToldTyped' BY <1>1 DEF TypeOK, ToldTyped, told
<1> QED BY <1>2, <1>3, <1>4 DEF TypeOK

LEMMA StepMigrationTyped ==
  ASSUME TypeOK, MigrationTyped, [MigrationNext]_all
  PROVE  TypeOK' /\ MigrationTyped'
<1>1. TypeOK'
  <2>1. CASE UNCHANGED vars BY <2>1, StepTyped
  <2>2. CASE Mutate BY <2>2, StepTyped DEF Mutate, Next
  <2>3. CASE Exits \/ Killed BY <2>3, LeaveTyped DEF Exits, Killed
  <2>4. CASE Apply BY <2>4, ApplyTyped
  <2>5. CASE Own BY <2>5, OwnTyped
  <2> QED
    BY <2>1, <2>2, <2>3, <2>4, <2>5 DEF MigrationNext, Work, Begin, Load, ReadSource, ReadReport,
       VerifyArchive, ReadTarget, CheckOutput, SaveMapping, SavePlan, Save, Reconstruct,
       ReadMapping, Prevalidate, MutationEnds, VerifyResult, Flush, world, all
<1>2. source' \in Trees /\ archive' \in Trees /\ report' \in Reports
  <2>1. CASE Revise BY <2>1 DEF Revise, MigrationTyped, Trees
  <2>2. CASE UNCHANGED legacy BY <2>2 DEF MigrationTyped, legacy
  <2> QED
    BY <2>1, <2>2 DEF MigrationNext, Work, Begin, Load, ReadSource, ReadReport, VerifyArchive,
       ReadTarget, CheckOutput, SaveMapping, SavePlan, Save, Reconstruct, ReadMapping, Prevalidate,
       Apply, Mutate, MutationEnds, VerifyResult, Flush, Exits, Killed, Leave, Own, Discard,
       Rehearse, Tamper, world, all
<1>3. inventory' \in [tree : Trees \cup {None}, report : Reports \cup {None}]
  <2>1. CASE ReadSource \/ ReadReport BY <2>1 DEF ReadSource, ReadReport, MigrationTyped
  <2>2. CASE Exits \/ Killed BY <2>2 DEF Exits, Killed, Leave, NoInventory
  <2>3. CASE UNCHANGED inventory BY <2>3 DEF MigrationTyped
  <2> QED
    BY <2>1, <2>2, <2>3 DEF MigrationNext, Work, Begin, Load, VerifyArchive, ReadTarget,
       CheckOutput, SaveMapping, SavePlan, Save, Reconstruct, ReadMapping, Prevalidate, Apply,
       Mutate, MutationEnds, VerifyResult, Flush, Own, Revise, Act, Discard, Rehearse, Tamper,
       own, all
<1> QED BY <1>1, <1>2, <1>3 DEF MigrationTyped

---------------------------------------------------------------------------
(* What is made sure of *)

LEMMA StepPrepared ==
  ASSUME MigrationInv, [MigrationNext]_all
  PROVE  Prepared' /\ CalledForChanges'
<1> DEFINE Sure == InventoryRead /\ TargetRead /\ DocumentsRead
<1> USE DEF InventoryRead, TargetRead, DocumentsRead, CalledForChanges,
            Applying, Reconstructing, Saving, Check, Exit, GoOn, world, own, legacy, owner
<1>1. CalledForChanges /\ (quiet => Sure) /\ TypeOK /\ MigrationTyped
  BY DEF MigrationInv, Prepared
<1>2. CASE \E c \in Commands : Begin(c)
  BY <1>2 DEF Begin, Commands, Prepared
<1>3. CASE Killed \/ Exits BY <1>3 DEF Killed, Exits, Leave, Prepared
<1>4. CASE Own BY <1>1, <1>4 DEF Own, Revise, Discard, Rehearse, Tamper, Act, Prepared
<1>5. CASE Work /\ ~Exits
  <2>1. UNCHANGED <<quiet, legacy>>
    BY <1>5 DEF Work, Load, ReadSource, ReadReport, VerifyArchive, ReadTarget, CheckOutput,
       SaveMapping, SavePlan, Save, Reconstruct, ReadMapping, Prevalidate, Apply, Mutate,
       MutationEnds, VerifyResult, Flush
  <2>2. CalledForChanges'
    <3>1. CASE Apply BY <3>1 DEF Apply
    <3>2. CASE Mutate BY <1>1, <3>2 DEF Mutate
    <3>3. CASE ~Apply /\ ~Mutate
      <4>1. at' # "transaction"
        BY <1>5, <3>3 DEF Work, Load, ReadSource, ReadReport, VerifyArchive, ReadTarget,
           CheckOutput, SaveMapping, SavePlan, Save, Reconstruct, ReadMapping, Prevalidate,
           MutationEnds, VerifyResult, Flush
      <4> QED BY <4>1
    <3> QED BY <3>1, <3>2, <3>3
  <2>3. ASSUME Sure PROVE Sure'
    <3>1. CASE Load \/ ReadSource \/ ReadReport
      BY <1>1, <2>1, <2>3, <3>1 DEF Load, ReadSource, ReadReport, MigrationTyped
    <3>2. CASE VerifyArchive BY <2>1, <2>3, <3>2 DEF VerifyArchive, Archived
    <3>3. CASE ReadTarget
      <4>1. converting' => inventory.tree = Original BY <1>1, <3>3, OneTree DEF ReadTarget
      <4> QED BY <2>1, <2>3, <3>3, <4>1 DEF ReadTarget
    <3>4. CASE CheckOutput \/ SaveMapping \/ SavePlan
      <4>1. at \in Saving /\ at' \in Saving \cup {"flush", "exited"} /\ UNCHANGED own
        BY <3>4 DEF CheckOutput, SaveMapping, SavePlan, Save
      <4> QED BY <2>1, <2>3, <4>1
    <3>5. CASE Reconstruct BY <2>1, <2>3, <3>5 DEF Reconstruct, Accepted
    <3>6. CASE ReadMapping BY <2>1, <2>3, <3>6 DEF ReadMapping
    <3>7. CASE Prevalidate \/ Apply
      <4>1. /\ at \in {"prevalidate", "apply"} /\ at' \in {"apply", "transaction", "result", "exited"}
            /\ UNCHANGED <<documents, command, loaded, inventory, converting>>
        BY <3>7 DEF Prevalidate, Apply
      <4> QED BY <2>1, <2>3, <4>1
    <3>8. CASE Mutate BY <2>1, <2>3, <3>8 DEF Mutate
    <3>9. CASE MutationEnds \/ VerifyResult \/ Flush
      <4>1. at' \in {"result", "flush", "exited"} BY <3>9 DEF MutationEnds, VerifyResult, Flush
      <4> QED BY <4>1
    <3> QED BY <1>5, <3>1, <3>2, <3>3, <3>4, <3>5, <3>6, <3>7, <3>8, <3>9 DEF Work
  <2> QED BY <1>1, <2>1, <2>2, <2>3 DEF Prepared
<1>6. CASE UNCHANGED all BY <1>1, <1>6 DEF all, Prepared
<1> QED BY <1>2, <1>3, <1>4, <1>5, <1>6 DEF MigrationNext, Work

\* However large the rehearsal, whatever fails and whatever is killed: nothing
\* of it is replaced but under a backup of what the source holds, by a plan and
\* a mapping that were saved of this source (migrate_v1.py:688).
THEOREM ConvertsUnderBackup == MigrationSpec => []UnderBackup
<1>1. MigrationInv /\ [MigrationNext]_all => MigrationInv'
  BY StepMigrationTyped, StepPrepared DEF MigrationInv
<1>2. MigrationInv => UnderBackup
  <2> SUFFICES ASSUME MigrationInv, at = "transaction", quiet
               PROVE  /\ source = Original /\ archive = Original
                      /\ documents.mapping = [tree |-> Original, report |-> report]
                      /\ documents.plan = documents.mapping
    BY DEF UnderBackup
  <2>1. /\ inventory.tree = Original /\ inventory.tree = source /\ inventory.report = report
        /\ archive = inventory.tree
        /\ documents.mapping = inventory /\ documents.plan = inventory
    BY DEF MigrationInv, Prepared, InventoryRead, TargetRead, DocumentsRead, CalledForChanges,
           Applying, Reconstructing
  <2>2. inventory = [tree |-> Original, report |-> report]
    BY <2>1 DEF MigrationInv, MigrationTyped
  <2> QED BY <2>1, <2>2
<1> QED BY <1>1, <1>2, InitMigration, PTL DEF MigrationSpec
---------------------------------------------------------------------------
(* What a command tells: where only checks and the commit fail, as in the  *)
(* run, and whatever is killed.                                            *)

Tried == {"transaction", "result", "flush", "exited"}
AfterTarget == Saving \cup Reconstructing \cup {"result", "flush"}
AtResult == at = "result" \/ (at = "flush" /\ command = "apply")

\* The engine where it runs, and what it leaves to the rest of the command.
Called ==
  IF at = "transaction"
  THEN StagedInv /\ RestoreInv /\ (step = "done" /\ raised = "none" => outcome = "applied")
  ELSE phase = "ended" /\ step = "done" /\ FailedCommitRestores

NotCalled == at \notin Tried => Clean /\ residue = {} /\ changed = {}

Commanded ==
  /\ at \in {"load"} \cup Reconstructing => command # "plan"
  /\ at \in Saving => command = "plan"
  /\ at \in {"prevalidate", "apply", "transaction", "result"} => command = "apply"
  /\ at # "idle" => command \in Commands
  /\ at \notin {"idle", "load", "exited"} /\ command # "plan" => loaded # None
  /\ at # "exited" => ~temporary

\* The rehearsal, under a command nobody disturbs.
Rehearsal ==
  /\ at \notin {"idle"} \cup Tried => dest = before
  /\ at = "transaction" => base = before
  /\ at \in AfterTarget => ~litter
  /\ at \in AfterTarget \ {"transaction"} /\ ~converting => dest = After
  /\ at = "flush" /\ command # "apply" => dest = before /\ Clean
  /\ AtResult => /\ dest = After /\ Clean
                 /\ converting => outcome = "applied"
                 /\ ~converting => dest = before

\* What an apply that nobody disturbs has found when it succeeds.
Found ==
  /\ at \in Reconstructing \/ AtResult => inventory.tree = Original
  /\ AtResult =>
       /\ inventory.tree = source /\ inventory.report = report /\ archive = source
       /\ documents.plan = inventory /\ documents.mapping = inventory /\ documents.plan = loaded

TellsInv ==
  /\ Called /\ NotCalled /\ Commanded
  /\ quiet => Rehearsal /\ Found
  /\ MigrationTells

\* Since an apply has succeeded nothing it depends on has changed.
RerunInv ==
  settled =>
    /\ quiet /\ at \notin {"transaction", "save mapping", "save plan"}
    /\ source = Original /\ archive = Original
    /\ documents.plan = [tree |-> Original, report |-> report]
    /\ documents.mapping = documents.plan /\ documents.plan # None
    /\ dest = After /\ Clean /\ ~litter
    /\ at \in Saving \cup Reconstructing => ~converting
    /\ at = "exited" => reason \in {"none", "failed"}

LEMMA InitTells == MigrationInit => TellsInv /\ RerunInv
<1> SUFFICES ASSUME MigrationInit PROVE TellsInv /\ RerunInv OBVIOUS
<1>1. dest = base BY DEF MigrationInit, NoCall
<1> QED
  BY <1>1
  DEF MigrationInit, NoCall, Idle, TellsInv, RerunInv, Called, NotCalled, Commanded, Rehearsal, Found,
      MigrationTells, FailedCommitRestores, Clean, Tried, AfterTarget, AtResult, Saving,
      Reconstructing, Applying

---------------------------------------------------------------------------
(* The engine under a command *)

\* The steps that do not touch the engine.
LEMMA ElsewhereSteps ==
  ASSUME [MigrationNext]_all, ~Mutate, ~MutationEnds, ~(Apply /\ converting), ~Exits, ~Killed, ~Own
  PROVE  /\ UNCHANGED vars
         /\ (at # "transaction" /\ at' # "transaction") \/ UNCHANGED at
         /\ at \in Tried => at' \in Tried
<1> USE DEF Check, Exit, GoOn, world, Tried
<1>1. CASE UNCHANGED all BY <1>1 DEF all
<1>2. CASE \E c \in Commands : Begin(c) BY <1>2 DEF Begin
<1>3. CASE Load \/ ReadSource \/ ReadReport \/ VerifyArchive \/ ReadTarget
  BY <1>3 DEF Load, ReadSource, ReadReport, VerifyArchive, ReadTarget
<1>4. CASE CheckOutput \/ SaveMapping \/ SavePlan
  BY <1>4 DEF CheckOutput, SaveMapping, SavePlan, Save
<1>5. CASE Reconstruct \/ ReadMapping \/ Prevalidate
  BY <1>5 DEF Reconstruct, ReadMapping, Prevalidate
<1>6. CASE Apply /\ ~converting BY <1>6 DEF Apply
<1>7. CASE VerifyResult \/ Flush BY <1>7 DEF VerifyResult, Flush
<1> QED BY <1>1, <1>2, <1>3, <1>4, <1>5, <1>6, <1>7 DEF MigrationNext, Work

\* apply_changes starts from a rehearsal with nothing beside it.
LEMMA CallStarts ==
  ASSUME TypeOK, NotCalled, TypeOK', Apply, converting
  PROVE  StagedInv' /\ RestoreInv' /\ step' # "done"
<1>1. /\ phase' = "check" /\ step' = "probe" /\ index' = 1 /\ raised' = "none" /\ outcome' = "none"
      /\ base' = dest /\ dest' = dest /\ UNCHANGED <<stage, backup, rollback, residue, changed>>
  BY DEF Apply, GoTo, files
<1>2. /\ \A c \in Change : stage[c] = Absent /\ backup[c] = Absent /\ rollback[c] = Absent
      /\ residue = {} /\ changed = {}
  BY DEF Apply, NotCalled, Tried, Clean
<1>3. \A c \in Change : ~(c < 1) BY NAssumption DEF Change
<1>4. StagedInv'
  BY <1>1 DEF StagedInv, InPhase, StagedSoFar, StagedBeforeReplace
<1> QED
  BY <1>1, <1>2, <1>3, <1>4
  DEF RestoreInv, InPhase, WholeStages, NothingTold, NothingChanged, NotStale, BeforeCommit, InCommit,
      InRollback, InCleanup, Unstaged, Excepts, Answers

LEMMA StepCalled ==
  ASSUME Foreign = {}, Faults \subseteq {"check", "commit"}, TypeOK, TypeOK', Called, NotCalled,
         [MigrationNext]_all
  PROVE  Called' /\ NotCalled'
<1>1. CASE Mutate
  <2>1. /\ at = "transaction" /\ at' = "transaction" /\ Step BY <1>1 DEF Mutate
  <2>2. StagedInv /\ RestoreInv BY <2>1 DEF Called
  <2>3. [Next]_vars BY <2>1 DEF Next
  <2>4. StagedInv' /\ RestoreInv' BY <2>2, <2>3, StepStaged, StepRestore
  <2> QED BY <2>1, <2>2, <2>4, StepAnswers DEF Called, NotCalled, Tried
<1>2. CASE Apply /\ converting
  BY <1>2, CallStarts DEF Called, NotCalled, Tried, Apply, GoOn
<1>3. CASE Exits \/ Killed
  <2>1. Leave BY <1>3 DEF Exits, Killed
  <2> QED BY <2>1 DEF Leave, GoTo, Called, NotCalled, FailedCommitRestores, Clean
<1>4. CASE Own
  <2>1. /\ at # "transaction" /\ UNCHANGED <<stage, backup, rollback, control, raised, told, at>>
        /\ (UNCHANGED <<dest, base>>) \/ base' = dest'
    BY <1>4 DEF Own, Revise, Discard, Tamper, Rehearse, Act
  <2>2. FailedCommitRestores' BY <2>1 DEF Called, FailedCommitRestores, Escaped, control, told
  <2> QED BY <2>1, <2>2 DEF Called, NotCalled, Clean, control, told
<1>5. CASE MutationEnds
  <2>1. /\ at = "transaction" /\ step = "done" /\ at' \in {"result", "exited"} /\ UNCHANGED vars
    BY <1>5 DEF MutationEnds, GoOn, Exit, world
  <2>2. RestoreInv /\ phase = "ended" BY <2>1, DoneIsEnded DEF Called
  <2>3. FailedCommitRestores'
    BY <2>1, <2>2 DEF Answers, RestoreInv, FailedCommitRestores, Escaped, vars, files, control, told
  <2> QED BY <2>1, <2>2, <2>3 DEF Called, NotCalled, Tried, vars, control
<1>6. CASE ~Mutate /\ ~MutationEnds /\ ~(Apply /\ converting) /\ ~Exits /\ ~Killed /\ ~Own
  <2>1. /\ UNCHANGED vars
        /\ (at # "transaction" /\ at' # "transaction") \/ UNCHANGED at
        /\ at \in Tried => at' \in Tried
    BY <1>6, ElsewhereSteps
  <2>2. UNCHANGED <<dest, base, stage, backup, rollback, phase, step, raised, residue, changed, outcome>>
    BY <2>1 DEF vars, files, control, told
  <2>3. (FailedCommitRestores => FailedCommitRestores') /\ (Clean => Clean')
    BY <2>2 DEF FailedCommitRestores, Escaped, Clean
  <2>4. CASE at = "transaction"
    <3>1. at' = "transaction" /\ [Next]_vars BY <2>1, <2>4
    <3>2. StagedInv' /\ RestoreInv' BY <2>4, <3>1, StepStaged, StepRestore DEF Called
    <3> QED BY <2>2, <2>4, <3>1, <3>2 DEF Called, NotCalled, Tried
  <2>5. CASE at # "transaction"
    <3>1. at' # "transaction" BY <2>1, <2>5
    <3> QED BY <2>1, <2>2, <2>3, <2>5, <3>1 DEF Called, NotCalled
  <2> QED BY <2>4, <2>5
<1> QED BY <1>1, <1>2, <1>3, <1>4, <1>5, <1>6

LEMMA StepCommanded ==
  ASSUME Commanded, [MigrationNext]_all
  PROVE  Commanded'
<1> USE DEF Commanded, Saving, Reconstructing, Applying, Check, Exit, GoOn, world, own, owner
<1>1. CASE UNCHANGED all BY <1>1 DEF all
<1>2. CASE \E c \in Commands : Begin(c) BY <1>2 DEF Begin
<1>3. CASE Load \/ ReadSource \/ ReadReport \/ VerifyArchive
  <2>1. /\ at \in {"load", "source", "report", "archive"} /\ UNCHANGED <<command, temporary>>
        /\ at' \in {"source", "report", "archive", "target", "exited"}
    BY <1>3 DEF Load, ReadSource, ReadReport, VerifyArchive
  <2>2. at' # "exited" => IF at = "load" THEN loaded' # None ELSE loaded' = loaded
    BY <1>3, <2>1 DEF Load, ReadSource, ReadReport, VerifyArchive
  <2> QED BY <2>1, <2>2
<1>4. CASE ReadTarget
  <2>1. /\ at = "target" /\ UNCHANGED <<command, loaded, temporary>>
        /\ at' \in {IF command = "plan" THEN "output" ELSE "reconstruct", "exited"}
    BY <1>4 DEF ReadTarget
  <2> QED BY <2>1
<1>5. CASE CheckOutput \/ SaveMapping \/ SavePlan
  <2>1. /\ at \in {"output", "save mapping", "save plan"} /\ UNCHANGED <<command, loaded, temporary>>
        /\ at' \in {"save mapping", "save plan", "flush", "exited"}
    BY <1>5 DEF CheckOutput, SaveMapping, SavePlan, Save
  <2> QED BY <2>1
<1>6. CASE Reconstruct \/ ReadMapping
  <2>1. /\ at \in {"reconstruct", "mapping"} /\ UNCHANGED <<command, loaded, temporary>>
        /\ at' \in {"mapping", IF command = "show" THEN "flush" ELSE "prevalidate", "exited"}
    BY <1>6 DEF Reconstruct, ReadMapping
  <2> QED BY <2>1 DEF Commands
<1>7. CASE Prevalidate
  <2>1. /\ at = "prevalidate" /\ UNCHANGED <<command, loaded>>
        /\ at' = "exited" \/ (at' = "apply" /\ UNCHANGED temporary)
    BY <1>7 DEF Prevalidate
  <2>2. ~temporary /\ command = "apply" /\ loaded # None BY <2>1
  <2>3. CASE at' = "exited" BY <2>1, <2>2, <2>3
  <2>4. CASE at' = "apply" /\ UNCHANGED temporary
    <3>1. ~temporary' BY <2>2, <2>4
    <3> QED BY <2>1, <2>2, <2>4, <3>1
  <2> QED BY <2>1, <2>3, <2>4
<1>8. CASE Apply
  <2>1. /\ at = "apply" /\ UNCHANGED <<command, loaded, temporary>>
        /\ at' \in {"transaction", "result"}
    BY <1>8 DEF Apply
  <2> QED BY <2>1
<1>9. CASE Mutate BY <1>9 DEF Mutate
<1>10. CASE MutationEnds \/ VerifyResult \/ Flush
  <2>1. /\ at \in {"transaction", "result", "flush"} /\ UNCHANGED <<command, loaded, temporary>>
        /\ at' \in {"result", "flush", "exited"} /\ (at' = "result" => at = "transaction")
    BY <1>10 DEF MutationEnds, VerifyResult, Flush
  <2> QED BY <2>1
<1>11. CASE Exits \/ Killed BY <1>11 DEF Exits, Killed, Leave
<1>12. CASE Own
  <2>1. UNCHANGED <<own, at>> BY <1>12 DEF Own, Revise, Discard, Tamper, Rehearse, Act
  <2> QED BY <2>1
<1> QED
  BY <1>1, <1>2, <1>3, <1>4, <1>5, <1>6, <1>7, <1>8, <1>9, <1>10, <1>11, <1>12
  DEF MigrationNext, Work

\* A rehearsal that is the conversion of what was read is that of Original.
LEMMA OneConversion ==
  ASSUME TypeOK, NEW tree, dest = Convert(tree)
  PROVE  tree = Original /\ dest = After
<1>1. 1 \in Change BY NAssumption DEF Change
<1>2. dest[1] \in Content BY <1>1 DEF TypeOK, FilesTyped
<1>3. tree # Original => dest[1] = None BY <1>1 DEF Convert
<1>4. tree = Original BY <1>2, <1>3, NoneAssumption
<1> QED BY <1>4, PlanAssumption DEF Convert

\* What apply_changes has done when it returns to an undisturbed command.
LEMMA CallEnds ==
  ASSUME TypeOK, Called, at = "transaction", step = "done"
  PROVE  /\ raised = "none" => outcome = "applied" /\ dest = After /\ Clean
         /\ raised # "none" => ExitCode # 0 /\ (ExitCode = 2 => dest = base /\ Clean)
<1>1. RestoreInv /\ phase = "ended" /\ (raised = "none" => outcome = "applied")
  BY DoneIsEnded DEF Called
<1>2. Answers /\ FailedCommitRestores BY <1>1 DEF RestoreInv, Answers
<1>3. raised \in {"none", "error", "interrupt"} BY DEF TypeOK, ControlTyped, Raised
<1>4. outcome \in {"unchanged", "applied", "restored"} BY <1>2 DEF FailedCommitRestores
<1> QED BY <1>1, <1>2, <1>3, <1>4 DEF Answers, ExitCode

LEMMA StepTells ==
  ASSUME MigrationInv, TellsInv, [MigrationNext]_all
  PROVE  (quiet' => Rehearsal' /\ Found') /\ MigrationTells'
<1> USE DEF Saving, Reconstructing, Applying, AfterTarget, AtResult, Tried, Check, Exit, GoOn, world,
            own, legacy, owner
<1>1. CASE UNCHANGED all
  <2>1. UNCHANGED <<dest, stage, backup, rollback, base, outcome>> BY <1>1 DEF all, vars, files, told
  <2>2. Clean' <=> Clean BY <2>1 DEF Clean
  <2> QED BY <1>1, <2>1, <2>2 DEF all, ended, TellsInv, Rehearsal, Found, MigrationTells
<1>2. CASE \E c \in Commands : Begin(c)
  BY <1>2 DEF Begin, Rehearsal, Found, MigrationTells, vars, files
<1>3. CASE Exits \/ Killed BY <1>3 DEF Exits, Killed, Leave, Rehearsal, Found, MigrationTells
<1>4. CASE Own
  <2>1. ~quiet' BY <1>4 DEF Own, Revise, Discard, Rehearse, Tamper, Act
  <2> QED BY <2>1 DEF MigrationTells
<1>5. CASE Work /\ ~Exits /\ ~quiet
  <2>1. ~quiet'
    BY <1>5 DEF Work, Load, ReadSource, ReadReport, VerifyArchive, ReadTarget, CheckOutput,
       SaveMapping, SavePlan, Save, Reconstruct, ReadMapping, Prevalidate, Apply, Mutate,
       MutationEnds, VerifyResult, Flush
  <2> QED BY <2>1 DEF MigrationTells
<1>6. CASE Work /\ ~Exits /\ quiet
  <2>1. /\ TypeOK /\ Prepared /\ CalledForChanges /\ Called /\ NotCalled /\ Commanded
        /\ Rehearsal /\ Found
    BY <1>6 DEF MigrationInv, TellsInv
  <2>2. InventoryRead /\ TargetRead /\ DocumentsRead BY <1>6, <2>1 DEF Prepared
  <2>3. at \notin {"idle"} \cup Tried => dest = before /\ Clean /\ ~temporary
    BY <2>1 DEF Rehearsal, NotCalled, Commanded
  <2>4. UNCHANGED vars => (Clean' <=> Clean) /\ dest' = dest /\ base' = base /\ outcome' = outcome
    BY DEF vars, files, told, Clean
  \* A step before the transaction that goes on or refuses.
  <2>5. ASSUME at \notin {"idle"} \cup Tried, UNCHANGED <<vars, before, command>>,
               at' = "exited", exit' # 0, temporary' => exit' = 3 /\ command = "apply"
        PROVE  MigrationTells' /\ Rehearsal' /\ Found'
    BY <2>3, <2>4, <2>5 DEF MigrationTells, Rehearsal, Found
  <2>6. CASE Load \/ ReadSource \/ ReadReport \/ VerifyArchive
    <3>1. /\ at \in {"load", "source", "report", "archive"} /\ UNCHANGED <<vars, before, command, temporary>>
          /\ at' \in {"source", "report", "archive", "target"} \/ (at' = "exited" /\ exit' = 2)
      BY <2>6 DEF Load, ReadSource, ReadReport, VerifyArchive
    <3>2. CASE at' = "exited" BY <2>3, <2>5, <3>1, <3>2
    <3>3. CASE at' # "exited" BY <2>3, <2>4, <3>1, <3>3 DEF MigrationTells, Rehearsal, Found
    <3> QED BY <3>2, <3>3
  <2>7. CASE ReadTarget
    <3>1. /\ at = "target" /\ UNCHANGED <<world, command, inventory, temporary, before>>
          /\ at' \in {"output", "reconstruct"} \/ (at' = "exited" /\ exit' = 2)
      BY <2>7 DEF ReadTarget
    <3>2. CASE at' = "exited" BY <2>3, <2>5, <3>1, <3>2
    <3>3. CASE at' # "exited"
      <4>1. /\ ~litter /\ dest \in {OwnedTree(inventory.tree), Convert(inventory.tree)}
            /\ converting' = (dest = OwnedTree(inventory.tree))
        BY <2>7, <3>1, <3>3 DEF ReadTarget
      <4>2. inventory.tree = Original /\ (~converting' => dest = After)
        BY <2>1, <4>1, OneTree, OneConversion
      <4> QED BY <2>3, <2>4, <3>1, <3>3, <4>1, <4>2 DEF MigrationTells, Rehearsal, Found
    <3> QED BY <3>2, <3>3
  <2>8. CASE CheckOutput \/ SaveMapping \/ SavePlan
    <3>1. /\ at \in Saving /\ UNCHANGED <<vars, own, litter>>
          /\ at' \in Saving \cup {"flush"} \/ (at' = "exited" /\ exit' # 0)
      <4>1. at \in Saving BY <2>8 DEF CheckOutput, SaveMapping, SavePlan
      <4>2. UNCHANGED <<vars, own, litter>>
        BY <2>8 DEF CheckOutput, SaveMapping, SavePlan, Save
      <4>3. at' \in Saving \cup {"flush"} \/ (at' = "exited" /\ exit' \in {2, 3, 130})
        <5>1. CASE CheckOutput BY <5>1 DEF CheckOutput
        <5>2. CASE SaveMapping BY <5>2 DEF SaveMapping, Save
        <5>3. CASE SavePlan BY <5>3 DEF SavePlan, Save
        <5> QED BY <2>8, <5>1, <5>2, <5>3
      <4>4. at' = "exited" => exit' # 0
        <5>1. ASSUME at' = "exited" PROVE exit' # 0
          <6>1. exit' \in {2, 3, 130} BY <4>3, <5>1
          <6> HIDE DEF Saving, Reconstructing, Applying, AfterTarget, AtResult, Tried, Check, Exit, GoOn
          <6> QED BY <6>1
        <5> QED BY <5>1
      <4>5. at' \in Saving \cup {"flush"} \/ at' = "exited" BY <4>3
      <4> QED BY <4>1, <4>2, <4>4, <4>5
    <3>2. command = "plan" BY <2>1, <3>1 DEF Commanded
    <3>3. CASE at' = "exited" BY <2>3, <2>5, <3>1, <3>3
    <3>4. CASE at' # "exited"
      BY <2>1, <2>3, <2>4, <3>1, <3>2, <3>4 DEF MigrationTells, Rehearsal, Found
    <3> QED BY <3>3, <3>4
  <2>9. CASE Reconstruct \/ ReadMapping
    <3>1. /\ at \in {"reconstruct", "mapping"} /\ UNCHANGED <<world, own>>
          /\ \/ at' \in {"mapping", "prevalidate"}
             \/ at' = "flush" /\ command = "show"
             \/ at' = "exited" /\ exit' = 2
      BY <2>9 DEF Reconstruct, ReadMapping
    <3>2. CASE at' = "exited" BY <2>3, <2>5, <3>1, <3>2
    <3>3. CASE at' # "exited"
      BY <2>1, <2>3, <2>4, <3>1, <3>3 DEF MigrationTells, Rehearsal, Found
    <3> QED BY <3>2, <3>3
  <2>10. CASE Prevalidate
    <3>1. /\ at = "prevalidate" /\ UNCHANGED <<world, command, loaded, inventory, converting, before>>
          /\ \/ at' = "apply" /\ UNCHANGED temporary
             \/ at' = "exited" /\ exit' # 0 /\ (temporary' # temporary => exit' = 3)
      BY <2>10 DEF Prevalidate
    <3>2. command = "apply" /\ ~temporary BY <2>1, <3>1 DEF Commanded
    <3>3. CASE at' = "exited" BY <2>5, <3>1, <3>2, <3>3
    <3>4. CASE at' # "exited"
      BY <2>1, <2>3, <2>4, <3>1, <3>4 DEF MigrationTells, Rehearsal, Found
    <3> QED BY <3>3, <3>4
  <2>11. CASE Apply
    <3>1. at = "apply" /\ dest = before /\ Clean /\ ~litter BY <2>1, <2>3, <2>11 DEF Apply, Rehearsal
    <3>2. CASE converting
      <4>1. /\ at' = "transaction" /\ base' = dest /\ dest' = dest
            /\ UNCHANGED <<legacy, documents, litter, own>>
        BY <2>11, <3>2 DEF Apply, files
      <4> QED BY <2>1, <3>1, <4>1 DEF MigrationTells, Rehearsal, Found
    <3>3. CASE ~converting
      <4>1. at' = "result" /\ UNCHANGED <<vars, legacy, documents, litter, own>>
        BY <2>11, <3>3 DEF Apply
      <4>2. dest = After BY <2>1, <3>1, <3>3 DEF Rehearsal
      <4> QED BY <2>1, <2>2, <2>4, <3>1, <3>3, <4>1, <4>2
              DEF MigrationTells, Rehearsal, Found, InventoryRead, DocumentsRead
    <3> QED BY <3>2, <3>3
  <2>12. CASE Mutate
    <3>1. /\ at = "transaction" /\ at' = "transaction" /\ UNCHANGED base
          /\ UNCHANGED <<legacy, documents, litter, own>>
      BY <2>12, BaseStays DEF Mutate
    <3> QED BY <2>1, <3>1 DEF MigrationTells, Rehearsal, Found
  <2>13. CASE MutationEnds
    <3>1. /\ at = "transaction" /\ step = "done" /\ UNCHANGED <<world, own>>
          /\ IF raised = "none" THEN at' = "result" ELSE at' = "exited" /\ exit' = ExitCode
      BY <2>13 DEF MutationEnds
    <3>2. /\ command = "apply" /\ ~temporary /\ converting /\ base = before /\ ~litter
      BY <2>1, <3>1 DEF Commanded, CalledForChanges, Rehearsal
    <3>3. /\ raised = "none" => outcome = "applied" /\ dest = After /\ Clean
          /\ raised # "none" => ExitCode # 0 /\ (ExitCode = 2 => dest = base /\ Clean)
      BY <2>1, <3>1, CallEnds
    <3>4. CASE raised = "none"
      BY <2>1, <2>2, <2>4, <3>1, <3>2, <3>3, <3>4
      DEF MigrationTells, Rehearsal, Found, InventoryRead, DocumentsRead
    <3>5. CASE raised # "none"
      BY <2>4, <3>1, <3>2, <3>3, <3>5 DEF MigrationTells, Rehearsal, Found
    <3> QED BY <3>4, <3>5
  <2>14. CASE VerifyResult \/ Flush
    <3>1. /\ at \in {"result", "flush"} /\ UNCHANGED <<vars, legacy, documents, litter, own>>
          /\ \/ at = "result" /\ at' = "flush"
             \/ /\ at' = "exited"
                /\ \/ exit' = 0 /\ at = "flush"
                   \/ \E code \in {2, 130} : exit' = ExitAfter(code)
      BY <2>14 DEF VerifyResult, Flush
    <3>2. ~temporary /\ (at = "result" => command = "apply") BY <2>1, <3>1 DEF Commanded
    <3>3. ~litter BY <2>1, <3>1 DEF Rehearsal
    <3>4. CASE at' = "flush"
      BY <2>1, <2>4, <3>1, <3>2, <3>4 DEF MigrationTells, Rehearsal, Found
    <3>5. CASE at' = "exited" /\ command = "apply"
      <4>1. /\ dest = After /\ Clean /\ (converting => outcome = "applied")
            /\ (~converting => dest = before)
        BY <2>1, <3>1, <3>5 DEF Rehearsal
      <4>2. ASSUME converting PROVE exit' # 2
        <5>1. \A code : ExitAfter(code) = 3 BY <4>1, <4>2 DEF ExitAfter
        <5>2. exit' = 0 \/ exit' = 3 BY <3>1, <3>5, <5>1
        <5> QED BY <5>2
      <4> QED BY <2>4, <3>1, <3>2, <3>3, <3>5, <4>1, <4>2 DEF MigrationTells, Rehearsal, Found
    <3>6. CASE at' = "exited" /\ command # "apply"
      <4>1. dest = before /\ Clean BY <2>1, <3>1, <3>2, <3>6 DEF Rehearsal
      <4> QED BY <2>4, <3>1, <3>2, <3>6, <4>1 DEF MigrationTells, Rehearsal, Found
    <3> QED BY <3>1, <3>4, <3>5, <3>6
  <2> QED
    BY <1>6, <2>6, <2>7, <2>8, <2>9, <2>10, <2>11, <2>12, <2>13, <2>14 DEF Work
<1> QED BY <1>1, <1>2, <1>3, <1>4, <1>5, <1>6 DEF MigrationNext, Work

LEMMA StepRerun ==
  ASSUME MigrationInv, TellsInv, RerunInv, [MigrationNext]_all
  PROVE  RerunInv'
<1> USE DEF Saving, Reconstructing, Applying, AtResult, Check, Exit, GoOn, world, own, legacy, owner
<1>1. CASE UNCHANGED all
  <2>1. UNCHANGED <<dest, stage, backup, rollback, source, archive, report, documents, litter, at,
                    converting, reason, quiet, settled>>
    BY <1>1 DEF all, vars, files, ended
  <2>2. Clean' <=> Clean BY <2>1 DEF Clean
  <2> QED BY <2>1, <2>2 DEF RerunInv
<1>2. CASE \E c \in Commands : Begin(c)
  <2>1. /\ UNCHANGED <<vars, legacy, documents, litter, converting, settled>>
        /\ at' \in {"source", "load"} /\ quiet'
    BY <1>2 DEF Begin
  <2>2. (Clean' <=> Clean) /\ dest' = dest BY <2>1 DEF Clean, vars, files
  <2> QED BY <2>1, <2>2 DEF RerunInv
<1>3. CASE Exits \/ Killed
  <2>1. Leave BY <1>3 DEF Exits, Killed
  <2>2. Clean' BY <2>1 DEF Leave, Clean
  <2>3. /\ UNCHANGED <<dest, source, archive, report, documents, quiet, settled>>
        /\ at' = "idle" /\ litter' = (litter \/ ~Clean)
    BY <2>1 DEF Leave
  <2> QED BY <2>2, <2>3 DEF RerunInv
<1>4. CASE Own
  <2>1. ~settled' BY <1>4 DEF Own, Revise, Discard, Rehearse, Tamper, Act
  <2> QED BY <2>1 DEF RerunInv
<1>5. CASE Work /\ ~Exits
  <2> SUFFICES ASSUME settled'
      PROVE  RerunInv'
    BY DEF RerunInv
  <2>1. UNCHANGED <<quiet, legacy>>
    BY <1>5 DEF Work, Load, ReadSource, ReadReport, VerifyArchive, ReadTarget, CheckOutput,
       SaveMapping, SavePlan, Save, Reconstruct, ReadMapping, Prevalidate, Apply, Mutate,
       MutationEnds, VerifyResult, Flush
  \* The apply that settles it.
  <2>2. CASE ~settled
    <3>1. /\ at = "flush" /\ command = "apply" /\ quiet /\ at' = "exited" /\ reason' = "none"
          /\ UNCHANGED <<vars, documents, litter>>
      BY <1>5, <2>2 DEF Work, Load, ReadSource, ReadReport, VerifyArchive, ReadTarget, CheckOutput,
         SaveMapping, SavePlan, Save, Reconstruct, ReadMapping, Prevalidate, Apply, Mutate,
         MutationEnds, VerifyResult, Flush
    <3>2. /\ dest = After /\ Clean /\ ~litter /\ inventory.tree = Original
          /\ inventory.tree = source /\ inventory.report = report /\ archive = source
          /\ documents.plan = inventory /\ documents.mapping = inventory /\ documents.plan = loaded
      BY <3>1 DEF TellsInv, Rehearsal, Found, AfterTarget
    <3>3. loaded # None BY <3>1 DEF TellsInv, Commanded
    <3>4. inventory = [tree |-> Original, report |-> report]
      BY <3>2 DEF MigrationInv, MigrationTyped
    <3>5. Clean' /\ dest' = After BY <3>1, <3>2 DEF vars, files, Clean
    <3> QED BY <2>1, <3>1, <3>2, <3>3, <3>4, <3>5 DEF RerunInv
  <2>3. CASE settled
    <3>1. /\ quiet /\ at \notin {"transaction", "save mapping", "save plan"}
          /\ source = Original /\ archive = Original
          /\ documents.plan = [tree |-> Original, report |-> report]
          /\ documents.mapping = documents.plan /\ documents.plan # None
          /\ dest = After /\ Clean /\ ~litter
          /\ at \in Saving \cup Reconstructing => ~converting
      BY <2>3 DEF RerunInv
    <3>2. InventoryRead /\ DocumentsRead BY <3>1 DEF MigrationInv, Prepared
    \* No step but a reading of the rehearsal needs more than this.
    <3>3. ASSUME UNCHANGED <<vars, documents, litter>>,
                 at' \notin {"transaction", "save mapping", "save plan"},
                 at' \in Saving \cup Reconstructing => ~converting',
                 at' = "exited" => reason' \in {"none", "failed"}
          PROVE  RerunInv'
      <4>1. (Clean' <=> Clean) /\ dest' = dest BY <3>3 DEF vars, files, Clean
      <4> QED BY <2>1, <3>1, <3>3, <4>1 DEF RerunInv
    <3>4. CASE Load \/ ReadSource \/ ReadReport
      <4>1. /\ UNCHANGED <<vars, documents, litter>> /\ at' \in {"source", "report", "archive"}
        BY <3>1, <3>4 DEF Load, ReadSource, ReadReport
      <4> QED BY <3>3, <4>1
    <3>5. CASE VerifyArchive
      <4>1. at = "archive" /\ Archived
        BY <3>1, <3>2, <3>5 DEF VerifyArchive, Archived, InventoryRead
      <4>2. UNCHANGED <<vars, documents, litter>> /\ at' = "target"
        BY <3>5, <4>1 DEF VerifyArchive
      <4> QED BY <3>3, <4>2
    <3>6. CASE ReadTarget
      <4>1. inventory.tree = Original
        BY <3>1, <3>2, <3>6 DEF ReadTarget, InventoryRead
      <4>2. After = Convert(Original) BY PlanAssumption DEF Convert
      <4>3. After # OwnedTree(Original)
        <5>1. 1 \in Change BY NAssumption DEF Change
        <5>2. OwnedTree(Original)[1] = Expected[1] BY <5>1 DEF OwnedTree
        <5> QED BY <5>1, <5>2, PlanAssumption
      <4>4. /\ UNCHANGED <<vars, documents, litter>> /\ ~converting'
            /\ at' \in {"output", "reconstruct"}
        BY <3>1, <3>6, <4>1, <4>2, <4>3 DEF ReadTarget
      <4> QED BY <3>3, <4>4
    <3>7. CASE CheckOutput \/ SaveMapping \/ SavePlan
      <4>1. /\ UNCHANGED <<vars, documents, litter>> /\ at' = "flush"
        BY <3>1, <3>7 DEF CheckOutput, SaveMapping, SavePlan
      <4> QED BY <3>3, <4>1
    <3>8. CASE Reconstruct \/ ReadMapping
      <4>1. inventory = [tree |-> Original, report |-> report]
        BY <3>1, <3>2, <3>8 DEF Reconstruct, ReadMapping, InventoryRead, MigrationInv, MigrationTyped
      <4>2. at = "reconstruct" => loaded = inventory
        BY <3>1, <3>2, <4>1 DEF DocumentsRead
      <4>3. documents.mapping = inventory BY <3>1, <4>1
      <4>4. /\ at \in Reconstructing /\ UNCHANGED <<vars, documents, litter, converting>>
            /\ at' \in {"mapping", "prevalidate", "flush"}
        BY <3>8, <4>2, <4>3 DEF Reconstruct, ReadMapping, Accepted
      <4> QED BY <3>1, <3>3, <4>4
    <3>9. CASE Prevalidate
      <4>1. /\ at \in Reconstructing /\ UNCHANGED <<vars, documents, litter, converting>>
            /\ at' = "apply" \/ (at' = "exited" /\ reason' = "failed")
        BY <3>9 DEF Prevalidate
      <4> QED BY <3>1, <3>3, <4>1
    <3>10. CASE Apply
      <4>1. ~converting BY <3>1, <3>10 DEF Apply
      <4>2. UNCHANGED <<vars, documents, litter>> /\ at' = "result"
        BY <3>10, <4>1 DEF Apply
      <4> QED BY <3>3, <4>2
    <3>11. CASE Mutate \/ MutationEnds BY <3>1, <3>11 DEF Mutate, MutationEnds
    <3>12. CASE VerifyResult \/ Flush
      <4>1. /\ UNCHANGED <<vars, documents, litter>>
            /\ at' = "flush" \/ (at' = "exited" /\ reason' \in {"none", "failed"})
        BY <3>12 DEF VerifyResult, Flush
      <4> QED BY <3>3, <4>1
    <3> QED
      BY <1>5, <3>4, <3>5, <3>6, <3>7, <3>8, <3>9, <3>10, <3>11, <3>12 DEF Work
  <2> QED BY <2>2, <2>3
<1> QED BY <1>1, <1>2, <1>3, <1>4, <1>5 DEF MigrationNext, Work

\* Where only checks and calls of the commit fail, an undisturbed command tells
\* the owner the truth at its exit, whatever was killed before: 0 from apply
\* means that the conversion is in place and complete, 2 that nothing has
\* changed.  SIGINT that no clause classifies exits with 130, of which nothing
\* is said (main, "changed = outcome.changed or ..." and "return 3 if changed
\* else code").
THEOREM TellsTheOwner ==
  ASSUME Foreign = {}, Faults \subseteq {"check", "commit"}
  PROVE  MigrationSpec => []MigrationTells
<1> DEFINE Inv == MigrationInv /\ TellsInv
<1>1. MigrationInit => Inv BY InitMigration, InitTells
<1>2. Inv /\ [MigrationNext]_all => Inv'
  <2> SUFFICES ASSUME Inv, [MigrationNext]_all PROVE Inv' OBVIOUS
  <2>1. MigrationInv'
    BY StepMigrationTyped, StepPrepared DEF MigrationInv
  <2>2. Called' /\ NotCalled'
    BY <2>1, StepCalled DEF MigrationInv, TellsInv
  <2> QED BY <2>1, <2>2, StepCommanded, StepTells DEF TellsInv
<1>3. Inv => MigrationTells BY DEF TellsInv
<1> HIDE DEF Inv
<1> QED BY <1>1, <1>2, <1>3, PTL DEF MigrationSpec

\* Nor is a rehearsal half converted by a call that has ended, whoever prepared
\* the ground for it and however often it is called, unless SIGINT ended the
\* call where no clause classifies it; then what it replaced is at the backup
\* names (main, "outcome = apply_changes").
THEOREM CallsRestore ==
  ASSUME Foreign = {}, Faults \subseteq {"check", "commit"}
  PROVE  MigrationSpec => []FailedCommitRestores
<1> DEFINE Inv == MigrationInv /\ Called /\ NotCalled
<1>1. MigrationInit => Inv BY InitMigration, InitTells DEF TellsInv
<1>2. Inv /\ [MigrationNext]_all => Inv'
  <2> SUFFICES ASSUME Inv, [MigrationNext]_all PROVE Inv' OBVIOUS
  <2>1. MigrationInv' BY StepMigrationTyped, StepPrepared DEF MigrationInv
  <2> QED BY <2>1, StepCalled DEF MigrationInv
<1>3. Inv => FailedCommitRestores
  <2> SUFFICES ASSUME Inv, at = "transaction", step = "done" PROVE FailedCommitRestores
    BY DEF Called, FailedCommitRestores
  <2> QED BY DoneIsEnded DEF Called, RestoreInv, Answers
<1> HIDE DEF Inv
<1> QED BY <1>1, <1>2, <1>3, PTL DEF MigrationSpec

\* Under the same assumptions, once an apply has succeeded no command is
\* refused until the owner changes something: the plan that has done its work
\* is still the one computed now but for its changes, none of which is left to
\* make (_reconstruct, "if not plan.changes").
THEOREM AcceptsReruns ==
  ASSUME Foreign = {}, Faults \subseteq {"check", "commit"}
  PROVE  MigrationSpec => []RerunAccepted
<1> DEFINE Inv == MigrationInv /\ TellsInv /\ RerunInv
<1>1. MigrationInit => Inv BY InitMigration, InitTells
<1>2. Inv /\ [MigrationNext]_all => Inv'
  <2> SUFFICES ASSUME Inv, [MigrationNext]_all PROVE Inv' OBVIOUS
  <2>1. MigrationInv'
    BY StepMigrationTyped, StepPrepared DEF MigrationInv
  <2>2. Called' /\ NotCalled'
    BY <2>1, StepCalled DEF MigrationInv, TellsInv
  <2>3. RerunInv' BY StepRerun
  <2> QED BY <2>1, <2>2, <2>3, StepCommanded, StepTells DEF TellsInv
<1>3. Inv => RerunAccepted BY DEF RerunInv, RerunAccepted
<1> HIDE DEF Inv
<1> QED BY <1>1, <1>2, <1>3, PTL DEF MigrationSpec
=============================================================================
