---------------------------- MODULE Transaction ----------------------------
(***************************************************************************)
(* One call of apply_changes (remek_core/transaction.py): a reviewed list  *)
(* of changes is staged beside its destinations, installed one rename at a *)
(* time, verified, and either cleaned up or rolled back.                   *)
(*                                                                         *)
(* A step is one operating-system call on a public name.  Calls that touch *)
(* only this call's private names (their names carry a fresh 64-bit token, *)
(* line 420) are merged into the step beside them: nobody else can see or  *)
(* change what lies there, which is also why the probes that find a        *)
(* private name occupied (434-439, 194, 268-272) are left out.             *)
(* File contents are abstracted to their identity, the string that         *)
(* fingerprint_at computes.                                                *)
(***************************************************************************)
EXTENDS Integers

CONSTANTS
  N,             \* number of changes in the plan
  Expected,      \* [1..N -> identity]: Change.expected, the planned preimage
  After,         \* [1..N -> identity]: Change.after; Absent is a delete
  Objects,       \* identities of complete objects
  Absent,        \* transaction.ABSENT: nothing at the name
  Broken,        \* identity of a half-written or half-removed object
  Unknown,       \* the identity a residue entry carries when probing failed
  Foreign,       \* what a process outside this call may leave at a destination
  Faults,        \* the phases in which a call may fail; SIGINT inside a call
                 \* that an except clause guards is one of its failures
  Interruptible  \* whether SIGINT may land where no except clause classifies it

Change == 1..N
Content == Objects \cup {Absent, Broken}
Phases == {"check", "stage", "abandon", "commit", "rollback", "cleanup", "ended"}
Steps == {"probe", "stage", "unstage", "recheck", "displace", "displaced",
          "install", "installed", "confirm", "verify", "classify", "quarantine",
          "quarantined", "restore", "restored", "settle", "unquarantine", "sweep",
          "cleanup", "remaining", "conclude", "close", "done"}
Raised == {"none", "error", "interrupt"}
Outcomes == {"none", "unchanged", "applied", "restored", "residue", "unknown"}
Slots == {"dest", "stage", "backup", "rollback"}
Residues == [slot : Slots, change : Change, identity : Content \cup {Unknown}]

ASSUME NAssumption == N \in Nat \ {0}

\* workflows._one and _owned_write drop a change whose two identities agree.
ASSUME PlanAssumption ==
  /\ Expected \in [Change -> Objects \cup {Absent}]
  /\ After \in [Change -> Objects \cup {Absent}]
  /\ \A c \in Change : Expected[c] # After[c]

ASSUME IdentityAssumption ==
  /\ Absent \notin Objects /\ Broken \notin Objects /\ Unknown \notin Objects
  /\ Absent # Broken /\ Absent # Unknown /\ Broken # Unknown
  /\ Foreign \subseteq Objects \cup {Absent}
  /\ Faults \subseteq Phases
  /\ Interruptible \in BOOLEAN

VARIABLES
  dest,      \* the destinations: shared with everyone
  stage,     \* the private names of line 129, beside each destination
  backup,
  rollback,
  phase,     \* which block of apply_changes runs
  step,      \* which call of it comes next
  index,     \* the change it is about
  seen,      \* _classify_and_restore: local variable "destination"
  threw,     \* whether the rename just made raised
  raised,    \* the exception being handled; at the end, the one raised
  residue,   \* the Residue list
  changed,   \* changed_paths, as a set of changes
  outcome,   \* what the caller is told
  base       \* history: what others last left at each destination

files == <<dest, stage, backup, rollback>>
control == <<phase, step, index>>
local == <<seen, threw>>
told == <<residue, changed, outcome>>
vars == <<files, control, local, raised, told, base>>

HasStage(c) == After[c] # Absent

Init ==
  /\ dest \in [Change -> Objects \cup {Absent}] /\ base = dest
  /\ stage = [c \in Change |-> Absent]
  /\ backup = [c \in Change |-> Absent]
  /\ rollback = [c \in Change |-> Absent]
  /\ phase = "check" /\ step = "probe" /\ index = 1
  /\ seen = Absent /\ threw = FALSE
  /\ raised = "none" /\ residue = {} /\ changed = {} /\ outcome = "none"

---------------------------------------------------------------------------
(* Control flow shared by the steps.                                       *)

\* What a failing call raises: an OSError, an Error or a KeyboardInterrupt.
Failures == IF phase \in Faults THEN {"error", "interrupt"} ELSE {}

\* What a test of the code raises when it does not hold.
Unless(condition) == IF condition THEN {} ELSE {"error"}

GoTo(ph, st, i) == phase' = ph /\ step' = st /\ index' = i

\* Definitions marked "slip" stand for plausible mistakes; no action uses them.
\* Slips: a loop that misses the last change; one that starts over.
EachButLast(ph, st) ==
  IF index + 1 < N THEN GoTo(phase, step, index + 1) ELSE GoTo(ph, st, 1)
EachAgain(ph, st) ==
  IF index < N THEN GoTo(phase, step, index + 1) ELSE GoTo(phase, step, 1)

\* The for loops over states: the same call for the next change, or what follows.
EachChange(ph, st) ==
  IF index < N THEN GoTo(phase, step, index + 1) ELSE GoTo(ph, st, 1)

Return(result, exception) ==
  /\ GoTo("ended", "done", index)
  /\ outcome' = result
  /\ raised' = exception

\* The except block of line 495; _rollback walks the changes backwards.
RollBack(exception) == GoTo("rollback", "classify", N) /\ raised' = exception

Named(slot, c, identity) == [slot |-> slot, change |-> c, identity |-> identity]

\* _residue: an absent object needs no entry.
Entry(slot, c, identity) ==
  IF identity = Absent THEN {} ELSE {Named(slot, c, identity)}

\* Slips: removing without comparing; not naming what was preserved; taking a
\* removal that raised for one that worked.
RemoveAnything(content, expected) == {[left |-> Absent, named |-> Absent]}
RemoveSilently(content, expected) ==
  {[left |-> IF content \in {Absent, expected} THEN Absent ELSE content, named |-> Absent]}
RemoveTrustingly(content, expected) ==
  [left : IF Failures = {} THEN {Absent} ELSE {Absent, content}, named : {Absent}]

\* _remove_expected and remove_at: what may be left of an object, and the
\* identity its residue entry carries (Absent: no entry).  An unplanned object
\* stays; a removal that fails may leave everything, nothing or a torn tree.
RemoveExpected(content, expected) ==
  LET preserved == [left |-> content, named |-> content]
      removed == [left |-> Absent, named |-> Absent]
      unreadable == [left |-> content, named |-> Unknown]
      failed == {r \in [left : {content, Absent, Broken}, named : Content \cup {Unknown}] :
                   r.named \in {r.left, Unknown}}
  IN  {IF content \in {Absent, expected} THEN removed ELSE preserved}
      \cup (IF Failures = {} THEN {} ELSE {unreadable})
      \cup (IF Failures # {} /\ content = expected /\ content # Absent THEN failed ELSE {})

---------------------------------------------------------------------------
(* Lines 427-461: nothing public changes while the plan is checked and      *)
(* every object is staged.                                                  *)

Probe ==
  /\ step = "probe"
  /\ \/ /\ dest[index] = Expected[index]
        /\ EachChange("stage", "stage")
        /\ UNCHANGED <<raised, outcome>>
     \/ \E e \in Unless(dest[index] = Expected[index]) \cup Failures :
           Return("unchanged", e)
  /\ UNCHANGED <<files, local, residue, changed, base>>

\* write_file_at and write_tree_at remove what they began, or fail to.
Stage ==
  /\ step = "stage"
  /\ \/ /\ stage' = [stage EXCEPT ![index] = After[index]]
        /\ EachChange("commit", "recheck")
        /\ UNCHANGED raised
     \/ /\ HasStage(index)
        /\ \E left \in {Absent, Broken, After[index]} : stage' = [stage EXCEPT ![index] = left]
        /\ raised' \in Failures
        /\ GoTo("abandon", "unstage", 1)
  /\ UNCHANGED <<dest, backup, rollback, local, told, base>>

AfterUnstaging ==
  CASE phase = "abandon" -> "conclude"
    [] phase = "rollback" -> "sweep"
    [] OTHER -> IF residue' = {} THEN "conclude" ELSE "remaining"

\* _stage_residue: when staging fails, after a rollback and during cleanup.
Unstage ==
  /\ step = "unstage"
  /\ IF HasStage(index)
     THEN \E r \in RemoveExpected(stage[index], After[index]) :
            /\ stage' = [stage EXCEPT ![index] = r.left]
            /\ residue' = residue \cup Entry("stage", index, r.named)
     ELSE UNCHANGED <<stage, residue>>
  /\ EachChange(phase, AfterUnstaging)
  /\ UNCHANGED <<dest, backup, rollback, local, raised, changed, outcome, base>>

---------------------------------------------------------------------------
(* Lines 463-494: every destination is probed again, then each change is    *)
(* installed by at most two renames, and the caller's check runs last.      *)
(* A rename that raised is accepted when the two names show its effect.     *)

Recheck ==
  /\ step = "recheck"
  /\ \/ dest[index] = Expected[index] /\ EachChange(phase, "displace") /\ UNCHANGED raised
     \/ \E e \in Unless(dest[index] = Expected[index]) \cup Failures : RollBack(e)
  /\ UNCHANGED <<files, local, told, base>>

\* Slip: deleting the preimage where it should be kept.
UnlinkPrior ==
  /\ dest[index] # Absent
  /\ dest' = [dest EXCEPT ![index] = Absent]
  /\ UNCHANGED <<stage, backup, rollback>>

MoveAside ==
  /\ dest[index] # Absent
  /\ backup' = [backup EXCEPT ![index] = dest[index]]
  /\ dest' = [dest EXCEPT ![index] = Absent]
  /\ UNCHANGED <<stage, rollback>>

Displace ==
  /\ step = "displace"
  /\ \/ /\ IF Expected[index] = Absent THEN UNCHANGED files ELSE MoveAside
        /\ GoTo(phase, "install", index) /\ UNCHANGED raised
     \/ /\ Expected[index] # Absent
        /\ UNCHANGED files \/ (Failures # {} /\ MoveAside)
        /\ raised' \in Unless(dest[index] # Absent) \cup Failures
        /\ GoTo(phase, "displaced", index)
  /\ UNCHANGED <<local, told, base>>

DisplaceTookEffect == dest[index] = Absent /\ backup[index] = Expected[index]

Displaced ==
  /\ step = "displaced"
  /\ \/ DisplaceTookEffect /\ GoTo(phase, "install", index) /\ raised' = "none"
     \/ \E e \in (IF DisplaceTookEffect THEN {} ELSE {raised}) \cup Failures : RollBack(e)
  /\ UNCHANGED <<files, local, told, base>>

\* os.replace takes the place of whatever lies at the destination, unless a
\* file would replace a directory or a directory a file.
MoveIn ==
  /\ dest' = [dest EXCEPT ![index] = stage[index]]
  /\ stage' = [stage EXCEPT ![index] = Absent]
  /\ UNCHANGED <<backup, rollback>>

Install ==
  /\ step = "install"
  /\ \/ /\ IF HasStage(index) THEN MoveIn ELSE UNCHANGED files
        /\ GoTo(phase, "confirm", index) /\ UNCHANGED raised
     \/ /\ HasStage(index)
        /\ UNCHANGED files \/ (Failures # {} /\ MoveIn)
        /\ raised' \in Unless(dest[index] = Absent) \cup Failures
        /\ GoTo(phase, "installed", index)
  /\ UNCHANGED <<local, told, base>>

InstallTookEffect == dest[index] = After[index] /\ stage[index] = Absent

Installed ==
  /\ step = "installed"
  /\ \/ InstallTookEffect /\ GoTo(phase, "confirm", index) /\ raised' = "none"
     \/ \E e \in (IF InstallTookEffect THEN {} ELSE {raised}) \cup Failures : RollBack(e)
  /\ UNCHANGED <<files, local, told, base>>

\* Slip: the last change is never installed.
VerifyEarly == IF index + 1 < N THEN GoTo(phase, "displace", index + 1) ELSE GoTo(phase, "verify", 1)

NextInstallation ==
  IF index < N THEN GoTo(phase, "displace", index + 1) ELSE GoTo(phase, "verify", 1)

Confirm ==
  /\ step = "confirm"
  /\ \/ dest[index] = After[index] /\ NextInstallation /\ UNCHANGED raised
     \/ \E e \in Unless(dest[index] = After[index]) \cup Failures : RollBack(e)
  /\ UNCHANGED <<files, local, told, base>>

\* The callback of app._apply_result: the repository check, or release verification.
Verify ==
  /\ step = "verify"
  /\ \/ GoTo("cleanup", "cleanup", 1) /\ UNCHANGED raised
     \/ \E e \in {"error", "interrupt"} : RollBack(e)
  /\ UNCHANGED <<files, local, told, base>>

---------------------------------------------------------------------------
(* Lines 336-353: _classify_and_restore for each change, backwards.         *)

\* Slip: walking past the first change.
RestorationBeforeFirst ==
  IF index >= 1 THEN GoTo(phase, "classify", index - 1) ELSE GoTo(phase, "unstage", 1)

NextRestoration ==
  IF index > 1 THEN GoTo(phase, "classify", index - 1) ELSE GoTo(phase, "unstage", 1)

\* Slip: an installed object is left in place.
NeverQuarantine(content) == FALSE

MustQuarantine(content) == content = After[index] /\ content # Absent

Classify ==
  /\ step = "classify"
  /\ seen' = dest[index]
  /\ GoTo(phase, IF MustQuarantine(seen') THEN "quarantine" ELSE "restore", index)
  /\ UNCHANGED <<files, threw, raised, told, base>>

MoveOut ==
  /\ dest[index] # Absent
  /\ rollback' = [rollback EXCEPT ![index] = dest[index]]
  /\ dest' = [dest EXCEPT ![index] = Absent]
  /\ UNCHANGED <<stage, backup>>

Quarantine ==
  /\ step = "quarantine"
  /\ \/ MoveOut /\ threw' \in {FALSE, Failures # {}}
     \/ UNCHANGED files /\ threw' = TRUE /\ (dest[index] = Absent \/ Failures # {})
  /\ GoTo(phase, "quarantined", index)
  /\ UNCHANGED <<seen, raised, told, base>>

\* A rename of the rollback raised and the names do not show its effect: what
\* lies there is named, or that it cannot be read (_residue), and the next
\* change is restored.
GiveUp(slot, content) ==
  /\ \E identity \in {content} \cup (IF Failures = {} THEN {} ELSE {Unknown}) :
       residue' = residue \cup {Named("dest", index, dest[index])} \cup Entry(slot, index, identity)
  /\ NextRestoration

Quarantined ==
  /\ step = "quarantined"
  /\ seen' = dest[index]
  /\ IF threw /\ ~(dest[index] = Absent /\ rollback[index] = After[index])
     THEN GiveUp("rollback", rollback[index])
     ELSE GoTo(phase, "restore", index) /\ UNCHANGED residue
  /\ UNCHANGED <<files, threw, raised, changed, outcome, base>>

CanRestore(content) ==
  content = Absent /\ backup[index] = Expected[index] /\ Expected[index] # Absent

MoveBack ==
  /\ dest' = [dest EXCEPT ![index] = backup[index]]
  /\ backup' = [backup EXCEPT ![index] = Absent]
  /\ UNCHANGED <<stage, rollback>>

Restore ==
  /\ step = "restore"
  /\ IF ~CanRestore(seen)
     THEN GoTo(phase, "settle", index) /\ UNCHANGED <<files, threw>>
     ELSE /\ GoTo(phase, "restored", index)
          /\ \/ MoveBack /\ threw' \in {FALSE, Failures # {}}
             \/ UNCHANGED files /\ threw' = TRUE /\ (dest[index] # Absent \/ Failures # {})
  /\ UNCHANGED <<seen, raised, told, base>>

Restored ==
  /\ step = "restored"
  /\ seen' = dest[index]
  /\ IF threw /\ ~(dest[index] = Expected[index] /\ backup[index] = Absent)
     THEN GiveUp("backup", backup[index])
     ELSE GoTo(phase, "settle", index) /\ UNCHANGED residue
  /\ UNCHANGED <<files, threw, raised, changed, outcome, base>>

\* Lines 308-319: a copy of the preimage is surplus once the destination has it.
Settle ==
  /\ step = "settle"
  /\ LET wrong == IF seen = Expected[index] THEN {} ELSE {Named("dest", index, seen)}
         surplus == wrong = {} /\ backup[index] = Expected[index]
     IN  \E r \in IF surplus THEN RemoveExpected(backup[index], Expected[index])
                  ELSE {[left |-> backup[index], named |-> backup[index]]} :
           /\ backup' = [backup EXCEPT ![index] = r.left]
           /\ residue' = residue \cup wrong \cup Entry("backup", index, r.named)
  /\ GoTo(phase, "unquarantine", index)
  /\ UNCHANGED <<dest, stage, rollback, local, raised, changed, outcome, base>>

\* Lines 321-332: the quarantined object is removed once the preimage is back.
Unquarantine ==
  /\ step = "unquarantine"
  /\ \E r \in IF seen = Expected[index] /\ rollback[index] = After[index]
              THEN RemoveExpected(rollback[index], After[index])
              ELSE {[left |-> rollback[index], named |-> rollback[index]]} :
       /\ rollback' = [rollback EXCEPT ![index] = r.left]
       /\ residue' = residue \cup Entry("rollback", index, r.named)
  /\ NextRestoration
  /\ UNCHANGED <<dest, stage, backup, local, raised, changed, outcome, base>>

\* Lines 342-353: anything raised while restoring one change names what is there.
RestorationFails ==
  /\ step \in {"classify", "quarantined", "restored", "unquarantine"}
  /\ Failures # {}
  /\ \E unreadable \in SUBSET {"dest", "backup", "rollback"} :
       LET Observed(slot, content) ==
             Entry(slot, index, IF slot \in unreadable THEN Unknown ELSE content)
       IN  residue' = residue \cup Observed("dest", dest[index])
             \cup Observed("backup", backup[index]) \cup Observed("rollback", rollback[index])
  /\ NextRestoration
  /\ UNCHANGED <<files, local, raised, changed, outcome, base>>

\* Slip: nothing is swept.
NothingUnnamed(slot) == {}

\* Lines 355-361: the private names no entry mentions yet.
Unnamed(slot) ==
  {c \in Change : \A r \in residue : ~(r.slot = slot /\ r.change = c)}

Sweep ==
  /\ step = "sweep"
  /\ \E lostBackup \in SUBSET Unnamed("backup"), lostRollback \in SUBSET Unnamed("rollback") :
       LET Swept(slot, contents, unreadable) ==
             UNION {Entry(slot, c, IF c \in unreadable THEN Unknown ELSE contents[c]) :
                      c \in Unnamed(slot)}
       IN  /\ Failures = {} => lostBackup \cup lostRollback = {}
           /\ residue' = residue \cup Swept("backup", backup, lostBackup)
                                 \cup Swept("rollback", rollback, lostRollback)
  /\ GoTo(phase, "remaining", 1)
  /\ UNCHANGED <<files, local, raised, changed, outcome, base>>

---------------------------------------------------------------------------
(* Lines 373-384, 495-564: what is left, and what the caller is told.       *)

\* Slip: a missing destination passes for an unchanged one.
StillPlanned(c) == dest[c] = After[c]

NotPrior(c) == dest[c] # Expected[c]

Remaining ==
  /\ step = "remaining"
  /\ \/ /\ changed' = IF NotPrior(index) THEN changed \cup {index} ELSE changed
        /\ UNCHANGED residue
     \/ /\ Failures # {} /\ UNCHANGED changed
        /\ residue' = residue \cup {Named("dest", index, Unknown)}
  /\ EachChange(phase, "conclude")
  /\ UNCHANGED <<files, local, raised, outcome, base>>

\* Lines 527-532.
Cleanup ==
  /\ step = "cleanup"
  /\ IF Expected[index] = Absent THEN UNCHANGED <<backup, residue>>
     ELSE \E r \in RemoveExpected(backup[index], Expected[index]) :
            /\ backup' = [backup EXCEPT ![index] = r.left]
            /\ residue' = residue \cup Entry("backup", index, r.named)
  /\ EachChange(phase, "unstage")
  /\ UNCHANGED <<dest, stage, rollback, local, raised, changed, outcome, base>>

\* _transaction_error, whose exit code does not depend on what was handled.
ReturnResidue ==
  Return(IF \E r \in residue : r.identity = Unknown THEN "unknown" ELSE "residue", "error")

Conclude ==
  /\ step = "conclude"
  /\ CASE residue # {} -> ReturnResidue /\ UNCHANGED changed
       [] residue = {} /\ phase = "abandon" -> Return("unchanged", raised) /\ UNCHANGED changed
       [] residue = {} /\ phase = "rollback" ->
            /\ IF changed = {} THEN Return("restored", raised) ELSE Return("unknown", "error")
            /\ UNCHANGED changed
       [] OTHER ->
            /\ GoTo(phase, "close", index) /\ UNCHANGED raised
            /\ outcome' = "applied" /\ changed' = Change
  /\ UNCHANGED <<files, local, residue, base>>

\* _close fails: the established outcome stands (lines 552-564).
Close ==
  /\ step = "close"
  /\ \E e \in {"none"} \cup Failures : Return(outcome, e)
  /\ UNCHANGED <<files, local, residue, changed, base>>

\* Where no except clause classifies SIGINT: between the guarded calls of the
\* cleanup and of the rollback (496, 339), before the first of them, and in the
\* handler of a failed restoration (343-353).
Unclassified ==
  \/ step \in {"unstage", "classify", "sweep", "cleanup", "remaining", "conclude"}
  \/ step \in {"quarantined", "restored", "unquarantine"} /\ Failures # {}

\* It escapes with what the rollback has done so far, and app.main reports an
\* interrupted operation with the outcome a RemekError has by default.
Interrupt ==
  /\ Interruptible
  /\ Unclassified
  /\ Return("unchanged", "interrupt")
  /\ UNCHANGED <<files, local, residue, changed, base>>

---------------------------------------------------------------------------
Step ==
  \/ Probe \/ Stage \/ Unstage
  \/ Recheck \/ Displace \/ Displaced \/ Install \/ Installed \/ Confirm \/ Verify
  \/ Classify \/ Quarantine \/ Quarantined \/ Restore \/ Restored
  \/ Settle \/ Unquarantine \/ RestorationFails \/ Sweep
  \/ Cleanup \/ Remaining \/ Conclude \/ Close \/ Interrupt

\* Another process leaves an object at a destination, or removes one.
ForeignWrite ==
  /\ step # "done"
  /\ \E c \in Change, o \in Foreign :
       /\ dest[c] # o
       /\ dest' = [dest EXCEPT ![c] = o]
       /\ base' = [base EXCEPT ![c] = o]
  /\ UNCHANGED <<stage, backup, rollback, control, local, raised, told>>

\* The call has returned.
Returned == step = "done" /\ UNCHANGED vars

Next == Step \/ ForeignWrite \/ Returned

Spec == Init /\ [][Next]_vars

---------------------------------------------------------------------------
(* Properties.                                                              *)

\* The variables hold what transaction.py's locals and names can hold.
FilesTyped ==
  /\ dest \in [Change -> Content] /\ base \in [Change -> Content]
  /\ stage \in [Change -> Content]
  /\ backup \in [Change -> Content]
  /\ rollback \in [Change -> Content]

ControlTyped ==
  /\ phase \in Phases /\ step \in Steps /\ index \in Change
  /\ seen \in Content /\ threw \in BOOLEAN /\ raised \in Raised

ToldTyped == residue \subseteq Residues /\ changed \subseteq Change /\ outcome \in Outcomes

TypeOK == FilesTyped /\ ControlTyped /\ ToldTyped

\* model.RemekError: 3 once anything may have changed, 130 for an interrupt.
ExitCode ==
  CASE raised = "none" -> 0
    [] raised # "none" /\ outcome \in {"applied", "residue", "unknown"} -> 3
    [] raised = "interrupt" /\ outcome \in {"unchanged", "restored"} -> 130
    [] OTHER -> 2

Clean == \A c \in Change : stage[c] = Absent /\ backup[c] = Absent /\ rollback[c] = Absent

\* What the exit code promises (docs/contracts.md:215-219): 0 means every
\* change is in place, 2 and 130 mean every destination is what it was before
\* the call, and none of the three leaves a private object behind.
ExitTruthful ==
  step = "done" =>
    /\ ExitCode = 0 => dest = After /\ Clean
    /\ ExitCode \in {2, 130} => dest = base /\ Clean

Reported(slot, c) == \E r \in residue : r.slot = slot /\ r.change = c

\* An object left at a private name is reported: every name, whatever failed.
\* With exit 130 there should be none, which is what ExitTruthful says.
ResidueComplete ==
  step = "done" /\ ExitCode # 130 =>
    \A c \in Change :
      /\ stage[c] # Absent => Reported("stage", c)
      /\ backup[c] # Absent => Reported("backup", c)
      /\ rollback[c] # Absent => Reported("rollback", c)

\* A destination that does not hold its preimage when the call raises is in
\* changedPaths or in the residue.
ChangeReported ==
  step = "done" /\ outcome # "applied" =>
    \A c \in Change : dest[c] # base[c] => c \in changed \/ Reported("dest", c)

\* Until the cleanup the planned preimage of every change exists, in place or
\* as a backup, whichever call fails and however far a removal got.
PriorNeverLost ==
  phase \in {"commit", "rollback"} =>
    \A c \in Change :
      base[c] = Expected[c] /\ Expected[c] # Absent => Expected[c] \in {dest[c], backup[c]}

\* Before the first public rename, and until its own turn comes, every object
\* of the plan lies complete beside its destination.
StagedBeforeReplace ==
  phase = "commit" /\ step # "verify" =>
    \A c \in Change :
      /\ HasStage(c)
      /\ c > index \/ (c = index /\ step \in {"displace", "displaced"}) \/ step = "recheck"
      => stage[c] = After[c]

\* SIGINT ended the call where nothing classifies it, or in its first checks.
Escaped == raised = "interrupt" /\ outcome = "unchanged"

\* A run in which only checks and calls of the commit fail, verification
\* included, ends with everything applied or everything restored and reports no
\* residue.  The exception is SIGINT where no clause classifies it: it can end
\* the rollback half way, and then every preimage is in place or at its backup
\* name.
FailedCommitRestores ==
  step = "done" =>
    /\ \/ \A c \in Change : dest[c] = After[c]
       \/ \A c \in Change : dest[c] = base[c]
       \/ Escaped /\ \A c \in Change : base[c] \in {Absent, dest[c], backup[c]}
    /\ outcome \in {"unchanged", "applied", "restored"}

\* Nothing another process left is deleted: it can disappear only under a
\* rename that takes its place, never by a removal.
Held(o) == \E c \in Change : o \in {dest[c], backup[c], rollback[c]}
ForeignNotRemoved ==
  [][\A o \in Foreign :
       /\ \A c \in Change : o \notin {Expected[c], After[c], Absent}
       /\ Held(o) /\ ~Held(o)' /\ base' = base
       => \E c \in Change : dest[c] = o /\ dest'[c] \notin {o, Absent}]_vars

\* The call implements the atomic mutation of AtomicMutation.tla.
Place(c) ==
  CASE dest[c] = Expected[c] -> "prior"
    [] dest[c] = After[c] -> "planned"
    [] dest[c] = Absent /\ Absent \notin {Expected[c], After[c]} -> "missing"
    [] OTHER -> "other"

Verdict ==
  CASE phase \in {"check", "stage", "abandon"} \/ step = "recheck" -> "unopened"
    [] phase = "commit" /\ step # "recheck" -> "open"
    [] phase = "rollback" -> "aborted"
    [] phase = "cleanup" /\ step # "close" -> "committed"
    [] OTHER -> "closed"

Abstract == INSTANCE AtomicMutation WITH
  place <- [c \in Change |-> Place(c)], verdict <- Verdict
ImplementsAtomicMutation == Abstract!Spec

=============================================================================
