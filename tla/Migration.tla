----------------------------- MODULE Migration -----------------------------
(***************************************************************************)
(* The v1 migration tool (tools/migrate_v1.py): it plans the conversion of *)
(* a private copy of a v1 repository (the rehearsal), saves the plan with  *)
(* a mapping of every old file, and applies it through apply_changes,      *)
(* which is Transaction, step by step.  The source, its archive, the       *)
(* rehearsal and the two saved documents belong to an owner who may change *)
(* them between any two readings; a command may be killed at any time.     *)
(*                                                                         *)
(* The rehearsal is a copy of one state of the source, Original: Expected  *)
(* is what it holds where the conversion changes something, After what the *)
(* conversion puts there.  A tree is one value, read at one instant as     *)
(* Snapshot shows; a digest stands for what it digests.  A rehearsal that  *)
(* is absent is one create change (N = 1) and is left out, and so is a     *)
(* second command beside the one that runs (Appliers).                     *)
(***************************************************************************)
EXTENDS Transaction

CONSTANTS
  Original, Revised,  \* the owned trees the source and the archive may have
  Reports,            \* what neighbours and Git say of the source
  None,               \* no document
  MaxMoves            \* bound on what the owner does

ASSUME NoneAssumption == None \notin Content

VARIABLES
  source, report,     \* the v1 repository: owned tree, everything beside it
  archive,            \* its verified backup
  documents,          \* the mapping and the plan, as saved
  litter,             \* private names of earlier calls beside the rehearsal
  command, at,        \* the command that runs, and what it does next
  loaded,             \* the plan document it loaded
  inventory,          \* what it has read of the source
  converting,         \* its plan has changes
  temporary,          \* its validation directory is left behind
  exit, reason,       \* how it ended
  before,             \* history: the rehearsal when it began
  moves,              \* how often the owner has acted
  quiet,              \* history: the owner has not acted since it began
  settled             \* history: nor since an apply has succeeded

legacy == <<source, report, archive>>
own == <<command, loaded, inventory, converting, temporary, before>>
ended == <<exit, reason>>
owner == <<moves, quiet, settled>>
all == <<vars, legacy, documents, litter, own, at, ended, owner>>

Commands == {"plan", "show", "apply"}
NoInventory == [tree |-> None, report |-> None]
Documents == [mapping |-> None, plan |-> None]

\* _owned_tree and _convert of a tree, as far as the conversion changes it: the
\* rehearsal holds nothing of another tree than the one it was copied from.
OwnedTree(tree) == [c \in Change |-> IF tree = Original THEN Expected[c] ELSE None]
Convert(tree) == [c \in Change |-> IF tree = Original THEN After[c] ELSE None]

Idle ==
  /\ command = "none" /\ loaded = None /\ inventory = NoInventory
  /\ converting = FALSE /\ temporary = FALSE /\ before = After
  /\ exit = 0 /\ reason = "none"

\* No call of apply_changes is under way.
NoCall(place) ==
  /\ dest = place /\ base = place
  /\ stage = [c \in Change |-> Absent]
  /\ backup = [c \in Change |-> Absent]
  /\ rollback = [c \in Change |-> Absent]
  /\ phase = "ended" /\ step = "done" /\ index = 1
  /\ seen = Absent /\ threw = FALSE
  /\ raised = "none" /\ residue = {} /\ changed = {} /\ outcome = "unchanged"

MigrationInit ==
  /\ NoCall(Expected)
  /\ source = Original /\ archive = Original /\ report \in Reports
  /\ documents = Documents /\ litter = FALSE
  /\ at = "idle" /\ Idle
  /\ moves = 0 /\ quiet = TRUE /\ settled = FALSE

-----------------------------------------------------------------------------
(* What every command reads: _conversion_plan *)

world == <<vars, legacy, documents, litter, owner>>

Exit(code, why) == at' = "exited" /\ exit' = code /\ reason' = why
GoOn(next) == at' = next /\ UNCHANGED ended
Check(condition, next, why) == IF condition THEN GoOn(next) ELSE Exit(2, why)

Begin(c) ==
  /\ at = "idle"
  /\ command' = c /\ at' = IF c = "plan" THEN "source" ELSE "load"
  /\ before' = dest /\ quiet' = TRUE
  /\ UNCHANGED <<vars, legacy, documents, litter, loaded, inventory, converting, temporary,
                 ended, moves, settled>>

\* load_operation_plan.
Load ==
  /\ at = "load"
  /\ loaded' = documents.plan
  /\ Check(documents.plan # None, "source", "no plan")
  /\ UNCHANGED <<world, command, inventory, converting, temporary, before>>

\* _owned_tree of the source; then its neighbours and its Git state.
ReadSource ==
  /\ at = "source"
  /\ inventory' = [inventory EXCEPT !.tree = source]
  /\ GoOn("report")
  /\ UNCHANGED <<world, command, loaded, converting, temporary, before>>

ReadReport ==
  /\ at = "report"
  /\ inventory' = [inventory EXCEPT !.report = report]
  /\ GoOn("archive")
  /\ UNCHANGED <<world, command, loaded, converting, temporary, before>>

\* Slip: the archive need only be there.
ArchivePresent == TRUE

Archived == archive = inventory.tree

VerifyArchive ==
  /\ at = "archive"
  /\ Check(Archived, "target", "archive")
  /\ UNCHANGED <<world, own>>

\* Only the exact v1 rehearsal is converted, and only its complete conversion
\* is left as it is; private names of a transaction stop the command.
ReadTarget ==
  /\ at = "target"
  /\ converting' = (dest = OwnedTree(inventory.tree))
  /\ IF litter THEN Exit(2, "residue")
     ELSE Check(dest \in {OwnedTree(inventory.tree), Convert(inventory.tree)},
                IF command = "plan" THEN "output" ELSE "reconstruct", "target")
  /\ UNCHANGED <<world, command, loaded, inventory, temporary, before>>

-----------------------------------------------------------------------------
(* main: plan and show *)

\* A plan without changes is not saved.
CheckOutput ==
  /\ at = "output"
  /\ IF converting THEN Check(documents = Documents, "save mapping", "output")
     ELSE GoOn("flush")
  /\ UNCHANGED <<world, own>>

\* write_artifact saves, fails and leaves nothing, or cannot tell (Artifact).
Save(name, next) ==
  /\ \/ GoOn(next) /\ documents' = [documents EXCEPT ![name] = inventory]
     \/ \E code \in {2, 130} : Exit(code, "failed") /\ UNCHANGED documents
     \/ /\ Exit(3, "failed")
        /\ documents' \in {documents, [documents EXCEPT ![name] = inventory]}
  /\ UNCHANGED <<vars, legacy, litter, own, owner>>

SaveMapping == at = "save mapping" /\ Save("mapping", "save plan")
SavePlan == at = "save plan" /\ Save("plan", "flush")

\* Slip: a plan is good for one apply only.
AcceptedOnce == loaded = inventory /\ converting

\* _reconstruct: the saved plan is the one computed now, or differs from it
\* only because no change is left to make.
Accepted == loaded = inventory

Reconstruct ==
  /\ at = "reconstruct"
  /\ Check(Accepted, "mapping", "stale")
  /\ UNCHANGED <<world, own>>

ReadMapping ==
  /\ at = "mapping"
  /\ Check(documents.mapping = inventory,
           IF command = "show" THEN "flush" ELSE "prevalidate", "mapping")
  /\ UNCHANGED <<world, own>>

-----------------------------------------------------------------------------
(* main: apply *)

\* _prevalidate writes the conversion into a private directory, checks it
\* there and removes it; it fails, or its removal does.
Prevalidate ==
  /\ at = "prevalidate"
  /\ \/ GoOn("apply") /\ UNCHANGED temporary
     \/ \E code \in {2, 130} : Exit(code, "failed") /\ UNCHANGED temporary
     \/ Exit(3, "failed") /\ temporary' \in BOOLEAN
  /\ UNCHANGED <<world, command, loaded, inventory, converting, before>>

\* apply_changes is called, and returns at once when there is no change.
Apply ==
  /\ at = "apply"
  /\ GoOn(IF converting THEN "transaction" ELSE "result")
  /\ IF converting
     THEN /\ base' = dest /\ GoTo("check", "probe", 1)
          /\ raised' = "none" /\ outcome' = "none"
          /\ UNCHANGED <<files, local, residue, changed>>
     ELSE UNCHANGED vars
  /\ UNCHANGED <<legacy, documents, litter, own, owner>>

Mutate ==
  /\ at = "transaction"
  /\ Step
  /\ UNCHANGED <<legacy, documents, litter, own, at, ended, owner>>

MutationEnds ==
  /\ at = "transaction" /\ step = "done"
  /\ IF raised = "none" THEN GoOn("result") ELSE Exit(ExitCode, "failed")
  /\ UNCHANGED <<world, own>>

\* Slip: a command that fails exits with the code of what it caught.
CodeOfError(code) == code

\* What main returns after the transaction.
ExitAfter(code) == IF converting /\ outcome = "applied" THEN 3 ELSE code

\* _verify_result: the inspection of the rehearsal finds no errors.
VerifyResult ==
  /\ at = "result"
  /\ \/ GoOn("flush")
     \/ \E code \in {2, 130} : Exit(ExitAfter(code), "failed")
  /\ UNCHANGED <<world, own>>

\* The result is printed and flushed.
Flush ==
  /\ at = "flush"
  /\ \/ Exit(0, "none") /\ settled' = (settled \/ (command = "apply" /\ quiet))
     \/ \E code \in {2, 130} : Exit(ExitAfter(code), "failed") /\ UNCHANGED settled
  /\ UNCHANGED <<vars, legacy, documents, litter, own, moves, quiet>>

\* What a command leaves to the next: the rehearsal, and its private names.
Leave ==
  /\ litter' = (litter \/ ~Clean)
  /\ base' = dest
  /\ stage' = [c \in Change |-> Absent]
  /\ backup' = [c \in Change |-> Absent]
  /\ rollback' = [c \in Change |-> Absent]
  /\ GoTo("ended", "done", 1)
  /\ seen' = Absent /\ threw' = FALSE
  /\ raised' = "none" /\ residue' = {} /\ changed' = {} /\ outcome' = "unchanged"
  /\ at' = "idle" /\ command' = "none" /\ loaded' = None /\ inventory' = NoInventory
  /\ converting' = FALSE /\ temporary' = FALSE /\ before' = After
  /\ exit' = 0 /\ reason' = "none"
  /\ UNCHANGED <<dest, legacy, documents, owner>>

Exits == at = "exited" /\ Leave
Killed == at \notin {"idle", "exited"} /\ Leave

-----------------------------------------------------------------------------
(* The owner, between any two steps but those of the transaction (whose    *)
(* races TransactionForeign checks)                                        *)

Act ==
  /\ moves < MaxMoves /\ at \notin {"transaction", "exited"}
  /\ moves' = moves + 1 /\ quiet' = FALSE /\ settled' = FALSE
  /\ UNCHANGED <<stage, backup, rollback, control, local, raised, told, own, at, ended>>

Revise ==
  /\ \/ source' \in {Original, Revised} \ {source} /\ UNCHANGED <<report, archive>>
     \/ report' \in Reports \ {report} /\ UNCHANGED <<source, archive>>
     \/ archive' \in {Original, Revised} \ {archive} /\ UNCHANGED <<source, report>>
  /\ Act /\ UNCHANGED <<dest, base, documents, litter>>

Discard ==
  /\ \E name \in {"mapping", "plan"} :
       documents[name] # None /\ documents' = [documents EXCEPT ![name] = None]
  /\ Act /\ UNCHANGED <<dest, base, legacy, litter>>

Tamper(c, o) ==
  /\ o # dest[c]
  /\ dest' = [dest EXCEPT ![c] = o] /\ base' = dest'
  /\ Act /\ UNCHANGED <<legacy, documents, litter>>

\* The rehearsal is copied again.
Rehearse ==
  /\ dest # Expected \/ litter
  /\ dest' = Expected /\ base' = dest' /\ litter' = FALSE
  /\ Act /\ UNCHANGED <<legacy, documents>>

Own == Revise \/ Discard \/ Rehearse \/ \E c \in Change, o \in Objects \cup {Absent} : Tamper(c, o)

Work ==
  \/ Load \/ ReadSource \/ ReadReport \/ VerifyArchive \/ ReadTarget
  \/ CheckOutput \/ SaveMapping \/ SavePlan \/ Reconstruct \/ ReadMapping
  \/ Prevalidate \/ Apply \/ Mutate \/ MutationEnds \/ VerifyResult \/ Flush \/ Exits

MigrationNext ==
  \/ \E c \in Commands : Begin(c)
  \/ Work \/ Killed \/ Own

\* A command that is scheduled takes its next step; nobody has to start one.
MigrationSpec == MigrationInit /\ [][MigrationNext]_all /\ WF_all(Work)

-----------------------------------------------------------------------------

\* What an undisturbed command says at its exit is so: 0 from apply means that
\* the whole conversion is in place and no private name is left, now or from an
\* earlier call; 2 means that the rehearsal is what it was and nothing is left
\* beside it or in the validation directory; and only apply changes it (main,
\* "changed={...}"; docs/contracts.md, "Exits").
MigrationTells ==
  at = "exited" /\ quiet =>
    /\ exit = 0 /\ command = "apply" => dest = After /\ Clean /\ ~litter
    /\ exit = 2 \/ command # "apply" => dest = before /\ Clean /\ ~temporary

\* While the rehearsal is replaced, the archive holds what it held, and the
\* mapping the owner has read is the one of this source (_conversion_plan,
\* "archive preserved"; main, "private mapping report is missing or changed").
UnderBackup ==
  at = "transaction" /\ phase = "commit" /\ quiet =>
    /\ source = Original /\ archive = Original
    /\ documents.mapping = [tree |-> Original, report |-> report]
    /\ documents.plan = documents.mapping

\* An apply that has succeeded may be repeated: until the owner changes
\* something no command is refused, whatever was killed since (_reconstruct,
\* "No changes.").
RerunAccepted == at = "exited" /\ settled => reason \in {"none", "failed"}

\* Every command ends.
CommandEnds == (at # "idle") ~> (at = "idle")
=============================================================================
