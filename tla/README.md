# Verification of remek

remek is a command-line program that governs and releases Agent Skills kept in a
repository. A command *plans* (reads everything, computes the exact changes and
saves them as an operation plan), the owner reads the plan, and `remek apply`
*applies* it: the plan is recomputed, compared with the saved one, and its changes
are installed by one transaction. This directory holds TLA+ models of that program,
the TLC runs that check them and proofs that TLAPS checks. Line numbers refer to
`src/skills/remek/toolchain/runtime/remek_core/` unless a path is given.

## 1. Inventory

| Component | State it keeps | Operations | Interacts with |
|---|---|---|---|
| transaction (`transaction.py`) | destinations; private stage, backup and rollback names beside them; residue list | `apply_changes`: probe, stage, recheck, two renames per change, verify callback, cleanup or rollback | filesystem primitives; called by `app._apply_result`; other processes share the destinations |
| filesystem (`filesystem.py`) | descriptors; artifact and its private name | no-follow reads and writes, `remove_at`, twice-read `snapshot_tree`, no-clobber `write_artifact`, `read_artifact` | everything |
| plans (`plans.py`) | a saved plan: inputs, bindings, changes, digest | build document, load, reconstruct, verify, validate output path | workflows (recomputed plan), artifacts |
| workflows (`workflows.py`) | none of its own; reads the repository, sources, mirrors and Git | `init`, `eval-record`, `review-record`, `update`, `release` plans; `release-verify`; external commands | inspection, review, evaluation, transaction |
| evaluation (`evaluation.py`) | reports (immutable records) | validate a report, its status against the current evaluation plan | inspection |
| review (`review.py`) | reviews (immutable records), active-review pointer of a distribution | context, template, validation, status, readiness findings | evaluation, inspection |
| inspection (`repository.py`) | a picture of the repository | `inspect`, `check`, `audit`, disclosure matches | every workflow |
| command line (`app.py`, `model.py`) | result of the command | dispatch, apply, redact, render, fallback output, exit code | all of the above |
| operator capture (`workflows.py:735`) | a child process and its pipes | lookup on PATH, bounded run: time limit, output limit, kill of the child (not of its descendants) | release, `init` and staging through git and gh |
| contract, frontmatter | none | canonical JSON, YAML subset | every reader and writer |
| entrypoint (`scripts/cli.py`, twice) | pins of the shim; toolchain inventory | pin, inventory, inventory again, import | `app.main` |
| v1 migration tool (`src/tools/migrate_v1.py`) | mapping and plan documents; a rehearsal; an archive | `plan`, `show`, `apply` | transaction, artifacts, Git |
| maintainer tools (`src/tools`) | none | build steps | none |

What makes it hard:

* **Partial failure.** Any system call may fail after it took effect; a rollback is
  itself made of calls that fail; what cannot be undone has to be named.
* **Interleaving.** Nothing locks a repository: two `remek apply`, an editor and a
  shell may write the same files between any two calls.
* **Staleness.** A plan is verified, then applied; a review is current only as long as
  selection, declarations, policy and the evidence set are those it saw. A tree, a
  toolchain, a source and a mirror are read file by file and query by query while their
  owner edits, commits and switches them.
* **Protocol sequences.** Evidence revokes reviews, reviews replace each other, the
  owner edits and reverts; a deleted report must not revive a review.
* **Interrupts and kills.** SIGINT may arrive anywhere, also where no handler classifies
  it; a process may be killed between two steps and its command run again.
* **Waiting.** A child may never exit, or exit while a descendant keeps its pipes open.

What would make each component correct: the *transaction* leaves everything applied
or everything as it was, or says exactly what it left; *artifacts* are never replaced
and are reported saved exactly when they are; a *plan* that is applied is the one that
was reviewed; a distribution is *ready* only under a review of exactly its present
subject and evidence; a *release* contains what was reviewed and descends from the
release before it; the *exit code* never contradicts the state on disk; a *capture*
returns, and leaves a child behind only where it cannot be killed.

## 2. Modules

| Component | Module | Composed by | Proofs |
|---|---|---|---|
| transaction | `Transaction`, abstract specification `AtomicMutation` | `Appliers` (two of them), `Migration` (step by step), `Governance`, `Release` and `Command` (by its outcomes) | `TransactionProofs`, `OutcomeProofs`, `AppliersProofs` |
| governance | `Governance` | | `GovernanceProofs` |
| twice-read tree | `Snapshot` | `Release`, `Governance` and `Migration` take a tree as one value on its account | `SnapshotProofs` |
| release and verify | `Release` | | `ReleaseProofs` |
| entrypoint | `Launch` | `Command` | `CommandProofs` |
| git and gh | `Capture` | `Command` | `CommandProofs` |
| saved plan | `Artifact` | `Command` | `CommandProofs` |
| result, output and exit code | `Delivery` | `Command` | `CommandProofs` |
| v1 migration tool | `Migration` | | `MigrationProofs` |

`MC...` modules give the constants of a module their values. A definition marked "slip"
is a plausible mistake in the code that no action uses: it shows which mistake a property
would find.

Every invariant and action property that a run checks is stated by a theorem; section 10
says under which hypotheses, and what stays with TLC.

## 3. Transaction

`Transaction.tla` is one call of `apply_changes`. A step is one operating-system call
on a public name. What happens only at the call's private names is merged into the
neighbouring step, since these names carry a fresh random token (line 420).
`phase` is the block of the function that runs, `step` the call that comes next and
`index` the loop variable; `dest`, `stage`, `backup`, `rollback` hold the identity
`fingerprint_at` would compute. `Broken` is the identity of a half-written or
half-removed tree. Calls in the phases named by `Faults` may fail, with an error or
with KeyboardInterrupt, before or after their effect: SIGINT inside a call that an
except clause guards is one of its failures. `Interruptible` adds SIGINT where no clause
classifies it (`Unclassified`): between the guarded calls of the cleanup and of the
rollback, before the first of them (339, 495-496), and in the handler of a restoration
that failed. It escapes with what the rollback has done so far, and `app.main` reports
exit 130 and "unchanged". `Foreign` is what other processes may write.

Every conditional of the function is one of the actions; the paragraph headings of the
module name the lines. Left out: validation of overlapping destinations (line 134),
descriptors, and the probes that find a fresh private name occupied.

`AtomicMutation.tla` says what an observer of the destinations and of the outcome may
rely on; `ImplementsAtomicMutation` maps the engine to it (a destination is `prior`,
`missing`, `planned` or `other`; the verdict follows the phase).

`Appliers.tla` instantiates the engine twice over the same destinations.

### Runs

| Run | Question | Bounds |
|---|---|---|
| TransactionFaults | with every fault in every phase, are exit code, residue and changed paths true, and is the abstract mutation implemented? | 2 changes (an update and a create); all initial destinations; SIGINT inside the guarded calls; 453,609 states |
| TransactionForeign | writers outside the call, and SIGINT where no clause classifies it: is everything left named, is nothing of theirs removed? | 2 changes, 4 foreign contents, no failing calls; 1,069,139 states |
| TransactionSigint | does the exit code survive SIGINT? It does not (finding 1) | 1 change |
| AppliersDifferent | two plans for the same files: one winner, and it keeps its objects? | 2 changes each |
| AppliersSamePlan | one create plan applied twice at once (finding 2) | 1 change |

Two changes are enough to have one finished, one in progress and one not begun at every
point of the loops; the Migration run (section 8) has four, and there the engine is also
shown to return, with all applied or all restored, when only checks and the commit fail
and no unclassified SIGINT ends the rollback half way.
Three changes (update, create, delete) with every fault are too many states for a regular
run; what TransactionFaults checks is proved below for plans of any length.

`ResidueComplete` is about the calls that list a residue. Exit 130 lists none; that
there is none is part of `ExitTruthful`, and untrue under SIGINT (finding 1).

`FailedCommitRestores` names the same exception (`Escaped`): SIGINT between two guarded
calls of the rollback leaves some changes restored and others in place, reported as
"unchanged". What holds then is that every preimage is at its destination or at its
backup name. SIGINT inside a guarded call of the rollback is a failure of that call, and
the property is about runs in which the rollback's calls do not fail; what holds when
they do is `ExitTruthful`, `ChangeReported` and `ResidueComplete` of TransactionFaults.

### Findings

1. *SIGINT after the commit reports an unchanged repository.* The cleanup loop
   (528-543) and the except blocks run outside any clause that classifies a
   KeyboardInterrupt. It escapes `apply_changes`, and `app.main` (786) reports exit 130
   and outcome "unchanged" with the plan applied and backups left behind. Between two
   guarded calls of the rollback (339) the same escape leaves a mixture.
   `docs/contracts.md:217-219` promises that 130 is an "interruption with unchanged or
   fully restored state".
2. *A losing applier removes the winner's object.* When two processes apply the same
   create plan, the loser's rollback (274) recognises its own objects by content only:
   it quarantines and removes what the winner installed, and reports the prior state
   restored. `docs/threat-model.md:19-20` promises to "preserve foreign race winners";
   `README.md:129-131` limits the guarantee to cooperating writers, and another remek is
   one.

`ForeignNotRemoved` allows one way in which an outside object disappears:
`os.replace` (483, 293) takes the place of an object created after the last probe.
README.md:129-131 excludes writers that do not cooperate, so this is no finding.

### Proofs

`TransactionProofs.tla` proves, for plans of any length, any set of failing phases and
with `Interruptible` either way, from the named assumptions of `Transaction`
(`NAssumption`, `PlanAssumption`, `IdentityAssumption`):

* `TypeCorrect`: the type invariant, one step per action, one leaf per group of
  variables (files, control, told).
* `StagingPrecedesCommit`: `StagedBeforeReplace`, whatever other processes write. It is
  not inductive: the strengthening `StagedInv` adds that each phase has its own steps
  (`InPhase`) and that the staging loop has staged what it passed (`StagedSoFar`).
* `PriorKept`: `PriorNeverLost` when no other process writes (`Foreign = {}`). The
  strengthening `PriorInv` adds that a destination not yet displaced is untouched, that
  a name is installed over only with its preimage as backup, and that what the rollback
  decides on (`seen`) is what lies at the destination.

`PlanAssumption` says that no change has equal identities before and after. The
workflows drop such changes (`workflows._one`, `_owned_write`); `apply_changes` itself
would accept one, and on rollback quarantine and remove its preimage.

`OutcomeProofs.tla` goes on from there, with plans of any length and any failing phases:

* `ResidueIsNamed` (`ResidueComplete`), whatever other processes write and with
  `Interruptible` either way. The invariant `ResidueInv` says which names a change can
  have an object at in which phase (`Placed`), and that the loops over stages, backups and
  rollback copies have named what they passed and could not remove (`StagesAccounted`,
  `BackupsAccounted`). The residue only grows, so what is named stays named.
* `ExitCodeIsTrue` (`ExitTruthful`) and `ChangesAreReported` (`ChangeReported`), from two
  assumptions: no other process writes (`Foreign = {}`) and SIGINT is raised in a guarded
  call (`~Interruptible`). Findings 1 and 2 show that neither can be dropped. The invariant
  `OutcomeInv` adds that a plan past its first check was not stale (`Fresh`), what each
  loop has moved (`Moved`), that the last look has told of every destination that differs
  (`Looked`), and that a handler has an exception to classify (`Raising`).
* `IsAtomicMutation` (`ImplementsAtomicMutation`), from the same assumptions: the
  refinement itself. The invariant `AtomicInv` joins the three above and adds that a change
  is installed with a free name and a complete object (`ReadyToInstall`). Then every step
  maps to a step of `AtomicMutation` or to a stutter: most move no destination, the two
  renames move one, the last one fixes the verdict.
* `FailedCommitsRestore` (`FailedCommitRestores`), when no other process writes and only
  checks and the commit fail (`Faults \subseteq {"check", "commit"}`), with
  `Interruptible` either way. The invariant `RestoreInv` says that from the first
  displacement to the end of the rollback each change is untouched, displaced with its
  preimage at the backup name, or in place (`AtPrior`, `Vacant`, `InPlace`), so that the
  rollback can always take it back (`Recoverable`), and that there is no residue to tell
  before the end (`NothingTold`). From `Recoverable` follows what the exception of the
  property promises when an unclassified SIGINT escapes (`InterruptRestores`).
* `ForeignKept` (`ForeignNotRemoved`), whatever other processes write and with
  `Interruptible` either way. `StepMoves` lists what a step can do to the objects of one
  change: leave them, set the preimage aside, put the staged object in, take out what is
  not wanted, put back, drop a backup or a rollback copy. A drop removes only what
  `remove_expected` recognised, and `PrivateInv` and `Sourced` say where an object of
  somebody else can be: where it was written, or at a private name to which a rename took
  it.

`AppliersProofs.tla` takes the lemmas of `OutcomeProofs` twice, one instance for each call
(`P1`, `P2`), for plans of any length and any failing phases, from `PlansAssumption` and
`IdentitiesAssumption`:

* `OnlyOneApplies` (`OneWinner`, and the same for equal plans), if the plans update or
  delete at least one file (`Replaced`). The preimage of such a change is a token: at each
  moment at most one of the destination and the four private names of the two calls holds
  it, only the call that holds it as its backup can remove it, and a call that reports
  success has removed it (`TokenInv`).
* `WinnersAreKept` (`WinnerKept`), if every change updates or deletes. `KeptInv` follows the
  object of a call that owns the preimage (`Owns`): it is in place, or the other call has
  moved it to a private name that it must put back or report (`KeptHere`, `Decided`).

The hypotheses are needed, and TLC shows it: a create has no preimage to lose, so two calls
that create one file can both report success, the second over the object of the first
(`os.replace`, as above), and the loser of two equal creates removes the winner's object,
which is finding 2. Of plans that only create, neither property is claimed.

## 4. Governance

`Governance.tla` is one repository: `candidate` (the files of a skill, with its record
and cases), `declared` (what a distribution file says apart from its pointer),
`evidence`, `reviews`, and `active`, the `activeReview` pointer. The operators above the
actions are the functions of `repository.py` and `review.py`: `EvaluationPlan`,
`RelevantEvidence`, `ReviewContext`, `ValidateReview`, `ReviewIsCurrent`
(`review_status`), `Ready` (`release_findings` reports no error). A digest is modelled by
what it digests, so two contexts are equal exactly when their subjects are.

A process runs `remek apply` on a saved eval-record or review-record plan as
`_apply_result` does. `VerifyEvalRecord` and `VerifyReviewRecord` recompute the plan:
`verify_operation_plan` refuses a saved plan that differs, and a plan binds everything
it was computed from (`_source_bindings`), so a verified plan is the plan of the
repository at that moment. `Install` is the commit of the transaction, one step because
`Transaction` implements `AtomicMutation`; it needs every preimage unchanged (`Fresh`).
`Confirm` and `RollBack` are the two results of the callback `verify()`. It inspects the
repository again and drops the finding `transaction.residue` (app.py:236-240), so it asks
for less than readiness (`Damaged` where a plan asks for `Blocked`). The final check
(263-278) changes no state: it sets the status that is reported. `Refuse` is a
stale plan, found before staging or after; in the second case the rollback takes
identical objects of another process for its own (`TakeAway`, finding 2), and a
distribution file taken this way stays under a private name (`Lost`).
The owner edits candidates and declarations, reverts them, and deletes records at any
time. `unreviewed` is a history variable.

Abstracted: rights, exposure, licenses and disclosure entries are fixed and in order; a
review's free text is left out; the parent directories of records exist; byte bounds are
left out and the count bound (`MAX_RECORDS`) is kept. The owner does not edit the pointer
by hand or restore it from Git: these are explicit acts that no promise is about. Nothing
brings a `Lost` file back, so the repository stays blocked: GovernanceRace turns deadlock
checking off for this reason.

| Run | Question | Bounds |
|---|---|---|
| Governance | one process and the owner: does no review that predates the evidence make a distribution ready, whatever is edited, reverted or deleted? Does an apply take readiness from a distribution it is not about? | 1 skill in one of 2 distributions (the other is empty and still needs a review), 2 candidate versions with different descriptions, 2 declarations (with and without a routing slot), 2 reports per skill, 1 review kept; 186,672 states |
| GovernanceRace | two processes whose plans were verified before the other installed: does the record bound survive? | 1 skill, 1 distribution, 2 reports, 1 review; 1,681,829 states |
| GovernanceRevival | does the promise about deleted reports survive two processes? It does not (finding 3) | as GovernanceRace |

Two versions and two declarations are enough for an edit and its revert; two reports for
one that a review has seen and one it has not. With one declaration and three
reports (177,364 states), or with the skill in both distributions (803,568 states), TLC
finds no more.
These runs assume no fairness.

`OthersStayReady` is the other side of `NoRevival`: recording evidence withdraws the
reviews it concerns and no others, whatever the owner edits between verification,
installation and rollback. Its mutant clears every pointer. The exception for a
repository that is left `Blocked` is real: a rollback may put back a pointer to a review
that was deleted meanwhile.

That stale reviews are cleared as well matters: if `eval_record_plan` cleared only
reviews that are current, the owner could delete a report, record two (the review is
stale each time), delete the new one and have the old review back. The mutants of
`NoRevival` and `RecordingNeverReadies` make this slip.

3. *An eval-record that loses a race leaves the review in force.* `eval_record_plan` adds
   a pointer change only for distributions whose pointer is set when the plan is
   recomputed (617-636). If another process applies a review-record before the
   transaction starts, the distribution file is no preimage of the eval-record plan: the
   report is recorded and the pointer stays. The review is then stale, and deleting the
   report makes it current again. `docs/design.md:48-50` says: "Recording new relevant
   evidence and clearing affected pointers is one transaction" and "Deleting the newly
   recorded report cannot silently restore an active review."

### Proofs

`GovernanceProofs.tla`, from `GovernanceAssumption`, for any skills, distributions,
declarations, policies and records.

For any number of processes:

* `TypesAreKept`: `TypeOK`. It is not inductive, since what is installed comes from a plan
  and what a rollback puts back comes from what the plan had seen; `TypeInv` adds that both
  are reports, documents and pointers to a document of the same distribution (`PlanTyped`,
  `PointerOf`).
* `OthersKeepReadiness`: `OthersStayReady`. A pointer moved, put back or taken away, and
  a report that counts, belong to a distribution the plan addresses (`KeepsTo`,
  `ConcernsCover`); the context of any other is what it was (`UnaddressedSame`).
* `BoundIsKept`: the invariant (`BoundInv`) is that the evidence no unfinished apply has
  put there stays within the bound. Plans that were each verified within it can exceed it
  together while they are installed; each then ends by finding the count right or by
  taking its own report away.

For one process at a time (`OneProcess`; finding 3 shows that two are too many):

* `EvidenceRevokes` (`NoRevival`): a distribution with evidence no review has seen has no
  pointer. The strengthening `PlanFits` follows the pointers through a plan: what it
  moves, what it would put back, and that a distribution it concerns and does not move
  has no pointer anyway.
* `RecordingRevokes` (`RecordingNeverReadies`): a report can only ever count for the
  distributions its plan concerns (`RecordsEvidence`), whatever the owner edits between
  verification and installation.
* `DeletionRevivesNothing` (`DeletionNeverReadies`): every review in force, and every
  review that installing or rolling back may put in force, saw every record that counts
  for the candidates it saw (`InformedInv`). So if a deletion made a review current, the
  deleted record would not have counted. The record bound is needed as well: deleting a
  record of too many would unblock the repository.

## 5. Snapshot

`Snapshot.tla` is `snapshot_tree` (filesystem.py:458): the tree is read twice, one
listing or file at a time, while others write, add and remove files, and is returned if
both readings and the times of the root agree. A read of one file checks itself
(`_read_at`), so a file is read at one instant or refused (`Overlapped`).

`InstantRead`: what is returned was the whole tree at one instant, the one between the
two readings. The exception is written into the property: a file put back to a content it
had had, by a write that leaves the times of the root alone. Run *Snapshot* (one file in
the root, one below it, two contents and absence, four writes: 746,326 states) has writes
enough to change each file between its two readings and to put it back.

`SnapshotProofs.tla` proves `ReadsAnInstant` for any files, contents and number of
writes: a file whose two readings agree held that content in between as well, or else it
went back to it after a change, which the times of the root or `reverted` show.

## 6. Release

`Release.tla` is the release workflow and `release verify`: `work`, `source`, `sourceAt`
are the source's files, commits and HEAD, `site`, `mirror`, `mirrorAt` those of the
mirror, `staging` the staging directory. A command is a sequence of queries in the order
of the code, each one step (`step`), and the owner may edit, approve, commit, amend,
switch branches, redirect the remote or tamper with the mirror between any two of them
(`MaxMoves`).

Git and the disk are two things. `git status --untracked-files=all` (1101-1110) does not
report what an ignore rule hides or what Git translates (line endings; `_guard_git_attributes`
refuses filters only), and a commit holds what Git takes the files for, while `_commit_paths`
(1500-1508) and the payload checks read the disk. `Unreported` is the set of pairs of what
is on the disk and what is committed that are no difference to Git, a constant of any value:
`Agrees` is what `git status` calls clean (`SourceClean`, `MirrorClean`), and a commit may
hold anything that agrees with the files (`CommitSource`, `CommitMirror`, `Amend`). The raw
comparison with HEAD (`SourceHeadHolds`, `FilesHold`) sees the difference. A skill is one
value, so which of its files are ignored is not told apart; governance files, the manifest
and the mirror's other files are taken to be as Git sees them.

The release plan is recomputed by apply, so planning alone, which writes
nothing, is that computation; a plan that differs from the saved one is refused
(`Differs`).

| Property | Says |
|---|---|
| `PayloadIsCommitted` | whoever does what while a release is planned and installed, every skill a manifest declares is what the source commit it names holds |
| `VerifiedIsReviewed` | a verify that nobody disturbs succeeds only on one commit over the planned HEAD, with exactly the reviewed members and a lineage of one audience and target |
| `PreparedReleaseVerifies` | a release applied and committed undisturbed verifies, with the two exceptions below |

Run *Release* (2,053,255 states): two skills, three versions, of which one has a file that
Git ignores and one is ignored as a whole, three policies (private, public, and private for
another target), four source commits, the first under the other target, five histories of
the mirror (fresh, with an unmanaged skill, with an earlier release, with a release for the
other target, full), history limit 2 in place of 256, two moves of the owner. The limit is
small so that a history reaches it. Two moves are enough for a change between two queries
and its reversal. Each clause of the properties is reached: TLC finds a violation when the
lineage of targets is not checked, and when one of the exceptions is dropped.

What the properties leave out on purpose:

* A plan is made on a history that is full, and its own manifest is one too many
  (workflows.py:1157): such a release does not verify. No text promises that it does, so
  `PreparedReleaseVerifies` excludes it.
* Skills with an ignored file may be adopted: the plan compares with the disk, its
  `expectedCommitPaths` name what no commit will show, and `_release_commit` (1894) refuses
  the commit later. Likewise a commit in which line endings were translated is refused by
  `_mirror_head` (1462). So the property is about releases that replace a payload as Git
  holds it (`Confirm`) and are committed as they were made (`CommitMirror`).
  `docs/contracts.md:158-161` speaks of the exact expected commit paths and does not say
  that every adoption can be committed, so this is no finding.
* `release_verify` reports a mirror HEAD it read earlier than the one `_release_commit`
  checks, and `_source_head` reads `.remek` again. Both matter only when somebody
  disturbs the command, so `VerifiedIsReviewed` asks for `quiet`.

`ReleaseProofs.tla` proves, from the named assumptions of `Release` (types of histories
and policies; a mirror starts with manifests of committed sources and with parents before
their children; no skill has the name of something else in the mirror, and no target is the
mark of a query that was not made):

* `PayloadsAreCommitted`, by `ReleaseInv`: types, the picture equals the commit once
  `_source_head` has compared them (`PictureCommitted`), and every manifest anywhere
  (mirror commits, files, staging, plan, rollback) declares committed skills. A commit of
  the source is never changed, only added to, so what was declared stays so.
* `VerifiedReleasesAreReviewed`, by `VerifyInv`: each query of a verify establishes one
  fact (`Established`), which stays while nothing is written, and the final computation
  of the manifest combines them.
* `PreparedReleasesVerify`, by `PreparedInv`, for any `Unreported` (`GitAssumption`).
  While the source is quiet each step knows what the queries before it have read
  (`Known`). An undisturbed release in the making is over the HEAD of the mirror and
  describes the reviewed source (`Making`); once it has been applied, and then committed,
  it stands in the mirror's files and HEAD (`Standing`), and from `Known` and `Standing`
  no query of a verify finds anything to refuse but a history that is full. The ancestors
  of a commit are the least set that holds the commit and the parents of what it holds, so
  that a new commit is reasoned about without induction (`AncestorsOfNext`).

## 7. Command

`Command.tla` is one command of remek from its start to its exit. `Launch` is the shim
that pins the toolchain and the entrypoint that inventories it twice and imports it;
`Capture` a query of git or gh: the lookup on PATH, an entry at a time, the child, its
pipes and a descendant that may hold them, the output limit, the deadline, kill and reap;
`Artifact` the save of a plan through a private stage and a hard link, beside a meddler
and a reader; `Delivery` the result through redaction, rendering, a stream that may break
and the fallback. A command that applies takes one of the outcomes of `Transaction`
(`Left`).

| Property | Says |
|---|---|
| `LaunchIsWhole` | what is inventoried was one whole toolchain at one instant; what is imported is what was inventoried, but for modules written after their second reading; undisturbed, both are the pinned toolchain |
| `CaptureIsWhole` | a query that succeeds has all that anybody wrote to both pipes |
| `NoRunawayChild` | a query leaves its child running only where the kill was denied, or where SIGINT came while the child was started or before the kill |
| `LookupsAgree` | the PATH given to the child leads to the executable remek chose |
| `NoClobber` | a file somebody else put at the plan's name is never replaced |
| `SaveTruthful` | saved means saved; refused or interrupted leaves nothing; an error names what is left |
| `ReadIsSettled` | a reader accepts a plan only after its last write, with the stage gone |
| `ExitTells`, `LastWordTruthful` | the exit status, and the last text that was written, agree with what is left |
| `Ends` | every command ends |

Run *Command* (196,847 states): two modules and three versions, two writes while remek
starts, PATHs of two directories of every kind (a tool that is absent, not executable or
unsafe to run; a directory inside the selected root, missing or relative), pipes of up to
three chunks with a limit of three, three acts of the meddler. The deadline may expire at
any time.
Deadlock is not checked, since a command stops when it has exited.

Fairness: remek is scheduled (weak fairness of its own steps) and the clock of a query
runs. Nothing is assumed of children, descendants, meddlers or readers: that a child
which never exits, or a pipe that is never closed, cannot hold a command is what the
deadline and the kill are for.

Boundaries of the model:

* Launch: the shim compares manifest and entrypoint, one after the other, and starts the
  entrypoint, which reads the manifest again. A toolchain replaced as a whole in between is
  accepted although the shim does not pin it; the property promises the pin only to an
  undisturbed start. A module written after its second reading is imported as it then is:
  the code compares nothing again, so what runs can be a mixture, and the property excepts
  exactly these modules (`late`). Nor is a file noticed that was put back to a version it
  had had (`restored`). An entrypoint of another version is taken to do the same.
* Capture: `process.kill` reaches the child, not its descendants; one that fails with an
  OSError is ignored (763-764), after which the child is waited for until the deadline and
  then left (`KillDenied`, `Reap`). A second SIGINT may come before the kill or during the
  wait (`KillInterrupted`, `ReapFails`). A killed child need not have been reaped.
* Interrupts are modelled in calls that block, in the start of the child (`SpawnInterrupted`,
  which also stands for the gap between `Popen` and its try block), in the cleanup of a
  query, and in what try blocks cover. A SIGINT between two try blocks of `main`, in
  `_output_failure` before its own, or after `write_artifact` has returned is not. In the
  last place a plan would be saved and exit 130 reported.
* A saved plan whose output fails ends with exit 2 and outcome "unchanged": "changed" is
  about the repository, and the plan lies at the name the owner chose. `Mutated` says so.

`CommandProofs.tla` proves every safety property of the table, for `Command` as a whole.
Each part has an invariant of its own that the steps of the other parts leave alone:

* `RunsWholeToolchain`, for any files, versions and number of writes, from
  `VersionsAssumption`: versions of a file only grow unless one is put back, the first
  pass shows that each was at least the expected one and the second that it was no newer;
  and a module that nobody has written since its second reading still is the expected one
  when it is imported (`Rereadings`, in `LaunchInv`).
* `CapturesAll` and `LeavesNoChild`, from `OutputLimitAssumption`: what was written and has
  not been read is still in its pipe (`Pumped` in `CaptureInv`), and every way out of a
  query passes the kill unless something is recorded that kept it from it (`spared`).
* `LookupsDoAgree`, for any PATH (`PathsAssumption`): after each entry, the executable is
  that of the first directory kept so far that has one ready (`LookupInv`).
* `SavesTruthfully`, `NeverClobbers` and `ReadsSettledFiles`, from `MeddlingAssumption`:
  `SaveInv` follows the two names of the new file:
  it is whole once it is linked (`LinkedWhole`), and what the saver could not remove is
  named (`LeftNamed`). `ReaderInv` says that a reader which has seen a single link holds a
  file past its last write.
* `ExitStatusTells` and `LastWordTells`, from `SaveInv` and `ReportInv`: once there is a
  result it tells what was left (`Tells`), each fallback replaces it by one that tells no
  less, and what was written is what the result said (`Told`).

## 8. Migration

`Migration.tla` is the v1 migration tool: `plan` reads the source, what Git and its
neighbours say of it, the archive and the rehearsal one after the other, and saves a
mapping and a plan; `show` and `apply` load the plan and read all of it again; `apply`
calls `apply_changes`, which is `Transaction` itself, step by step, with failing checks,
a failing commit, SIGINT inside the calls of these and SIGINT where no clause classifies
it. The owner may change everything that is read
between two readings, a command may be killed anywhere, and any command may follow.

| Property | Says |
|---|---|
| `FailedCommitRestores` | a call of the engine leaves all applied or all as it was, unless an unclassified SIGINT ended its rollback half way; then every preimage is in place or at its backup name |
| `MigrationTells` | exit 0 of apply means the conversion is in place and nothing else is left; exit 2, plan and show mean that the rehearsal is what it was |
| `UnderBackup` | while the rehearsal is replaced, the archive holds what it held, under the mapping that was read |
| `RerunAccepted` | an apply that succeeded may be repeated until the owner changes something |
| `CommandEnds` | every command ends |

Run *Migration* (339,114 states): four changes, three updates and a create; two reports,
two moves of the owner. Three changes with three moves (934,916 states) show no more.
Fairness: a command that is scheduled takes its next step (`WF_all(Work)`); nobody has to
start one, and a kill may come instead.

Left out: a rehearsal that does not exist yet (one create change); the owner does not
write the rehearsal during the transaction and no second command runs beside it, which
TransactionForeign and Appliers cover; exit 130 is not part of `MigrationTells` because of
finding 1. A kill leaves private names (`litter`) that make the next command refuse until
the owner has dealt with them. If the mapping is saved and saving the plan fails, the
mapping stays and the next plan is refused: the tool says so and no promise is about it.

`MigrationProofs.tla` proves `ConvertsUnderBackup` (`UnderBackup`) on top of the type
invariant of `TransactionProofs`, for plans of any length, any failing phases and any
number of moves: an undisturbed command has, at each of its steps, read what is there
(`Prepared`), the engine is called for changes only, and only the tree the rehearsal was
copied from is converted.

Where no other process writes during the transaction and only checks and the commit fail,
which is what the run checks too, it also proves, with `Interruptible` either way and
whatever has been killed before:

* `CallsRestore` (`FailedCommitRestores`): `Called` carries the invariant of the engine
  (`StagedInv`, `RestoreInv`) through the calls, and `NotCalled` says that each starts with
  no private name of its own left.
* `TellsTheOwner` (`MigrationTells`): `Commanded` says which command is where, `Rehearsal`
  what the rehearsal is at each of its steps: untouched until the engine is called, then
  what that call began with, then the conversion. It needs that a rehearsal cannot be the
  conversion of a tree other than the one it was copied from (`OneConversion`).
* `AcceptsReruns` (`RerunAccepted`): `Found` says what an apply has compared when it
  succeeds, `RerunInv` that all of it still holds until the owner acts, so that the plan
  computed by the next command differs from the saved one only in having no changes.

## 9. Hazards and findings

`PROJECT.json` lists the hazards at their lines with the properties that cover them. Three
runs expect a violation and are the findings 1 to 3 above. Of the hazards one has no
property, the orphaned mapping of section 8.

## 10. What is proved and what is only checked

| Proved for every value of the constants | Only model-checked |
|---|---|
| `TypeOK`, `StagedBeforeReplace`, `ResidueComplete`, `ForeignNotRemoved` (Transaction) | |
| `PriorNeverLost` (Transaction, no other writers) | |
| `ExitTruthful`, `ChangeReported`, `ImplementsAtomicMutation` (Transaction, no other writers, classified SIGINT) | |
| `OneWinner` (Appliers, plans that update or delete a file); `WinnerKept` (Appliers, plans that only update and delete) | |
| `TypeOK`, `OthersStayReady`, `BoundHolds` (Governance); `NoRevival`, `RecordingNeverReadies`, `DeletionNeverReadies` (one process at a time) | |
| `InstantRead` (Snapshot) | |
| `PayloadIsCommitted`, `VerifiedIsReviewed`, `PreparedReleaseVerifies` (Release) | |
| `LaunchIsWhole`, `CaptureIsWhole`, `NoRunawayChild`, `LookupsAgree`, `NoClobber`, `SaveTruthful`, `ReadIsSettled`, `ExitTells`, `LastWordTruthful` (Command) | `Ends` |
| `FailedCommitRestores` (Transaction and Migration, no other writers, only checks and the commit fail; with its exception for an unclassified SIGINT) | |
| `UnderBackup` (Migration); `MigrationTells`, `RerunAccepted` (as the line before) | `CommandEnds` |

Liveness (`Ends`, `CommandEnds`) is beyond the prover and stays with TLC. Nothing recursive
is proved about: what the provers would need an induction over data for is stated as a
least set (`Ancestors`) or kept step by step (the lookup on PATH, the loops of the
transaction).

## 11. Not modelled

* Parsing and validation of documents (contract, frontmatter) and the case-by-case
  validation of a report: checks of one document, with no state.
* `init` and `update` as workflows of their own: they install what a snapshot holds
  through the same transaction and postcondition.
* Walking a path component by component without following links, modes, byte bounds,
  overlapping destinations.
* Message wording and what redaction hides; that redaction and rendering may fail is
  modelled.
* The maintainer tools: build steps with no state.
* A killed process in the middle of a remek transaction: there is no journal
  (`docs/threat-model.md:58-61`). The saver of a plan and the migration tool are killed,
  because there another command meets what is left.
