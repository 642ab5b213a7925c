------------------------------ MODULE Release ------------------------------
(***************************************************************************)
(* The release workflow (workflows.py): a source repository, a mirror that *)
(* carries its releases, and an owner who edits, commits and switches both *)
(* while a command reads them one query after another.                     *)
(*                                                                         *)
(* A command is an apply of a release plan (release_plan is recomputed,    *)
(* then installed), into a mirror, into a mirror with unmanaged skills     *)
(* that are adopted, or into a staging directory; or a release verify.     *)
(* Planning alone writes nothing.  A plan that differs from the saved one  *)
(* is refused (Differs).  A digest stands for what it digests.  Queries    *)
(* that fail, and what makes a Git root unfit (attributes, submodules,     *)
(* shallow or damaged history), refuse like any check and are left out.    *)
(* A definition marked "slip" stands for a plausible mistake; no action    *)
(* uses it.                                                                *)
(***************************************************************************)
EXTENDS Integers, Sequences, FiniteSets

CONSTANTS
  Governed,          \* the skills of the source, in the order of its configuration
  Versions,          \* what the files of a skill can hold
  Policies,          \* what a distribution can say: members, audience, target
  None,              \* nothing there
  Unreported,        \* <<on disk, committed>>: no difference to Git
  Commits,           \* the source history at the start
  Mirrors,           \* the histories a mirror may have at the start
  HistoryLimit,      \* _RELEASE_HISTORY_LIMIT
  MaxMirror,         \* bound on the commits of the mirror
  MaxSource,         \* bound on the commits of the source
  MaxMoves           \* bound on what the owner does

Skills == {Governed[i] : i \in 1..Len(Governed)}
Branches == {"main", "topic"}
Remotes == {"https", "ssh", "elsewhere"}
Targets == {p.target : p \in Policies} \cup {"not-performed"}

Payload(skills, members) == [s \in members |-> skills[s]]
Payloads == UNION {[members -> Versions] : members \in SUBSET Skills}

\* What a review approves: every member and the whole policy.
Reviews ==
  {None} \cup {<<Payload(skills, p.members), p>> : skills \in [Skills -> Versions], p \in Policies}

\* What the source and the mirror hold.
SourceFiles == [skills : [Skills -> Versions], policy : Policies, review : Reviews]
ManifestDocuments ==
  [source : Nat, branch : Branches, payload : Payloads, policy : Policies, review : Reviews,
   pre : Nat \cup {None}, remote : Remotes \cup {None}, target : Targets,
   paths : SUBSET (Skills \cup {"manifest", "other"})]
MirrorFiles ==
  [payload : Payloads, manifest : ManifestDocuments \cup {None}, other : {0, 1}]
StagedFiles == [payload : Payloads, manifest : ManifestDocuments \cup {None}]

\* Every skill a manifest declares is what the source commit it names holds.
DeclaresCommitted(m, commits) ==
  /\ m.source \in 1..Len(commits)
  /\ \A s \in DOMAIN m.payload : m.payload[s] = commits[m.source].files.skills[s]

ASSUME LimitAssumption == HistoryLimit \in Nat
ASSUME GitAssumption == Unreported \subseteq Versions \X (Versions \cup {None})
ASSUME GovernedAssumption == Governed \in Seq(Skills)
ASSUME PolicyAssumption ==
  \A p \in Policies : p.members \subseteq Skills /\ p.target # "not-performed"

\* What names something else names no skill, and nothing is not a manifest.
ASSUME NamesAssumption ==
  /\ {"manifest", "other"} \cap Skills = {}
  /\ None \notin ManifestDocuments
ASSUME SourceAssumption ==
  Commits \in Seq([files : SourceFiles, parent : Nat]) /\ Commits # <<>>

\* A commit follows its parent, and the manifests a mirror starts with are
\* those of earlier releases.
ASSUME MirrorAssumption ==
  \A h \in Mirrors :
    /\ h \in Seq([files : MirrorFiles, parent : Nat]) /\ h # <<>>
    /\ \A i \in 1..Len(h) :
         /\ h[i].parent < i
         /\ h[i].files.manifest = None \/ DeclaresCommitted(h[i].files.manifest, Commits)

VARIABLES
  work,          \* the source's files: skills, policy and active review
  source,        \* its commits
  sourceAt,      \* its HEAD and branch
  site,          \* the mirror's files: payload, manifest, and one it does not own
  mirror,        \* its commits
  mirrorAt,      \* its HEAD and branch
  remote,        \* where its remote points
  visible,       \* the hosting service shows the target as expected
  staging,       \* the staging directory
  op, step,      \* the command that runs, and its next query
  picture,       \* what it saw of the source's files
  read,          \* how many skills it has read
  at,            \* the source HEAD and branch it saw
  head,          \* the mirror HEAD it saw
  old,           \* the manifest it loaded
  made,          \* the manifest it computed
  base,          \* the files its plan replaces
  result,        \* how it ended
  moves,         \* how often the owner has acted
  quiet,         \* history: the owner has not acted since the command began
  prepared       \* history: how far an undisturbed release has come

sources == <<work, source, sourceAt>>
mirrors == <<site, mirror, mirrorAt, remote, visible>>
seen == <<picture, read, at, head, old, made, base>>
owner == <<moves, quiet, prepared>>
vars == <<sources, mirrors, staging, op, step, seen, result, owner>>

-----------------------------------------------------------------------------
(* Payloads, manifests, histories *)

NoPayload == [s \in {} |-> None]

\* What Git reports no difference in: the same, but for files its ignore rules
\* hide and line endings it translates (_git_state; _guard_git_attributes refuses
\* filters only).  A commit of the one may hold the other.
Holding(payload, s) == IF s \in DOMAIN payload THEN payload[s] ELSE None
Agrees(disk, committed) ==
  \A s \in DOMAIN disk \cup DOMAIN committed :
    \/ Holding(disk, s) = Holding(committed, s)
    \/ <<Holding(disk, s), Holding(committed, s)>> \in Unreported

Subject(w) == <<Payload(w.skills, w.policy.members), w.policy>>

\* release_findings reports no error: the active review is of this subject.
Ready(w) == w.review = Subject(w)

\* A commit and all it descends from: what every set holds that holds the
\* commit and the parents of its own commits.
Ancestors(commits, i) ==
  {n \in 1..Len(commits) :
     \A set \in SUBSET (1..Len(commits)) :
       i \in set /\ (\A m \in set : commits[m].parent \in set \cup {0}) => n \in set}

ManifestBefore(i) ==
  IF mirror[i].parent = 0 THEN None ELSE mirror[mirror[i].parent].files.manifest

\* The commits that add or modify the manifest, as far as HEAD reaches.
History == {i \in Ancestors(mirror, mirrorAt.head) :
              mirror[i].files.manifest \notin {None, ManifestBefore(i)}}

Recorded == {mirror[i].files.manifest : i \in History}

WithinLimit == Cardinality(History) <= HistoryLimit

Lineage ==
  \A m \in Recorded :
    /\ m.policy.audience = picture.policy.audience
    /\ m.source \in Ancestors(source, at.head)

\* The paths in which two states of the mirror differ.
Differing(before, after) ==
  {s \in DOMAIN before.payload \cup DOMAIN after.payload :
     ~(/\ s \in DOMAIN before.payload /\ s \in DOMAIN after.payload
       /\ before.payload[s] = after.payload[s])}
  \cup (IF before.manifest # after.manifest THEN {"manifest"} ELSE {})
  \cup (IF before.other # after.other THEN {"other"} ELSE {})

\* HEAD is one commit over the parent the manifest is bound to and changes
\* the paths it names, none outside skills/ and the manifest.
ReleaseCommit(m) ==
  LET h == mirror[mirrorAt.head] IN
  /\ h.parent # 0
  /\ h.parent = m.pre
  /\ LET changed == Differing(mirror[h.parent].files, h.files) IN
     changed = m.paths /\ "manifest" \in changed /\ "other" \notin changed

Manifest(pre, binding, target, paths) ==
  [source |-> at.head, branch |-> at.branch,
   payload |-> Payload(picture.skills, picture.policy.members),
   policy |-> picture.policy, review |-> picture.review,
   pre |-> pre, remote |-> binding, target |-> target, paths |-> paths]

ReleaseId(m) == <<m.source, m.payload, m.policy, m.review>>

\* Everything but the parent and the paths.
SameContext(m, n) ==
  [m EXCEPT !.pre = n.pre, !.paths = n.paths] = n

-----------------------------------------------------------------------------

SourceAt(h, b) == [head |-> h, branch |-> b]
NoPicture == [skills |-> [s \in Skills |-> None], policy |-> None, review |-> None]

Forget ==
  /\ picture' = NoPicture /\ read' = 0 /\ at' = None /\ head' = 0
  /\ old' = None /\ made' = None /\ base' = None

Init ==
  /\ source = Commits
  /\ sourceAt = SourceAt(Len(Commits), "main")
  /\ work = Commits[Len(Commits)].files
  /\ mirror \in Mirrors
  /\ mirrorAt = SourceAt(Len(mirror), "main")
  /\ site = mirror[Len(mirror)].files
  /\ remote = "https"
  /\ visible = TRUE
  /\ staging = None
  /\ op = "none" /\ step = "idle" /\ result = "none"
  /\ picture = NoPicture /\ read = 0 /\ at = None /\ head = 0
  /\ old = None /\ made = None /\ base = None
  /\ moves = 0 /\ quiet = TRUE /\ prepared = "no"

-----------------------------------------------------------------------------
(* The commands, one query of a file or of Git after the other *)

Begin(o) ==
  /\ step = "idle"
  /\ op' = o
  /\ step' = "governance"
  /\ quiet' = TRUE
  /\ UNCHANGED <<sources, mirrors, staging, seen, result, moves, prepared>>

Finish(r) == step' = "done" /\ result' = r
Refuse == Finish("refused")
GoOn(s) == step' = s /\ UNCHANGED result

\* Each check of a command lets it go on or refuses.
Check(condition, s) == IF condition THEN GoOn(s) ELSE Refuse

context == <<sources, mirrors, staging, op, owner>>

\* inspect reads the distributions and reviews before the skills.
InspectGovernance ==
  /\ step = "governance"
  /\ picture' = [picture EXCEPT !.policy = work.policy, !.review = work.review]
  /\ GoOn("skills")
  /\ UNCHANGED <<context, read, at, head, old, made, base>>

\* A skill is read by snapshot_tree, which Snapshot models.
InspectSkill ==
  /\ step = "skills" /\ read < Len(Governed)
  /\ read' = read + 1
  /\ picture' = [picture EXCEPT !.skills[Governed[read']] = work.skills[Governed[read']]]
  /\ UNCHANGED <<context, step, result, at, head, old, made, base>>

SourceClean ==
  LET c == source[sourceAt.head].files IN
  Agrees(work.skills, c.skills) /\ work.policy = c.policy /\ work.review = c.review

\* The readiness gate, then _git_state of the source: the worktree is clean at
\* some HEAD and branch.
SourceState ==
  /\ step = "skills" /\ read = Len(Governed)
  /\ at' = sourceAt
  /\ Check(Ready(picture) /\ SourceClean, "sourceHead")
  /\ UNCHANGED <<context, picture, read, head, old, made, base>>

\* Slip: a clean worktree is taken for proof of what was read.
HeadUnchecked == TRUE

\* The skills that were read, and the governance files read again, are those
\* of the commit.
SourceHeadHolds ==
  LET c == source[at.head].files IN
  c.skills = picture.skills /\ c.policy = work.policy /\ c.review = work.review

SourceHead ==
  /\ step = "sourceHead"
  /\ Check(SourceHeadHolds,
           CASE op = "verify" -> "manifest" [] op = "stage" -> "decide" [] OTHER -> "mirrorState")
  /\ UNCHANGED <<context, seen>>

\* release_verify loads the manifest and compares it with the source.
LoadManifest ==
  /\ step = "manifest"
  /\ old' = site.manifest
  /\ Check(/\ site.manifest # None
           /\ site.manifest.target # "not-performed"
           /\ site.manifest.policy.audience = picture.policy.audience
           /\ SourceAt(site.manifest.source, site.manifest.branch) = at,
           "mirrorState")
  /\ UNCHANGED <<context, picture, read, at, head, made, base>>

MirrorClean ==
  LET c == mirror[mirrorAt.head].files IN
  Agrees(site.payload, c.payload) /\ site.manifest = c.manifest /\ site.other = c.other

\* _git_state of the mirror and its branch.
MirrorState ==
  /\ step = "mirrorState"
  /\ head' = mirrorAt.head
  /\ Check(MirrorClean /\ mirrorAt.branch = "main", "history")
  /\ UNCHANGED <<context, picture, read, at, old, made, base>>

\* _release_history and _require_release_lineage.
ReadHistory ==
  /\ step = "history"
  /\ Check(WithinLimit /\ Lineage, "files")
  /\ UNCHANGED <<context, seen>>

\* The payload in place is the one the manifest declares (_verify_payload),
\* and both are those of the commit (_mirror_head).
FilesHold(m) ==
  /\ site.payload = m.payload
  /\ site.payload = mirror[head].files.payload
  /\ site.manifest = mirror[head].files.manifest

\* Adoption is for skills without a manifest, and holds them against nothing.
ReadFiles ==
  /\ step = "files"
  /\ IF op = "verify"
     THEN Check(FilesHold(old), "commit") /\ UNCHANGED old
     ELSE /\ old' = site.manifest
          /\ Check(IF site.manifest # None THEN FilesHold(site.manifest)
                   ELSE site.payload = NoPayload \/ op = "adopt", "target")
  /\ UNCHANGED <<context, picture, read, at, head, made, base>>

CheckCommit ==
  /\ step = "commit"
  /\ Check(ReleaseCommit(old), "target")
  /\ UNCHANGED <<context, seen>>

\* The fetch and push addresses that name the target on its host.
Aliases == {"https", "ssh"}

\* The remote is one of them, and the same one the manifest recorded.
RemoteBinding == remote \in Aliases /\ (op = "verify" => remote = old.remote)

\* verify_github_target: the service shows the name and the visibility the policy expects.
TargetVisible == visible

\* Every earlier release was made for this target.
TargetLineage == \A m \in Recorded : m.target = picture.policy.target

\* Slip: the target is looked up, its history is not.
TargetUnbound ==
  /\ RemoteBinding /\ TargetVisible
  /\ op = "verify" => old.target = picture.policy.target

TargetHolds ==
  /\ RemoteBinding /\ TargetVisible /\ TargetLineage
  /\ op = "verify" => old.target = picture.policy.target

QueryTarget ==
  /\ step = "target"
  /\ Check(TargetHolds, "decide")
  /\ UNCHANGED <<context, seen>>

-----------------------------------------------------------------------------
(* release_verify computes the manifest of this release again *)

Verify ==
  /\ op = "verify" /\ step = "decide"
  /\ made' = Manifest(old.pre, old.remote, picture.policy.target, old.paths)
  /\ IF site.manifest = made' THEN Finish("verified") ELSE Refuse
  /\ UNCHANGED <<context, picture, read, at, head, old, base>>

-----------------------------------------------------------------------------
(* release_plan decides, the transaction installs *)

Proposed == Payload(picture.skills, picture.policy.members)

Stage ==
  /\ op = "stage" /\ step = "decide"
  /\ made' = Manifest(None, None, "not-performed", {})
  /\ Check(staging = None, "install")
  /\ UNCHANGED <<context, picture, read, at, head, old, base>>

\* Slip: the paths are those of the payload alone.
PayloadPaths == Differing(site, [site EXCEPT !.payload = Proposed])

\* _commit_paths compares with the disk.
ExpectedPaths == Differing(site, [site EXCEPT !.payload = Proposed]) \cup {"manifest"}

Decide ==
  /\ op \in {"apply", "adopt"} /\ step = "decide"
  /\ made' = Manifest(head, remote, picture.policy.target, ExpectedPaths)
  /\ base' = site
  /\ IF old # None /\ ReleaseId(old) = ReleaseId(made')
     THEN IF SameContext(old, made') /\ ReleaseCommit(old) THEN Finish("current") ELSE Refuse
     ELSE GoOn("install")
  /\ UNCHANGED <<context, picture, read, at, head, old>>

\* The saved plan is not the one computed now (verify_operation_plan).
Differs ==
  /\ op \in {"apply", "adopt", "stage"} /\ step = "install"
  /\ Refuse
  /\ UNCHANGED <<context, seen>>

\* The preimages of the plan's changes are still there.
Fresh ==
  /\ made.payload # base.payload => site.payload = base.payload
  /\ site.manifest = base.manifest

\* A payload that does not change is left alone (_one).
Install ==
  /\ op \in {"apply", "adopt"} /\ step = "install"
  /\ IF Fresh
     THEN /\ site' = [site EXCEPT
               !.payload = IF made.payload = base.payload THEN @ ELSE made.payload,
               !.manifest = made]
          /\ GoOn("confirm")
     ELSE Refuse /\ UNCHANGED site
  /\ UNCHANGED <<sources, mirror, mirrorAt, remote, visible, staging, op, seen, owner>>

InstallStaging ==
  /\ op = "stage" /\ step = "install"
  /\ IF staging = None
     THEN staging' = [payload |-> made.payload, manifest |-> made] /\ Finish("applied")
     ELSE Refuse /\ UNCHANGED staging
  /\ UNCHANGED <<sources, mirrors, op, seen, owner>>

\* verify_materialized_release, called by the transaction.
Materialized == site.manifest # None /\ site.payload = site.manifest.payload

Confirm ==
  /\ step = "confirm" /\ Materialized
  /\ Finish("applied")
  /\ prepared' = IF quiet /\ base.payload = mirror[mirrorAt.head].files.payload
                 THEN "applied" ELSE "no"
  /\ UNCHANGED <<sources, mirrors, staging, op, seen, moves, quiet>>

\* The transaction puts back what is still its own and names the rest.
RollBack ==
  /\ step = "confirm" /\ ~Materialized
  /\ site' = [site EXCEPT
       !.payload = IF site.payload = made.payload THEN base.payload ELSE @,
       !.manifest = IF site.manifest = made THEN base.manifest ELSE @]
  /\ Finish("residue")
  /\ UNCHANGED <<sources, mirror, mirrorAt, remote, visible, staging, op, seen, owner>>

Return ==
  /\ step = "done"
  /\ op' = "none" /\ step' = "idle" /\ result' = "none"
  /\ Forget
  /\ UNCHANGED <<sources, mirrors, staging, owner>>

-----------------------------------------------------------------------------
(* The owner, at any time *)

\* (A command that has ended reads nothing more: what the owner does then he
\* does after it.)
Act(next) ==
  /\ moves < MaxMoves
  /\ step # "done"
  /\ moves' = moves + 1
  /\ quiet' = FALSE
  /\ prepared' = next
  /\ UNCHANGED <<op, step, seen, result>>

ActOnSource == Act("no") /\ UNCHANGED <<mirrors, staging>>
ActOnMirror(next) == Act(next) /\ UNCHANGED <<sources, staging>>

Edit(s, v) ==
  /\ v # work.skills[s]
  /\ work' = [work EXCEPT !.skills[s] = v]
  /\ ActOnSource /\ UNCHANGED <<source, sourceAt>>

Redistribute(p) ==
  /\ p # work.policy
  /\ work' = [work EXCEPT !.policy = p]
  /\ ActOnSource /\ UNCHANGED <<source, sourceAt>>

\* Evidence or a rejection clears the review; a review-record sets it.
Approve ==
  /\ work' = [work EXCEPT !.review = IF Ready(work) THEN None ELSE Subject(work)]
  /\ ActOnSource /\ UNCHANGED <<source, sourceAt>>

\* A commit holds what Git takes the files for.
CommitSource(skills) ==
  LET files == [work EXCEPT !.skills = skills] IN
  /\ Agrees(work.skills, skills) /\ files # source[sourceAt.head].files
  /\ Len(source) < MaxSource
  /\ source' = Append(source, [files |-> files, parent |-> sourceAt.head])
  /\ sourceAt' = [sourceAt EXCEPT !.head = Len(source) + 1]
  /\ ActOnSource /\ UNCHANGED work

\* (What a checkout leaves of ignored files, an edit puts there again.)
CheckoutSource(i, b) ==
  /\ SourceAt(i, b) # sourceAt
  /\ sourceAt' = SourceAt(i, b)
  /\ work' = source[i].files
  /\ ActOnSource /\ UNCHANGED source

CommitOver(parent, files, next) ==
  /\ Len(mirror) < MaxMirror
  /\ mirror' = Append(mirror, [files |-> files, parent |-> parent])
  /\ mirrorAt' = [mirrorAt EXCEPT !.head = Len(mirror) + 1]
  /\ ActOnMirror(next) /\ UNCHANGED <<site, remote, visible>>

Committable ==
  {[site EXCEPT !.payload = payload] : payload \in {p \in Payloads : Agrees(site.payload, p)}}

\* A release is committed as it is if Git holds all of its files.
CommitMirror(files) ==
  /\ files # mirror[mirrorAt.head].files
  /\ CommitOver(mirrorAt.head, files,
                IF prepared = "applied" /\ files = site THEN "committed" ELSE "no")

Amend(files) == CommitOver(mirror[mirrorAt.head].parent, files, "no")

\* Another branch, or an older state of this one.
CheckoutMirror(i, b) ==
  /\ SourceAt(i, b) # mirrorAt
  /\ mirrorAt' = SourceAt(i, b)
  /\ site' = mirror[i].files
  /\ ActOnMirror("no") /\ UNCHANGED <<mirror, remote, visible>>

Tamper(files) ==
  /\ files # site
  /\ site' = files
  /\ ActOnMirror("no") /\ UNCHANGED <<mirror, mirrorAt, remote, visible>>

WithSkill(s, v) ==
  [site EXCEPT !.payload = [t \in DOMAIN @ \cup {s} |-> IF t = s THEN v ELSE @[t]]]

\* A skill is put in, another file is changed, the manifest is removed, or
\* the staging directory is copied in.
Tampered ==
  {WithSkill(s, v) : s \in Skills, v \in Versions}
  \cup {[site EXCEPT !.other = 1 - @]}
  \cup {[site EXCEPT !.manifest = None]}
  \cup (IF staging = None THEN {}
        ELSE {[site EXCEPT !.payload = staging.payload, !.manifest = staging.manifest]})

Redirect(r) ==
  /\ r # remote
  /\ remote' = r
  /\ ActOnMirror("no") /\ UNCHANGED <<site, mirror, mirrorAt, visible>>

Reveal ==
  /\ visible' = ~visible
  /\ ActOnMirror("no") /\ UNCHANGED <<site, mirror, mirrorAt, remote>>

\* The staging directory is removed, or one made by hand.
Restage ==
  /\ staging' = IF staging = None THEN [payload |-> NoPayload, manifest |-> None] ELSE None
  /\ Act("no") /\ UNCHANGED <<sources, mirrors>>

OwnSource ==
  \/ \E s \in Skills, v \in Versions : Edit(s, v)
  \/ \E p \in Policies : Redistribute(p)
  \/ Approve
  \/ \E skills \in [Skills -> Versions] : CommitSource(skills)
  \/ \E i \in 1..Len(source), b \in Branches : CheckoutSource(i, b)

OwnMirror ==
  \/ \E files \in Committable : CommitMirror(files) \/ Amend(files)
  \/ \E i \in 1..Len(mirror), b \in Branches : CheckoutMirror(i, b)
  \/ \E files \in Tampered : Tamper(files)
  \/ \E r \in Remotes : Redirect(r)
  \/ Reveal
  \/ Restage

Read ==
  \/ InspectGovernance \/ InspectSkill \/ SourceState \/ SourceHead
  \/ LoadManifest \/ MirrorState \/ ReadHistory \/ ReadFiles \/ CheckCommit \/ QueryTarget

Write == Stage \/ Decide \/ Differs \/ Install \/ InstallStaging \/ Confirm \/ RollBack

Next ==
  \/ \E o \in {"apply", "adopt", "stage", "verify"} : Begin(o)
  \/ Read \/ Verify \/ Write \/ Return
  \/ OwnSource \/ OwnMirror

Spec == Init /\ [][Next]_vars

-----------------------------------------------------------------------------

Manifests == {c.files.manifest : c \in {mirror[i] : i \in 1..Len(mirror)}}
             \cup {site.manifest, made} \cup (IF staging = None THEN {} ELSE {staging.manifest})

\* Whoever edits, commits or switches while a release is planned: every skill
\* a manifest declares is exactly what its source commit holds
\* (_release_source and _source_head; docs/contracts.md, "Every owned regular
\* file equals its raw HEAD blob").
PayloadIsCommitted ==
  \A m \in Manifests \ {None} : DeclaresCommitted(m, source)

Undisturbed(o, r) == op = o /\ result = r /\ quiet

\* A release verify that nobody disturbs succeeds only on the real thing,
\* whatever the owner did before it and during the plans and applies: HEAD of
\* the mirror is one commit over the HEAD the release was planned on, differs
\* from it in owned paths only, carries exactly the members of the source's
\* HEAD under a review of exactly these, and every earlier release of this
\* history had the same audience and target and came from an ancestor
\* (release_verify).
VerifiedIsReviewed ==
  Undisturbed("verify", "verified") =>
    LET h == mirror[mirrorAt.head]
        c == source[sourceAt.head].files
        m == h.files.manifest
    IN /\ h.files.payload = Payload(c.skills, c.policy.members)
       /\ c.review = Subject(c)
       /\ m.source = sourceAt.head
       /\ h.parent = m.pre /\ h.files.other = mirror[h.parent].files.other
       /\ remote = m.remote /\ visible /\ mirrorAt.branch = "main"
       /\ \A n \in Recorded :
            /\ n.policy.audience = c.policy.audience /\ n.target = c.policy.target
            /\ n.source \in Ancestors(source, sourceAt.head)

\* A release that was applied and committed undisturbed verifies: planning
\* refuses whatever verifying would, with two exceptions.  One is the bound on the
\* history: a plan is made on a history that is full, and its own manifest is then
\* one too many (_release_history, workflows.py:1157).  The other is what Git does
\* not hold (see Confirm, CommitMirror): where skills with ignored files are
\* adopted, or line endings are translated, the plan speaks of the disk and the
\* commit of something else (_commit_paths, _mirror_head).
PreparedReleaseVerifies ==
  Undisturbed("verify", "refused") /\ prepared = "committed" => ~WithinLimit
=============================================================================
