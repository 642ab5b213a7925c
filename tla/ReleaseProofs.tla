--------------------------- MODULE ReleaseProofs ---------------------------
(***************************************************************************)
(* For any skills, distributions and histories, and whatever the owner     *)
(* does meanwhile: what a release declares is committed, what a release    *)
(* verify accepts is reviewed, and it accepts what was released and        *)
(* committed undisturbed.                                                  *)
(***************************************************************************)
EXTENDS Release, TLAPS

SourceCommits == [files : SourceFiles, parent : Nat]
MirrorCommits == [files : MirrorFiles, parent : Nat]
Heads(commits) == [head : 1..Len(commits), branch : Branches]

SourceTyped ==
  /\ work \in SourceFiles
  /\ source \in Seq(SourceCommits) /\ sourceAt \in Heads(source)

MirrorTyped ==
  /\ site \in MirrorFiles
  /\ mirror \in Seq(MirrorCommits) /\ mirrorAt \in Heads(mirror)
  /\ remote \in Remotes
  /\ staging # None => staging \in StagedFiles

SeenTyped ==
  /\ read \in 0..Len(Governed) /\ head \in Nat
  /\ picture \in [skills : [Skills -> Versions \cup {None}], policy : Policies \cup {None},
                  review : Reviews]
  /\ old # None => old \in ManifestDocuments
  /\ made # None => made \in ManifestDocuments

\* What a command has seen when it gets somewhere.
BeforeMirror == {"manifest", "mirrorState"}
AfterMirror == {"history", "files", "commit", "target", "decide"}
Installing == {"install", "confirm"}

HeadSeen == step \in {"sourceHead"} \cup BeforeMirror \cup AfterMirror => at \in Heads(source)
PolicySeen ==
  step \in {"skills", "sourceHead"} \cup BeforeMirror \cup AfterMirror =>
    picture.policy \in Policies

\* Past the source's HEAD, the picture is of a commit.
PictureCommitted ==
  step \in BeforeMirror \cup AfterMirror => picture.skills = source[at.head].files.skills

ManifestLoaded ==
  op = "verify" /\ step \in {"mirrorState"} \cup AfterMirror => old # None

\* The manifest a file system or a plan holds, if any, declares what is committed.
Declared(m) == m = None \/ DeclaresCommitted(m, source)

ManifestsDeclared ==
  /\ \A i \in 1..Len(mirror) : Declared(mirror[i].files.manifest)
  /\ Declared(site.manifest) /\ Declared(made)
  /\ staging # None => Declared(staging.manifest)

PlanMade ==
  /\ step \in Installing => made \in ManifestDocuments
  /\ step = "confirm" \/ (step = "install" /\ op # "stage") =>
       base \in MirrorFiles /\ Declared(base.manifest)

ReleaseInv ==
  /\ SourceTyped /\ MirrorTyped /\ SeenTyped
  /\ HeadSeen /\ PolicySeen /\ PictureCommitted /\ ManifestLoaded /\ PlanMade
  /\ ManifestsDeclared

---------------------------------------------------------------------------
(* What the operators return                                               *)

LEMMA PayloadTyped ==
  ASSUME NEW skills \in [Skills -> Versions], NEW p \in Policies
  PROVE  Payload(skills, p.members) \in Payloads
<1>1. p.members \in SUBSET Skills BY PolicyAssumption
<1>2. Payload(skills, p.members) \in [p.members -> Versions] BY <1>1 DEF Payload
<1> QED BY <1>1, <1>2 DEF Payloads

LEMMA SubjectTyped ==
  ASSUME NEW w \in SourceFiles
  PROVE  Subject(w) \in Reviews
BY DEF SourceFiles, Subject, Reviews

LEMMA DifferingTyped ==
  ASSUME NEW before \in MirrorFiles, NEW after \in MirrorFiles
  PROVE  Differing(before, after) \subseteq Skills \cup {"manifest", "other"}
<1>1. ASSUME NEW f \in MirrorFiles PROVE DOMAIN f.payload \subseteq Skills
  BY <1>1 DEF MirrorFiles, Payloads
<1> QED BY <1>1 DEF Differing

\* The manifest of a picture that is a commit's declares what this commit holds.
LEMMA ManifestDeclares ==
  ASSUME SourceTyped, SeenTyped, at \in Heads(source), picture.policy \in Policies,
         picture.skills = source[at.head].files.skills,
         NEW pre \in Nat \cup {None}, NEW binding \in Remotes \cup {None},
         NEW target \in Targets, NEW paths \in SUBSET (Skills \cup {"manifest", "other"})
  PROVE  /\ Manifest(pre, binding, target, paths) \in ManifestDocuments
         /\ DeclaresCommitted(Manifest(pre, binding, target, paths), source)
<1>1. at.head \in 1..Len(source) /\ at.head \in Nat /\ at.branch \in Branches
  BY DEF SourceTyped, Heads
<1>2. source[at.head] \in SourceCommits BY <1>1 DEF SourceTyped
<1>3. picture.skills \in [Skills -> Versions] BY <1>2 DEF SourceCommits, SourceFiles
<1>4. Payload(picture.skills, picture.policy.members) \in Payloads BY <1>3, PayloadTyped
<1>5. picture.review \in Reviews BY DEF SeenTyped
<1>6. Manifest(pre, binding, target, paths) \in ManifestDocuments
  BY <1>1, <1>4, <1>5 DEF Manifest, ManifestDocuments
<1>7. DeclaresCommitted(Manifest(pre, binding, target, paths), source)
  BY <1>1 DEF Manifest, DeclaresCommitted, Payload
<1> QED BY <1>6, <1>7

\* Commits are appended only.
LEMMA DeclaredStays ==
  ASSUME source \in Seq(SourceCommits), NEW c \in SourceCommits, source' = Append(source, c),
         NEW m, Declared(m)
  PROVE  m = None \/ DeclaresCommitted(m, source')
<1>1. Len(source') = Len(source) + 1 /\ \A i \in 1..Len(source) : source'[i] = source[i]
  OBVIOUS
<1> QED BY <1>1 DEF Declared, DeclaresCommitted

LEMMA InitRelease == Init => ReleaseInv
<1> SUFFICES ASSUME Init PROVE ReleaseInv OBVIOUS
<1>1. /\ source \in Seq(SourceCommits) /\ source # <<>> /\ Len(source) \in 1..Len(source)
      /\ source = Commits /\ work = source[Len(source)].files
      /\ sourceAt = SourceAt(Len(source), "main")
  BY SourceAssumption DEF Init, SourceCommits
<1>2. /\ mirror \in Seq(MirrorCommits) /\ mirror # <<>> /\ Len(mirror) \in 1..Len(mirror)
      /\ site = mirror[Len(mirror)].files /\ mirrorAt = SourceAt(Len(mirror), "main")
      /\ \A i \in 1..Len(mirror) : Declared(mirror[i].files.manifest)
  <2>1. mirror \in Mirrors /\ source = Commits BY DEF Init
  <2>2. mirror \in Seq(MirrorCommits) /\ mirror # <<>>
    BY <2>1, MirrorAssumption DEF MirrorCommits
  <2>3. \A i \in 1..Len(mirror) : Declared(mirror[i].files.manifest)
    BY <2>1, MirrorAssumption DEF Declared
  <2> QED BY <2>2, <2>3 DEF Init
<1>3. SourceTyped
  <2>1. source[Len(source)] \in SourceCommits BY <1>1
  <2> QED BY <1>1, <2>1 DEF SourceTyped, SourceCommits, SourceAt, Heads, Branches
<1>4. MirrorTyped
  <2>1. mirror[Len(mirror)] \in MirrorCommits BY <1>2
  <2> QED
    BY <1>2, <2>1 DEF Init, MirrorTyped, MirrorCommits, SourceAt, Heads, Branches, Remotes
<1>5. SeenTyped
  <2>1. Len(Governed) \in Nat BY GovernedAssumption
  <2>2. [s \in Skills |-> None] \in [Skills -> Versions \cup {None}] OBVIOUS
  <2> QED BY <2>1, <2>2 DEF Init, SeenTyped, NoPicture, Reviews
<1> QED
  BY <1>2, <1>3, <1>4, <1>5 DEF Init, ReleaseInv, HeadSeen, PolicySeen, PictureCommitted,
     ManifestLoaded, PlanMade, ManifestsDeclared, Declared, BeforeMirror, AfterMirror, Installing

---------------------------------------------------------------------------
(* The queries change no file                                              *)

\* What nobody writes stays as it is.
LEMMA ContextStays ==
  ASSUME ReleaseInv, UNCHANGED <<sources, mirrors, staging>>
  PROVE  /\ SourceTyped' /\ MirrorTyped'
         /\ UNCHANGED <<made, base>> => ManifestsDeclared'
BY DEF ReleaseInv, SourceTyped, MirrorTyped, ManifestsDeclared, Declared, sources, mirrors

LEMMA ReadKeeps == ReleaseInv /\ Read => ReleaseInv'
<1> SUFFICES ASSUME ReleaseInv, Read PROVE ReleaseInv' OBVIOUS
<1> USE DEF Check, GoOn, Refuse, Finish, BeforeMirror, AfterMirror, Installing
<1>1. UNCHANGED <<sources, mirrors, staging, op, made, base>>
  BY DEF Read, InspectGovernance, InspectSkill, SourceState, SourceHead, LoadManifest,
         MirrorState, ReadHistory, ReadFiles, CheckCommit, QueryTarget, context, seen
<1>2. SourceTyped' /\ MirrorTyped' /\ ManifestsDeclared' BY <1>1, ContextStays
<1>3. /\ work \in SourceFiles /\ sourceAt \in Heads(source) /\ site \in MirrorFiles
      /\ mirrorAt \in Heads(mirror)
  BY DEF ReleaseInv, SourceTyped, MirrorTyped
<1>4. work.policy \in Policies /\ work.review \in Reviews /\ work.skills \in [Skills -> Versions]
  BY <1>3 DEF SourceFiles
<1>5. site.manifest # None => site.manifest \in ManifestDocuments BY <1>3 DEF MirrorFiles
<1>6. mirrorAt.head \in Nat BY <1>3 DEF Heads
<1> USE DEF sources, mirrors
<1>7. CASE InspectGovernance
  BY <1>1, <1>2, <1>4, <1>7 DEF InspectGovernance, ReleaseInv, SeenTyped, HeadSeen, PolicySeen,
     PictureCommitted, ManifestLoaded, PlanMade
<1>8. CASE InspectSkill
  <2>1. read' \in 1..Len(Governed) /\ Governed[read'] \in Skills
    BY <1>8, GovernedAssumption DEF InspectSkill, ReleaseInv, SeenTyped, Skills
  <2>2. work.skills[Governed[read']] \in Versions BY <1>4, <2>1
  <2> QED
    BY <1>1, <1>2, <1>8, <2>1, <2>2 DEF InspectSkill, ReleaseInv, SeenTyped, HeadSeen,
       PolicySeen, PictureCommitted, ManifestLoaded, PlanMade
<1>9. CASE SourceState
  BY <1>1, <1>2, <1>3, <1>9 DEF SourceState, ReleaseInv, SeenTyped, HeadSeen, PolicySeen,
     PictureCommitted, ManifestLoaded, PlanMade
<1>10. CASE SourceHead
  BY <1>1, <1>2, <1>10 DEF SourceHead, SourceHeadHolds, seen, ReleaseInv, SeenTyped, HeadSeen,
     PolicySeen, PictureCommitted, ManifestLoaded, PlanMade
<1>11. CASE LoadManifest
  BY <1>1, <1>2, <1>5, <1>11 DEF LoadManifest, ReleaseInv, SeenTyped, HeadSeen, PolicySeen,
     PictureCommitted, ManifestLoaded, PlanMade
<1>12. CASE MirrorState
  BY <1>1, <1>2, <1>6, <1>12 DEF MirrorState, ReleaseInv, SeenTyped, HeadSeen, PolicySeen,
     PictureCommitted, ManifestLoaded, PlanMade
<1>13. CASE ReadHistory
  BY <1>1, <1>2, <1>13 DEF ReadHistory, seen, ReleaseInv, SeenTyped, HeadSeen, PolicySeen,
     PictureCommitted, ManifestLoaded, PlanMade
<1>14. CASE ReadFiles
  BY <1>1, <1>2, <1>5, <1>14 DEF ReadFiles, ReleaseInv, SeenTyped, HeadSeen, PolicySeen,
     PictureCommitted, ManifestLoaded, PlanMade
<1>15. CASE CheckCommit
  BY <1>1, <1>2, <1>15 DEF CheckCommit, seen, ReleaseInv, SeenTyped, HeadSeen, PolicySeen,
     PictureCommitted, ManifestLoaded, PlanMade
<1>16. CASE QueryTarget
  BY <1>1, <1>2, <1>16 DEF QueryTarget, seen, ReleaseInv, SeenTyped, HeadSeen, PolicySeen,
     PictureCommitted, ManifestLoaded, PlanMade
<1> QED
  BY <1>7, <1>8, <1>9, <1>10, <1>11, <1>12, <1>13, <1>14, <1>15, <1>16 DEF Read

---------------------------------------------------------------------------
(* A command makes its manifest past the source's HEAD, and installs it    *)

LEMMA TargetTyped == \A p \in Policies : p.target \in Targets
BY DEF Targets

LEMMA StartKeeps == ReleaseInv /\ (\E o \in {"apply", "adopt", "stage", "verify"} : Begin(o))
                      => ReleaseInv'
<1> SUFFICES ASSUME ReleaseInv, NEW o \in {"apply", "adopt", "stage", "verify"}, Begin(o)
             PROVE  ReleaseInv'
  OBVIOUS
<1>1. SourceTyped' /\ MirrorTyped' /\ ManifestsDeclared' BY ContextStays DEF Begin, seen
<1> QED
  BY <1>1 DEF Begin, seen, ReleaseInv, SeenTyped, HeadSeen, PolicySeen, PictureCommitted,
     ManifestLoaded, PlanMade, BeforeMirror, AfterMirror, Installing

LEMMA ReturnKeeps == ReleaseInv /\ Return => ReleaseInv'
<1> SUFFICES ASSUME ReleaseInv, Return PROVE ReleaseInv' OBVIOUS
<1>1. SourceTyped' /\ MirrorTyped' BY ContextStays DEF Return
<1>2. SeenTyped'
  <2>1. [s \in Skills |-> None] \in [Skills -> Versions \cup {None}] OBVIOUS
  <2>2. 0 \in 0..Len(Governed) BY GovernedAssumption
  <2> QED BY <2>1, <2>2 DEF Return, Forget, SeenTyped, NoPicture, Reviews
<1>3. ManifestsDeclared'
  BY DEF Return, Forget, ReleaseInv, ManifestsDeclared, Declared, sources, mirrors
<1> QED
  BY <1>1, <1>2, <1>3 DEF Return, ReleaseInv, HeadSeen, PolicySeen, PictureCommitted,
     ManifestLoaded, PlanMade, BeforeMirror, AfterMirror, Installing

\* What Verify, Stage and Decide make declares what is committed.
LEMMA DecisionKeeps == ReleaseInv /\ (Verify \/ Stage \/ Decide) => ReleaseInv'
<1> SUFFICES ASSUME ReleaseInv, Verify \/ Stage \/ Decide PROVE ReleaseInv' OBVIOUS
<1> USE DEF Check, GoOn, Refuse, Finish, BeforeMirror, AfterMirror, Installing
<1>1. /\ step = "decide" /\ UNCHANGED <<sources, mirrors, staging, op, picture, read, at, head, old>>
  BY DEF Verify, Stage, Decide, context
<1>2. /\ SourceTyped /\ MirrorTyped /\ SeenTyped /\ at \in Heads(source)
      /\ picture.policy \in Policies /\ picture.skills = source[at.head].files.skills
  BY <1>1 DEF ReleaseInv, HeadSeen, PolicySeen, PictureCommitted
<1>3. SourceTyped' /\ MirrorTyped' BY <1>1, ContextStays
<1>4. site \in MirrorFiles /\ remote \in Remotes /\ head \in Nat
  BY <1>2 DEF MirrorTyped, SeenTyped
<1>5. made' \in ManifestDocuments /\ DeclaresCommitted(made', source)
  <2>1. CASE Verify
    <3>1. old \in ManifestDocuments
      BY <1>1, <2>1 DEF Verify, ReleaseInv, ManifestLoaded, SeenTyped
    <3>2. /\ old.pre \in Nat \cup {None} /\ old.remote \in Remotes \cup {None}
          /\ old.paths \in SUBSET (Skills \cup {"manifest", "other"})
      BY <3>1 DEF ManifestDocuments
    <3> QED BY <1>2, <2>1, <3>2, ManifestDeclares, TargetTyped DEF Verify
  <2>2. CASE Stage
    <3>1. "not-performed" \in Targets BY DEF Targets
    <3> QED BY <1>2, <2>2, <3>1, ManifestDeclares DEF Stage
  <2>3. CASE Decide
    <3>1. Proposed \in Payloads
      <4>1. source[at.head] \in SourceCommits BY <1>2 DEF SourceTyped, Heads
      <4> QED BY <1>2, <4>1, PayloadTyped DEF Proposed, SourceCommits, SourceFiles
    <3>2. [site EXCEPT !.payload = Proposed] \in MirrorFiles BY <1>4, <3>1 DEF MirrorFiles
    <3>3. ExpectedPaths \in SUBSET (Skills \cup {"manifest", "other"})
      BY <1>4, <3>2, DifferingTyped DEF ExpectedPaths
    <3> QED BY <1>2, <1>4, <2>3, <3>3, ManifestDeclares, TargetTyped DEF Decide
  <2> QED BY <2>1, <2>2, <2>3
<1>6. base' = base \/ base' = site BY DEF Verify, Stage, Decide
<1>7. SeenTyped' BY <1>1, <1>2, <1>4, <1>5, <1>6 DEF SeenTyped
<1>8. ManifestsDeclared'
  <2>1. \A m : m = None \/ DeclaresCommitted(m, source) => m = None \/ DeclaresCommitted(m, source')
    BY <1>1 DEF sources
  <2> QED
    BY <1>1, <1>5, <1>6, <2>1 DEF ReleaseInv, ManifestsDeclared, Declared, sources, mirrors
<1>9. HeadSeen' /\ PolicySeen' /\ PictureCommitted' /\ ManifestLoaded'
  <2>1. step' \in {"done", "install"} BY DEF Verify, Stage, Decide
  <2> QED BY <2>1 DEF HeadSeen, PolicySeen, PictureCommitted, ManifestLoaded
<1>10. PlanMade'
  <2>1. step' # "confirm" /\ (step' = "install" /\ op' # "stage" => base' = site)
    BY <1>1 DEF Verify, Stage, Decide
  <2>2. Declared(site.manifest)' = Declared(site.manifest) /\ Declared(site.manifest)
    BY <1>1 DEF Declared, ReleaseInv, ManifestsDeclared, sources, mirrors
  <2> QED
    BY <1>1, <1>4, <1>5, <2>1, <2>2 DEF PlanMade, Declared, sources
<1> QED BY <1>3, <1>7, <1>8, <1>9, <1>10 DEF ReleaseInv

LEMMA InstallingKeeps ==
  ReleaseInv /\ (Differs \/ Install \/ InstallStaging \/ Confirm \/ RollBack) => ReleaseInv'
<1> SUFFICES ASSUME ReleaseInv, Differs \/ Install \/ InstallStaging \/ Confirm \/ RollBack
             PROVE  ReleaseInv'
  OBVIOUS
<1> USE DEF Check, GoOn, Refuse, Finish, BeforeMirror, AfterMirror, Installing
<1>1. /\ step \in Installing /\ step' \in {"done", "confirm"}
      /\ UNCHANGED <<sources, mirror, mirrorAt, remote, op, seen>>
  BY DEF Differs, Install, InstallStaging, Confirm, RollBack, context, mirrors
<1>2. made \in ManifestDocuments /\ Declared(made)
  BY <1>1 DEF ReleaseInv, PlanMade, ManifestsDeclared
<1>3. made.payload \in Payloads BY <1>2 DEF ManifestDocuments
<1>4. site \in MirrorFiles /\ Declared(site.manifest)
  BY DEF ReleaseInv, MirrorTyped, ManifestsDeclared
<1>5. step' = "confirm" => base \in MirrorFiles /\ Declared(base.manifest)
  BY <1>1 DEF Differs, Install, InstallStaging, Confirm, RollBack, ReleaseInv, PlanMade
<1>6. site' \in MirrorFiles /\ Declared(site'.manifest)
  <2>1. CASE Install BY <1>2, <1>3, <1>4, <2>1 DEF Install, MirrorFiles
  <2>2. CASE RollBack
    <3>1. base \in MirrorFiles /\ Declared(base.manifest)
      BY <2>2 DEF RollBack, ReleaseInv, PlanMade
    <3> QED BY <1>4, <2>2, <3>1 DEF RollBack, MirrorFiles
  <2>3. CASE Differs \/ InstallStaging \/ Confirm
    BY <1>4, <2>3 DEF Differs, InstallStaging, Confirm, context, mirrors
  <2> QED BY <2>1, <2>2, <2>3
<1>7. staging' # None => staging' \in StagedFiles /\ Declared(staging'.manifest)
  <2>1. CASE InstallStaging
    BY <1>2, <1>3, <2>1 DEF InstallStaging, StagedFiles, ReleaseInv, MirrorTyped, ManifestsDeclared
  <2>2. CASE Differs \/ Install \/ Confirm \/ RollBack
    BY <2>2 DEF Differs, Install, Confirm, RollBack, context, ReleaseInv, MirrorTyped,
                ManifestsDeclared
  <2> QED BY <2>1, <2>2
<1>8. SourceTyped' BY <1>1 DEF ReleaseInv, SourceTyped, sources
<1>9. MirrorTyped' BY <1>1, <1>6, <1>7 DEF ReleaseInv, MirrorTyped
<1>10. SeenTyped' BY <1>1 DEF ReleaseInv, SeenTyped, seen
<1>11. ManifestsDeclared'
  BY <1>1, <1>6, <1>7 DEF ReleaseInv, ManifestsDeclared, Declared, sources, seen
<1>12. PlanMade' BY <1>1, <1>2, <1>5 DEF PlanMade, Declared, sources, seen
<1> QED
  BY <1>1, <1>8, <1>9, <1>10, <1>11, <1>12 DEF ReleaseInv, HeadSeen, PolicySeen,
     PictureCommitted, ManifestLoaded

---------------------------------------------------------------------------
(* The owner                                                               *)

LEMMA OwnSourceKeeps == ReleaseInv /\ OwnSource => ReleaseInv'
<1> SUFFICES ASSUME ReleaseInv, OwnSource PROVE ReleaseInv' OBVIOUS
<1>1. UNCHANGED <<mirrors, staging, op, step, seen>>
  BY DEF OwnSource, Edit, Redistribute, Approve, CommitSource, CheckoutSource, ActOnSource, Act
<1>2. /\ work \in SourceFiles /\ source \in Seq(SourceCommits) /\ sourceAt \in Heads(source)
  BY DEF ReleaseInv, SourceTyped
<1>3. /\ work' \in SourceFiles /\ sourceAt' \in Heads(source')
      /\ \/ UNCHANGED source
         \/ \E c \in SourceCommits : source' = Append(source, c)
  <2>1. ASSUME NEW s \in Skills, NEW v \in Versions, Edit(s, v)
        PROVE  work' \in SourceFiles /\ UNCHANGED <<source, sourceAt>>
    BY <1>2, <2>1 DEF Edit, SourceFiles
  <2>2. ASSUME NEW p \in Policies, Redistribute(p)
        PROVE  work' \in SourceFiles /\ UNCHANGED <<source, sourceAt>>
    BY <1>2, <2>2 DEF Redistribute, SourceFiles
  <2>3. ASSUME Approve PROVE work' \in SourceFiles /\ UNCHANGED <<source, sourceAt>>
    <3>1. Subject(work) \in Reviews /\ None \in Reviews BY <1>2, SubjectTyped DEF Reviews
    <3> QED BY <1>2, <2>3, <3>1 DEF Approve, SourceFiles
  <2>4. ASSUME NEW skills \in [Skills -> Versions], CommitSource(skills)
        PROVE  /\ work' = work /\ sourceAt' \in Heads(source')
               /\ \E c \in SourceCommits : source' = Append(source, c)
    <3> DEFINE c == [files |-> [work EXCEPT !.skills = skills], parent |-> sourceAt.head]
    <3>1. c \in SourceCommits
      <4>1. c.files \in SourceFiles BY <1>2 DEF SourceFiles
      <4>2. sourceAt.head \in Nat BY <1>2 DEF Heads
      <4> QED BY <4>1, <4>2 DEF SourceCommits
    <3>2. source' = Append(source, c) /\ work' = work
          /\ sourceAt' = [sourceAt EXCEPT !.head = Len(source) + 1]
      BY <2>4 DEF CommitSource
    <3>3. Len(source') = Len(source) + 1 /\ Len(source) \in Nat
      <4> HIDE DEF c
      <4> QED BY <1>2, <3>1, <3>2
    <3>4. sourceAt' \in Heads(source') BY <1>2, <3>2, <3>3 DEF Heads
    <3> QED BY <3>1, <3>2, <3>4
  <2>5. ASSUME NEW i \in 1..Len(source), NEW b \in Branches, CheckoutSource(i, b)
        PROVE  work' \in SourceFiles /\ sourceAt' \in Heads(source) /\ UNCHANGED source
    <3>1. source[i] \in SourceCommits BY <1>2
    <3> QED BY <2>5, <3>1 DEF CheckoutSource, SourceCommits, SourceAt, Heads
  <2> QED BY <1>2, <2>1, <2>2, <2>3, <2>4, <2>5 DEF OwnSource
<1>4. source' \in Seq(SourceCommits) /\ Len(source) \in Nat /\ Len(source') \in Nat
      /\ Len(source) <= Len(source')
      /\ \A i \in 1..Len(source) : source'[i] = source[i]
  BY <1>2, <1>3
<1>5. \A m : Declared(m) => m = None \/ DeclaresCommitted(m, source')
  BY <1>4 DEF Declared, DeclaresCommitted
<1>6. ManifestsDeclared'
  <2>1. UNCHANGED <<mirror, site, made, staging, base>> BY <1>1 DEF mirrors, seen
  <2> QED BY <1>5, <2>1 DEF ReleaseInv, ManifestsDeclared, Declared
<1>7. SourceTyped' BY <1>3, <1>4 DEF SourceTyped
<1>8. MirrorTyped' /\ SeenTyped'
  BY <1>1 DEF ReleaseInv, MirrorTyped, SeenTyped, mirrors, seen
<1>9. HeadSeen' BY <1>1, <1>4 DEF ReleaseInv, HeadSeen, Heads, seen
<1>10. PictureCommitted'
  <2>1. ASSUME step' \in BeforeMirror \cup AfterMirror
        PROVE  picture'.skills = source'[at'.head].files.skills
    <3>1. at.head \in 1..Len(source) BY <1>1, <2>1 DEF ReleaseInv, HeadSeen, Heads
    <3> QED BY <1>1, <1>4, <2>1, <3>1 DEF ReleaseInv, PictureCommitted, seen
  <2> QED BY <2>1 DEF PictureCommitted
<1>11. PlanMade' BY <1>1, <1>5 DEF ReleaseInv, PlanMade, Declared, seen
<1> QED
  BY <1>1, <1>6, <1>7, <1>8, <1>9, <1>10, <1>11 DEF ReleaseInv, PolicySeen, ManifestLoaded, seen

\* What a commit of the mirror may hold: its files, but for the payload.
LEMMA CommittableTyped ==
  ASSUME site \in MirrorFiles, NEW files \in Committable
  PROVE  files \in MirrorFiles /\ files.manifest = site.manifest
BY DEF Committable, MirrorFiles

LEMMA OwnMirrorKeeps == ReleaseInv /\ OwnMirror => ReleaseInv'
<1> SUFFICES ASSUME ReleaseInv, OwnMirror PROVE ReleaseInv' OBVIOUS
<1>1. UNCHANGED <<sources, op, step, seen>>
  BY DEF OwnMirror, CommitMirror, Amend, CommitOver, CheckoutMirror, Tamper, Redirect, Reveal,
         Restage, ActOnMirror, Act
<1>2. /\ site \in MirrorFiles /\ mirror \in Seq(MirrorCommits) /\ mirrorAt \in Heads(mirror)
      /\ Declared(site.manifest)
      /\ \A i \in 1..Len(mirror) : Declared(mirror[i].files.manifest)
      /\ staging # None => staging \in StagedFiles /\ Declared(staging.manifest)
  BY DEF ReleaseInv, MirrorTyped, ManifestsDeclared
<1>3. /\ mirrorAt.head \in 1..Len(mirror) /\ mirrorAt.head \in Nat
      /\ mirror[mirrorAt.head].parent \in Nat
  <2>1. mirrorAt.head \in 1..Len(mirror) BY <1>2 DEF Heads
  <2>2. mirror[mirrorAt.head] \in MirrorCommits BY <1>2, <2>1
  <2> QED BY <2>1, <2>2 DEF MirrorCommits
<1> DEFINE Kept ==
      /\ site' \in MirrorFiles /\ mirror' \in Seq(MirrorCommits) /\ mirrorAt' \in Heads(mirror')
      /\ Declared(site'.manifest)
      /\ \A i \in 1..Len(mirror') : Declared(mirror'[i].files.manifest)
      /\ staging' # None => staging' \in StagedFiles /\ Declared(staging'.manifest)
      /\ remote' \in Remotes
<1>4. ASSUME NEW parent \in Nat, NEW files \in Committable, NEW next,
             CommitOver(parent, files, next)
      PROVE  Kept
  <2> DEFINE c == [files |-> files, parent |-> parent]
  <2>1. c \in MirrorCommits /\ Declared(c.files.manifest)
    BY <1>2, CommittableTyped DEF MirrorCommits
  <2>2. /\ mirror' = Append(mirror, c)
        /\ mirrorAt' = [mirrorAt EXCEPT !.head = Len(mirror) + 1]
        /\ UNCHANGED <<site, remote, staging>>
    BY <1>4 DEF CommitOver, ActOnMirror
  <2> HIDE DEF c
  <2>3. /\ mirror' \in Seq(MirrorCommits) /\ Len(mirror') = Len(mirror) + 1
        /\ Len(mirror) \in Nat
        /\ \A i \in 1..Len(mirror') :
             (mirror'[i] = mirror[i] /\ i \in 1..Len(mirror)) \/ mirror'[i] = c
    BY <1>2, <2>1, <2>2
  <2>4. mirrorAt' \in Heads(mirror') BY <1>2, <2>2, <2>3 DEF Heads
  <2> QED BY <1>2, <2>1, <2>2, <2>3, <2>4 DEF ReleaseInv, MirrorTyped
<1>5. ASSUME NEW i \in 1..Len(mirror), NEW b \in Branches, CheckoutMirror(i, b) PROVE Kept
  <2>1. mirror[i] \in MirrorCommits BY <1>2
  <2> QED
    BY <1>2, <1>5, <2>1 DEF CheckoutMirror, ActOnMirror, MirrorCommits, SourceAt, Heads,
       ReleaseInv, MirrorTyped
<1>6. ASSUME NEW next \in Tampered, Tamper(next) PROVE Kept
  <2>1. next \in MirrorFiles /\ Declared(next.manifest)
    <3>1. ASSUME NEW s \in Skills, NEW v \in Versions,
                 next = WithSkill(s, v)
          PROVE  next \in MirrorFiles /\ Declared(next.manifest)
      <4> DEFINE payload == [t \in DOMAIN site.payload \cup {s} |-> IF t = s THEN v ELSE site.payload[t]]
      <4>1. PICK members \in SUBSET Skills : site.payload \in [members -> Versions]
        BY <1>2 DEF MirrorFiles, Payloads
      <4>2. payload \in [members \cup {s} -> Versions] /\ members \cup {s} \in SUBSET Skills
        BY <4>1
      <4>3. payload \in Payloads BY <4>2 DEF Payloads
      <4>4. next = [site EXCEPT !.payload = payload] BY <3>1 DEF WithSkill
      <4> HIDE DEF payload
      <4> QED BY <1>2, <4>3, <4>4 DEF MirrorFiles
    <3>2. ASSUME next = [site EXCEPT !.other = 1 - @]
          PROVE  next \in MirrorFiles /\ Declared(next.manifest)
      BY <1>2, <3>2 DEF MirrorFiles
    <3>3. ASSUME next = [site EXCEPT !.manifest = None]
          PROVE  next \in MirrorFiles /\ Declared(next.manifest)
      BY <1>2, <3>3 DEF MirrorFiles, Declared
    <3>4. ASSUME staging # None,
                 next = [site EXCEPT !.payload = staging.payload, !.manifest = staging.manifest]
          PROVE  next \in MirrorFiles /\ Declared(next.manifest)
      BY <1>2, <3>4 DEF MirrorFiles, StagedFiles
    <3>5. CASE next \in {WithSkill(s, v) : s \in Skills, v \in Versions} BY <3>1, <3>5
    <3>6. CASE next \in IF staging = None THEN {}
                       ELSE {[site EXCEPT !.payload = staging.payload, !.manifest = staging.manifest]}
      BY <3>4, <3>6
    <3> QED BY <3>2, <3>3, <3>5, <3>6 DEF Tampered
  <2> QED BY <1>2, <1>6, <2>1 DEF Tamper, ActOnMirror, ReleaseInv, MirrorTyped
<1>7. ASSUME NEW r \in Remotes, Redirect(r) \/ Reveal PROVE Kept
  BY <1>2, <1>7 DEF Redirect, Reveal, ActOnMirror, ReleaseInv, MirrorTyped
<1>8. ASSUME Restage PROVE Kept
  <2>1. NoPayload \in Payloads
    <3>1. NoPayload \in [{} -> Versions] BY DEF NoPayload
    <3> QED BY <3>1 DEF Payloads
  <2> QED
    BY <1>2, <1>8, <2>1 DEF Restage, mirrors, StagedFiles, Declared, ReleaseInv, MirrorTyped
<1>9. Kept
  BY <1>3, <1>4, <1>5, <1>6, <1>7, <1>8 DEF OwnMirror, CommitMirror, Amend, Remotes
<1>10. MirrorTyped' BY <1>9 DEF MirrorTyped
<1>11. ManifestsDeclared'
  BY <1>1, <1>9 DEF ReleaseInv, ManifestsDeclared, Declared, sources, seen
<1> QED
  BY <1>1, <1>10, <1>11 DEF ReleaseInv, SourceTyped, SeenTyped, HeadSeen, PolicySeen,
     PictureCommitted, ManifestLoaded, PlanMade, Declared, sources, seen

LEMMA StepRelease == ReleaseInv /\ [Next]_vars => ReleaseInv'
<1>1. ReleaseInv /\ UNCHANGED vars => ReleaseInv'
  BY DEF vars, ReleaseInv, SourceTyped, MirrorTyped, SeenTyped, HeadSeen, PolicySeen,
     PictureCommitted, ManifestLoaded, PlanMade, ManifestsDeclared, Declared, sources, mirrors, seen
<1> QED
  BY <1>1, StartKeeps, ReadKeeps, DecisionKeeps, InstallingKeeps, ReturnKeeps, OwnSourceKeeps,
     OwnMirrorKeeps DEF Next, Write

\* No manifest a release leaves anywhere declares anything but what the commit
\* it names holds, however many skills, members and commits there are and
\* whatever the owner does meanwhile (workflows.py:1436).
THEOREM PayloadsAreCommitted == Spec => []PayloadIsCommitted
<1>1. ReleaseInv => PayloadIsCommitted
  <2> SUFFICES ASSUME ReleaseInv, NEW m \in Manifests \ {None} PROVE DeclaresCommitted(m, source)
    BY DEF PayloadIsCommitted
  <2> QED BY DEF Manifests, ReleaseInv, ManifestsDeclared, Declared
<1> QED BY <1>1, InitRelease, StepRelease, PTL DEF Spec

---------------------------------------------------------------------------
(* A release verify that nobody disturbs                                   *)

Verified == step = "done" /\ result = "verified"
Passed(steps) == step \in steps \/ Verified

\* The facts it has established when it gets somewhere.
SourceSeen ==
  /\ picture.skills = work.skills /\ picture.policy = work.policy /\ picture.review = work.review
  /\ work.review = Subject(work)
  /\ at = sourceAt
SourceCommitted == work = source[sourceAt.head].files
ManifestSeen == old = site.manifest /\ SourceAt(old.source, old.branch) = at
MirrorSeen == head = mirrorAt.head /\ MirrorClean /\ mirrorAt.branch = "main"

SkillsSeen ==
  /\ picture.policy = work.policy /\ picture.review = work.review
  /\ \A i \in 1..read : picture.skills[Governed[i]] = work.skills[Governed[i]]

Established ==
  op = "verify" /\ quiet =>
    /\ step = "skills" => SkillsSeen
    /\ Passed({"sourceHead"} \cup BeforeMirror \cup AfterMirror) => SourceSeen
    /\ Passed(BeforeMirror \cup AfterMirror) => SourceCommitted
    /\ Passed({"mirrorState"} \cup AfterMirror) => ManifestSeen
    /\ Passed(AfterMirror) => MirrorSeen
    /\ Passed(AfterMirror \ {"history"}) => Lineage
    /\ Passed({"commit", "target", "decide"}) => FilesHold(old)
    /\ Passed({"target", "decide"}) => ReleaseCommit(old)
    /\ Passed({"decide"}) => TargetHolds
    /\ Verified => old.payload = Payload(picture.skills, picture.policy.members)

\* A command starts with nothing read and no result.
NothingYet ==
  /\ step \in {"idle", "governance"} => read = 0
  /\ step # "done" => result = "none"

VerifyInv == ReleaseInv /\ Established /\ NothingYet

\* What it has established stays so while nothing is written.
LEMMA FactsStay ==
  ASSUME UNCHANGED <<sources, mirrors, op, picture, at, head, old>>
  PROVE  /\ SourceSeen' = SourceSeen /\ SourceCommitted' = SourceCommitted
         /\ ManifestSeen' = ManifestSeen /\ MirrorSeen' = MirrorSeen
         /\ Lineage' = Lineage /\ FilesHold(old)' = FilesHold(old)
         /\ ReleaseCommit(old)' = ReleaseCommit(old) /\ TargetHolds' = TargetHolds
<1> USE DEF sources, mirrors
<1>1. SourceSeen' = SourceSeen /\ SourceCommitted' = SourceCommitted
  BY DEF SourceSeen, SourceCommitted, Subject
<1>2. ManifestSeen' = ManifestSeen BY DEF ManifestSeen
<1>3. MirrorSeen' = MirrorSeen BY DEF MirrorSeen, MirrorClean
<1>4. Recorded' = Recorded
  <2>1. History' = History BY DEF History, ManifestBefore
  <2> QED BY <2>1 DEF Recorded
<1>5. Lineage' = Lineage BY <1>4 DEF Lineage
<1>6. FilesHold(old)' = FilesHold(old) BY DEF FilesHold
<1>7. ReleaseCommit(old)' = ReleaseCommit(old) BY DEF ReleaseCommit
<1>8. TargetHolds' = TargetHolds
  BY <1>4 DEF TargetHolds, RemoteBinding, TargetVisible, TargetLineage
<1> QED BY <1>1, <1>2, <1>3, <1>5, <1>6, <1>7, <1>8

\* The queries of the source see what it holds, one skill after the other.
LEMMA GovernanceIsSeen ==
  ASSUME ReleaseInv, NothingYet, InspectGovernance
  PROVE  SkillsSeen'
<1>1. /\ read = 0 /\ picture' = [picture EXCEPT !.policy = work.policy, !.review = work.review]
      /\ read' = read /\ UNCHANGED work
  BY DEF NothingYet, InspectGovernance, context, sources
<1>2. picture'.policy = work.policy /\ picture'.review = work.review
  BY <1>1 DEF ReleaseInv, SeenTyped
<1> QED BY <1>1, <1>2 DEF SkillsSeen

LEMMA SkillIsSeen ==
  ASSUME ReleaseInv, SkillsSeen, InspectSkill
  PROVE  SkillsSeen'
<1>1. /\ read' = read + 1 /\ read \in Nat /\ read' \in 1..Len(Governed) /\ UNCHANGED work
      /\ picture' = [picture EXCEPT !.skills[Governed[read']] = work.skills[Governed[read']]]
  BY GovernedAssumption DEF InspectSkill, ReleaseInv, SeenTyped, context, sources
<1>2. \A i \in 1..read' : Governed[i] \in Skills
  BY <1>1, GovernedAssumption DEF Skills
<1>3. /\ picture'.policy = picture.policy /\ picture'.review = picture.review
      /\ picture'.skills[Governed[read']] = work.skills[Governed[read']]
      /\ \A s \in Skills : s # Governed[read'] => picture'.skills[s] = picture.skills[s]
  BY <1>1, <1>2 DEF ReleaseInv, SeenTyped
<1>4. \A i \in 1..read' : i = read' \/ i \in 1..read BY <1>1
<1>5. \A i \in 1..read' : picture'.skills[Governed[i]] = work.skills[Governed[i]]
  BY <1>2, <1>3, <1>4 DEF SkillsSeen
<1> QED BY <1>1, <1>3, <1>5 DEF SkillsSeen

LEMMA AllSkillsSeen ==
  ASSUME ReleaseInv, SkillsSeen, read = Len(Governed)
  PROVE  picture.skills = work.skills
<1>1. \A s \in Skills : picture.skills[s] = work.skills[s] BY DEF SkillsSeen, Skills
<1>2. picture.skills \in [Skills -> Versions \cup {None}] /\ work.skills \in [Skills -> Versions]
  BY DEF ReleaseInv, SeenTyped, SourceTyped, SourceFiles
<1> QED BY <1>1, <1>2

LEMMA SourceIsSeen ==
  ASSUME ReleaseInv, NothingYet, SkillsSeen, SourceState, step' = "sourceHead"
  PROVE  SourceSeen'
<1>1. step = "skills" /\ read = Len(Governed) /\ Ready(picture) /\ at' = sourceAt
      /\ UNCHANGED <<picture, work, source, sourceAt>>
  BY DEF SourceState, Check, GoOn, Refuse, Finish, context, sources
<1>2. picture.skills = work.skills BY <1>1, AllSkillsSeen
<1>3. work.review = Subject(work) BY <1>1, <1>2 DEF Ready, Subject, SkillsSeen
<1> QED BY <1>1, <1>2, <1>3 DEF SourceSeen, Subject, SkillsSeen

\* The comparison with the raw files of HEAD sees that they are those in place.
LEMMA CommitIsSeen ==
  ASSUME ReleaseInv, SourceSeen, SourceHeadHolds
  PROVE  SourceCommitted
<1>1. source[sourceAt.head] \in SourceCommits BY DEF ReleaseInv, SourceTyped, Heads
<1>2. work \in SourceFiles /\ source[sourceAt.head].files \in SourceFiles
  BY <1>1 DEF ReleaseInv, SourceTyped, SourceCommits
<1> QED BY <1>2 DEF SourceSeen, SourceHeadHolds, SourceCommitted, SourceFiles

\* A query establishes one fact more.
LEMMA ReadEstablishes == VerifyInv /\ Read => Established'
<1> SUFFICES ASSUME VerifyInv, Read, op' = "verify", quiet' PROVE Established'
  BY DEF Established
<1> USE DEF Check, GoOn, Refuse, Finish, BeforeMirror, AfterMirror, Passed, Verified
<1>1. UNCHANGED <<sources, mirrors, op, quiet, made>>
  BY DEF Read, InspectGovernance, InspectSkill, SourceState, SourceHead, LoadManifest,
         MirrorState, ReadHistory, ReadFiles, CheckCommit, QueryTarget, context, seen, owner
<1>2. op = "verify" /\ quiet BY <1>1
<1>3. Established /\ NothingYet /\ ReleaseInv BY DEF VerifyInv
<1>4. step # "done" /\ result = "none"
  BY <1>3 DEF NothingYet, Read, InspectGovernance, InspectSkill, SourceState, SourceHead,
     LoadManifest, MirrorState, ReadHistory, ReadFiles, CheckCommit, QueryTarget
<1>5. result' \in {"none", "refused"}
  BY <1>4 DEF Read, InspectGovernance, InspectSkill, SourceState, SourceHead, LoadManifest,
     MirrorState, ReadHistory, ReadFiles, CheckCommit, QueryTarget
<1>6. CASE InspectGovernance
  <2>1. step' = "skills" /\ SkillsSeen'
    BY <1>3, <1>6, GovernanceIsSeen DEF InspectGovernance
  <2> QED BY <2>1 DEF Established
<1>7. CASE InspectSkill
  <2>1. step = "skills" /\ step' = "skills" BY <1>7 DEF InspectSkill
  <2>2. SkillsSeen' BY <1>2, <1>3, <1>7, <2>1, SkillIsSeen DEF Established
  <2> QED BY <2>1, <2>2 DEF Established
<1>8. CASE SourceState
  <2>1. step = "skills" /\ step' \in {"sourceHead", "done"} BY <1>8 DEF SourceState
  <2>2. step' = "sourceHead" => SourceSeen'
    BY <1>2, <1>3, <1>8, <2>1, SourceIsSeen DEF Established
  <2> QED BY <1>5, <2>1, <2>2 DEF Established
<1>9. CASE InspectGovernance \/ InspectSkill \/ SourceState BY <1>6, <1>7, <1>8, <1>9
<1> DEFINE Later == SourceHead \/ LoadManifest \/ MirrorState \/ ReadHistory \/ ReadFiles
                    \/ CheckCommit \/ QueryTarget
<1>10. CASE Later
  <2>1. SourceSeen
    BY <1>2, <1>3, <1>10 DEF Established, SourceHead, LoadManifest, MirrorState, ReadHistory,
       ReadFiles, CheckCommit, QueryTarget
  <2>2. UNCHANGED <<picture, read, at>>
    BY <1>10 DEF SourceHead, LoadManifest, MirrorState, ReadHistory, ReadFiles, CheckCommit,
       QueryTarget, seen
  <2>3. SourceSeen' BY <1>1, <2>1, <2>2 DEF SourceSeen, Subject, sources
  <2>9. step' # "done" => SourceCommitted'
    <3>1. SourceHead /\ step' # "done" => SourceHeadHolds BY DEF SourceHead
    <3>2. ~SourceHead => SourceCommitted
      BY <1>2, <1>3, <1>10 DEF Established, LoadManifest, MirrorState, ReadHistory, ReadFiles,
         CheckCommit, QueryTarget
    <3>3. SourceCommitted' = SourceCommitted BY <1>1 DEF SourceCommitted, sources
    <3> QED BY <1>3, <2>1, <3>1, <3>2, <3>3, CommitIsSeen
  <2>4. CASE SourceHead
    <3>1. step' \in {"manifest", "done"} BY <1>2, <2>4 DEF SourceHead
    <3> QED BY <1>5, <2>3, <2>9, <3>1 DEF Established
  <2>5. CASE LoadManifest
    <3>1. step' = "mirrorState" => ManifestSeen'
      BY <1>1, <2>2, <2>5 DEF LoadManifest, ManifestSeen, SourceAt, mirrors
    <3>2. step' \in {"mirrorState", "done"} BY <2>5 DEF LoadManifest
    <3> QED BY <1>5, <2>3, <2>9, <3>1, <3>2 DEF Established
  <2>6. CASE MirrorState
    <3>1. step = "mirrorState" /\ old' = old /\ head' = mirrorAt.head BY <2>6 DEF MirrorState
    <3>2. ManifestSeen' BY <1>1, <1>2, <1>3, <2>2, <3>1 DEF Established, ManifestSeen, mirrors
    <3>3. step' = "history" => MirrorSeen'
      BY <1>1, <2>6 DEF MirrorState, MirrorSeen, MirrorClean, mirrors
    <3>4. step' \in {"history", "done"} BY <2>6 DEF MirrorState
    <3> QED BY <1>5, <2>3, <2>9, <3>2, <3>3, <3>4 DEF Established
  <2>7. CASE ReadHistory \/ ReadFiles \/ CheckCommit \/ QueryTarget
    <3>1. UNCHANGED <<head, old>>
      BY <1>2, <2>7 DEF ReadHistory, ReadFiles, CheckCommit, QueryTarget, seen
    <3>2. /\ ManifestSeen' = ManifestSeen /\ MirrorSeen' = MirrorSeen
          /\ Lineage' = Lineage /\ FilesHold(old)' = FilesHold(old)
          /\ ReleaseCommit(old)' = ReleaseCommit(old) /\ TargetHolds' = TargetHolds
      BY <1>1, <2>2, <3>1, FactsStay
    <3>3. CASE ReadHistory
      <4>1. step = "history" /\ step' \in {"files", "done"} /\ (step' = "files" => Lineage)
        BY <3>3 DEF ReadHistory
      <4> QED BY <1>2, <1>3, <1>5, <2>3, <2>9, <3>2, <4>1 DEF Established
    <3>4. CASE ReadFiles
      <4>1. /\ step = "files" /\ step' \in {"commit", "done"}
            /\ step' = "commit" => FilesHold(old)
        BY <1>2, <3>4 DEF ReadFiles
      <4> QED BY <1>2, <1>3, <1>5, <2>3, <2>9, <3>2, <4>1 DEF Established
    <3>5. CASE CheckCommit
      <4>1. step = "commit" /\ step' \in {"target", "done"} /\ (step' = "target" => ReleaseCommit(old))
        BY <3>5 DEF CheckCommit
      <4> QED BY <1>2, <1>3, <1>5, <2>3, <2>9, <3>2, <4>1 DEF Established
    <3>6. CASE QueryTarget
      <4>1. step = "target" /\ step' \in {"decide", "done"} /\ (step' = "decide" => TargetHolds)
        BY <3>6 DEF QueryTarget
      <4> QED BY <1>2, <1>3, <1>5, <2>3, <2>9, <3>2, <4>1 DEF Established
    <3> QED BY <2>7, <3>3, <3>4, <3>5, <3>6
  <2> QED BY <1>10, <2>4, <2>5, <2>6, <2>7
<1> QED BY <1>9, <1>10 DEF Read

LEMMA VerifyEstablishes == VerifyInv /\ Verify => Established'
<1> SUFFICES ASSUME VerifyInv, Verify, quiet' PROVE Established' BY DEF Established
<1> USE DEF Refuse, Finish, BeforeMirror, AfterMirror, Passed, Verified
<1>1. /\ op = "verify" /\ step = "decide" /\ step' = "done"
      /\ UNCHANGED <<sources, mirrors, op, quiet, picture, read, at, head, old>>
  BY DEF Verify, context, owner
<1>2. /\ SourceSeen /\ SourceCommitted /\ ManifestSeen /\ MirrorSeen /\ Lineage
      /\ FilesHold(old) /\ ReleaseCommit(old) /\ TargetHolds
  BY <1>1 DEF VerifyInv, Established
<1>3. (SourceSeen /\ SourceCommitted /\ ManifestSeen /\ MirrorSeen /\ Lineage /\ FilesHold(old)
      /\ ReleaseCommit(old) /\ TargetHolds)'
  BY <1>1, <1>2, FactsStay
<1>4. result' = "verified" => old'.payload = Payload(picture'.skills, picture'.policy.members)
  <2>1. CASE site.manifest = made'
    <3>1. old.payload = made'.payload BY <1>2, <2>1 DEF ManifestSeen
    <3> QED BY <1>1, <3>1 DEF Verify, Manifest
  <2>2. CASE site.manifest # made' BY <2>2 DEF Verify
  <2> QED BY <2>1, <2>2
<1> QED BY <1>1, <1>3, <1>4 DEF Established

LEMMA StepEstablishes == VerifyInv /\ [Next]_vars => Established'
<1> SUFFICES ASSUME VerifyInv, [Next]_vars, op' = "verify", quiet' PROVE Established'
  BY DEF Established
<1> USE DEF Refuse, Finish, GoOn, Check, BeforeMirror, AfterMirror, Passed, Verified
<1>1. ASSUME NEW o \in {"apply", "adopt", "stage", "verify"}, Begin(o) PROVE Established'
  BY <1>1 DEF Begin, VerifyInv, NothingYet, Established
<1>2. CASE Write
  <2>1. step' = "done" /\ result' # "verified"
    BY <1>2 DEF Write, Stage, Decide, Differs, Install, InstallStaging, Confirm, RollBack, context
  <2> QED BY <2>1 DEF Established
<1>3. CASE Return BY <1>3 DEF Return
<1>4. CASE OwnSource \/ OwnMirror
  BY <1>4 DEF OwnSource, OwnMirror, Edit, Redistribute, Approve, CommitSource, CheckoutSource,
     CommitMirror, Amend, CommitOver, CheckoutMirror, Tamper, Redirect, Reveal, Restage,
     ActOnSource, ActOnMirror, Act
<1>5. CASE UNCHANGED vars
  <2>1. UNCHANGED <<sources, mirrors, op, picture, at, head, old, step, result, read, quiet>>
    BY <1>5 DEF vars, seen, owner
  <2>2. SkillsSeen' = SkillsSeen BY <2>1 DEF SkillsSeen, sources
  <2> QED BY <2>1, <2>2, FactsStay DEF VerifyInv, Established
<1> QED
  BY <1>1, <1>2, <1>3, <1>4, <1>5, ReadEstablishes, VerifyEstablishes DEF Next

LEMMA StepNothingYet == NothingYet /\ [Next]_vars => NothingYet'
<1> SUFFICES ASSUME NothingYet, [Next]_vars PROVE NothingYet' OBVIOUS
<1> USE DEF NothingYet, Refuse, Finish, GoOn, Check
<1>1. ASSUME NEW o \in {"apply", "adopt", "stage", "verify"}, Begin(o) PROVE NothingYet'
  BY <1>1 DEF Begin, seen
<1>2. CASE Read \/ Verify
  BY <1>2 DEF Read, Verify, InspectGovernance, InspectSkill, SourceState, SourceHead, LoadManifest,
     MirrorState, ReadHistory, ReadFiles, CheckCommit, QueryTarget
<1>3. CASE Write
  BY <1>3 DEF Write, Stage, Decide, Differs, Install, InstallStaging, Confirm, RollBack
<1>4. CASE Return BY <1>4 DEF Return, Forget
<1>5. CASE OwnSource \/ OwnMirror
  BY <1>5 DEF OwnSource, OwnMirror, Edit, Redistribute, Approve, CommitSource, CheckoutSource,
     CommitMirror, Amend, CommitOver, CheckoutMirror, Tamper, Redirect, Reveal, Restage,
     ActOnSource, ActOnMirror, Act, seen
<1>6. CASE UNCHANGED vars BY <1>6 DEF vars, seen
<1> QED BY <1>1, <1>2, <1>3, <1>4, <1>5, <1>6 DEF Next

\* A release verify that nobody disturbs succeeds only on the reviewed release
\* of an unbroken lineage, for any histories of source and mirror, whatever was
\* done to them before (workflows.py:1177).
THEOREM VerifiedReleasesAreReviewed == Spec => []VerifiedIsReviewed
<1>1. Init => VerifyInv
  <2>1. Init => Established /\ NothingYet
    BY DEF Init, Established, NothingYet
  <2> QED BY <2>1, InitRelease DEF VerifyInv
<1>2. VerifyInv /\ [Next]_vars => VerifyInv'
  BY StepRelease, StepEstablishes, StepNothingYet DEF VerifyInv
<1>3. VerifyInv => VerifiedIsReviewed
  <2> SUFFICES ASSUME VerifyInv, Undisturbed("verify", "verified") PROVE VerifiedIsReviewed
    BY DEF VerifiedIsReviewed
  <2>1. op = "verify" /\ quiet /\ Verified
    BY DEF Undisturbed, Verified, VerifyInv, NothingYet
  <2>2. /\ SourceSeen /\ SourceCommitted /\ ManifestSeen /\ MirrorSeen /\ Lineage
        /\ FilesHold(old) /\ ReleaseCommit(old) /\ TargetHolds
        /\ old.payload = Payload(picture.skills, picture.policy.members)
    BY <2>1 DEF VerifyInv, Established, Passed
  <2> DEFINE h == mirror[mirrorAt.head]
             c == source[sourceAt.head].files
  <2>3. h.files.manifest = old BY <2>2 DEF ManifestSeen, MirrorSeen, MirrorClean
  <2>4. h.files.payload = Payload(c.skills, c.policy.members) /\ c.review = Subject(c)
    BY <2>2 DEF SourceSeen, SourceCommitted, Subject, FilesHold, MirrorSeen
  <2>5. old.source = sourceAt.head BY <2>2 DEF ManifestSeen, SourceSeen, SourceAt
  <2>6. h.parent = old.pre /\ h.files.other = mirror[h.parent].files.other
    BY <2>2 DEF ReleaseCommit, Differing
  <2>7. remote = old.remote /\ visible /\ mirrorAt.branch = "main"
    BY <2>1, <2>2 DEF TargetHolds, RemoteBinding, TargetVisible, MirrorSeen
  <2>8. \A n \in Recorded :
          /\ n.policy.audience = c.policy.audience /\ n.target = c.policy.target
          /\ n.source \in Ancestors(source, sourceAt.head)
    BY <2>2 DEF Lineage, TargetHolds, TargetLineage, SourceSeen, SourceCommitted
  <2> QED BY <2>3, <2>4, <2>5, <2>6, <2>7, <2>8 DEF VerifiedIsReviewed
<1> QED BY <1>1, <1>2, <1>3, PTL DEF Spec

---------------------------------------------------------------------------
(* A release that was applied and committed verifies                       *)

Releasing == {"apply", "adopt"}
ToMirror == Releasing \cup {"verify"}

\* The owner has done nothing to the source since the command began.
SourceQuiet == quiet \/ prepared # "no"

\* What a command knows of the source and of the mirror while it is so.
Known ==
  SourceQuiet =>
    /\ step = "skills" => SkillsSeen
    /\ step \in {"sourceHead"} \cup BeforeMirror \cup AfterMirror => SourceSeen
    /\ step \in BeforeMirror \cup AfterMirror => SourceCommitted
    /\ op \in ToMirror =>
         /\ step \in AfterMirror => MirrorSeen
         /\ step \in AfterMirror \ {"history"} => Lineage
    /\ op \in Releasing =>
         /\ step \in {"commit", "target", "decide"} => old = site.manifest
         /\ step = "decide" => TargetHolds

\* A release of the subject the source has, bound to the remote of the mirror.
Describes(m) ==
  /\ m \in ManifestDocuments
  /\ m.source = sourceAt.head /\ m.branch = sourceAt.branch
  /\ m.payload = Payload(work.skills, work.policy.members)
  /\ m.policy = work.policy /\ m.review = work.review
  /\ m.remote = remote /\ m.target = work.policy.target

\* What planning has made sure of.
SourceReady == work.review = Subject(work) /\ work = source[sourceAt.head].files
LineageKept ==
  \A n \in Recorded :
    /\ n.policy.audience = work.policy.audience /\ n.target = work.policy.target
    /\ n.source \in Ancestors(source, sourceAt.head)
Planned ==
  /\ SourceReady /\ LineageKept
  /\ mirrorAt.branch = "main" /\ remote \in Aliases /\ visible

\* m is a release over the HEAD of the mirror, which holds another manifest.
OverHead(m) ==
  LET before == mirror[mirrorAt.head].files IN
  /\ Describes(m) /\ before.manifest # m
  /\ m.pre = mirrorAt.head
  /\ m.paths = Differing(before, [before EXCEPT !.payload = m.payload]) \cup {"manifest"}

Put(files, m) == [files EXCEPT !.payload = m.payload, !.manifest = m]

\* Git held exactly the skills the plan replaces.
ExactBase == base.payload = mirror[mirrorAt.head].files.payload

\* A release in the making that nobody has disturbed, up to its last check.
Making ==
  quiet /\ op \in Releasing /\ step \in Installing /\ ExactBase =>
    LET before == mirror[mirrorAt.head].files IN
    /\ Planned /\ OverHead(made) /\ base = before
    /\ site = IF step = "install" THEN before ELSE Put(before, made)

\* A release that stands in the mirror's files, or in its HEAD.
Standing ==
  /\ prepared # "no" =>
       /\ Planned /\ Describes(site.manifest)
       /\ site.payload = site.manifest.payload
       /\ op \in Releasing => step \notin Installing
  /\ prepared = "applied" =>
       OverHead(site.manifest) /\ site = Put(mirror[mirrorAt.head].files, site.manifest)
  /\ prepared = "committed" =>
       site = mirror[mirrorAt.head].files /\ ReleaseCommit(site.manifest)

\* Every commit follows its parent.
ParentsFirst == \A i \in 1..Len(mirror) : mirror[i].parent < i

OnlyReleasesConfirm == step = "confirm" => op \in Releasing

PreparedInv ==
  /\ VerifyInv /\ ParentsFirst /\ OnlyReleasesConfirm /\ Known /\ Making /\ Standing
  /\ prepared \in {"no", "applied", "committed"} /\ PreparedReleaseVerifies

---------------------------------------------------------------------------
(* Histories                                                               *)

LEMMA AncestorItself ==
  ASSUME NEW commits, NEW i \in 1..Len(commits)
  PROVE  i \in Ancestors(commits, i)
BY DEF Ancestors

\* A new commit descends from its parent and from what its parent descends from.
LEMMA AncestorsOfNext ==
  ASSUME ParentsFirst, mirror \in Seq(MirrorCommits), NEW i \in 1..Len(mirror),
         NEW c \in MirrorCommits, c.parent = i
  PROVE  Ancestors(Append(mirror, c), Len(mirror) + 1)
           \subseteq Ancestors(mirror, i) \cup {Len(mirror) + 1}
<1> DEFINE n == Len(mirror) + 1
           longer == Append(mirror, c)
           set == Ancestors(mirror, i) \cup {n}
<1>1. /\ Len(mirror) \in Nat /\ Len(longer) = n /\ longer[n] = c
      /\ \A k \in 1..Len(mirror) : longer[k] = mirror[k] /\ mirror[k] \in MirrorCommits
  OBVIOUS
<1>2. set \in SUBSET (1..Len(longer)) /\ n \in set BY <1>1 DEF Ancestors
<1>3. ASSUME NEW m \in set PROVE longer[m].parent \in set \cup {0}
  <2>1. CASE m = n BY <1>1, <2>1, AncestorItself
  <2>2. CASE m \in Ancestors(mirror, i)
    <3>1. m \in 1..Len(mirror) /\ longer[m].parent = mirror[m].parent
      BY <1>1, <2>2 DEF Ancestors
    <3>2. mirror[m].parent \in Nat /\ mirror[m].parent < m
      BY <1>1, <3>1 DEF ParentsFirst, MirrorCommits
    <3>3. ASSUME mirror[m].parent # 0 PROVE mirror[m].parent \in Ancestors(mirror, i)
      <4>1. mirror[m].parent \in 1..Len(mirror) BY <3>1, <3>2, <3>3
      <4>2. ASSUME NEW other \in SUBSET (1..Len(mirror)), i \in other,
                   \A k \in other : mirror[k].parent \in other \cup {0}
            PROVE  mirror[m].parent \in other
        <5>1. m \in other BY <2>2, <4>2 DEF Ancestors
        <5> QED BY <3>3, <4>2, <5>1
      <4> QED BY <4>1, <4>2 DEF Ancestors
    <3> QED BY <3>1, <3>3
  <2> QED BY <1>3, <2>1, <2>2
<1> HIDE DEF set, longer, n
<1>4. Ancestors(longer, n) \subseteq set BY <1>2, <1>3 DEF Ancestors
<1> QED BY <1>4 DEF set, longer, n

\* Committing the mirror's files adds their manifest to the recorded ones.
LEMMA CommitRecords ==
  ASSUME ReleaseInv, ParentsFirst, CommitOver(mirrorAt.head, site, prepared')
  PROVE  Recorded' \subseteq Recorded \cup {site.manifest}
<1> DEFINE c == [files |-> site, parent |-> mirrorAt.head]
           n == Len(mirror) + 1
<1>1. /\ mirror \in Seq(MirrorCommits) /\ site \in MirrorFiles
      /\ mirrorAt.head \in 1..Len(mirror) /\ mirrorAt.head \in Nat
  BY DEF ReleaseInv, MirrorTyped, Heads
<1>2. c \in MirrorCommits /\ c.parent = mirrorAt.head /\ c.files = site BY <1>1 DEF MirrorCommits
<1>3. mirror' = Append(mirror, c) /\ mirrorAt'.head = n BY DEF CommitOver, ReleaseInv, MirrorTyped, Heads
<1> HIDE DEF c, n
<1>4. /\ mirror'[n] = c
      /\ \A k \in 1..Len(mirror) : mirror'[k] = mirror[k] /\ mirror[k] \in MirrorCommits
  BY <1>1, <1>2, <1>3 DEF n
<1>5. Ancestors(mirror', n) \subseteq Ancestors(mirror, mirrorAt.head) \cup {n}
  BY <1>1, <1>2, <1>3, AncestorsOfNext DEF n
<1>6. ASSUME NEW k \in History' PROVE mirror'[k].files.manifest \in Recorded \cup {site.manifest}
  <2>1. k \in Ancestors(mirror, mirrorAt.head) \cup {n} BY <1>3, <1>5, <1>6 DEF History
  <2>2. CASE k = n BY <1>2, <1>4, <2>2
  <2>3. CASE k \in Ancestors(mirror, mirrorAt.head)
    <3>1. k \in 1..Len(mirror) /\ mirror'[k] = mirror[k] BY <1>4, <2>3 DEF Ancestors
    <3>2. mirror[k].parent \in Nat /\ mirror[k].parent < k
      BY <1>4, <3>1 DEF ParentsFirst, MirrorCommits
    <3>3. mirror[k].parent # 0 => mirror'[mirror[k].parent] = mirror[mirror[k].parent]
      BY <1>1, <1>4, <3>1, <3>2
    <3>4. ManifestBefore(k)' = ManifestBefore(k) BY <3>1, <3>3 DEF ManifestBefore
    <3>5. k \in History BY <1>6, <2>3, <3>1, <3>4 DEF History
    <3> QED BY <3>1, <3>5 DEF Recorded
  <2> QED BY <2>1, <2>2, <2>3
<1> QED BY <1>6 DEF Recorded

LEMMA StepParents == ReleaseInv /\ ParentsFirst /\ [Next]_vars => ParentsFirst'
<1> SUFFICES ASSUME ReleaseInv, ParentsFirst, [Next]_vars PROVE ParentsFirst' OBVIOUS
<1>1. /\ mirror \in Seq(MirrorCommits) /\ site \in MirrorFiles /\ Len(mirror) \in Nat
      /\ mirrorAt.head \in 1..Len(mirror)
  BY DEF ReleaseInv, MirrorTyped, Heads
<1>2. ASSUME NEW parent \in Nat, NEW files, NEW next, parent <= Len(mirror),
             CommitOver(parent, files, next)
      PROVE  ParentsFirst'
  <2>1. /\ Len(mirror') = Len(mirror) + 1
        /\ \A k \in 1..Len(mirror) : mirror'[k] = mirror[k]
        /\ mirror'[Len(mirror) + 1].parent = parent
    BY <1>1, <1>2 DEF CommitOver
  <2>2. \A k \in 1..Len(mirror') : k \in 1..Len(mirror) \/ k = Len(mirror) + 1 BY <1>1, <2>1
  <2> QED BY <1>1, <1>2, <2>1, <2>2 DEF ParentsFirst
<1> DEFINE Committing == \E files \in Committable : CommitMirror(files)
           Amending == \E files \in Committable : Amend(files)
<1>3. CASE Committing BY <1>1, <1>2, <1>3 DEF CommitMirror
<1>4. CASE Amending
  <2>1. mirror[mirrorAt.head] \in MirrorCommits BY <1>1
  <2>2. mirror[mirrorAt.head].parent \in Nat BY <2>1 DEF MirrorCommits
  <2>3. mirror[mirrorAt.head].parent < mirrorAt.head BY <1>1 DEF ParentsFirst
  <2>4. mirror[mirrorAt.head].parent <= Len(mirror) BY <1>1, <2>2, <2>3
  <2> QED BY <1>2, <1>4, <2>2, <2>4 DEF Amend
<1>5. CASE ~(Committing \/ Amending)
  <2>1. UNCHANGED mirror
    BY <1>5 DEF Next, vars, mirrors, sources, seen, context, Begin, Read, Verify, Write, Return, Stage, Decide,
       Differs, Install, InstallStaging, Confirm, RollBack, InspectGovernance, InspectSkill,
       SourceState, SourceHead, LoadManifest, MirrorState, ReadHistory, ReadFiles, CheckCommit,
       QueryTarget, OwnSource, OwnMirror, Edit, Redistribute, Approve, CommitSource,
       CheckoutSource, CheckoutMirror, Tamper, Redirect, Reveal, Restage, ActOnSource
  <2> QED BY <2>1 DEF ParentsFirst
<1> QED BY <1>3, <1>4, <1>5

\* What a release changes in the files of the mirror.
LEMMA PutDiffers ==
  ASSUME NEW before \in MirrorFiles, NEW m \in ManifestDocuments, before.manifest # m
  PROVE  /\ Put(before, m).payload = m.payload /\ Put(before, m).manifest = m
         /\ Differing(before, Put(before, m))
              = Differing(before, [before EXCEPT !.payload = m.payload]) \cup {"manifest"}
         /\ "other" \notin Differing(before, Put(before, m))
<1>1. /\ Put(before, m).payload = m.payload /\ Put(before, m).manifest = m
      /\ Put(before, m).other = before.other
  BY DEF Put, MirrorFiles
<1>2. LET now == [before EXCEPT !.payload = m.payload] IN
        now.payload = m.payload /\ now.manifest = before.manifest /\ now.other = before.other
  BY DEF MirrorFiles
<1>3. DOMAIN before.payload \subseteq Skills /\ DOMAIN m.payload \subseteq Skills
  BY DEF MirrorFiles, ManifestDocuments, Payloads
<1>4. Differing(before, Put(before, m))
        = Differing(before, [before EXCEPT !.payload = m.payload]) \cup {"manifest"}
  BY <1>1, <1>2 DEF Differing
<1>5. "other" \notin Differing(before, Put(before, m)) BY <1>1, <1>3, NamesAssumption DEF Differing
<1> QED BY <1>1, <1>4, <1>5

---------------------------------------------------------------------------
(* From a plan nobody disturbs to the release that stands                  *)

LEMMA HistoryStays ==
  ASSUME UNCHANGED <<mirror, mirrorAt>>
  PROVE  /\ Recorded' = Recorded /\ WithinLimit' = WithinLimit
         /\ \A m : ReleaseCommit(m)' = ReleaseCommit(m)
<1>1. History' = History BY DEF History, ManifestBefore
<1> QED BY <1>1 DEF Recorded, WithinLimit, ReleaseCommit

\* What is planned does not hang on the mirror's files.
LEMMA PlannedStays ==
  ASSUME UNCHANGED <<sources, mirror, mirrorAt, remote, visible>>
  PROVE  Planned' = Planned
<1>1. Recorded' = Recorded BY HistoryStays
<1>2. LineageKept' = LineageKept BY <1>1 DEF LineageKept, sources
<1> QED BY <1>2 DEF Planned, SourceReady, Subject, sources

\* A release stays while nothing is written.
LEMMA StandingStays ==
  ASSUME Standing, UNCHANGED <<sources, mirrors, prepared>>,
         prepared # "no" /\ op' \in Releasing => step' \notin Installing
  PROVE  Standing'
<1>1. Planned' = Planned BY PlannedStays DEF mirrors
<1>2. ReleaseCommit(site.manifest)' = ReleaseCommit(site.manifest)
  BY HistoryStays DEF mirrors, ReleaseCommit
<1>3. Describes(site.manifest)' = Describes(site.manifest) BY DEF Describes, sources, mirrors
<1>4. OverHead(site.manifest)' = OverHead(site.manifest)
  BY <1>3 DEF OverHead, sources, mirrors
<1> QED BY <1>1, <1>2, <1>3, <1>4 DEF Standing, mirrors

\* The manifest of a release that stands, past the source's HEAD.
LEMMA StandingIsSeen ==
  ASSUME SourceSeen, NEW m, Describes(m)
  PROVE  /\ m.source = at.head /\ m.branch = at.branch
         /\ m.payload = Payload(picture.skills, picture.policy.members)
         /\ m.policy = picture.policy /\ m.review = picture.review
         /\ m.target = picture.policy.target /\ m # None
BY NamesAssumption DEF SourceSeen, Describes

\* A release that is decided on is over the HEAD of the mirror.
LEMMA DecidePlans ==
  ASSUME ReleaseInv, ReleaseInv', SourceSeen, SourceCommitted, MirrorSeen, Lineage, TargetHolds,
         old = site.manifest, site = mirror[mirrorAt.head].files, Decide, step' = "install"
  PROVE  Planned /\ OverHead(made')
<1>1. /\ made' = Manifest(head, remote, picture.policy.target, ExpectedPaths)
      /\ ~(old # None /\ ReleaseId(old) = ReleaseId(made'))
      /\ UNCHANGED <<picture, at>>
  BY DEF Decide, GoOn, Finish, Refuse
<1>2. made' \in ManifestDocuments BY DEF ReleaseInv, PlanMade, Installing
<1>3. /\ made'.source = at.head /\ made'.branch = at.branch /\ made'.payload = Proposed
      /\ made'.policy = picture.policy /\ made'.review = picture.review
      /\ made'.pre = head /\ made'.remote = remote /\ made'.target = picture.policy.target
      /\ made'.paths = ExpectedPaths
  BY <1>1 DEF Manifest, Proposed
<1>4. Describes(made') BY <1>2, <1>3 DEF Describes, SourceSeen, Proposed
<1>5. head = mirrorAt.head BY DEF MirrorSeen
<1>6. site.manifest # made' BY <1>1, <1>2, NamesAssumption
<1>7. OverHead(made') BY <1>3, <1>4, <1>5, <1>6 DEF OverHead, ExpectedPaths
<1>8. SourceReady BY DEF SourceReady, SourceSeen, SourceCommitted
<1>9. LineageKept BY DEF LineageKept, Lineage, TargetHolds, TargetLineage, SourceSeen
<1>10. mirrorAt.branch = "main" /\ remote \in Aliases /\ visible
  BY DEF MirrorSeen, TargetHolds, RemoteBinding, TargetVisible
<1> QED BY <1>7, <1>8, <1>9, <1>10 DEF Planned

\* A release that is installed already is not installed again.
LEMMA StandingIsCurrent ==
  ASSUME SourceSeen, Describes(site.manifest), old = site.manifest, Decide
  PROVE  step' = "done"
<1>1. made' = Manifest(head, remote, picture.policy.target, ExpectedPaths) BY DEF Decide
<1>2. /\ made'.source = at.head /\ made'.policy = picture.policy
      /\ made'.review = picture.review
      /\ made'.payload = Payload(picture.skills, picture.policy.members)
  BY <1>1 DEF Manifest
<1>3. old # None /\ ReleaseId(old) = ReleaseId(made')
  BY <1>2, StandingIsSeen DEF ReleaseId
<1> QED BY <1>3 DEF Decide, Finish, Refuse

\* Committing a release that was applied over the HEAD makes it the HEAD's.
LEMMA CommitStands ==
  ASSUME ReleaseInv, ParentsFirst, Standing, prepared = "applied", CommitMirror(site),
         prepared' = "committed"
  PROVE  Standing'
<1> DEFINE m == site.manifest
           n == Len(mirror) + 1
           before == mirror[mirrorAt.head].files
<1>1. /\ CommitOver(mirrorAt.head, site, prepared') /\ UNCHANGED <<site, remote, visible, op, step, sources>>
      /\ mirror' = Append(mirror, [files |-> site, parent |-> mirrorAt.head])
      /\ mirrorAt' = [mirrorAt EXCEPT !.head = n]
  BY DEF CommitMirror, CommitOver, ActOnMirror, Act
<1>2. /\ mirror \in Seq(MirrorCommits) /\ mirrorAt \in Heads(mirror) /\ Len(mirror) \in Nat
      /\ mirrorAt.head \in 1..Len(mirror)
  BY DEF ReleaseInv, MirrorTyped, Heads
<1>3. before \in MirrorFiles
  <2>1. mirror[mirrorAt.head] \in MirrorCommits BY <1>2
  <2> QED BY <2>1 DEF MirrorCommits
<1>4. /\ Planned /\ OverHead(m) /\ site = Put(before, m) /\ Describes(m)
      /\ site.payload = m.payload
      /\ op \in Releasing => step \notin Installing
  BY DEF Standing
<1>5. mirrorAt'.head = n /\ mirrorAt'.branch = mirrorAt.branch BY <1>1, <1>2 DEF Heads
<1>6. /\ mirror'[n].files = site /\ mirror'[n].parent = mirrorAt.head
      /\ mirror'[mirrorAt.head].files = before
  BY <1>1, <1>2
<1>7. ReleaseCommit(m)'
  <2>1. m \in ManifestDocuments /\ before.manifest # m /\ m.pre = mirrorAt.head
        /\ m.paths = Differing(before, [before EXCEPT !.payload = m.payload]) \cup {"manifest"}
    BY <1>4 DEF OverHead, Describes
  <2>2. /\ Differing(before, site) = m.paths /\ "other" \notin Differing(before, site)
        /\ "manifest" \in Differing(before, site)
    BY <1>3, <1>4, <2>1, PutDiffers
  <2>3. m' = m BY <1>1
  <2> HIDE DEF m, n, before
  <2> QED BY <1>2, <1>5, <1>6, <2>1, <2>2, <2>3 DEF ReleaseCommit
<1>8. Describes(m)' BY <1>1, <1>4 DEF Describes, sources
<1>9. Planned'
  <2>1. Recorded' \subseteq Recorded \cup {m} BY <1>1, CommitRecords
  <2>2. /\ m.policy = work.policy /\ m.target = work.policy.target /\ m.source = sourceAt.head
    BY <1>4 DEF Describes
  <2>3. sourceAt.head \in Ancestors(source, sourceAt.head)
    BY AncestorItself DEF ReleaseInv, SourceTyped, Heads
  <2>4. \A r \in Recorded \cup {m} :
          /\ r.policy.audience = work.policy.audience /\ r.target = work.policy.target
          /\ r.source \in Ancestors(source, sourceAt.head)
    BY <1>4, <2>2, <2>3 DEF Planned, LineageKept
  <2>5. UNCHANGED <<work, source, sourceAt, remote, visible>> BY <1>1 DEF sources
  <2> HIDE DEF m
  <2>6. LineageKept' BY <2>1, <2>4, <2>5 DEF LineageKept
  <2>7. SourceReady' BY <1>4, <2>5 DEF Planned, SourceReady, Subject
  <2> QED BY <1>4, <1>5, <2>5, <2>6, <2>7 DEF Planned
<1>10. site' = mirror'[mirrorAt'.head].files BY <1>1, <1>5, <1>6
<1> QED BY <1>1, <1>4, <1>7, <1>8, <1>9, <1>10 DEF Standing

---------------------------------------------------------------------------
(* What a command knows, and what stands, at every step                    *)

\* A query that nothing disturbs learns one thing more.
LEMMA ReadKnows == PreparedInv /\ Read => Known'
<1> SUFFICES ASSUME PreparedInv, Read, SourceQuiet' PROVE Known' BY DEF Known
<1> USE DEF Check, GoOn, Refuse, Finish, BeforeMirror, AfterMirror
<1>1. UNCHANGED <<sources, mirrors, op, quiet, prepared>>
  BY DEF Read, InspectGovernance, InspectSkill, SourceState, SourceHead, LoadManifest,
         MirrorState, ReadHistory, ReadFiles, CheckCommit, QueryTarget, context, seen, owner
<1>2. SourceQuiet /\ Known /\ ReleaseInv /\ NothingYet
  BY <1>1 DEF SourceQuiet, PreparedInv, VerifyInv
<1>3. CASE InspectGovernance
  <2>1. step' = "skills" /\ SkillsSeen' BY <1>2, <1>3, GovernanceIsSeen DEF InspectGovernance
  <2> QED BY <2>1 DEF Known
<1>4. CASE InspectSkill
  <2>1. step = "skills" /\ step' = "skills" BY <1>4 DEF InspectSkill
  <2>2. SkillsSeen' BY <1>2, <1>4, <2>1, SkillIsSeen DEF Known
  <2> QED BY <2>1, <2>2 DEF Known
<1>5. CASE SourceState
  <2>1. step = "skills" /\ step' \in {"sourceHead", "done"} BY <1>5 DEF SourceState
  <2>2. step' = "sourceHead" => SourceSeen' BY <1>2, <1>5, <2>1, SourceIsSeen DEF Known
  <2> QED BY <2>1, <2>2 DEF Known
<1> DEFINE Later == SourceHead \/ LoadManifest \/ MirrorState \/ ReadHistory \/ ReadFiles
                    \/ CheckCommit \/ QueryTarget
<1>6. CASE Later
  <2>1. SourceSeen
    BY <1>2, <1>6 DEF Known, SourceHead, LoadManifest, MirrorState, ReadHistory, ReadFiles,
       CheckCommit, QueryTarget
  <2>2. UNCHANGED <<picture, at>>
    BY <1>6 DEF SourceHead, LoadManifest, MirrorState, ReadHistory, ReadFiles, CheckCommit,
       QueryTarget, seen
  <2>3. SourceSeen' BY <1>1, <2>1, <2>2 DEF SourceSeen, Subject, sources
  <2>8. step' # "done" => SourceCommitted'
    <3>1. SourceHead /\ step' # "done" => SourceHeadHolds BY DEF SourceHead
    <3>2. ~SourceHead => SourceCommitted
      BY <1>2, <1>6 DEF Known, LoadManifest, MirrorState, ReadHistory, ReadFiles, CheckCommit,
         QueryTarget
    <3>3. SourceCommitted' = SourceCommitted BY <1>1 DEF SourceCommitted, sources
    <3> QED BY <1>2, <2>1, <3>1, <3>2, <3>3, CommitIsSeen
  <2>4. CASE SourceHead
    <3>1. step' \in {"manifest", "decide", "mirrorState", "done"} /\ (step' = "decide" => op = "stage")
      BY <2>4 DEF SourceHead
    <3> QED BY <1>1, <2>3, <2>8, <3>1 DEF Known, ToMirror, Releasing
  <2>5. CASE LoadManifest
    <3>1. step' \in {"mirrorState", "done"} BY <2>5 DEF LoadManifest
    <3> QED BY <2>3, <2>8, <3>1 DEF Known
  <2>6. CASE MirrorState
    <3>1. step' \in {"history", "done"} /\ (step' = "history" => MirrorSeen')
      BY <1>1, <2>6 DEF MirrorState, MirrorSeen, MirrorClean, mirrors
    <3> QED BY <2>3, <2>8, <3>1 DEF Known
  <2>7. CASE ReadHistory \/ ReadFiles \/ CheckCommit \/ QueryTarget
    <3>1. UNCHANGED head BY <2>7 DEF ReadHistory, ReadFiles, CheckCommit, QueryTarget, seen
    <3>2. Recorded' = Recorded BY <1>1, HistoryStays DEF mirrors
    <3>3. MirrorSeen' = MirrorSeen BY <1>1, <3>1 DEF MirrorSeen, MirrorClean, mirrors
    <3>4. Lineage' = Lineage BY <1>1, <2>2, <3>2 DEF Lineage, sources
    <3>5. /\ op \in ToMirror => MirrorSeen
          /\ op \in ToMirror /\ step # "history" => Lineage
      BY <1>2, <2>7 DEF Known, ReadHistory, ReadFiles, CheckCommit, QueryTarget
    <3>6. op' = op BY <1>1
    <3>7. CASE ReadHistory
      <4>1. step' \in {"files", "done"} /\ (step' = "files" => Lineage)
        BY <3>7 DEF ReadHistory
      <4> QED BY <2>3, <2>8, <3>3, <3>4, <3>5, <3>6, <4>1 DEF Known
    <3>8. CASE ReadFiles
      <4>1. /\ step = "files" /\ step' \in {"commit", "target", "done"}
            /\ op \in Releasing => old' = site.manifest
        BY <3>8 DEF ReadFiles, Releasing
      <4>2. site' = site BY <1>1 DEF mirrors
      <4> QED BY <2>3, <2>8, <3>3, <3>4, <3>5, <3>6, <4>1, <4>2 DEF Known
    <3>9. CASE CheckCommit
      <4>1. step = "commit" /\ step' \in {"target", "done"} /\ UNCHANGED <<old, site>>
        BY <1>1, <3>9 DEF CheckCommit, seen, mirrors
      <4>2. op \in Releasing => old = site.manifest BY <1>2, <4>1 DEF Known
      <4> QED BY <2>3, <2>8, <3>3, <3>4, <3>5, <3>6, <4>1, <4>2 DEF Known
    <3>10. CASE QueryTarget
      <4>1. /\ step = "target" /\ step' \in {"decide", "done"} /\ UNCHANGED <<old, site>>
            /\ step' = "decide" => TargetHolds
        BY <1>1, <3>10 DEF QueryTarget, seen, mirrors
      <4>2. op \in Releasing => old = site.manifest BY <1>2, <4>1 DEF Known
      <4>3. TargetHolds' = TargetHolds
        BY <1>1, <2>2, <3>2, <4>1
        DEF TargetHolds, RemoteBinding, TargetVisible, TargetLineage, mirrors
      <4> QED BY <2>3, <2>8, <3>3, <3>4, <3>5, <3>6, <4>1, <4>2, <4>3 DEF Known
    <3> QED BY <2>7, <3>7, <3>8, <3>9, <3>10
  <2> QED BY <1>6, <2>4, <2>5, <2>6, <2>7
<1> QED BY <1>3, <1>4, <1>5, <1>6 DEF Read

PreparedSteps == Known /\ Making /\ Standing

LEMMA CommandPrepares ==
  PreparedInv /\ ReleaseInv' /\ (Read \/ Verify \/ Write \/ Return) => PreparedSteps'
<1> SUFFICES ASSUME PreparedInv, ReleaseInv', Read \/ Verify \/ Write \/ Return
             PROVE  PreparedSteps'
  OBVIOUS
<1> USE DEF GoOn, Refuse, Finish, Check
<1>1. /\ ReleaseInv /\ ParentsFirst /\ OnlyReleasesConfirm /\ Known /\ Making /\ Standing
  BY DEF PreparedInv, VerifyInv
<1>2. CASE Read
  <2>1. UNCHANGED <<sources, mirrors, prepared>> /\ step' \notin Installing
    BY <1>2 DEF Read, InspectGovernance, InspectSkill, SourceState, SourceHead, LoadManifest,
       MirrorState, ReadHistory, ReadFiles, CheckCommit, QueryTarget, context, owner, Installing
  <2>2. Standing' BY <1>1, <2>1, StandingStays
  <2>3. Making' BY <2>1 DEF Making
  <2> QED BY <1>2, <2>2, <2>3, ReadKnows DEF PreparedSteps
<1>3. CASE Verify \/ Differs \/ InstallStaging \/ Return
  <2>1. /\ UNCHANGED <<sources, mirrors, prepared>> /\ step' \in {"done", "idle"}
    BY <1>3 DEF Verify, Differs, InstallStaging, Return, context, owner
  <2>2. Standing' BY <1>1, <2>1, StandingStays DEF Installing
  <2>3. Known' /\ Making' BY <2>1 DEF Known, Making, BeforeMirror, AfterMirror, Installing
  <2> QED BY <2>2, <2>3 DEF PreparedSteps
<1>4. CASE Stage
  <2>1. /\ UNCHANGED <<sources, mirrors, op, prepared>> /\ step' \in {"done", "install"}
        /\ op = "stage"
    BY <1>4 DEF Stage, context, owner
  <2>2. Standing' BY <1>1, <2>1, StandingStays DEF Releasing
  <2>3. Known' /\ Making'
    BY <2>1 DEF Known, Making, BeforeMirror, AfterMirror, Installing, Releasing
  <2> QED BY <2>2, <2>3 DEF PreparedSteps
<1>5. CASE Decide
  <2>1. /\ UNCHANGED <<sources, mirrors, op, quiet, prepared, old>> /\ op \in Releasing
        /\ step = "decide" /\ step' \in {"done", "install"} /\ base' = site
    BY <1>5 DEF Decide, context, owner, Releasing
  <2>2. SourceQuiet =>
          /\ SourceSeen /\ SourceCommitted /\ MirrorSeen /\ Lineage /\ TargetHolds
          /\ old = site.manifest
    BY <1>1, <2>1 DEF Known, AfterMirror, ToMirror
  <2>3. prepared # "no" => step' = "done"
    BY <1>1, <1>5, <2>2, StandingIsCurrent DEF Standing, SourceQuiet
  <2>4. Standing' BY <1>1, <2>1, <2>3, StandingStays DEF Installing
  <2>5. ASSUME quiet', step' \in Installing, ExactBase' PROVE
          LET before == mirror[mirrorAt.head].files IN
          /\ Planned /\ OverHead(made') /\ base' = before /\ site = before /\ step' = "install"
    <3>1. step' = "install" /\ quiet BY <2>1, <2>5 DEF Installing
    <3>2. /\ SourceSeen /\ SourceCommitted /\ MirrorSeen /\ Lineage /\ TargetHolds
          /\ old = site.manifest
      BY <2>2, <3>1 DEF SourceQuiet
    <3>3. site = mirror[mirrorAt.head].files
      <4>1. mirror[mirrorAt.head] \in MirrorCommits /\ site \in MirrorFiles
        BY <1>1 DEF ReleaseInv, MirrorTyped, Heads
      <4>2. site.payload = mirror[mirrorAt.head].files.payload
        BY <2>1, <2>5 DEF ExactBase, mirrors
      <4> QED BY <3>2, <4>1, <4>2 DEF MirrorSeen, MirrorClean, MirrorCommits, MirrorFiles
    <3> QED BY <1>1, <1>5, <2>1, <3>1, <3>2, <3>3, DecidePlans
  <2>6. Making'
    <3>1. Planned' = Planned BY <2>1, PlannedStays DEF mirrors
    <3>2. OverHead(made)' = OverHead(made')
      BY <2>1 DEF OverHead, Describes, sources, mirrors
    <3> QED BY <2>1, <2>5, <3>1, <3>2 DEF Making, mirrors
  <2>7. Known' BY <2>1 DEF Known, BeforeMirror, AfterMirror
  <2> QED BY <2>4, <2>6, <2>7 DEF PreparedSteps
<1>6. CASE Install
  <2>1. /\ UNCHANGED <<sources, mirror, mirrorAt, remote, visible, op, made, base, quiet, prepared>>
        /\ op \in Releasing /\ step = "install" /\ step' \in {"done", "confirm"}
        /\ step' = "confirm" /\ site = base => site' = Put(site, made)
        /\ UNCHANGED <<sources, mirror, mirrorAt>>
    BY <1>1, <1>6 DEF Install, seen, owner, Releasing, Put, ReleaseInv, MirrorTyped, MirrorFiles
  <2>2. prepared = "no" BY <1>1, <2>1 DEF Standing, Installing
  <2>3. Standing' BY <2>1, <2>2 DEF Standing
  <2>4. Known' BY <2>1 DEF Known, BeforeMirror, AfterMirror
  <2>5. Planned' = Planned BY <2>1, PlannedStays
  <2>6. OverHead(made)' = OverHead(made) BY <2>1 DEF OverHead, Describes, sources
  <2>7. Making' BY <1>1, <2>1, <2>5, <2>6 DEF Making, Installing, ExactBase
  <2> QED BY <2>3, <2>4, <2>7 DEF PreparedSteps
<1>7. CASE Confirm
  <2>1. /\ UNCHANGED <<sources, mirrors, op, made>> /\ step = "confirm" /\ step' = "done"
        /\ prepared' = IF quiet /\ ExactBase THEN "applied" ELSE "no"
    BY <1>7 DEF Confirm, seen, ExactBase
  <2>2. op \in Releasing BY <1>1, <2>1 DEF OnlyReleasesConfirm
  <2>3. Known' /\ Making' BY <2>1 DEF Known, Making, BeforeMirror, AfterMirror, Installing
  <2>4. CASE quiet /\ ExactBase
    <3> DEFINE before == mirror[mirrorAt.head].files
    <3>1. Planned /\ OverHead(made) /\ site = Put(before, made)
      BY <1>1, <2>1, <2>2, <2>4 DEF Making, Installing
    <3>2. before \in MirrorFiles
      <4>1. mirror[mirrorAt.head] \in MirrorCommits BY <1>1 DEF ReleaseInv, MirrorTyped, Heads
      <4> QED BY <4>1 DEF MirrorCommits
    <3>3. Describes(made) /\ made \in ManifestDocuments /\ before.manifest # made
      BY <3>1 DEF OverHead, Describes
    <3>4. site.manifest = made /\ site.payload = made.payload BY <3>1, <3>2, <3>3, PutDiffers
    <3>5. Planned' BY <2>1, <3>1, PlannedStays DEF mirrors
    <3>6. /\ Describes(site.manifest)' /\ OverHead(site.manifest)'
          /\ site'.payload = site'.manifest.payload
          /\ site' = Put(mirror'[mirrorAt'.head].files, site'.manifest)
      BY <2>1, <3>1, <3>3, <3>4 DEF Describes, OverHead, sources, mirrors
    <3>7. Standing' BY <2>1, <2>4, <3>5, <3>6 DEF Standing, Installing
    <3> QED BY <2>3, <3>7 DEF PreparedSteps
  <2>5. CASE ~(quiet /\ ExactBase) BY <2>1, <2>3, <2>5 DEF PreparedSteps, Standing
  <2> QED BY <2>4, <2>5
<1>8. CASE RollBack
  <2>1. step = "confirm" /\ step' = "done" /\ prepared' = prepared
    BY <1>8 DEF RollBack, owner
  <2>2. prepared = "no" BY <1>1, <2>1 DEF Standing, OnlyReleasesConfirm, Installing
  <2> QED BY <2>1, <2>2
      DEF PreparedSteps, Standing, Known, Making, BeforeMirror, AfterMirror, Installing
<1> QED BY <1>2, <1>3, <1>4, <1>5, <1>6, <1>7, <1>8 DEF Write

LEMMA OwnerPrepares == PreparedInv /\ (OwnSource \/ OwnMirror) => PreparedSteps'
<1> SUFFICES ASSUME PreparedInv, OwnSource \/ OwnMirror PROVE PreparedSteps' OBVIOUS
<1>1. /\ ReleaseInv /\ ParentsFirst /\ Known /\ Standing
      /\ prepared \in {"no", "applied", "committed"}
  BY DEF PreparedInv, VerifyInv
<1>2. ~quiet' /\ UNCHANGED <<op, step, seen>>
  BY DEF OwnSource, OwnMirror, Edit, Redistribute, Approve, CommitSource, CheckoutSource,
     CommitMirror, Amend, CommitOver, CheckoutMirror, Tamper, Redirect, Reveal, Restage,
     ActOnSource, ActOnMirror, Act
<1>3. prepared' = "no" \/ (prepared = "applied" /\ CommitMirror(site) /\ prepared' = "committed")
  BY DEF OwnSource, OwnMirror, Edit, Redistribute, Approve, CommitSource, CheckoutSource,
     CommitMirror, Amend, CommitOver, CheckoutMirror, Tamper, Redirect, Reveal, Restage,
     ActOnSource, ActOnMirror, Act
<1>4. CASE prepared' = "no"
  BY <1>2, <1>4 DEF PreparedSteps, Known, Making, Standing, SourceQuiet
<1>5. CASE prepared = "applied" /\ CommitMirror(site) /\ prepared' = "committed"
  <2>1. Standing' BY <1>1, <1>5, CommitStands
  <2>2. UNCHANGED <<sources, op, step, picture, read, at>>
    BY <1>2, <1>5 DEF seen, CommitMirror, CommitOver, ActOnMirror
  <2>3. ~MirrorSeen
    <3>1. /\ site = Put(mirror[mirrorAt.head].files, site.manifest)
          /\ mirror[mirrorAt.head].files.manifest # site.manifest
      BY <1>1, <1>5 DEF Standing, OverHead
    <3> QED BY <3>1 DEF MirrorSeen, MirrorClean
  <2>4. op \in ToMirror => step \notin AfterMirror BY <1>1, <1>5, <2>3 DEF Known, SourceQuiet
  <2>5. SkillsSeen' = SkillsSeen BY <2>2 DEF SkillsSeen, sources
  <2>6. SourceSeen' = SourceSeen /\ SourceCommitted' = SourceCommitted
    BY <2>2 DEF SourceSeen, SourceCommitted, Subject, sources
  <2>7. /\ step = "skills" => SkillsSeen
        /\ step \in {"sourceHead"} \cup BeforeMirror \cup AfterMirror => SourceSeen
        /\ step \in BeforeMirror \cup AfterMirror => SourceCommitted
    BY <1>1, <1>5 DEF Known, SourceQuiet
  <2>8. Known'
    BY <2>2, <2>4, <2>5, <2>6, <2>7 DEF Known, ToMirror, AfterMirror
  <2> QED BY <1>2, <2>1, <2>8 DEF PreparedSteps, Making
<1> QED BY <1>3, <1>4, <1>5

LEMMA StepPrepares == PreparedInv /\ ReleaseInv' /\ [Next]_vars => PreparedSteps'
<1> SUFFICES ASSUME PreparedInv, ReleaseInv', [Next]_vars PROVE PreparedSteps' OBVIOUS
<1>1. Known /\ Making /\ Standing BY DEF PreparedInv
<1>2. ASSUME NEW o \in {"apply", "adopt", "stage", "verify"}, Begin(o) PROVE PreparedSteps'
  <2>1. UNCHANGED <<sources, mirrors, prepared>> /\ step' = "governance"
    BY <1>2 DEF Begin
  <2>2. Standing' BY <1>1, <2>1, StandingStays DEF Installing
  <2> QED BY <2>1, <2>2
      DEF PreparedSteps, Known, Making, BeforeMirror, AfterMirror, Installing
<1>3. CASE UNCHANGED vars
  <2>1. UNCHANGED <<sources, mirrors, op, step, picture, read, at, head, old, made, base, quiet, prepared>>
    BY <1>3 DEF vars, seen, owner
  <2>2. Standing' BY <1>1, <2>1, StandingStays DEF Standing
  <2>3. Known'
    <3>1. SkillsSeen' = SkillsSeen BY <2>1 DEF SkillsSeen, sources
    <3> QED BY <1>1, <2>1, <3>1, FactsStay DEF Known, SourceQuiet, mirrors
  <2>4. Making'
    <3>1. Planned' = Planned BY <2>1, PlannedStays DEF mirrors
    <3>2. OverHead(made)' = OverHead(made) BY <2>1 DEF OverHead, Describes, sources, mirrors
    <3> QED BY <1>1, <2>1, <3>1, <3>2 DEF Making, ExactBase, mirrors
  <2> QED BY <2>2, <2>3, <2>4 DEF PreparedSteps
<1> QED BY <1>2, <1>3, CommandPrepares, OwnerPrepares DEF Next

\* No check of a release verify refuses what stands in the mirror's HEAD, but
\* the one of its bound.
LEMMA StandingIsVerified ==
  ASSUME PreparedInv, ReleaseInv', Read \/ Verify, op = "verify", quiet, prepared = "committed",
         result' = "refused"
  PROVE  ~WithinLimit
<1> DEFINE m == site.manifest
<1> USE DEF Check, GoOn, Refuse, Finish, BeforeMirror, AfterMirror
<1>1. /\ ReleaseInv /\ Established /\ NothingYet /\ Known /\ SourceQuiet
      /\ Planned /\ Describes(m) /\ site.payload = m.payload
      /\ site = mirror[mirrorAt.head].files /\ ReleaseCommit(m)
  BY DEF PreparedInv, VerifyInv, Standing, SourceQuiet
<1>2. step # "done" /\ result = "none" /\ step' = "done"
  BY <1>1 DEF NothingYet, Read, InspectGovernance, InspectSkill, SourceState, SourceHead,
     LoadManifest, MirrorState, ReadHistory, ReadFiles, CheckCommit, QueryTarget, Verify
<1>3. CASE SourceState
  <2>1. SkillsSeen BY <1>1, <1>3 DEF Known, SourceState
  <2>2. picture.skills = work.skills BY <1>1, <1>3, <2>1, AllSkillsSeen DEF SourceState
  <2>3. Ready(picture) BY <1>1, <2>1, <2>2 DEF Ready, Subject, SkillsSeen, Planned, SourceReady
  <2>4. SourceClean BY <1>1 DEF SourceClean, Agrees, Planned, SourceReady
  <2> QED BY <1>2, <1>3, <2>3, <2>4 DEF SourceState
<1>4. CASE ~(InspectGovernance \/ InspectSkill \/ SourceState)
  <2>1. SourceSeen
    BY <1>1, <1>4 DEF Known, Read, SourceHead, LoadManifest, MirrorState, ReadHistory, ReadFiles,
       CheckCommit, QueryTarget, Verify
  <2>2. /\ m.source = at.head /\ m.branch = at.branch
        /\ m.payload = Payload(picture.skills, picture.policy.members)
        /\ m.policy = picture.policy /\ m.review = picture.review
        /\ m.target = picture.policy.target /\ m # None
        /\ m.remote = remote /\ m \in ManifestDocuments
    BY <1>1, <2>1, StandingIsSeen DEF Describes
  <2>3. ~SourceHead
    <3>1. SourceHeadHolds
      BY <1>1, <2>1 DEF SourceHeadHolds, SourceSeen, Planned, SourceReady
    <3> QED BY <1>2, <3>1 DEF SourceHead
  <2>4. ~LoadManifest
    <3>1. at \in Heads(source) BY <1>1, <2>1 DEF ReleaseInv, SourceTyped, SourceSeen
    <3>2. SourceAt(m.source, m.branch) = at BY <2>2, <3>1 DEF SourceAt, Heads
    <3>3. work.policy \in Policies BY <1>1 DEF ReleaseInv, SourceTyped, SourceFiles
    <3>4. m.target # "not-performed" BY <2>1, <2>2, <3>3, PolicyAssumption DEF SourceSeen
    <3> QED BY <1>2, <2>2, <3>2, <3>4 DEF LoadManifest
  <2>5. ~MirrorState
    <3>1. MirrorClean BY <1>1 DEF MirrorClean, Agrees
    <3> QED BY <1>1, <1>2, <3>1 DEF MirrorState, Planned
  <2>6. ASSUME ReadHistory PROVE ~WithinLimit
    <3>1. Lineage BY <1>1, <2>1 DEF Lineage, Planned, LineageKept, SourceSeen
    <3> QED BY <1>2, <2>6, <3>1 DEF ReadHistory
  <2>7. ASSUME ReadFiles \/ CheckCommit \/ QueryTarget \/ Verify
        PROVE  MirrorSeen /\ old = m
    BY <1>1, <2>7 DEF Established, Passed, ManifestSeen, ReadFiles, CheckCommit, QueryTarget, Verify
  <2>8. ~ReadFiles BY <1>1, <1>2, <2>7 DEF ReadFiles, FilesHold, MirrorSeen
  <2>9. ~CheckCommit BY <1>1, <1>2, <2>7 DEF CheckCommit
  <2>10. ~QueryTarget
    <3>1. ASSUME QueryTarget PROVE TargetHolds
      BY <1>1, <2>1, <2>2, <2>7, <3>1
      DEF TargetHolds, RemoteBinding, TargetVisible, TargetLineage, Planned, LineageKept, SourceSeen
    <3> QED BY <1>2, <3>1 DEF QueryTarget
  <2>11. ~Verify
    <3>1. ASSUME Verify PROVE site.manifest = made'
      <4>1. old = m /\ made' = Manifest(old.pre, old.remote, picture.policy.target, old.paths)
        BY <2>7, <3>1 DEF Verify
      <4>2. Manifest(m.pre, m.remote, picture.policy.target, m.paths) = m
        BY <2>2 DEF Manifest, ManifestDocuments
      <4> QED BY <4>1, <4>2
    <3> QED BY <1>2, <3>1 DEF Verify
  <2> QED BY <1>4, <2>3, <2>4, <2>5, <2>6, <2>8, <2>9, <2>10, <2>11 DEF Read
<1>5. ~(InspectGovernance \/ InspectSkill)
  BY <1>2 DEF InspectGovernance, InspectSkill
<1> QED BY <1>3, <1>4, <1>5

LEMMA StepVerifies == PreparedInv /\ ReleaseInv' /\ [Next]_vars => PreparedReleaseVerifies'
<1> SUFFICES ASSUME PreparedInv, ReleaseInv', [Next]_vars,
                    op' = "verify", result' = "refused", quiet', prepared' = "committed"
             PROVE  ~WithinLimit'
  BY DEF PreparedReleaseVerifies, Undisturbed
<1> USE DEF GoOn, Refuse, Finish, Check
<1>1. /\ NothingYet /\ PreparedReleaseVerifies /\ OnlyReleasesConfirm
  BY DEF PreparedInv, VerifyInv
<1>2. ASSUME NEW o \in {"apply", "adopt", "stage", "verify"}, Begin(o) PROVE FALSE
  BY <1>1, <1>2 DEF Begin, NothingYet
<1>3. CASE Read \/ Verify
  <2>1. UNCHANGED <<sources, mirrors, op, quiet, prepared>>
    BY <1>3 DEF Read, Verify, InspectGovernance, InspectSkill, SourceState, SourceHead,
       LoadManifest, MirrorState, ReadHistory, ReadFiles, CheckCommit, QueryTarget, context, owner
  <2>2. ~WithinLimit BY <1>3, <2>1, StandingIsVerified
  <2> QED BY <2>1, <2>2, HistoryStays DEF mirrors
<1>4. ~Write
  BY <1>1 DEF Write, Stage, Decide, Differs, Install, InstallStaging, Confirm, RollBack,
     context, OnlyReleasesConfirm, Releasing
<1>5. ~Return BY DEF Return
<1>6. ~(OwnSource \/ OwnMirror)
  BY DEF OwnSource, OwnMirror, Edit, Redistribute, Approve, CommitSource, CheckoutSource,
     CommitMirror, Amend, CommitOver, CheckoutMirror, Tamper, Redirect, Reveal, Restage,
     ActOnSource, ActOnMirror, Act
<1>7. CASE UNCHANGED vars
  <2>1. UNCHANGED <<mirrors, op, result, quiet, prepared>> BY <1>7 DEF vars, owner
  <2>2. ~WithinLimit BY <1>1, <2>1 DEF PreparedReleaseVerifies, Undisturbed
  <2> QED BY <2>1, <2>2, HistoryStays DEF mirrors
<1> QED BY <1>2, <1>3, <1>4, <1>5, <1>6, <1>7 DEF Next

LEMMA StepProgress ==
  PreparedInv /\ [Next]_vars =>
    OnlyReleasesConfirm' /\ prepared' \in {"no", "applied", "committed"}
<1> SUFFICES ASSUME PreparedInv, [Next]_vars
             PROVE  OnlyReleasesConfirm' /\ prepared' \in {"no", "applied", "committed"}
  OBVIOUS
<1> USE DEF PreparedInv, OnlyReleasesConfirm, GoOn, Refuse, Finish, Check
<1>1. ASSUME NEW o \in {"apply", "adopt", "stage", "verify"}, Begin(o)
      PROVE  OnlyReleasesConfirm' /\ prepared' \in {"no", "applied", "committed"}
  BY <1>1 DEF Begin
<1>2. CASE Read \/ Verify \/ Write \/ Return
  BY <1>2 DEF Read, Verify, Write, Return, InspectGovernance, InspectSkill, SourceState,
     SourceHead, LoadManifest, MirrorState, ReadHistory, ReadFiles, CheckCommit, QueryTarget,
     Stage, Decide, Differs, Install, InstallStaging, Confirm, RollBack, context, owner, Releasing
<1>3. CASE OwnSource \/ OwnMirror
  BY <1>3 DEF OwnSource, OwnMirror, Edit, Redistribute, Approve, CommitSource, CheckoutSource,
     CommitMirror, Amend, CommitOver, CheckoutMirror, Tamper, Redirect, Reveal, Restage,
     ActOnSource, ActOnMirror, Act
<1>4. CASE UNCHANGED vars BY <1>4 DEF vars, owner
<1> QED BY <1>1, <1>2, <1>3, <1>4 DEF Next

\* A release that was applied and committed undisturbed verifies, for any
\* histories of source and mirror: every refusal of release_verify is one that
\* release_plan would have made, but that of the full history
\* (workflows.release_plan, release_verify; _release_history, workflows.py:1157).
THEOREM PreparedReleasesVerify == Spec => []PreparedReleaseVerifies
<1>1. Init => PreparedInv
  <2> SUFFICES ASSUME Init PROVE PreparedInv OBVIOUS
  <2>1. VerifyInv BY InitRelease DEF Init, VerifyInv, Established, NothingYet
  <2>2. ParentsFirst BY MirrorAssumption DEF Init, ParentsFirst
  <2> QED BY <2>1, <2>2 DEF Init, PreparedInv, OnlyReleasesConfirm, Known, Making, Standing,
      BeforeMirror, AfterMirror, Installing, PreparedReleaseVerifies, Undisturbed
<1>2. PreparedInv /\ [Next]_vars => PreparedInv'
  <2> SUFFICES ASSUME PreparedInv, [Next]_vars PROVE PreparedInv' OBVIOUS
  <2>1. VerifyInv' BY StepRelease, StepEstablishes, StepNothingYet DEF PreparedInv, VerifyInv
  <2>2. ReleaseInv' BY <2>1 DEF VerifyInv
  <2>3. ParentsFirst' BY StepParents DEF PreparedInv, VerifyInv
  <2>4. PreparedSteps' BY <2>2, StepPrepares
  <2>5. PreparedReleaseVerifies' BY <2>2, StepVerifies
  <2> QED BY <2>1, <2>3, <2>4, <2>5, StepProgress DEF PreparedInv, PreparedSteps
<1>3. PreparedInv => PreparedReleaseVerifies BY DEF PreparedInv
<1> QED BY <1>1, <1>2, <1>3, PTL DEF Spec

=============================================================================
