----------------------------- MODULE Governance -----------------------------
(***************************************************************************)
(* One governed repository: candidate skills, immutable evidence and       *)
(* review records, and the activeReview pointer of each distribution.      *)
(* The owner edits files at any time; processes run eval-record and        *)
(* review-record, each as the three steps of app._apply_result: verify the *)
(* saved plan by recomputing it, install its changes, check the result.    *)
(*                                                                         *)
(* A saved plan binds the fingerprint of everything it was computed from   *)
(* (workflows._source_bindings) and is refused unless recomputing it gives *)
(* the same document, so a verified plan is the plan of the repository at  *)
(* verification.  Installing is one step, as AtomicMutation allows.  A     *)
(* digest is modelled by what it digests, a record identifier by the       *)
(* record.  Rights, exposure, licenses and disclosure entries are fixed    *)
(* and in order; the evidence directories exist; a plan that changes       *)
(* nothing is left out.                                                    *)
(***************************************************************************)
EXTENDS FiniteSets, Naturals

CONSTANTS
  Skills, Distributions, Processes,
  Members,      \* [Distributions -> SUBSET Skills]
  Versions,     \* versions of a candidate, with its record and cases
  Description,  \* [Versions -> descriptions]: what a routing catalog shows
  Declarations, \* versions of a distribution's declarations
  Profiles,
  Required,     \* [Declarations -> SUBSET (Kinds \X Profiles)]: evidencePolicy
  MaxRecords,   \* MAX_RECORDS
  MaxReviews,   \* bound of the model: review records kept at once
  None,         \* no activeReview, no distribution
  Lost          \* the distribution file is gone to a private name

Kinds == {"routing", "behavior"}

ASSUME GovernanceAssumption ==
  /\ Members \in [Distributions -> SUBSET Skills]
  /\ Required \in [Declarations -> SUBSET (Kinds \X Profiles)]
  /\ MaxRecords \in Nat /\ MaxReviews \in Nat
  /\ None \notin Distributions /\ None # Lost

VARIABLES
  candidate,   \* skill -> version
  declared,    \* distribution -> declarations
  evidence,    \* skill -> set of reports
  reviews,     \* set of review records
  active,      \* distribution -> activeReview
  pc,          \* process -> idle, verified or installed
  plan,        \* process -> its verified plan
  unreviewed   \* history: distributions with relevant evidence recorded since
               \* the review recorded last was verified

repository == <<candidate, declared, evidence, reviews, active>>
vars == <<repository, pc, plan, unreviewed>>

---------------------------------------------------------------------------
(* Evidence and reviews.                                                    *)

\* What a report must have been made from.  A routing evaluation is bound to a
\* distribution or, with None, to the whole repository.
EvaluationPlan(s, kind, d) ==
  [skill |-> s, kind |-> kind, distribution |-> d, candidate |-> candidate[s],
   catalog |-> IF kind = "behavior" THEN None
               ELSE [m \in (IF d = None THEN Skills ELSE Members[d]) |->
                       Description[candidate[m]]]]

\* Evidence of skill s that counts for distribution d now.
RelevantEvidence(records, d, s) ==
  {r \in records[s] :
     r.plan = EvaluationPlan(s, r.plan.kind, IF r.plan.kind = "routing" THEN d ELSE None)}

ReviewContext(d) ==
  [distribution |-> d, declared |-> declared[d],
   members |-> [s \in Members[d] |->
     [candidate |-> candidate[s], evidence |-> RelevantEvidence(evidence, d, s)]]]

Slot(r) == <<r.plan.skill, r.plan.kind, r.profile>>

RequiredSlots(d) ==
  {<<s, q[1], q[2]>> : s \in Members[d], q \in Required[declared[d]]}

Inventory(d) == UNION {RelevantEvidence(evidence, d, s) : s \in Members[d]}
Passing(d) == {r \in Inventory(d) : r.passed}
Failing(d) == {r \in Inventory(d) \ Passing(d) : Slot(r) \in RequiredSlots(d)}

\* The errors an inspection finds: a pointer to a review that is not there, more
\* records than a skill may have; and a distribution moved to a private name
\* (transaction.residue), which the callback of an apply overlooks.
Damaged ==
  \/ \E d \in Distributions : active[d] \notin reviews \cup {None, Lost}
  \/ \E s \in Skills : Cardinality(evidence[s]) > MaxRecords

Blocked == Damaged \/ \E d \in Distributions : active[d] = Lost

\* The document is about what there is, and answers for it.
Matches(document, d) ==
  /\ document.context = ReviewContext(d)
  /\ document.selected \subseteq Passing(d)
  /\ {Slot(r) : r \in document.selected} = RequiredSlots(d)
  /\ document.acknowledged = Failing(d)

ValidateReview(document, d) == ~Blocked /\ Matches(document, d)

\* review_status says "current".
ReviewIsCurrent(d) ==
  active[d] # None /\ active[d] \in reviews /\ ValidateReview(active[d], d)

\* release_findings has no error.
Ready(d) ==
  /\ ~Blocked
  /\ RequiredSlots(d) \subseteq {Slot(r) : r \in Passing(d)}
  /\ ReviewIsCurrent(d)

---------------------------------------------------------------------------
(* Plans.                                                                   *)

NoPlan == [report |-> {}, review |-> {}, pointer |-> <<>>, seen |-> <<>>,
           concerns |-> {}, known |-> {}]

\* A distribution file, as far as its preimage tells.
File(d) == [declared |-> declared[d], active |-> active[d]]

\* Slip: evidence is recorded and the reviews stay.
RevokeNothing(concerned) == {}

\* Slip: every review is withdrawn.
RevokeEverything(concerned) == {d \in Distributions : active[d] # None}

\* Slip: a review that is stale today stays.
RevokeCurrent(concerned) == {d \in concerned : ReviewIsCurrent(d)}

Revoked(concerned) == {d \in concerned : active[d] # None}

\* The distributions for which report r of skill s would count.
Concerned(s, r) ==
  LET updated == [evidence EXCEPT ![s] = @ \cup {r}]
  IN  {c \in Distributions : s \in Members[c] /\ r \in RelevantEvidence(updated, c, s)}

EvalRecordPlan(s, r) ==
  LET revoked == Revoked(Concerned(s, r))
  IN  [report |-> {r}, review |-> {},
       pointer |-> [c \in revoked |-> None], seen |-> [c \in revoked |-> File(c)],
       concerns |-> Concerned(s, r), known |-> unreviewed]

VerifyEvalRecord(p) ==
  /\ pc[p] = "idle" /\ ~Blocked
  /\ \E s \in Skills, kind \in Kinds, d \in Distributions \cup {None},
        profile \in Profiles, passed \in BOOLEAN :
       LET r == [plan |-> EvaluationPlan(s, kind, d), profile |-> profile, passed |-> passed]
       IN  /\ d # None => kind = "routing" /\ s \in Members[d]
           /\ r \notin evidence[s] /\ Cardinality(evidence[s]) < MaxRecords
           /\ plan' = [plan EXCEPT ![p] = EvalRecordPlan(s, r)]
  /\ pc' = [pc EXCEPT ![p] = "verified"]
  /\ UNCHANGED <<repository, unreviewed>>

ReviewRecordPlan(d, document) ==
  [report |-> {}, review |-> {document} \ reviews,
   pointer |-> [c \in {d} |-> document], seen |-> [c \in {d} |-> File(c)],
   concerns |-> {}, known |-> unreviewed]

VerifyReviewRecord(p) ==
  /\ pc[p] = "idle" /\ ~Blocked
  /\ \E d \in Distributions, selected \in SUBSET (UNION {evidence[s] : s \in Skills}) :
       LET document == [context |-> ReviewContext(d), selected |-> selected,
                        acknowledged |-> Failing(d)]
       IN  /\ ValidateReview(document, d)
           /\ active[d] # document
           /\ document \in reviews \/ Cardinality(reviews) < MaxReviews
           /\ plan' = [plan EXCEPT ![p] = ReviewRecordPlan(d, document)]
  /\ pc' = [pc EXCEPT ![p] = "verified"]
  /\ UNCHANGED <<repository, unreviewed>>

---------------------------------------------------------------------------
(* Applying a verified plan: apply_changes, its preimages and its callback. *)

Fresh(p) ==
  /\ \A s \in Skills : plan[p].report \cap evidence[s] = {}
  /\ plan[p].review \cap reviews = {}
  /\ \A d \in DOMAIN plan[p].pointer : File(d) = plan[p].seen[d]

\* The evidence this plan's review was made with knowledge of.
Reviewed(p) == {d \in DOMAIN plan[p].pointer : plan[p].pointer[d] # None} \cap plan[p].known

Install(p) ==
  /\ pc[p] = "verified" /\ Fresh(p)
  /\ evidence' = [s \in Skills |-> evidence[s] \cup {r \in plan[p].report : r.plan.skill = s}]
  /\ reviews' = reviews \cup plan[p].review
  /\ active' = [d \in Distributions |->
                  IF d \in DOMAIN plan[p].pointer THEN plan[p].pointer[d] ELSE active[d]]
  /\ unreviewed' = unreviewed \ Reviewed(p)
  /\ pc' = [pc EXCEPT ![p] = "installed"]
  /\ UNCHANGED <<candidate, declared, plan>>

\* Slip: the process goes on with a plan it has finished.
FinishKeepingPlan(p) ==
  /\ pc' = [pc EXCEPT ![p] = "idle"]
  /\ UNCHANGED plan

Finish(p) ==
  /\ pc' = [pc EXCEPT ![p] = "idle"]
  /\ plan' = [plan EXCEPT ![p] = NoPlan]

\* The distribution file holds what the plan puts there.
Pointed(p, d) == File(d) = [plan[p].seen[d] EXCEPT !.active = plan[p].pointer[d]]

\* The rollback of an installed plan: what still is the plan's own goes, and a
\* free destination gets its preimage back.
Undo(p) ==
  /\ evidence' = [s \in Skills |-> evidence[s] \ plan[p].report]
  /\ reviews' = reviews \ plan[p].review
  /\ active' = [d \in Distributions |->
       IF d \in DOMAIN plan[p].pointer /\ (Pointed(p, d) \/ active[d] = Lost)
       THEN plan[p].seen[d].active ELSE active[d]]
  /\ unreviewed' = unreviewed \cup {d \in Reviewed(p) : Pointed(p, d)}
  /\ UNCHANGED <<candidate, declared>>

\* The rollback of a staged plan of which nothing is installed: it takes what
\* another process put there for its own, and has no preimage to put back.
TakeAway(p) ==
  /\ evidence' = [s \in Skills |-> evidence[s] \ plan[p].report]
  /\ reviews' = reviews \ plan[p].review
  /\ active' = [d \in Distributions |->
       IF d \in DOMAIN plan[p].pointer /\ Pointed(p, d) THEN Lost ELSE active[d]]
  /\ UNCHANGED <<candidate, declared, unreviewed>>

\* A stale preimage is found before anything is staged, or after.
Refuse(p) ==
  /\ pc[p] = "verified" /\ ~Fresh(p)
  /\ UNCHANGED <<repository, unreviewed>> \/ TakeAway(p)
  /\ Finish(p)

\* Slip: the result is not checked.
Unchecked(p) == TRUE

\* The callback verify() of _apply_result, which drops transaction.residue.  The
\* final check (263-278) only sets the status that is reported.
Postcondition(p) ==
  /\ ~Damaged
  /\ \A d \in DOMAIN plan[p].pointer :
       plan[p].pointer[d] # None =>
         /\ active[d] = plan[p].pointer[d] /\ active[d] \in reviews
         /\ Matches(active[d], d)

Confirm(p) ==
  /\ pc[p] = "installed" /\ Postcondition(p)
  /\ unreviewed' = unreviewed \cup plan[p].concerns
  /\ Finish(p)
  /\ UNCHANGED repository

\* The callback refuses, or the commit fails.
RollBack(p) ==
  /\ pc[p] = "installed"
  /\ Undo(p)
  /\ Finish(p)

---------------------------------------------------------------------------
(* The owner, with an editor or Git.                                        *)

EditCandidate(s, version) ==
  /\ candidate[s] # version
  /\ candidate' = [candidate EXCEPT ![s] = version]
  /\ UNCHANGED <<declared, evidence, reviews, active, pc, plan, unreviewed>>

EditDeclarations(d, version) ==
  /\ declared[d] # version
  /\ declared' = [declared EXCEPT ![d] = version]
  /\ UNCHANGED <<candidate, evidence, reviews, active, pc, plan, unreviewed>>

DeleteReport(s, r) ==
  /\ evidence' = [evidence EXCEPT ![s] = @ \ {r}]
  /\ UNCHANGED <<candidate, declared, reviews, active, pc, plan, unreviewed>>

DeleteReview(document) ==
  /\ reviews' = reviews \ {document}
  /\ UNCHANGED <<candidate, declared, evidence, active, pc, plan, unreviewed>>

Owner ==
  \/ \E s \in Skills, v \in Versions : EditCandidate(s, v)
  \/ \E d \in Distributions, v \in Declarations : EditDeclarations(d, v)
  \/ \E s \in Skills : \E r \in evidence[s] : DeleteReport(s, r)
  \/ \E document \in reviews : DeleteReview(document)

---------------------------------------------------------------------------
Init ==
  /\ candidate \in [Skills -> Versions]
  /\ declared \in [Distributions -> Declarations]
  /\ evidence = [s \in Skills |-> {}]
  /\ reviews = {}
  /\ active = [d \in Distributions |-> None]
  /\ pc = [p \in Processes |-> "idle"]
  /\ plan = [p \in Processes |-> NoPlan]
  /\ unreviewed = {}

Next ==
  \/ \E p \in Processes :
       \/ VerifyEvalRecord(p) \/ VerifyReviewRecord(p)
       \/ Install(p) \/ Refuse(p) \/ Confirm(p) \/ RollBack(p)
  \/ Owner

Spec == Init /\ [][Next]_vars

---------------------------------------------------------------------------
(* Properties.                                                              *)

IsReport(r) ==
  /\ DOMAIN r = {"plan", "profile", "passed"} /\ r.profile \in Profiles /\ r.passed \in BOOLEAN
  /\ r.plan.skill \in Skills /\ r.plan.kind \in Kinds /\ r.plan.candidate \in Versions
  /\ r.plan.distribution \in Distributions \cup {None}
  /\ IF r.plan.kind = "behavior" THEN r.plan.distribution = None /\ r.plan.catalog = None
     ELSE DOMAIN r.plan.catalog \subseteq Skills
IsDocument(x) ==
  LET d == x.context.distribution
  IN  /\ d \in Distributions /\ x.context.declared \in Declarations
      /\ DOMAIN x.context.members = Members[d]
      /\ x.acknowledged \cap x.selected = {}
      /\ x.acknowledged \cup x.selected \subseteq UNION {x.context.members[s].evidence : s \in Members[d]}

\* The types of the variables; a review document keeps to the evidence of its
\* own context; a process has a plan only while it applies it
\* (app._apply_result, review.validate_review).
TypeOK ==
  /\ candidate \in [Skills -> Versions] /\ declared \in [Distributions -> Declarations]
  /\ DOMAIN evidence = Skills
  /\ \A s \in Skills : \A r \in evidence[s] : IsReport(r) /\ r.plan.skill = s
  /\ \A x \in reviews : IsDocument(x)
  /\ DOMAIN active = Distributions
  /\ \A d \in Distributions :
       active[d] \in {None, Lost} \/ (IsDocument(active[d]) /\ active[d].context.distribution = d)
  /\ pc \in [Processes -> {"idle", "verified", "installed"}]
  /\ unreviewed \subseteq Distributions
  /\ \A p \in Processes :
       /\ pc[p] = "idle" => plan[p] = NoPlan
       /\ \A r \in plan[p].report : IsReport(r)
       /\ DOMAIN plan[p].pointer = DOMAIN plan[p].seen

\* docs/design.md:48-50, README.md:58-59: once relevant evidence was recorded, a
\* distribution is not ready before a review made after it is installed, whatever
\* the owner edits, reverts or deletes (workflows.eval_record_plan).
NoRevival == \A d \in unreviewed : ~Ready(d)

\* docs/design.md:50: "Deleting the newly recorded report cannot silently restore
\* an active review": where no plan is half applied, deleting a report makes no
\* distribution ready (workflows.eval_record_plan clears affected pointers).
DeletionNeverReadies ==
  [][/\ \A p \in Processes : pc[p] # "installed"
     /\ \E s \in Skills : \E r \in evidence[s] : DeleteReport(s, r)
     => \A d \in Distributions : Ready(d)' => Ready(d)]_vars

\* Recording evidence makes no distribution ready (app._apply_result,
\* workflows.eval_record_plan), unless by clearing a dangling pointer.
RecordingNeverReadies ==
  [][\A p \in Processes :
       Install(p) /\ plan[p].report # {} =>
         \A d \in Distributions : Ready(d)' => Ready(d) \/ Blocked]_vars

\* An apply takes readiness from nobody else: whatever it installs, puts back or
\* takes away, a distribution that is ready stays so unless its report was for it
\* or its review is, or the repository is left blocked, as by a pointer to a
\* review that was deleted meanwhile (workflows.eval_record_plan,
\* review_record_plan; transaction._rollback).
Addressed(p) ==
  plan[p].concerns \cup {d \in DOMAIN plan[p].pointer : plan[p].report = {}}
OthersStayReady ==
  [][\A p \in Processes :
       Install(p) \/ Refuse(p) \/ Confirm(p) \/ RollBack(p) =>
         \A d \in Distributions \ Addressed(p) : Ready(d) => Ready(d)' \/ Blocked']_vars

\* Records stay within their bound once every apply has ended, also when
\* several plans were made within it (workflows._record, repository._records).
BoundHolds ==
  (\A p \in Processes : pc[p] # "installed") =>
    \A s \in Skills : Cardinality(evidence[s]) <= MaxRecords

=============================================================================
