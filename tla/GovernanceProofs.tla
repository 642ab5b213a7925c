-------------------------- MODULE GovernanceProofs --------------------------
(***************************************************************************)
(* What recording evidence and reviews guarantees, for any skills,         *)
(* distributions, declarations and records.  For any number of processes:  *)
(* the records stay within their bound, what is stored keeps its shape,    *)
(* and an apply takes readiness from nobody else.  For one process at a    *)
(* time: evidence revokes, and deleting it revives nothing.  With two      *)
(* processes the latter is not true (run GovernanceRevival).               *)
(***************************************************************************)
EXTENDS Governance, FiniteSetTheorems, TLAPS

---------------------------------------------------------------------------
\* A review that is current has a passing report for every required slot.
LEMMA CurrentReviewIsReady ==
  ASSUME NEW d, ~Blocked, ReviewIsCurrent(d)
  PROVE  Ready(d)
<1>1. /\ active[d].selected \subseteq Passing(d)
      /\ {Slot(r) : r \in active[d].selected} = RequiredSlots(d)
  BY DEF ReviewIsCurrent, ValidateReview, Matches
<1>2. RequiredSlots(d) \subseteq {Slot(r) : r \in Passing(d)} BY <1>1
<1> QED BY <1>2 DEF Ready

---------------------------------------------------------------------------
(* The bound of the records, among any number of processes.                 *)

EveryEvidence == DOMAIN evidence = Skills

LEMMA StepEvidence == EveryEvidence /\ [Next]_vars => EveryEvidence'
BY DEF EveryEvidence, Next, vars, repository, VerifyEvalRecord, VerifyReviewRecord,
       Install, Refuse, TakeAway, Confirm, RollBack, Undo,
       Owner, EditCandidate, EditDeclarations, DeleteReport, DeleteReview

Unconfirmed == UNION {plan[p].report : p \in {q \in Processes : pc[q] = "installed"}}

\* Evidence whose apply has ended.
Settled(s) == evidence[s] \ Unconfirmed

BoundInv ==
  /\ EveryEvidence
  /\ pc \in [Processes -> {"idle", "verified", "installed"}]
  /\ DOMAIN plan = Processes
  /\ \A p \in Processes : IsFiniteSet(plan[p].report)
  /\ \A s \in Skills : IsFiniteSet(evidence[s]) /\ Cardinality(Settled(s)) <= MaxRecords

LEMMA InitBound == Init => BoundInv
<1> SUFFICES ASSUME Init PROVE BoundInv
  OBVIOUS
<1>1. /\ Cardinality({}) <= MaxRecords /\ IsFiniteSet({})
  BY FS_EmptySet, GovernanceAssumption
<1>2. \A s \in Skills : evidence[s] = {} /\ Settled(s) = {} BY DEF Init, Settled
<1>3. \A s \in Skills : IsFiniteSet(evidence[s]) /\ Cardinality(Settled(s)) <= MaxRecords
  BY <1>1, <1>2
<1>4. \A p \in Processes : plan[p].report = {} BY DEF Init, NoPlan
<1>5. /\ EveryEvidence /\ DOMAIN plan = Processes
      /\ pc \in [Processes -> {"idle", "verified", "installed"}]
  BY DEF Init, EveryEvidence
<1> QED BY <1>1, <1>3, <1>4, <1>5 DEF BoundInv

\* A set within the bound stays so when nothing is added.
LEMMA SmallerIsBounded ==
  ASSUME NEW X, NEW Y, IsFiniteSet(X), Y \subseteq X, Cardinality(X) <= MaxRecords
  PROVE  Cardinality(Y) <= MaxRecords
<1>1. /\ IsFiniteSet(Y) /\ Cardinality(Y) <= Cardinality(X)
      /\ Cardinality(X) \in Nat /\ Cardinality(Y) \in Nat
  BY FS_Subset, FS_CardinalityType
<1> QED BY <1>1, GovernanceAssumption

LEMMA StepBound == BoundInv /\ [Next]_vars => BoundInv'
<1> SUFFICES ASSUME BoundInv, [Next]_vars PROVE BoundInv'
  OBVIOUS
<1>1. EveryEvidence /\ EveryEvidence' BY StepEvidence DEF BoundInv
<1>2. ASSUME pc' \in [Processes -> {"idle", "verified", "installed"}],
             DOMAIN plan' = Processes,
             \A p \in Processes : IsFiniteSet(plan'[p].report),
             \A s \in Skills : IsFiniteSet(evidence'[s]) /\ Settled(s)' \subseteq Settled(s)
      PROVE  BoundInv'
  <2>1. ASSUME NEW s \in Skills PROVE Cardinality(Settled(s)') <= MaxRecords
    <3>1. IsFiniteSet(Settled(s)) BY FS_Subset DEF BoundInv, Settled
    <3> QED BY <1>2, <3>1, SmallerIsBounded DEF BoundInv
  <2> QED BY <1>1, <1>2, <2>1 DEF BoundInv
<1>3. CASE Owner \/ UNCHANGED vars
  <2>1. /\ pc' = pc /\ plan' = plan
        /\ \A s \in Skills : evidence'[s] \subseteq evidence[s]
    BY <1>1, <1>3 DEF EveryEvidence, Owner, EditCandidate, EditDeclarations, DeleteReport,
       DeleteReview, vars, repository
  <2>2. Unconfirmed' = Unconfirmed BY <2>1 DEF Unconfirmed
  <2>3. \A s \in Skills : Settled(s)' \subseteq Settled(s) BY <2>1, <2>2 DEF Settled
  <2>4. \A s \in Skills : IsFiniteSet(evidence'[s]) BY <2>1, FS_Subset DEF BoundInv
  <2> QED BY <1>2, <2>1, <2>3, <2>4 DEF BoundInv
<1>4. ASSUME NEW p \in Processes, VerifyEvalRecord(p) \/ VerifyReviewRecord(p)
      PROVE  BoundInv'
  <2>1. PICK new : /\ plan' = [plan EXCEPT ![p] = new]
                   /\ new.report = {} \/ \E r : new.report = {r}
    <3>1. CASE VerifyEvalRecord(p)
      <4>1. PICK s, r : plan' = [plan EXCEPT ![p] = EvalRecordPlan(s, r)]
        BY <3>1 DEF VerifyEvalRecord
      <4>2. EvalRecordPlan(s, r).report = {r} BY DEF EvalRecordPlan
      <4> QED BY <4>1, <4>2
    <3>2. CASE VerifyReviewRecord(p)
      <4>1. PICK d, document : plan' = [plan EXCEPT ![p] = ReviewRecordPlan(d, document)]
        BY <3>2 DEF VerifyReviewRecord
      <4>2. ReviewRecordPlan(d, document).report = {} BY DEF ReviewRecordPlan
      <4> QED BY <4>1, <4>2
    <3> QED BY <1>4, <3>1, <3>2
  <2>2. IsFiniteSet(new.report) BY <2>1, FS_EmptySet, FS_Singleton
  <2>3. /\ evidence' = evidence /\ pc[p] = "idle"
        /\ pc' = [pc EXCEPT ![p] = "verified"]
    BY <1>4 DEF VerifyEvalRecord, VerifyReviewRecord, repository
  <2>4. Unconfirmed' = Unconfirmed BY <2>1, <2>3 DEF Unconfirmed, BoundInv
  <2> QED BY <1>2, <2>1, <2>2, <2>3, <2>4 DEF BoundInv, Settled
<1>5. ASSUME NEW p \in Processes, Install(p)
      PROVE  BoundInv'
  <2>1. /\ plan' = plan /\ pc' = [pc EXCEPT ![p] = "installed"]
        /\ \A s \in Skills :
             evidence'[s] = evidence[s] \cup {r \in plan[p].report : r.plan.skill = s}
    BY <1>5 DEF Install
  <2>2. Unconfirmed \cup plan[p].report \subseteq Unconfirmed'
    BY <2>1 DEF Unconfirmed, BoundInv
  <2>3. \A s \in Skills : Settled(s)' \subseteq Settled(s) BY <2>1, <2>2 DEF Settled
  <2>4. ASSUME NEW s \in Skills PROVE IsFiniteSet(evidence'[s])
    <3>1. IsFiniteSet({r \in plan[p].report : r.plan.skill = s}) BY FS_Subset DEF BoundInv
    <3>2. IsFiniteSet(evidence[s]) BY DEF BoundInv
    <3>3. IsFiniteSet(evidence[s] \cup {r \in plan[p].report : r.plan.skill = s})
      BY <3>1, <3>2, FS_Union
    <3> QED BY <2>1, <3>3
  <2> QED BY <1>2, <2>1, <2>3, <2>4 DEF BoundInv
<1>6. ASSUME NEW p \in Processes, Refuse(p) \/ RollBack(p)
      PROVE  BoundInv'
  <2>1. /\ pc' = [pc EXCEPT ![p] = "idle"] /\ plan' = [plan EXCEPT ![p] = NoPlan]
        /\ pc[p] # "installed" => Unconfirmed' = Unconfirmed
        /\ \A s \in Skills : evidence'[s] \subseteq evidence[s]
        /\ pc[p] = "installed" =>
             \A s \in Skills : evidence'[s] = evidence[s] \ plan[p].report
    BY <1>6 DEF Refuse, RollBack, TakeAway, Undo, Finish, repository, Unconfirmed, BoundInv
  <2>2. Unconfirmed \subseteq Unconfirmed' \cup plan[p].report
    BY <2>1 DEF Unconfirmed, BoundInv
  <2>3. \A s \in Skills : Settled(s)' \subseteq Settled(s) BY <2>1, <2>2 DEF Settled
  <2>4. \A s \in Skills : IsFiniteSet(evidence'[s]) BY <2>1, FS_Subset DEF BoundInv
  <2>5. \A q \in Processes : IsFiniteSet(plan'[q].report)
    BY <2>1, FS_EmptySet DEF BoundInv, NoPlan
  <2> QED BY <1>2, <2>1, <2>3, <2>4, <2>5 DEF BoundInv
<1>7. ASSUME NEW p \in Processes, Confirm(p)
      PROVE  BoundInv'
  <2>1. /\ pc' = [pc EXCEPT ![p] = "idle"] /\ plan' = [plan EXCEPT ![p] = NoPlan]
        /\ evidence' = evidence /\ ~Damaged
    BY <1>7 DEF Confirm, Postcondition, Finish, repository
  <2>2. ASSUME NEW s \in Skills PROVE Cardinality(Settled(s)') <= MaxRecords
    <3>1. IsFiniteSet(evidence[s]) /\ Cardinality(evidence[s]) \in Nat
      BY FS_CardinalityType DEF BoundInv
    <3>2. Cardinality(evidence[s]) <= MaxRecords
      BY <2>1, <3>1, GovernanceAssumption DEF Damaged
    <3>3. Settled(s)' \subseteq evidence[s] BY <2>1 DEF Settled
    <3> QED BY <3>1, <3>2, <3>3, SmallerIsBounded
  <2>3. \A q \in Processes : IsFiniteSet(plan'[q].report)
    BY <2>1, FS_EmptySet DEF BoundInv, NoPlan
  <2> QED BY <1>1, <2>1, <2>2, <2>3 DEF BoundInv
<1> QED BY <1>3, <1>4, <1>5, <1>6, <1>7 DEF Next

\* Records stay within their bound once every apply has ended, however many
\* plans were made within it (workflows._record, repository._records): what no
\* unfinished apply has put there was within the bound when it was confirmed.
THEOREM BoundIsKept == Spec => []BoundHolds
<1>1. BoundInv => BoundHolds
  <2> SUFFICES ASSUME BoundInv, \A p \in Processes : pc[p] # "installed", NEW s \in Skills
               PROVE  Cardinality(evidence[s]) <= MaxRecords
    BY DEF BoundHolds
  <2>1. Settled(s) = evidence[s] BY DEF Settled, Unconfirmed
  <2> QED BY <2>1 DEF BoundInv
<1> QED BY <1>1, InitBound, StepBound, PTL DEF Spec

---------------------------------------------------------------------------
(* The types, among any number of processes.                                *)

\* What an activeReview may be.
PointerOf(d, x) == x \in {None, Lost} \/ (IsDocument(x) /\ x.context.distribution = d)

\* What a plan may hold: reports and documents, and a pointer with its preimage
\* for some distributions.
PlanTyped(q) ==
  /\ \A r \in q.report : IsReport(r)
  /\ \A x \in q.review : IsDocument(x)
  /\ DOMAIN q.pointer = DOMAIN q.seen /\ DOMAIN q.pointer \subseteq Distributions
  /\ \A d \in DOMAIN q.pointer : PointerOf(d, q.pointer[d]) /\ PointerOf(d, q.seen[d].active)
  /\ q.concerns \subseteq Distributions

TypeInv ==
  /\ TypeOK
  /\ DOMAIN plan = Processes
  /\ \A p \in Processes : PlanTyped(plan[p])

\* The plan of an eval-record, as it is verified.
LEMMA PlansOneReport ==
  ASSUME NEW p \in Processes, VerifyEvalRecord(p)
  PROVE  \E s \in Skills, kind \in Kinds, d0 \in Distributions \cup {None},
            profile \in Profiles, passed \in BOOLEAN :
           /\ d0 # None => kind = "routing" /\ s \in Members[d0]
           /\ plan' = [plan EXCEPT ![p] = EvalRecordPlan(s,
                [plan |-> EvaluationPlan(s, kind, d0), profile |-> profile, passed |-> passed])]
BY ZenonT(30) DEF VerifyEvalRecord

LEMMA NoPlanTyped == PlanTyped(NoPlan) /\ DOMAIN NoPlan.pointer = DOMAIN NoPlan.seen
BY DEF PlanTyped, NoPlan

LEMMA InitTyped == Init => TypeInv
<1> SUFFICES ASSUME Init PROVE TypeInv
  OBVIOUS
<1>1. \A p \in Processes : plan[p] = NoPlan BY DEF Init
<1>2. \A p \in Processes : PlanTyped(plan[p]) BY <1>1, NoPlanTyped
<1>3. \A d \in Distributions : active[d] = None BY DEF Init
<1> QED BY <1>1, <1>2, <1>3 DEF Init, TypeInv, TypeOK, PlanTyped

\* A step that puts one plan in the place of another.
LEMMA PlanReplaced ==
  ASSUME TypeInv, NEW p \in Processes, NEW q, PlanTyped(q), NEW state,
         plan' = [plan EXCEPT ![p] = q], pc' = [pc EXCEPT ![p] = state],
         state \in {"idle", "verified"}, state = "idle" => q = NoPlan,
         candidate' = candidate, declared' = declared,
         DOMAIN evidence' = Skills, \A s \in Skills : evidence'[s] \subseteq evidence[s],
         reviews' \subseteq reviews, DOMAIN active' = Distributions,
         \A d \in Distributions : PointerOf(d, active'[d]),
         unreviewed' \subseteq Distributions
  PROVE  TypeInv'
<1>1. \A other \in Processes :
        plan'[other] = (IF other = p THEN q ELSE plan[other])
        /\ pc'[other] = (IF other = p THEN state ELSE pc[other])
  BY DEF TypeInv, TypeOK
<1>2. DOMAIN plan' = Processes BY DEF TypeInv
<1>3. \A other \in Processes : PlanTyped(plan'[other]) BY <1>1 DEF TypeInv
<1>4. ASSUME NEW other \in Processes
      PROVE  /\ pc'[other] = "idle" => plan'[other] = NoPlan
             /\ \A r \in plan'[other].report : IsReport(r)
             /\ DOMAIN plan'[other].pointer = DOMAIN plan'[other].seen
  <2>1. pc'[other] = "idle" => plan'[other] = NoPlan BY <1>1 DEF TypeInv, TypeOK
  <2> QED BY <1>3, <2>1 DEF PlanTyped
<1>5. pc' \in [Processes -> {"idle", "verified", "installed"}] BY DEF TypeInv, TypeOK
<1>6. /\ \A s \in Skills : \A r \in evidence'[s] : IsReport(r) /\ r.plan.skill = s
      /\ \A x \in reviews' : IsDocument(x)
  BY DEF TypeInv, TypeOK
<1>7. TypeOK' BY <1>4, <1>5, <1>6 DEF TypeInv, TypeOK, PointerOf
<1> QED BY <1>2, <1>3, <1>7 DEF TypeInv

\* What an eval-record plans is a report of the skill, and it clears pointers.
LEMMA RecordedReportTyped ==
  ASSUME TypeInv, NEW s \in Skills, NEW kind \in Kinds, NEW d0 \in Distributions \cup {None},
         NEW profile \in Profiles, NEW passed \in BOOLEAN,
         d0 # None => kind = "routing" /\ s \in Members[d0]
  PROVE  PlanTyped(EvalRecordPlan(s,
           [plan |-> EvaluationPlan(s, kind, d0), profile |-> profile, passed |-> passed]))
<1> DEFINE made == EvaluationPlan(s, kind, d0)
           r == [plan |-> made, profile |-> profile, passed |-> passed]
           revoked == Revoked(Concerned(s, r))
           q == EvalRecordPlan(s, r)
<1>1. /\ made.skill = s /\ made.kind = kind /\ made.distribution = d0
      /\ made.candidate = candidate[s] /\ candidate[s] \in Versions
      /\ kind = "behavior" => made.catalog = None
      /\ kind # "behavior" => DOMAIN made.catalog \subseteq Skills
  BY GovernanceAssumption DEF EvaluationPlan, TypeInv, TypeOK
<1>2. IsReport(r)
  <2> HIDE DEF made
  <2> QED BY <1>1 DEF IsReport, Kinds
<1>3. revoked \subseteq Distributions /\ Concerned(s, r) \subseteq Distributions
  BY DEF Revoked, Concerned
<1>4. /\ q.report = {r} /\ q.review = {} /\ q.concerns = Concerned(s, r)
      /\ q.pointer = [c \in revoked |-> None] /\ q.seen = [c \in revoked |-> File(c)]
  BY DEF EvalRecordPlan
<1>5. \A d \in Distributions : PointerOf(d, File(d).active) /\ PointerOf(d, None)
  BY DEF TypeInv, TypeOK, File, PointerOf
<1> HIDE DEF made, r, revoked, q
<1>6. PlanTyped(q) BY <1>2, <1>3, <1>4, <1>5 DEF PlanTyped
<1> QED BY <1>6 DEF made, r, q

\* What a review-record plans is a document of its own context.
LEMMA RecordedReviewTyped ==
  ASSUME TypeInv, NEW d \in Distributions, NEW document, NEW selected,
         document = [context |-> ReviewContext(d), selected |-> selected,
                     acknowledged |-> Failing(d)],
         selected \subseteq Passing(d)
  PROVE  PlanTyped(ReviewRecordPlan(d, document))
<1>1. /\ document.context = ReviewContext(d) /\ document.selected = selected
      /\ document.acknowledged = Failing(d)
  OBVIOUS
<1>2. /\ ReviewContext(d).distribution = d /\ ReviewContext(d).declared \in Declarations
      /\ DOMAIN ReviewContext(d).members = Members[d]
      /\ \A s \in Members[d] : ReviewContext(d).members[s].evidence = RelevantEvidence(evidence, d, s)
  BY DEF ReviewContext, TypeInv, TypeOK
<1>3. /\ Failing(d) \cap Passing(d) = {} /\ Failing(d) \cup Passing(d) \subseteq Inventory(d)
  BY DEF Failing, Passing
<1>4. Inventory(d) \subseteq UNION {ReviewContext(d).members[s].evidence : s \in Members[d]}
  BY <1>2 DEF Inventory
<1>5. document.acknowledged \cap document.selected = {} BY <1>1, <1>3
<1>6. document.acknowledged \cup document.selected
        \subseteq UNION {ReviewContext(d).members[s].evidence : s \in Members[d]}
  BY <1>1, <1>3, <1>4
<1>7. IsDocument(document) /\ document.context.distribution = d
  BY <1>1, <1>2, <1>5, <1>6 DEF IsDocument
<1>8. PointerOf(d, File(d).active) BY DEF TypeInv, TypeOK, File, PointerOf
<1> DEFINE q == ReviewRecordPlan(d, document)
<1>9. /\ q.report = {} /\ q.review \subseteq {document} /\ q.concerns = {}
      /\ q.pointer = [c \in {d} |-> document] /\ q.seen = [c \in {d} |-> File(c)]
  BY DEF ReviewRecordPlan
<1> HIDE DEF q
<1>10. PlanTyped(q) BY <1>7, <1>8, <1>9 DEF PlanTyped, PointerOf
<1> QED BY <1>10 DEF q

LEMMA StepTyped == TypeInv /\ [Next]_vars => TypeInv'
<1> SUFFICES ASSUME TypeInv, [Next]_vars PROVE TypeInv'
  OBVIOUS
<1>0. /\ \A d \in Distributions : PointerOf(d, active[d]) /\ PointerOf(d, Lost)
      /\ DOMAIN evidence = Skills /\ DOMAIN active = Distributions
      /\ unreviewed \subseteq Distributions
  BY DEF TypeInv, TypeOK, PointerOf
<1>1. ASSUME NEW p \in Processes, VerifyEvalRecord(p) PROVE TypeInv'
  <2>1. PICK s \in Skills, kind \in Kinds, d0 \in Distributions \cup {None},
             profile \in Profiles, passed \in BOOLEAN :
          /\ d0 # None => kind = "routing" /\ s \in Members[d0]
          /\ plan' = [plan EXCEPT ![p] = EvalRecordPlan(s,
               [plan |-> EvaluationPlan(s, kind, d0), profile |-> profile, passed |-> passed])]
    BY <1>1, PlansOneReport
  <2> DEFINE q == EvalRecordPlan(s,
               [plan |-> EvaluationPlan(s, kind, d0), profile |-> profile, passed |-> passed])
  <2>2. PlanTyped(q) BY <2>1, RecordedReportTyped
  <2>3. plan' = [plan EXCEPT ![p] = q] BY <2>1
  <2>4. /\ pc' = [pc EXCEPT ![p] = "verified"]
        /\ UNCHANGED <<candidate, declared, evidence, reviews, active, unreviewed>>
    BY <1>1 DEF VerifyEvalRecord, repository
  <2> HIDE DEF q
  <2> QED BY <1>0, <2>2, <2>3, <2>4, PlanReplaced
<1>2. ASSUME NEW p \in Processes, VerifyReviewRecord(p) PROVE TypeInv'
  <2>1. PICK d \in Distributions, selected \in SUBSET (UNION {evidence[s] : s \in Skills}) :
          LET document == [context |-> ReviewContext(d), selected |-> selected,
                           acknowledged |-> Failing(d)]
          IN  /\ ValidateReview(document, d)
              /\ plan' = [plan EXCEPT ![p] = ReviewRecordPlan(d, document)]
    BY <1>2 DEF VerifyReviewRecord
  <2> DEFINE document == [context |-> ReviewContext(d), selected |-> selected,
                          acknowledged |-> Failing(d)]
             q == ReviewRecordPlan(d, document)
  <2>2. selected \subseteq Passing(d) BY <2>1 DEF ValidateReview, Matches
  <2>3. PlanTyped(q) BY <2>2, RecordedReviewTyped
  <2>4. plan' = [plan EXCEPT ![p] = q] BY <2>1
  <2>5. /\ pc' = [pc EXCEPT ![p] = "verified"]
        /\ UNCHANGED <<candidate, declared, evidence, reviews, active, unreviewed>>
    BY <1>2 DEF VerifyReviewRecord, repository
  <2> HIDE DEF q
  <2> QED BY <1>0, <2>3, <2>4, <2>5, PlanReplaced
<1>3. ASSUME NEW p \in Processes, Install(p) PROVE TypeInv'
  <2>1. /\ \A r \in plan[p].report : IsReport(r)
        /\ \A x \in plan[p].review : IsDocument(x)
        /\ \A d \in DOMAIN plan[p].pointer : PointerOf(d, plan[p].pointer[d])
    BY DEF TypeInv, PlanTyped
  <2>2. /\ evidence' = [s \in Skills |-> evidence[s] \cup {r \in plan[p].report : r.plan.skill = s}]
        /\ reviews' = reviews \cup plan[p].review
        /\ active' = [d \in Distributions |->
                        IF d \in DOMAIN plan[p].pointer THEN plan[p].pointer[d] ELSE active[d]]
        /\ unreviewed' \subseteq unreviewed
        /\ pc' = [pc EXCEPT ![p] = "installed"]
        /\ UNCHANGED <<candidate, declared, plan>>
    BY <1>3 DEF Install
  <2>3. \A d \in Distributions : PointerOf(d, active'[d]) BY <1>0, <2>1, <2>2
  <2>4. \A s \in Skills : \A r \in evidence'[s] : IsReport(r) /\ r.plan.skill = s
    BY <2>1, <2>2 DEF TypeInv, TypeOK
  <2>5. \A x \in reviews' : IsDocument(x) BY <2>1, <2>2 DEF TypeInv, TypeOK
  <2>6. /\ pc' \in [Processes -> {"idle", "verified", "installed"}]
        /\ \A other \in Processes : pc'[other] = "idle" => pc[other] = "idle"
    BY <2>2 DEF TypeInv, TypeOK
  <2>7. DOMAIN evidence' = Skills /\ DOMAIN active' = Distributions BY <2>2
  <2>8. TypeOK' BY <1>0, <2>2, <2>3, <2>4, <2>5, <2>6, <2>7 DEF TypeInv, TypeOK, PointerOf
  <2> QED BY <2>2, <2>8 DEF TypeInv
<1>4. ASSUME NEW p \in Processes, Refuse(p) \/ Confirm(p) \/ RollBack(p) PROVE TypeInv'
  <2>1. /\ plan' = [plan EXCEPT ![p] = NoPlan] /\ pc' = [pc EXCEPT ![p] = "idle"]
        /\ candidate' = candidate /\ declared' = declared
    BY <1>4 DEF Refuse, TakeAway, Confirm, RollBack, Undo, Finish, repository
  <2>2. /\ DOMAIN evidence' = Skills /\ DOMAIN active' = Distributions
        /\ \A s \in Skills : evidence'[s] \subseteq evidence[s]
        /\ reviews' \subseteq reviews
    BY <1>0, <1>4 DEF Refuse, TakeAway, Confirm, RollBack, Undo, repository
  <2>3. /\ \A d \in DOMAIN plan[p].pointer : PointerOf(d, plan[p].seen[d].active)
        /\ DOMAIN plan[p].pointer \subseteq Distributions
        /\ plan[p].concerns \subseteq Distributions
    BY DEF TypeInv, PlanTyped
  <2>4. \A d \in Distributions :
          active'[d] \in {active[d], Lost}
          \/ (d \in DOMAIN plan[p].pointer /\ active'[d] = plan[p].seen[d].active)
    BY <1>0, <1>4 DEF Refuse, TakeAway, Confirm, RollBack, Undo, repository
  <2>5. \A d \in Distributions : PointerOf(d, active'[d]) BY <1>0, <2>3, <2>4
  <2>6. unreviewed' \subseteq Distributions
    BY <1>0, <1>4, <2>3 DEF Refuse, TakeAway, Confirm, RollBack, Undo, Reviewed
  <2> QED BY <2>1, <2>2, <2>5, <2>6, NoPlanTyped, PlanReplaced
<1>5. CASE Owner \/ UNCHANGED vars
  <2>1. /\ UNCHANGED <<active, pc, plan, unreviewed>>
        /\ DOMAIN evidence' = Skills /\ \A s \in Skills : evidence'[s] \subseteq evidence[s]
        /\ reviews' \subseteq reviews
    BY <1>0, <1>5 DEF Owner, EditCandidate, EditDeclarations, DeleteReport, DeleteReview,
       vars, repository
  <2>2. candidate' \in [Skills -> Versions] /\ declared' \in [Distributions -> Declarations]
    BY <1>5 DEF Owner, EditCandidate, EditDeclarations, DeleteReport, DeleteReview,
       vars, repository, TypeInv, TypeOK
  <2>3. TypeOK' BY <2>1, <2>2 DEF TypeInv, TypeOK
  <2> QED BY <2>1, <2>3 DEF TypeInv
<1> QED BY <1>1, <1>2, <1>3, <1>4, <1>5 DEF Next

\* What is stored keeps its shape, among any number of processes that install and
\* roll back plans over each other: a document never holds evidence outside the
\* context it was made from, and no pointer names the review of another
\* distribution (app._apply_result, review.validate_review).
THEOREM TypesAreKept == Spec => []TypeOK
<1>1. TypeInv => TypeOK BY DEF TypeInv
<1> QED BY <1>1, InitTyped, StepTyped, PTL DEF Spec

---------------------------------------------------------------------------
(* An apply keeps to what it is addressed to, among any number of processes. *)

\* A report made now concerns every distribution for which it can ever count.
LEMMA ConcernsCover ==
  ASSUME EveryEvidence, NEW s \in Skills, NEW kind \in Kinds,
         NEW d0 \in Distributions \cup {None}, NEW profile, NEW passed,
         d0 # None => kind = "routing" /\ s \in Members[d0],
         NEW r, r = [plan |-> EvaluationPlan(s, kind, d0), profile |-> profile,
                     passed |-> passed],
         NEW d \in Distributions, r.plan.skill \in Members[d],
         r.plan.kind = "routing" => r.plan.distribution = d
  PROVE  d \in Concerned(s, r)
<1>1. /\ r.plan = EvaluationPlan(s, kind, d0)
      /\ r.plan.skill = s /\ r.plan.kind = kind /\ r.plan.distribution = d0
  BY DEF EvaluationPlan
<1>2. d0 = IF kind = "routing" THEN d ELSE None BY <1>1 DEF Kinds
<1>3. r \in [evidence EXCEPT ![s] = @ \cup {r}][s] BY DEF EveryEvidence
<1>4. r.plan = EvaluationPlan(s, r.plan.kind, IF r.plan.kind = "routing" THEN d ELSE None)
  BY <1>1, <1>2
<1>5. r \in RelevantEvidence([evidence EXCEPT ![s] = @ \cup {r}], d, s)
  BY <1>3, <1>4 DEF RelevantEvidence
<1> QED BY <1>1, <1>5 DEF Concerned

\* What plan q touches is what it is addressed to: its report counts only for
\* the distributions it concerns, the pointers it clears are theirs, and a review
\* it records is the one it points to.
KeepsTo(q) ==
  /\ \A r \in q.report, d \in Distributions :
       /\ r.plan.skill \in Members[d]
       /\ r.plan.kind = "routing" => r.plan.distribution = d
       => d \in q.concerns
  /\ DOMAIN q.pointer \subseteq q.concerns \/ q.report = {}
  /\ \A x \in q.review : q.report = {} /\ x.context.distribution \in DOMAIN q.pointer

PlansKeepTo == DOMAIN plan = Processes /\ \A p \in Processes : KeepsTo(plan[p])

LEMMA NoPlanKeepsTo == KeepsTo(NoPlan)
BY DEF KeepsTo, NoPlan

LEMMA InitKeepsTo == Init => PlansKeepTo
BY NoPlanKeepsTo DEF Init, PlansKeepTo

LEMMA StepKeepsTo == EveryEvidence /\ TypeInv /\ PlansKeepTo /\ [Next]_vars => PlansKeepTo'
<1> SUFFICES ASSUME EveryEvidence, TypeInv, PlansKeepTo, [Next]_vars PROVE PlansKeepTo'
  OBVIOUS
<1>1. ASSUME NEW p \in Processes, VerifyEvalRecord(p) PROVE PlansKeepTo'
  <2>1. PICK s \in Skills, kind \in Kinds, d0 \in Distributions \cup {None},
             profile \in Profiles, passed \in BOOLEAN :
          /\ d0 # None => kind = "routing" /\ s \in Members[d0]
          /\ plan' = [plan EXCEPT ![p] = EvalRecordPlan(s,
               [plan |-> EvaluationPlan(s, kind, d0), profile |-> profile, passed |-> passed])]
    BY <1>1, PlansOneReport
  <2> DEFINE r == [plan |-> EvaluationPlan(s, kind, d0), profile |-> profile, passed |-> passed]
             q == EvalRecordPlan(s, r)
             revoked == Revoked(Concerned(s, r))
  <2>2. \A d \in Distributions :
          /\ r.plan.skill \in Members[d]
          /\ r.plan.kind = "routing" => r.plan.distribution = d
          => d \in Concerned(s, r)
    BY <2>1, ConcernsCover
  <2>3. /\ q.report = {r} /\ q.review = {} /\ q.concerns = Concerned(s, r)
        /\ DOMAIN q.pointer = revoked /\ revoked \subseteq Concerned(s, r)
    BY DEF EvalRecordPlan, Revoked
  <2>4. plan' = [plan EXCEPT ![p] = q] BY <2>1
  <2> HIDE DEF r, q, revoked
  <2>5. KeepsTo(q) BY <2>2, <2>3 DEF KeepsTo
  <2> QED BY <2>4, <2>5 DEF PlansKeepTo
<1>2. ASSUME NEW p \in Processes, VerifyReviewRecord(p) PROVE PlansKeepTo'
  <2>1. PICK d \in Distributions : \E document :
          /\ document.context = ReviewContext(d)
          /\ plan' = [plan EXCEPT ![p] = ReviewRecordPlan(d, document)]
    BY <1>2 DEF VerifyReviewRecord, ValidateReview, Matches
  <2>2. PICK document :
          /\ document.context = ReviewContext(d)
          /\ plan' = [plan EXCEPT ![p] = ReviewRecordPlan(d, document)]
    BY <2>1
  <2> DEFINE q == ReviewRecordPlan(d, document)
  <2>3. /\ q.report = {} /\ q.review \subseteq {document} /\ q.concerns = {}
        /\ q.pointer = [c \in {d} |-> document]
    BY DEF ReviewRecordPlan
  <2>4. document.context.distribution = d BY <2>2 DEF ReviewContext
  <2>5. plan' = [plan EXCEPT ![p] = q] BY <2>2
  <2> HIDE DEF q
  <2>6. KeepsTo(q) BY <2>2, <2>3, <2>4 DEF KeepsTo
  <2> QED BY <2>5, <2>6 DEF PlansKeepTo
<1>3. ASSUME NEW p \in Processes, Refuse(p) \/ Confirm(p) \/ RollBack(p) PROVE PlansKeepTo'
  <2>1. plan' = [plan EXCEPT ![p] = NoPlan]
    BY <1>3 DEF Refuse, Confirm, RollBack, Finish
  <2> QED BY <2>1, NoPlanKeepsTo DEF PlansKeepTo
<1>4. CASE Owner \/ UNCHANGED vars \/ \E p \in Processes : Install(p)
  <2>1. plan' = plan
    BY <1>4 DEF Owner, EditCandidate, EditDeclarations, DeleteReport, DeleteReview, Install,
       vars, repository
  <2> QED BY <2>1 DEF PlansKeepTo
<1> QED BY <1>1, <1>2, <1>3, <1>4 DEF Next

\* Evidence that a plan adds or takes away counts only where it is addressed.
LEMMA UnaddressedSame ==
  ASSUME NEW q, KeepsTo(q), NEW d \in Distributions, d \notin q.concerns,
         candidate' = candidate, declared' = declared,
         \A s \in Skills :
           /\ evidence'[s] \subseteq evidence[s] \cup q.report
           /\ evidence[s] \subseteq evidence'[s] \cup q.report
  PROVE  /\ ReviewContext(d)' = ReviewContext(d)
         /\ Inventory(d)' = Inventory(d)
         /\ RequiredSlots(d)' = RequiredSlots(d)
         /\ Passing(d)' = Passing(d) /\ Failing(d)' = Failing(d)
<1>1. \A s, kind, c : EvaluationPlan(s, kind, c)' = EvaluationPlan(s, kind, c)
  BY DEF EvaluationPlan
<1>2. ASSUME NEW s \in Members[d]
      PROVE  RelevantEvidence(evidence, d, s)' = RelevantEvidence(evidence, d, s)
  <2>1. s \in Skills BY GovernanceAssumption
  <2>2. ASSUME NEW r \in q.report,
               r.plan = EvaluationPlan(s, r.plan.kind, IF r.plan.kind = "routing" THEN d ELSE None)
        PROVE  FALSE
    <3>1. r.plan.skill = s /\ (r.plan.kind = "routing" => r.plan.distribution = d)
      BY <2>2 DEF EvaluationPlan
    <3> QED BY <2>2, <3>1 DEF KeepsTo
  <2> QED BY <1>1, <2>1, <2>2 DEF RelevantEvidence
<1>3. Inventory(d)' = Inventory(d) BY <1>2 DEF Inventory
<1>4. ReviewContext(d)' = ReviewContext(d) BY <1>2 DEF ReviewContext
<1>5. RequiredSlots(d)' = RequiredSlots(d) BY DEF RequiredSlots
<1>6. Passing(d)' = Passing(d) /\ Failing(d)' = Failing(d) BY <1>3, <1>5 DEF Passing, Failing
<1> QED BY <1>3, <1>4, <1>5, <1>6

\* An apply takes readiness from nobody else, among any number of processes and
\* whatever the owner does: what it installs, puts back or takes away, a
\* distribution that is ready stays so unless its report was for it or its review
\* is, or the repository is left blocked (workflows.eval_record_plan clears the
\* pointers its report affects; transaction._rollback).
THEOREM OthersKeepReadiness == Spec => OthersStayReady
<1>1. ASSUME EveryEvidence, TypeInv, PlansKeepTo, NEW p \in Processes,
             Install(p) \/ Refuse(p) \/ Confirm(p) \/ RollBack(p),
             NEW d \in Distributions \ Addressed(p), Ready(d), ~Blocked'
      PROVE  Ready(d)'
  <2> DEFINE q == plan[p]
  <2>1. KeepsTo(q) /\ d \notin q.concerns /\ d \notin DOMAIN q.pointer
    BY <1>1 DEF PlansKeepTo, Addressed, KeepsTo
  <2>2. /\ candidate' = candidate /\ declared' = declared
        /\ active'[d] = active[d]
        /\ reviews \ q.review \subseteq reviews'
        /\ \A s \in Skills :
             /\ evidence'[s] \subseteq evidence[s] \cup q.report
             /\ evidence[s] \subseteq evidence'[s] \cup q.report
    <3>1. CASE Install(p) BY <2>1, <3>1 DEF Install
    <3>2. CASE Refuse(p) BY <1>1, <2>1, <3>2 DEF Refuse, TakeAway, repository, TypeInv, TypeOK
    <3>3. CASE Confirm(p) BY <1>1, <3>3 DEF Confirm, repository, TypeInv, TypeOK
    <3>4. CASE RollBack(p) BY <2>1, <3>4 DEF RollBack, Undo
    <3> QED BY <1>1, <3>1, <3>2, <3>3, <3>4
  <2>3. /\ ReviewContext(d)' = ReviewContext(d) /\ Passing(d)' = Passing(d)
        /\ Failing(d)' = Failing(d) /\ RequiredSlots(d)' = RequiredSlots(d)
    BY <2>1, <2>2, UnaddressedSame
  <2>4. /\ active[d] \in reviews /\ active[d] # None /\ active[d] # Lost
        /\ Matches(active[d], d) /\ RequiredSlots(d) \subseteq {Slot(r) : r \in Passing(d)}
    BY <1>1 DEF Ready, ReviewIsCurrent, ValidateReview, Blocked
  <2>5. active[d].context.distribution = d BY <1>1, <2>4 DEF TypeInv, TypeOK
  <2>6. active[d] \in reviews'
    BY <2>1, <2>2, <2>4, <2>5 DEF KeepsTo
  <2>7. Matches(active[d], d)' BY <2>2, <2>3, <2>4 DEF Matches
  <2>8. ReviewIsCurrent(d)'
    BY <1>1, <2>2, <2>4, <2>6, <2>7 DEF ReviewIsCurrent, ValidateReview
  <2> QED BY <1>1, <2>3, <2>4, <2>8 DEF Ready
<1>2. EveryEvidence /\ TypeInv /\ PlansKeepTo /\ [Next]_vars =>
        [\A p \in Processes :
           Install(p) \/ Refuse(p) \/ Confirm(p) \/ RollBack(p) =>
             \A d \in Distributions \ Addressed(p) : Ready(d) => Ready(d)' \/ Blocked']_vars
  BY <1>1
<1>3. Init => EveryEvidence /\ TypeInv /\ PlansKeepTo
  BY InitTyped, InitKeepsTo DEF Init, EveryEvidence
<1>4. EveryEvidence /\ TypeInv /\ PlansKeepTo /\ [Next]_vars =>
        EveryEvidence' /\ TypeInv' /\ PlansKeepTo'
  BY StepEvidence, StepTyped, StepKeepsTo
<1> QED BY <1>2, <1>3, <1>4, PTL DEF Spec, OthersStayReady

---------------------------------------------------------------------------
(* One process at a time.                                                   *)

OneProcess == \A p, q \in Processes : p = q

\* What a plan that is being applied has to do with the pointers: those it
\* moves, and those it knows to stand on nothing.
PlanFits(p) ==
  /\ plan[p].concerns \subseteq Distributions
  /\ DOMAIN plan[p].pointer \subseteq Distributions
  /\ \A d \in DOMAIN plan[p].pointer :
       /\ plan[p].seen[d] = [declared |-> plan[p].seen[d].declared,
                             active |-> plan[p].seen[d].active]
       /\ plan[p].pointer[d] # plan[p].seen[d].active
       /\ d \in unreviewed => plan[p].seen[d].active = None
       /\ pc[p] = "verified" => plan[p].seen[d].active = active[d]
       /\ pc[p] = "installed" => active[d] = plan[p].pointer[d]
  /\ pc[p] = "verified" => plan[p].known = unreviewed
  /\ pc[p] = "installed" => \A d \in Reviewed(p) : plan[p].seen[d].active = None
  /\ \A d \in plan[p].concerns :
       IF d \in DOMAIN plan[p].pointer THEN plan[p].pointer[d] = None ELSE active[d] = None

\* A plan that records evidence clears pointers only, and it concerns every
\* distribution for which its report can ever count.
RecordsEvidence(p) ==
  plan[p].report # {} =>
    /\ plan[p].review = {}
    /\ DOMAIN plan[p].pointer \subseteq plan[p].concerns
    /\ \A r \in plan[p].report, d \in Distributions :
         /\ r.plan.skill \in Members[d]
         /\ r.plan.kind = "routing" => r.plan.distribution = d
         => d \in plan[p].concerns

\* Evidence no review has seen leaves no review in force.
NothingInForce == \A d \in unreviewed : active[d] = None

GovernanceInv ==
  /\ pc \in [Processes -> {"idle", "verified", "installed"}]
  /\ DOMAIN plan = Processes
  /\ unreviewed \subseteq Distributions
  /\ NothingInForce
  /\ \A p \in Processes : pc[p] # "idle" => PlanFits(p) /\ RecordsEvidence(p)

LEMMA InitGovernance == Init => EveryEvidence /\ GovernanceInv
BY DEF Init, EveryEvidence, GovernanceInv, NothingInForce

\* Only one process has a plan, so an invariant that holds of p holds of all.
LEMMA OnlyOne ==
  ASSUME OneProcess, NEW p \in Processes,
         pc' \in [Processes -> {"idle", "verified", "installed"}],
         DOMAIN plan' = Processes, unreviewed' \subseteq Distributions, NothingInForce',
         pc'[p] # "idle" => PlanFits(p)' /\ RecordsEvidence(p)'
  PROVE  GovernanceInv'
BY DEF OneProcess, GovernanceInv

LEMMA VerifyEvalRecordKeeps ==
  ASSUME OneProcess, EveryEvidence, GovernanceInv, NEW p \in Processes, VerifyEvalRecord(p)
  PROVE  GovernanceInv'
<1>1. PICK s \in Skills, kind \in Kinds, d0 \in Distributions \cup {None},
           profile \in Profiles, passed \in BOOLEAN :
        /\ d0 # None => kind = "routing" /\ s \in Members[d0]
        /\ plan' = [plan EXCEPT ![p] = EvalRecordPlan(s,
             [plan |-> EvaluationPlan(s, kind, d0), profile |-> profile, passed |-> passed])]
  BY PlansOneReport
<1> DEFINE r == [plan |-> EvaluationPlan(s, kind, d0), profile |-> profile, passed |-> passed]
           concerned == Concerned(s, r)
           revoked == Revoked(concerned)
<1>2. /\ DOMAIN plan' = Processes
      /\ plan'[p] = EvalRecordPlan(s, r)
  BY <1>1 DEF GovernanceInv
<1>3. /\ active' = active /\ unreviewed' = unreviewed /\ evidence' = evidence
      /\ pc' \in [Processes -> {"idle", "verified", "installed"}]
      /\ pc'[p] = "verified"
  BY DEF VerifyEvalRecord, repository, GovernanceInv
<1>4. /\ plan'[p].report = {r} /\ plan'[p].review = {}
      /\ plan'[p].pointer = [c \in revoked |-> None]
      /\ plan'[p].seen = [c \in revoked |-> File(c)]
      /\ plan'[p].concerns = concerned /\ plan'[p].known = unreviewed
  BY <1>2 DEF EvalRecordPlan
<1>5. concerned \subseteq Distributions /\ revoked = {c \in concerned : active[c] # None}
  BY DEF Concerned, Revoked
<1>6. PlanFits(p)'
  <2> HIDE DEF r, concerned, revoked
  <2> QED BY <1>3, <1>4, <1>5 DEF PlanFits, GovernanceInv, NothingInForce, File
<1>7. \A d \in Distributions :
        /\ r.plan.skill \in Members[d]
        /\ r.plan.kind = "routing" => r.plan.distribution = d
        => d \in concerned
  BY <1>1, ConcernsCover
<1>8. RecordsEvidence(p)'
  <2> HIDE DEF r, concerned, revoked
  <2> QED BY <1>4, <1>5, <1>7 DEF RecordsEvidence
<1>9. unreviewed' \subseteq Distributions /\ NothingInForce'
  BY <1>3 DEF GovernanceInv, NothingInForce
<1> QED BY <1>2, <1>3, <1>6, <1>8, <1>9, OnlyOne

LEMMA VerifyReviewRecordKeeps ==
  ASSUME OneProcess, GovernanceInv, NEW p \in Processes, VerifyReviewRecord(p)
  PROVE  GovernanceInv'
<1>0. PICK d0 \in Distributions : \E document :
        /\ active[d0] # document
        /\ plan' = [plan EXCEPT ![p] = ReviewRecordPlan(d0, document)]
  BY DEF VerifyReviewRecord
<1>1. PICK document :
        /\ active[d0] # document
        /\ plan' = [plan EXCEPT ![p] = ReviewRecordPlan(d0, document)]
  BY <1>0
<1>2. /\ DOMAIN plan' = Processes
      /\ plan'[p] = ReviewRecordPlan(d0, document)
  BY <1>1 DEF GovernanceInv
<1>3. /\ active' = active /\ unreviewed' = unreviewed
      /\ pc' \in [Processes -> {"idle", "verified", "installed"}]
      /\ pc'[p] = "verified"
  BY DEF VerifyReviewRecord, repository, GovernanceInv
<1>4. /\ plan'[p].report = {} /\ plan'[p].pointer = [c \in {d0} |-> document]
      /\ plan'[p].seen = [c \in {d0} |-> File(c)]
      /\ plan'[p].concerns = {} /\ plan'[p].known = unreviewed
  BY <1>2 DEF ReviewRecordPlan
<1>5. PlanFits(p)'
  BY <1>1, <1>3, <1>4 DEF PlanFits, GovernanceInv, NothingInForce, File
<1>6. RecordsEvidence(p)' BY <1>4 DEF RecordsEvidence
<1>7. unreviewed' \subseteq Distributions /\ NothingInForce'
  BY <1>3 DEF GovernanceInv, NothingInForce
<1> QED BY <1>2, <1>3, <1>5, <1>6, <1>7, OnlyOne

LEMMA InstallKeeps ==
  ASSUME OneProcess, GovernanceInv, NEW p \in Processes, Install(p)
  PROVE  GovernanceInv'
<1>1. /\ pc[p] = "verified" /\ plan' = plan
      /\ unreviewed' = unreviewed \ Reviewed(p)
      /\ active' = [d \in Distributions |->
            IF d \in DOMAIN plan[p].pointer THEN plan[p].pointer[d] ELSE active[d]]
      /\ pc' = [pc EXCEPT ![p] = "installed"]
  BY DEF Install
<1>2. /\ pc' \in [Processes -> {"idle", "verified", "installed"}]
      /\ pc'[p] = "installed"
      /\ DOMAIN plan' = Processes /\ unreviewed' \subseteq Distributions
      /\ PlanFits(p) /\ RecordsEvidence(p)
  BY <1>1 DEF GovernanceInv
<1>3. Reviewed(p)' = Reviewed(p) BY <1>1 DEF Reviewed
<1>4. ASSUME NEW d \in Reviewed(p) PROVE plan[p].seen[d].active = None
  BY <1>1, <1>2, <1>4 DEF Reviewed, PlanFits
<1>5. PlanFits(p)' BY <1>1, <1>2, <1>3, <1>4 DEF PlanFits
<1>6. NothingInForce'
  <2>1. ASSUME NEW d \in unreviewed' PROVE active'[d] = None
    <3>1. d \in unreviewed /\ d \in Distributions /\ d \notin Reviewed(p) /\ active[d] = None
      BY <1>1, <2>1 DEF GovernanceInv, NothingInForce
    <3>2. d \in plan[p].known BY <3>1, <1>1, <1>2 DEF PlanFits
    <3> QED BY <1>1, <3>1, <3>2 DEF Reviewed
  <2> QED BY <2>1 DEF NothingInForce
<1>7. RecordsEvidence(p)' BY <1>1, <1>2 DEF RecordsEvidence
<1> QED BY <1>2, <1>5, <1>6, <1>7, OnlyOne

LEMMA RefuseKeeps ==
  ASSUME OneProcess, GovernanceInv, NEW p \in Processes, Refuse(p)
  PROVE  GovernanceInv'
<1>1. /\ pc' \in [Processes -> {"idle", "verified", "installed"}]
      /\ pc'[p] = "idle" /\ DOMAIN plan' = Processes /\ unreviewed' = unreviewed
  BY DEF Refuse, Finish, TakeAway, GovernanceInv
<1>2. pc[p] = "verified" /\ PlanFits(p) BY DEF Refuse, GovernanceInv
<1>3. ASSUME NEW d \in Distributions, d \in DOMAIN plan[p].pointer PROVE ~Pointed(p, d)
  BY <1>2, <1>3 DEF PlanFits, Pointed, File
<1>4. ASSUME NEW d \in Distributions PROVE active'[d] = active[d]
  BY <1>3, <1>4 DEF Refuse, TakeAway, repository
<1>5. NothingInForce' BY <1>1, <1>4 DEF NothingInForce, GovernanceInv
<1> QED BY <1>1, <1>5, OnlyOne DEF GovernanceInv

LEMMA ConfirmKeeps ==
  ASSUME OneProcess, GovernanceInv, NEW p \in Processes, Confirm(p)
  PROVE  GovernanceInv'
<1>1. /\ pc' \in [Processes -> {"idle", "verified", "installed"}]
      /\ pc'[p] = "idle" /\ DOMAIN plan' = Processes
      /\ active' = active /\ unreviewed' = unreviewed \cup plan[p].concerns
  BY DEF Confirm, Finish, repository, GovernanceInv
<1>2. pc[p] = "installed" /\ PlanFits(p) BY DEF Confirm, GovernanceInv
<1>3. ASSUME NEW d \in plan[p].concerns PROVE active[d] = None
  BY <1>2, <1>3 DEF PlanFits
<1>4. NothingInForce' BY <1>1, <1>3 DEF NothingInForce, GovernanceInv
<1>5. unreviewed' \subseteq Distributions BY <1>1, <1>2 DEF PlanFits, GovernanceInv
<1> QED BY <1>1, <1>4, <1>5, OnlyOne

LEMMA RollBackKeeps ==
  ASSUME OneProcess, GovernanceInv, NEW p \in Processes, RollBack(p)
  PROVE  GovernanceInv'
<1>1. /\ pc' \in [Processes -> {"idle", "verified", "installed"}]
      /\ pc'[p] = "idle" /\ DOMAIN plan' = Processes
  BY DEF RollBack, Finish, GovernanceInv
<1>2. pc[p] = "installed" /\ PlanFits(p) BY DEF RollBack, GovernanceInv
<1>3. /\ active' = [d \in Distributions |->
            IF d \in DOMAIN plan[p].pointer /\ (Pointed(p, d) \/ active[d] = Lost)
            THEN plan[p].seen[d].active ELSE active[d]]
      /\ unreviewed' = unreviewed \cup {d \in Reviewed(p) : Pointed(p, d)}
  BY DEF RollBack, Undo
<1>4. unreviewed' \subseteq Distributions
  BY <1>2, <1>3 DEF PlanFits, Reviewed, GovernanceInv
<1>5. ASSUME NEW d \in unreviewed' PROVE active'[d] = None
  <2>1. d \in Distributions BY <1>4
  <2>2. CASE d \in unreviewed
    <3>1. active[d] = None BY <2>2 DEF GovernanceInv, NothingInForce
    <3> QED BY <1>2, <1>3, <2>1, <2>2, <3>1 DEF PlanFits
  <2>3. CASE d \in Reviewed(p) /\ Pointed(p, d)
    BY <1>2, <1>3, <2>1, <2>3 DEF PlanFits, Reviewed
  <2> QED BY <1>3, <2>2, <2>3
<1>6. NothingInForce' BY <1>5 DEF NothingInForce
<1> QED BY <1>1, <1>4, <1>6, OnlyOne

LEMMA StepGovernance ==
  ASSUME OneProcess, EveryEvidence, GovernanceInv, [Next]_vars
  PROVE  GovernanceInv'
<1>1. CASE Owner \/ UNCHANGED vars
  <2>1. UNCHANGED <<active, pc, plan, unreviewed>>
    BY <1>1 DEF Owner, EditCandidate, EditDeclarations, DeleteReport, DeleteReview,
                vars, repository
  <2> QED BY <2>1 DEF GovernanceInv, NothingInForce, PlanFits, RecordsEvidence, Reviewed
<1>2. ASSUME NEW p \in Processes,
             VerifyEvalRecord(p) \/ VerifyReviewRecord(p)
               \/ Install(p) \/ Refuse(p) \/ Confirm(p) \/ RollBack(p)
      PROVE  GovernanceInv'
  BY <1>2, VerifyEvalRecordKeeps, VerifyReviewRecordKeeps, InstallKeeps, RefuseKeeps,
     ConfirmKeeps, RollBackKeeps
<1> QED BY <1>1, <1>2 DEF Next

\* Once relevant evidence was recorded, a distribution is not ready before a
\* review made after it is installed, whatever the owner edits, reverts or
\* deletes meanwhile (workflows.eval_record_plan), for one process at a time.
THEOREM EvidenceRevokes == OneProcess /\ Spec => []NoRevival
<1> SUFFICES ASSUME OneProcess PROVE Spec => []NoRevival
  OBVIOUS
<1>1. GovernanceInv => NoRevival
  BY DEF GovernanceInv, NothingInForce, NoRevival, Ready, ReviewIsCurrent
<1> QED BY <1>1, InitGovernance, StepEvidence, StepGovernance, PTL DEF Spec

---------------------------------------------------------------------------
(* Recording evidence.                                                      *)

\* A report that does not concern a distribution is no evidence there.
LEMMA UnconcernedSame ==
  ASSUME GovernanceInv, NEW p \in Processes, Install(p), plan[p].report # {},
         NEW d \in Distributions, d \notin plan[p].concerns
  PROVE  /\ ReviewContext(d)' = ReviewContext(d) /\ RequiredSlots(d)' = RequiredSlots(d)
         /\ Passing(d)' = Passing(d) /\ Failing(d)' = Failing(d)
<1>1. KeepsTo(plan[p]) BY DEF Install, GovernanceInv, RecordsEvidence, KeepsTo
<1>2. /\ candidate' = candidate /\ declared' = declared
      /\ \A s \in Skills :
           /\ evidence'[s] \subseteq evidence[s] \cup plan[p].report
           /\ evidence[s] \subseteq evidence'[s] \cup plan[p].report
  BY DEF Install
<1> QED BY <1>1, <1>2, UnaddressedSame

\* Recording evidence makes no distribution ready (app._apply_result,
\* workflows.eval_record_plan), for one process at a time: a distribution that
\* is ready afterwards has its pointer, so the report does not concern it.
THEOREM RecordingRevokes == OneProcess /\ Spec => RecordingNeverReadies
<1> SUFFICES ASSUME OneProcess PROVE Spec => RecordingNeverReadies
  OBVIOUS
<1>1. ASSUME GovernanceInv, NEW p \in Processes, Install(p), plan[p].report # {},
             NEW d \in Distributions, Ready(d)', ~Blocked
      PROVE  Ready(d)
  <2>1. /\ declared' = declared /\ reviews' = reviews \cup plan[p].review
        /\ active'[d] = IF d \in DOMAIN plan[p].pointer THEN plan[p].pointer[d] ELSE active[d]
        /\ PlanFits(p) /\ RecordsEvidence(p)
    BY <1>1 DEF Install, GovernanceInv
  <2>2. active'[d] # None BY <1>1 DEF Ready, ReviewIsCurrent
  <2>3. /\ d \notin plan[p].concerns /\ active'[d] = active[d] /\ reviews' = reviews
    BY <1>1, <2>1, <2>2 DEF PlanFits, RecordsEvidence
  <2>4. /\ ReviewContext(d)' = ReviewContext(d) /\ RequiredSlots(d)' = RequiredSlots(d)
        /\ Passing(d)' = Passing(d) /\ Failing(d)' = Failing(d)
    BY <1>1, <2>3, UnconcernedSame
  <2>5. ReviewIsCurrent(d)
    BY <1>1, <2>3, <2>4 DEF Ready, ReviewIsCurrent, ValidateReview, Matches
  <2> QED BY <1>1, <2>5, CurrentReviewIsReady
<1>2. GovernanceInv /\ [Next]_vars =>
        [\A p \in Processes :
           Install(p) /\ plan[p].report # {} =>
             \A d \in Distributions : Ready(d)' => Ready(d) \/ Blocked]_vars
  BY <1>1
<1> QED BY <1>2, InitGovernance, StepEvidence, StepGovernance, PTL
        DEF Spec, RecordingNeverReadies

---------------------------------------------------------------------------
(* Deleting evidence.                                                       *)

\* The evaluation plan of s as review x saw the candidates of d.
PlanSeen(x, s, kind, d) ==
  [skill |-> s, kind |-> kind, distribution |-> IF kind = "routing" THEN d ELSE None,
   candidate |-> x.context.members[s].candidate,
   catalog |-> IF kind = "behavior" THEN None
               ELSE [m \in Members[d] |-> Description[x.context.members[m].candidate]]]

\* Review x of d saw every record that counts for the candidates it saw.
Informed(x, d, records) ==
  \A s \in Members[d] : \A r \in records[s] :
    r.plan = PlanSeen(x, s, r.plan.kind, d) => r \in x.context.members[s].evidence

Without(report) == [s \in Skills |-> evidence[s] \ report]

\* Every review in force is informed, and so is every review an apply may put
\* in force, be it by installing or by rolling back.
InformedInv ==
  /\ \A d \in Distributions : active[d] # None => Informed(active[d], d, evidence)
  /\ \A p \in Processes : \A d \in DOMAIN plan[p].pointer :
       /\ pc[p] = "verified" /\ plan[p].pointer[d] # None =>
            Informed(plan[p].pointer[d], d, evidence)
       /\ pc[p] = "installed" /\ plan[p].seen[d].active # None =>
            Informed(plan[p].seen[d].active, d, Without(plan[p].report))

KindsTyped ==
  /\ \A s \in Skills : \A r \in evidence[s] : r.plan.kind \in Kinds
  /\ \A p \in Processes : \A r \in plan[p].report : r.plan.kind \in Kinds

LEMMA TypesHaveKinds == TypeInv => KindsTyped
BY DEF TypeInv, TypeOK, IsReport, KindsTyped

LEMMA Fewer ==
  ASSUME NEW x, NEW d \in Distributions, NEW few, NEW many, Informed(x, d, many),
         \A s \in Skills : few[s] \subseteq many[s]
  PROVE  Informed(x, d, few)
BY GovernanceAssumption DEF Informed

\* For a review of the candidates as they are, what it saw is what counts.
LEMMA SeenIsRelevant ==
  ASSUME NEW x, NEW d \in Distributions, NEW s \in Members[d], NEW r, r.plan.kind \in Kinds,
         \A m \in Members[d] : x.context.members[m].candidate = candidate[m]
  PROVE  PlanSeen(x, s, r.plan.kind, d)
           = EvaluationPlan(s, r.plan.kind, IF r.plan.kind = "routing" THEN d ELSE None)
BY GovernanceAssumption DEF PlanSeen, EvaluationPlan, Kinds

LEMMA InitInformed == Init => InformedInv
BY DEF Init, InformedInv, NoPlan

LEMMA InformedAfterVerify ==
  ASSUME OneProcess, GovernanceInv, KindsTyped, InformedInv, NEW p \in Processes,
         VerifyEvalRecord(p) \/ VerifyReviewRecord(p)
  PROVE  InformedInv'
<1>1. /\ active' = active /\ evidence' = evidence /\ candidate' = candidate
      /\ pc'[p] = "verified" /\ \A q \in Processes : q = p
  BY DEF VerifyEvalRecord, VerifyReviewRecord, repository, GovernanceInv, OneProcess
<1>2. SUFFICES ASSUME NEW d \in DOMAIN plan'[p].pointer, plan'[p].pointer[d] # None
               PROVE  Informed(plan'[p].pointer[d], d, evidence)
  BY <1>1 DEF InformedInv
<1>3. CASE VerifyEvalRecord(p)
  <2>1. PICK s, r : plan' = [plan EXCEPT ![p] = EvalRecordPlan(s, r)]
    BY <1>3 DEF VerifyEvalRecord
  <2>2. plan'[p].pointer[d] = None BY <2>1, <1>2 DEF EvalRecordPlan, GovernanceInv
  <2> QED BY <2>2, <1>2
<1>4. CASE VerifyReviewRecord(p)
  <2>1. PICK d0 \in Distributions : \E document :
          /\ document.context = ReviewContext(d0)
          /\ plan' = [plan EXCEPT ![p] = ReviewRecordPlan(d0, document)]
    BY <1>4 DEF VerifyReviewRecord, ValidateReview, Matches
  <2>2. PICK document :
          /\ document.context = ReviewContext(d0)
          /\ plan' = [plan EXCEPT ![p] = ReviewRecordPlan(d0, document)]
    BY <2>1
  <2>3. d = d0 /\ plan'[p].pointer[d] = document
    BY <2>2, <1>2 DEF ReviewRecordPlan, GovernanceInv
  <2>4. \A m \in Members[d] :
          /\ document.context.members[m].candidate = candidate[m]
          /\ document.context.members[m].evidence = RelevantEvidence(evidence, d, m)
    BY <2>2, <2>3 DEF ReviewContext
  <2>5. ASSUME NEW s \in Members[d], NEW r \in evidence[s],
               r.plan = PlanSeen(document, s, r.plan.kind, d)
        PROVE  r \in RelevantEvidence(evidence, d, s)
    <3>1. d \in Distributions /\ s \in Skills BY <2>1, <2>3, GovernanceAssumption
    <3>2. r.plan.kind \in Kinds BY <3>1 DEF KindsTyped
    <3>3. PlanSeen(document, s, r.plan.kind, d)
            = EvaluationPlan(s, r.plan.kind, IF r.plan.kind = "routing" THEN d ELSE None)
      BY <2>4, <3>1, <3>2, SeenIsRelevant
    <3> QED BY <2>5, <3>3 DEF RelevantEvidence
  <2> QED BY <2>3, <2>4, <2>5 DEF Informed
<1> QED BY <1>3, <1>4

LEMMA InformedAfterInstall ==
  ASSUME OneProcess, EveryEvidence, GovernanceInv, KindsTyped, InformedInv,
         NEW p \in Processes, Install(p)
  PROVE  InformedInv'
<1>1. /\ pc[p] = "verified" /\ pc'[p] = "installed" /\ plan' = plan
      /\ PlanFits(p) /\ RecordsEvidence(p) /\ \A q \in Processes : q = p
      /\ evidence' = [s \in Skills |->
            evidence[s] \cup {r \in plan[p].report : r.plan.skill = s}]
      /\ active' = [d \in Distributions |->
            IF d \in DOMAIN plan[p].pointer THEN plan[p].pointer[d] ELSE active[d]]
  BY DEF Install, GovernanceInv, OneProcess
<1>2. ASSUME NEW d \in Distributions, active'[d] # None
      PROVE  Informed(active'[d], d, evidence')
  <2>1. Informed(active'[d], d, evidence)
    BY <1>1, <1>2 DEF InformedInv
  <2>2. d \notin plan[p].concerns BY <1>1, <1>2 DEF PlanFits
  <2>3. ASSUME NEW s \in Members[d], NEW r \in plan[p].report, r.plan.skill = s
        PROVE  r.plan # PlanSeen(active'[d], s, r.plan.kind, d)
    <3>1. r.plan.kind = "routing" /\ r.plan.distribution # d
      BY <1>1, <2>2, <2>3 DEF RecordsEvidence
    <3> QED BY <3>1 DEF PlanSeen
  <2>4. \A s \in Members[d] : s \in Skills BY GovernanceAssumption
  <2> QED BY <1>1, <2>1, <2>3, <2>4 DEF Informed
<1>3. ASSUME NEW d \in DOMAIN plan[p].pointer, plan[p].seen[d].active # None
      PROVE  Informed(plan[p].seen[d].active, d, Without(plan[p].report)')
  <2>1. d \in Distributions /\ Informed(plan[p].seen[d].active, d, evidence)
    BY <1>1, <1>3 DEF PlanFits, InformedInv
  <2>2. \A s \in Skills : Without(plan[p].report)'[s] \subseteq evidence[s]
    BY <1>1 DEF Without
  <2> QED BY <2>1, <2>2, Fewer
<1> QED BY <1>1, <1>2, <1>3 DEF InformedInv

LEMMA InformedAfterEnd ==
  ASSUME OneProcess, EveryEvidence, GovernanceInv, InformedInv, NEW p \in Processes,
         Refuse(p) \/ Confirm(p) \/ RollBack(p)
  PROVE  InformedInv'
<1>1. pc'[p] = "idle" /\ \A q \in Processes : q = p
  BY DEF Refuse, Confirm, RollBack, Finish, GovernanceInv, OneProcess
<1>2. SUFFICES ASSUME NEW d \in Distributions, active'[d] # None
               PROVE  Informed(active'[d], d, evidence')
  BY <1>1 DEF InformedInv
<1>3. CASE Confirm(p)
  BY <1>2, <1>3 DEF Confirm, repository, InformedInv
<1>4. CASE Refuse(p)
  <2>1. pc[p] = "verified" /\ PlanFits(p) BY <1>4 DEF Refuse, GovernanceInv
  <2>2. d \in DOMAIN plan[p].pointer => ~Pointed(p, d) BY <2>1 DEF PlanFits, Pointed, File
  <2>3. /\ active'[d] = active[d]
        /\ \A s \in Skills : evidence'[s] \subseteq evidence[s]
    BY <1>4, <2>2 DEF Refuse, TakeAway, repository
  <2> QED BY <1>2, <2>3, Fewer DEF InformedInv
<1>5. CASE RollBack(p)
  <2>1. /\ pc[p] = "installed"
        /\ evidence' = Without(plan[p].report)
        /\ active'[d] = IF d \in DOMAIN plan[p].pointer /\ (Pointed(p, d) \/ active[d] = Lost)
                        THEN plan[p].seen[d].active ELSE active[d]
    BY <1>5 DEF RollBack, Undo, Without
  <2>2. \A s \in Skills : evidence'[s] \subseteq evidence[s] BY <2>1 DEF Without
  <2>3. CASE active'[d] = active[d] BY <1>2, <2>2, <2>3, Fewer DEF InformedInv
  <2>4. CASE d \in DOMAIN plan[p].pointer /\ active'[d] = plan[p].seen[d].active
    BY <1>2, <2>1, <2>4 DEF InformedInv
  <2> QED BY <2>1, <2>3, <2>4
<1> QED BY <1>3, <1>4, <1>5

LEMMA InformedAfterOwner ==
  ASSUME EveryEvidence, GovernanceInv, InformedInv, Owner \/ UNCHANGED vars
  PROVE  InformedInv'
<1>1. /\ active' = active /\ pc' = pc /\ plan' = plan
      /\ \A s \in Skills : evidence'[s] \subseteq evidence[s]
  BY DEF EveryEvidence, Owner, EditCandidate, EditDeclarations, DeleteReport, DeleteReview,
         vars, repository
<1>2. \A p \in Processes : pc[p] # "idle" => DOMAIN plan[p].pointer \subseteq Distributions
  BY DEF GovernanceInv, PlanFits
<1>3. \A d \in Distributions : active'[d] # None => Informed(active'[d], d, evidence')
  BY <1>1, Fewer DEF InformedInv
<1>4. ASSUME NEW p \in Processes, NEW d \in DOMAIN plan[p].pointer
      PROVE  /\ pc[p] = "verified" /\ plan[p].pointer[d] # None =>
                  Informed(plan[p].pointer[d], d, evidence')
             /\ pc[p] = "installed" /\ plan[p].seen[d].active # None =>
                  Informed(plan[p].seen[d].active, d, Without(plan[p].report)')
  <2>1. CASE pc[p] = "verified" BY <1>1, <1>2, <2>1, Fewer DEF InformedInv
  <2>2. CASE pc[p] = "installed"
    <3>1. d \in Distributions BY <1>2, <2>2
    <3>2. \A s \in Skills : Without(plan[p].report)'[s] \subseteq Without(plan[p].report)[s]
      BY <1>1 DEF Without
    <3>3. plan[p].seen[d].active # None =>
            Informed(plan[p].seen[d].active, d, Without(plan[p].report))
      BY <2>2 DEF InformedInv
    <3> QED BY <2>2, <3>1, <3>2, <3>3, Fewer
  <2> QED BY <2>1, <2>2
<1> QED BY <1>1, <1>3, <1>4 DEF InformedInv

LEMMA StepInformed ==
  ASSUME OneProcess, EveryEvidence, GovernanceInv, KindsTyped, InformedInv, [Next]_vars
  PROVE  InformedInv'
BY InformedAfterVerify, InformedAfterInstall, InformedAfterEnd, InformedAfterOwner DEF Next

\* Where no plan is half applied, deleting a report makes no distribution ready
\* (docs/design.md:50; workflows.eval_record_plan clears affected pointers), for
\* one process at a time: what a review in force did not see does not count.
THEOREM DeletionRevivesNothing == OneProcess /\ Spec => DeletionNeverReadies
<1> SUFFICES ASSUME OneProcess PROVE Spec => DeletionNeverReadies
  OBVIOUS
<1>1. ASSUME BoundInv, KindsTyped, InformedInv, \A p \in Processes : pc[p] # "installed",
             NEW s0 \in Skills, NEW r0 \in evidence[s0], DeleteReport(s0, r0),
             NEW d \in Distributions, Ready(d)'
      PROVE  Ready(d)
  <2> DEFINE x == active[d]
  <2>1. /\ candidate' = candidate /\ declared' = declared /\ reviews' = reviews
        /\ active' = active /\ \A s \in Skills : evidence'[s] \subseteq evidence[s]
    BY <1>1 DEF DeleteReport, BoundInv, EveryEvidence
  <2>2. /\ ~Blocked' /\ x # None /\ x \in reviews /\ x.context = ReviewContext(d)'
        /\ Informed(x, d, evidence)
    BY <1>1, <2>1 DEF Ready, ReviewIsCurrent, ValidateReview, Matches, InformedInv
  <2>3. \A m \in Members[d] :
          /\ x.context.members[m].candidate = candidate[m]
          /\ x.context.members[m].evidence = RelevantEvidence(evidence, d, m)'
    BY <2>1, <2>2 DEF ReviewContext
  <2>4. \A s, kind, c : EvaluationPlan(s, kind, c)' = EvaluationPlan(s, kind, c)
    BY <2>1 DEF EvaluationPlan
  <2>5. ASSUME NEW s \in Members[d]
        PROVE  RelevantEvidence(evidence, d, s)' = RelevantEvidence(evidence, d, s)
    <3>1. s \in Skills BY GovernanceAssumption
    <3>2. RelevantEvidence(evidence, d, s)' \subseteq RelevantEvidence(evidence, d, s)
      BY <2>1, <2>4, <3>1 DEF RelevantEvidence
    <3>3. ASSUME NEW r \in RelevantEvidence(evidence, d, s)
          PROVE  r \in x.context.members[s].evidence
      <4>1. r \in evidence[s] /\ r.plan.kind \in Kinds
        BY <1>1, <3>1 DEF RelevantEvidence, KindsTyped
      <4>2. r.plan = PlanSeen(x, s, r.plan.kind, d)
        <5>1. PlanSeen(x, s, r.plan.kind, d)
                = EvaluationPlan(s, r.plan.kind, IF r.plan.kind = "routing" THEN d ELSE None)
          BY <2>3, <4>1, SeenIsRelevant
        <5> QED BY <3>3, <5>1 DEF RelevantEvidence
      <4> QED BY <2>2, <4>1, <4>2 DEF Informed
    <3> QED BY <2>3, <3>2, <3>3
  <2>6. ReviewContext(d)' = ReviewContext(d) /\ Inventory(d)' = Inventory(d)
    BY <2>1, <2>5 DEF ReviewContext, Inventory
  <2>7. RequiredSlots(d)' = RequiredSlots(d) BY <2>1 DEF RequiredSlots
  <2>8. Passing(d)' = Passing(d) /\ Failing(d)' = Failing(d)
    BY <2>6, <2>7 DEF Passing, Failing
  <2>9. ~Blocked
    <3>1. ASSUME NEW s \in Skills PROVE ~(Cardinality(evidence[s]) > MaxRecords)
      <4>1. Settled(s) = evidence[s] BY <1>1 DEF Settled, Unconfirmed
      <4>2. IsFiniteSet(evidence[s]) /\ Cardinality(evidence[s]) <= MaxRecords
        BY <1>1, <4>1 DEF BoundInv
      <4>3. Cardinality(evidence[s]) \in Nat BY <4>2, FS_CardinalityType
      <4> QED BY <4>2, <4>3, GovernanceAssumption
    <3>2. \A c \in Distributions : active[c] \in reviews \cup {None} /\ active[c] # Lost
      BY <2>1, <2>2 DEF Blocked, Damaged
    <3> QED BY <3>1, <3>2, GovernanceAssumption DEF Blocked, Damaged
  <2>10. ReviewIsCurrent(d)
    BY <1>1, <2>1, <2>2, <2>6, <2>7, <2>8, <2>9 DEF Ready, ReviewIsCurrent, ValidateReview, Matches
  <2> QED BY <2>9, <2>10, CurrentReviewIsReady
<1>2. BoundInv /\ KindsTyped /\ InformedInv /\ [Next]_vars =>
        [(/\ \A p \in Processes : pc[p] # "installed"
          /\ \E s \in Skills : \E r \in evidence[s] : DeleteReport(s, r))
         => \A d \in Distributions : Ready(d)' => Ready(d)]_vars
  BY <1>1
<1>3. Init => BoundInv /\ EveryEvidence /\ GovernanceInv /\ TypeInv /\ InformedInv
  BY InitBound, InitGovernance, InitTyped, InitInformed
<1>4. BoundInv /\ EveryEvidence /\ GovernanceInv /\ TypeInv /\ InformedInv /\ [Next]_vars =>
        BoundInv' /\ EveryEvidence' /\ GovernanceInv' /\ TypeInv' /\ InformedInv'
  BY StepBound, StepEvidence, StepGovernance, StepTyped, StepInformed, TypesHaveKinds
<1>5. TypeInv => KindsTyped BY TypesHaveKinds
<1> QED BY <1>2, <1>3, <1>4, <1>5, PTL DEF Spec, DeletionNeverReadies

=============================================================================
