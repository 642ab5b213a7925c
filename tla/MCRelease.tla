----------------------------- MODULE MCRelease -----------------------------
EXTENDS Release

CONSTANTS a, b, v1, v2, v3

MCGoverned == <<a, b>>

Private == [members |-> {a, b}, audience |-> "private", target |-> "t"]
Public == [members |-> {a}, audience |-> "public", target |-> "t"]
Moved == [Private EXCEPT !.target = "u"]
MCPolicies == {Private, Public, Moved}

\* v3 is v1 with another file, which Git ignores; a skill of v2 is all ignored.
MCUnreported == {<<v3, v1>>, <<v2, None>>}

Approved(w) == [w EXCEPT !.review = Subject(w)]
Committed(v, policy, parent) ==
  [files |-> Approved([skills |-> [s \in {a, b} |-> v], policy |-> policy, review |-> None]),
   parent |-> parent]

\* Four reviewed commits of the source; the first was for another target.
MCCommits ==
  <<Committed(v1, Moved, 0), Committed(v1, Private, 1), Committed(v2, Private, 2),
    Committed(v3, Private, 3)>>

Blank(payload) == [payload |-> payload, manifest |-> None, other |-> 0]

\* A release of the source's commit i over the mirror's commit pre.
Released(i, pre) ==
  LET c == MCCommits[i].files
      payload == Payload(c.skills, c.policy.members) IN
  [files |->
    [payload |-> payload,
     manifest |-> [source |-> i, branch |-> "main", payload |-> payload,
                   policy |-> c.policy, review |-> c.review, pre |-> pre,
                   remote |-> "https", target |-> c.policy.target,
                   paths |-> {a, b, "manifest"}],
     other |-> 0],
   parent |-> pre]

\* A fresh mirror, one with a skill of its own, one that carries a release of
\* the third commit, one that carries a release for another target, and one
\* whose history is full.
Unreleased(payload) == [files |-> Blank(payload), parent |-> 0]
MCMirrors ==
  {<<Unreleased(NoPayload)>>,
   <<Unreleased([s \in {a} |-> v1])>>,
   <<Unreleased(NoPayload), Released(3, 1)>>,
   <<Unreleased(NoPayload), Released(1, 1)>>,
   <<Unreleased(NoPayload), Released(2, 1), Released(3, 2)>>}
=============================================================================
