---------------------------- MODULE MCGovernance ----------------------------
EXTENDS Governance

CONSTANTS a, d1, d2, v1, v2

\* The second distribution is empty; it still needs a review.
OneMember == [d \in Distributions |-> IF d = d1 THEN {a} ELSE {}]
BothMembers == [d \in Distributions |-> {a}]
SameDescription == [v \in Versions |-> "same"]
OwnDescription == [v \in Versions |-> v]
Behavior == [x \in Declarations |-> {<<"behavior", "default">>}]
\* The second declarations also ask for a routing evaluation.
RoutingToo == [x \in Declarations |->
  {<<"behavior", "default">>} \cup IF x = "x" THEN {} ELSE {<<"routing", "default">>}]
=============================================================================
