--------------------------- MODULE AtomicMutation ---------------------------
(***************************************************************************)
(* What apply_changes promises someone who only looks at the destinations  *)
(* and at the reported outcome (docs/design.md:16,55-58): destinations go  *)
(* forward one at a time and in plan order, only while the call is open;   *)
(* after an abort they only go back; a committed plan stays in place; and  *)
(* the outcome says which of these happened.                               *)
(***************************************************************************)
EXTENDS Integers

CONSTANT N

Change == 1..N
Places == {"prior", "missing", "planned", "other"}
Rank(place) == CASE place = "prior" -> 0 [] place = "missing" -> 1 [] OTHER -> 2

VARIABLES
  place,    \* what each destination holds, as the plan sees it
  verdict,  \* unopened, open, aborted, committed or closed
  outcome   \* the reported MutationOutcome, "none" until the call returns

vars == <<place, verdict, outcome>>

All(p) == \A c \in Change : place[c] = p

Init ==
  /\ place \in [Change -> Places]
  /\ verdict = "unopened"
  /\ outcome = "none"

\* The plan is still current everywhere and every object is staged.
Open ==
  /\ verdict = "unopened" /\ All("prior")
  /\ verdict' = "open"
  /\ UNCHANGED <<place, outcome>>

Forward(c) ==
  /\ verdict = "open"
  /\ \A d \in Change : (d < c => place[d] = "planned") /\ (d > c => place[d] = "prior")
  /\ \E p \in Places \ {"other"} :
       /\ Rank(p) > Rank(place[c])
       /\ place' = [place EXCEPT ![c] = p]
  /\ UNCHANGED <<verdict, outcome>>

Abort ==
  /\ verdict \in {"unopened", "open"}
  /\ verdict' = "aborted"
  /\ UNCHANGED <<place, outcome>>

Back(c) ==
  /\ verdict = "aborted" /\ place[c] # "other"
  /\ \E p \in Places \ {"other"} :
       /\ Rank(p) < Rank(place[c])
       /\ place' = [place EXCEPT ![c] = p]
  /\ UNCHANGED <<verdict, outcome>>

Commit ==
  /\ verdict = "open" /\ All("planned")
  /\ verdict' = "committed"
  /\ UNCHANGED <<place, outcome>>

\* "applied" and "restored" are earned; "unchanged" is for a call that never
\* opened; residue and unknown may end any call.
Report(result) ==
  /\ verdict # "closed" /\ verdict # "open"
  /\ result = "applied" => verdict = "committed"
  /\ result = "restored" => verdict = "aborted" /\ All("prior")
  /\ result = "unchanged" => verdict = "unopened"
  /\ outcome' = result
  /\ verdict' = "closed"
  /\ UNCHANGED place

Next ==
  \/ Open \/ Abort \/ Commit
  \/ \E c \in Change : Forward(c) \/ Back(c)
  \/ \E result \in {"unchanged", "applied", "restored", "residue", "unknown"} : Report(result)

Spec == Init /\ [][Next]_vars

=============================================================================
