------------------------------ MODULE Command ------------------------------
(***************************************************************************)
(* One command of remek from its start to its exit (app.py): the trusted   *)
(* entrypoint (Launch), the queries of git and gh (Capture), then either a *)
(* plan is saved (Artifact) or a saved plan applied (the outcomes of       *)
(* Transaction), and the result is reported (Delivery).  The parts follow  *)
(* each other; what they leave behind, the report has to tell.             *)
(***************************************************************************)
EXTENDS Launch, Capture, Artifact, Delivery

VARIABLES
  phase,      \* the part that runs
  tree        \* history: the transaction has left the repository changed

vars == <<launchVars, captureVars, artifactVars, deliveryVars, phase, tree>>

Init ==
  /\ LaunchInit /\ CaptureInit /\ ArtifactInit /\ DeliveryInit
  /\ phase = "launch" /\ tree = FALSE

Start ==
  /\ phase = "launch"
  /\ Starting \/ Switching
  /\ UNCHANGED <<captureVars, artifactVars, deliveryVars, phase, tree>>

\* (What the toolchain was does not matter any more.)
ForgetLaunch ==
  /\ shim' = 0 /\ toolchain' = Of(0)
  /\ launch' = "over" /\ pin' = 0 /\ expected' = 0 /\ unread' = {}
  /\ loaded' = [f \in Modules |-> 0] /\ midway' = Of(0)
  /\ late' = {} /\ switches' = 0 /\ restored' = FALSE

\* main runs, with the PATH of its environment; or exit 2 was all.
Started ==
  /\ phase = "launch" /\ launch \in {"main", "refused"}
  /\ ForgetLaunch
  /\ IF launch = "main"
     THEN phase' = "query" /\ path' \in Paths
     ELSE phase' = "refused" /\ UNCHANGED path
  /\ UNCHANGED <<query, directories, executable, child, pipes, readers, timer, failure, answer,
                 spared, artifactVars, deliveryVars, tree>>

Query ==
  /\ phase = "query"
  /\ CaptureNext
  /\ UNCHANGED <<launchVars, artifactVars, deliveryVars, phase, tree>>

Report(r) ==
  /\ phase' = "deliver" /\ deliver' = "render"
  /\ result' = r
  /\ json' \in BOOLEAN
  /\ UNCHANGED <<stream, told>>

\* (What the child does after its query does not matter any more.)
ForgetQuery ==
  /\ query' = "over" /\ ForgetLookup /\ child' = "none"
  /\ holders' = [s \in Streams |-> {}]
  /\ pipe' = Nothing /\ wrote' = Nothing /\ buffers' = Nothing
  /\ registered' = {} /\ events' = {}
  /\ timer' = "off" /\ failure' = "none" /\ answer' = "none" /\ spared' = "none"

Refused == ErrorResult("refused", "unchanged", 2)
Interrupted == ErrorResult("failed", "unchanged", 130)
Broken == ErrorResult("failed", "unchanged", 70)

\* The command refuses, fails or goes on: it saves a plan, has nothing to
\* save, or applies one.
QueryEnds ==
  /\ phase = "query" /\ query = "over"
  /\ ForgetQuery
  /\ \/ answer = "complete" /\ phase' \in {"save", "apply"} /\ UNCHANGED deliveryVars
     \/ answer = "complete" /\ Report(Result("planned", FALSE, "none", Unset, FALSE))
     \/ answer = "complete" /\ Report(Broken)
     \/ answer = "interrupted" /\ Report(Interrupted)
     \/ answer \notin {"complete", "interrupted"} /\ Report(Refused)
  /\ UNCHANGED <<launchVars, artifactVars, tree>>

Save ==
  /\ phase = "save"
  /\ Saving \/ Crash \/ Reading \/ Meddling
  /\ UNCHANGED <<launchVars, captureVars, deliveryVars, phase, tree>>

\* _plan_result, or main with what write_artifact raised.
SaveEnds ==
  /\ phase = "save" /\ save = "over"
  /\ Report(CASE saved = "saved" -> Result("planned", FALSE, "none", Unset, FALSE)
              [] saved = "refused" -> Refused
              [] saved = "interrupted" -> Interrupted
              [] OTHER -> ErrorResult("refused", saved, 2))
  /\ UNCHANGED <<launchVars, captureVars, artifactVars, tree>>

SaverIsKilled ==
  /\ phase = "save" /\ save = "dead"
  /\ phase' = "dead"
  /\ UNCHANGED <<launchVars, captureVars, artifactVars, deliveryVars, tree>>

\* What a transaction leaves under each outcome.
Left(outcome) ==
  CASE outcome \in {"unchanged", "restored"} -> {FALSE}
    [] outcome \in {"applied", "residue"} -> {TRUE}
    [] outcome = "unknown" -> BOOLEAN

\* _apply_result: the transaction raises, or it returns and the final check
\* fails, finds errors or finds none.
Apply ==
  /\ phase = "apply"
  /\ \E outcome \in {"unchanged", "restored"} \cup Changing :
       /\ tree' \in Left(outcome)
       /\ \/ \E code \in {2, 130, 70} : Report(ErrorResult("refused", outcome, code))
          \/ /\ outcome \in {"unchanged", "applied"}
             /\ Report(ErrorResult("refused", outcome, 2))
          \/ /\ outcome \in {"unchanged", "applied"}
             /\ \E errors \in BOOLEAN :
                  Report(Result(IF ~errors THEN "ok"
                                ELSE IF outcome = "applied" THEN "refused" ELSE "issues",
                                outcome = "applied", outcome, Unset, errors))
  /\ UNCHANGED <<launchVars, captureVars, artifactVars>>

Deliver ==
  /\ phase = "deliver"
  /\ Delivering
  /\ phase' = IF deliver' = "exit" THEN "exited" ELSE phase
  /\ UNCHANGED <<launchVars, captureVars, artifactVars, tree>>

Next ==
  \/ Start \/ Started \/ Query \/ QueryEnds \/ Save \/ SaveEnds \/ SaverIsKilled \/ Apply \/ Deliver

\* remek is scheduled, the clock of a query runs, and nobody can keep a save
\* from taking its next step.
Fairness ==
  /\ CaptureFairness
  /\ WF_vars(phase = "launch" /\ Starting
             /\ UNCHANGED <<captureVars, artifactVars, deliveryVars, phase, tree>>)
  /\ WF_vars(Started \/ QueryEnds \/ SaveEnds \/ SaverIsKilled \/ Apply \/ Deliver)
  /\ WF_vars(phase = "save" /\ Saving /\ UNCHANGED <<launchVars, captureVars, deliveryVars, phase, tree>>)

Spec == Init /\ [][Next]_vars /\ Fairness

-----------------------------------------------------------------------------

\* A query that succeeds has everything that was written to both pipes, by
\* the child and whoever inherited them, until nobody could write any more;
\* it is within the limit, and the child has exited (_capture_process).
CaptureIsWhole ==
  query = "over" /\ answer = "complete" =>
    /\ buffers = wrote /\ \A s \in Streams : holders[s] = {}
    /\ total <= OutputLimit
    /\ child = "exited"

\* However a query ends, at its deadline, at the limit, by an error or by an
\* interrupt while it reads or waits, its child is not left to run.  It is left
\* only when the kill itself is denied, or when the operator interrupts the start
\* of the child or the cleanup before the kill (_capture_process; the exceptions
\* are workflows.py:763-765 and Popen at 894).
NoRunawayChild == query = "over" /\ child = "running" => spared # "none"

\* The PATH the child is given leads it to the executable remek has chosen,
\* and for either tool to nothing unsafe or inside a selected root
\* (_external_command).
LookupsAgree ==
  query = "spawn" =>
    /\ \A t \in Tools, i \in 1..Len(directories) :
         directories[i].where = "outside" /\ directories[i][t] # "unsafe"
    /\ \E i \in Ready("git", directories) :
         directories[i] = executable /\ \A j \in Ready("git", directories) : i <= j

\* remek never replaces or removes a file somebody else has put at the name
\* of the plan (write_artifact; "not replaced; choose new output").
NoClobber ==
  [][entry["destination"] = "other" /\ entry'["destination"] # "other"
       => meddling' # meddling]_vars

\* What the end of a save says is so: a saved plan is there, complete and
\* without its stage (unless somebody has moved it); after a refusal or an
\* interruption nothing of it is left; and every name that an error leaves
\* it at is named (write_artifact, _artifact_failure).
SaveTruthful ==
  save = "over" =>
    /\ saved = "saved" =>
         /\ entry["stage"] # "new"
         /\ meddling = 0 => entry["destination"] = "new" /\ whole
    /\ saved \in {"refused", "interrupted"} => Links = 0
    /\ error # None => \A n \in Names : entry[n] = "new" => n \in error.residue

\* Another command accepts the file only when its save is past its last
\* write and the stage is gone, also if the saver was killed (read_artifact).
ReadIsSettled ==
  reader = "accepted" /\ held.file = "new" => whole /\ entry["stage"] # "new"

\* What a command has left: a changed repository, or a plan file that it
\* does not report as saved.
Mutated == tree \/ (Links > 0 /\ saved # "saved")

\* However the output fails, the exit status tells a command that has left
\* something from one that has not: 0 is success and was told, 3 a mutation
\* that is known or cannot be excluded, and the others are for an unchanged
\* or restored state (docs/contracts.md, "Exits").
ExitTells ==
  phase = "exited" =>
    LET exit == ExitCode(result) IN
    /\ exit = 0 => told.text = "whole" /\ (Mutated => told.outcome = "applied")
    /\ exit \in {1, 2, 70, 130} => ~Mutated
    /\ exit = 3 <=> exit # 0 /\ result.outcome \in Changing

\* The last text that reached a stream agrees with the exit status, and with
\* what was left (docs/contracts.md, "A broken output stream never turns a
\* completed or ambiguous mutation into unchanged success").
LastWordTruthful ==
  phase = "exited" /\ told # Silence =>
    /\ told.exit = ExitCode(result)
    /\ told.outcome \in {"unchanged", "restored"} => ~Mutated

\* Every command ends, whatever its children do and whatever fails.
Ends == <>(phase \in {"exited", "dead", "refused"})
=============================================================================
