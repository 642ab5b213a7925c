------------------------------ MODULE Delivery ------------------------------
(***************************************************************************)
(* How a command reports (app.py, main): the result is redacted and        *)
(* rendered, written to a stream and flushed; each may fail or be          *)
(* interrupted, and an independent fallback then says what is known of the *)
(* mutation (_output_failure).                                             *)
(*                                                                         *)
(* A definition marked "slip" stands for a plausible mistake and no action *)
(* uses it.                                                                *)
(***************************************************************************)
EXTENDS Integers

VARIABLES
  result,     \* the Result of the command
  deliver,    \* the step main is in
  json,       \* --json
  stream,     \* where it writes
  told        \* the last text that was written and flushed

deliveryVars == <<result, deliver, json, stream, told>>

Unset == -1
Changing == {"applied", "residue", "unknown"}

Result(status, changed, outcome, override, errors) ==
  [status |-> status, changed |-> changed, outcome |-> outcome,
   override |-> override, errors |-> errors]

\* Slip: whatever fails, fails before the mutation.
ErrorBefore(status, outcome, code) == Result(status, FALSE, "unchanged", code, TRUE)

\* RemekError and _error_result.
ErrorResult(status, outcome, code) ==
  Result(status, outcome \in Changing, outcome,
         IF outcome \in Changing THEN 3 ELSE code, TRUE)

\* Result.exit_code.
ExitCode(r) ==
  IF r.changed /\ (r.status \in {"refused", "failed"} \/ r.override \notin {Unset, 0}) THEN 3
  ELSE IF r.override # Unset THEN r.override
  ELSE CASE r.status = "refused" -> 2
         [] r.status = "failed" -> 70
         [] r.status = "issues" -> 1
         [] OTHER -> IF r.errors THEN 1 ELSE 0

NoResult == Result("none", FALSE, "none", Unset, FALSE)
Silence == [outcome |-> "none", exit |-> Unset, text |-> "nothing"]

DeliveryInit ==
  /\ result = NoResult /\ deliver = "idle" /\ json = FALSE
  /\ stream = "none" /\ told = Silence

-----------------------------------------------------------------------------

\* Slip: the failed result starts from nothing.
FreshFailure(r) == Result("failed", FALSE, "unchanged", 2, TRUE)

OutputFailure(r) ==
  LET outcome == IF r.outcome # "none" THEN r.outcome
                 ELSE IF r.changed THEN "unknown" ELSE "unchanged"
      changed == r.changed \/ outcome \in Changing
  IN Result("failed", changed, outcome, IF changed THEN 3 ELSE 2, TRUE)

Text(text) == [outcome |-> result'.outcome, exit |-> ExitCode(result'), text |-> text]

\* _diagnostic_policy, _redacted_result and _render.
Render ==
  /\ deliver = "render"
  /\ result' \in {result, OutputFailure(result)}
  /\ stream' = IF result'.status \in {"failed", "refused"} /\ ~json THEN "stderr" ELSE "stdout"
  /\ deliver' = "write"
  /\ UNCHANGED <<json, told>>

\* All of the result was rendered; of a fallback, all of it, some without
\* the paths it names (and says so), or the outcome alone.
Texts == IF result.status = "failed" THEN {"whole", "omitting", "outcome"} ELSE {"whole"}

Write ==
  /\ deliver = "write"
  /\ UNCHANGED result
  /\ \E text \in Texts : told' = Text(text)
  /\ deliver' = "exit"
  /\ UNCHANGED <<json, stream>>

\* The stream is closed, and standard error tried if it was not that.
WriteFails ==
  /\ deliver = "write"
  /\ result' = OutputFailure(result)
  /\ deliver' = IF stream = "stderr" THEN "exit" ELSE "fallback"
  /\ UNCHANGED <<json, stream, told>>

Fallback ==
  /\ deliver = "fallback"
  /\ UNCHANGED result
  /\ \/ \E text \in Texts : told' = Text(text)
     \/ UNCHANGED told
  /\ deliver' = "exit"
  /\ stream' = "stderr"
  /\ UNCHANGED json

Delivering == Render \/ Write \/ WriteFails \/ Fallback
=============================================================================
