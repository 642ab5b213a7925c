------------------------------ MODULE Artifact ------------------------------
(***************************************************************************)
(* Saving a plan to a new file (filesystem.py, write_artifact) while       *)
(* somebody else works in the same directory and another command reads the *)
(* file (read_artifact).  The data goes into a private stage, a hard link  *)
(* gives it its name, and the stage is removed.                            *)
(*                                                                         *)
(* Every call may fail or be interrupted, before or after its effect.  An  *)
(* inode number is not reused.  Somebody else never writes into, or links, *)
(* the file remek made.  A definition marked "slip" stands for a plausible *)
(* mistake and no action uses it.                                          *)
(***************************************************************************)
EXTENDS Integers, FiniteSets

CONSTANT MaxMeddling      \* bound on what somebody else does

ASSUME MeddlingAssumption == MaxMeddling \in Nat

Names == {"stage", "destination"}

VARIABLES
  save,           \* the call write_artifact is in
  entry,          \* what each name holds: nothing, the new file or another one
  whole,          \* the new file has all its data
  identity,       \* write_file_at has returned the inode of the new file
  pending,        \* the exception of the try block, "none" without one
  error,          \* the Error that _artifact_failure made, None without one
  saved,          \* how the save ended
  meddling,       \* how often somebody else has acted
  reader,         \* the call read_artifact is in
  held            \* the file it has open, and what it saw of it

writer == <<save, identity, pending, error, saved>>
readingVars == <<reader, held>>
artifactVars == <<writer, entry, whole, meddling, readingVars>>

None == [outcome |-> "none"]

ArtifactInit ==
  /\ save = "idle"
  /\ entry \in [Names -> {"none", "other"}] /\ entry["stage"] = "none"
  /\ whole = FALSE /\ identity = FALSE
  /\ pending = "none" /\ error = None /\ saved = "none"
  /\ meddling = 0
  /\ reader = "idle" /\ held = [file |-> "none", state |-> <<>>]

Links == Cardinality({n \in Names : entry[n] = "new"})

-----------------------------------------------------------------------------
(* write_artifact.  A call is done, done and then interrupted or failed, or *)
(* fails or is interrupted without effect.                                 *)

Exceptions == {"failure", "interrupted"}

bystanders == <<meddling, readingVars>>

Goto(s) == save' = s /\ UNCHANGED saved

\* The new name must not be related to anything the plan touches or reads
\* (validate_output_path).
Validate ==
  /\ save = "idle"
  /\ \/ Goto("create")
     \/ save' = "over" /\ saved' = "refused"
  /\ UNCHANGED <<entry, whole, identity, pending, error, bystanders>>

\* An exception out of write_file_at: its identity is not known here.
Thrown(exception) == pending' = exception /\ Goto("inspect")

Create ==
  /\ save = "create"
  /\ \/ /\ entry["stage"] = "none"
        /\ entry' = [entry EXCEPT !["stage"] = "new"]
        /\ \/ Goto("fill") /\ UNCHANGED pending
           \/ Thrown("interrupted")
     \/ UNCHANGED entry /\ \E x \in Exceptions : Thrown(x)
  /\ UNCHANGED <<whole, identity, error, bystanders>>

\* write_all, fsync and close.  On an exception the file is removed again if
\* the name still holds it; that may fail, too.  The exception of close comes
\* too late for it.
Fill ==
  /\ save = "fill"
  /\ \/ /\ whole' = TRUE /\ identity' = TRUE
        /\ Goto("link") /\ UNCHANGED <<entry, pending>>
     \/ /\ whole' \in BOOLEAN
        /\ entry' \in {entry, [entry EXCEPT !["stage"] = IF @ = "new" THEN "none" ELSE @]}
        /\ \E x \in Exceptions : Thrown(x)
        /\ UNCHANGED identity
  /\ UNCHANGED <<error, bystanders>>

\* Slip: the stage is moved to its name.
Moved == entry["stage"]

\* What the name holds after link, which never replaces.
Linked == IF entry["destination"] = "none" THEN entry["stage"] ELSE entry["destination"]

\* _install_artifact: whatever the stage is by now is linked.  An error of
\* link after its effect is no error, and the inspection that tells may fail.
Link ==
  /\ save = "link"
  /\ \/ /\ entry' = [entry EXCEPT !["destination"] = Linked]
        /\ pending' \in Exceptions \cup (IF entry' # entry THEN {"none"} ELSE {})
     \/ UNCHANGED entry /\ pending' \in Exceptions
  /\ Goto("inspect")
  /\ UNCHANGED <<whole, identity, error, bystanders>>

\* The finally block looks at the stage.
Inspect ==
  /\ save = "inspect"
  /\ \/ entry["stage"] = "none" /\ Goto("leave")
     \/ entry["stage"] = "new" /\ identity /\ Goto("remove")
     \/ ~(entry["stage"] = "new" /\ identity) /\ entry["stage"] # "none" /\ Goto("failed")
     \/ Goto("failed")
     \/ Goto("cancelled")
  /\ UNCHANGED <<entry, whole, identity, pending, error, bystanders>>

RemoveStage ==
  /\ save = "remove"
  /\ \/ entry' = [entry EXCEPT !["stage"] = "none"] /\ Goto("leave")
     \/ /\ entry' \in {entry, [entry EXCEPT !["stage"] = "none"]}
        /\ Goto("failed") \/ Goto("cancelled")
  /\ UNCHANGED <<whole, identity, pending, error, bystanders>>

-----------------------------------------------------------------------------
(* _artifact_failure: what is there now decides what is reported           *)

\* What stat says of each name: nothing, the new file (if its inode is
\* known), a file that is not proven to be it, or stat fails.
Observed ==
  {seen \in [Names -> {"none", "owned", "unproven", "unknown"}] :
     \A n \in Names :
       seen[n] \in {"unknown",
                    CASE entry[n] = "none" -> "none"
                      [] entry[n] = "new" /\ identity -> "owned"
                      [] OTHER -> "unproven"}}

Residue(seen) ==
  [outcome |-> IF seen["stage"] = "unproven" \/ \E n \in Names : seen[n] = "unknown"
               THEN "unknown" ELSE "residue",
   residue |-> {n \in Names : seen[n] # "none"}]

\* Slip: only the stage counts.
StageDecides(seen, exception) == seen["stage"] # "none"

Fails(seen, exception) ==
  \/ \E n \in Names : seen[n] = "unknown"
  \/ seen["stage"] # "none"
  \/ exception # "none" /\ seen["destination"] = "owned"

\* The inner handler: only an ordinary failure of the clean-up may be forgotten.
Classify(exception) ==
  /\ save = (IF exception = "none" THEN "failed" ELSE "cancelled")
  /\ \E seen \in Observed :
       IF Fails(seen, exception)
       THEN /\ error' = Residue(seen)
            /\ pending' = "classified"
       ELSE /\ pending' = IF exception = "none" THEN pending ELSE exception
            /\ UNCHANGED error
  /\ Goto("leave")
  /\ UNCHANGED <<entry, whole, identity, bystanders>>

\* The outer handler: an exception that is classified stays as it is.
Leave ==
  /\ save = "leave"
  /\ Goto("close")
  /\ IF pending \in {"none", "classified"} THEN UNCHANGED error
     ELSE \E seen \in Observed :
            error' = IF Fails(seen, pending) THEN Residue(seen) ELSE error
  /\ UNCHANGED <<entry, whole, identity, pending, bystanders>>

Finished ==
  IF error # None THEN error.outcome
  ELSE CASE pending = "failure" -> "refused"
         [] pending = "interrupted" -> "interrupted"
         [] OTHER -> "saved"

\* boundary.close: its failure matters to a save that has succeeded only.
CloseBoundary ==
  /\ save = "close"
  /\ save' = "over"
  /\ \/ saved' = Finished /\ UNCHANGED error
     \/ /\ Finished = "saved"
        /\ error' = [outcome |-> "applied", residue |-> {"destination"}]
        /\ saved' = "applied"
  /\ UNCHANGED <<entry, whole, identity, pending, bystanders>>

\* The process is killed.
Crash ==
  /\ save \notin {"idle", "over", "dead"}
  /\ save' = "dead"
  /\ UNCHANGED <<entry, whole, identity, pending, error, saved, bystanders>>

Saving ==
  \/ Validate \/ Create \/ Fill \/ Link \/ Inspect \/ RemoveStage
  \/ Classify("none") \/ Classify("interrupted") \/ Leave \/ CloseBoundary

-----------------------------------------------------------------------------
(* read_artifact of the destination, by another command                    *)

\* Slip: a file may have other links.
LinksUnchecked(file) == TRUE

SoleLink(file) == IF file = "new" THEN Links = 1 ELSE entry["destination"] = file

\* A link that is added or removed, and a write, changes the ctime.
Seen(file) == [file |-> file, state |-> IF file = "new" THEN <<Links, whole>> ELSE <<>>]

surroundings == <<writer, entry, whole, meddling>>

\* Each check of the reader lets it go on or refuses.
Accept(condition, next) == reader' = IF condition THEN next ELSE "refused"

ReadStat ==
  /\ reader = "idle" /\ entry["destination"] # "none"
  /\ held' = Seen(entry["destination"])
  /\ Accept(SoleLink(entry["destination"]), "stat")
  /\ UNCHANGED surroundings

\* The file that is opened is the one that was looked at, in the same state.
ReadOpen ==
  /\ reader = "stat"
  /\ Accept(Seen(entry["destination"]) = held /\ SoleLink(held.file), "open")
  /\ UNCHANGED <<surroundings, held>>

\* So it is when its data has been read.
ReadEnd ==
  /\ reader = "open"
  /\ Accept(Seen(held.file) = held /\ SoleLink(held.file), "accepted")
  /\ UNCHANGED <<surroundings, held>>

Reading == ReadStat \/ ReadOpen \/ ReadEnd

-----------------------------------------------------------------------------
(* Somebody else takes a name, or gives it to a file of their own          *)

Meddle(n) ==
  /\ meddling < MaxMeddling
  /\ meddling' = meddling + 1
  /\ \E file \in {"none", "other"} \ {entry[n]} : entry' = [entry EXCEPT ![n] = file]
  /\ UNCHANGED <<writer, whole, readingVars>>

Meddling == \E n \in Names : Meddle(n)
=============================================================================
