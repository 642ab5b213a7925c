------------------------------ MODULE Capture ------------------------------
(***************************************************************************)
(* One query of git or gh (workflows.py, _external_command, _run and       *)
(* _capture_process): the executable is looked for in PATH, the child      *)
(* writes to two pipes that a descendant of it may keep open, and remek    *)
(* drains both until their end, a limit on the output, or its deadline.    *)
(*                                                                         *)
(* Output is counted in chunks: what one os.read can return.  A pipe holds *)
(* one.  The deadline is a timer that expires at any time after it is set. *)
(* KeyboardInterrupt arrives in the calls that block and in the cleanup; a *)
(* definition marked "slip" stands for a plausible mistake and no action   *)
(* uses it.                                                                *)
(***************************************************************************)
EXTENDS Integers, Sequences

CONSTANTS
  Paths,          \* what PATH can be: sequences of directories
  OutputLimit,    \* _PROCESS_OUTPUT_LIMIT
  MaxChunks       \* bound on what the child and its descendant write to a pipe

\* An entry of PATH is relative, missing (or no directory), inside a selected
\* root or outside; each tool in it is absent, unsafe (a link into a root, a
\* second link, no file), not executable, or ready.
Targets == {"absent", "unsafe", "unexecutable", "ready"}
Entries == [where : {"relative", "missing", "inside", "outside"}, git : Targets, gh : Targets]

ASSUME OutputLimitAssumption == OutputLimit \in Nat
ASSUME PathsAssumption == Paths \subseteq Seq(Entries)

Streams == {"stdout", "stderr"}
Tools == {"git", "gh"}

VARIABLES
  query,          \* the call remek is in
  path,           \* what is left of PATH
  directories,    \* the entries the child will have in its PATH
  executable,     \* the entry whose executable is run
  child,          \* the child's state
  holders,        \* who has the write end of each pipe
  pipe,           \* the chunks in each pipe
  wrote,          \* history: the chunks written to each pipe
  buffers,        \* the chunks that were read
  registered,     \* the pipes the selector watches
  events,         \* the pipes that select returned and are not read yet
  timer,          \* "off", "set" or "expired"
  failure,        \* the exception that is being handled
  answer,         \* how the query ended
  spared          \* history: why the child was not killed

lookups == <<path, directories, executable>>
pipes == <<holders, pipe, wrote>>
readers == <<buffers, registered, events>>
captureVars == <<query, lookups, child, pipes, readers, timer, failure, answer, spared>>

Nothing == [s \in Streams |-> 0]

NotFound == [where |-> "nowhere"]

CaptureInit ==
  /\ query = "lookup"
  /\ path = <<>> /\ directories = <<>> /\ executable = NotFound
  /\ child = "none" /\ holders = [s \in Streams |-> {}]
  /\ pipe = Nothing /\ wrote = Nothing /\ buffers = Nothing
  /\ registered = {} /\ events = {}
  /\ timer = "off" /\ failure = "none" /\ answer = "none" /\ spared = "none"

-----------------------------------------------------------------------------
(* The lookup of git on PATH; that of gh is the same.                      *)

\* Slip: a directory is left out for the tool that is looked up only.
SafeForTool(entry) == entry.where = "outside" /\ entry.git # "unsafe"

Kept(entry) == entry.where = "outside" /\ \A t \in Tools : entry[t] # "unsafe"

Ready(t, entries) == {i \in 1..Len(entries) : entries[i][t] = "ready"}

\* The next entry: it ends the lookup, is left out or kept, and the first
\* executable is the one.
LookAt ==
  /\ query = "lookup" /\ path # <<>>
  /\ LET entry == Head(path) IN
     IF entry.where = "relative"
     THEN query' = "over" /\ answer' = "path" /\ UNCHANGED lookups
     ELSE /\ path' = Tail(path)
          /\ directories' = IF Kept(entry) THEN Append(directories, entry) ELSE directories
          /\ executable' = IF executable = NotFound /\ Kept(entry) /\ entry.git = "ready"
                           THEN entry ELSE executable
          /\ UNCHANGED <<query, answer>>
  /\ UNCHANGED <<child, pipes, readers, timer, failure, spared>>

Lookup ==
  /\ query = "lookup" /\ path = <<>>
  /\ IF executable = NotFound
     THEN query' = "over" /\ answer' = "unavailable"
     ELSE query' = "spawn" /\ UNCHANGED answer
  /\ UNCHANGED <<lookups, child, pipes, readers, timer, failure, spared>>

\* (What was looked up does not matter any more.)
ForgetLookup == path' = <<>> /\ directories' = <<>> /\ executable' = NotFound

Spawn ==
  /\ query = "spawn"
  /\ ForgetLookup
  /\ \/ /\ query' = "select"
        /\ child' = "running"
        /\ holders' = [s \in Streams |-> {"child"}]
        /\ registered' = Streams
        /\ timer' = "set"
        /\ UNCHANGED answer
     \/ /\ query' = "over" /\ answer' = "unavailable"
        /\ UNCHANGED <<child, holders, registered, timer>>
  /\ UNCHANGED <<pipe, wrote, buffers, events, failure, spared>>

\* Popen has forked or not, and nobody has the process to kill it.
SpawnInterrupted ==
  /\ query = "spawn"
  /\ ForgetLookup
  /\ query' = "over" /\ answer' = "interrupted"
  /\ child' \in {"none", "running"} /\ spared' = "interrupted"
  /\ UNCHANGED <<pipes, readers, timer, failure>>

-----------------------------------------------------------------------------
(* _capture_process *)

total == buffers["stdout"] + buffers["stderr"]

\* A pipe can be read: it holds a chunk, or nobody can write to it any more.
Readable(s) == pipe[s] > 0 \/ holders[s] = {}

\* Slip: an exception that is not an error leaves at once.
Escape(exception) ==
  /\ IF exception = "interrupted"
     THEN query' = "over" /\ answer' = exception /\ UNCHANGED failure
     ELSE query' = "kill" /\ failure' = exception /\ UNCHANGED answer
  /\ timer' = "off"

Raise(exception) ==
  /\ query' = "kill" /\ failure' = exception
  /\ timer' = "off"
  /\ UNCHANGED answer

\* Slip: select waits for as long as it takes.
WaitsForever == FALSE

Expired == timer = "expired"

Select ==
  /\ query = "select" /\ registered # {}
  /\ ~Expired /\ \E s \in registered : Readable(s)
  /\ events' = {s \in registered : Readable(s)}
  /\ query' = "read"
  /\ UNCHANGED <<lookups, child, pipes, buffers, registered, timer, failure, answer, spared>>

TimesOut ==
  /\ \/ query = "select" /\ registered # {}
     \/ query = "wait" /\ child # "exited"
  /\ Expired
  /\ Raise("unavailable")
  /\ UNCHANGED <<lookups, child, pipes, readers, spared>>

Read(s) ==
  /\ query = "read" /\ s \in events
  /\ pipe' = [pipe EXCEPT ![s] = 0]
  /\ buffers' = [buffers EXCEPT ![s] = @ + pipe[s]]
  /\ registered' = IF pipe[s] = 0 THEN registered \ {s} ELSE registered
  /\ IF total + pipe[s] > OutputLimit
     THEN Raise("output") /\ events' = {}
     ELSE /\ events' = events \ {s}
          /\ query' = IF events' = {} THEN "select" ELSE "read"
          /\ UNCHANGED <<timer, failure, answer>>
  /\ UNCHANGED <<lookups, child, holders, wrote, spared>>

\* Slip: the pipes are left when the child exits.
DrainedAtExit == registered = {} \/ child = "exited"

Drained == registered = {}

AwaitExit ==
  /\ query = "select" /\ Drained
  /\ query' = "wait"
  /\ UNCHANGED <<lookups, child, pipes, readers, timer, failure, answer, spared>>

\* The output is text, or not (_run decodes it), and the exit status is one
\* the caller allows, or not (_git).
Complete ==
  /\ query = "wait" /\ child = "exited"
  /\ query' = "over" /\ timer' = "off"
  /\ answer' \in {"complete", "output", "status"}
  /\ UNCHANGED <<lookups, child, pipes, readers, failure, spared>>

\* A system call fails, or the operator interrupts it.
CallFails(exception) ==
  /\ query \in {"select", "read", "wait"}
  /\ Raise(exception)
  /\ events' = {}
  /\ UNCHANGED <<lookups, child, pipes, buffers, registered, spared>>

Kill ==
  /\ query = "kill"
  /\ child' = IF child = "running" THEN "killed" ELSE child
  /\ query' = "reap" /\ timer' = "set"
  /\ UNCHANGED <<lookups, pipes, readers, failure, answer, spared>>

\* The system denies the kill (the OSError is suppressed), or a second
\* interruption comes before it.
KillDenied ==
  /\ query = "kill"
  /\ spared' = "denied"
  /\ query' = "reap" /\ timer' = "set"
  /\ UNCHANGED <<lookups, child, pipes, readers, failure, answer>>

KillInterrupted ==
  /\ query = "kill"
  /\ spared' = "interrupted"
  /\ query' = "over" /\ answer' = "interrupted"
  /\ UNCHANGED <<lookups, child, pipes, readers, timer, failure>>

\* The wait after the kill: for the child, until a second deadline.
Reap ==
  /\ query = "reap"
  /\ child = "exited" \/ Expired
  /\ query' = "over" /\ timer' = "off" /\ answer' = failure
  /\ UNCHANGED <<lookups, child, pipes, readers, failure, spared>>

\* The wait fails, which is suppressed, or is interrupted.
ReapFails ==
  /\ query = "reap"
  /\ query' = "over" /\ timer' = "off" /\ answer' \in {failure, "interrupted"}
  /\ UNCHANGED <<lookups, child, pipes, readers, failure, spared>>

Capturing ==
  \/ LookAt \/ Lookup \/ Spawn \/ Select \/ TimesOut \/ AwaitExit \/ Complete \/ Kill \/ Reap
  \/ \E s \in Streams : Read(s)

Failing ==
  \/ SpawnInterrupted
  \/ \E x \in {"unavailable", "interrupted"} : CallFails(x)
  \/ KillDenied \/ KillInterrupted \/ ReapFails

-----------------------------------------------------------------------------
(* The child, a descendant that inherits its pipes, and the clock *)

remek == <<query, lookups, readers, timer, failure, answer, spared>>

Asked == query \in {"select", "read", "wait", "kill", "reap"}

WriteTo(who, s) ==
  /\ Asked /\ who \in holders[s]
  /\ pipe[s] = 0 /\ wrote[s] < MaxChunks
  /\ pipe' = [pipe EXCEPT ![s] = 1]
  /\ wrote' = [wrote EXCEPT ![s] = @ + 1]
  /\ UNCHANGED <<remek, child, holders>>

CloseEnd(who, s) ==
  /\ Asked /\ who \in holders[s]
  /\ holders' = [holders EXCEPT ![s] = @ \ {who}]
  /\ UNCHANGED <<remek, child, pipe, wrote>>

Fork ==
  /\ Asked /\ child = "running"
  /\ \A s \in Streams : "heir" \notin holders[s]
  /\ holders' = [s \in Streams |-> IF "child" \in holders[s] THEN {"child", "heir"} ELSE {}]
  /\ UNCHANGED <<remek, child, pipe, wrote>>

\* By itself, or because of the kill; nothing says that it does.
Exit ==
  /\ Asked /\ child \in {"running", "killed"}
  /\ child' = "exited"
  /\ holders' = [s \in Streams |-> holders[s] \ {"child"}]
  /\ UNCHANGED <<remek, pipe, wrote>>

Expire ==
  /\ timer = "set"
  /\ timer' = "expired"
  /\ UNCHANGED <<query, lookups, child, pipes, readers, failure, answer, spared>>

Processes ==
  \/ \E who \in {"child", "heir"}, s \in Streams : WriteTo(who, s) \/ CloseEnd(who, s)
  \/ Fork \/ Exit

CaptureNext == Capturing \/ Failing \/ Processes \/ Expire

\* remek is scheduled and the clock runs; of the child, and of
\* failures and interruptions, nothing is assumed.
CaptureFairness == WF_captureVars(Capturing) /\ WF_captureVars(Expire)
=============================================================================
