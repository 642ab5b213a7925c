------------------------------ MODULE Launch ------------------------------
(***************************************************************************)
(* How remek starts: the root shim (skills/remek/scripts/cli.py) pins the  *)
(* manifest and the entrypoint of the toolchain beside it; the entrypoint  *)
(* (toolchain/scripts/cli.py) inventories that toolchain twice and imports *)
(* the runtime.  Meanwhile an update, Git or an editor may replace the     *)
(* shim, the toolchain or a file of it.                                    *)
(*                                                                         *)
(* A file is the version it belongs to; the manifest of a version lists    *)
(* the other files of that version.  A definition marked "slip" stands for *)
(* a plausible mistake and no action uses it.                              *)
(***************************************************************************)
EXTENDS Integers

CONSTANTS
  Modules,       \* the files of the runtime
  Versions,      \* versions a file can have
  MaxSwitches    \* bound on what others write while remek starts

ASSUME VersionsAssumption == Versions \subseteq Nat

Inventoried == {"entrypoint"} \cup Modules
ToolchainFiles == {"manifest"} \cup Inventoried

VARIABLES
  shim,          \* the version whose manifest and entrypoint the shim pins
  toolchain,     \* the files as they are
  launch,        \* what is read next
  pin,           \* the shim that runs
  expected,      \* the manifest the entrypoint has read
  unread,        \* the files this pass has not read
  loaded,        \* the modules that are imported
  midway,        \* history: the toolchain between the two passes
  late,          \* history: the modules written after their second reading
  switches,      \* how often others have written
  restored       \* history: a file has gone back to a version it had had

disk == <<shim, toolchain>>
launched == <<pin, expected, unread, loaded, midway>>
others == <<late, switches, restored>>
launchVars == <<disk, launch, launched, others>>

Of(v) == [f \in ToolchainFiles |-> v]

\* An update that was killed half-way leaves a shim of another version.
LaunchInit ==
  /\ shim \in Versions /\ \E v \in Versions : toolchain = Of(v)
  /\ launch = "shim" /\ pin = 0 /\ expected = 0 /\ unread = {}
  /\ loaded = [f \in Modules |-> 0] /\ midway = Of(0)
  /\ late = {} /\ switches = 0 /\ restored = FALSE

GoTo(next) == launch' = next

RunShim ==
  /\ launch = "shim"
  /\ pin' = shim
  /\ GoTo("pins")
  /\ UNCHANGED <<disk, expected, unread, loaded, midway, others>>

\* The shim compares the manifest, then the entrypoint, which it starts.
CheckPin(file, next) ==
  /\ GoTo(IF toolchain[file] = pin THEN next ELSE "refused")
  /\ UNCHANGED <<disk, launched, others>>

CheckManifest == launch = "pins" /\ CheckPin("manifest", "entrypoint")
CheckEntrypoint == launch = "entrypoint" /\ CheckPin("entrypoint", "manifest")

ReadManifest ==
  /\ launch = "manifest"
  /\ expected' = toolchain["manifest"]
  /\ unread' = Inventoried
  /\ GoTo("first")
  /\ UNCHANGED <<disk, pin, loaded, midway, others>>

Import == GoTo("import") /\ unread' = Modules

\* Slip: one inventory.
ImportAtOnce == Import /\ midway' = toolchain

NextPass ==
  IF launch = "first"
  THEN GoTo("second") /\ unread' = Inventoried /\ midway' = toolchain
  ELSE Import /\ UNCHANGED midway

\* _manifest reads every file; one that differs makes its result differ.
Inventory ==
  /\ launch \in {"first", "second"}
  /\ \E f \in unread :
       IF toolchain[f] # expected THEN GoTo("refused") /\ UNCHANGED <<unread, midway>>
       ELSE IF unread = {f} THEN NextPass
       ELSE unread' = unread \ {f} /\ UNCHANGED <<launch, midway>>
  /\ UNCHANGED <<disk, pin, expected, loaded, others>>

\* The modules are read from their files again.
Load ==
  /\ launch = "import"
  /\ \E f \in unread :
       /\ loaded' = [loaded EXCEPT ![f] = toolchain[f]]
       /\ unread' = unread \ {f}
       /\ GoTo(IF unread = {f} THEN "main" ELSE "import")
  /\ UNCHANGED <<disk, pin, expected, midway, others>>

\* A file cannot be read, is no regular file or no module: exit 2.
CannotRead ==
  /\ launch \in {"pins", "entrypoint", "manifest", "first", "second", "import"}
  /\ GoTo("refused")
  /\ UNCHANGED <<disk, launched, others>>

Starting ==
  \/ RunShim \/ CheckManifest \/ CheckEntrypoint \/ ReadManifest
  \/ Inventory \/ Load \/ CannotRead

\* The modules that nothing compares any more.
Settled ==
  CASE launch = "second" -> Modules \ unread
    [] launch = "import" -> Modules
    [] OTHER -> {}

\* An update replaces the toolchain by one rename, the shim by another; an
\* editor or Git one file after the other.
Switch(next, v) ==
  /\ switches < MaxSwitches /\ launch \notin {"main", "refused"}
  /\ toolchain' = next /\ shim' = v
  /\ disk' # disk
  /\ switches' = switches + 1
  /\ late' = late \cup {f \in Settled : toolchain'[f] # toolchain[f]}
  /\ restored' = (restored \/ \E f \in Inventoried : toolchain'[f] < toolchain[f])
  /\ UNCHANGED <<launch, launched>>

Switching ==
  \E v \in Versions :
    \/ Switch(toolchain, v)
    \/ Switch(Of(v), shim)
    \/ \E f \in ToolchainFiles : Switch([toolchain EXCEPT ![f] = v], shim)

-----------------------------------------------------------------------------

\* Whoever writes files while remek starts: what was inventoried was, at one
\* instant, the whole toolchain that its manifest describes, unless a file was
\* put back to a version it had had; what is imported is what was inventoried,
\* but for the modules written after their second reading (nothing compares them
\* again); and if nobody wrote, it is the toolchain the shim pins, whatever an
\* update left half-done before (docs/threat-model.md, "The pinned entrypoint
\* inventories twice before import").
LaunchIsWhole ==
  launch = "main" =>
    /\ ~restored => \A f \in Inventoried : midway[f] = expected
    /\ \A f \in Modules \ late : loaded[f] = expected
    /\ switches = 0 => toolchain = Of(pin) /\ \A f \in Modules : loaded[f] = pin
=============================================================================
