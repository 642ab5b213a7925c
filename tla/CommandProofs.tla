--------------------------- MODULE CommandProofs ---------------------------
(***************************************************************************)
(* What a command guarantees for a runtime of any files, any number of     *)
(* writes to it while it starts, and any number of acts of somebody else   *)
(* where it saves its plan.                                                *)
(***************************************************************************)
EXTENDS Command, FiniteSetTheorems, TLAPS

---------------------------------------------------------------------------
(* Saving a plan, however often somebody else meddles.                     *)

Errors == [outcome : {"residue", "unknown", "applied"}, residue : SUBSET Names]

SaveTyped ==
  /\ entry \in [Names -> {"none", "new", "other"}]
  /\ whole \in BOOLEAN /\ identity \in BOOLEAN /\ meddling \in Nat
  /\ pending \in {"none", "classified"} \cup Exceptions
  /\ error = None \/ error \in Errors

NoLink == \A n \in Names : entry[n] # "new"

\* The file is linked only when it is whole and its inode is known.
LinkedWhole == (identity => whole) /\ (entry["destination"] = "new" => identity)

\* An error names whatever is left.
LeftNamed ==
  /\ error # None => \A n \in Names : entry[n] = "new" => n \in error.residue
  /\ pending = "classified" => error # None

\* What a save without an exception has reached: the link.
Succeeds == identity /\ (meddling = 0 => entry["destination"] = "new")

\* What is so at each call.
Progress ==
  /\ save \in {"idle", "create"} => NoLink
  /\ save \in {"idle", "create", "fill"} => ~identity
  /\ save \in {"idle", "create", "fill", "link"} =>
       pending = "none" /\ error = None /\ entry["destination"] # "new"
  /\ save = "link" => identity
  /\ save \in {"fill", "link"} /\ meddling = 0 => entry["stage"] = "new"
  /\ save \in {"inspect", "remove", "failed", "cancelled"} => error = None
  /\ save \in {"inspect", "remove", "failed", "cancelled", "leave", "close"} /\ pending = "none" =>
       Succeeds
  /\ save \in {"leave", "close"} /\ pending = "none" => entry["stage"] # "new" /\ error = None
  /\ save = "leave" /\ error # None => pending = "classified"
  /\ save = "close" /\ error = None => pending = "none" \/ NoLink

Ended ==
  save = "over" =>
    /\ saved \in {"saved", "refused", "interrupted", "residue", "unknown", "applied"}
    /\ saved = "saved" => entry["stage"] # "new" /\ Succeeds
    /\ saved \in {"refused", "interrupted"} => NoLink

SaveInv == SaveTyped /\ LinkedWhole /\ LeftNamed /\ Progress /\ Ended

LEMMA LinksCounted ==
  ASSUME entry \in [Names -> {"none", "new", "other"}]
  PROVE  /\ Links = 0 <=> NoLink
         /\ Links > 0 <=> ~NoLink
         /\ entry["destination"] = "new" /\ Links = 1 => entry["stage"] # "new"
<1> DEFINE linked == {n \in Names : entry[n] = "new"}
<1>1. IsFiniteSet(Names)
  <2>1. IsFiniteSet({}) BY FS_EmptySet
  <2>2. IsFiniteSet({} \cup {"stage"}) BY <2>1, FS_AddElement
  <2>3. IsFiniteSet(({} \cup {"stage"}) \cup {"destination"}) BY <2>2, FS_AddElement
  <2>4. Names = ({} \cup {"stage"}) \cup {"destination"} BY DEF Names
  <2> QED BY <2>3, <2>4
<1>2. IsFiniteSet(linked) BY <1>1, FS_Subset
<1>3. Cardinality(linked) \in Nat BY <1>2, FS_CardinalityType
<1>4. Cardinality(linked) = 0 <=> linked = {} BY <1>2, FS_EmptySet
<1>5. Cardinality(linked) = 1 => \E n : linked = {n} BY <1>2, FS_Singleton
<1>6. linked = {} <=> NoLink BY DEF NoLink
<1>7. ASSUME entry["destination"] = "new", Cardinality(linked) = 1 PROVE entry["stage"] # "new"
  <2>1. PICK n : linked = {n} BY <1>5, <1>7
  <2>2. "destination" \in linked BY <1>7 DEF Names
  <2>3. entry["stage"] = "new" => "stage" \in linked BY DEF Names
  <2> QED BY <2>1, <2>2, <2>3
<1> HIDE DEF linked
<1>8. Links = Cardinality(linked) BY DEF Links, linked
<1> QED BY <1>3, <1>4, <1>6, <1>7, <1>8

LEMMA InitSave == ArtifactInit => SaveInv
<1> SUFFICES ASSUME ArtifactInit PROVE SaveInv OBVIOUS
<1>1. entry \in [Names -> {"none", "new", "other"}] /\ \A n \in Names : entry[n] # "new"
  BY DEF ArtifactInit
<1>2. SaveTyped BY <1>1 DEF ArtifactInit, SaveTyped
<1>3. Progress BY <1>1 DEF ArtifactInit, Progress, NoLink, Names
<1> QED BY <1>1, <1>2, <1>3 DEF ArtifactInit, SaveInv, LinkedWhole, LeftNamed, Ended, Names

\* Nothing of a name that a stat call calls absent is left, and the new file is
\* recognised by its inode.
LEMMA ObservedTrue ==
  ASSUME NEW seen \in Observed, NEW n \in Names
  PROVE  /\ seen[n] \in {"none", "owned", "unproven", "unknown"}
         /\ seen[n] = "none" => entry[n] = "none"
         /\ entry[n] = "new" /\ identity /\ seen[n] # "unknown" => seen[n] = "owned"
BY DEF Observed

LEMMA ResidueNames ==
  ASSUME NEW seen \in Observed
  PROVE  /\ Residue(seen) \in Errors /\ Residue(seen) # None
         /\ \A n \in Names : entry[n] = "new" => n \in Residue(seen).residue
<1>1. Residue(seen) \in Errors BY DEF Residue, Errors
<1>2. Residue(seen).outcome # "none" BY DEF Residue
<1>3. ASSUME NEW n \in Names, entry[n] = "new" PROVE n \in Residue(seen).residue
  BY <1>3, ObservedTrue DEF Residue
<1> QED BY <1>1, <1>2, <1>3 DEF None

LEMMA SavingKeeps == SaveInv /\ Saving => SaveInv'
<1> SUFFICES ASSUME SaveInv, Saving PROVE SaveInv' OBVIOUS
<1> USE DEF Goto, bystanders, readingVars
<1>1. CASE Validate
  BY <1>1 DEF Validate, SaveInv, SaveTyped, LinkedWhole, LeftNamed, Progress, Ended, NoLink, Succeeds
<1>2. CASE Create
  BY <1>2 DEF Create, Thrown, Exceptions, Names, SaveInv, SaveTyped, LinkedWhole, LeftNamed,
              Progress, Ended, NoLink, Succeeds
<1>3. CASE Fill
  <2>1. /\ save = "fill" /\ UNCHANGED <<error, saved, meddling>>
        /\ ~identity /\ pending = "none" /\ error = None /\ entry["destination"] # "new"
    BY <1>3 DEF Fill, Thrown, SaveInv, Progress
  <2>2. CASE /\ whole' = TRUE /\ identity' = TRUE /\ save' = "link" /\ UNCHANGED <<entry, pending>>
    BY <2>1, <2>2 DEF SaveInv, SaveTyped, LinkedWhole, LeftNamed, Progress, Ended, Names
  <2>3. CASE /\ save' = "inspect" /\ UNCHANGED identity /\ whole' \in BOOLEAN
             /\ pending' \in Exceptions
             /\ entry' \in {entry, [entry EXCEPT !["stage"] = IF @ = "new" THEN "none" ELSE @]}
    <3>1. entry' \in [Names -> {"none", "new", "other"}] /\ entry'["destination"] # "new"
      BY <2>1, <2>3 DEF SaveInv, SaveTyped, Names
    <3>2. SaveTyped' BY <2>1, <2>3, <3>1 DEF SaveInv, SaveTyped
    <3> QED
      BY <2>1, <2>3, <3>1, <3>2 DEF Exceptions, SaveInv, LinkedWhole, LeftNamed, Progress, Ended
  <2> QED BY <1>3, <2>2, <2>3 DEF Fill, Thrown
<1>4. CASE Link
  BY <1>4 DEF Link, Linked, Exceptions, Names, SaveInv, SaveTyped, LinkedWhole, LeftNamed,
              Progress, Ended, NoLink, Succeeds
<1>5. CASE Inspect
  BY <1>5 DEF Inspect, Exceptions, Names, SaveInv, SaveTyped, LinkedWhole, LeftNamed,
              Progress, Ended, NoLink, Succeeds
<1>6. CASE RemoveStage
  BY <1>6 DEF RemoveStage, Exceptions, Names, SaveInv, SaveTyped, LinkedWhole, LeftNamed,
              Progress, Ended, NoLink, Succeeds
<1>7. ASSUME NEW x \in {"none", "interrupted"}, Classify(x) PROVE SaveInv'
  <2>1. /\ save \in {"failed", "cancelled"} /\ save' = "leave"
        /\ UNCHANGED <<entry, whole, identity, meddling, saved>>
        /\ error = None
    BY <1>7 DEF Classify, SaveInv, Progress
  <2>2. PICK seen \in Observed :
          IF Fails(seen, x)
          THEN error' = Residue(seen) /\ pending' = "classified"
          ELSE pending' = (IF x = "none" THEN pending ELSE x) /\ error' = error
    BY <1>7 DEF Classify
  <2>3. CASE Fails(seen, x)
    BY <2>1, <2>2, <2>3, ResidueNames
    DEF SaveInv, SaveTyped, LinkedWhole, LeftNamed, Progress, Ended, Succeeds
  <2>4. CASE ~Fails(seen, x)
    <3>1. entry["stage"] = "none" BY <2>4, ObservedTrue DEF Fails, Names
    <3> QED
      BY <2>1, <2>2, <2>4, <3>1
      DEF Exceptions, SaveInv, SaveTyped, LinkedWhole, LeftNamed, Progress, Ended, Succeeds
  <2> QED BY <2>3, <2>4
<1>8. CASE Leave
  <2>1. /\ save = "leave" /\ save' = "close"
        /\ UNCHANGED <<entry, whole, identity, pending, meddling, saved>>
    BY <1>8 DEF Leave
  <2>2. CASE pending \in {"none", "classified"}
    BY <1>8, <2>1, <2>2
    DEF Leave, SaveInv, SaveTyped, LinkedWhole, LeftNamed, Progress, Ended, Succeeds
  <2>3. CASE pending \notin {"none", "classified"}
    <3>1. error = None BY <2>1, <2>3 DEF SaveInv, Progress
    <3>2. PICK seen \in Observed : error' = IF Fails(seen, pending) THEN Residue(seen) ELSE error
      BY <1>8, <2>3 DEF Leave
    <3>3. CASE Fails(seen, pending)
      BY <2>1, <2>3, <3>2, <3>3, ResidueNames
      DEF SaveInv, SaveTyped, LinkedWhole, LeftNamed, Progress, Ended, Succeeds
    <3>4. CASE ~Fails(seen, pending)
      <4>1. NoLink
        BY <2>3, <3>4, ObservedTrue DEF Fails, Names, NoLink, SaveInv, LinkedWhole
      <4> QED
        BY <2>1, <2>3, <3>1, <3>2, <3>4, <4>1
        DEF SaveInv, SaveTyped, LinkedWhole, LeftNamed, Progress, Ended, NoLink, Succeeds
    <3> QED BY <3>3, <3>4
  <2> QED BY <2>2, <2>3
<1>9. CASE CloseBoundary
  <2>1. /\ save = "close" /\ save' = "over"
        /\ UNCHANGED <<entry, whole, identity, pending, meddling>>
    BY <1>9 DEF CloseBoundary
  <2>2. CASE saved' = Finished /\ error' = error
    <3>1. /\ SaveTyped' /\ LinkedWhole' /\ LeftNamed'
          /\ error # None => error.outcome \in {"residue", "unknown", "applied"}
      BY <2>1, <2>2 DEF Errors, SaveInv, SaveTyped, LinkedWhole, LeftNamed
    <3>2. Progress' BY <2>1, <2>2 DEF SaveInv, Progress
    <3>3. /\ pending \in {"none", "classified"} \cup Exceptions
          /\ pending = "classified" => error # None
      BY DEF SaveInv, SaveTyped, LeftNamed
    <3>4. saved' \in {"saved", "refused", "interrupted", "residue", "unknown", "applied"}
      BY <2>2, <3>1 DEF Finished
    <3>5. saved' = "saved" => error = None /\ pending = "none"
      BY <2>2, <3>1, <3>3 DEF Finished, Exceptions
    <3>6. saved' \in {"refused", "interrupted"} => error = None /\ pending # "none"
      BY <2>2, <3>1, <3>3 DEF Finished, Exceptions
    <3>7. Ended'
      BY <2>1, <3>4, <3>5, <3>6 DEF SaveInv, Progress, Ended, NoLink, Succeeds
    <3> QED BY <3>1, <3>2, <3>7 DEF SaveInv
  <2>3. CASE /\ Finished = "saved" /\ saved' = "applied"
             /\ error' = [outcome |-> "applied", residue |-> {"destination"}]
    <3>1. error = None /\ pending \notin Exceptions
      BY <2>3 DEF Finished, Errors, Exceptions, SaveInv, SaveTyped
    <3>2. pending = "none" /\ entry["stage"] # "new"
      BY <2>1, <3>1 DEF SaveInv, SaveTyped, LeftNamed, Progress
    <3>3. error' \in Errors /\ error' # None
      <4>1. error'.outcome # "none" BY <2>3
      <4> QED BY <2>3, <4>1 DEF Errors, Names, None
    <3> QED
      BY <2>1, <2>3, <3>2, <3>3
      DEF Names, SaveInv, SaveTyped, LinkedWhole, LeftNamed, Progress, Ended
  <2> QED BY <1>9, <2>2, <2>3 DEF CloseBoundary
<1> QED BY <1>1, <1>2, <1>3, <1>4, <1>5, <1>6, <1>7, <1>8, <1>9 DEF Saving

LEMMA OthersKeep == SaveInv /\ (Crash \/ Reading \/ Meddling) => SaveInv'
<1> SUFFICES ASSUME SaveInv, Crash \/ Reading \/ Meddling PROVE SaveInv' OBVIOUS
<1>1. CASE Crash
  BY <1>1 DEF Crash, bystanders, readingVars, SaveInv, SaveTyped, LinkedWhole, LeftNamed,
              Progress, Ended
<1>2. CASE Reading
  BY <1>2 DEF Reading, ReadStat, ReadOpen, ReadEnd, surroundings, writer, SaveInv, SaveTyped,
              LinkedWhole, LeftNamed, Progress, Ended, NoLink, Succeeds
<1>3. ASSUME NEW n \in Names, Meddle(n) PROVE SaveInv'
  <2>1. PICK file \in {"none", "other"} : entry' = [entry EXCEPT ![n] = file]
    BY <1>3 DEF Meddle
  <2>2. /\ UNCHANGED <<writer, whole>> /\ meddling' \in Nat /\ meddling' # 0
        /\ entry' \in [Names -> {"none", "new", "other"}]
        /\ \A m \in Names : entry'[m] = "new" => entry[m] = "new"
    BY <1>3, <2>1 DEF Meddle, SaveInv, SaveTyped
  <2> QED
    BY <2>2 DEF writer, Names, SaveInv, SaveTyped, LinkedWhole, LeftNamed, Progress, Ended,
                NoLink, Succeeds
<1> QED BY <1>1, <1>2, <1>3 DEF Meddling

---------------------------------------------------------------------------
(* The reader                                                              *)

\* A file that has passed the first look had lost its stage and stays whole.
ReaderInv ==
  /\ reader \in {"stat", "open", "accepted"} /\ held.file = "new" =>
       whole /\ entry["stage"] # "new" /\ save \notin {"idle", "create", "fill"}
  /\ entry["destination"] = "new" => save \notin {"idle", "create", "fill", "link"}

LEMMA InitReader == ArtifactInit => ReaderInv
BY DEF ArtifactInit, ReaderInv, Names

LEMMA ReaderKeeps == SaveInv /\ ReaderInv /\ (Saving \/ Crash \/ Reading \/ Meddling) => ReaderInv'
<1> SUFFICES ASSUME SaveInv, ReaderInv, Saving \/ Crash \/ Reading \/ Meddling PROVE ReaderInv'
  OBVIOUS
<1>1. CASE Reading
  <2>1. CASE ReadStat
    <3>1. /\ held' = Seen(entry["destination"]) /\ UNCHANGED <<whole, entry, save>>
          /\ reader' \in {"stat", "refused"}
          /\ reader' = "stat" => SoleLink(entry["destination"])
      BY <2>1 DEF ReadStat, Accept, surroundings, writer
    <3>2. held'.file = entry["destination"] BY <3>1 DEF Seen
    <3>3. ASSUME entry["destination"] = "new", reader' = "stat"
          PROVE  whole /\ entry["stage"] # "new" /\ save \notin {"idle", "create", "fill"}
      BY <3>1, <3>3, LinksCounted DEF SoleLink, SaveInv, SaveTyped, LinkedWhole, ReaderInv
    <3> QED BY <3>1, <3>2, <3>3 DEF ReaderInv
  <2>2. CASE ReadOpen \/ ReadEnd
    BY <2>2 DEF ReadOpen, ReadEnd, Accept, surroundings, writer, ReaderInv
  <2> QED BY <1>1, <2>1, <2>2 DEF Reading
<1>2. CASE Crash
  BY <1>2 DEF Crash, bystanders, readingVars, ReaderInv
<1>3. ASSUME NEW n \in Names, Meddle(n) PROVE ReaderInv'
  BY <1>3 DEF Meddle, writer, readingVars, Names, SaveInv, SaveTyped, ReaderInv
<1>4. CASE Saving
  BY <1>4
  DEF Saving, Validate, Create, Fill, Link, Linked, Inspect, RemoveStage, Classify, Leave,
      CloseBoundary, Thrown, Goto, bystanders, readingVars, Names, SaveInv, SaveTyped, LinkedWhole,
      Progress, ReaderInv
<1> QED BY <1>1, <1>2, <1>3, <1>4 DEF Meddling

---------------------------------------------------------------------------
(* The launch                                                              *)

LaunchTyped ==
  /\ shim \in Nat /\ toolchain \in [ToolchainFiles -> Nat]
  /\ pin \in Nat /\ expected \in Nat
  /\ unread \subseteq Inventoried /\ (launch = "import" => unread \subseteq Modules)
  /\ loaded \in [Modules -> Nat] /\ midway \in [ToolchainFiles -> Nat]
  /\ switches \in Nat /\ restored \in BOOLEAN

\* Versions only grow unless a file was restored: what the first pass has read
\* is at least of the expected version, what the second has read was no newer.
FirstInventory ==
  launch = "first" /\ ~restored =>
    \A f \in Inventoried \ unread : expected <= toolchain[f]

SecondInventory ==
  launch = "second" /\ ~restored =>
    \A f \in Inventoried :
      /\ expected <= midway[f] /\ midway[f] <= toolchain[f]
      /\ f \notin unread => midway[f] = expected

Inventories ==
  launch \in {"import", "main"} /\ ~restored =>
    \A f \in Inventoried : midway[f] = expected

\* A module that nobody has written since its second reading is the expected one.
Rereadings ==
  /\ launch = "second" => \A f \in (Modules \ unread) \ late : toolchain[f] = expected
  /\ launch = "import" =>
       \A f \in Modules \ late :
         toolchain[f] = expected /\ (f \notin unread => loaded[f] = expected)
  /\ launch = "main" => \A f \in Modules \ late : loaded[f] = expected

\* A launch that nobody disturbs sees one version, the one the shim pins.
Undisturbed ==
  switches = 0 =>
    /\ launch \in {"shim", "pins"} => toolchain = Of(toolchain["manifest"])
    /\ launch \in {"entrypoint", "manifest", "first", "second", "import", "main"} =>
         toolchain = Of(pin)
    /\ launch = "import" => \A f \in Modules \ unread : loaded[f] = pin
    /\ launch = "main" => \A f \in Modules : loaded[f] = pin

LaunchInv ==
  /\ LaunchTyped /\ FirstInventory /\ SecondInventory /\ Inventories /\ Rereadings
  /\ Undisturbed

LEMMA OfTyped == ASSUME NEW v \in Nat PROVE Of(v) \in [ToolchainFiles -> Nat]
BY DEF Of

LEMMA FilesCovered ==
  /\ Inventoried \subseteq ToolchainFiles /\ Modules \subseteq Inventoried
  /\ "manifest" \in ToolchainFiles /\ "entrypoint" \in Inventoried
BY DEF ToolchainFiles, Inventoried

LEMMA InitLaunch == LaunchInit => LaunchInv
<1> SUFFICES ASSUME LaunchInit PROVE LaunchInv OBVIOUS
<1> USE FilesCovered, OfTyped, VersionsAssumption
<1>1. PICK v \in Versions : toolchain = Of(v) BY DEF LaunchInit
<1>2. toolchain = Of(toolchain["manifest"]) BY <1>1 DEF Of
<1>3. LaunchTyped BY <1>1 DEF LaunchInit, LaunchTyped
<1> QED
  BY <1>2, <1>3 DEF LaunchInit, LaunchInv, FirstInventory, SecondInventory, Inventories,
                    Rereadings, Undisturbed

LEMMA StartingKeeps == LaunchInv /\ Starting => LaunchInv'
<1> SUFFICES ASSUME LaunchInv, Starting PROVE LaunchInv' OBVIOUS
<1> USE FilesCovered DEF disk, launched, others, GoTo
<1>1. CASE RunShim
  BY <1>1 DEF RunShim, LaunchInv, LaunchTyped, FirstInventory, SecondInventory, Inventories,
              Rereadings, Undisturbed
<1>2. CASE CheckManifest \/ CheckEntrypoint
  <2>1. ASSUME switches = 0, launch' # "refused" PROVE toolchain = Of(pin)
    BY <1>2, <2>1 DEF CheckManifest, CheckEntrypoint, CheckPin, LaunchInv, Undisturbed
  <2> QED
    BY <1>2, <2>1 DEF CheckManifest, CheckEntrypoint, CheckPin, LaunchInv, LaunchTyped,
                      FirstInventory, SecondInventory,
                      Inventories, Rereadings, Undisturbed
<1>3. CASE ReadManifest
  BY <1>3 DEF ReadManifest, LaunchInv, LaunchTyped, FirstInventory, SecondInventory,
              Inventories, Rereadings, Undisturbed
<1>4. CASE Inventory
  <2>1. PICK f \in unread :
          IF toolchain[f] # expected THEN GoTo("refused") /\ UNCHANGED <<unread, midway>>
          ELSE IF unread = {f} THEN NextPass
          ELSE unread' = unread \ {f} /\ UNCHANGED <<launch, midway>>
    BY <1>4 DEF Inventory
  <2>2. f \in Inventoried /\ toolchain[f] \in Nat /\ expected \in Nat
    BY DEF LaunchInv, LaunchTyped
  <2>3. CASE toolchain[f] # expected
    BY <1>4, <2>1, <2>3 DEF Inventory, LaunchInv, LaunchTyped, FirstInventory, SecondInventory,
                            Inventories, Rereadings, Undisturbed
  <2>4. CASE toolchain[f] = expected /\ unread = {f}
    <3>1. CASE launch = "first"
      <4>1. ~restored => \A g \in Inventoried : expected <= toolchain[g]
        BY <2>2, <2>4, <3>1 DEF LaunchInv, FirstInventory
      <4> QED
        BY <1>4, <2>1, <2>4, <3>1, <4>1
        DEF Inventory, NextPass, LaunchInv, LaunchTyped, FirstInventory, SecondInventory,
            Inventories, Rereadings, Undisturbed
    <3>2. CASE launch = "second"
      <4>1. ~restored => \A g \in Inventoried : midway[g] = expected
        BY <2>2, <2>4, <3>2 DEF LaunchInv, LaunchTyped, SecondInventory
      <4> QED
        BY <1>4, <2>1, <2>4, <3>2, <4>1
        DEF Inventory, NextPass, Import, LaunchInv, LaunchTyped, FirstInventory,
            SecondInventory, Inventories, Rereadings, Undisturbed
    <3> QED BY <1>4, <3>1, <3>2 DEF Inventory
  <2>5. CASE toolchain[f] = expected /\ unread # {f}
    <3>1. /\ unread' = unread \ {f}
          /\ UNCHANGED <<launch, midway, disk, pin, expected, loaded, others>>
      BY <1>4, <2>1, <2>5 DEF Inventory
    <3>2. launch = "second" /\ ~restored => midway[f] = expected
      BY <2>2, <2>5 DEF LaunchInv, LaunchTyped, SecondInventory
    <3>3. launch = "first" \/ launch = "second" BY <1>4 DEF Inventory
    <3> QED
      BY <2>2, <2>5, <3>1, <3>2, <3>3 DEF LaunchInv, LaunchTyped, FirstInventory, SecondInventory,
                                    Inventories, Rereadings, Undisturbed
  <2> QED BY <2>3, <2>4, <2>5
<1>5. CASE Load
  <2>1. PICK f \in unread :
          /\ loaded' = [loaded EXCEPT ![f] = toolchain[f]]
          /\ unread' = unread \ {f}
          /\ GoTo(IF unread = {f} THEN "main" ELSE "import")
    BY <1>5 DEF Load
  <2>2. f \in Modules /\ toolchain[f] \in Nat /\ launch = "import"
        /\ UNCHANGED <<disk, pin, expected, midway, others>>
    BY <1>5 DEF Load, LaunchInv, LaunchTyped
  <2>3. loaded' \in [Modules -> Nat] BY <2>1, <2>2 DEF LaunchInv, LaunchTyped
  <2>4. switches = 0 => \A g \in Modules \ unread' : loaded'[g] = pin
    BY <2>1, <2>2 DEF LaunchInv, LaunchTyped, Undisturbed, Of
  <2> QED
    BY <2>1, <2>2, <2>3, <2>4 DEF LaunchInv, LaunchTyped, FirstInventory, SecondInventory,
                                  Inventories, Rereadings, Undisturbed
<1>6. CASE CannotRead
  BY <1>6 DEF CannotRead, LaunchInv, LaunchTyped, FirstInventory, SecondInventory,
              Inventories, Rereadings, Undisturbed
<1> QED BY <1>1, <1>2, <1>3, <1>4, <1>5, <1>6 DEF Starting

\* A write leaves every file as it was, newer, or restored.
LEMMA SwitchKeeps ==
  ASSUME LaunchInv, NEW v \in Nat, NEW next \in [ToolchainFiles -> Nat], Switch(next, v)
  PROVE  LaunchInv'
<1> USE FilesCovered DEF launched
<1>1. switches' # 0 BY DEF Switch, LaunchInv, LaunchTyped
<1>2. ~restored' => ~restored /\ \A f \in Inventoried : toolchain[f] <= toolchain'[f]
  <2>1. ~restored' => ~restored /\ \A f \in Inventoried : ~(toolchain'[f] < toolchain[f])
    BY Zenon DEF Switch
  <2>2. \A f \in Inventoried : toolchain[f] \in Nat /\ toolchain'[f] \in Nat
    BY DEF Switch, LaunchInv, LaunchTyped
  <2> QED BY <2>1, <2>2
<1>3. LaunchTyped' BY DEF Switch, LaunchInv, LaunchTyped
<1>4. /\ UNCHANGED <<launch, expected, unread, midway>>
      /\ expected \in Nat
      /\ \A f \in Inventoried :
           toolchain[f] \in Nat /\ toolchain'[f] \in Nat /\ midway[f] \in Nat
  BY <1>3 DEF Switch, LaunchInv, LaunchTyped
<1>5. FirstInventory'
  BY <1>2, <1>4 DEF LaunchInv, FirstInventory
<1>6. SecondInventory'
  BY <1>2, <1>4 DEF LaunchInv, SecondInventory
<1>7. Rereadings'
  <2>1. late' = late \cup {f \in Settled : toolchain'[f] # toolchain[f]} /\ loaded' = loaded
    BY DEF Switch
  <2>2. launch = "second" => \A f \in (Modules \ unread) \ late' : toolchain'[f] = expected
    BY <2>1 DEF Settled, LaunchInv, Rereadings
  <2>3. launch = "import" =>
          \A f \in Modules \ late' :
            toolchain'[f] = expected /\ (f \notin unread => loaded[f] = expected)
    BY <2>1 DEF Settled, LaunchInv, Rereadings
  <2>4. launch # "main" BY DEF Switch
  <2> QED BY <1>4, <2>1, <2>2, <2>3, <2>4 DEF Rereadings
<1> QED
  BY <1>1, <1>2, <1>3, <1>5, <1>6, <1>7 DEF Switch, LaunchInv, Inventories, Undisturbed

LEMMA SwitchingKeeps == LaunchInv /\ Switching => LaunchInv'
<1> SUFFICES ASSUME LaunchInv, Switching PROVE LaunchInv' OBVIOUS
<1> USE VersionsAssumption, OfTyped
<1>1. shim \in Nat /\ toolchain \in [ToolchainFiles -> Nat] BY DEF LaunchInv, LaunchTyped
<1>2. ASSUME NEW v \in Versions, Switch(toolchain, v) PROVE LaunchInv'
  BY <1>1, <1>2, SwitchKeeps
<1>3. ASSUME NEW v \in Versions, Switch(Of(v), shim) PROVE LaunchInv'
  BY <1>1, <1>3, SwitchKeeps
<1>4. ASSUME NEW v \in Versions, NEW f \in ToolchainFiles, Switch([toolchain EXCEPT ![f] = v], shim)
      PROVE LaunchInv'
  <2> DEFINE next == [toolchain EXCEPT ![f] = v]
  <2>1. next \in [ToolchainFiles -> Nat] BY <1>1
  <2>2. Switch(next, shim) BY <1>4
  <2> HIDE DEF next
  <2> QED BY <1>1, <2>1, <2>2, SwitchKeeps
<1> QED BY <1>2, <1>3, <1>4 DEF Switching

LEMMA ForgetLaunchKeeps == ForgetLaunch => LaunchInv'
<1> SUFFICES ASSUME ForgetLaunch PROVE LaunchInv' OBVIOUS
<1>1. Of(0) \in [ToolchainFiles -> Nat] BY OfTyped
<1>2. LaunchTyped' BY <1>1 DEF ForgetLaunch, LaunchTyped
<1> QED
  BY <1>2 DEF ForgetLaunch, LaunchInv, FirstInventory, SecondInventory, Inventories, Rereadings,
              Undisturbed

LEMMA StepLaunch == LaunchInv /\ [Next]_vars => LaunchInv'
<1> SUFFICES ASSUME LaunchInv, [Next]_vars PROVE LaunchInv' OBVIOUS
<1>1. CASE UNCHANGED launchVars
  BY <1>1 DEF launchVars, disk, launched, others, LaunchInv, LaunchTyped, FirstInventory,
              SecondInventory, Inventories, Rereadings, Undisturbed
<1>2. CASE Start BY <1>2, StartingKeeps, SwitchingKeeps DEF Start
<1>3. CASE Started BY <1>3, ForgetLaunchKeeps DEF Started
<1> QED
  BY <1>1, <1>2, <1>3 DEF Next, Query, QueryEnds, Save, SaveEnds, SaverIsKilled, Apply, Deliver, vars

\* What is inventoried is one whole toolchain, and what is imported is what was
\* inventoried but for modules written afterwards, whatever files the runtime has
\* and whoever writes them meanwhile (toolchain/scripts/cli.py:97).
THEOREM RunsWholeToolchain == Spec => []LaunchIsWhole
<1>1. Init => LaunchInv BY InitLaunch DEF Init
<1>2. LaunchInv => LaunchIsWhole
  BY DEF LaunchInv, Inventories, Rereadings, Undisturbed, LaunchIsWhole
<1> QED BY <1>1, <1>2, StepLaunch, PTL DEF Spec

---------------------------------------------------------------------------
(* The queries                                                             *)

Drains == query \in {"select", "read", "wait"}

CaptureTyped ==
  /\ pipe \in [Streams -> Nat] /\ wrote \in [Streams -> Nat] /\ buffers \in [Streams -> Nat]
  /\ holders \in [Streams -> SUBSET {"child", "heir"}]
  /\ registered \subseteq Streams /\ events \subseteq Streams

\* No chunk is lost or read twice, and a pipe that is given up is at its end.
Pumped ==
  /\ \A s \in Streams : buffers[s] + pipe[s] = wrote[s]
  /\ Drains => total <= OutputLimit
  /\ Drains => \A s \in Streams \ registered : pipe[s] = 0 /\ holders[s] = {}
  /\ query = "read" => \A s \in events : Readable(s)
  /\ query = "wait" => registered = {}

CaptureInv ==
  /\ CaptureTyped /\ Pumped
  /\ query \in {"lookup", "spawn"} => wrote = Nothing /\ child = "none"
  /\ query \in {"reap", "over"} /\ child = "running" => spared # "none"
  /\ failure # "complete" /\ (query # "over" => answer # "complete")
  /\ CaptureIsWhole

LEMMA InitCapture == CaptureInit => CaptureInv
BY DEF CaptureInit, CaptureInv, CaptureTyped, Pumped, Drains, CaptureIsWhole, Nothing

LEMMA NothingPumped ==
  ASSUME wrote = Nothing, CaptureTyped, Pumped
  PROVE  \A s \in Streams : buffers[s] = 0 /\ pipe[s] = 0
BY DEF CaptureTyped, Pumped, Nothing

\* A step of remek's: the child does not write meanwhile.
LEMMA ReadingKeeps ==
  ASSUME CaptureInv, NEW s \in Streams, Read(s)
  PROVE  CaptureInv'
<1> USE DEF CaptureInv, CaptureTyped
<1>1. /\ query = "read" /\ s \in events /\ UNCHANGED <<child, holders, wrote>>
      /\ pipe' = [pipe EXCEPT ![s] = 0] /\ buffers' = [buffers EXCEPT ![s] = @ + pipe[s]]
      /\ registered' = IF pipe[s] = 0 THEN registered \ {s} ELSE registered
  BY DEF Read
<1>2. CaptureTyped' BY <1>1 DEF Read
<1>3. \A t \in Streams : buffers'[t] + pipe'[t] = wrote'[t] BY <1>1 DEF Pumped
<1>4. \A t \in Streams \ registered' : pipe'[t] = 0 /\ holders'[t] = {}
  BY <1>1 DEF Pumped, Drains, Readable
<1>5. total' = total + pipe[s] BY <1>1 DEF total, Streams
<1>6. CASE total + pipe[s] > OutputLimit
  <2>1. /\ query' = "kill" /\ failure' = "output" /\ answer' = answer
    BY <1>6 DEF Read, Raise
  <2> QED BY <1>1, <1>2, <1>3, <2>1 DEF Pumped, Drains, CaptureIsWhole
<1>7. CASE ~(total + pipe[s] > OutputLimit)
  <2>1. /\ events' = events \ {s} /\ query' \in {"select", "read"}
        /\ UNCHANGED <<failure, answer>>
    BY <1>7 DEF Read
  <2>2. total' <= OutputLimit
    <3>1. total \in Nat /\ pipe[s] \in Nat BY DEF total, Streams
    <3> QED BY <1>5, <1>7, <3>1, OutputLimitAssumption
  <2>3. \A t \in events' : Readable(t)' BY <1>1, <2>1 DEF Pumped, Readable
  <2> QED
    BY <1>1, <1>2, <1>3, <1>4, <2>1, <2>2, <2>3 DEF Pumped, Drains, CaptureIsWhole
<1> QED BY <1>6, <1>7

LEMMA RemekKeeps ==
  ASSUME CaptureInv,
         \/ LookAt \/ Lookup \/ Spawn \/ Select \/ TimesOut \/ AwaitExit \/ Complete \/ Kill \/ Reap
         \/ Failing \/ Expire
  PROVE  CaptureInv'
<1> USE DEF CaptureInv, CaptureTyped, pipes, readers
<1>1. CASE LookAt \/ Lookup
  BY <1>1 DEF LookAt, Lookup, Pumped, Drains, CaptureIsWhole, total, Readable
<1>2. CASE Spawn
  <2>1. \A s \in Streams : buffers[s] = 0 /\ pipe[s] = 0
    BY <1>2, NothingPumped DEF Spawn
  <2>2. UNCHANGED <<pipe, wrote, buffers, events, failure>> BY <1>2 DEF Spawn
  <2>3. CASE query' = "select" /\ holders' = [s \in Streams |-> {"child"}] /\ registered' = Streams
             /\ answer' = answer
    <3>1. total' <= OutputLimit
      BY <2>1, <2>2, OutputLimitAssumption DEF total, Streams
    <3> QED BY <1>2, <2>2, <2>3, <3>1 DEF Spawn, Pumped, Drains, CaptureIsWhole
  <2>4. CASE query' = "over" /\ answer' = "unavailable" /\ UNCHANGED <<child, holders, registered>>
    BY <1>2, <2>2, <2>4 DEF Spawn, Pumped, Drains, CaptureIsWhole
  <2> QED BY <1>2, <2>3, <2>4 DEF Spawn
<1>3. CASE Select
  BY <1>3 DEF Select, Pumped, Drains, CaptureIsWhole, total, Readable
<1>4. CASE TimesOut \/ Failing
  BY <1>4 DEF TimesOut, Failing, SpawnInterrupted, CallFails, KillDenied, KillInterrupted,
              ReapFails, Raise,
               Pumped, Drains, CaptureIsWhole
<1>5. CASE AwaitExit
  BY <1>5 DEF AwaitExit, Drained, Pumped, Drains, CaptureIsWhole, total, Readable
<1>6. CASE Complete
  <2>1. /\ query = "wait" /\ child = "exited" /\ query' = "over" /\ failure' = failure
        /\ UNCHANGED <<child, pipe, wrote, holders, buffers, registered, events>>
    BY <1>6 DEF Complete
  <2>2. \A s \in Streams : pipe[s] = 0 /\ holders[s] = {} /\ buffers[s] = wrote[s]
    BY <2>1 DEF Pumped, Drains
  <2>3. buffers = wrote /\ total <= OutputLimit BY <2>1, <2>2 DEF Pumped, Drains
  <2>4. CaptureIsWhole' BY <2>1, <2>2, <2>3 DEF CaptureIsWhole, total
  <2> QED BY <2>1, <2>4 DEF Pumped, Drains
<1>7. CASE Kill
  BY <1>7 DEF Kill, Pumped, Drains, CaptureIsWhole
<1>8. CASE Reap
  BY <1>8 DEF Reap, Pumped, Drains, CaptureIsWhole
<1>9. CASE Expire
  BY <1>9 DEF Expire, Pumped, Drains, CaptureIsWhole, total, Readable
<1> QED BY <1>1, <1>2, <1>3, <1>4, <1>5, <1>6, <1>7, <1>8, <1>9

\* Whatever the child and its heir do, what they have closed stays closed.
LEMMA ProcessesKeep ==
  ASSUME CaptureInv, Processes
  PROVE  CaptureInv'
<1> USE DEF CaptureInv, CaptureTyped
<1>1. /\ Asked /\ UNCHANGED <<query, buffers, registered, events, failure, answer, spared>>
  BY DEF Processes, WriteTo, CloseEnd, Fork, Exit, remek, readers
<1>2. child' = child \/ child' = "exited"
  BY DEF Processes, WriteTo, CloseEnd, Fork, Exit
<1>3. total' = total BY <1>1 DEF total
<1>4. ASSUME NEW who \in {"child", "heir"}, NEW s \in Streams, WriteTo(who, s) PROVE CaptureInv'
  <2>1. \A t \in Streams : buffers'[t] + pipe'[t] = wrote'[t] BY <1>1, <1>4 DEF WriteTo, Pumped
  <2>2. \A t \in Streams : holders[t] = {} => pipe'[t] = pipe[t] /\ holders'[t] = {}
    BY <1>4 DEF WriteTo
  <2>3. \A t \in Streams : Readable(t) => Readable(t)' BY <1>4 DEF WriteTo, Readable
  <2> QED
    BY <1>1, <1>2, <1>3, <1>4, <2>1, <2>2, <2>3
    DEF WriteTo, Asked, Pumped, Drains, CaptureIsWhole
<1>5. ASSUME UNCHANGED <<pipe, wrote>>, \A s \in Streams : holders'[s] \subseteq holders[s]
                                         \/ (holders[s] # {} /\ holders'[s] \subseteq {"child", "heir"}),
             holders' = [s \in Streams |-> holders'[s]]
      PROVE  CaptureInv'
  <2>1. \A t \in Streams : holders[t] = {} => holders'[t] = {} BY <1>5
  <2>2. holders' \in [Streams -> SUBSET {"child", "heir"}] BY <1>5
  <2>3. ASSUME query = "read", NEW s \in events PROVE Readable(s)'
    BY <1>5, <2>1, <2>3 DEF Pumped, Readable
  <2> QED
    BY <1>1, <1>2, <1>3, <1>5, <2>1, <2>2, <2>3 DEF Asked, Pumped, Drains, CaptureIsWhole
<1>6. ASSUME NEW who \in {"child", "heir"}, NEW s \in Streams, CloseEnd(who, s) PROVE CaptureInv'
  BY <1>5, <1>6 DEF CloseEnd
<1>7. CASE Fork
  BY <1>5, <1>7 DEF Fork
<1>8. CASE Exit
  BY <1>5, <1>8 DEF Exit
<1> QED BY <1>4, <1>6, <1>7, <1>8 DEF Processes

LEMMA StepCapture == CaptureInv /\ [Next]_vars => CaptureInv'
<1> SUFFICES ASSUME CaptureInv, [Next]_vars PROVE CaptureInv' OBVIOUS
<1>1. CASE Query
  BY <1>1, ReadingKeeps, RemekKeeps, ProcessesKeep DEF Query, CaptureNext, Capturing
<1>2. CASE UNCHANGED <<query, child, pipes, readers, failure, answer, spared>>
  BY <1>2 DEF pipes, readers, CaptureInv, CaptureTyped, Pumped, Drains, Readable, CaptureIsWhole, total
<1>3. CASE QueryEnds
  BY <1>3 DEF QueryEnds, ForgetQuery, CaptureInv, CaptureTyped, Pumped, Drains, CaptureIsWhole,
              Nothing
<1> QED
  BY <1>1, <1>2, <1>3 DEF Next, Start, Started, Save, SaveEnds, SaverIsKilled, Apply, Deliver,
                          captureVars, vars

\* A query that succeeds has all the output of the child and its descendants,
\* however much they write and whatever they do to the pipes (_capture_process).
THEOREM CapturesAll == Spec => []CaptureIsWhole
<1>1. Init => CaptureInv BY InitCapture DEF Init
<1>2. CaptureInv => CaptureIsWhole BY DEF CaptureInv
<1> QED BY <1>1, <1>2, StepCapture, PTL DEF Spec

\* No query leaves its child to run, unless the kill was denied or the operator's
\* interrupt came before it (_capture_process).
THEOREM LeavesNoChild == Spec => []NoRunawayChild
<1>1. Init => CaptureInv BY InitCapture DEF Init
<1>2. CaptureInv => NoRunawayChild BY DEF CaptureInv, NoRunawayChild
<1> QED BY <1>1, <1>2, StepCapture, PTL DEF Spec

---------------------------------------------------------------------------
(* The lookup                                                              *)

\* The entries that were kept are safe for both tools, and the executable is
\* that of the first of them that has one.
LookupInv ==
  /\ path \in Seq(Entries) /\ directories \in Seq(Entries)
  /\ \A i \in 1..Len(directories) : Kept(directories[i])
  /\ IF executable = NotFound
     THEN query # "spawn" /\ Ready("git", directories) = {}
     ELSE \E i \in Ready("git", directories) :
            directories[i] = executable /\ \A j \in Ready("git", directories) : i <= j

LEMMA LookAtKeeps ==
  ASSUME LookupInv, LookAt
  PROVE  LookupInv'
<1> DEFINE directory == Head(path)
<1>1. query = "lookup" /\ directory \in Entries /\ Tail(path) \in Seq(Entries)
  BY DEF LookAt, LookupInv
<1>2. CASE directory.where = "relative"
  <2>1. query' = "over" /\ UNCHANGED <<path, directories, executable>>
    BY <1>2 DEF LookAt, lookups
  <2> QED BY <2>1 DEF LookupInv, Ready
<1>3. CASE directory.where # "relative" /\ ~Kept(directory)
  <2>1. path' = Tail(path) /\ UNCHANGED <<query, directories, executable>> BY <1>3 DEF LookAt
  <2> QED BY <1>1, <2>1 DEF LookupInv, Ready
<1>4. CASE directory.where # "relative" /\ Kept(directory)
  <2>1. /\ path' = Tail(path) /\ query' = query /\ directories' = Append(directories, directory)
        /\ executable' = IF executable = NotFound /\ directory.git = "ready" THEN directory ELSE executable
    BY <1>4 DEF LookAt
  <2> DEFINE n == Len(directories) + 1
  <2> HIDE DEF directory
  <2>2. /\ directories' \in Seq(Entries) /\ Len(directories') = n /\ directories'[n] = directory
        /\ Len(directories) \in Nat
        /\ \A i \in 1..Len(directories) : directories'[i] = directories[i]
    BY <1>1, <2>1 DEF LookupInv
  <2>3. \A i \in 1..n : i \in 1..Len(directories) \/ i = n BY <2>2
  <2>4. \A i \in 1..n : Kept(directories'[i]) BY <1>4, <2>2, <2>3 DEF LookupInv
  <2>5. /\ Ready("git", directories) \subseteq 1..Len(directories)
        /\ Ready("git", directories')
             = Ready("git", directories) \cup (IF directory.git = "ready" THEN {n} ELSE {})
    BY <2>2, <2>3 DEF Ready
  <2>6. directory # NotFound BY <1>1 DEF Entries, NotFound
  <2>7. CASE executable = NotFound /\ directory.git # "ready"
    BY <1>1, <2>1, <2>2, <2>4, <2>5, <2>7 DEF LookupInv
  <2>8. CASE executable = NotFound /\ directory.git = "ready"
    <3>1. Ready("git", directories') = {n} BY <2>5, <2>8 DEF LookupInv
    <3>2. /\ executable' = directory /\ n \in Ready("git", directories')
          /\ \A j \in Ready("git", directories') : n <= j
      BY <2>1, <2>2, <2>8, <3>1
    <3> QED BY <1>1, <2>1, <2>2, <2>4, <2>6, <3>2 DEF LookupInv
  <2>9. CASE executable # NotFound
    <3>1. PICK i \in Ready("git", directories) :
            directories[i] = executable /\ \A j \in Ready("git", directories) : i <= j
      BY <2>9 DEF LookupInv
    <3>2. /\ i \in 1..Len(directories) /\ i \in Ready("git", directories')
          /\ directories'[i] = executable'
          /\ \A j \in Ready("git", directories') : i <= j
      BY <2>1, <2>2, <2>5, <2>9, <3>1
    <3> QED BY <1>1, <2>1, <2>2, <2>4, <2>9, <3>2 DEF LookupInv
  <2> QED BY <2>7, <2>8, <2>9
<1> QED BY <1>2, <1>3, <1>4

LEMMA StepLookup == LookupInv /\ [Next]_vars => LookupInv'
<1> SUFFICES ASSUME LookupInv, [Next]_vars PROVE LookupInv' OBVIOUS
<1>1. CASE Query /\ LookAt BY <1>1, LookAtKeeps
<1>2. CASE Query /\ Lookup
  <2>1. UNCHANGED <<path, directories, executable>> /\ (query' = "spawn" => executable # NotFound)
    BY <1>2 DEF Lookup, lookups
  <2> QED BY <2>1 DEF LookupInv, Ready
<1>3. CASE (Query /\ (Spawn \/ SpawnInterrupted)) \/ QueryEnds
  <2>1. path' = <<>> /\ directories' = <<>> /\ executable' = NotFound /\ query' # "spawn"
    BY <1>3 DEF Spawn, SpawnInterrupted, QueryEnds, ForgetQuery, ForgetLookup
  <2> QED BY <2>1 DEF LookupInv, Ready
<1>4. CASE Query /\ ~(LookAt \/ Lookup \/ Spawn \/ SpawnInterrupted)
  <2>1. UNCHANGED <<path, directories, executable>> /\ (query' = "spawn" => query = "spawn")
    BY <1>4 DEF Query, CaptureNext, Capturing, Failing, Processes, Expire, Select, TimesOut, Read,
       AwaitExit, Complete, CallFails, Kill, KillDenied, KillInterrupted, Reap, ReapFails, Raise,
       WriteTo, CloseEnd, Fork,
       Exit, remek, lookups
  <2> QED BY <2>1 DEF LookupInv, Ready
<1>5. CASE Started
  <2>1. UNCHANGED <<query, directories, executable>> /\ (path' = path \/ path' \in Paths)
    BY <1>5 DEF Started
  <2> QED BY <2>1, PathsAssumption DEF LookupInv, Ready
<1>6. CASE UNCHANGED <<query, path, directories, executable>>
  BY <1>6 DEF LookupInv, Ready
<1> QED
  BY <1>1, <1>2, <1>3, <1>4, <1>5, <1>6
  DEF Next, Start, Save, SaveEnds, SaverIsKilled, Apply, Deliver, captureVars, lookups, vars

\* Whatever PATH holds, the child is given one that leads it to the executable
\* that was chosen, and to nothing unsafe (_external_command).
THEOREM LookupsDoAgree == Spec => []LookupsAgree
<1>1. Init => LookupInv BY DEF Init, CaptureInit, LookupInv, Ready
<1>2. LookupInv => LookupsAgree BY DEF LookupInv, LookupsAgree, Kept
<1> QED BY <1>1, <1>2, StepLookup, PTL DEF Spec

---------------------------------------------------------------------------
(* The saved plan                                                          *)

LEMMA StepSave == SaveInv /\ [Next]_vars => SaveInv'
<1> SUFFICES ASSUME SaveInv, [Next]_vars PROVE SaveInv' OBVIOUS
<1>1. CASE Save BY <1>1, SavingKeeps, OthersKeep DEF Save
<1>2. CASE UNCHANGED artifactVars
  BY <1>2 DEF artifactVars, writer, SaveInv, SaveTyped, LinkedWhole, LeftNamed, Progress, Ended,
              NoLink, Succeeds
<1> QED
  BY <1>1, <1>2 DEF Next, Start, Started, Query, QueryEnds, SaveEnds, SaverIsKilled, Apply,
                    Deliver, artifactVars, vars

LEMMA StepReader == SaveInv /\ ReaderInv /\ [Next]_vars => ReaderInv'
<1> SUFFICES ASSUME SaveInv, ReaderInv, [Next]_vars PROVE ReaderInv' OBVIOUS
<1>1. CASE Save BY <1>1, ReaderKeeps DEF Save
<1>2. CASE UNCHANGED artifactVars
  BY <1>2 DEF artifactVars, writer, readingVars, ReaderInv
<1> QED
  BY <1>1, <1>2 DEF Next, Start, Started, Query, QueryEnds, SaveEnds, SaverIsKilled, Apply,
                    Deliver, artifactVars, vars

\* What the end of a save says is so, and an error names every name the new
\* file is left at, however often somebody else acts in that directory
\* (write_artifact, _artifact_failure).
THEOREM SavesTruthfully == Spec => []SaveTruthful
<1>1. Init => SaveInv BY InitSave DEF Init
<1>2. SaveInv => SaveTruthful
  <2> SUFFICES ASSUME SaveInv, save = "over" PROVE SaveTruthful BY DEF SaveTruthful
  <2>1. Links = 0 <=> NoLink BY LinksCounted DEF SaveInv, SaveTyped
  <2> QED
    BY <2>1 DEF SaveInv, SaveTyped, LinkedWhole, LeftNamed, Ended, Succeeds, SaveTruthful
<1> QED BY <1>1, <1>2, StepSave, PTL DEF Spec

\* A reader accepts no file that its saver may still be writing, or that still
\* has its private name, also if the saver was killed (read_artifact).
THEOREM ReadsSettledFiles == Spec => []ReadIsSettled
<1>1. Init => SaveInv /\ ReaderInv BY InitSave, InitReader DEF Init
<1>2. ReaderInv => ReadIsSettled BY DEF ReaderInv, ReadIsSettled
<1> QED BY <1>1, <1>2, StepSave, StepReader, PTL DEF Spec

\* Nothing but somebody else's own act takes somebody else's file from the
\* name of the plan (write_artifact).
THEOREM NeverClobbers == Spec => NoClobber
<1> DEFINE Clobbers ==
      /\ entry["destination"] = "other" /\ entry'["destination"] # "other"
      /\ meddling' = meddling
<1>1. Init => SaveInv BY InitSave DEF Init
<1>2. SaveInv /\ [Next]_vars => ~Clobbers
  <2> SUFFICES ASSUME SaveInv, [Next]_vars, Clobbers PROVE FALSE OBVIOUS
  <2>1. entry \in [Names -> {"none", "new", "other"}] /\ meddling \in Nat
    BY DEF SaveInv, SaveTyped
  <2>2. entry' # entry OBVIOUS
  <2>3. Saving \/ Meddling
    BY <2>2 DEF Next, Start, Started, Query, QueryEnds, Save, Crash, Reading, ReadStat, ReadOpen,
                ReadEnd, surroundings, SaveEnds, SaverIsKilled, Apply, Deliver, artifactVars, vars
  <2>4. CASE Meddling BY <2>1, <2>4 DEF Meddling, Meddle
  <2>5. CASE Saving
    BY <2>1, <2>5 DEF Saving, Validate, Create, Fill, Link, Linked, Inspect, RemoveStage, Classify,
                      Leave, CloseBoundary, Names
  <2> QED BY <2>3, <2>4, <2>5
<1>3. SaveInv /\ [Next]_vars =>
        [entry["destination"] = "other" /\ entry'["destination"] # "other"
           => meddling' # meddling]_vars
  BY <1>2
<1> QED BY <1>1, <1>3, StepSave, PTL DEF Spec, NoClobber

---------------------------------------------------------------------------
(* The report                                                              *)

\* A result that tells the truth about what the command has left: it is
\* changed exactly when its outcome says so, and then its exit status is 3,
\* or 0 when nothing went wrong after the change.
Tells(r, left) ==
  /\ r.status = "failed" => ExitCode(r) # 0
  /\ r.outcome \in {"none", "unchanged", "restored"} \cup Changing
  /\ r.changed \in BOOLEAN /\ (r.changed <=> r.outcome \in Changing)
  /\ IF r.outcome \in Changing
     THEN ExitCode(r) = 3 \/ (ExitCode(r) = 0 /\ r.outcome = "applied")
     ELSE ExitCode(r) \in {0, 1, 2, 70, 130} /\ ~left

\* What was told is the result, and a success was told whole.
Told(r) ==
  \/ told = Silence /\ ExitCode(r) # 0
  \/ /\ told.outcome = r.outcome /\ told.exit = ExitCode(r)
     /\ r.status = "failed" \/ told.text = "whole"

ReportInv ==
  /\ tree \in BOOLEAN
  /\ phase \in {"launch", "query", "apply"} => save = "idle"
  /\ phase \in {"launch", "query", "apply", "save"} => ~tree
  /\ phase = "deliver" => deliver \in {"render", "write", "fallback"}
  /\ phase \in {"deliver", "exited"} => Tells(result, Mutated)
  /\ phase = "deliver" /\ deliver = "fallback" => result.status = "failed"
  /\ phase = "exited" => Told(result)
  /\ phase # "exited" => told = Silence

LEMMA ErrorTells ==
  ASSUME NEW status \in {"refused", "failed"}, NEW code \in {2, 70, 130}, NEW left \in BOOLEAN,
         NEW outcome \in {"unchanged", "restored"} \cup Changing,
         left => outcome \in Changing
  PROVE  Tells(ErrorResult(status, outcome, code), left)
<1>1. CASE outcome \in Changing
  <2>1. ErrorResult(status, outcome, code) = Result(status, TRUE, outcome, 3, TRUE)
    BY <1>1 DEF ErrorResult
  <2> QED BY <1>1, <2>1 DEF Tells, Result, ExitCode, Changing, Unset
<1>2. CASE outcome \notin Changing
  <2>0. (outcome \in Changing) = FALSE BY <1>2
  <2>1. ErrorResult(status, outcome, code) = Result(status, FALSE, outcome, code, TRUE)
    BY <2>0 DEF ErrorResult
  <2> QED BY <1>2, <2>1 DEF Tells, Result, ExitCode, Changing, Unset
<1> QED BY <1>1, <1>2

LEMMA SuccessTells ==
  ASSUME NEW outcome \in {"none", "unchanged", "applied"}, NEW left \in BOOLEAN,
         NEW errors \in BOOLEAN, NEW status \in {"planned", "ok", "refused", "issues"},
         left => outcome = "applied",
         outcome = "applied" => status = (IF errors THEN "refused" ELSE "ok")
  PROVE  Tells(Result(status, outcome = "applied", outcome, Unset, errors), left)
BY DEF Tells, Result, ExitCode, Changing, Unset

LEMMA PlannedTells == Tells(Result("planned", FALSE, "none", Unset, FALSE), FALSE)
BY DEF Tells, Result, ExitCode, Changing, Unset

LEMMA FailureTells ==
  ASSUME NEW r, NEW left \in BOOLEAN, Tells(r, left)
  PROVE  Tells(OutputFailure(r), left) /\ OutputFailure(r).status = "failed"
<1>1. CASE r.outcome \in Changing
  <2>1. OutputFailure(r) = Result("failed", TRUE, r.outcome, 3, TRUE)
    BY <1>1 DEF OutputFailure, Changing, Tells
  <2> QED BY <1>1, <2>1 DEF Tells, Result, ExitCode, Changing, Unset
<1>2. CASE r.outcome \notin Changing
  <2>1. PICK outcome \in {"unchanged", "restored"} :
          OutputFailure(r) = Result("failed", FALSE, outcome, 2, TRUE)
    BY <1>2 DEF OutputFailure, Changing, Tells
  <2> QED BY <1>2, <2>1 DEF Tells, Result, ExitCode, Changing, Unset
<1> QED BY <1>1, <1>2

LEMMA NothingSaved ==
  ASSUME SaveInv, save = "idle" \/ (save = "over" /\ saved \in {"saved", "refused", "interrupted"})
  PROVE  ~(Links > 0 /\ saved # "saved")
BY LinksCounted DEF SaveInv, SaveTyped, Progress, Ended

LEMMA ReportKeeps ==
  ASSUME NEW r, Report(r), phase # "exited", ReportInv, Tells(r, Mutated'), tree' \in BOOLEAN
  PROVE  ReportInv'
BY DEF Report, ReportInv

LEMMA DeliverKeeps == ReportInv /\ Deliver => ReportInv'
<1> SUFFICES ASSUME ReportInv, Deliver PROVE ReportInv' OBVIOUS
<1>1. /\ UNCHANGED <<artifactVars, tree>> /\ phase = "deliver"
      /\ Mutated' = Mutated /\ Mutated \in BOOLEAN
      /\ Tells(result, Mutated) /\ told = Silence
      /\ phase' = IF deliver' = "exit" THEN "exited" ELSE phase
  BY DEF Deliver, ReportInv, Mutated, Links, artifactVars, writer
<1>2. CASE Render
  BY <1>1, <1>2, FailureTells DEF Render, ReportInv
<1>3. CASE Write
  BY <1>1, <1>3 DEF Write, Text, Texts, ReportInv, Told
<1>4. CASE WriteFails
  <2>1. Tells(result', Mutated') /\ result'.status = "failed"
    BY <1>1, <1>4, FailureTells DEF WriteFails
  <2>2. ExitCode(result') # 0 BY <2>1 DEF Tells
  <2> QED BY <1>1, <1>4, <2>1, <2>2 DEF WriteFails, ReportInv, Told
<1>5. CASE Fallback
  <2>1. result.status = "failed" /\ ExitCode(result) # 0 /\ result' = result
    BY <1>1, <1>5 DEF Fallback, ReportInv, Tells
  <2> QED BY <1>1, <1>5, <2>1 DEF Fallback, Text, Texts, ReportInv, Told
<1> QED BY <1>2, <1>3, <1>4, <1>5 DEF Deliver, Delivering

LEMMA StepReport == SaveInv /\ ReportInv /\ [Next]_vars => ReportInv'
<1> SUFFICES ASSUME SaveInv, ReportInv, [Next]_vars PROVE ReportInv' OBVIOUS
<1>1. CASE UNCHANGED vars
  <2>1. Mutated' = Mutated BY <1>1 DEF vars, artifactVars, writer, Mutated, Links
  <2> QED BY <1>1, <2>1 DEF vars, artifactVars, writer, deliveryVars, ReportInv, Told
<1>2. CASE Start \/ Started \/ Query \/ Save \/ SaverIsKilled
  BY <1>2 DEF Start, Started, Query, Save, SaverIsKilled, artifactVars, writer, deliveryVars,
              ReportInv
<1>3. CASE QueryEnds
  <2>1. /\ phase = "query" /\ save = "idle" /\ ~tree /\ tree' = tree /\ tree \in BOOLEAN
        /\ UNCHANGED artifactVars
    BY <1>3 DEF QueryEnds, ReportInv
  <2>2. Mutated' = FALSE BY <2>1, NothingSaved DEF Mutated, Links, artifactVars, writer
  <2>3. CASE phase' \in {"save", "apply"} /\ UNCHANGED deliveryVars
    BY <2>1, <2>3 DEF deliveryVars, artifactVars, writer, ReportInv
  <2>4. Tells(Refused, Mutated') /\ Tells(Interrupted, Mutated') /\ Tells(Broken, Mutated')
    BY <2>2, ErrorTells, ZenonT(30) DEF Refused, Interrupted, Broken
  <2>5. Tells(Result("planned", FALSE, "none", Unset, FALSE), Mutated')
    BY <2>2, PlannedTells
  <2> QED BY <1>3, <2>1, <2>3, <2>4, <2>5, ReportKeeps DEF QueryEnds
<1>4. CASE SaveEnds
  <2>1. /\ phase = "save" /\ save = "over" /\ ~tree /\ tree' = tree /\ tree \in BOOLEAN
        /\ UNCHANGED artifactVars
    BY <1>4 DEF SaveEnds, ReportInv
  <2>2. saved \in {"saved", "refused", "interrupted"} => Mutated' = FALSE
    BY <2>1, NothingSaved DEF Mutated, Links, artifactVars, writer
  <2>3. saved = "saved" => Tells(Result("planned", FALSE, "none", Unset, FALSE), Mutated')
    BY <2>2, PlannedTells
  <2>4. saved \in {"refused", "interrupted"} => Tells(Refused, Mutated') /\ Tells(Interrupted, Mutated')
    BY <2>2, ErrorTells DEF Refused, Interrupted
  <2>5. ASSUME saved \in Changing PROVE Tells(ErrorResult("refused", saved, 2), Mutated')
    BY <2>5, ErrorTells DEF Mutated
  <2>6. saved \in {"saved", "refused", "interrupted"} \cup Changing
    BY <2>1 DEF SaveInv, Ended, Changing
  <2> QED
    BY <1>4, <2>1, <2>2, <2>3, <2>4, <2>5, <2>6, ReportKeeps DEF SaveEnds, Changing
<1>5. CASE Apply
  <2>1. /\ phase = "apply" /\ save = "idle" /\ UNCHANGED artifactVars
    BY <1>5 DEF Apply, ReportInv
  <2>2. ~(Links > 0 /\ saved # "saved") BY <2>1, NothingSaved
  <2>3. Mutated' <=> tree'
    BY <2>1, <2>2 DEF Mutated, Links, artifactVars, writer
  <2>4. PICK outcome \in {"unchanged", "restored"} \cup Changing :
          /\ tree' \in Left(outcome)
          /\ \/ \E code \in {2, 130, 70} : Report(ErrorResult("refused", outcome, code))
             \/ /\ outcome \in {"unchanged", "applied"}
                /\ Report(ErrorResult("refused", outcome, 2))
             \/ /\ outcome \in {"unchanged", "applied"}
                /\ \E errors \in BOOLEAN :
                     Report(Result(IF ~errors THEN "ok"
                                   ELSE IF outcome = "applied" THEN "refused" ELSE "issues",
                                   outcome = "applied", outcome, Unset, errors))
    BY <1>5 DEF Apply
  <2>5. tree' \in BOOLEAN /\ (tree' => outcome \in Changing)
    BY <2>4 DEF Left, Changing
  <2>6. \A code \in {2, 130, 70} : Tells(ErrorResult("refused", outcome, code), tree')
    BY <2>5, ErrorTells
  <2>7. ASSUME outcome \in {"unchanged", "applied"}, NEW errors \in BOOLEAN
        PROVE  Tells(Result(IF ~errors THEN "ok"
                            ELSE IF outcome = "applied" THEN "refused" ELSE "issues",
                            outcome = "applied", outcome, Unset, errors), tree')
    BY <2>5, <2>7, SuccessTells DEF Changing
  <2> QED BY <2>1, <2>3, <2>4, <2>5, <2>6, <2>7, ReportKeeps
<1>6. CASE Deliver BY <1>6, DeliverKeeps
<1> QED BY <1>1, <1>2, <1>3, <1>4, <1>5, <1>6 DEF Next

LEMMA InitReport == Init => ReportInv
BY DEF Init, ArtifactInit, DeliveryInit, ReportInv

\* However the output fails, and whatever was saved or applied, the exit
\* status tells a command that has left something from one that has not
\* (docs/contracts.md, "Exits").
THEOREM ExitStatusTells == Spec => []ExitTells
<1>1. Init => SaveInv /\ ReportInv BY InitSave, InitReport DEF Init
<1>2. ReportInv => ExitTells
  <2> SUFFICES ASSUME ReportInv, phase = "exited" PROVE ExitTells BY DEF ExitTells
  <2>1. Tells(result, Mutated) /\ Told(result) BY DEF ReportInv
  <2> QED BY <2>1 DEF Tells, Told, ExitTells, Changing
<1> QED BY <1>1, <1>2, StepSave, StepReport, PTL DEF Spec

\* The last text that reached a stream agrees with the exit status and never
\* calls what was left unchanged (docs/contracts.md).
THEOREM LastWordTells == Spec => []LastWordTruthful
<1>1. Init => SaveInv /\ ReportInv BY InitSave, InitReport DEF Init
<1>2. ReportInv => LastWordTruthful
  <2> SUFFICES ASSUME ReportInv, phase = "exited", told # Silence PROVE LastWordTruthful
    BY DEF LastWordTruthful
  <2>1. Tells(result, Mutated) /\ Told(result) BY DEF ReportInv
  <2> QED BY <2>1 DEF Tells, Told, LastWordTruthful, Changing
<1> QED BY <1>1, <1>2, StepSave, StepReport, PTL DEF Spec
=============================================================================
