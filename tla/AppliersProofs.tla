--------------------------- MODULE AppliersProofs ---------------------------
(***************************************************************************)
(* Two calls of apply_changes on the same destinations, for plans of any   *)
(* length and any set of failing phases.  The preimage of a change is one  *)
(* object: at each moment at most one of the destination and the private   *)
(* names of the two calls holds it, only the call that holds it can remove *)
(* it, and only the call that has removed it can report success.           *)
(***************************************************************************)
EXTENDS Appliers, TLAPS

P1 == INSTANCE OutcomeProofs WITH
  After <- FirstAfter, Foreign <- {}, Interruptible <- FALSE,
  stage <- stage1, backup <- backup1, rollback <- rollback1, phase <- phase1,
  step <- step1, index <- index1, seen <- seen1, threw <- threw1, raised <- raised1,
  residue <- residue1, changed <- changed1, outcome <- outcome1, base <- base1

P2 == INSTANCE OutcomeProofs WITH
  After <- SecondAfter, Foreign <- {}, Interruptible <- FALSE,
  stage <- stage2, backup <- backup2, rollback <- rollback2, phase <- phase2,
  step <- step2, index <- index2, seen <- seen2, threw <- threw2, raised <- raised2,
  residue <- residue2, changed <- changed2, outcome <- outcome2, base <- base2

---------------------------------------------------------------------------
(* The lemmas about one call hold of both.                                 *)

LEMMA FirstPlan ==
  /\ N \in Nat \ {0}
  /\ /\ Expected \in [P1!Change -> Objects \cup {Absent}]
     /\ FirstAfter \in [P1!Change -> Objects \cup {Absent}]
     /\ \A c \in P1!Change : Expected[c] # FirstAfter[c]
  /\ /\ Absent \notin Objects /\ Broken \notin Objects /\ Unknown \notin Objects
     /\ Absent # Broken /\ Absent # Unknown /\ Broken # Unknown
     /\ {} \subseteq Objects \cup {Absent}
     /\ Faults \subseteq P1!Phases
     /\ FALSE \in BOOLEAN
BY PlansAssumption, IdentitiesAssumption DEF P1!Change, P1!Phases

LEMMA SecondPlan ==
  /\ N \in Nat \ {0}
  /\ /\ Expected \in [P2!Change -> Objects \cup {Absent}]
     /\ SecondAfter \in [P2!Change -> Objects \cup {Absent}]
     /\ \A c \in P2!Change : Expected[c] # SecondAfter[c]
  /\ /\ Absent \notin Objects /\ Broken \notin Objects /\ Unknown \notin Objects
     /\ Absent # Broken /\ Absent # Unknown /\ Broken # Unknown
     /\ {} \subseteq Objects \cup {Absent}
     /\ Faults \subseteq P2!Phases
     /\ FALSE \in BOOLEAN
BY PlansAssumption, IdentitiesAssumption DEF P2!Change, P2!Phases

LEMMA FirstIs == First!Step <=> P1!Step
BY
DEF First!Change, P1!Change, First!Content, P1!Content, First!Phases, P1!Phases,
    First!Steps, P1!Steps, First!HasStage, P1!HasStage, First!files, P1!files,
    First!control, P1!control, First!local, P1!local, First!told, P1!told, First!vars,
    P1!vars, First!Failures, P1!Failures, First!Unless, P1!Unless, First!GoTo, P1!GoTo,
    First!EachChange, P1!EachChange, First!Return, P1!Return, First!RollBack, P1!RollBack,
    First!Named, P1!Named, First!Entry, P1!Entry, First!RemoveExpected, P1!RemoveExpected,
    First!Probe, P1!Probe, First!Stage, P1!Stage, First!AfterUnstaging, P1!AfterUnstaging,
    First!Unstage, P1!Unstage, First!Recheck, P1!Recheck, First!MoveAside, P1!MoveAside,
    First!Displace, P1!Displace, First!DisplaceTookEffect, P1!DisplaceTookEffect,
    First!Displaced, P1!Displaced, First!MoveIn, P1!MoveIn, First!Install, P1!Install,
    First!InstallTookEffect, P1!InstallTookEffect, First!Installed, P1!Installed,
    First!NextInstallation, P1!NextInstallation, First!Confirm, P1!Confirm, First!Verify,
    P1!Verify, First!NextRestoration, P1!NextRestoration, First!MustQuarantine,
    P1!MustQuarantine, First!Classify, P1!Classify, First!MoveOut, P1!MoveOut,
    First!Quarantine, P1!Quarantine, First!GiveUp, P1!GiveUp, First!Quarantined,
    P1!Quarantined, First!CanRestore, P1!CanRestore, First!MoveBack, P1!MoveBack,
    First!Restore, P1!Restore, First!Restored, P1!Restored, First!Settle, P1!Settle,
    First!Unquarantine, P1!Unquarantine, First!RestorationFails, P1!RestorationFails,
    First!Unnamed, P1!Unnamed, First!Sweep, P1!Sweep, First!NotPrior, P1!NotPrior,
    First!Remaining, P1!Remaining, First!Cleanup, P1!Cleanup, First!ReturnResidue,
    P1!ReturnResidue, First!Conclude, P1!Conclude, First!Close, P1!Close, First!Interrupt,
    P1!Interrupt, First!Step, P1!Step

LEMMA SecondIs == Second!Step <=> P2!Step
BY
DEF Second!Change, P2!Change, Second!Content, P2!Content, Second!Phases, P2!Phases,
    Second!Steps, P2!Steps, Second!HasStage, P2!HasStage, Second!files, P2!files,
    Second!control, P2!control, Second!local, P2!local, Second!told, P2!told, Second!vars,
    P2!vars, Second!Failures, P2!Failures, Second!Unless, P2!Unless, Second!GoTo, P2!GoTo,
    Second!EachChange, P2!EachChange, Second!Return, P2!Return, Second!RollBack,
    P2!RollBack, Second!Named, P2!Named, Second!Entry, P2!Entry, Second!RemoveExpected,
    P2!RemoveExpected, Second!Probe, P2!Probe, Second!Stage, P2!Stage,
    Second!AfterUnstaging, P2!AfterUnstaging, Second!Unstage, P2!Unstage, Second!Recheck,
    P2!Recheck, Second!MoveAside, P2!MoveAside, Second!Displace, P2!Displace,
    Second!DisplaceTookEffect, P2!DisplaceTookEffect, Second!Displaced, P2!Displaced,
    Second!MoveIn, P2!MoveIn, Second!Install, P2!Install, Second!InstallTookEffect,
    P2!InstallTookEffect, Second!Installed, P2!Installed, Second!NextInstallation,
    P2!NextInstallation, Second!Confirm, P2!Confirm, Second!Verify, P2!Verify,
    Second!NextRestoration, P2!NextRestoration, Second!MustQuarantine, P2!MustQuarantine,
    Second!Classify, P2!Classify, Second!MoveOut, P2!MoveOut, Second!Quarantine,
    P2!Quarantine, Second!GiveUp, P2!GiveUp, Second!Quarantined, P2!Quarantined,
    Second!CanRestore, P2!CanRestore, Second!MoveBack, P2!MoveBack, Second!Restore,
    P2!Restore, Second!Restored, P2!Restored, Second!Settle, P2!Settle, Second!Unquarantine,
    P2!Unquarantine, Second!RestorationFails, P2!RestorationFails, Second!Unnamed,
    P2!Unnamed, Second!Sweep, P2!Sweep, Second!NotPrior, P2!NotPrior, Second!Remaining,
    P2!Remaining, Second!Cleanup, P2!Cleanup, Second!ReturnResidue, P2!ReturnResidue,
    Second!Conclude, P2!Conclude, Second!Close, P2!Close, Second!Interrupt, P2!Interrupt,
    Second!Step, P2!Step

LEMMA SameChanges == P1!Change = Change /\ P2!Change = Change
BY DEF P1!Change, P2!Change, Change

\* An identity of a plan is neither torn nor missing, and a plan changes it.
LEMMA PreimageIs ==
  ASSUME NEW c \in Change
  PROVE  /\ Expected[c] # Broken /\ Expected[c] # FirstAfter[c] /\ Expected[c] # SecondAfter[c]
BY PlansAssumption, IdentitiesAssumption DEF Change

Private == P1!PrivateInv /\ P2!PrivateInv

LEMMA FirstKeepsPrivate ==
  ASSUME Private, FirstSteps
  PROVE  Private'
<1>1. P1!Step /\ UNCHANGED own2 BY FirstIs DEF FirstSteps
<1>2. P1!PrivateInv'
  <2>1. P1!Next BY <1>1 DEF P1!Next
  <2> QED BY <2>1, FirstPlan, P1!StepPrivate DEF Private
<1>3. P2!PrivateInv'
  <2>1. dest' \in [P2!Change -> P2!Content]
    BY <1>2 DEF P1!PrivateInv, P1!StagedInv, P1!TypeOK, P1!FilesTyped, P1!Change, P1!Content,
                P2!Change, P2!Content
  <2>2. UNCHANGED <<stage2, backup2, rollback2, P2!control, P2!local, raised2, P2!told, base2>>
    BY <1>1 DEF own2, P2!control, P2!local, P2!told
  <2> QED BY <2>1, <2>2, SecondPlan, P2!OthersLeavePrivate DEF Private
<1> QED BY <1>2, <1>3 DEF Private

LEMMA SecondKeepsPrivate ==
  ASSUME Private, SecondSteps
  PROVE  Private'
<1>1. P2!Step /\ UNCHANGED own1 BY SecondIs DEF SecondSteps
<1>2. P2!PrivateInv'
  <2>1. P2!Next BY <1>1 DEF P2!Next
  <2> QED BY <2>1, SecondPlan, P2!StepPrivate DEF Private
<1>3. P1!PrivateInv'
  <2>1. dest' \in [P1!Change -> P1!Content]
    BY <1>2 DEF P2!PrivateInv, P2!StagedInv, P2!TypeOK, P2!FilesTyped, P2!Change, P2!Content,
                P1!Change, P1!Content
  <2>2. UNCHANGED <<stage1, backup1, rollback1, P1!control, P1!local, raised1, P1!told, base1>>
    BY <1>1 DEF own1, P1!control, P1!local, P1!told
  <2> QED BY <2>1, <2>2, FirstPlan, P1!OthersLeavePrivate DEF Private
<1> QED BY <1>2, <1>3 DEF Private

LEMMA InitPrivate == Init => Private
<1> SUFFICES ASSUME Init PROVE Private OBVIOUS
<1>1. P1!Init BY DEF Init, First!Init, P1!Init, First!Change, P1!Change
<1>2. P2!Init BY DEF Init, Second!Init, P2!Init, Second!Change, P2!Change
<1> QED
  BY <1>1, <1>2, FirstPlan, SecondPlan, P1!InitPrivate, P2!InitPrivate DEF Private

LEMMA StutterKeepsPrivate == ASSUME Private, UNCHANGED vars PROVE Private'
<1>1. UNCHANGED P1!vars /\ UNCHANGED P2!vars
  BY DEF vars, own1, own2, P1!vars, P1!files, P1!control, P1!local, P1!told,
         P2!vars, P2!files, P2!control, P2!local, P2!told
<1> QED BY <1>1, FirstPlan, SecondPlan, P1!StepPrivate, P2!StepPrivate DEF Private

LEMMA PrivateStep == ASSUME Private, [Next]_vars PROVE Private'
BY FirstKeepsPrivate, SecondKeepsPrivate, StutterKeepsPrivate DEF Next, BothReturned

---------------------------------------------------------------------------
(* The preimage.                                                           *)

\* At most one name holds it.
Token(c) ==
  /\ dest[c] = Expected[c] =>
       Expected[c] \notin {backup1[c], rollback1[c], backup2[c], rollback2[c]}
  /\ backup1[c] = Expected[c] => Expected[c] \notin {rollback1[c], backup2[c], rollback2[c]}
  /\ rollback1[c] = Expected[c] => Expected[c] \notin {backup2[c], rollback2[c]}
  /\ backup2[c] = Expected[c] => rollback2[c] # Expected[c]

Nowhere(c) ==
  Expected[c] \notin {dest[c], backup1[c], rollback1[c], backup2[c], rollback2[c]}

\* The call that has won a change has removed the only one.
TokenInv(c) ==
  /\ Token(c)
  /\ P1!Won(c) \/ P2!Won(c) => Nowhere(c)
  /\ ~(P1!Won(c) /\ P2!Won(c))

LEMMA FirstKeepsToken ==
  ASSUME Private, FirstSteps, NEW c \in Change, Expected[c] # Absent, TokenInv(c)
  PROVE  TokenInv(c)'
<1> USE DEF TokenInv
<1>1. P1!Step /\ UNCHANGED own2 BY FirstIs DEF FirstSteps
<1>2. P2!Won(c)' <=> P2!Won(c) BY <1>1 DEF own2, P2!Won
<1>3. \/ P1!Leaves(c) \/ P1!SetsAside(c) \/ P1!PutsIn(c) \/ P1!TakesOut(c) \/ P1!PutsBack(c)
      \/ P1!DropsBackup(c) \/ P1!DropsRollback(c)
  BY <1>1, FirstPlan, SameChanges, P1!StepMoves DEF Private
<1>4. Token(c)' /\ (Nowhere(c) => Nowhere(c)')
  BY <1>1, <1>3, PreimageIs
  DEF own2, Token, Nowhere, P1!Leaves, P1!SetsAside, P1!PutsIn, P1!TakesOut, P1!PutsBack,
      P1!DropsBackup, P1!DropsRollback
<1>5. CASE P1!Won(c)' /\ ~P1!Won(c)
  <2>1. P1!DropsBackup(c) /\ backup1'[c] = Absent
    BY <1>1, <1>5, FirstPlan, SameChanges, P1!WinsByCleanup DEF Private
  <2>2. ~P2!Won(c) BY <2>1 DEF Nowhere, P1!DropsBackup
  <2>3. Nowhere(c)'
    BY <1>1, <2>1 DEF own2, Token, Nowhere, P1!DropsBackup
  <2> QED BY <1>2, <1>4, <2>2, <2>3
<1>6. CASE P1!Won(c)' => P1!Won(c) BY <1>2, <1>4, <1>6
<1> QED BY <1>5, <1>6

LEMMA SecondKeepsToken ==
  ASSUME Private, SecondSteps, NEW c \in Change, Expected[c] # Absent, TokenInv(c)
  PROVE  TokenInv(c)'
<1> USE DEF TokenInv
<1>1. P2!Step /\ UNCHANGED own1 BY SecondIs DEF SecondSteps
<1>2. P1!Won(c)' <=> P1!Won(c) BY <1>1 DEF own1, P1!Won
<1>3. \/ P2!Leaves(c) \/ P2!SetsAside(c) \/ P2!PutsIn(c) \/ P2!TakesOut(c) \/ P2!PutsBack(c)
      \/ P2!DropsBackup(c) \/ P2!DropsRollback(c)
  BY <1>1, SecondPlan, SameChanges, P2!StepMoves DEF Private
<1>4. Token(c)' /\ (Nowhere(c) => Nowhere(c)')
  BY <1>1, <1>3, PreimageIs
  DEF own1, Token, Nowhere, P2!Leaves, P2!SetsAside, P2!PutsIn, P2!TakesOut, P2!PutsBack,
      P2!DropsBackup, P2!DropsRollback
<1>5. CASE P2!Won(c)' /\ ~P2!Won(c)
  <2>1. P2!DropsBackup(c) /\ backup2'[c] = Absent
    BY <1>1, <1>5, SecondPlan, SameChanges, P2!WinsByCleanup DEF Private
  <2>2. ~P1!Won(c) BY <2>1 DEF Nowhere, P2!DropsBackup
  <2>3. Nowhere(c)'
    BY <1>1, <2>1 DEF own1, Token, Nowhere, P2!DropsBackup
  <2> QED BY <1>2, <1>4, <2>2, <2>3
<1>6. CASE P2!Won(c)' => P2!Won(c) BY <1>2, <1>4, <1>6
<1> QED BY <1>5, <1>6

Replaced(c) == Expected[c] # Absent

TokensInv == Private /\ \A c \in Change : Replaced(c) => TokenInv(c)

LEMMA InitTokens == Init => TokensInv
<1> SUFFICES ASSUME Init, NEW c \in Change, Replaced(c) PROVE TokenInv(c)
  BY InitPrivate DEF TokensInv
<1> QED
  BY SameChanges
  DEF Init, First!Init, Second!Init, First!Change, Second!Change, Change, Replaced, TokenInv, Token,
      Nowhere, P1!Won, P2!Won

LEMMA StepTokens == ASSUME TokensInv, [Next]_vars PROVE TokensInv'
<1>1. Private' BY PrivateStep DEF TokensInv
<1>2. ASSUME NEW c \in Change, Replaced(c) PROVE TokenInv(c)'
  <2>1. CASE FirstSteps BY <1>2, <2>1, FirstKeepsToken DEF TokensInv, Replaced
  <2>2. CASE SecondSteps BY <1>2, <2>2, SecondKeepsToken DEF TokensInv, Replaced
  <2>3. CASE UNCHANGED vars
    BY <1>2, <2>3 DEF TokensInv, vars, own1, own2, TokenInv, Token, Nowhere, P1!Won, P2!Won
  <2> QED BY <2>1, <2>2, <2>3 DEF Next, BothReturned
<1> QED BY <1>1, <1>2 DEF TokensInv, Replaced

\* A call that exits with 0 raised nothing.
LEMMA AppliedWins ==
  ASSUME NEW c
  PROVE  (Applied1 => P1!Won(c)) /\ (Applied2 => P2!Won(c))
BY DEF Applied1, Applied2, Done, First!ExitCode, Second!ExitCode, P1!Won, P2!Won

\* Of two calls made from the same preimages at most one reports success if the
\* plans update or delete one file, be they different or the same: to commit is
\* to remove that file's only preimage (transaction.py:463-532).
THEOREM OnlyOneApplies ==
  ASSUME \E c \in Change : Replaced(c)
  PROVE  Spec => [](OneWinner /\ ~(Applied1 /\ Applied2))
<1>1. TokensInv => OneWinner /\ ~(Applied1 /\ Applied2)
  BY AppliedWins DEF TokensInv, TokenInv, OneWinner
<1>2. TokensInv /\ [Next]_vars => TokensInv' BY StepTokens
<1> QED BY InitTokens, <1>1, <1>2, PTL DEF Spec

---------------------------------------------------------------------------
(* The winner's objects.                                                   *)

\* Before a call installs its object it can only find the other's in the way;
\* once the other owns the change, its object is in place or preserved, and in
\* place where a rollback has decided to remove what it took out.
KeptInv(c) ==
  /\ P1!NotInstalled(c) => {dest[c], backup1[c]} \subseteq {Absent, Expected[c], SecondAfter[c]}
  /\ P2!NotInstalled(c) => {dest[c], backup2[c]} \subseteq {Absent, Expected[c], FirstAfter[c]}
  /\ P1!Owns(c) => P2!KeptHere(FirstAfter[c], c) /\ (P2!Decided(c) => dest[c] = FirstAfter[c])
  /\ P2!Owns(c) => P1!KeptHere(SecondAfter[c], c) /\ (P1!Decided(c) => dest[c] = SecondAfter[c])

LEMMA FirstKeepsKept ==
  ASSUME Private, FirstSteps, NEW c \in Change, Expected[c] # Absent, TokenInv(c), KeptInv(c)
  PROVE  KeptInv(c)'
<1> USE DEF KeptInv
<1>1. P1!Step /\ UNCHANGED own2 BY FirstIs DEF FirstSteps
<1>2. /\ P2!NotInstalled(c)' <=> P2!NotInstalled(c)
      /\ P2!Owns(c)' <=> P2!Owns(c)
      /\ P2!Decided(c)' <=> P2!Decided(c)
      /\ UNCHANGED <<backup2, rollback2>>
  BY <1>1 DEF own2, P2!NotInstalled, P2!NotDisplaced, P2!Owns, P2!Committed, P2!Passed,
              P2!Won, P2!Decided
<1>3. P1!NotInstalled(c)' =>
        {dest'[c], backup1'[c]} \subseteq {Absent, Expected[c], SecondAfter[c]}
  BY <1>1, FirstPlan, SameChanges, P1!InstalledForGood DEF Private, P1!Leaves, P1!SetsAside
<1>4. P2!NotInstalled(c)' =>
        {dest'[c], backup2'[c]} \subseteq {Absent, Expected[c], FirstAfter[c]}
  <2>1. dest'[c] \in {dest[c], Absent, Expected[c], FirstAfter[c]}
    BY <1>1, FirstPlan, SameChanges, P1!StepLeaves DEF Private
  <2> QED BY <1>2, <2>1
<1>5. ASSUME P1!Owns(c)'
      PROVE  P2!KeptHere(FirstAfter[c], c)' /\ (P2!Decided(c)' => dest'[c] = FirstAfter[c])
  <2>1. (P1!Owns(c) \/ dest[c] = FirstAfter[c]) /\ dest'[c] = dest[c]
    BY <1>1, <1>5, FirstPlan, SameChanges, P1!OwnsByConfirm DEF Private
  <2> QED BY <1>2, <2>1 DEF P2!KeptHere
<1>6. ASSUME P2!Owns(c)'
      PROVE  P1!KeptHere(SecondAfter[c], c)' /\ (P1!Decided(c)' => dest'[c] = SecondAfter[c])
  <2>1. Expected[c] \notin {dest[c], backup1[c], rollback1[c]}
    BY <1>2, <1>6 DEF P2!Owns, TokenInv, Token, Nowhere
  <2>2. P1!KeptHere(SecondAfter[c], c)'
    BY <1>1, <1>2, <1>6, <2>1, FirstPlan, SameChanges, P1!KeepsTheirs DEF Private
  <2>3. ASSUME P1!Decided(c)' PROVE dest'[c] = SecondAfter[c]
    <3>1. P1!Decided(c)
      BY <1>1, <2>1, <2>3, FirstPlan, SameChanges, P1!DecidesBySight DEF Private
    <3>2. dest'[c] = dest[c]
      BY <1>1, <2>1, <3>1, FirstPlan, SameChanges, P1!StepMoves
      DEF Private, P1!Decided, P1!Leaves, P1!SetsAside, P1!PutsIn, P1!TakesOut, P1!PutsBack,
          P1!DropsBackup, P1!DropsRollback
    <3> QED BY <1>2, <1>6, <3>1, <3>2
  <2> QED BY <2>2, <2>3
<1> QED BY <1>3, <1>4, <1>5, <1>6

LEMMA SecondKeepsKept ==
  ASSUME Private, SecondSteps, NEW c \in Change, Expected[c] # Absent, TokenInv(c), KeptInv(c)
  PROVE  KeptInv(c)'
<1> USE DEF KeptInv
<1>1. P2!Step /\ UNCHANGED own1 BY SecondIs DEF SecondSteps
<1>2. /\ P1!NotInstalled(c)' <=> P1!NotInstalled(c)
      /\ P1!Owns(c)' <=> P1!Owns(c)
      /\ P1!Decided(c)' <=> P1!Decided(c)
      /\ UNCHANGED <<backup1, rollback1>>
  BY <1>1 DEF own1, P1!NotInstalled, P1!NotDisplaced, P1!Owns, P1!Committed, P1!Passed,
              P1!Won, P1!Decided
<1>3. P2!NotInstalled(c)' =>
        {dest'[c], backup2'[c]} \subseteq {Absent, Expected[c], FirstAfter[c]}
  BY <1>1, SecondPlan, SameChanges, P2!InstalledForGood DEF Private, P2!Leaves, P2!SetsAside
<1>4. P1!NotInstalled(c)' =>
        {dest'[c], backup1'[c]} \subseteq {Absent, Expected[c], SecondAfter[c]}
  <2>1. dest'[c] \in {dest[c], Absent, Expected[c], SecondAfter[c]}
    BY <1>1, SecondPlan, SameChanges, P2!StepLeaves DEF Private
  <2> QED BY <1>2, <2>1
<1>5. ASSUME P2!Owns(c)'
      PROVE  P1!KeptHere(SecondAfter[c], c)' /\ (P1!Decided(c)' => dest'[c] = SecondAfter[c])
  <2>1. (P2!Owns(c) \/ dest[c] = SecondAfter[c]) /\ dest'[c] = dest[c]
    BY <1>1, <1>5, SecondPlan, SameChanges, P2!OwnsByConfirm DEF Private
  <2> QED BY <1>2, <2>1 DEF P1!KeptHere
<1>6. ASSUME P1!Owns(c)'
      PROVE  P2!KeptHere(FirstAfter[c], c)' /\ (P2!Decided(c)' => dest'[c] = FirstAfter[c])
  <2>1. Expected[c] \notin {dest[c], backup2[c], rollback2[c]}
    BY <1>2, <1>6 DEF P1!Owns, TokenInv, Token, Nowhere
  <2>2. P2!KeptHere(FirstAfter[c], c)'
    BY <1>1, <1>2, <1>6, <2>1, SecondPlan, SameChanges, P2!KeepsTheirs DEF Private
  <2>3. ASSUME P2!Decided(c)' PROVE dest'[c] = FirstAfter[c]
    <3>1. P2!Decided(c)
      BY <1>1, <2>1, <2>3, SecondPlan, SameChanges, P2!DecidesBySight DEF Private
    <3>2. dest'[c] = dest[c]
      BY <1>1, <2>1, <3>1, SecondPlan, SameChanges, P2!StepMoves
      DEF Private, P2!Decided, P2!Leaves, P2!SetsAside, P2!PutsIn, P2!TakesOut, P2!PutsBack,
          P2!DropsBackup, P2!DropsRollback
    <3> QED BY <1>2, <1>6, <3>1, <3>2
  <2> QED BY <2>2, <2>3
<1> QED BY <1>3, <1>4, <1>5, <1>6

AppliersInv == TokensInv /\ \A c \in Change : Replaced(c) => KeptInv(c)

LEMMA InitKept == Init => AppliersInv
<1> SUFFICES ASSUME Init, NEW c \in Change, Replaced(c) PROVE KeptInv(c)
  BY InitTokens DEF AppliersInv
<1> QED
  BY DEF Init, First!Init, Second!Init, First!Change, Second!Change, Change, KeptInv,
         P1!Owns, P1!Committed, P1!Passed, P2!Owns, P2!Committed, P2!Passed

LEMMA StepKept == ASSUME AppliersInv, [Next]_vars PROVE AppliersInv'
<1>1. TokensInv' BY StepTokens DEF AppliersInv
<1>2. ASSUME NEW c \in Change, Replaced(c) PROVE KeptInv(c)'
  <2>1. Private /\ TokenInv(c) /\ KeptInv(c) /\ Expected[c] # Absent
    BY <1>2 DEF AppliersInv, TokensInv, Replaced
  <2>2. CASE FirstSteps BY <2>1, <2>2, FirstKeepsKept
  <2>3. CASE SecondSteps BY <2>1, <2>3, SecondKeepsKept
  <2>4. CASE UNCHANGED vars
    BY <2>1, <2>4
    DEF vars, own1, own2, KeptInv, P1!NotInstalled, P1!NotDisplaced, P1!Owns, P1!Committed, P1!Passed,
        P1!Won, P1!Decided, P1!KeptHere, P2!NotInstalled, P2!NotDisplaced, P2!Owns, P2!Committed,
        P2!Passed, P2!Won, P2!Decided, P2!KeptHere
  <2> QED BY <2>2, <2>3, <2>4 DEF Next, BothReturned
<1> QED BY <1>1, <1>2 DEF AppliersInv, Replaced

\* What is left at a private name of a call that has returned is in its residue.
LEMMA ReturnedReports ==
  ASSUME Private, Done, NEW c \in Change
  PROVE  /\ backup1[c] # Absent => First!Reported("backup", c)
         /\ rollback1[c] # Absent => First!Reported("rollback", c)
         /\ backup2[c] # Absent => Second!Reported("backup", c)
         /\ rollback2[c] # Absent => Second!Reported("rollback", c)
BY SameChanges
DEF Private, Done, P1!PrivateInv, P1!ResidueInv, P1!AllAccounted, P1!Accounted, P1!Reported,
    P2!PrivateInv, P2!ResidueInv, P2!AllAccounted, P2!Accounted, P2!Reported, First!Reported,
    Second!Reported

\* Where the plans update and delete, what a call has reported applied is still
\* there once the other call has returned: in place, or at a private name that
\* the other reports (transaction.py:254-332, docs/threat-model.md:19-20).
THEOREM WinnersAreKept ==
  ASSUME \A c \in Change : Replaced(c)
  PROVE  Spec => []WinnerKept
<1>1. AppliersInv => WinnerKept
  <2> SUFFICES ASSUME AppliersInv PROVE WinnerKept OBVIOUS
  <2> USE DEF AppliersInv, TokensInv, KeptInv
  <2>1. ASSUME Applied1, NEW c \in Change
        PROVE  \/ FirstAfter[c] = dest[c]
               \/ FirstAfter[c] = backup2[c] /\ Second!Reported("backup", c)
               \/ FirstAfter[c] = rollback2[c] /\ Second!Reported("rollback", c)
    <3>1. P1!Owns(c) BY <2>1, AppliedWins DEF P1!Owns, P1!Committed, P1!Won
    <3> QED BY <2>1, <3>1, ReturnedReports DEF P2!KeptHere, Applied1
  <2>2. ASSUME Applied2, NEW c \in Change
        PROVE  \/ SecondAfter[c] = dest[c]
               \/ SecondAfter[c] = backup1[c] /\ First!Reported("backup", c)
               \/ SecondAfter[c] = rollback1[c] /\ First!Reported("rollback", c)
    <3>1. P2!Owns(c) BY <2>2, AppliedWins DEF P2!Owns, P2!Committed, P2!Won
    <3> QED BY <2>2, <3>1, ReturnedReports DEF P1!KeptHere, Applied2
  <2> QED BY <2>1, <2>2 DEF WinnerKept
<1>2. AppliersInv /\ [Next]_vars => AppliersInv' BY StepKept
<1> QED BY InitKept, <1>1, <1>2, PTL DEF Spec

=============================================================================
