-------------------------- MODULE PromptLedgerProofs --------------------------
(***************************************************************************)
(* Proofs about PromptLedger for every number of prompts, runs, owners and *)
(* epochs.                                                                 *)
(***************************************************************************)
EXTENDS PromptLedger, FiniteSetTheorems, TLAPS

-----------------------------------------------------------------------------
(* The values the helpers return.                                           *)

\* The next rowid is a number: only finitely many prompts exist.
LEMMA NextRowidType == NextRowid \in Nat \ {0}
<1>1. IsFiniteSet(Existing)
  BY FS_Subset, PromptLedgerAssumption DEF PromptLedgerAssumption, Existing
<1>2. Cardinality(Existing) \in Nat
  BY <1>1, FS_CardinalityType
<1>. QED
  BY <1>2 DEF NextRowid

\* An UPDATE of the state column alone leaves a row.
LEMMA MovedType ==
  ASSUME TypeOK, NEW m \in Existing, NEW s \in RowStates
  PROVE  Moved(m, s) \in [Messages -> Rows]
<1>1. row[m] \in Rows \ {NoRow} /\ row \in [Messages -> Rows]
  BY DEF TypeOK, Existing, NoRow
<1>2. [row[m] EXCEPT !.state = s] \in Rows
  BY <1>1 DEF Rows
<1>3. Moved(m, s) = [row EXCEPT ![m] = [row[m] EXCEPT !.state = s]]
  BY DEF Moved
<1>. QED
  BY <1>1, <1>2, <1>3

\* A row freed of its owner is a row.
LEMMA FreedRowType ==
  ASSUME TypeOK, NEW m \in Existing, NEW s \in RowStates
  PROVE  FreedRow(m, s) \in Rows
<1>1. row[m] \in Rows \ {NoRow}
  BY DEF TypeOK, Existing, NoRow
<1>. QED
  BY <1>1 DEF FreedRow, Rows

\* A row taken by an owner is a row.
LEMMA TakenRowType ==
  ASSUME TypeOK, NEW m \in Existing, NEW s \in RowStates,
         NEW c \in Coordinators, NEW via \in {"none", "turn", "steer"}
  PROVE  TakenRow(m, s, c, via) \in Rows
<1>1. row[m] \in Rows \ {NoRow} /\ belief[c] \in Epochs
  BY DEF TypeOK, Existing, NoRow
<1>. QED
  BY <1>1 DEF TakenRow, Rows

\* Closing turns keeps the turns, permissions and steer targets well typed.
LEMMA ClosedTypes ==
  ASSUME TypeOK, NEW T, NEW phase \in TerminalPhases
  PROVE  /\ TurnsClosed(T, phase) \in [Messages -> Turns]
         /\ PermissionsOfClosed(T) \in [Runs -> Permissions]
         /\ SteersOfClosed(T) \in [Messages -> SteerTargets]
<1>1. ASSUME NEW m \in Messages
      PROVE  FinalPhase(m, phase) \in TerminalPhases
  BY DEF TypeOK, FinalPhase, Turns, TerminalPhases
<1>2. TurnsClosed(T, phase) \in [Messages -> Turns]
  BY <1>1 DEF TypeOK, TurnsClosed, Turns
<1>3. PermissionsOfClosed(T) \in [Runs -> Permissions]
  BY DEF TypeOK, PermissionsOfClosed, Permissions
<1>4. ASSUME NEW m \in Messages, steer[m].state = "requested"
      PROVE  [steer[m] EXCEPT !.state = "rejected"] \in SteerTargets
  BY <1>4 DEF TypeOK, SteerTargets, NoSteer
<1>5. SteersOfClosed(T) \in [Messages -> SteerTargets]
  BY <1>4 DEF TypeOK, SteersOfClosed
<1>. QED
  BY <1>2, <1>3, <1>5

\* An expired target is a target.
LEMMA ExpiredType ==
  ASSUME NEW target \in SteerTargets
  PROVE  Expired(target) \in SteerTargets
BY DEF Expired, SteerTargets, NoSteer

\* Expiring the requests of unprovable rows keeps the targets well typed.
LEMMA UnprovableExpiredType ==
  ASSUME NEW R, NEW S \in [Messages -> SteerTargets]
  PROVE  UnprovableExpired(R, S) \in [Messages -> SteerTargets]
<1>1. ASSUME NEW m \in Messages, S[m].state = "claimed"
      PROVE  [S[m] EXCEPT !.state = "rejected"] \in SteerTargets
  BY <1>1 DEF SteerTargets, NoSteer
<1>. QED
  BY <1>1 DEF UnprovableExpired

-----------------------------------------------------------------------------
(* Type correctness, one lemma for each group of actions.                   *)

\* Saving prompts, admitting them and installing their provider.
LEMMA AdmissionTypes ==
  ASSUME TypeOK, NEW c \in Coordinators, NEW m \in Messages
  PROVE  /\ \A r \in Runs, k \in Kinds : SavePrompt(c, m, r, k) => TypeOK'
         /\ \A t \in Messages : SavePromptForTurn(c, m, t) => TypeOK'
         /\ \A t \in Messages : RequestSteer(c, m, t) => TypeOK'
         /\ RequestLegacySteer(c, m) => TypeOK'
         /\ CancelQueued(c, m) => TypeOK'
         /\ ReleaseReady(c, m) => TypeOK'
         /\ \A phase \in Outcomes : FailReadiness(c, m, phase) => TypeOK'
         /\ ReserveInstall(c, m) => TypeOK'
<1>1. ASSUME NEW r \in Runs, NEW k \in {"send", "queue"}, Insert(m, r, k),
             steer' \in [Messages -> SteerTargets]
      PROVE  TypeOK'
  <2>1. [NoRow EXCEPT !.state = "awaiting", !.run = r,
                      !.kind = k, !.rowid = NextRowid] \in Rows
    BY NextRowidType DEF NoRow, Rows, RowStates, Held
  <2>2. row' \in [Messages -> Rows]
    BY <1>1, <2>1 DEF Insert, TypeOK
  <2>3. [phase |-> "active", terminal |-> "none"] \in Turns
    BY DEF Turns
  <2>4. turn' \in [Messages -> Turns]
    BY <1>1, <2>3 DEF Insert, TypeOK
  <2>. QED
    BY <1>1, <2>2, <2>4 DEF Insert, TypeOK
<1>2. ASSUME NEW r \in Runs, NEW k \in Kinds, SavePrompt(c, m, r, k)
      PROVE  TypeOK'
  BY <1>1, <1>2, PromptLedgerAssumption DEF SavePrompt, TypeOK, PromptLedgerAssumption
<1>3. ASSUME NEW t \in Messages
      PROVE  [steer EXCEPT ![m] = [state |-> "requested", turn |-> t]]
                \in [Messages -> SteerTargets]
  BY DEF TypeOK, SteerTargets
<1>4. ASSUME NEW t \in Messages, SavePromptForTurn(c, m, t)
      PROVE  TypeOK'
  <2>1. row[t].run \in Runs
    BY <1>4 DEF SavePromptForTurn, Live, OnCurrentRun
  <2>. QED
    BY <1>1, <1>3, <1>4, <2>1 DEF SavePromptForTurn
<1>5. ASSUME NEW t \in Messages, RequestSteer(c, m, t)
      PROVE  TypeOK'
  BY <1>3, <1>5 DEF RequestSteer, TypeOK
<1>6. ASSUME RequestLegacySteer(c, m)
      PROVE  TypeOK'
  BY <1>6 DEF RequestLegacySteer, TypeOK
<1>7. ASSUME CancelQueued(c, m)
      PROVE  TypeOK'
  <2>1. FreedRow(m, "settled") \in Rows
    BY <1>7, FreedRowType DEF CancelQueued, Queued, Existing, RowStates, Finished
  <2>2. SettleTurn(m, "cancelled")
    BY <1>7 DEF CancelQueued
  <2>. QED
    BY <1>7, <2>1, <2>2, ClosedTypes DEF CancelQueued, SettleTurn, TerminalPhases, TypeOK
<1>8. ASSUME ReleaseReady(c, m)
      PROVE  TypeOK'
  BY <1>8, MovedType DEF ReleaseReady, Existing, RowStates, Held, TypeOK
<1>9. ASSUME NEW phase \in Outcomes, FailReadiness(c, m, phase)
      PROVE  TypeOK'
  <2>1. phase \in TerminalPhases
    BY PromptLedgerAssumption DEF PromptLedgerAssumption, TerminalPhases
  <2>2. Moved(m, "settled") \in [Messages -> Rows]
    BY <1>9, MovedType DEF FailReadiness, Existing, RowStates, Finished
  <2>. QED
    BY <1>9, <2>1, <2>2, ClosedTypes DEF FailReadiness, SettleTurn, TypeOK
<1>10. ASSUME ReserveInstall(c, m)
       PROVE  TypeOK'
  <2>1. Moved(m, "provisioning") \in [Messages -> Rows]
    BY <1>10, MovedType DEF ReserveInstall, InstallOwns, Existing, RowStates, Held
  <2>2. [status |-> "accepted", epoch |-> belief[c]] \in Installs
    BY DEF TypeOK, Installs
  <2>. QED
    BY <1>10, <2>1, <2>2 DEF ReserveInstall, TypeOK
<1>. QED
  BY <1>2, <1>4, <1>5, <1>6, <1>7, <1>8, <1>9, <1>10

\* The outcome of an install.
LEMMA InstallerTypes ==
  ASSUME TypeOK, NEW m \in Messages
  PROVE  /\ SettleInstall(m) => TypeOK'
         /\ RejectInstallBeforeEffect(m) => TypeOK'
         /\ SettleInstallUnprovable(m) => TypeOK'
<1>1. ASSUME NEW status \in {"settled", "rejected", "unprovable"},
             NEW state \in Held, InstallEnds(m, status, state)
      PROVE  TypeOK'
  <2>1. Moved(m, state) \in [Messages -> Rows]
    BY <1>1, MovedType DEF InstallEnds, InstallOwns, Existing, RowStates
  <2>2. install[m] \in Installs /\ install[m].status = "accepted"
    BY <1>1 DEF InstallEnds, TypeOK
  <2>3. [install[m] EXCEPT !.status = status] \in Installs
    BY <2>2 DEF Installs, NoInstall
  <2>4. install' = [install EXCEPT ![m] = [install[m] EXCEPT !.status = status]]
    BY <1>1 DEF InstallEnds
  <2>. QED
    BY <1>1, <2>1, <2>3, <2>4 DEF InstallEnds, TypeOK
<1>. QED
  BY <1>1 DEF SettleInstall, RejectInstallBeforeEffect, SettleInstallUnprovable, Held

\* Claiming, launching and ending an ordinary turn.
LEMMA DispatchTypes ==
  ASSUME TypeOK, NEW c \in Coordinators
  PROVE  /\ \A p \in Providers, X \in SUBSET Runs : Claim(c, p, X) => TypeOK'
         /\ \A p \in Providers, X \in SUBSET Runs : ClaimNothing(c, p, X) => TypeOK'
         /\ \A m \in Messages :
              /\ BeginLaunch(c, m) => TypeOK'
              /\ ReleaseClaim(c, m) => TypeOK'
              /\ ConfirmStarted(c, m) => TypeOK'
              /\ ReleaseUnstartedLaunch(c, m) => TypeOK'
              /\ FailPrelaunch(c, m) => TypeOK'
              /\ MarkUnprovable(c, m) => TypeOK'
              /\ \A phase \in Outcomes : SettleTerminal(c, m, phase) => TypeOK'
<1>1. /\ {"pending", "claimed", "launching", "started", "settled", "unprovable"}
            \subseteq RowStates
      /\ {"failed", "cancelled"} \cup Outcomes \subseteq TerminalPhases
  BY PromptLedgerAssumption
  DEF PromptLedgerAssumption, RowStates, Held, Owned, Finished, TerminalPhases
<1>2. ASSUME NEW p \in Providers, NEW X \in SUBSET Runs, Claim(c, p, X)
      PROVE  TypeOK'
  <2>1. PICK m \in Existing, ended \in SUBSET Existing : ClaimPrompt(c, m, ended)
    BY <1>2 DEF Claim, Claimable, InactiveBefore
  <2>2. \A n \in Existing : FreedRow(n, "settled") \in Rows
                            /\ TakenRow(n, "claimed", c, "turn") \in Rows
    BY <1>1, FreedRowType, TakenRowType
  <2>3. row' \in [Messages -> Rows]
    BY <2>1, <2>2 DEF ClaimPrompt, TypeOK
  <2>4. released' \subseteq Messages
    BY <2>1 DEF ClaimPrompt, Existing, TypeOK
  <2>. QED
    BY <1>1, <1>2, <2>1, <2>3, <2>4, ClosedTypes DEF Claim, ClaimPrompt, TypeOK
<1>3. ASSUME NEW p \in Providers, NEW X \in SUBSET Runs, ClaimNothing(c, p, X)
      PROVE  TypeOK'
  <2>1. \A n \in Existing : FreedRow(n, "settled") \in Rows
    BY <1>1, FreedRowType
  <2>2. row' \in [Messages -> Rows]
    BY <1>3, <2>1 DEF ClaimNothing, Claimable, TypeOK
  <2>. QED
    BY <1>1, <1>3, <2>2, ClosedTypes DEF ClaimNothing, TypeOK
<1>4. ASSUME NEW m \in Messages, NEW from, NEW rows \in [Messages -> Rows],
             Transition(c, m, from, rows), steer' \in [Messages -> SteerTargets]
      PROVE  TypeOK'
  BY <1>4 DEF Transition, TypeOK
<1>5. ASSUME NEW m \in Existing, NEW s \in RowStates
      PROVE  /\ Moved(m, s) \in [Messages -> Rows]
             /\ Freed(m, s) \in [Messages -> Rows]
  BY MovedType, FreedRowType DEF Freed, TypeOK
<1>6. steer \in [Messages -> SteerTargets]
  BY DEF TypeOK
<1>7. ASSUME NEW m \in Messages, ReleaseUnstartedLaunch(c, m)
      PROVE  TypeOK'
  <2>1. steer' \in [Messages -> SteerTargets]
    BY <1>6, <1>7, ExpiredType DEF ReleaseUnstartedLaunch
  <2>. QED
    BY <1>1, <1>4, <1>5, <1>7, <2>1 DEF ReleaseUnstartedLaunch, Transition, Existing
<1>8. ASSUME NEW m \in Messages, FailPrelaunch(c, m)
      PROVE  TypeOK'
  BY <1>1, <1>5, <1>8, ClosedTypes DEF FailPrelaunch, SettleTurn, Existing, TypeOK
<1>9. ASSUME NEW m \in Messages, MarkUnprovable(c, m)
      PROVE  TypeOK'
  <2>1. steer' \in [Messages -> SteerTargets]
    BY <1>1, <1>9, ClosedTypes, UnprovableExpiredType DEF MarkUnprovable
  <2>. QED
    BY <1>1, <1>5, <1>9, <2>1, ClosedTypes DEF MarkUnprovable, Existing, TypeOK
<1>10. ASSUME NEW m \in Messages, NEW phase \in Outcomes, SettleTerminal(c, m, phase)
       PROVE  TypeOK'
  BY <1>1, <1>5, <1>10, ClosedTypes DEF SettleTerminal, Bound, SettleTurn, Existing, TypeOK
<1>11. ASSUME NEW m \in Messages
       PROVE  /\ BeginLaunch(c, m) => TypeOK'
              /\ ReleaseClaim(c, m) => TypeOK'
              /\ ConfirmStarted(c, m) => TypeOK'
  BY <1>1, <1>4, <1>5, <1>6
  DEF BeginLaunch, ReleaseClaim, ConfirmStarted, Transition, Existing
<1>. QED
  BY <1>2, <1>3, <1>7, <1>8, <1>9, <1>10, <1>11

\* Steering into a running turn.
LEMMA SteeringTypes ==
  ASSUME TypeOK, NEW c \in Coordinators, NEW m \in Messages, NEW t \in Messages
  PROVE  /\ ClaimSteered(c, m, t) => TypeOK'
         /\ ExpireSteer(c, m, t) => TypeOK'
         /\ DeliverSteered(c, m, t) => TypeOK'
         /\ StartSteeredTurn(c, m) => TypeOK'
<1>1. steer \in [Messages -> SteerTargets] /\ turn[m] \in Turns /\ row[m] \in Rows
  BY DEF TypeOK
<1>2. ASSUME steer[m].state \in {"requested", "claimed"},
             NEW s \in {"claimed", "delivered"}
      PROVE  [steer EXCEPT ![m].state = s] \in [Messages -> SteerTargets]
  <2>1. [steer[m] EXCEPT !.state = s] \in SteerTargets
    BY <1>1, <1>2 DEF SteerTargets, NoSteer
  <2>2. [steer EXCEPT ![m].state = s] = [steer EXCEPT ![m] = [steer[m] EXCEPT !.state = s]]
    OBVIOUS
  <2>. QED
    BY <1>1, <2>1, <2>2
<1>3. ASSUME ClaimSteered(c, m, t)
      PROVE  TypeOK'
  <2>1. TakenRow(m, "launching", c, "steer") \in Rows
    BY <1>3, TakenRowType DEF ClaimSteered, Existing, RowStates, Owned
  <2>2. row' \in [Messages -> Rows]
    BY <1>3, <2>1 DEF ClaimSteered, TypeOK
  <2>3. steer' \in [Messages -> SteerTargets]
    BY <1>1, <1>2, <1>3 DEF ClaimSteered
  <2>. QED
    BY <1>3, <2>2, <2>3 DEF ClaimSteered, TypeOK
<1>4. ASSUME ExpireSteer(c, m, t)
      PROVE  TypeOK'
  <2>1. steer' \in [Messages -> SteerTargets]
    BY <1>1, <1>4, ExpiredType DEF ExpireSteer
  <2>. QED
    BY <1>4, <2>1 DEF ExpireSteer, TypeOK
<1>5. ASSUME DeliverSteered(c, m, t)
      PROVE  TypeOK'
  <2>1. Moved(m, "settled") \in [Messages -> Rows]
    BY <1>5, MovedType DEF DeliverSteered, Existing, RowStates, Finished
  <2>2. [turn[m] EXCEPT !.phase = "completed"] \in Turns
    BY <1>1 DEF Turns, TerminalPhases
  <2>3. turn' = [turn EXCEPT ![m] = [turn[m] EXCEPT !.phase = "completed"]]
    BY <1>5 DEF DeliverSteered
  <2>4. steer' \in [Messages -> SteerTargets]
    BY <1>1, <1>2, <1>5 DEF DeliverSteered
  <2>. QED
    BY <1>5, <2>1, <2>2, <2>3, <2>4 DEF DeliverSteered, TypeOK
<1>6. ASSUME StartSteeredTurn(c, m)
      PROVE  TypeOK'
  <2>1. [row[m] EXCEPT !.state = "started", !.via = "turn"] \in Rows
    <3>1. row[m] \in Rows \ {NoRow}
      BY <1>1, <1>6 DEF StartSteeredTurn, NoRow
    <3>. QED
      BY <3>1 DEF Rows, RowStates, Owned
  <2>2. row' = [row EXCEPT ![m] = [row[m] EXCEPT !.state = "started", !.via = "turn"]]
    BY <1>6 DEF StartSteeredTurn
  <2>. QED
    BY <1>6, <2>1, <2>2 DEF StartSteeredTurn, TypeOK
<1>. QED
  BY <1>3, <1>4, <1>5, <1>6

\* What the provider reports.
LEMMA ProviderTypes ==
  ASSUME TypeOK, NEW c \in Coordinators, NEW m \in Messages
  PROVE  /\ AnnounceSession(c, m) => TypeOK'
         /\ RetireSession(c, m) => TypeOK'
         /\ SavePermission(c, m) => TypeOK'
         /\ \A phase \in Outcomes : RecordProviderTerminal(c, m, phase) => TypeOK'
<1>1. ASSUME Bound(c, m)
      PROVE  row[m].run \in Runs
  BY <1>1 DEF Bound, TypeOK, Rows, NoRow
<1>2. ASSUME AnnounceSession(c, m) \/ RetireSession(c, m)
      PROVE  TypeOK'
  BY <1>1, <1>2 DEF AnnounceSession, RetireSession, TypeOK
<1>3. ASSUME SavePermission(c, m)
      PROVE  TypeOK'
  <2>1. [turn |-> m, epoch |-> belief[c]] \in Permissions
    BY DEF TypeOK, Permissions
  <2>. QED
    BY <1>3, <2>1 DEF SavePermission, TypeOK
<1>4. ASSUME NEW phase \in Outcomes, RecordProviderTerminal(c, m, phase)
      PROVE  TypeOK'
  <2>1. phase \in TerminalPhases
    BY PromptLedgerAssumption DEF PromptLedgerAssumption, TerminalPhases
  <2>2. [turn[m] EXCEPT !.terminal = phase] \in Turns
    BY <2>1 DEF TypeOK, Turns
  <2>3. turn' = [turn EXCEPT ![m] = [turn[m] EXCEPT !.terminal = phase]]
    BY <1>4 DEF RecordProviderTerminal
  <2>. QED
    BY <1>4, <2>2, <2>3 DEF RecordProviderTerminal, TypeOK
<1>. QED
  BY <1>2, <1>3, <1>4

\* The host epoch, recovery and the selection.
LEMMA HostTypes ==
  ASSUME TypeOK, NEW c \in Coordinators
  PROVE  /\ CloseIngress(c) \/ QuiesceIdleOwner(c) => TypeOK'
         /\ FenceAndOpen(c) => TypeOK'
         /\ Join(c) => TypeOK'
         /\ Recover(c) => TypeOK'
         /\ \A r \in Runs : Switch(c, r) => TypeOK'
<1>1. host \in [epoch : Epochs, ingress : {"open", "closed"}, idle : BOOLEAN]
  BY DEF TypeOK
<1>2. ASSUME CloseIngress(c) \/ QuiesceIdleOwner(c)
      PROVE  TypeOK'
  <2>1. host' \in [epoch : Epochs, ingress : {"open", "closed"}, idle : BOOLEAN]
    BY <1>1, <1>2 DEF CloseIngress, QuiesceIdleOwner
  <2>. QED
    BY <1>2, <2>1 DEF CloseIngress, QuiesceIdleOwner, CloseUnder, TypeOK
<1>3. ASSUME FenceAndOpen(c)
      PROVE  TypeOK'
  <2>1. host.epoch + 1 \in Epochs
    BY <1>1, <1>3, PromptLedgerAssumption DEF PromptLedgerAssumption, FenceAndOpen, Epochs
  <2>2. host' \in [epoch : Epochs, ingress : {"open", "closed"}, idle : BOOLEAN]
    BY <1>3, <2>1 DEF FenceAndOpen
  <2>. QED
    BY <1>3, <2>1, <2>2 DEF FenceAndOpen, TypeOK
<1>4. ASSUME Join(c)
      PROVE  TypeOK'
  BY <1>1, <1>4 DEF Join, TypeOK
<1>5. ASSUME Recover(c)
      PROVE  TypeOK'
  <2>. DEFINE e == belief[c]
              failed == LostLaunches(e) \cup {m \in Messages : row[m].state = "unprovable"}
  <2>1. row' \in [Messages -> Rows]
    <3>1. \A m \in LostClaims(e) : FreedRow(m, "pending") \in Rows
      BY FreedRowType DEF LostClaims, Existing, RowStates, Held
    <3>2. \A m \in InterruptedInstalls(e) : [row[m] EXCEPT !.state = "awaiting"] \in Rows
      BY DEF InterruptedInstalls, InstallOwns, TypeOK, Rows, NoRow, RowStates, Held
    <3>3. \A m \in LostLaunches(e) : [row[m] EXCEPT !.state = "unprovable"] \in Rows
      BY DEF LostLaunches, TypeOK, Rows, NoRow, RowStates, Finished
    <3>. QED
      BY <1>5, <3>1, <3>2, <3>3 DEF Recover, TypeOK
  <2>2. install' \in [Messages -> Installs]
    <3>1. \A m \in InterruptedInstalls(e) :
            [install[m] EXCEPT !.status = "unprovable"] \in Installs
      BY DEF InterruptedInstalls, TypeOK, Installs, NoInstall
    <3>. QED
      BY <1>5, <3>1 DEF Recover, TypeOK
  <2>3. /\ TurnsClosed(failed, "failed") \in [Messages -> Turns]
        /\ PermissionsOfClosed(failed) \in [Runs -> Permissions]
        /\ SteersOfClosed(failed) \in [Messages -> SteerTargets]
    BY ClosedTypes DEF TerminalPhases
  <2>4. turn' \in [Messages -> Turns] /\ steer' \in [Messages -> SteerTargets]
    BY <1>5, <2>3, UnprovableExpiredType DEF Recover
  <2>5. permission' \in [Runs -> Permissions]
    <3>1. NoPermission \in Permissions
      BY DEF Permissions
    <3>. QED
      BY <1>5, <2>3, <3>1 DEF Recover
  <2>. QED
    BY <1>5, <2>1, <2>2, <2>4, <2>5 DEF Recover, TypeOK
<1>6. ASSUME NEW r \in Runs, Switch(c, r)
      PROVE  TypeOK'
  BY <1>6 DEF Switch, TypeOK
<1>. QED
  BY <1>2, <1>3, <1>4, <1>5, <1>6

\* Every column always holds a value of its type: the type invariant is inductive.
THEOREM TypeCorrect == Spec => []TypeOK
<1>1. Init => TypeOK
  BY PromptLedgerAssumption
  DEF PromptLedgerAssumption, Init, TypeOK, Epochs, Rows, Turns, NoTurn, SteerTargets,
      Installs, Permissions
<1>2. TypeOK /\ [Next]_vars => TypeOK'
  <2>. SUFFICES ASSUME TypeOK, [Next]_vars PROVE TypeOK'
    OBVIOUS
  <2>1. ASSUME NEW c \in Coordinators, Admission(c) PROVE TypeOK'
    BY <2>1, AdmissionTypes DEF Admission
  <2>2. ASSUME NEW c \in Coordinators, Dispatch(c) PROVE TypeOK'
    BY <2>2, DispatchTypes DEF Dispatch
  <2>3. ASSUME NEW c \in Coordinators, Steering(c) PROVE TypeOK'
    BY <2>3, SteeringTypes DEF Steering
  <2>4. ASSUME NEW c \in Coordinators, Provider(c) PROVE TypeOK'
    BY <2>4, ProviderTypes DEF Provider
  <2>5. ASSUME NEW c \in Coordinators, Host(c) PROVE TypeOK'
    BY <2>5, HostTypes DEF Host
  <2>6. ASSUME Installer PROVE TypeOK'
    BY <2>6, InstallerTypes DEF Installer
  <2>7. ASSUME NEW r \in Runs, AnswerPermission(r) PROVE TypeOK'
    BY <2>7 DEF AnswerPermission, TypeOK, Permissions
  <2>8. ASSUME NEW c \in Coordinators, Goal(c) PROVE TypeOK'
    BY <2>8 DEF Goal, EndGoal, ResumeGoal, SetGoal, TypeOK
  <2>9. ASSUME UNCHANGED vars PROVE TypeOK'
    BY <2>9 DEF vars, TypeOK
  <2>. QED
    BY <2>1, <2>2, <2>3, <2>4, <2>5, <2>6, <2>7, <2>8, <2>9 DEF Next
<1>. QED
  BY <1>1, <1>2, PTL DEF Spec

-----------------------------------------------------------------------------
(* What a step may do to one prompt. The step predicates below classify     *)
(* every transaction of the ledger by its effect on a prompt's row and      *)
(* turn; the safety theorems then follow from the classification alone.     *)

\* A row that was never saved owns no turn.
NoTurnWithoutRow == \A m \in Messages : row[m].state = "absent" => turn[m] = NoTurn

\* An open turn has its terminal fact only from the provider that runs it.
FactOnlyWhileStarted ==
    \A m \in Messages :
        Open(m) /\ turn[m].terminal # "none" => row[m].state = "started"

\* The inductive invariant behind ownership, turn settlement and delivery.
IInv ==
    /\ TypeOK
    /\ OwnershipFollowsState
    /\ TurnOpenIffUnfinished
    /\ NoTurnWithoutRow
    /\ FactOnlyWhileStarted

Current(m) == row[m].epoch = host.epoch

Kept(m) == row'[m] = row[m] /\ turn'[m] = turn[m]

Closed(m) ==
    /\ Open(m) /\ turn'[m].phase \in TerminalPhases
    /\ turn[m].terminal # "none" => turn'[m].terminal = turn[m].terminal

Accepted(m) ==
    /\ row[m].state = "absent"
    /\ row'[m].state = "awaiting" /\ row'[m].owner = None /\ row'[m].epoch = 0
    /\ turn'[m] = [phase |-> "active", terminal |-> "none"]

Requeued(m) ==
    /\ \/ row[m].state \in Held
       \/ row[m].state = "claimed" /\ row'[m] = FreedRow(m, "pending")
    /\ row'[m].state \in Held /\ row'[m].owner = None /\ row'[m].epoch = 0
    /\ turn'[m] = turn[m]

TakenBack(m) ==
    /\ row[m].state = "launching" /\ Current(m)
    /\ row'[m] = FreedRow(m, "pending")
    /\ turn'[m] = turn[m]

\* A claim takes the prompt; a steer claim also launches it.
Taken(m, state) ==
    /\ row[m].state = "pending" /\ row'[m].state = state
    /\ row'[m].owner \in Coordinators /\ row'[m].epoch = host.epoch
    /\ turn'[m] = turn[m]

Advanced(m, from, to) ==
    /\ row[m].state = from /\ Current(m) /\ row'[m].state = to
    /\ row'[m].owner = row[m].owner /\ row'[m].epoch = row[m].epoch
    /\ turn'[m] = turn[m]

Withdrawn(m) ==
    /\ row[m].state \in Held \/ (row[m].state = "claimed" /\ Current(m))
    /\ row'[m].state = "settled" /\ Closed(m)

Ended(m) ==
    /\ row[m].state \in {"launching", "started"} /\ Current(m)
    /\ row'[m].state = "settled" /\ Closed(m)

Lost(m) ==
    /\ row[m].state = "launching" \/ (row[m].state = "started" /\ ~Current(m))
    /\ row'[m].state = "unprovable" /\ Closed(m)

Reported(m) ==
    /\ row[m].state = "started" /\ Current(m)
    /\ turn[m].terminal = "none"
    /\ row'[m] = row[m] /\ turn'[m].phase = turn[m].phase

Move(m) ==
    \/ Accepted(m) \/ Requeued(m) \/ TakenBack(m) \/ Taken(m, "launching")
    \/ Advanced(m, "claimed", "launching") \/ Advanced(m, "launching", "started")
    \/ Withdrawn(m) \/ Ended(m) \/ Lost(m) \/ Reported(m)

\* A step touches no prompt, or one, or it is a claim that cancels the ended
\* continuations in its way, or recovery.
QuietStep ==
    /\ host'.epoch \in {host.epoch, host.epoch + 1}
    /\ \A m \in Messages : Kept(m)

SingleStep ==
    /\ host' = host
    /\ \E m \in Messages : Move(m) /\ \A n \in Messages \ {m} : Kept(n)

ClaimStep ==
    /\ host' = host
    /\ \E ended \in SUBSET Messages :
        /\ \A m \in ended : Withdrawn(m)
        /\ \A m \in Messages \ ended : Kept(m) \/ Taken(m, "claimed")

RecoveryStep ==
    /\ host' = host
    /\ \E lost \in SUBSET Messages :
        /\ \A m \in lost : Lost(m) /\ ~Current(m)
        /\ \A m \in Messages \ lost : Kept(m) \/ Requeued(m)

LedgerStep == QuietStep \/ SingleStep \/ ClaimStep \/ RecoveryStep

\* What the row updates leave in the fields the classification reads.
LEMMA RowFields ==
  ASSUME TypeOK, NEW m \in Existing, NEW s
  PROVE  /\ Moved(m, s)[m].state = s
         /\ Moved(m, s)[m].owner = row[m].owner
         /\ Moved(m, s)[m].epoch = row[m].epoch
         /\ FreedRow(m, s).state = s
         /\ FreedRow(m, s).owner = None
         /\ FreedRow(m, s).epoch = 0
         /\ Freed(m, s)[m] = FreedRow(m, s)
         /\ \A n \in Messages \ {m} : Moved(m, s)[n] = row[n] /\ Freed(m, s)[n] = row[n]
         /\ \A c \in Coordinators, via \in {"turn", "steer"} :
                /\ TakenRow(m, s, c, via).state = s
                /\ TakenRow(m, s, c, via).owner = c
                /\ TakenRow(m, s, c, via).epoch = belief[c]
<1>1. row[m] \in Rows \ {NoRow} /\ m \in Messages /\ row \in [Messages -> Rows]
  BY DEF TypeOK, Existing, NoRow
<1>2. Moved(m, s)[m] = [row[m] EXCEPT !.state = s]
      /\ \A n \in Messages \ {m} : Moved(m, s)[n] = row[n]
  BY <1>1 DEF Moved
<1>3. Freed(m, s)[m] = FreedRow(m, s)
      /\ \A n \in Messages \ {m} : Freed(m, s)[n] = row[n]
  BY <1>1 DEF Freed
<1>4. /\ [row[m] EXCEPT !.state = s].state = s
      /\ [row[m] EXCEPT !.state = s].owner = row[m].owner
      /\ [row[m] EXCEPT !.state = s].epoch = row[m].epoch
  BY <1>1 DEF Rows
<1>5. FreedRow(m, s).state = s /\ FreedRow(m, s).owner = None /\ FreedRow(m, s).epoch = 0
  BY <1>1 DEF FreedRow, Rows
<1>6. ASSUME NEW c \in Coordinators, NEW via \in {"turn", "steer"}
      PROVE  /\ TakenRow(m, s, c, via).state = s
             /\ TakenRow(m, s, c, via).owner = c
             /\ TakenRow(m, s, c, via).epoch = belief[c]
  BY <1>1 DEF TakenRow, Rows
<1>. QED
  BY <1>2, <1>3, <1>4, <1>5, <1>6

\* Closing turns: the open ones of T close, the others stay as they are.
LEMMA ClosedTurns ==
  ASSUME TypeOK, NEW T, NEW phase \in TerminalPhases, NEW m \in Messages,
         turn' = TurnsClosed(T, phase)
  PROVE  /\ m \in T /\ Open(m) => Closed(m)
         /\ ~(m \in T /\ Open(m)) => turn'[m] = turn[m]
<1>1. /\ FinalPhase(m, phase) \in TerminalPhases
      /\ turn[m].terminal # "none" => FinalPhase(m, phase) = turn[m].terminal
  BY DEF TypeOK, FinalPhase, Turns, TerminalPhases
<1>2. turn'[m] = IF m \in T /\ Open(m)
                 THEN [phase |-> FinalPhase(m, phase), terminal |-> FinalPhase(m, phase)]
                 ELSE turn[m]
  BY DEF TurnsClosed
<1>3. m \in T /\ Open(m) =>
        turn'[m].phase = FinalPhase(m, phase) /\ turn'[m].terminal = FinalPhase(m, phase)
  BY <1>2
<1>. QED
  BY <1>1, <1>2, <1>3 DEF Closed

\* Admission: a prompt is saved, made claimable, or ended before it was sent.
LEMMA AdmissionSteps ==
  ASSUME IInv, NEW c \in Coordinators, NEW m \in Messages
  PROVE  /\ \A r \in Runs, k \in Kinds : SavePrompt(c, m, r, k) => LedgerStep
         /\ \A t \in Messages : SavePromptForTurn(c, m, t) => LedgerStep
         /\ \A t \in Messages : RequestSteer(c, m, t) => LedgerStep
         /\ RequestLegacySteer(c, m) => LedgerStep
         /\ CancelQueued(c, m) => LedgerStep
         /\ ReleaseReady(c, m) => LedgerStep
         /\ \A phase \in Outcomes : FailReadiness(c, m, phase) => LedgerStep
         /\ ReserveInstall(c, m) => LedgerStep
<1>1. /\ TypeOK
      /\ row \in [Messages -> Rows] /\ turn \in [Messages -> Turns]
      /\ host.epoch \in Nat
  BY DEF IInv, TypeOK, Epochs
<1>2. ASSUME NEW r, NEW k, Insert(m, r, k)
      PROVE  LedgerStep
  <2>1. Accepted(m) /\ host' = host
    BY <1>1, <1>2 DEF Insert, Accepted, NoRow
  <2>2. \A n \in Messages \ {m} : Kept(n)
    BY <1>1, <1>2 DEF Insert, Kept
  <2>. QED
    BY <2>1, <2>2 DEF LedgerStep, SingleStep, Move
<1>3. ASSUME NEW r \in Runs, NEW k \in Kinds, SavePrompt(c, m, r, k)
      PROVE  LedgerStep
  BY <1>2, <1>3 DEF SavePrompt
<1>4. ASSUME NEW t \in Messages, SavePromptForTurn(c, m, t)
      PROVE  LedgerStep
  BY <1>2, <1>4 DEF SavePromptForTurn
<1>5. ASSUME (\E t \in Messages : RequestSteer(c, m, t)) \/ RequestLegacySteer(c, m)
      PROVE  LedgerStep
  BY <1>1, <1>5 DEF RequestSteer, RequestLegacySteer, LedgerStep, QuietStep, Kept
<1>6. ASSUME NEW s \in Held, row[m].state \in {"awaiting"}, row' = Moved(m, s),
             UNCHANGED <<host, turn>>
      PROVE  LedgerStep
  <2>1. m \in Existing /\ row[m].owner = None /\ row[m].epoch = 0
    BY <1>6 DEF Existing, IInv, OwnershipFollowsState, Held
  <2>2. Requeued(m) /\ \A n \in Messages \ {m} : Kept(n)
    BY <1>1, <1>6, <2>1, RowFields DEF Requeued, Kept, Held
  <2>. QED
    BY <1>6, <2>2 DEF LedgerStep, SingleStep, Move
<1>7. ASSUME ReleaseReady(c, m) \/ ReserveInstall(c, m)
      PROVE  LedgerStep
  BY <1>6, <1>7 DEF ReleaseReady, ReserveInstall, InstallOwns, Held
<1>8. ASSUME NEW phase \in TerminalPhases, row[m].state \in {"awaiting", "pending"},
             Open(m), host' = host, turn' = TurnsClosed({m}, phase),
             row' = Moved(m, "settled") \/ row' = [row EXCEPT ![m] = FreedRow(m, "settled")]
      PROVE  LedgerStep
  <2>1. m \in Existing
    BY <1>8 DEF Existing
  <2>2. row'[m].state = "settled"
    BY <1>1, <1>8, <2>1, RowFields
  <2>3. Closed(m)
    BY <1>1, <1>8, ClosedTurns
  <2>4. Withdrawn(m)
    BY <1>8, <2>2, <2>3 DEF Withdrawn, Held
  <2>5. \A n \in Messages \ {m} : Kept(n)
    <3>1. \A n \in Messages \ {m} : row'[n] = row[n]
      BY <1>1, <1>8, <2>1, RowFields
    <3>2. \A n \in Messages \ {m} : turn'[n] = turn[n]
      BY <1>1, <1>8, ClosedTurns
    <3>. QED
      BY <3>1, <3>2 DEF Kept
  <2>. QED
    BY <1>8, <2>4, <2>5 DEF LedgerStep, SingleStep, Move
<1>9. ASSUME CancelQueued(c, m)
      PROVE  LedgerStep
  BY <1>8, <1>9 DEF CancelQueued, Queued, SettleTurn, TerminalPhases
<1>10. ASSUME NEW phase \in Outcomes, FailReadiness(c, m, phase)
       PROVE  LedgerStep
  <2>1. phase \in TerminalPhases
    BY PromptLedgerAssumption DEF PromptLedgerAssumption, TerminalPhases
  <2>. QED
    BY <1>8, <1>10, <2>1 DEF FailReadiness, SettleTurn
<1>. QED
  BY <1>3, <1>4, <1>5, <1>7, <1>9, <1>10

\* An install that ends leaves its prompt queued, whatever its outcome.
LEMMA InstallerSteps ==
  ASSUME IInv, Installer
  PROVE  LedgerStep
<1>1. TypeOK
  BY DEF IInv
<1>2. PICK m \in Messages, status \in {"settled", "rejected", "unprovable"}, s \in Held :
          InstallEnds(m, status, s)
  BY DEF Installer, SettleInstall, RejectInstallBeforeEffect, SettleInstallUnprovable, Held
<1>3. m \in Existing /\ row[m].owner = None /\ row[m].epoch = 0
  BY <1>2 DEF InstallEnds, InstallOwns, Existing, IInv, OwnershipFollowsState, Held
<1>4. Requeued(m) /\ \A n \in Messages \ {m} : Kept(n)
  BY <1>1, <1>2, <1>3, RowFields DEF InstallEnds, InstallOwns, Requeued, Kept, Held
<1>. QED
  BY <1>2, <1>4 DEF InstallEnds, LedgerStep, SingleStep, Move

\* A claim cancels the ended continuations of the queue and takes at most one
\* other prompt.
LEMMA ClaimSteps ==
  ASSUME IInv, NEW c \in Coordinators, NEW p \in Providers, NEW X \in SUBSET Runs
  PROVE  /\ Claim(c, p, X) => LedgerStep
         /\ ClaimNothing(c, p, X) => LedgerStep
<1>1. TypeOK /\ "cancelled" \in TerminalPhases
  BY DEF IInv, TerminalPhases
<1>2. \A n \in Claimable(p, X) : n \in Existing /\ row[n].state = "pending" /\ Open(n)
  BY DEF Claimable, Existing, IInv, TurnOpenIffUnfinished, Finished
<1>3. ASSUME NEW ended \in SUBSET Claimable(p, X), turn' = TurnsClosed(ended, "cancelled"),
             NEW n \in ended, row'[n] = FreedRow(n, "settled")
      PROVE  Withdrawn(n)
  <2>1. n \in Messages /\ n \in Existing /\ row[n].state = "pending" /\ Open(n)
    BY <1>2 DEF Existing
  <2>2. Closed(n)
    BY <1>1, <1>3, <2>1, ClosedTurns
  <2>. QED
    BY <1>1, <1>3, <2>1, <2>2, RowFields DEF Withdrawn, Held
<1>4. ASSUME NEW ended \in SUBSET Claimable(p, X), turn' = TurnsClosed(ended, "cancelled"),
             NEW n \in Messages \ ended
      PROVE  turn'[n] = turn[n]
  BY <1>1, <1>4, ClosedTurns
<1>5. ASSUME Claim(c, p, X)
      PROVE  LedgerStep
  <2>. DEFINE S == Claimable(p, X)
  <2>1. PICK m \in S : /\ Oldest(m, {n \in S : ~Inactive(n)})
                       /\ ClaimPrompt(c, m, InactiveBefore(S, m))
    BY <1>5 DEF Claim
  <2>. DEFINE ended == InactiveBefore(S, m)
  <2>2. host' = host /\ belief[c] = host.epoch
    BY <1>5 DEF Claim, RequireOpen
  <2>3. ended \in SUBSET S /\ m \notin ended
    BY <2>1 DEF InactiveBefore, Oldest
  <2>4. /\ turn' = TurnsClosed(ended, "cancelled")
        /\ \A n \in ended : row'[n] = FreedRow(n, "settled")
        /\ row'[m] = TakenRow(m, "claimed", c, "turn")
        /\ \A n \in Messages \ (ended \cup {m}) : row'[n] = row[n]
    <3>1. \A n \in ended : n \in Messages
      BY <2>3 DEF Claimable, Existing
    <3>. HIDE DEF ended
    <3>. QED
      BY <2>1, <2>3, <3>1, <1>2 DEF ClaimPrompt, ended, Existing
  <2>5. Taken(m, "claimed")
    <3>1. m \in Existing /\ row[m].state = "pending"
      BY <1>2
    <3>2. turn'[m] = turn[m]
      BY <1>4, <2>3, <2>4, <3>1 DEF Existing
    <3>. QED
      BY <1>1, <2>2, <2>4, <3>1, <3>2, RowFields DEF Taken
  <2>6. \A n \in Messages \ ended : Kept(n) \/ Taken(n, "claimed")
    <3>. HIDE DEF ended
    <3>. QED  BY <1>4, <2>3, <2>4, <2>5 DEF Kept
  <2>7. \A n \in ended : Withdrawn(n)
    BY <1>3, <2>3, <2>4
  <2>8. ended \in SUBSET Messages
    BY <2>3 DEF Claimable, Existing
  <2>. QED
    BY <2>2, <2>6, <2>7, <2>8 DEF LedgerStep, ClaimStep
<1>6. ASSUME ClaimNothing(c, p, X)
      PROVE  LedgerStep
  <2>. DEFINE ended == Claimable(p, X)
  <2>1. /\ host' = host /\ turn' = TurnsClosed(ended, "cancelled")
        /\ \A n \in ended : row'[n] = FreedRow(n, "settled")
        /\ \A n \in Messages \ ended : row'[n] = row[n]
    BY <1>6, <1>2 DEF ClaimNothing, Existing
  <2>2. \A n \in Messages \ ended : Kept(n)
    BY <1>4, <2>1 DEF Kept
  <2>3. \A n \in ended : Withdrawn(n)
    BY <1>3, <2>1
  <2>4. ended \in SUBSET Messages
    BY DEF Claimable, Existing
  <2>. QED
    BY <2>1, <2>2, <2>3, <2>4 DEF LedgerStep, ClaimStep
<1>. QED
  BY <1>5, <1>6


\* An update of one row, with or without its turn, keeps every other prompt.
LEMMA OthersKept ==
  ASSUME TypeOK, NEW m \in Existing, NEW s,
         row' = Moved(m, s) \/ row' = Freed(m, s),
         \/ turn' = turn
         \/ \E phase \in TerminalPhases : turn' = TurnsClosed({m}, phase)
  PROVE  \A n \in Messages \ {m} : Kept(n)
<1>1. \A n \in Messages \ {m} : row'[n] = row[n]
  BY RowFields
<1>2. \A n \in Messages \ {m} : turn'[n] = turn[n]
  BY ClosedTurns
<1>. QED
  BY <1>1, <1>2 DEF Kept

\* Launching a claimed prompt, confirming it, and every way of ending it.
LEMMA LaunchSteps ==
  ASSUME IInv, NEW c \in Coordinators, NEW m \in Messages
  PROVE  /\ BeginLaunch(c, m) => LedgerStep
         /\ ReleaseClaim(c, m) => LedgerStep
         /\ ConfirmStarted(c, m) => LedgerStep
         /\ ReleaseUnstartedLaunch(c, m) => LedgerStep
         /\ FailPrelaunch(c, m) => LedgerStep
         /\ MarkUnprovable(c, m) => LedgerStep
         /\ \A phase \in Outcomes : SettleTerminal(c, m, phase) => LedgerStep
<1>1. TypeOK
  BY DEF IInv
<1>2. ASSUME RequireOpen(c), OwnedBy(c, m)
      PROVE  Current(m)
  BY <1>2 DEF RequireOpen, OwnedBy, Current
<1>3. ASSUME NEW from \in Owned, NEW rows, Transition(c, m, from, rows)
      PROVE  /\ m \in Existing /\ Current(m)
             /\ row[m].state = from /\ row' = rows
             /\ UNCHANGED <<host, turn>>
  BY <1>2, <1>3 DEF Transition, Existing, Owned
<1>4. ASSUME NEW from \in Owned, NEW to, Transition(c, m, from, Moved(m, to))
      PROVE  /\ Advanced(m, from, to) /\ host' = host
             /\ \A n \in Messages \ {m} : Kept(n)
  <2>1. /\ m \in Existing /\ Current(m) /\ row[m].state = from
        /\ row' = Moved(m, to) /\ UNCHANGED <<host, turn>>
    BY <1>3, <1>4
  <2>2. Advanced(m, from, to)
    BY <1>1, <2>1, RowFields DEF Advanced
  <2>. QED
    BY <1>1, <2>1, <2>2, OthersKept
<1>10. ASSUME BeginLaunch(c, m) \/ ConfirmStarted(c, m)
       PROVE  LedgerStep
  BY <1>4, <1>10 DEF BeginLaunch, ConfirmStarted, Owned, LedgerStep, SingleStep, Move
<1>5. ASSUME ReleaseClaim(c, m) \/ ReleaseUnstartedLaunch(c, m)
      PROVE  LedgerStep
  <2>1. PICK from \in {"claimed", "launching"} : Transition(c, m, from, Freed(m, "pending"))
    BY <1>5 DEF ReleaseClaim, ReleaseUnstartedLaunch
  <2>2. /\ m \in Existing /\ Current(m) /\ row[m].state = from /\ row' = Freed(m, "pending")
        /\ UNCHANGED <<host, turn>>
    BY <1>3, <2>1 DEF Owned
  <2>3. /\ row'[m] = FreedRow(m, "pending") /\ row'[m].state = "pending"
        /\ row'[m].owner = None /\ row'[m].epoch = 0
    BY <1>1, <2>2, RowFields
  <2>4. Requeued(m) \/ TakenBack(m)
    BY <2>2, <2>3 DEF Requeued, TakenBack, Held
  <2>. QED
    BY <1>1, <2>2, <2>4, OthersKept DEF LedgerStep, SingleStep, Move
<1>6. ASSUME NEW s, NEW phase \in TerminalPhases, m \in Existing, Open(m),
             row' = Moved(m, s), turn' = TurnsClosed({m}, phase)
      PROVE  row'[m].state = s /\ Closed(m) /\ \A n \in Messages \ {m} : Kept(n)
  BY <1>1, <1>6, RowFields, ClosedTurns, OthersKept
<1>7. ASSUME FailPrelaunch(c, m)
      PROVE  LedgerStep
  <2>1. /\ row[m].state \in {"claimed", "started"} /\ Current(m) /\ host' = host
        /\ m \in Existing /\ Open(m)
        /\ row' = Moved(m, "settled") /\ turn' = TurnsClosed({m}, "failed")
    BY <1>2, <1>7 DEF FailPrelaunch, SettleTurn, Existing
  <2>2. row'[m].state = "settled" /\ Closed(m) /\ \A n \in Messages \ {m} : Kept(n)
    BY <1>6, <2>1 DEF TerminalPhases
  <2>3. Withdrawn(m) \/ Ended(m)
    BY <2>1, <2>2 DEF Withdrawn, Ended
  <2>. QED
    BY <2>1, <2>2, <2>3 DEF LedgerStep, SingleStep, Move
<1>8. ASSUME MarkUnprovable(c, m)
      PROVE  LedgerStep
  <2>1. /\ row[m].state = "launching" /\ host' = host /\ m \in Existing /\ Open(m)
        /\ row' = Moved(m, "unprovable") /\ turn' = TurnsClosed({m}, "failed")
    BY <1>8 DEF MarkUnprovable, Existing
  <2>2. row'[m].state = "unprovable" /\ Closed(m) /\ \A n \in Messages \ {m} : Kept(n)
    BY <1>6, <2>1 DEF TerminalPhases
  <2>. QED
    BY <2>1, <2>2 DEF Lost, LedgerStep, SingleStep, Move
<1>9. ASSUME NEW phase \in Outcomes, SettleTerminal(c, m, phase)
      PROVE  LedgerStep
  <2>1. /\ row[m].state = "started" /\ Current(m) /\ host' = host
        /\ m \in Existing /\ Open(m)
        /\ row' = Moved(m, "settled") /\ turn' = TurnsClosed({m}, phase)
    BY <1>2, <1>9 DEF SettleTerminal, Bound, SettleTurn, Existing
  <2>2. phase \in TerminalPhases
    BY PromptLedgerAssumption DEF PromptLedgerAssumption, TerminalPhases
  <2>3. row'[m].state = "settled" /\ Closed(m) /\ \A n \in Messages \ {m} : Kept(n)
    BY <1>6, <2>1, <2>2
  <2>. QED
    BY <2>1, <2>3 DEF Ended, LedgerStep, SingleStep, Move
<1>. QED
  BY <1>5, <1>7, <1>8, <1>9, <1>10

\* Steering moves the steered prompt only, never the turn it is steered into.
LEMMA SteeringSteps ==
  ASSUME IInv, NEW c \in Coordinators, NEW m \in Messages, NEW t \in Messages
  PROVE  /\ ClaimSteered(c, m, t) => LedgerStep
         /\ ExpireSteer(c, m, t) => LedgerStep
         /\ DeliverSteered(c, m, t) => LedgerStep
         /\ StartSteeredTurn(c, m) => LedgerStep
<1>1. /\ TypeOK
      /\ row \in [Messages -> Rows] /\ turn \in [Messages -> Turns]
  BY DEF IInv, TypeOK
<1>2. ASSUME ClaimSteered(c, m, t)
      PROVE  LedgerStep
  <2>1. /\ m \in Existing /\ row[m].state = "pending" /\ belief[c] = host.epoch
        /\ row' = [row EXCEPT ![m] = TakenRow(m, "launching", c, "steer")]
        /\ UNCHANGED <<host, turn>>
    BY <1>2 DEF ClaimSteered, RequireOpen, Existing
  <2>2. Taken(m, "launching")
    BY <1>1, <2>1, RowFields DEF Taken
  <2>3. \A n \in Messages \ {m} : Kept(n)
    BY <1>1, <2>1 DEF Kept
  <2>. QED
    BY <2>1, <2>2, <2>3 DEF LedgerStep, SingleStep, Move
<1>3. ASSUME ExpireSteer(c, m, t)
      PROVE  LedgerStep
  BY <1>1, <1>3 DEF ExpireSteer, LedgerStep, QuietStep, Kept, TypeOK, Epochs
<1>4. ASSUME DeliverSteered(c, m, t)
      PROVE  LedgerStep
  <2>1. /\ m \in Existing /\ row[m].state = "launching" /\ Current(m) /\ Open(m)
        /\ row' = Moved(m, "settled") /\ host' = host
        /\ turn' = [turn EXCEPT ![m].phase = "completed"]
    BY <1>4 DEF DeliverSteered, RequireOpen, OwnedBy, Current, Existing
  <2>2. turn'[m] = [turn[m] EXCEPT !.phase = "completed"]
        /\ \A n \in Messages \ {m} : turn'[n] = turn[n]
    BY <1>1, <2>1
  <2>3. turn'[m].phase = "completed" /\ turn'[m].terminal = turn[m].terminal
    BY <1>1, <2>2 DEF Turns
  <2>4. row'[m].state = "settled" /\ \A n \in Messages \ {m} : row'[n] = row[n]
    BY <1>1, <2>1, RowFields
  <2>5. Ended(m)
    BY <2>1, <2>3, <2>4 DEF Ended, Closed, TerminalPhases
  <2>. QED
    BY <2>1, <2>2, <2>4, <2>5 DEF Kept, LedgerStep, SingleStep, Move
<1>5. ASSUME StartSteeredTurn(c, m)
      PROVE  LedgerStep
  <2>1. /\ row[m] \in Rows \ {NoRow} /\ row[m].state = "launching" /\ Current(m)
        /\ UNCHANGED <<host, turn>>
    BY <1>1, <1>5 DEF StartSteeredTurn, RequireOpen, OwnedBy, Current, NoRow
  <2>2. row' = [row EXCEPT ![m] = [row[m] EXCEPT !.state = "started", !.via = "turn"]]
    BY <1>5 DEF StartSteeredTurn
  <2>3. /\ row'[m] = [row[m] EXCEPT !.state = "started", !.via = "turn"]
        /\ \A n \in Messages \ {m} : row'[n] = row[n]
    BY <1>1, <2>2
  <2>4. row'[m].state = "started" /\ row'[m].owner = row[m].owner
        /\ row'[m].epoch = row[m].epoch
    BY <2>1, <2>3 DEF Rows
  <2>5. Advanced(m, "launching", "started")
    BY <2>1, <2>4 DEF Advanced
  <2>. QED
    BY <2>1, <2>3, <2>5 DEF Kept, LedgerStep, SingleStep, Move
<1>. QED
  BY <1>2, <1>3, <1>4, <1>5


\* What a provider reports changes at most the terminal fact of its own turn.
LEMMA ProviderSteps ==
  ASSUME IInv, NEW c \in Coordinators, NEW m \in Messages
  PROVE  /\ AnnounceSession(c, m) \/ RetireSession(c, m) \/ SavePermission(c, m) => LedgerStep
         /\ \A phase \in Outcomes : RecordProviderTerminal(c, m, phase) => LedgerStep
<1>1. TypeOK /\ host.epoch \in Nat
  BY DEF IInv, TypeOK, Epochs
<1>2. ASSUME AnnounceSession(c, m) \/ RetireSession(c, m) \/ SavePermission(c, m)
      PROVE  LedgerStep
  BY <1>1, <1>2
  DEF AnnounceSession, RetireSession, SavePermission, LedgerStep, QuietStep, Kept
<1>3. ASSUME NEW phase \in Outcomes, RecordProviderTerminal(c, m, phase)
      PROVE  LedgerStep
  <2>1. /\ row[m].state = "started" /\ Current(m) /\ turn[m].terminal = "none"
        /\ turn' = [turn EXCEPT ![m].terminal = phase]
        /\ UNCHANGED <<host, row>>
    BY <1>3 DEF RecordProviderTerminal, RequireOpen, Bound, OwnedBy, Current
  <2>2. turn \in [Messages -> Turns]
    BY <1>1 DEF TypeOK
  <2>3. turn'[m].phase = turn[m].phase /\ \A n \in Messages \ {m} : turn'[n] = turn[n]
    BY <2>1, <2>2 DEF Turns
  <2>. QED
    BY <2>1, <2>3 DEF Reported, Kept, LedgerStep, SingleStep, Move
<1>. QED
  BY <1>2, <1>3

\* A new epoch moves no prompt; recovery loses the launches of dead epochs and
\* gives the rest of their work back.
LEMMA HostSteps ==
  ASSUME IInv, NEW c \in Coordinators
  PROVE  Host(c) => LedgerStep
<1>1. TypeOK /\ host.epoch \in Nat
  BY DEF IInv, TypeOK, Epochs
<1>2. ASSUME CloseIngress(c) \/ QuiesceIdleOwner(c) \/ FenceAndOpen(c) \/ Join(c)
      PROVE  LedgerStep
  <2>1. host'.epoch \in {host.epoch, host.epoch + 1} /\ UNCHANGED <<row, turn>>
    <3>1. host \in [epoch : Epochs, ingress : {"open", "closed"}, idle : BOOLEAN]
      BY <1>1 DEF TypeOK
    <3>2. CASE CloseIngress(c) \/ QuiesceIdleOwner(c)
      BY <3>1, <3>2 DEF CloseIngress, QuiesceIdleOwner, CloseUnder
    <3>3. CASE FenceAndOpen(c)
      BY <3>3 DEF FenceAndOpen
    <3>4. CASE Join(c)
      BY <3>4 DEF Join
    <3>. QED
      BY <1>2, <3>2, <3>3, <3>4
  <2>. QED
    BY <2>1 DEF LedgerStep, QuietStep, Kept
<1>3. ASSUME NEW r \in Runs, Switch(c, r)
      PROVE  LedgerStep
  BY <1>1, <1>3 DEF Switch, LedgerStep, QuietStep, Kept
<1>4. ASSUME Recover(c)
      PROVE  LedgerStep
  <2>. DEFINE e == belief[c]
              lost == LostLaunches(e)
              installs == InterruptedInstalls(e)
              claims == LostClaims(e)
              failed == lost \cup {m \in Messages : row[m].state = "unprovable"}
  <2>1. e = host.epoch /\ host' = host /\ turn' = TurnsClosed(failed, "failed")
    BY <1>4 DEF Recover, RequireOpen
  <2>2. "failed" \in TerminalPhases
    BY DEF TerminalPhases
  <2>3. \A m \in Messages :
          row'[m] = CASE m \in installs -> [row[m] EXCEPT !.state = "awaiting"]
                      [] m \in claims -> FreedRow(m, "pending")
                      [] m \in lost -> [row[m] EXCEPT !.state = "unprovable"]
                      [] OTHER -> row[m]
    BY <1>4 DEF Recover
  <2>4. ASSUME NEW m \in lost
        PROVE  Lost(m) /\ ~Current(m)
    <3>1. /\ m \in Messages /\ m \in Existing
          /\ row[m].state \in {"launching", "started"} /\ row[m].epoch < host.epoch
      BY <2>1 DEF LostLaunches, Stale, Existing
    <3>2. Open(m)
      BY <3>1 DEF IInv, TurnOpenIffUnfinished, Finished
    <3>3. Closed(m)
      BY <1>1, <2>1, <2>2, <3>1, <3>2, ClosedTurns
    <3>4. row[m] \in Rows \ {NoRow}
      BY <1>1, <3>1 DEF TypeOK, NoRow
    <3>5. row'[m] = [row[m] EXCEPT !.state = "unprovable"]
      BY <2>3, <3>1 DEF InterruptedInstalls, InstallOwns, LostClaims
    <3>6. row'[m].state = "unprovable"
      BY <3>4, <3>5 DEF Rows
    <3>7. row[m].epoch # host.epoch
      BY <1>1, <3>1, <3>4 DEF Rows, Epochs
    <3>. QED
      BY <3>1, <3>3, <3>6, <3>7 DEF Lost, Current
  <2>5. ASSUME NEW m \in Messages \ lost
        PROVE  Kept(m) \/ Requeued(m)
    <3>1. turn'[m] = turn[m]
      <4>1. m \in failed => row[m].state = "unprovable" /\ m \in Existing
        BY DEF Existing
      <4>2. ~(m \in failed /\ Open(m))
        BY <4>1 DEF IInv, TurnOpenIffUnfinished, Finished
      <4>. QED
        BY <1>1, <2>1, <2>2, <4>2, ClosedTurns
    <3>2. CASE m \in installs
      <4>1. /\ row[m] \in Rows \ {NoRow} /\ row[m].state = "provisioning"
            /\ row[m].owner = None /\ row[m].epoch = 0
        BY <1>1, <3>2
        DEF TypeOK, NoRow, InterruptedInstalls, InstallOwns, IInv, OwnershipFollowsState, Held
      <4>2. row'[m] = [row[m] EXCEPT !.state = "awaiting"]
        BY <2>3, <3>2, <4>1 DEF LostClaims
      <4>3. row'[m].state = "awaiting" /\ row'[m].owner = None /\ row'[m].epoch = 0
        BY <4>1, <4>2 DEF Rows
      <4>. QED
        BY <3>1, <4>1, <4>3 DEF Requeued, Held
    <3>3. CASE m \in claims /\ m \notin installs
      <4>1. m \in Existing /\ row[m].state = "claimed"
        BY <3>3 DEF LostClaims, Existing
      <4>2. row'[m] = FreedRow(m, "pending")
        BY <2>3, <3>3
      <4>3. row'[m].state = "pending" /\ row'[m].owner = None /\ row'[m].epoch = 0
        BY <1>1, <4>1, <4>2, RowFields
      <4>. QED
        BY <3>1, <4>1, <4>2, <4>3 DEF Requeued, Held
    <3>4. CASE m \notin claims /\ m \notin installs
      BY <2>3, <3>1, <3>4 DEF Kept
    <3>. QED
      BY <3>2, <3>3, <3>4
  <2>6. lost \in SUBSET Messages
    BY DEF LostLaunches
  <2>. QED
    BY <2>1, <2>4, <2>5, <2>6 DEF LedgerStep, RecoveryStep
<1>. QED
  BY <1>2, <1>3, <1>4 DEF Host

\* Every transaction of the ledger is one of the four kinds of step.
LEMMA StepsClassified == IInv /\ Next => LedgerStep
<1>. SUFFICES ASSUME IInv, Next PROVE LedgerStep
  OBVIOUS
<1>1. TypeOK /\ host.epoch \in Nat
  BY DEF IInv, TypeOK, Epochs
<1>2. ASSUME NEW c \in Coordinators, Admission(c) PROVE LedgerStep
  BY <1>2, AdmissionSteps DEF Admission
<1>3. ASSUME NEW c \in Coordinators, Dispatch(c) PROVE LedgerStep
  BY <1>3, ClaimSteps, LaunchSteps DEF Dispatch
<1>4. ASSUME NEW c \in Coordinators, Steering(c) PROVE LedgerStep
  BY <1>4, SteeringSteps DEF Steering
<1>5. ASSUME NEW c \in Coordinators, Provider(c) PROVE LedgerStep
  BY <1>5, ProviderSteps DEF Provider
<1>6. ASSUME \E c \in Coordinators : Goal(c) PROVE LedgerStep
  BY <1>1, <1>6 DEF Goal, EndGoal, ResumeGoal, SetGoal, LedgerStep, QuietStep, Kept
<1>7. ASSUME \E r \in Runs : AnswerPermission(r) PROVE LedgerStep
  BY <1>1, <1>7 DEF AnswerPermission, LedgerStep, QuietStep, Kept
<1>. QED
  BY <1>2, <1>3, <1>4, <1>5, <1>6, <1>7, HostSteps, InstallerSteps DEF Next


-----------------------------------------------------------------------------
(* Safety, from the classification.                                         *)

\* Whatever a step does to a prompt, it does one of these things.
LEMMA PromptMoves ==
  ASSUME LedgerStep, NEW m \in Messages
  PROVE  \/ Kept(m) \/ Accepted(m) \/ Requeued(m) \/ TakenBack(m)
         \/ \E s \in {"claimed", "launching"} : Taken(m, s)
         \/ Advanced(m, "claimed", "launching") \/ Advanced(m, "launching", "started")
         \/ Withdrawn(m) \/ Ended(m) \/ Lost(m) \/ Reported(m)
<1>1. CASE QuietStep
  BY <1>1 DEF QuietStep
<1>2. CASE SingleStep
  BY <1>2 DEF SingleStep, Move
<1>3. CASE ClaimStep
  BY <1>3 DEF ClaimStep
<1>4. CASE RecoveryStep
  BY <1>4 DEF RecoveryStep
<1>. QED
  BY <1>1, <1>2, <1>3, <1>4 DEF LedgerStep

\* The epoch only grows, and no step changes it and a prompt.
LEMMA EpochGrows ==
  ASSUME LedgerStep, TypeOK
  PROVE  /\ host.epoch \in Nat /\ host'.epoch \in Nat /\ host.epoch <= host'.epoch
         /\ host'.epoch = host.epoch \/ \A m \in Messages : Kept(m)
BY DEF LedgerStep, QuietStep, SingleStep, ClaimStep, RecoveryStep, TypeOK, Epochs

\* Ownership, turns and terminal facts stay together through every step.
LEMMA IInvStep ==
  ASSUME IInv, TypeOK', LedgerStep
  PROVE  IInv'
<1>1. /\ TypeOK /\ OwnershipFollowsState /\ TurnOpenIffUnfinished
      /\ NoTurnWithoutRow /\ FactOnlyWhileStarted
  BY DEF IInv
<1>2. /\ host.epoch \in Nat /\ host'.epoch \in Nat /\ host.epoch <= host'.epoch
      /\ host.epoch > 0
  BY <1>1, EpochGrows DEF TypeOK, Epochs
<1>3. ASSUME NEW m \in Messages, row'[m].state \in Held
      PROVE  row'[m].owner = None /\ row'[m].epoch = 0
  <2>1. Kept(m) \/ Accepted(m) \/ Requeued(m) \/ TakenBack(m) \/ row'[m].state \notin Held
    BY PromptMoves
    DEF Taken, Advanced, Withdrawn, Ended, Lost, Reported, Kept, Held
  <2>2. TakenBack(m) => row'[m].owner = None /\ row'[m].epoch = 0
    BY <1>1, RowFields DEF TakenBack, Existing
  <2>. QED
    BY <1>1, <1>3, <2>1, <2>2 DEF Kept, Accepted, Requeued, OwnershipFollowsState
<1>4. ASSUME NEW m \in Messages, row'[m].state \in Owned
      PROVE  row'[m].owner \in Coordinators /\ row'[m].epoch \in 1..host'.epoch
  <2>1. \/ row'[m] = row[m]
        \/ \E s \in {"claimed", "launching"} : Taken(m, s)
        \/ Advanced(m, "claimed", "launching") \/ Advanced(m, "launching", "started")
    <3>1. TakenBack(m) => row'[m].state = "pending"
      BY <1>1, RowFields DEF TakenBack, Existing
    <3>. QED
      BY <1>4, <3>1, PromptMoves
      DEF Kept, Accepted, Requeued, Withdrawn, Ended, Lost, Reported, Held, Owned
  <2>. QED
    BY <1>1, <1>2, <1>4, <2>1 DEF Taken, Advanced, OwnershipFollowsState, Owned
<1>5. ASSUME NEW m \in Messages
      PROVE  /\ row'[m].state # "absent" =>
                    (turn'[m].phase = "active" <=> row'[m].state \notin Finished)
             /\ row'[m].state = "absent" => turn'[m] = NoTurn
             /\ turn'[m].phase = "active" /\ turn'[m].terminal # "none" =>
                    row'[m].state = "started"
  <2>1. /\ row[m].state # "absent" => (turn[m].phase = "active" <=> row[m].state \notin Finished)
        /\ row[m].state = "absent" => turn[m] = NoTurn
        /\ turn[m].phase = "active" /\ turn[m].terminal # "none" => row[m].state = "started"
    BY <1>1 DEF TurnOpenIffUnfinished, Existing, Open, NoTurnWithoutRow, FactOnlyWhileStarted
  <2>2. CASE Kept(m)
    BY <2>1, <2>2 DEF Kept
  <2>3. CASE Accepted(m)
    BY <2>3 DEF Accepted, Finished
  <2>4. CASE Requeued(m)
    BY <2>1, <2>4 DEF Requeued, Held, Finished
  <2>5. CASE TakenBack(m)
    <3>1. row'[m].state = "pending"
      BY <1>1, <2>5, RowFields DEF TakenBack, Existing
    <3>. QED
      BY <2>1, <2>5, <3>1 DEF TakenBack, Finished
  <2>6. CASE \E s \in {"claimed", "launching"} : Taken(m, s)
    BY <2>1, <2>6 DEF Taken, Finished
  <2>7. CASE Advanced(m, "claimed", "launching") \/ Advanced(m, "launching", "started")
    BY <2>1, <2>7 DEF Advanced, Finished
  <2>8. CASE Withdrawn(m) \/ Ended(m) \/ Lost(m)
    BY <2>8 DEF Withdrawn, Ended, Lost, Closed, Finished, TerminalPhases
  <2>9. CASE Reported(m)
    BY <2>1, <2>9 DEF Reported, Finished
  <2>. QED
    BY <2>2, <2>3, <2>4, <2>5, <2>6, <2>7, <2>8, <2>9, PromptMoves
<1>. QED
  BY <1>3, <1>4, <1>5
  DEF IInv, OwnershipFollowsState, TurnOpenIffUnfinished, Existing, Open,
      NoTurnWithoutRow, FactOnlyWhileStarted


\* A step of the specification keeps the inductive invariant.
LEMMA IInvInductive == IInv /\ TypeOK' /\ [Next]_vars => IInv'
<1>1. ASSUME IInv, TypeOK', Next
      PROVE  IInv'
  BY <1>1, StepsClassified, IInvStep
<1>2. ASSUME IInv, UNCHANGED vars
      PROVE  IInv'
  BY <1>2 DEF vars, IInv, TypeOK, OwnershipFollowsState, TurnOpenIffUnfinished, Existing,
              Open, NoTurnWithoutRow, FactOnlyWhileStarted
<1>. QED
  BY <1>1, <1>2

\* The inductive invariant holds in every reachable state.
THEOREM InductiveInvariant == Spec => []IInv
<1>1. Init /\ TypeOK => IInv
  BY DEF Init, IInv, OwnershipFollowsState, TurnOpenIffUnfinished, Existing, Open,
         NoTurnWithoutRow, FactOnlyWhileStarted, NoRow, NoTurn, Held, Owned, Finished
<1>. QED
  BY <1>1, IInvInductive, TypeCorrect, PTL DEF Spec

\* Recovery can find all in-flight work of a dead daemon: each claimed,
\* launching or started row names its owner and a reached epoch.
THEOREM OwnershipCorrect == Spec => []OwnershipFollowsState
<1>1. IInv => OwnershipFollowsState
  BY DEF IInv
<1>. QED
  BY <1>1, InductiveInvariant, PTL

\* No turn outlives its prompt and none is closed under a live one.
THEOREM TurnsFollowRows == Spec => []TurnOpenIffUnfinished
<1>1. IInv => TurnOpenIffUnfinished
  BY DEF IInv
<1>. QED
  BY <1>1, InductiveInvariant, PTL

\* What reached the provider, or may have, is never queued again.
THEOREM NeverReplayed == Spec => NoReplay
<1>. DEFINE Step ==
        \A m \in Messages :
            /\ row[m].state \in {"started"} \cup Finished =>
                    row'[m].state \in {"started"} \cup Finished
            /\ row[m].state \in Finished => row'[m].state = row[m].state
            /\ row[m].state = "launching" /\ row'[m].state \in Held =>
                    row[m].epoch = host.epoch
<1>1. IInv /\ [Next]_vars => [Step]_vars
  <2>. SUFFICES ASSUME IInv, Next, NEW m \in Messages
                PROVE  /\ row[m].state \in {"started"} \cup Finished =>
                            row'[m].state \in {"started"} \cup Finished
                       /\ row[m].state \in Finished => row'[m].state = row[m].state
                       /\ row[m].state = "launching" /\ row'[m].state \in Held =>
                            row[m].epoch = host.epoch
    OBVIOUS
  <2>. QED
    BY StepsClassified, PromptMoves
    DEF Kept, Accepted, Requeued, TakenBack, Taken, Advanced, Withdrawn, Ended, Lost,
        Reported, Current, Held, Owned, Finished
<1>. QED
  BY <1>1, InductiveInvariant, PTL DEF Spec, NoReplay

\* A turn gets one phase and one terminal fact, whoever else tries to end it.
THEOREM EndsOnce == Spec => TurnEndsOnce
<1>. DEFINE Step ==
        \A m \in Messages :
            /\ turn[m].phase \in TerminalPhases => turn'[m] = turn[m]
            /\ turn[m].terminal # "none" => turn'[m].terminal = turn[m].terminal
<1>1. IInv /\ [Next]_vars => [Step]_vars
  <2>. SUFFICES ASSUME IInv, Next, NEW m \in Messages
                PROVE  /\ turn[m].phase \in TerminalPhases => turn'[m] = turn[m]
                       /\ turn[m].terminal # "none" => turn'[m].terminal = turn[m].terminal
    OBVIOUS
  <2>1. row[m].state = "started" => Open(m)
    BY DEF IInv, TurnOpenIffUnfinished, Existing, Finished
  <2>2. row[m].state = "absent" => turn[m] = NoTurn
    BY DEF IInv, NoTurnWithoutRow
  <2>3. Open(m) => turn[m].phase \notin TerminalPhases
    BY DEF Open, TerminalPhases
  <2>. QED
    BY <2>1, <2>2, <2>3, StepsClassified, PromptMoves
    DEF Kept, Accepted, Requeued, TakenBack, Taken, Advanced, Withdrawn, Ended, Lost,
        Reported, Closed, NoTurn, TerminalPhases
<1>. QED
  BY <1>1, InductiveInvariant, PTL DEF Spec, TurnEndsOnce

\* In-flight work of a dead epoch is out of every coordinator's reach: only
\* recovery moves it, a claim to the queue and a launch to unprovable.
THEOREM DeadEpochFenced == Spec => DeadEpochIsFenced
<1>. DEFINE Step ==
        \A m \in Messages :
            row[m].state \in Owned /\ Stale(m, host.epoch) /\ row'[m] # row[m] =>
                \/ row[m].state = "claimed" /\ row'[m] = FreedRow(m, "pending")
                \/ row[m].state # "claimed" /\ row'[m].state = "unprovable"
<1>1. IInv /\ [Next]_vars => [Step]_vars
  <2>. SUFFICES ASSUME IInv, Next, NEW m \in Messages,
                       row[m].state \in Owned, Stale(m, host.epoch), row'[m] # row[m]
                PROVE  \/ row[m].state = "claimed" /\ row'[m] = FreedRow(m, "pending")
                       \/ row[m].state # "claimed" /\ row'[m].state = "unprovable"
    OBVIOUS
  <2>1. ~Current(m)
    BY DEF Current, Stale, IInv, OwnershipFollowsState, TypeOK, Epochs
  <2>. QED
    BY <2>1, StepsClassified, PromptMoves
    DEF Kept, Accepted, Requeued, TakenBack, Taken, Advanced, Withdrawn, Ended, Lost,
        Reported, Held, Owned
<1>. QED
  BY <1>1, InductiveInvariant, PTL DEF Spec, DeadEpochIsFenced


-----------------------------------------------------------------------------
(* The ledger implements at-most-once delivery.                             *)

\* Where a prompt is after a step that was not a step of the host epoch.
LEMMA DeliveryMoves ==
  ASSUME IInv, IInv', LedgerStep, host' = host, NEW m \in Messages
  PROVE  /\ Kept(m) => DeliveryOf(m)' = DeliveryOf(m) /\ OutcomeOf(m)' = OutcomeOf(m)
         /\ Requeued(m) \/ Taken(m, "claimed") =>
                /\ DeliveryOf(m) = "queued" /\ DeliveryOf(m)' = "queued"
                /\ OutcomeOf(m)' = OutcomeOf(m)
         /\ Withdrawn(m) =>
                /\ DeliveryOf(m) = "queued" /\ DeliveryOf(m)' = "over"
                /\ OutcomeOf(m)' \in TerminalPhases
         /\ Lost(m) =>
                /\ DeliveryOf(m) \in {"offered", "orphaned"}
                /\ DeliveryOf(m)' = "uncertain"
                /\ OutcomeOf(m)' \in TerminalPhases
<1>1. ASSUME Kept(m)
      PROVE  DeliveryOf(m)' = DeliveryOf(m) /\ OutcomeOf(m)' = OutcomeOf(m)
  BY <1>1 DEF Kept, DeliveryOf, OutcomeOf
<1>2. turn'[m] = turn[m] => OutcomeOf(m)' = OutcomeOf(m)
  BY DEF OutcomeOf
<1>3. ASSUME Requeued(m) \/ Taken(m, "claimed")
      PROVE  DeliveryOf(m) = "queued" /\ DeliveryOf(m)' = "queued"
  BY <1>3 DEF Requeued, Taken, DeliveryOf, Held
<1>4. Closed(m) => OutcomeOf(m)' \in TerminalPhases
  BY DEF Closed, OutcomeOf
<1>5. ASSUME Withdrawn(m)
      PROVE  DeliveryOf(m) = "queued" /\ DeliveryOf(m)' = "over"
  BY <1>5 DEF Withdrawn, DeliveryOf, Held
<1>6. ASSUME Lost(m)
      PROVE  DeliveryOf(m) \in {"offered", "orphaned"} /\ DeliveryOf(m)' = "uncertain"
  BY <1>6 DEF Lost, Current, DeliveryOf, Held
<1>. QED
  BY <1>1, <1>2, <1>3, <1>4, <1>5, <1>6 DEF Requeued, Taken, Withdrawn, Lost


\* Moving one prompt, and only it, is the abstract move.
LEMMA SingleMoves ==
  ASSUME IInv, IInv', SingleStep
  PROVE  [Delivery!Next]_(Delivery!vars)
<1>1. PICK m \in Messages : Move(m) /\ \A n \in Messages \ {m} : Kept(n)
  BY DEF SingleStep
<1>2. LedgerStep /\ host' = host
  BY DEF LedgerStep, SingleStep
<1>3. \A n \in Messages \ {m} :
        DeliveryOf(n)' = DeliveryOf(n) /\ OutcomeOf(n)' = OutcomeOf(n)
  BY <1>1, <1>2, DeliveryMoves
<1>4. turn'[m] = turn[m] => OutcomeOf(m)' = OutcomeOf(m)
  BY DEF OutcomeOf
<1>5. ASSUME NEW from, NEW to, DeliveryOf(m) = from, DeliveryOf(m)' = to,
             OutcomeOf(m)' = OutcomeOf(m)
      PROVE  Delivery!Moves(m, from, to)
  BY <1>3, <1>5 DEF Delivery!Moves
<1>6. ASSUME NEW from, NEW to, DeliveryOf(m) \in from, DeliveryOf(m)' = to,
             OutcomeOf(m)' \in TerminalPhases
      PROVE  Delivery!End({m}, from, to)
  <2>. DEFINE o == [n \in {m} |-> OutcomeOf(m)']
  <2>1. o \in [{m} -> TerminalPhases]
    BY <1>6
  <2>2. [n \in Messages |-> OutcomeOf(n)]' =
            [n \in Messages |-> IF n \in {m} THEN o[n] ELSE OutcomeOf(n)]
    BY <1>3
  <2>3. [n \in Messages |-> DeliveryOf(n)]' =
            [n \in Messages |-> IF n \in {m} THEN to ELSE DeliveryOf(n)]
    BY <1>3, <1>6
  <2>. HIDE DEF o
  <2>. QED
    BY <1>6, <2>1, <2>2, <2>3 DEF Delivery!End
<1>7. ASSUME DeliveryOf(m)' = DeliveryOf(m), OutcomeOf(m)' = OutcomeOf(m)
      PROVE  UNCHANGED Delivery!vars
  BY <1>3, <1>7 DEF Delivery!vars
<1>8. CASE Accepted(m)
  <2>1. DeliveryOf(m) = "unsent" /\ DeliveryOf(m)' = "queued"
    BY <1>8 DEF Accepted, DeliveryOf, Held
  <2>2. OutcomeOf(m) = "open" /\ OutcomeOf(m)' = "open"
    BY <1>8 DEF Accepted, OutcomeOf, TerminalPhases, NoTurn, IInv, NoTurnWithoutRow
  <2>. QED
    BY <1>5, <2>1, <2>2 DEF Delivery!Next, Delivery!Accept
<1>9. CASE Requeued(m)
  BY <1>2, <1>7, <1>9, DeliveryMoves
<1>10. CASE TakenBack(m)
  <2>1. m \in Existing /\ TypeOK
    BY <1>10 DEF TakenBack, Existing, IInv
  <2>2. row'[m].state = "pending"
    BY <1>10, <2>1, RowFields DEF TakenBack
  <2>3. DeliveryOf(m) = "offered" /\ DeliveryOf(m)' = "queued"
    BY <1>10, <2>2 DEF TakenBack, DeliveryOf, Current, Held
  <2>. QED
    BY <1>4, <1>5, <1>10, <2>3 DEF TakenBack, Delivery!Next, Delivery!TakeBack
<1>11. CASE Taken(m, "launching") \/ Advanced(m, "claimed", "launching")
  <2>1. DeliveryOf(m) = "queued" /\ DeliveryOf(m)' = "offered"
    BY <1>2, <1>11 DEF Taken, Advanced, Current, DeliveryOf, Held
  <2>. QED
    BY <1>4, <1>5, <1>11, <2>1 DEF Taken, Advanced, Delivery!Next, Delivery!Offer
<1>12. CASE Advanced(m, "launching", "started")
  <2>1. DeliveryOf(m) = "offered" /\ DeliveryOf(m)' = "running"
    BY <1>2, <1>12 DEF Advanced, Current, DeliveryOf, Held
  <2>. QED
    BY <1>4, <1>5, <1>12, <2>1 DEF Advanced, Delivery!Next, Delivery!Run
<1>13. CASE Withdrawn(m)
  <2>1. Delivery!End({m}, {"queued"}, "over")
    BY <1>2, <1>6, <1>13, DeliveryMoves
  <2>. QED
    BY <2>1 DEF Delivery!Next, Delivery!Withdraw
<1>14. CASE Ended(m)
  <2>1. DeliveryOf(m) \in {"offered", "running"} /\ DeliveryOf(m)' = "over"
    BY <1>14 DEF Ended, Current, DeliveryOf, Held
  <2>2. OutcomeOf(m)' \in TerminalPhases
    BY <1>14 DEF Ended, Closed, OutcomeOf
  <2>. QED
    BY <1>6, <2>1, <2>2 DEF Delivery!Next, Delivery!Finish
<1>15. CASE Lost(m)
  <2>1. Delivery!End({m}, {"offered", "orphaned"}, "uncertain")
    BY <1>2, <1>6, <1>15, DeliveryMoves
  <2>. QED
    BY <2>1 DEF Delivery!Next, Delivery!Lose
<1>16. CASE Reported(m)
  <2>1. DeliveryOf(m)' = DeliveryOf(m) /\ OutcomeOf(m)' = OutcomeOf(m)
    BY <1>2, <1>16 DEF Reported, DeliveryOf, OutcomeOf
  <2>. QED
    BY <1>7, <2>1
<1>. QED
  BY <1>1, <1>8, <1>9, <1>10, <1>11, <1>12, <1>13, <1>14, <1>15, <1>16 DEF Move

\* A step that ends the prompts of S and keeps the place of all others ends S.
LEMMA SetEnds ==
  ASSUME NEW S \in SUBSET Messages, S # {}, NEW from, NEW to,
         \A m \in S : /\ DeliveryOf(m) \in from /\ DeliveryOf(m)' = to
                      /\ OutcomeOf(m)' \in TerminalPhases,
         \A m \in Messages \ S : /\ DeliveryOf(m)' = DeliveryOf(m)
                                 /\ OutcomeOf(m)' = OutcomeOf(m)
  PROVE  Delivery!End(S, from, to)
<1>. DEFINE o == [n \in S |-> OutcomeOf(n)']
<1>1. o \in [S -> TerminalPhases]
  OBVIOUS
<1>2. [n \in Messages |-> OutcomeOf(n)]' =
        [n \in Messages |-> IF n \in S THEN o[n] ELSE OutcomeOf(n)]
  OBVIOUS
<1>3. [n \in Messages |-> DeliveryOf(n)]' =
        [n \in Messages |-> IF n \in S THEN to ELSE DeliveryOf(n)]
  OBVIOUS
<1>. HIDE DEF o
<1>. QED
  BY <1>1, <1>2, <1>3 DEF Delivery!End

\* Every step of the ledger is a step of the promise, or no step.
LEMMA StepsImplement ==
  ASSUME IInv, IInv', LedgerStep
  PROVE  [Delivery!Next]_(Delivery!vars)
<1>1. CASE QuietStep /\ host'.epoch = host.epoch
  <2>1. \A m \in Messages : DeliveryOf(m)' = DeliveryOf(m) /\ OutcomeOf(m)' = OutcomeOf(m)
    BY <1>1 DEF QuietStep, Kept, DeliveryOf, OutcomeOf
  <2>. QED
    BY <2>1 DEF Delivery!vars
<1>2. CASE QuietStep /\ host'.epoch = host.epoch + 1
  <2>1. ASSUME NEW m \in Messages
        PROVE  /\ DeliveryOf(m)' = IF DeliveryOf(m) \in {"offered", "running"}
                                   THEN "orphaned" ELSE DeliveryOf(m)
               /\ OutcomeOf(m)' = OutcomeOf(m)
    <3>1. row'[m] = row[m] /\ turn'[m] = turn[m]
      BY <1>2 DEF QuietStep, Kept
    <3>2. row[m].state \in Owned => row[m].epoch # host'.epoch
      BY <1>2 DEF IInv, OwnershipFollowsState, TypeOK, Epochs
    <3>3. /\ row[m].state \in {"launching", "started"} => DeliveryOf(m)' = "orphaned"
          /\ row[m].state \notin {"launching", "started"} => DeliveryOf(m)' = DeliveryOf(m)
      BY <3>1, <3>2 DEF DeliveryOf, Held, Owned
    <3>4. /\ row[m].state \in {"launching", "started"} =>
                DeliveryOf(m) \in {"offered", "running", "orphaned"}
          /\ row[m].state \notin {"launching", "started"} =>
                DeliveryOf(m) \notin {"offered", "running"}
      BY DEF DeliveryOf, Held
    <3>. QED
      BY <3>1, <3>3, <3>4 DEF OutcomeOf
  <2>. QED
    BY <2>1 DEF Delivery!Next, Delivery!Restart
<1>3. CASE SingleStep
  BY <1>3, SingleMoves
<1>4. CASE ClaimStep
  <2>1. PICK ended \in SUBSET Messages :
            /\ \A m \in ended : Withdrawn(m)
            /\ \A m \in Messages \ ended : Kept(m) \/ Taken(m, "claimed")
    BY <1>4 DEF ClaimStep
  <2>2. host' = host
    BY <1>4 DEF ClaimStep
  <2>3. \A m \in ended : /\ DeliveryOf(m) \in {"queued"} /\ DeliveryOf(m)' = "over"
                         /\ OutcomeOf(m)' \in TerminalPhases
    BY <2>1, <2>2, DeliveryMoves
  <2>4. \A m \in Messages \ ended : /\ DeliveryOf(m)' = DeliveryOf(m)
                                    /\ OutcomeOf(m)' = OutcomeOf(m)
    BY <2>1, <2>2, DeliveryMoves
  <2>5. ended = {} => UNCHANGED Delivery!vars
    BY <2>4 DEF Delivery!vars
  <2>6. ended # {} => Delivery!Withdraw(ended)
    BY <2>3, <2>4, SetEnds DEF Delivery!Withdraw
  <2>. QED
    BY <2>5, <2>6 DEF Delivery!Next
<1>5. CASE RecoveryStep
  <2>1. PICK lost \in SUBSET Messages :
            /\ \A m \in lost : Lost(m)
            /\ \A m \in Messages \ lost : Kept(m) \/ Requeued(m)
    BY <1>5 DEF RecoveryStep
  <2>2. host' = host
    BY <1>5 DEF RecoveryStep
  <2>3. \A m \in lost : /\ DeliveryOf(m) \in {"offered", "orphaned"}
                        /\ DeliveryOf(m)' = "uncertain"
                        /\ OutcomeOf(m)' \in TerminalPhases
    BY <2>1, <2>2, DeliveryMoves
  <2>4. \A m \in Messages \ lost : /\ DeliveryOf(m)' = DeliveryOf(m)
                                   /\ OutcomeOf(m)' = OutcomeOf(m)
    BY <2>1, <2>2, DeliveryMoves
  <2>5. lost = {} => UNCHANGED Delivery!vars
    BY <2>4 DEF Delivery!vars
  <2>6. lost # {} => Delivery!Lose(lost)
    BY <2>3, <2>4, SetEnds DEF Delivery!Lose
  <2>. QED
    BY <2>5, <2>6 DEF Delivery!Next
<1>. QED
  BY <1>1, <1>2, <1>3, <1>4, <1>5 DEF LedgerStep, QuietStep

\* The ledger implements PromptDelivery: each prompt is handed over at most
\* once and gets one outcome, through crashes, steers and concurrent owners.
THEOREM LedgerImplementsDelivery == Spec => ImplementsDelivery
<1>1. Init => Delivery!Init
  <2>. SUFFICES ASSUME Init PROVE Delivery!Init
    OBVIOUS
  <2>1. \A m \in Messages : row[m].state = "absent" /\ turn[m].phase = "none"
    BY DEF Init, NoRow, NoTurn
  <2>2. \A m \in Messages : DeliveryOf(m) = "unsent" /\ OutcomeOf(m) = "open"
    BY <2>1 DEF DeliveryOf, OutcomeOf, Held, TerminalPhases
  <2>. QED
    BY <2>2 DEF Delivery!Init
<1>2. IInv /\ IInv' /\ [Next]_vars => [Delivery!Next]_(Delivery!vars)
  <2>1. ASSUME IInv, IInv', Next
        PROVE  [Delivery!Next]_(Delivery!vars)
    BY <2>1, StepsClassified, StepsImplement
  <2>2. ASSUME UNCHANGED vars
        PROVE  UNCHANGED Delivery!vars
    BY <2>2 DEF vars, Delivery!vars, DeliveryOf, OutcomeOf
  <2>. QED
    BY <2>1, <2>2
<1>. QED
  BY <1>1, <1>2, InductiveInvariant, PTL DEF Spec, ImplementsDelivery, Delivery!Spec

-----------------------------------------------------------------------------
(***************************************************************************)
(* What the other tables have to do with the rows and turns: permissions,   *)
(* installs, quiescence, terminal facts and ended goals. These proofs start *)
(* from the inductive invariant and the classification of steps above, and  *)
(* from a second, finer classification by the statements a transaction      *)
(* executes.                                                                *)
(***************************************************************************)
(* What a transaction writes to rows, turns and permissions.                *)

Unfinished == RowStates \ Finished

Rests == UNCHANGED <<row, turn, permission, steer>>

Targets(m, t) ==
    t # m /\ Open(t) /\ steer' = [steer EXCEPT ![m] = [state |-> "requested", turn |-> t]]

Asks(m, t) ==
    /\ row[m].state \in Held /\ steer[m].state # "claimed"
    /\ Targets(m, t) /\ UNCHANGED <<row, turn, permission>>

Expires(m) ==
    /\ row[m].state \in Held
    /\ steer' = [steer EXCEPT ![m] = Expired(@)]
    /\ UNCHANGED <<row, turn, permission>>

Saves(m, r, k) ==
    /\ row[m].state = "absent"
    /\ row' = [row EXCEPT ![m] = [NoRow EXCEPT !.state = "awaiting", !.run = r,
                                               !.kind = k, !.rowid = NextRowid]]
    /\ turn' = [turn EXCEPT ![m] = [phase |-> "active", terminal |-> "none"]]
    /\ permission' = permission
    /\ m \in Continuations => k = "send"
    /\ steer' = steer \/ \E t \in Messages : Targets(m, t)

Updated(m, s) == row' = Moved(m, s) \/ row' = Freed(m, s)

Changes(m, s) ==
    /\ row[m].state \in Unfinished \ {"started"}
    /\ row[m].state \in Held => s \in Held
    /\ s # "claimed" /\ (s = "started" => row[m].via = "turn")
    /\ s = "launching" => row[m].state = "claimed"
    /\ row[m].state \in Owned => s \in {"pending", "launching", "started"}
    /\ Updated(m, s) /\ UNCHANGED <<turn, permission>>
    /\ steer' = IF row[m].state = "launching" /\ s = "pending"
                THEN [steer EXCEPT ![m] = Expired(@)] ELSE steer

StartsSteered(m) ==
    /\ row[m].state = "launching" /\ steer[m].state = "none"
    /\ row' = [row EXCEPT ![m].state = "started", ![m].via = "turn"]
    /\ UNCHANGED <<turn, permission, steer>>

Steers(m, c) ==
    /\ row[m].state = "pending" /\ row[m].kind = "queue"
    /\ SteerWanted(m)
    /\ row' = [row EXCEPT ![m] = TakenRow(m, "launching", c, "steer")]
    /\ steer' = IF steer[m].state = "requested"
                THEN [steer EXCEPT ![m].state = "claimed"] ELSE steer
    /\ UNCHANGED <<turn, permission>>

Ends(m, s, phase) ==
    /\ row[m].state \in Unfinished
    /\ Updated(m, s)
    /\ turn' = TurnsClosed({m}, phase)
    /\ permission' = PermissionsOfClosed({m})
    /\ \/ s = "settled" /\ row[m].state # "launching" /\ steer' = SteersOfClosed({m})
       \/ s = "unprovable" /\ steer' = UnprovableExpired(row', SteersOfClosed({m}))

Delivers(m) ==
    /\ row[m].state = "launching" /\ row[m].via = "steer" /\ Open(m)
    /\ row' = Moved(m, "settled")
    /\ turn' = [turn EXCEPT ![m].phase = "completed"]
    /\ permission' = permission
    /\ steer' = IF steer[m].state = "none" THEN steer
                ELSE [steer EXCEPT ![m].state = "delivered"]

Claims(m, c, ended) ==
    /\ row[m].state = "pending" /\ ~Inactive(m)
    /\ \A n \in ended : row[n].state = "pending"
    /\ row' = [n \in Messages |->
                CASE n \in ended -> FreedRow(n, "settled")
                  [] n = m -> TakenRow(m, "claimed", c, "turn")
                  [] OTHER -> row[n]]
    /\ turn' = TurnsClosed(ended, "cancelled")
    /\ permission' = PermissionsOfClosed(ended)
    /\ steer' = SteersOfClosed(ended)

Cancels(ended) ==
    /\ \A n \in ended : row[n].state = "pending"
    /\ row' = [n \in Messages |-> IF n \in ended THEN FreedRow(n, "settled") ELSE row[n]]
    /\ turn' = TurnsClosed(ended, "cancelled")
    /\ permission' = PermissionsOfClosed(ended)
    /\ steer' = SteersOfClosed(ended)

Reports(m, phase) ==
    /\ row[m].state = "started"
    /\ turn' = [turn EXCEPT ![m].terminal = phase]
    /\ UNCHANGED <<row, permission, steer>>

Answers(r) ==
    /\ permission' = [permission EXCEPT ![r] = NoPermission]
    /\ UNCHANGED <<row, turn, steer>>

InstallEndings == {"settled", "rejected", "unprovable"}

Effect ==
    \/ Rests
    \/ \E m \in Messages :
        \/ \E r \in Runs, k \in {"send", "queue"} : Saves(m, r, k)
        \/ \E s \in Unfinished : Changes(m, s)
        \/ StartsSteered(m) \/ Delivers(m)
        \/ \E s \in Finished, phase \in TerminalPhases : Ends(m, s, phase)
        \/ \E phase \in TerminalPhases : Reports(m, phase)
        \/ \E t \in Messages : Asks(m, t)
        \/ Expires(m)
    \/ \E c \in Coordinators, m \in Messages :
        \/ Steers(m, c) \/ SavePermission(c, m)
        \/ \E ended \in SUBSET (Messages \ {m}) : Claims(m, c, ended)
    \/ \E ended \in SUBSET Messages : Cancels(ended)
    \/ \E r \in Runs : Answers(r)
    \/ \E c \in Coordinators : Recover(c)

\* The outcomes a caller reports are terminal phases.
LEMMA OutcomesEndTurns == Outcomes \subseteq TerminalPhases
BY PromptLedgerAssumption DEF PromptLedgerAssumption, TerminalPhases

\* Saving prompts, admitting them and installing their provider.
LEMMA AdmissionEffects ==
  ASSUME IInv, NEW c \in Coordinators, Admission(c)
  PROVE  Effect
<1>1. PICK m \in Messages :
        \/ \E r \in Runs, k \in Kinds : SavePrompt(c, m, r, k)
        \/ \E t \in Messages : SavePromptForTurn(c, m, t)
        \/ \E t \in Messages : RequestSteer(c, m, t)
        \/ RequestLegacySteer(c, m)
        \/ CancelQueued(c, m)
        \/ ReleaseReady(c, m)
        \/ \E phase \in Outcomes \cap {"failed", "cancelled"} : FailReadiness(c, m, phase)
        \/ ReserveInstall(c, m)
  BY DEF Admission
<1>2. ASSUME NEW r \in Runs, NEW k \in Kinds, SavePrompt(c, m, r, k)
      PROVE  Saves(m, r, k) /\ k \in {"send", "queue"}
  BY <1>2, PromptLedgerAssumption DEF PromptLedgerAssumption, SavePrompt, Insert, Saves
<1>3. ASSUME NEW t \in Messages, SavePromptForTurn(c, m, t)
      PROVE  Saves(m, row[t].run, "queue") /\ row[t].run \in Runs
  BY <1>3 DEF SavePromptForTurn, Live, OnCurrentRun, Insert, Saves, Targets, Open
<1>4. ASSUME RequestLegacySteer(c, m)
      PROVE  Rests
  BY <1>4 DEF RequestLegacySteer, Rests
<1>5. ASSUME CancelQueued(c, m)
      PROVE  Ends(m, "settled", "cancelled")
  BY <1>5 DEF CancelQueued, Queued, SettleTurn, Ends, Updated, Freed, Unfinished,
              RowStates, Held, Owned, Finished
<1>6. ASSUME ReleaseReady(c, m)
      PROVE  Changes(m, "pending")
  BY <1>6 DEF ReleaseReady, Changes, Updated, Unfinished, RowStates, Held, Owned, Finished
<1>7. ASSUME NEW phase \in Outcomes, FailReadiness(c, m, phase)
      PROVE  Ends(m, "settled", phase)
  BY <1>7 DEF FailReadiness, SettleTurn, Ends, Updated, Unfinished,
              RowStates, Held, Owned, Finished
<1>8. ASSUME ReserveInstall(c, m)
      PROVE  Changes(m, "provisioning")
  BY <1>8 DEF ReserveInstall, InstallOwns, Changes, Updated, Unfinished,
              RowStates, Held, Owned, Finished
<1>9. /\ {"settled"} \subseteq Finished /\ {"cancelled"} \subseteq TerminalPhases
      /\ {"pending", "provisioning"} \subseteq Unfinished
  BY DEF Finished, Unfinished, RowStates, Held, Owned, TerminalPhases
<1>10. ASSUME NEW t \in Messages, RequestSteer(c, m, t)
       PROVE  Asks(m, t)
  BY <1>10 DEF RequestSteer, Asks, Targets, Queued, Live, Open, Held
<1>. QED
  BY <1>1, <1>2, <1>3, <1>4, <1>5, <1>6, <1>7, <1>8, <1>9, <1>10, OutcomesEndTurns
  DEF Effect

\* The outcome of an install.
LEMMA InstallerEffects ==
  ASSUME IInv, Installer
  PROVE  Effect
<1>1. PICK m \in Messages, status \in InstallEndings, s \in {"awaiting", "pending"} :
        InstallEnds(m, status, s)
  BY DEF Installer, SettleInstall, RejectInstallBeforeEffect, SettleInstallUnprovable,
         InstallEndings
<1>2. Changes(m, s) /\ s \in Unfinished
  BY <1>1 DEF InstallEnds, InstallOwns, Changes, Updated, Unfinished,
              RowStates, Held, Owned, Finished
<1>. QED
  BY <1>2 DEF Effect

\* Claiming, launching and ending an ordinary turn.
LEMMA DispatchEffects ==
  ASSUME IInv, NEW c \in Coordinators, Dispatch(c)
  PROVE  Effect
<1>1. ASSUME NEW p \in Providers, NEW X \in SUBSET Runs, Claim(c, p, X)
      PROVE  \E m \in Messages : \E ended \in SUBSET (Messages \ {m}) : Claims(m, c, ended)
  <2>. DEFINE S == Claimable(p, X)
  <2>1. PICK m \in S : /\ Oldest(m, {n \in S : ~Inactive(n)})
                       /\ ClaimPrompt(c, m, InactiveBefore(S, m))
    BY <1>1 DEF Claim
  <2>2. m \in Messages /\ row[m].state = "pending" /\ ~Inactive(m)
    BY <2>1 DEF Claimable, Existing, Oldest
  <2>3. /\ InactiveBefore(S, m) \in SUBSET (Messages \ {m})
        /\ \A n \in InactiveBefore(S, m) : row[n].state = "pending"
    BY <2>2 DEF InactiveBefore, Claimable, Existing
  <2>. HIDE DEF S
  <2>4. Claims(m, c, InactiveBefore(S, m))
    BY <2>1, <2>2, <2>3 DEF ClaimPrompt, Claims
  <2>. QED
    BY <2>2, <2>3, <2>4
<1>2. ASSUME NEW p \in Providers, NEW X \in SUBSET Runs, ClaimNothing(c, p, X)
      PROVE  \E ended \in SUBSET Messages : Cancels(ended)
  <2>1. /\ Claimable(p, X) \in SUBSET Messages
        /\ \A n \in Claimable(p, X) : row[n].state = "pending"
    BY DEF Claimable, Existing
  <2>2. Cancels(Claimable(p, X))
    BY <1>2, <2>1 DEF ClaimNothing, Cancels
  <2>. QED
    BY <2>1, <2>2
<1>3. ASSUME NEW m \in Messages
      PROVE  /\ BeginLaunch(c, m) => Changes(m, "launching")
             /\ ReleaseClaim(c, m) => Changes(m, "pending")
             /\ ConfirmStarted(c, m) => Changes(m, "started")
             /\ ReleaseUnstartedLaunch(c, m) => Changes(m, "pending")
  BY DEF BeginLaunch, ReleaseClaim, ConfirmStarted, ReleaseUnstartedLaunch, Transition,
         Changes, Updated, Unfinished, RowStates, Held, Owned, Finished
<1>4. ASSUME NEW m \in Messages
      PROVE  /\ FailPrelaunch(c, m) => Ends(m, "settled", "failed")
             /\ MarkUnprovable(c, m) => Ends(m, "unprovable", "failed")
             /\ \A phase \in Outcomes : SettleTerminal(c, m, phase) => Ends(m, "settled", phase)
  BY DEF FailPrelaunch, MarkUnprovable, SettleTerminal, Bound, SettleTurn, Ends, Updated,
         Unfinished, RowStates, Held, Owned, Finished
<1>5. /\ {"settled", "unprovable"} \subseteq Finished /\ {"failed"} \subseteq TerminalPhases
      /\ {"pending", "launching", "started"} \subseteq Unfinished
  BY DEF Finished, Unfinished, RowStates, Held, Owned, TerminalPhases
<1>. QED
  BY <1>1, <1>2, <1>3, <1>4, <1>5, OutcomesEndTurns DEF Dispatch, Effect

\* Steering into a running turn.
LEMMA SteeringEffects ==
  ASSUME IInv, NEW c \in Coordinators, Steering(c)
  PROVE  Effect
<1>1. ASSUME NEW m \in Messages, NEW t \in Messages, ClaimSteered(c, m, t)
      PROVE  Steers(m, c)
  BY <1>1 DEF ClaimSteered, Steers
<1>2. ASSUME NEW m \in Messages, NEW t \in Messages, ExpireSteer(c, m, t)
      PROVE  Expires(m)
  BY <1>2 DEF ExpireSteer, Oldest, HeldOfRun, Expires
<1>3. ASSUME NEW m \in Messages, NEW t \in Messages, DeliverSteered(c, m, t)
      PROVE  Delivers(m)
  BY <1>3 DEF DeliverSteered, Delivers
<1>4. ASSUME NEW m \in Messages, StartSteeredTurn(c, m)
      PROVE  StartsSteered(m)
  BY <1>4 DEF StartSteeredTurn, StartsSteered
<1>. QED
  BY <1>1, <1>2, <1>3, <1>4 DEF Steering, Effect

\* What the provider reports.
LEMMA ProviderEffects ==
  ASSUME IInv, NEW c \in Coordinators, Provider(c)
  PROVE  Effect
<1>1. ASSUME NEW m \in Messages, AnnounceSession(c, m) \/ RetireSession(c, m)
      PROVE  Rests
  BY <1>1 DEF AnnounceSession, RetireSession, Rests
<1>2. ASSUME NEW m \in Messages, NEW phase \in Outcomes, RecordProviderTerminal(c, m, phase)
      PROVE  Reports(m, phase)
  BY <1>2 DEF RecordProviderTerminal, Bound, Reports
<1>. QED
  BY <1>1, <1>2, OutcomesEndTurns DEF Provider, Effect

\* The host epoch, recovery, the selection and the goal.
LEMMA HostEffects ==
  ASSUME IInv, NEW c \in Coordinators, Host(c) \/ Goal(c)
  PROVE  Effect
<1>1. ASSUME \/ CloseIngress(c) \/ QuiesceIdleOwner(c) \/ FenceAndOpen(c) \/ Join(c)
             \/ \E r \in Runs : Switch(c, r)
             \/ Goal(c)
      PROVE  Rests
  BY <1>1 DEF CloseIngress, QuiesceIdleOwner, CloseUnder, FenceAndOpen, Join, Switch,
              Goal, EndGoal, ResumeGoal, SetGoal, Rests
<1>. QED
  BY <1>1 DEF Host, Effect

\* Every transaction has one of the effects.
LEMMA StepsHaveEffects == IInv /\ Next => Effect
<1>1. ASSUME NEW r \in Runs, AnswerPermission(r)
      PROVE  Answers(r)
  BY <1>1 DEF AnswerPermission, Answers
<1>2. (\E r \in Runs : AnswerPermission(r)) => Effect
  BY <1>1 DEF Effect
<1>. QED
  BY <1>2, AdmissionEffects, InstallerEffects, DispatchEffects, SteeringEffects,
     ProviderEffects, HostEffects DEF Next

-----------------------------------------------------------------------------
(* An owner that quiesced left nothing in flight.                           *)

\* Nothing writes a row or a permission while the ingress is closed but the
\* failure of an install, a permission and its answer, and the host's own calls.
LEMMA WritersNeedIngress ==
  ASSUME Next
  PROVE  \/ host.ingress = "open" /\ UNCHANGED host
         \/ UNCHANGED <<host, row, permission>>
         \/ \E m \in Messages, status \in InstallEndings, state \in Held :
                InstallEnds(m, status, state)
         \/ \E c \in Coordinators, m \in Messages : SavePermission(c, m)
         \/ \E r \in Runs : AnswerPermission(r)
         \/ \E c \in Coordinators :
                CloseIngress(c) \/ QuiesceIdleOwner(c) \/ FenceAndOpen(c)
<1>1. ASSUME NEW c \in Coordinators, Admission(c)
      PROVE  host.ingress = "open" /\ UNCHANGED host
  BY <1>1 DEF Admission, SavePrompt, SavePromptForTurn, Insert, RequestSteer,
              RequestLegacySteer, CancelQueued, ReleaseReady, FailReadiness,
              ReserveInstall, RequireOpen
<1>2. ASSUME NEW c \in Coordinators, Dispatch(c)
      PROVE  host.ingress = "open" /\ UNCHANGED host
  BY <1>2 DEF Dispatch, Claim, ClaimNothing, BeginLaunch, ReleaseClaim, ConfirmStarted,
              ReleaseUnstartedLaunch, Transition, FailPrelaunch, MarkUnprovable,
              SettleTerminal, RequireOpen
<1>3. ASSUME NEW c \in Coordinators, Steering(c)
      PROVE  host.ingress = "open" /\ UNCHANGED host
  BY <1>3 DEF Steering, ClaimSteered, ExpireSteer, DeliverSteered, StartSteeredTurn,
              RequireOpen
<1>4. ASSUME NEW c \in Coordinators, Provider(c),
             ~ \E m \in Messages : SavePermission(c, m)
      PROVE  UNCHANGED <<host, row, permission>>
  BY <1>4 DEF Provider, AnnounceSession, RetireSession, RecordProviderTerminal
<1>5. ASSUME NEW c \in Coordinators, Host(c) \/ Goal(c),
             ~ (CloseIngress(c) \/ QuiesceIdleOwner(c) \/ FenceAndOpen(c))
      PROVE  \/ host.ingress = "open" /\ UNCHANGED host
             \/ UNCHANGED <<host, row, permission>>
  BY <1>5 DEF Host, Join, Recover, Switch, Goal, EndGoal, ResumeGoal, SetGoal, RequireOpen
<1>6. ASSUME Installer
      PROVE  \E m \in Messages, status \in InstallEndings, state \in Held :
                InstallEnds(m, status, state)
  BY <1>6 DEF Installer, SettleInstall, RejectInstallBeforeEffect,
              SettleInstallUnprovable, InstallEndings, Held
<1>. QED
  BY <1>1, <1>2, <1>3, <1>4, <1>5, <1>6 DEF Next

\* Quiescence is inductive once it says that the ingress is closed: whatever
\* could start work is then refused until a successor opens a new epoch.
QuietWhileIdle == (host.idle => host.ingress = "closed") /\ QuiescedIsIdle

\* After quiesce_idle_owner nothing is in flight and no permission is pending,
\* until the next epoch, although installs and permissions are not fenced.
THEOREM QuiescenceHolds == Spec => []QuiescedIsIdle
<1>1. Init => QuietWhileIdle
  BY DEF Init, QuietWhileIdle, QuiescedIsIdle
<1>2. TypeOK /\ QuietWhileIdle /\ [Next]_vars => QuietWhileIdle'
  <2>. SUFFICES ASSUME TypeOK, QuietWhileIdle, [Next]_vars PROVE QuietWhileIdle'
    OBVIOUS
  <2>1. CASE host.ingress = "open" /\ UNCHANGED host
    BY <2>1 DEF QuietWhileIdle, QuiescedIsIdle
  <2>2. CASE UNCHANGED <<host, row, permission>>
    BY <2>2 DEF QuietWhileIdle, QuiescedIsIdle
  <2>3. ASSUME NEW m \in Messages, NEW status \in InstallEndings, NEW state \in Held,
               InstallEnds(m, status, state)
        PROVE  QuietWhileIdle'
    BY <2>3 DEF InstallEnds, InstallOwns, QuietWhileIdle, QuiescedIsIdle
  <2>4. ASSUME NEW c \in Coordinators, NEW m \in Messages, SavePermission(c, m)
        PROVE  QuietWhileIdle'
    BY <2>4 DEF SavePermission, Bound, Owned, QuietWhileIdle, QuiescedIsIdle
  <2>5. ASSUME NEW r \in Runs, AnswerPermission(r)
        PROVE  QuietWhileIdle'
    BY <2>5 DEF AnswerPermission, NoPermission, TypeOK, QuietWhileIdle, QuiescedIsIdle
  <2>6. ASSUME NEW c \in Coordinators,
               CloseIngress(c) \/ QuiesceIdleOwner(c) \/ FenceAndOpen(c)
        PROVE  QuietWhileIdle'
    <3>1. host \in [epoch : Epochs, ingress : {"open", "closed"}, idle : BOOLEAN]
      BY DEF TypeOK
    <3>2. CASE CloseIngress(c)
      <4>1. ~host.idle
        BY <3>2 DEF CloseIngress, CloseUnder, QuietWhileIdle
      <4>2. host'.idle = host.idle
        BY <3>1, <3>2 DEF CloseIngress
      <4>. QED
        BY <4>1, <4>2 DEF QuietWhileIdle, QuiescedIsIdle
    <3>3. CASE QuiesceIdleOwner(c)
      <4>1. host'.ingress = "closed" /\ UNCHANGED <<row, permission>>
        BY <3>1, <3>3 DEF QuiesceIdleOwner, CloseUnder
      <4>2. /\ \A m \in Messages : row[m].state \notin Owned \cup {"provisioning"}
            /\ \A r \in Runs : permission[r].turn = None
        BY <3>3 DEF QuiesceIdleOwner, InFlight
      <4>. QED
        BY <4>1, <4>2 DEF QuietWhileIdle, QuiescedIsIdle
    <3>4. CASE FenceAndOpen(c)
      BY <3>4 DEF FenceAndOpen, QuietWhileIdle, QuiescedIsIdle
    <3>. QED
      BY <2>6, <3>2, <3>3, <3>4
  <2>. QED
    BY <2>1, <2>2, <2>3, <2>4, <2>5, <2>6, WritersNeedIngress DEF vars
<1>3. QuietWhileIdle => QuiescedIsIdle
  BY DEF QuietWhileIdle
<1>. QED
  BY <1>1, <1>2, <1>3, TypeCorrect, PTL DEF Spec

-----------------------------------------------------------------------------
(* What the effects leave in a row.                                         *)

\* An UPDATE of the state, or of the owner, keeps the prompt's own columns.
LEMMA UpdateKeeps ==
  ASSUME TypeOK, NEW m \in Existing, NEW s, Updated(m, s)
  PROVE  /\ row'[m].state = s /\ row'[m].run = row[m].run
         /\ row'[m].kind = row[m].kind
         /\ \A n \in Messages \ {m} : row'[n] = row[n]
<1>1. row[m] \in Rows \ {NoRow} /\ m \in Messages /\ row \in [Messages -> Rows]
  BY DEF TypeOK, Existing, NoRow
<1>2. CASE row' = Moved(m, s)
  <2>1. row'[m] = [row[m] EXCEPT !.state = s]
    BY <1>1, <1>2 DEF Moved
  <2>. QED
    BY <1>1, <1>2, <2>1 DEF Rows, Moved
<1>3. CASE row' = Freed(m, s)
  <2>1. row'[m] = FreedRow(m, s)
    BY <1>1, <1>3 DEF Freed
  <2>. QED
    BY <1>1, <1>3, <2>1 DEF Rows, Freed, FreedRow
<1>. QED
  BY <1>2, <1>3 DEF Updated

\* So do a claim and a start.
LEMMA TakingKeeps ==
  ASSUME TypeOK, NEW m \in Existing, NEW s, NEW c, NEW via
  PROVE  /\ FreedRow(m, s).state = s /\ FreedRow(m, s).run = row[m].run
         /\ FreedRow(m, s).kind = row[m].kind
         /\ TakenRow(m, s, c, via).state = s /\ TakenRow(m, s, c, via).via = via
         /\ TakenRow(m, s, c, via).kind = row[m].kind
         /\ [row[m] EXCEPT !.state = s, !.via = via].state = s
         /\ [row[m] EXCEPT !.state = s, !.via = via].kind = row[m].kind
<1>1. row[m] \in Rows \ {NoRow}
  BY DEF TypeOK, Existing, NoRow
<1>. QED
  BY <1>1 DEF Rows, FreedRow, TakenRow

\* The row that recovery leaves of a prompt, by what it was doing.
LEMMA RecoveredRows ==
  ASSUME TypeOK, NEW c \in Coordinators, Recover(c), NEW m \in Messages
  PROVE  /\ row'[m].kind = row[m].kind
         /\ \/ row'[m] = row[m]
            \/ row[m].state \in {"provisioning", "claimed"}
               /\ row'[m].state \in {"awaiting", "pending"}
            \/ row[m].state \in {"launching", "started"} /\ row'[m].state = "unprovable"
<1>. DEFINE e == belief[c]
<1>1. row[m] \in Rows
  BY DEF TypeOK
<1>2. CASE m \in InterruptedInstalls(e)
  <2>1. row[m].state = "provisioning" /\ m \notin LostClaims(e) /\ m \notin LostLaunches(e)
    BY <1>2 DEF InterruptedInstalls, InstallOwns, LostClaims, LostLaunches
  <2>2. row'[m] = [row[m] EXCEPT !.state = "awaiting"]
    BY <1>2, <2>1 DEF Recover
  <2>3. row[m] \in Rows \ {NoRow}
    BY <1>1, <2>1 DEF NoRow
  <2>. QED
    BY <2>1, <2>2, <2>3 DEF Rows
<1>3. CASE m \in LostClaims(e)
  <2>1. /\ row[m].state = "claimed" /\ m \in Existing
        /\ m \notin InterruptedInstalls(e) /\ m \notin LostLaunches(e)
    BY <1>3 DEF InterruptedInstalls, InstallOwns, LostClaims, LostLaunches, Existing
  <2>2. row'[m] = FreedRow(m, "pending")
    BY <1>3, <2>1 DEF Recover
  <2>. QED
    BY <2>1, <2>2, TakingKeeps
<1>4. CASE m \in LostLaunches(e)
  <2>1. /\ row[m].state \in {"launching", "started"}
        /\ m \notin InterruptedInstalls(e) /\ m \notin LostClaims(e)
    BY <1>4 DEF InterruptedInstalls, InstallOwns, LostClaims, LostLaunches
  <2>2. row'[m] = [row[m] EXCEPT !.state = "unprovable"]
    BY <1>4, <2>1 DEF Recover
  <2>3. row[m] \in Rows \ {NoRow}
    BY <1>1, <2>1 DEF NoRow
  <2>. QED
    BY <2>1, <2>2, <2>3 DEF Rows
<1>5. CASE m \notin InterruptedInstalls(e) /\ m \notin LostClaims(e) /\ m \notin LostLaunches(e)
  BY <1>5 DEF Recover
<1>. QED
  BY <1>2, <1>3, <1>4, <1>5

\* A started row is touched only by what ends its turn, and by recovery.
LEMMA StartedRowsStay ==
  ASSUME IInv, Next, NEW m \in Messages, row[m].state = "started"
  PROVE  \/ row'[m] = row[m] /\ turn'[m].phase = turn[m].phase
         \/ \E s \in Finished, phase \in TerminalPhases : Ends(m, s, phase)
         \/ \E c \in Coordinators : Recover(c) /\ row[m].epoch < belief[c]
<1>1. row \in [Messages -> Rows] /\ turn \in [Messages -> Turns] /\ Existing \subseteq Messages
  BY DEF IInv, TypeOK, Existing
<1>2. CASE Rests
  BY <1>2 DEF Rests
<1>3. ASSUME NEW n \in Messages, NEW r \in Runs, NEW k \in {"send", "queue"}, Saves(n, r, k)
      PROVE  row'[m] = row[m] /\ turn'[m] = turn[m]
  BY <1>1, <1>3 DEF Saves
<1>4. ASSUME NEW n \in Messages, NEW s \in Unfinished, Changes(n, s)
      PROVE  row'[m] = row[m] /\ turn'[m] = turn[m]
  <2>1. n \in Existing /\ n # m
    BY <1>4 DEF Changes, Existing, Unfinished, RowStates, Held, Owned, Finished
  <2>. QED
    BY <1>4, <2>1, UpdateKeeps DEF Changes, IInv
<1>5. ASSUME NEW n \in Messages, StartsSteered(n) \/ Delivers(n)
      PROVE  row'[m] = row[m] /\ turn'[m] = turn[m]
  BY <1>1, <1>5 DEF StartsSteered, Delivers, Moved
<1>6. ASSUME NEW n \in Messages, NEW s \in Finished, NEW phase \in TerminalPhases,
             Ends(n, s, phase), n # m
      PROVE  row'[m] = row[m] /\ turn'[m] = turn[m]
  <2>1. n \in Existing
    BY <1>6 DEF Ends, Existing, Unfinished, RowStates, Held, Owned, Finished
  <2>. QED
    BY <1>6, <2>1, UpdateKeeps DEF Ends, TurnsClosed, IInv
<1>7. ASSUME NEW n \in Messages, NEW phase \in TerminalPhases, Reports(n, phase)
      PROVE  row'[m] = row[m] /\ turn'[m].phase = turn[m].phase
  BY <1>1, <1>7 DEF Reports, Turns
<1>8. ASSUME NEW c \in Coordinators, NEW n \in Messages, Steers(n, c)
      PROVE  row'[m] = row[m] /\ turn'[m] = turn[m]
  BY <1>1, <1>8 DEF Steers
<1>9. ASSUME NEW c \in Coordinators, NEW n \in Messages, SavePermission(c, n)
      PROVE  row'[m] = row[m] /\ turn'[m] = turn[m]
  BY <1>9 DEF SavePermission
<1>10. ASSUME NEW c \in Coordinators, NEW n \in Messages,
              NEW ended \in SUBSET (Messages \ {n}), Claims(n, c, ended)
       PROVE  row'[m] = row[m] /\ turn'[m] = turn[m]
  BY <1>10 DEF Claims, TurnsClosed
<1>11. ASSUME NEW ended \in SUBSET Messages, Cancels(ended)
       PROVE  row'[m] = row[m] /\ turn'[m] = turn[m]
  BY <1>11 DEF Cancels, TurnsClosed
<1>12. ASSUME NEW r \in Runs, Answers(r)
       PROVE  row'[m] = row[m] /\ turn'[m] = turn[m]
  BY <1>12 DEF Answers
<1>13. ASSUME NEW c \in Coordinators, Recover(c), ~(row[m].epoch < belief[c])
       PROVE  row'[m] = row[m] /\ turn'[m] = turn[m]
  <2>. DEFINE failed == LostLaunches(belief[c])
                          \cup {n \in Messages : row[n].state = "unprovable"}
  <2>1. m \notin failed
    BY <1>13 DEF LostLaunches, Stale
  <2>2. m \notin InterruptedInstalls(belief[c]) /\ m \notin LostClaims(belief[c])
        /\ m \notin LostLaunches(belief[c])
    BY <2>1 DEF InterruptedInstalls, InstallOwns, LostClaims
  <2>3. row'[m] = row[m]
    BY <1>13, <2>2 DEF Recover
  <2>4. turn' = TurnsClosed(failed, "failed")
    BY <1>13 DEF Recover
  <2>. HIDE DEF failed
  <2>. QED
    BY <2>1, <2>3, <2>4 DEF TurnsClosed
<1>. QED
  BY <1>2, <1>3, <1>4, <1>5, <1>6, <1>7, <1>8, <1>9, <1>10, <1>11, <1>12, <1>13,
     StepsHaveEffects DEF Effect, Asks, Expires

-----------------------------------------------------------------------------
(* Permissions.                                                             *)

\* A permission is saved, kept or deleted, whatever else a transaction does.
LEMMA PermissionMoves ==
  ASSUME IInv, Next, NEW r \in Runs
  PROVE  \/ permission'[r] = permission[r] \/ permission'[r] = NoPermission
         \/ \E c \in Coordinators, m \in Messages : SavePermission(c, m) /\ row[m].run = r
<1>1. permission \in [Runs -> Permissions]
  BY DEF IInv, TypeOK
<1>2. ASSUME NEW T, permission' = PermissionsOfClosed(T)
      PROVE  permission'[r] \in {permission[r], NoPermission}
  BY <1>2 DEF PermissionsOfClosed
<1>3. ASSUME NEW c \in Coordinators, NEW m \in Messages, SavePermission(c, m)
      PROVE  permission'[r] = permission[r] \/ row[m].run = r
  BY <1>1, <1>3 DEF SavePermission
<1>4. ASSUME NEW q \in Runs, Answers(q)
      PROVE  permission'[r] \in {permission[r], NoPermission}
  BY <1>1, <1>4 DEF Answers
<1>5. ASSUME NEW c \in Coordinators, Recover(c)
      PROVE  permission'[r] \in {permission[r], NoPermission}
  BY <1>5 DEF Recover, PermissionsOfClosed
<1>. QED
  BY <1>2, <1>3, <1>4, <1>5, StepsHaveEffects
  DEF Effect, Rests, Saves, Changes, StartsSteered, Steers, Ends, Delivers, Claims,
      Cancels, Reports, Asks, Expires

\* A pending permission always belongs to an open, started turn of its own run
\* and epoch: every call that ends a turn takes its permission with it.
THEOREM PermissionsAreLive == Spec => []PermissionOfRunningTurn
<1>1. Init => PermissionOfRunningTurn
  BY DEF Init, PermissionOfRunningTurn, NoPermission
<1>2. IInv /\ PermissionOfRunningTurn /\ [Next]_vars => PermissionOfRunningTurn'
  <2>1. ASSUME IInv, PermissionOfRunningTurn, Next, NEW r \in Runs, NEW m,
               m = permission'[r].turn, m # None
        PROVE  /\ row'[m].run = r /\ row'[m].state = "started" /\ turn'[m].phase = "active"
               /\ permission'[r].epoch = row'[m].epoch
    <3>1. permission'[r] # NoPermission
      BY <2>1 DEF NoPermission
    <3>2. ASSUME NEW c \in Coordinators, NEW n \in Messages,
                 SavePermission(c, n), row[n].run = r
          PROVE  /\ row'[m].run = r /\ row'[m].state = "started"
                 /\ turn'[m].phase = "active"
                 /\ permission'[r].epoch = row'[m].epoch
      <4>1. permission'[r] = [turn |-> n, epoch |-> belief[c]]
        BY <2>1, <3>2 DEF SavePermission, IInv, TypeOK
      <4>2. row[n].state = "started" /\ row[n].epoch = belief[c] /\ UNCHANGED <<row, turn>>
        BY <3>2 DEF SavePermission, Bound, OwnedBy
      <4>3. Open(n)
        BY <2>1, <4>2 DEF IInv, TurnOpenIffUnfinished, Existing, Finished
      <4>4. m = n
        BY <2>1, <4>1
      <4>. QED
        BY <3>2, <4>1, <4>2, <4>3, <4>4 DEF Open
    <3>3. CASE permission'[r] = permission[r]
      <4>1. m \in Messages
        BY <2>1, <3>1, <3>3 DEF IInv, TypeOK, Permissions
      <4>2. /\ row[m].run = r /\ row[m].state = "started" /\ Open(m)
            /\ permission[r].epoch = row[m].epoch
        BY <2>1, <3>3 DEF PermissionOfRunningTurn
      <4>3. ASSUME NEW s \in Finished, NEW phase \in TerminalPhases, Ends(m, s, phase)
            PROVE  FALSE
        BY <2>1, <3>1, <3>3, <4>2, <4>3 DEF Ends, PermissionsOfClosed
      <4>4. ASSUME NEW c \in Coordinators, Recover(c), row[m].epoch < belief[c]
            PROVE  FALSE
        BY <3>1, <4>2, <4>4 DEF Recover
      <4>5. row'[m] = row[m] /\ turn'[m].phase = turn[m].phase
        BY <2>1, <4>1, <4>2, <4>3, <4>4, StartedRowsStay
      <4>. QED
        BY <3>3, <4>2, <4>5 DEF Open
    <3>. QED
      BY <2>1, <3>1, <3>2, <3>3, PermissionMoves
  <2>2. ASSUME IInv, PermissionOfRunningTurn, UNCHANGED vars
        PROVE  PermissionOfRunningTurn'
    BY <2>2 DEF vars, PermissionOfRunningTurn, Open
  <2>. QED
    BY <2>1, <2>2 DEF PermissionOfRunningTurn, Open
<1>. QED
  BY <1>1, <1>2, InductiveInvariant, PTL DEF Spec

-----------------------------------------------------------------------------
(* Terminal facts.                                                          *)

\* The fact and the phase of a turn that is closed, of whatever prompt.
ClosedByFact(m) ==
    turn[m].terminal # "none" /\ turn[m].phase = turn[m].terminal

ClosedBySteer(m) ==
    turn[m].terminal = "none" /\ row[m].via = "steer" /\ turn[m].phase = "completed"

ClosedTurnsAreDecided ==
    \A m \in Existing : Open(m) \/ ClosedByFact(m) \/ ClosedBySteer(m)

\* Closing a set of turns decides each of them, or leaves it as it was.
LEMMA ClosingDecides ==
  ASSUME IInv, NEW T, NEW phase \in TerminalPhases, turn' = TurnsClosed(T, phase),
         NEW m \in Messages
  PROVE  turn'[m] = turn[m] \/ ClosedByFact(m)'
<1>1. turn[m] \in Turns /\ phase # "none"
  BY DEF IInv, TypeOK, TerminalPhases
<1>2. FinalPhase(m, phase) # "none"
  BY <1>1 DEF FinalPhase
<1>3. CASE m \in T /\ Open(m)
  <2>1. turn'[m] = [phase |-> FinalPhase(m, phase), terminal |-> FinalPhase(m, phase)]
    BY <1>3 DEF TurnsClosed
  <2>. QED
    BY <1>2, <2>1 DEF ClosedByFact
<1>4. CASE ~(m \in T /\ Open(m))
  BY <1>4 DEF TurnsClosed
<1>. QED
  BY <1>3, <1>4

\* A turn that a step closes gets the phase of its fact, or is a delivered steer.
LEMMA ClosedTurnIsDecided ==
  ASSUME IInv, Next, NEW m \in Messages, Open(m), turn'[m].phase # "active"
  PROVE  ClosedByFact(m)' \/ ClosedBySteer(m)'
<1>1. row \in [Messages -> Rows] /\ turn \in [Messages -> Turns] /\ turn'[m] # turn[m]
  BY DEF IInv, TypeOK, Open
<1>2. ASSUME NEW T, NEW phase \in TerminalPhases, turn' = TurnsClosed(T, phase)
      PROVE  ClosedByFact(m)'
  BY <1>1, <1>2, ClosingDecides
<1>3. ASSUME NEW c \in Coordinators, Recover(c)
      PROVE  ClosedByFact(m)'
  BY <1>2, <1>3 DEF Recover, TerminalPhases
<1>4. ASSUME NEW n \in Messages, Delivers(n)
      PROVE  ClosedBySteer(m)'
  <2>1. n = m
    BY <1>1, <1>4 DEF Delivers
  <2>2. turn[m].terminal = "none"
    BY <1>4, <2>1 DEF Delivers, IInv, FactOnlyWhileStarted
  <2>3. turn'[m].terminal = "none" /\ turn'[m].phase = "completed"
    BY <1>1, <1>4, <2>1, <2>2 DEF Delivers, Turns
  <2>4. row'[m].via = "steer"
    <3>1. row[m] \in Rows \ {NoRow} /\ row[m].via = "steer"
      BY <1>1, <1>4, <2>1 DEF Delivers, NoRow
    <3>2. row'[m] = [row[m] EXCEPT !.state = "settled"]
      BY <1>1, <1>4, <2>1 DEF Delivers, Moved
    <3>. QED
      BY <3>1, <3>2 DEF Rows
  <2>. QED
    BY <2>3, <2>4 DEF ClosedBySteer
<1>5. ASSUME NEW n \in Messages, NEW r \in Runs, NEW k \in {"send", "queue"}, Saves(n, r, k)
      PROVE  FALSE
  BY <1>1, <1>5 DEF Saves, Open
<1>6. ASSUME NEW n \in Messages, NEW phase \in TerminalPhases, Reports(n, phase)
      PROVE  FALSE
  BY <1>1, <1>6 DEF Reports, Open, Turns
<1>7. ASSUME NEW n \in Messages, NEW s \in Finished, NEW phase \in TerminalPhases,
             Ends(n, s, phase)
      PROVE  ClosedByFact(m)'
  BY <1>2, <1>7 DEF Ends
<1>8. ASSUME NEW n \in Messages, NEW c \in Coordinators, NEW ended \in SUBSET Messages,
             Claims(n, c, ended)
      PROVE  ClosedByFact(m)'
  BY <1>2, <1>8 DEF Claims, TerminalPhases
<1>9. ASSUME NEW ended \in SUBSET Messages, Cancels(ended)
      PROVE  ClosedByFact(m)'
  BY <1>2, <1>9 DEF Cancels, TerminalPhases
<1>. QED
  BY <1>1, <1>3, <1>4, <1>5, <1>6, <1>7, <1>8, <1>9, StepsHaveEffects
  DEF Effect, Rests, Changes, StartsSteered, Steers, SavePermission, Answers, Asks, Expires

\* A closed turn has the phase of its terminal fact, whichever call closed it
\* and whatever phase that call asked for; only a delivered steer has no fact.
THEOREM FactsDecide == Spec => []TerminalFactDecides
<1>1. Init => ClosedTurnsAreDecided
  BY DEF Init, ClosedTurnsAreDecided, Existing, NoRow
<1>2. IInv /\ IInv' /\ ClosedTurnsAreDecided /\ [Next]_vars => ClosedTurnsAreDecided'
  <2>1. ASSUME IInv, IInv', ClosedTurnsAreDecided, Next, NEW m \in Messages,
               row'[m].state # "absent", turn'[m].phase # "active"
        PROVE  ClosedByFact(m)' \/ ClosedBySteer(m)'
    <3>1. CASE Open(m)
      BY <2>1, <3>1, ClosedTurnIsDecided
    <3>2. CASE row[m].state = "absent"
      BY <2>1, <3>2, StepsClassified, PromptMoves
      DEF Kept, Accepted, Requeued, TakenBack, Taken, Advanced, Withdrawn, Ended, Lost,
          Reported, Held
    <3>3. CASE row[m].state # "absent" /\ ~Open(m)
      <4>1. row[m].state \in Finished /\ m \in Existing
        BY <2>1, <3>3 DEF IInv, TurnOpenIffUnfinished, Existing
      <4>2. Kept(m)
        BY <2>1, <4>1, StepsClassified, PromptMoves
        DEF Accepted, Requeued, TakenBack, Taken, Advanced, Withdrawn, Ended, Lost,
            Reported, Held, Finished
      <4>. QED
        BY <2>1, <3>3, <4>1, <4>2
        DEF ClosedTurnsAreDecided, ClosedByFact, ClosedBySteer, Kept
    <3>. QED
      BY <3>1, <3>2, <3>3
  <2>2. ASSUME ClosedTurnsAreDecided, UNCHANGED vars
        PROVE  ClosedTurnsAreDecided'
    BY <2>2 DEF vars, ClosedTurnsAreDecided, Existing, Open, ClosedByFact, ClosedBySteer
  <2>. QED
    BY <2>1, <2>2 DEF ClosedTurnsAreDecided, Existing, Open
<1>3. IInv /\ ClosedTurnsAreDecided => TerminalFactDecides
  BY DEF IInv, FactOnlyWhileStarted, ClosedTurnsAreDecided, ClosedByFact, ClosedBySteer,
         TerminalFactDecides, Existing
<1>. QED
  BY <1>1, <1>2, <1>3, InductiveInvariant, PTL DEF Spec

-----------------------------------------------------------------------------
(* Continuations of an ended goal.                                          *)

\* A continuation is saved to be sent, so no steer can take it from its queue.
ContinuationsAreSent == \A m \in Continuations : row[m].kind = "send"

\* What a step does to one row, apart from claims and steers.
LEMMA RowMoves ==
  ASSUME IInv, Next, NEW m \in Messages
  PROVE  \/ row'[m] = row[m]
         \/ row[m].state = "absent" /\ row'[m].state = "awaiting"
            /\ (m \in Continuations => row'[m].kind = "send")
         \/ /\ row[m].state # "absent" /\ row'[m].kind = row[m].kind
            /\ \/ row[m].state \in Held => row'[m].state \in Held \cup Finished
               \/ row[m].kind = "queue" \/ ~Inactive(m)
<1>1. TypeOK /\ row \in [Messages -> Rows] /\ Existing \subseteq Messages
  BY DEF IInv, TypeOK, Existing
<1>2. ASSUME NEW n \in Messages, NEW s, Updated(n, s), row[n].state \in Unfinished,
             row[n].state \in Held => s \in Held \cup Finished
      PROVE  \/ row'[m] = row[m]
             \/ /\ row[m].state # "absent" /\ row'[m].kind = row[m].kind
                /\ row[m].state \in Held => row'[m].state \in Held \cup Finished
  <2>1. n \in Existing
    BY <1>2 DEF Existing, Unfinished, RowStates, Held, Owned, Finished
  <2>2. /\ row'[n].state = s /\ row'[n].kind = row[n].kind
        /\ \A k \in Messages \ {n} : row'[k] = row[k]
    BY <1>1, <1>2, <2>1, UpdateKeeps
  <2>. QED
    BY <1>2, <2>1, <2>2 DEF Existing
<1>3. CASE Rests
  BY <1>3 DEF Rests
<1>4. ASSUME NEW n \in Messages, NEW r \in Runs, NEW k \in {"send", "queue"}, Saves(n, r, k)
      PROVE  \/ row'[m] = row[m]
             \/ row[m].state = "absent" /\ row'[m].state = "awaiting"
                /\ (m \in Continuations => row'[m].kind = "send")
  BY <1>1, <1>4 DEF Saves, NoRow
<1>5. ASSUME NEW n \in Messages, NEW s \in Unfinished, Changes(n, s)
      PROVE  \/ row'[m] = row[m]
             \/ /\ row[m].state # "absent" /\ row'[m].kind = row[m].kind
                /\ row[m].state \in Held => row'[m].state \in Held \cup Finished
  BY <1>2, <1>5 DEF Changes
<1>6. ASSUME NEW n \in Messages, NEW s \in Finished, NEW phase \in TerminalPhases,
             Ends(n, s, phase)
      PROVE  \/ row'[m] = row[m]
             \/ /\ row[m].state # "absent" /\ row'[m].kind = row[m].kind
                /\ row[m].state \in Held => row'[m].state \in Held \cup Finished
  BY <1>2, <1>6 DEF Ends
<1>7. ASSUME NEW n \in Messages, StartsSteered(n)
      PROVE  \/ row'[m] = row[m]
             \/ /\ row[m].state # "absent" /\ row'[m].kind = row[m].kind
                /\ row[m].state \notin Held
  <2>1. row' = [row EXCEPT ![n] = [row[n] EXCEPT !.state = "started", !.via = "turn"]]
    BY <1>7 DEF StartsSteered
  <2>2. n \in Existing /\ row[n].state \notin Held
    BY <1>7 DEF StartsSteered, Existing, Held
  <2>. QED
    BY <1>1, <2>1, <2>2, TakingKeeps DEF Existing
<1>8. ASSUME NEW n \in Messages, Delivers(n)
      PROVE  \/ row'[m] = row[m]
             \/ /\ row[m].state # "absent" /\ row'[m].kind = row[m].kind
                /\ row[m].state \notin Held
  <2>1. n \in Existing /\ Updated(n, "settled") /\ row[n].state \notin Held
    BY <1>8 DEF Delivers, Updated, Existing, Held
  <2>. QED
    BY <1>1, <2>1, UpdateKeeps DEF Existing
<1>9. ASSUME NEW c \in Coordinators, NEW n \in Messages, Steers(n, c)
      PROVE  \/ row'[m] = row[m]
             \/ /\ row[m].state # "absent" /\ row'[m].kind = row[m].kind
                /\ row[m].kind = "queue"
  <2>1. n \in Existing
    BY <1>9 DEF Steers, Existing
  <2>. QED
    BY <1>1, <1>9, <2>1, TakingKeeps DEF Steers, Existing
<1>10. ASSUME NEW S \in SUBSET Messages, \A n \in S : row[n].state = "pending",
              m \in S, row'[m] = FreedRow(m, "settled")
       PROVE  /\ row[m].state # "absent" /\ row'[m].kind = row[m].kind
              /\ row'[m].state \in Finished
  <2>1. m \in Existing
    BY <1>10 DEF Existing
  <2>. QED
    BY <1>1, <1>10, <2>1, TakingKeeps DEF Existing, Finished
<1>11. ASSUME NEW c \in Coordinators, NEW n \in Messages,
              NEW ended \in SUBSET (Messages \ {n}), Claims(n, c, ended)
       PROVE  \/ row'[m] = row[m]
              \/ /\ row[m].state # "absent" /\ row'[m].kind = row[m].kind
                 /\ row'[m].state \in Finished \/ ~Inactive(m)
  <2>1. CASE m \in ended
    <3>1. row'[m] = FreedRow(m, "settled")
      BY <1>11, <2>1 DEF Claims
    <3>. QED
      BY <1>10, <1>11, <2>1, <3>1 DEF Claims
  <2>2. CASE m = n
    <3>1. m \in Existing /\ row'[m] = TakenRow(m, "claimed", c, "turn")
      BY <1>11, <2>2 DEF Claims, Existing
    <3>. QED
      BY <1>1, <1>11, <2>2, <3>1, TakingKeeps DEF Claims, Existing
  <2>3. CASE m \notin ended /\ m # n
    BY <1>11, <2>3 DEF Claims
  <2>. QED
    BY <2>1, <2>2, <2>3
<1>12. ASSUME NEW ended \in SUBSET Messages, Cancels(ended)
       PROVE  \/ row'[m] = row[m]
              \/ /\ row[m].state # "absent" /\ row'[m].kind = row[m].kind
                 /\ row'[m].state \in Finished
  BY <1>10, <1>12 DEF Cancels
<1>13. ASSUME NEW c \in Coordinators, Recover(c)
       PROVE  \/ row'[m] = row[m]
              \/ /\ row[m].state # "absent" /\ row'[m].kind = row[m].kind
                 /\ row[m].state \in Held => row'[m].state \in Held
  BY <1>1, <1>13, RecoveredRows DEF Held
<1>14. UNCHANGED row => row'[m] = row[m]
  OBVIOUS
<1>15. CASE \/ \E n \in Messages : \/ \E r \in Runs, k \in {"send", "queue"} : Saves(n, r, k)
                                   \/ \E s \in Unfinished : Changes(n, s)
                                   \/ StartsSteered(n) \/ Delivers(n)
            \/ \E n \in Messages, s \in Finished, phase \in TerminalPhases : Ends(n, s, phase)
  BY <1>4, <1>5, <1>6, <1>7, <1>8, <1>15
<1>16. CASE \/ \E c \in Coordinators, n \in Messages : Steers(n, c)
            \/ \E c \in Coordinators, n \in Messages :
                \E ended \in SUBSET (Messages \ {n}) : Claims(n, c, ended)
            \/ \E ended \in SUBSET Messages : Cancels(ended)
            \/ \E c \in Coordinators : Recover(c)
  BY <1>9, <1>11, <1>12, <1>13, <1>16
<1>. QED
  BY <1>3, <1>14, <1>15, <1>16, StepsHaveEffects
  DEF Effect, Reports, SavePermission, Answers, Asks, Expires

\* Once its goal ended, a queued continuation is never sent: a claim skips it
\* and a steer, which asks nothing of the goal, can never have been queued.
THEOREM EndedGoalsSendNothing == Spec => EndedGoalSendsNothing
<1>. DEFINE Step ==
        \A m \in Continuations :
            ~goalActive /\ row[m].state \in Held => row'[m].state \in Held \cup Finished
<1>1. Init => ContinuationsAreSent
  BY PromptLedgerAssumption DEF PromptLedgerAssumption, Init, ContinuationsAreSent, NoRow
<1>2. IInv /\ ContinuationsAreSent /\ [Next]_vars => ContinuationsAreSent'
  <2>1. ASSUME IInv, ContinuationsAreSent, Next, NEW m \in Continuations
        PROVE  row'[m].kind = "send"
    <3>1. m \in Messages
      BY PromptLedgerAssumption DEF PromptLedgerAssumption
    <3>. QED
      BY <2>1, <3>1, RowMoves DEF ContinuationsAreSent
  <2>2. ASSUME ContinuationsAreSent, UNCHANGED vars
        PROVE  ContinuationsAreSent'
    BY <2>2 DEF vars, ContinuationsAreSent
  <2>. QED
    BY <2>1, <2>2 DEF ContinuationsAreSent
<1>3. IInv /\ ContinuationsAreSent /\ [Next]_vars => [Step]_vars
  <2>. SUFFICES ASSUME IInv, ContinuationsAreSent, Next, NEW m \in Continuations,
                       ~goalActive, row[m].state \in Held
                PROVE  row'[m].state \in Held \cup Finished
    OBVIOUS
  <2>1. m \in Messages /\ Inactive(m) /\ row[m].kind = "send"
    BY PromptLedgerAssumption DEF PromptLedgerAssumption, Inactive, ContinuationsAreSent
  <2>. QED
    BY <2>1, RowMoves DEF Held
<1>. QED
  BY <1>1, <1>2, <1>3, InductiveInvariant, PTL DEF Spec, EndedGoalSendsNothing

-----------------------------------------------------------------------------
(* Install reservations.                                                    *)

\* What recovery has to find, beside the row, to give a reservation back.
Reserved(m) == install[m].status = "accepted" /\ OnCurrentRun(m) /\ steer[m].state = "none"

ReservationsStand == \A m \in Messages : row[m].state = "provisioning" => Reserved(m)

StaysReserved(m) ==
    /\ row'[m] = row[m] /\ install'[m] = install[m] /\ steer'[m] = steer[m]
    /\ UNCHANGED current

\* A step that leaves a reserved prompt's columns alone leaves it reserved.
LEMMA ReservedStays ==
  ASSUME NEW m \in Messages, Reserved(m), StaysReserved(m)
  PROVE  Reserved(m)'
BY DEF Reserved, StaysReserved, OnCurrentRun

\* Closing turns rejects requests only: an untargeted prompt stays untargeted.
LEMMA UntargetedStays ==
  ASSUME NEW m \in Messages, steer[m].state = "none", NEW T, NEW R
  PROVE  /\ SteersOfClosed(T)[m] = steer[m]
         /\ UnprovableExpired(R, SteersOfClosed(T))[m] = steer[m]
BY DEF SteersOfClosed, UnprovableExpired

\* A row update to another state cannot be the one that made a reservation.
LEMMA OtherRowUpdated ==
  ASSUME TypeOK, NEW m \in Messages, NEW n \in Existing, NEW s, s # "provisioning",
         Updated(n, s), row'[m].state = "provisioning"
  PROVE  n # m /\ row'[m] = row[m]
BY UpdateKeeps

\* Saving prompts, admitting them and reserving an install.
LEMMA AdmissionReserves ==
  ASSUME IInv, ReservationsStand, NEW c \in Coordinators, Admission(c),
         NEW m \in Messages, row'[m].state = "provisioning"
  PROVE  Reserved(m)'
<1>1. /\ TypeOK /\ row \in [Messages -> Rows] /\ Existing \subseteq Messages
      /\ steer \in [Messages -> SteerTargets] /\ install \in [Messages -> Installs]
  BY DEF IInv, TypeOK, Existing
<1>2. row[m].state = "provisioning" => Reserved(m)
  BY DEF ReservationsStand
<1>3. ASSUME NEW n \in Messages, NEW r, NEW k, Insert(n, r, k),
             steer' = steer \/ \E t \in Messages :
                steer' = [steer EXCEPT ![n] = [state |-> "requested", turn |-> t]]
      PROVE  Reserved(m)'
  <2>1. row'[n].state = "awaiting" /\ \A q \in Messages \ {n} : row'[q] = row[q]
    BY <1>1, <1>3 DEF Insert, NoRow
  <2>2. n # m /\ row'[m] = row[m]
    BY <2>1
  <2>3. StaysReserved(m)
    BY <1>1, <1>3, <2>2 DEF Insert, StaysReserved
  <2>. QED
    BY <1>2, <2>2, <2>3, ReservedStays
<1>4. ASSUME NEW n \in Messages, NEW t \in Messages, RequestSteer(c, n, t)
      PROVE  Reserved(m)'
  <2>1. n # m
    BY <1>4 DEF RequestSteer, Queued
  <2>2. StaysReserved(m)
    BY <1>1, <1>4, <2>1 DEF RequestSteer, StaysReserved
  <2>. QED
    BY <1>2, <1>4, <2>2, ReservedStays DEF RequestSteer
<1>5. ASSUME NEW n \in Messages, RequestLegacySteer(c, n)
      PROVE  Reserved(m)'
  BY <1>2, <1>5, ReservedStays DEF RequestLegacySteer, StaysReserved
<1>6. ASSUME NEW n \in Messages, NEW s \in {"settled", "pending"},
             \/ s = "settled" /\ CancelQueued(c, n)
             \/ s = "pending" /\ ReleaseReady(c, n)
             \/ s = "settled" /\ \E phase \in Outcomes : FailReadiness(c, n, phase)
      PROVE  Reserved(m)'
  <2>1. n \in Existing /\ Updated(n, s)
    BY <1>6 DEF CancelQueued, Queued, ReleaseReady, FailReadiness, Updated, Freed, Existing
  <2>2. row'[m] = row[m] /\ Reserved(m)
    BY <1>1, <1>2, <2>1, OtherRowUpdated
  <2>3. steer' = steer \/ steer' = SteersOfClosed({n})
    BY <1>6 DEF CancelQueued, ReleaseReady, FailReadiness, SettleTurn
  <2>4. steer'[m] = steer[m]
    BY <2>2, <2>3, UntargetedStays DEF Reserved
  <2>5. StaysReserved(m)
    BY <1>6, <2>2, <2>4 DEF CancelQueued, ReleaseReady, FailReadiness, StaysReserved
  <2>. QED
    BY <2>2, <2>5, ReservedStays
<1>7. ASSUME NEW n \in Messages, ReserveInstall(c, n)
      PROVE  Reserved(m)'
  <2>1. n \in Existing /\ Updated(n, "provisioning")
    BY <1>7 DEF ReserveInstall, InstallOwns, Updated, Existing
  <2>2. CASE n = m
    <3>1. row'[m].run = row[m].run
      BY <1>1, <2>1, <2>2, UpdateKeeps
    <3>2. install'[m].status = "accepted"
      BY <1>1, <1>7, <2>2 DEF ReserveInstall
    <3>. QED
      BY <1>7, <2>2, <3>1, <3>2 DEF ReserveInstall, InstallOwns, Reserved, OnCurrentRun
  <2>3. CASE n # m
    <3>1. row'[m] = row[m]
      BY <1>1, <2>1, <2>3, UpdateKeeps
    <3>2. StaysReserved(m)
      BY <1>1, <1>7, <2>3, <3>1 DEF ReserveInstall, StaysReserved
    <3>. QED
      BY <1>2, <3>1, <3>2, ReservedStays
  <2>. QED
    BY <2>2, <2>3
<1>8. ASSUME NEW n \in Messages,
             \/ \E r \in Runs, k \in Kinds : SavePrompt(c, n, r, k)
             \/ \E t \in Messages : SavePromptForTurn(c, n, t)
      PROVE  Reserved(m)'
  BY <1>3, <1>8 DEF SavePrompt, SavePromptForTurn
<1>9. ASSUME NEW n \in Messages,
             \/ CancelQueued(c, n) \/ ReleaseReady(c, n)
             \/ \E phase \in Outcomes : FailReadiness(c, n, phase)
      PROVE  Reserved(m)'
  BY <1>6, <1>9
<1>. QED
  BY <1>4, <1>5, <1>7, <1>8, <1>9 DEF Admission

\* Claims, launches and endings: none of them takes a reserved prompt.
LEMMA DispatchReserves ==
  ASSUME IInv, ReservationsStand, NEW c \in Coordinators, Dispatch(c),
         NEW m \in Messages, row'[m].state = "provisioning"
  PROVE  Reserved(m)'
<1>1. /\ TypeOK /\ row \in [Messages -> Rows] /\ Existing \subseteq Messages
      /\ steer \in [Messages -> SteerTargets]
  BY DEF IInv, TypeOK, Existing
<1>2. row[m].state = "provisioning" => Reserved(m)
  BY DEF ReservationsStand
<1>3. ASSUME row'[m] = row[m], \E T, R : steer' \in {SteersOfClosed(T),
                                            UnprovableExpired(R, SteersOfClosed(T))},
             UNCHANGED <<install, current>>
      PROVE  Reserved(m)'
  <2>1. Reserved(m)
    BY <1>2, <1>3
  <2>2. steer'[m] = steer[m]
    BY <1>3, <2>1, UntargetedStays DEF Reserved
  <2>. QED
    BY <1>3, <2>1, <2>2, ReservedStays DEF StaysReserved
<1>4. ASSUME NEW p \in Providers, NEW X \in SUBSET Runs, Claim(c, p, X)
      PROVE  Reserved(m)'
  <2>1. PICK n \in Claimable(p, X) :
            ClaimPrompt(c, n, InactiveBefore(Claimable(p, X), n))
    BY <1>4 DEF Claim
  <2>. DEFINE ended == InactiveBefore(Claimable(p, X), n)
  <2>2. n \in Existing /\ ended \subseteq Existing
    BY DEF InactiveBefore, Claimable
  <2>3. ClaimPrompt(c, n, ended)
    BY <2>1
  <2>. HIDE DEF ended
  <2>4. m \notin ended
    <3>. SUFFICES ASSUME m \in ended PROVE FALSE
      OBVIOUS
    <3>1. row'[m] = FreedRow(m, "settled") \/ row'[m] = TakenRow(m, "claimed", c, "turn")
      BY <2>3 DEF ClaimPrompt
    <3>. QED
      BY <1>1, <2>2, <3>1, TakingKeeps
  <2>5. m # n
    <3>. SUFFICES ASSUME m = n PROVE FALSE
      OBVIOUS
    <3>1. row'[m] = TakenRow(m, "claimed", c, "turn")
      BY <2>3, <2>4 DEF ClaimPrompt
    <3>. QED
      BY <1>1, <2>2, <3>1, TakingKeeps
  <2>6. row'[m] = row[m]
    BY <2>3, <2>4, <2>5 DEF ClaimPrompt
  <2>7. steer' = SteersOfClosed(ended) /\ UNCHANGED <<install, current>>
    BY <1>4, <2>3 DEF ClaimPrompt, Claim
  <2>. QED
    BY <1>3, <2>6, <2>7
<1>5. ASSUME NEW p \in Providers, NEW X \in SUBSET Runs, ClaimNothing(c, p, X)
      PROVE  Reserved(m)'
  <2>1. m \notin Claimable(p, X)
    <3>. SUFFICES ASSUME m \in Claimable(p, X) PROVE FALSE
      OBVIOUS
    <3>1. row'[m] = FreedRow(m, "settled") /\ m \in Existing
      BY <1>5 DEF ClaimNothing, Claimable
    <3>. QED
      BY <1>1, <3>1, TakingKeeps
  <2>2. row'[m] = row[m] /\ steer' = SteersOfClosed(Claimable(p, X))
        /\ UNCHANGED <<install, current>>
    BY <1>5, <2>1 DEF ClaimNothing
  <2>. QED
    BY <1>3, <2>2
<1>6. ASSUME NEW n \in Messages, NEW from \in Owned, NEW s \in {"launching", "pending", "started"},
             NEW rows \in {Moved(n, s), Freed(n, s)}, Transition(c, n, from, rows),
             steer' = steer \/ steer' = [steer EXCEPT ![n] = Expired(@)]
      PROVE  Reserved(m)'
  <2>1. n \in Existing /\ Updated(n, s)
    BY <1>6 DEF Transition, Updated, Existing, Owned
  <2>2. n # m /\ row'[m] = row[m] /\ Reserved(m)
    BY <1>1, <1>2, <2>1, OtherRowUpdated
  <2>3. StaysReserved(m)
    BY <1>1, <1>6, <2>2 DEF Transition, StaysReserved
  <2>. QED
    BY <2>2, <2>3, ReservedStays
<1>7. ASSUME NEW n \in Messages,
             BeginLaunch(c, n) \/ ReleaseClaim(c, n) \/ ConfirmStarted(c, n)
                \/ ReleaseUnstartedLaunch(c, n)
      PROVE  Reserved(m)'
  BY <1>6, <1>7 DEF BeginLaunch, ReleaseClaim, ConfirmStarted, ReleaseUnstartedLaunch, Owned
<1>8. ASSUME NEW n \in Messages, NEW s \in {"settled", "unprovable"},
             \/ s = "settled" /\ FailPrelaunch(c, n)
             \/ s = "unprovable" /\ MarkUnprovable(c, n)
             \/ s = "settled" /\ \E phase \in Outcomes : SettleTerminal(c, n, phase)
      PROVE  Reserved(m)'
  <2>1. n \in Existing /\ Updated(n, s)
    BY <1>8 DEF FailPrelaunch, MarkUnprovable, SettleTerminal, Bound, Updated, Existing
  <2>2. row'[m] = row[m]
    BY <1>1, <2>1, OtherRowUpdated
  <2>3. /\ \E T, R : steer' \in {SteersOfClosed(T), UnprovableExpired(R, SteersOfClosed(T))}
        /\ UNCHANGED <<install, current>>
    BY <1>8 DEF FailPrelaunch, MarkUnprovable, SettleTerminal, SettleTurn
  <2>. QED
    BY <1>3, <2>2, <2>3
<1>. QED
  BY <1>4, <1>5, <1>7, <1>8 DEF Dispatch

\* Steers, reports, installs and answers.
LEMMA ActorsReserve ==
  ASSUME IInv, ReservationsStand, NEW m \in Messages, row'[m].state = "provisioning"
  PROVE  /\ \A c \in Coordinators : Steering(c) \/ Provider(c) => Reserved(m)'
         /\ Installer => Reserved(m)'
         /\ \A r \in Runs : AnswerPermission(r) => Reserved(m)'
<1>1. /\ TypeOK /\ row \in [Messages -> Rows] /\ Existing \subseteq Messages
      /\ steer \in [Messages -> SteerTargets] /\ install \in [Messages -> Installs]
  BY DEF IInv, TypeOK, Existing
<1>2. row[m].state = "provisioning" => Reserved(m)
  BY DEF ReservationsStand
<1>3. ASSUME NEW c \in Coordinators, NEW n \in Messages, NEW t \in Messages,
             ClaimSteered(c, n, t)
      PROVE  Reserved(m)'
  <2>1. n \in Existing
    BY <1>3 DEF ClaimSteered, Existing
  <2>2. n # m
    BY <1>1, <1>3, <2>1, TakingKeeps DEF ClaimSteered
  <2>3. StaysReserved(m)
    BY <1>1, <1>3, <2>2 DEF ClaimSteered, StaysReserved
  <2>. QED
    BY <1>2, <2>3, ReservedStays DEF StaysReserved
<1>4. ASSUME NEW c \in Coordinators, NEW n \in Messages, NEW t \in Messages,
             ExpireSteer(c, n, t)
      PROVE  Reserved(m)'
  <2>1. row[m].state = "provisioning" /\ Reserved(m)
    BY <1>2, <1>4 DEF ExpireSteer
  <2>2. steer'[m] = steer[m]
    BY <1>1, <1>4, <2>1 DEF ExpireSteer, Expired, Reserved
  <2>. QED
    BY <1>4, <2>1, <2>2, ReservedStays DEF ExpireSteer, StaysReserved
<1>5. ASSUME NEW c \in Coordinators, NEW n \in Messages, NEW t \in Messages,
             DeliverSteered(c, n, t)
      PROVE  Reserved(m)'
  <2>1. n \in Existing /\ Updated(n, "settled")
    BY <1>5 DEF DeliverSteered, Updated, Existing
  <2>2. n # m /\ row'[m] = row[m]
    BY <1>1, <2>1, OtherRowUpdated
  <2>3. StaysReserved(m)
    BY <1>1, <1>5, <2>2 DEF DeliverSteered, StaysReserved
  <2>. QED
    BY <1>2, <2>2, <2>3, ReservedStays
<1>6. ASSUME NEW c \in Coordinators, NEW n \in Messages, StartSteeredTurn(c, n)
      PROVE  Reserved(m)'
  <2>1. n \in Existing
             /\ row' = [row EXCEPT ![n] = [row[n] EXCEPT !.state = "started", !.via = "turn"]]
    BY <1>6 DEF StartSteeredTurn, Existing
  <2>2. n # m /\ row'[m] = row[m]
    BY <1>1, <2>1, TakingKeeps
  <2>3. StaysReserved(m)
    BY <1>6, <2>2 DEF StartSteeredTurn, StaysReserved
  <2>. QED
    BY <1>2, <2>2, <2>3, ReservedStays
<1>7. ASSUME NEW c \in Coordinators, NEW n \in Messages,
             \/ AnnounceSession(c, n) \/ RetireSession(c, n) \/ SavePermission(c, n)
             \/ \E phase \in Outcomes : RecordProviderTerminal(c, n, phase)
      PROVE  StaysReserved(m)
  BY <1>7 DEF AnnounceSession, RetireSession, SavePermission, RecordProviderTerminal,
              StaysReserved
<1>8. ASSUME NEW r \in Runs, AnswerPermission(r)
      PROVE  StaysReserved(m)
  BY <1>8 DEF AnswerPermission, StaysReserved
<1>9. ASSUME NEW n \in Messages, NEW status \in InstallEndings,
             NEW s \in {"awaiting", "pending"}, InstallEnds(n, status, s)
      PROVE  Reserved(m)'
  <2>1. n \in Existing /\ Updated(n, s)
    BY <1>9 DEF InstallEnds, InstallOwns, Updated, Existing
  <2>2. n # m /\ row'[m] = row[m]
    BY <1>1, <2>1, OtherRowUpdated
  <2>3. StaysReserved(m)
    BY <1>1, <1>9, <2>2 DEF InstallEnds, StaysReserved
  <2>. QED
    BY <1>2, <2>2, <2>3, ReservedStays
<1>10. Installer => Reserved(m)'
  BY <1>9 DEF Installer, SettleInstall, RejectInstallBeforeEffect,
              SettleInstallUnprovable, InstallEndings
<1>11. StaysReserved(m) => Reserved(m)'
  BY <1>2, ReservedStays DEF StaysReserved
<1>. QED
  BY <1>3, <1>4, <1>5, <1>6, <1>7, <1>8, <1>10, <1>11 DEF Steering, Provider

\* The host, recovery and the selection, which an install pins to its run.
LEMMA HostReserves ==
  ASSUME IInv, ReservationsStand, NEW c \in Coordinators, Host(c) \/ Goal(c),
         NEW m \in Messages, row'[m].state = "provisioning"
  PROVE  Reserved(m)'
<1>1. TypeOK /\ row \in [Messages -> Rows] /\ current \in [Conversations -> Runs]
  BY DEF IInv, TypeOK
<1>2. row[m].state = "provisioning" => Reserved(m)
  BY DEF ReservationsStand
<1>3. ASSUME \/ CloseIngress(c) \/ QuiesceIdleOwner(c) \/ FenceAndOpen(c) \/ Join(c)
             \/ Goal(c)
      PROVE  Reserved(m)'
  <2>1. StaysReserved(m)
    BY <1>3 DEF CloseIngress, QuiesceIdleOwner, CloseUnder, FenceAndOpen, Join,
                Goal, EndGoal, ResumeGoal, SetGoal, StaysReserved
  <2>. QED
    BY <1>2, <2>1, ReservedStays DEF StaysReserved
<1>4. ASSUME NEW r \in Runs, Switch(c, r)
      PROVE  Reserved(m)'
  <2>1. row[m].state = "provisioning" /\ Reserved(m)
    BY <1>2, <1>4 DEF Switch
  <2>2. row[m].run \in Runs /\ row[m].run = current[ConvOf[row[m].run]]
    BY <2>1 DEF Reserved, OnCurrentRun
  <2>3. ConvOf[row[m].run] # ConvOf[r]
    <3>. SUFFICES ASSUME ConvOf[row[m].run] = ConvOf[r] PROVE FALSE
      OBVIOUS
    <3>1. m \in OfRun(current[ConvOf[r]])
      BY <2>1, <2>2 DEF OfRun, Existing
    <3>. QED
      BY <1>4, <2>1, <3>1 DEF Switch, ParentMayBeLeft
  <2>4. current'[ConvOf[row[m].run]] = current[ConvOf[row[m].run]]
    BY <1>1, <1>4, <2>2, <2>3, PromptLedgerAssumption DEF PromptLedgerAssumption, Switch
  <2>. QED
    BY <1>4, <2>1, <2>2, <2>4 DEF Switch, Reserved, OnCurrentRun
<1>5. ASSUME Recover(c)
      PROVE  Reserved(m)'
  <2>. DEFINE e == belief[c]
              failed == LostLaunches(e) \cup {n \in Messages : row[n].state = "unprovable"}
  <2>1. row'[m] = row[m]
    BY <1>1, <1>5, RecoveredRows
  <2>2. row[m].state = "provisioning" /\ Reserved(m)
    BY <1>2, <2>1
  <2>3. m \notin InterruptedInstalls(e)
    <3>. SUFFICES ASSUME m \in InterruptedInstalls(e) PROVE FALSE
      OBVIOUS
    <3>1. m \notin LostClaims(e) /\ m \notin LostLaunches(e)
      BY <2>2 DEF LostClaims, LostLaunches
    <3>2. row'[m] = [row[m] EXCEPT !.state = "awaiting"]
      BY <1>5, <3>1 DEF Recover
    <3>3. row[m] \in Rows \ {NoRow}
      BY <1>1, <2>2 DEF NoRow
    <3>. QED
      BY <2>1, <2>2, <3>2, <3>3 DEF Rows
  <2>4. install'[m] = install[m] /\ UNCHANGED current
    BY <1>5, <2>3 DEF Recover
  <2>5. steer' = UnprovableExpired(row', SteersOfClosed(failed))
    BY <1>5 DEF Recover
  <2>. HIDE DEF failed
  <2>6. steer'[m] = steer[m]
    BY <2>2, <2>5, UntargetedStays DEF Reserved
  <2>. QED
    BY <2>1, <2>2, <2>4, <2>6, ReservedStays DEF StaysReserved
<1>. QED
  BY <1>3, <1>4, <1>5 DEF Host

\* A prompt held for an install is always one that recovery can give back: its
\* receipt stands, no steer targets it, and no switch has left its run.
THEOREM ReservationsRestorable == Spec => []ReservationIsRestorable
<1>1. Init => ReservationsStand
  BY DEF Init, ReservationsStand, NoRow
<1>2. IInv /\ ReservationsStand /\ [Next]_vars => ReservationsStand'
  <2>1. ASSUME IInv, ReservationsStand, Next, NEW m \in Messages,
               row'[m].state = "provisioning"
        PROVE  Reserved(m)'
    BY <2>1, AdmissionReserves, DispatchReserves, ActorsReserve, HostReserves DEF Next
  <2>2. ASSUME ReservationsStand, UNCHANGED vars
        PROVE  ReservationsStand'
    BY <2>2 DEF vars, ReservationsStand, Reserved, OnCurrentRun
  <2>. QED
    BY <2>1, <2>2 DEF ReservationsStand
<1>3. IInv /\ ReservationsStand => ReservationIsRestorable
  <2>. SUFFICES ASSUME IInv, ReservationsStand, NEW m \in Messages,
                       row[m].state = "provisioning"
                PROVE  install[m].status = "accepted" /\ InstallOwns(m, "provisioning")
    BY DEF ReservationIsRestorable
  <2>1. row[m].owner = None
    BY DEF IInv, OwnershipFollowsState, Held
  <2>2. Open(m)
    BY DEF IInv, TurnOpenIffUnfinished, Existing, Finished
  <2>. QED
    BY <2>1, <2>2 DEF ReservationsStand, Reserved, InstallOwns
<1>. QED
  BY <1>1, <1>2, <1>3, InductiveInvariant, PTL DEF Spec

-----------------------------------------------------------------------------
(***************************************************************************)
(* What a steer target says of the dispatch row it came with, and of the    *)
(* turn it names.                                                           *)
(***************************************************************************)
(* Steer targets.                                                           *)

\* The prompt is with the provider as a steer into another turn.
Lifted(m) == row[m].state = "launching" /\ row[m].via = "steer"

\* An ordinary claim is for the turn the coordinator will run.
ClaimsAreForTurns == \A m \in Messages : row[m].state = "claimed" => row[m].via = "turn"

\* What a step does to one prompt's target: nothing, but perhaps reject its
\* request; bind it; hand it to the provider; or take it out of its hands.
LeftAlone(m) ==
    /\ \/ steer'[m] = steer[m]
       \/ steer[m].state = "requested" /\ steer'[m] = [steer[m] EXCEPT !.state = "rejected"]
    /\ Lifted(m)' <=> Lifted(m)

Targeted(m) ==
    /\ row[m].state \notin Owned \cup Finished /\ ~Lifted(m)'
    /\ \E t \in Messages \ {m} : /\ Open(t) /\ turn'[t] = turn[t]
                                 /\ steer'[m] = [state |-> "requested", turn |-> t]

HandedOver(m) ==
    /\ ~Lifted(m) /\ Lifted(m)'
    /\ \/ steer[m].state = "requested" /\ steer'[m].state = "claimed"
       \/ steer[m].state = "none" /\ steer'[m].state = "none"

TakenOut(m) ==
    /\ Lifted(m) /\ ~Lifted(m)'
    /\ \/ steer[m].state = "none" /\ steer'[m].state = "none"
       \/ steer[m].state = "claimed" /\ steer'[m].state = "rejected"
       \/ /\ steer[m].state = "claimed" /\ steer'[m].state = "delivered"
          /\ row'[m].state = "settled" /\ turn'[m].phase = "completed"

\* Targets, rows and claims before the step agree.
SteersAgree ==
    \A m \in Messages : steer[m].state = "claimed" <=> Lifted(m) /\ steer[m].state # "none"

\* An update keeps the list its coordinator keeps the prompt in, or clears it.
LEMMA UpdateKeepsVia ==
  ASSUME TypeOK, NEW m \in Existing, NEW s, Updated(m, s)
  PROVE  row'[m].via \in {row[m].via, "none"}
<1>1. row[m] \in Rows \ {NoRow} /\ m \in Messages /\ row \in [Messages -> Rows]
  BY DEF TypeOK, Existing, NoRow
<1>2. CASE row' = Moved(m, s)
  <2>1. row'[m] = [row[m] EXCEPT !.state = s]
    BY <1>1, <1>2 DEF Moved
  <2>. QED
    BY <1>1, <2>1 DEF Rows
<1>3. CASE row' = Freed(m, s)
  <2>1. row'[m] = FreedRow(m, s)
    BY <1>1, <1>3 DEF Freed
  <2>. QED
    BY <1>1, <2>1 DEF Rows, FreedRow
<1>. QED
  BY <1>2, <1>3 DEF Updated

\* Closing turns rejects a request or leaves the target as it is.
LEMMA ClosedSteers ==
  ASSUME NEW m \in Messages, NEW T
  PROVE  \/ SteersOfClosed(T)[m] = steer[m]
         \/ /\ steer[m].state = "requested"
            /\ SteersOfClosed(T)[m] = [steer[m] EXCEPT !.state = "rejected"]
BY DEF SteersOfClosed

\* So does a call that leaves rows unprovable, but for a steer it loses.
LEMMA LostSteers ==
  ASSUME TypeOK, NEW m \in Messages, NEW T,
         steer' = UnprovableExpired(row', SteersOfClosed(T))
  PROVE  \/ /\ steer'[m] = steer[m]
            /\ steer[m].state = "claimed" => row'[m].state # "unprovable"
         \/ /\ steer[m].state = "requested"
            /\ steer'[m] = [steer[m] EXCEPT !.state = "rejected"]
         \/ /\ steer[m].state = "claimed" /\ row'[m].state = "unprovable"
            /\ steer'[m].state = "rejected"
<1>. DEFINE S == SteersOfClosed(T)
<1>1. S[m] = steer[m] \/ (steer[m].state = "requested"
                            /\ S[m] = [steer[m] EXCEPT !.state = "rejected"])
  BY ClosedSteers
<1>2. steer[m] \in SteerTargets
  BY DEF TypeOK
<1>3. S[m].state = "claimed" <=> steer[m].state = "claimed"
  BY <1>1, <1>2 DEF SteerTargets, NoSteer
<1>. HIDE DEF S
<1>4. steer'[m] = IF S[m].state = "claimed" /\ row'[m].state = "unprovable"
                  THEN [S[m] EXCEPT !.state = "rejected"] ELSE S[m]
  BY DEF UnprovableExpired, S
<1>5. [steer[m] EXCEPT !.state = "rejected"].state = "rejected"
  BY <1>2 DEF SteerTargets, NoSteer
<1>. QED
  BY <1>1, <1>3, <1>4, <1>5

\* A lost launch takes the steer it carried out of the provider's hands.
LEMMA LosingSteers ==
  ASSUME TypeOK, SteersAgree, NEW m \in Messages, NEW T,
         steer' = UnprovableExpired(row', SteersOfClosed(T)),
         \/ row'[m].state = "unprovable"
         \/ row'[m].state # "unprovable" /\ (Lifted(m)' <=> Lifted(m))
  PROVE  LeftAlone(m) \/ TakenOut(m)
<1>1. CASE /\ steer'[m] = steer[m]
           /\ steer[m].state = "claimed" => row'[m].state # "unprovable"
  BY <1>1 DEF SteersAgree, LeftAlone, TakenOut, Lifted
<1>2. CASE /\ steer[m].state = "requested"
           /\ steer'[m] = [steer[m] EXCEPT !.state = "rejected"]
  BY <1>2 DEF SteersAgree, LeftAlone, Lifted
<1>3. CASE /\ steer[m].state = "claimed" /\ row'[m].state = "unprovable"
           /\ steer'[m].state = "rejected"
  BY <1>3 DEF SteersAgree, TakenOut, Lifted
<1>. QED
  BY <1>1, <1>2, <1>3, LostSteers

\* Saving, admitting, requesting and moving a prompt along.
LEMMA UpdatesSteer ==
  ASSUME IInv, SteersAgree, ClaimsAreForTurns, NEW m \in Messages, NEW n \in Messages
  PROVE  /\ \A t \in Messages : Asks(n, t) => LeftAlone(m) \/ Targeted(m)
         /\ Expires(n) => LeftAlone(m)
         /\ \A r \in Runs, k \in {"send", "queue"} :
                Saves(n, r, k) => LeftAlone(m) \/ Targeted(m)
         /\ \A s \in Unfinished : Changes(n, s) => LeftAlone(m) \/ TakenOut(m)
<1>1. /\ TypeOK /\ row \in [Messages -> Rows] /\ turn \in [Messages -> Turns]
      /\ steer \in [Messages -> SteerTargets] /\ Existing \subseteq Messages
  BY DEF IInv, TypeOK, Existing
<1>2. row'[m] = row[m] /\ steer'[m] = steer[m] => LeftAlone(m)
  BY DEF LeftAlone, Lifted
<1>3. steer[m].state = "claimed" => Lifted(m)
  BY DEF SteersAgree
<1>4. ASSUME NEW t \in Messages, Asks(n, t)
      PROVE  LeftAlone(m) \/ Targeted(m)
  <2>1. CASE n = m
    BY <1>1, <1>4, <2>1 DEF Asks, Targets, Targeted, Lifted, Held, Owned, Finished
  <2>2. CASE n # m
    BY <1>1, <1>2, <1>4, <2>2 DEF Asks, Targets
  <2>. QED
    BY <2>1, <2>2
<1>5. ASSUME Expires(n)
      PROVE  LeftAlone(m)
  <2>1. CASE n = m
    <3>1. steer'[m] = Expired(steer[m]) /\ row'[m] = row[m] /\ row[m].state \in Held
      BY <1>1, <1>5, <2>1 DEF Expires
    <3>2. steer[m].state # "claimed"
      BY <1>3, <3>1 DEF Lifted, Held
    <3>. QED
      BY <3>1, <3>2 DEF Expired, LeftAlone, Lifted
  <2>2. CASE n # m
    BY <1>1, <1>2, <1>5, <2>2 DEF Expires
  <2>. QED
    BY <2>1, <2>2
<1>6. ASSUME NEW r \in Runs, NEW k \in {"send", "queue"}, Saves(n, r, k)
      PROVE  LeftAlone(m) \/ Targeted(m)
  <2>1. CASE n = m
    <3>1. row[m].state = "absent" /\ row'[m].state = "awaiting"
      BY <1>1, <1>6, <2>1 DEF Saves, NoRow
    <3>2. ~Lifted(m) /\ ~Lifted(m)'
      BY <3>1 DEF Lifted
    <3>3. CASE steer' = steer
      BY <3>2, <3>3 DEF LeftAlone
    <3>4. ASSUME NEW t \in Messages, Targets(n, t)
          PROVE  Targeted(m)
      <4>1. turn'[t] = turn[t] /\ t # m
        BY <1>1, <1>6, <2>1, <3>4 DEF Saves, Targets
      <4>. QED
        BY <1>1, <2>1, <3>1, <3>2, <3>4, <4>1 DEF Targets, Targeted, Owned, Finished
    <3>. QED
      BY <1>6, <3>3, <3>4 DEF Saves
  <2>2. CASE n # m
    BY <1>1, <1>2, <1>6, <2>2 DEF Saves, Targets
  <2>. QED
    BY <2>1, <2>2
<1>7. ASSUME NEW s \in Unfinished, Changes(n, s)
      PROVE  LeftAlone(m) \/ TakenOut(m)
  <2>1. n \in Existing
    BY <1>7 DEF Changes, Existing, Unfinished, RowStates, Held, Owned, Finished
  <2>2. /\ row'[n].state = s /\ row'[n].via \in {row[n].via, "none"}
        /\ \A k \in Messages \ {n} : row'[k] = row[k]
    BY <1>1, <1>7, <2>1, UpdateKeeps, UpdateKeepsVia DEF Changes
  <2>3. CASE n # m
    BY <1>1, <1>2, <1>7, <2>2, <2>3 DEF Changes
  <2>4. CASE n = m /\ row[m].state = "launching" /\ s = "pending"
    <3>1. steer'[m] = Expired(steer[m])
      BY <1>1, <1>7, <2>4 DEF Changes
    <3>2. ~Lifted(m)'
      BY <2>2, <2>4 DEF Lifted
    <3>3. CASE steer[m].state = "claimed"
      <4>1. steer'[m].state = "rejected"
        BY <1>1, <3>1, <3>3 DEF Expired, SteerTargets, NoSteer
      <4>. QED
        BY <1>3, <3>2, <3>3, <4>1 DEF TakenOut
    <3>4. CASE steer[m].state # "claimed" /\ Lifted(m)
      <4>1. steer[m].state = "none"
        BY <3>4 DEF SteersAgree
      <4>. QED
        BY <3>1, <3>2, <3>4, <4>1 DEF Expired, TakenOut
    <3>5. CASE steer[m].state # "claimed" /\ ~Lifted(m)
      BY <3>1, <3>2, <3>5 DEF Expired, LeftAlone
    <3>. QED
      BY <3>3, <3>4, <3>5
  <2>5. CASE n = m /\ ~(row[m].state = "launching" /\ s = "pending")
    <3>1. steer'[m] = steer[m]
      BY <1>7, <2>5 DEF Changes
    <3>2. s = "launching" => row[m].via = "turn"
      BY <1>7, <2>5 DEF Changes, ClaimsAreForTurns
    <3>3. row[m].state = "launching" => row[m].via = "turn" /\ s = "started"
      BY <1>7, <2>5 DEF Changes, Owned
    <3>4. ~Lifted(m) /\ ~Lifted(m)'
      BY <2>2, <2>5, <3>2, <3>3 DEF Lifted
    <3>. QED
      BY <3>1, <3>4 DEF LeftAlone
  <2>. QED
    BY <2>3, <2>4, <2>5
<1>. QED
  BY <1>4, <1>5, <1>6, <1>7

\* Taking a prompt as a steer, and the ways it stops being one.
LEMMA TurnsSteer ==
  ASSUME IInv, SteersAgree, NEW m \in Messages, NEW n \in Messages
  PROVE  /\ \A c \in Coordinators : Steers(n, c) => LeftAlone(m) \/ HandedOver(m)
         /\ StartsSteered(n) => LeftAlone(m) \/ TakenOut(m)
         /\ Delivers(n) => LeftAlone(m) \/ TakenOut(m)
         /\ \A s \in Finished, phase \in TerminalPhases :
                Ends(n, s, phase) => LeftAlone(m) \/ TakenOut(m)
<1>1. /\ TypeOK /\ row \in [Messages -> Rows] /\ turn \in [Messages -> Turns]
      /\ steer \in [Messages -> SteerTargets] /\ Existing \subseteq Messages
  BY DEF IInv, TypeOK, Existing
<1>2. row'[m] = row[m] /\ steer'[m] = steer[m] => LeftAlone(m)
  BY DEF LeftAlone, Lifted
<1>3. ASSUME NEW c \in Coordinators, Steers(n, c)
      PROVE  LeftAlone(m) \/ HandedOver(m)
  <2>1. CASE n = m
    <3>1. m \in Existing /\ row'[m] = TakenRow(m, "launching", c, "steer")
      BY <1>1, <1>3, <2>1 DEF Steers, Existing
    <3>2. row'[m].state = "launching" /\ row'[m].via = "steer"
      BY <1>1, <3>1, TakingKeeps
    <3>3. Lifted(m)' /\ ~Lifted(m)
      BY <1>3, <2>1, <3>2 DEF Steers, Lifted
    <3>4. CASE steer[m].state = "requested"
      <4>1. steer' = [steer EXCEPT ![m] = [steer[m] EXCEPT !.state = "claimed"]]
        BY <1>3, <2>1, <3>4 DEF Steers
      <4>2. steer'[m].state = "claimed"
        BY <1>1, <3>4, <4>1 DEF SteerTargets, NoSteer
      <4>. QED
        BY <3>4, <3>3, <4>2 DEF HandedOver
    <3>5. CASE steer[m].state = "none"
      BY <1>3, <2>1, <3>5, <3>3 DEF Steers, HandedOver
    <3>. QED
      BY <1>3, <2>1, <3>4, <3>5 DEF Steers, SteerWanted
  <2>2. CASE n # m
    BY <1>1, <1>2, <1>3, <2>2 DEF Steers
  <2>. QED
    BY <2>1, <2>2
<1>4. ASSUME StartsSteered(n)
      PROVE  LeftAlone(m) \/ TakenOut(m)
  <2>1. n \in Existing
             /\ row' = [row EXCEPT ![n] = [row[n] EXCEPT !.state = "started", !.via = "turn"]]
    BY <1>4 DEF StartsSteered, Existing
  <2>2. CASE n = m
    <3>1. row'[m].state = "started"
      BY <1>1, <2>1, <2>2, TakingKeeps
    <3>. QED
      BY <1>4, <2>2, <3>1 DEF StartsSteered, LeftAlone, TakenOut, Lifted
  <2>3. CASE n # m
    BY <1>1, <1>2, <1>4, <2>1, <2>3 DEF StartsSteered
  <2>. QED
    BY <2>2, <2>3
<1>5. ASSUME Delivers(n)
      PROVE  LeftAlone(m) \/ TakenOut(m)
  <2>1. n \in Existing /\ Updated(n, "settled")
    BY <1>5 DEF Delivers, Updated, Existing
  <2>2. row'[n].state = "settled" /\ \A k \in Messages \ {n} : row'[k] = row[k]
    BY <1>1, <2>1, UpdateKeeps
  <2>3. CASE n = m
    <3>1. Lifted(m) /\ ~Lifted(m)'
      BY <1>5, <2>2, <2>3 DEF Delivers, Lifted
    <3>2. CASE steer[m].state = "none"
      BY <1>5, <2>3, <3>1, <3>2 DEF Delivers, TakenOut
    <3>3. CASE steer[m].state # "none"
      <4>1. steer[m].state = "claimed"
        BY <3>1, <3>3 DEF SteersAgree
      <4>2. steer' = [steer EXCEPT ![m] = [steer[m] EXCEPT !.state = "delivered"]]
        BY <1>5, <2>3, <3>3 DEF Delivers
      <4>3. steer'[m].state = "delivered"
        BY <1>1, <4>1, <4>2 DEF SteerTargets, NoSteer
      <4>4. turn'[m].phase = "completed"
        BY <1>1, <1>5, <2>3 DEF Delivers, Turns
      <4>. QED
        BY <2>2, <2>3, <3>1, <4>1, <4>3, <4>4 DEF TakenOut
    <3>. QED
      BY <3>2, <3>3
  <2>4. CASE n # m
    BY <1>1, <1>2, <1>5, <2>2, <2>4 DEF Delivers
  <2>. QED
    BY <2>3, <2>4
<1>6. ASSUME NEW s \in Finished, NEW phase \in TerminalPhases, Ends(n, s, phase)
      PROVE  LeftAlone(m) \/ TakenOut(m)
  <2>1. n \in Existing /\ Updated(n, s)
    BY <1>6 DEF Ends, Existing, Unfinished, RowStates, Held, Owned, Finished
  <2>2. row'[n].state = s /\ \A k \in Messages \ {n} : row'[k] = row[k]
    BY <1>1, <2>1, UpdateKeeps
  <2>3. CASE s = "settled"
    <3>1. row[n].state # "launching" /\ steer' = SteersOfClosed({n})
      BY <1>6, <2>3 DEF Ends
    <3>2. Lifted(m)' <=> Lifted(m)
      BY <2>2, <2>3, <3>1 DEF Lifted
    <3>. QED
      BY <3>1, <3>2, ClosedSteers DEF LeftAlone
  <2>4. CASE s = "unprovable"
    <3>1. steer' = UnprovableExpired(row', SteersOfClosed({n}))
      BY <1>6, <2>4 DEF Ends
    <3>2. \/ row'[m].state = "unprovable"
          \/ row'[m].state # "unprovable" /\ (Lifted(m)' <=> Lifted(m))
      BY <2>2, <2>4 DEF Lifted
    <3>. QED
      BY <1>1, <3>1, <3>2, LosingSteers
  <2>. QED
    BY <2>3, <2>4 DEF Finished
<1>. QED
  BY <1>3, <1>4, <1>5, <1>6

\* The row that a claim leaves of a prompt.
LEMMA ClaimedRows ==
  ASSUME TypeOK, NEW m \in Messages, NEW ended \in SUBSET Messages
  PROVE  /\ \A c \in Coordinators, n \in Messages : Claims(n, c, ended) =>
                \/ row'[m] = row[m]
                \/ row[m].state = "pending" /\ row'[m].state = "settled"
                \/ /\ row[m].state = "pending" /\ row'[m].state = "claimed"
                   /\ row'[m].via = "turn"
         /\ Cancels(ended) =>
                \/ row'[m] = row[m]
                \/ row[m].state = "pending" /\ row'[m].state = "settled"
<1>1. ASSUME m \in ended, \A n \in ended : row[n].state = "pending"
      PROVE  row[m].state = "pending" /\ FreedRow(m, "settled").state = "settled"
  BY <1>1, TakingKeeps DEF Existing
<1>2. ASSUME NEW c \in Coordinators, NEW n \in Messages, Claims(n, c, ended)
      PROVE  \/ row'[m] = row[m]
             \/ row[m].state = "pending" /\ row'[m].state = "settled"
             \/ /\ row[m].state = "pending" /\ row'[m].state = "claimed"
                /\ row'[m].via = "turn"
  <2>1. CASE m \in ended /\ m # n
    <3>1. row'[m] = FreedRow(m, "settled")
      BY <1>2, <2>1 DEF Claims
    <3>. QED
      BY <1>1, <1>2, <2>1, <3>1 DEF Claims
  <2>2. CASE m \notin ended /\ m = n
    <3>1. m \in Existing /\ row'[m] = TakenRow(m, "claimed", c, "turn")
      BY <1>2, <2>2 DEF Claims, Existing
    <3>. QED
      BY <1>2, <2>2, <3>1, TakingKeeps DEF Claims
  <2>3. CASE m \notin ended /\ m # n
    BY <1>2, <2>3 DEF Claims
  <2>4. CASE m \in ended /\ m = n
    <3>1. row'[m] = FreedRow(m, "settled") \/ row'[m] = TakenRow(m, "claimed", c, "turn")
      BY <1>2, <2>4 DEF Claims
    <3>2. m \in Existing /\ row[m].state = "pending"
      BY <1>2, <2>4 DEF Claims, Existing
    <3>. QED
      BY <3>1, <3>2, TakingKeeps
  <2>. QED
    BY <2>1, <2>2, <2>3, <2>4
<1>3. ASSUME Cancels(ended)
      PROVE  \/ row'[m] = row[m]
             \/ row[m].state = "pending" /\ row'[m].state = "settled"
  BY <1>1, <1>3 DEF Cancels
<1>. QED
  BY <1>2, <1>3

\* The four things a step can do to a steer target are all of them.
LEMMA SteerMoves ==
  ASSUME IInv, SteersAgree, ClaimsAreForTurns, Next, NEW m \in Messages
  PROVE  LeftAlone(m) \/ Targeted(m) \/ HandedOver(m) \/ TakenOut(m)
<1>1. TypeOK
  BY DEF IInv
<1>2. UNCHANGED <<row, steer>> => LeftAlone(m)
  BY DEF LeftAlone, Lifted
<1>3. ASSUME NEW T, steer' = SteersOfClosed(T),
             \/ row'[m] = row[m]
             \/ row[m].state = "pending" /\ row'[m].state \in {"settled", "claimed"}
      PROVE  LeftAlone(m)
  <2>1. Lifted(m)' <=> Lifted(m)
    BY <1>3 DEF Lifted
  <2>. QED
    BY <1>3, <2>1, ClosedSteers DEF LeftAlone
<1>4. ASSUME NEW c \in Coordinators, NEW n \in Messages,
             NEW ended \in SUBSET (Messages \ {n}), Claims(n, c, ended)
      PROVE  LeftAlone(m)
  <2>1. ended \in SUBSET Messages /\ steer' = SteersOfClosed(ended)
    BY <1>4 DEF Claims
  <2>. QED
    BY <1>1, <1>3, <1>4, <2>1, ClaimedRows
<1>5. ASSUME NEW ended \in SUBSET Messages, Cancels(ended)
      PROVE  LeftAlone(m)
  <2>1. steer' = SteersOfClosed(ended)
    BY <1>5 DEF Cancels
  <2>. QED
    BY <1>1, <1>3, <1>5, <2>1, ClaimedRows
<1>6. ASSUME NEW c \in Coordinators, Recover(c)
      PROVE  LeftAlone(m) \/ TakenOut(m)
  <2>1. \E T : steer' = UnprovableExpired(row', SteersOfClosed(T))
    BY <1>6 DEF Recover
  <2>2. \/ row'[m].state = "unprovable"
        \/ row'[m].state # "unprovable" /\ (Lifted(m)' <=> Lifted(m))
    BY <1>1, <1>6, RecoveredRows DEF Lifted
  <2>. QED
    BY <1>1, <2>1, <2>2, LosingSteers
<1>. QED
  BY <1>2, <1>4, <1>5, <1>6, UpdatesSteer, TurnsSteer, StepsHaveEffects
  DEF Effect, Rests, Reports, SavePermission, Answers

\* A claimed row is one that a claim has just taken, or was claimed before.
LEMMA ClaimedRowsAreForTurns ==
  ASSUME IInv, ClaimsAreForTurns, Next, NEW m \in Messages, row'[m].state = "claimed"
  PROVE  row'[m].via = "turn"
<1>1. /\ TypeOK /\ row \in [Messages -> Rows] /\ Existing \subseteq Messages
  BY DEF IInv, TypeOK, Existing
<1>2. row'[m] = row[m] => row'[m].via = "turn"
  BY DEF ClaimsAreForTurns
<1>3. ASSUME NEW n \in Messages, NEW s, s # "claimed", Updated(n, s),
             row[n].state \in Unfinished
      PROVE  row'[m] = row[m]
  <2>1. n \in Existing
    BY <1>3 DEF Existing, Unfinished, RowStates, Held, Owned, Finished
  <2>. QED
    BY <1>1, <1>3, <2>1, UpdateKeeps
<1>4. ASSUME NEW n \in Messages, NEW r \in Runs, NEW k \in {"send", "queue"}, Saves(n, r, k)
      PROVE  row'[m] = row[m]
  BY <1>1, <1>4 DEF Saves, NoRow
<1>5. ASSUME NEW n \in Messages, StartsSteered(n)
      PROVE  row'[m] = row[m]
  <2>1. n \in Existing
             /\ row' = [row EXCEPT ![n] = [row[n] EXCEPT !.state = "started", !.via = "turn"]]
    BY <1>5 DEF StartsSteered, Existing
  <2>. QED
    BY <1>1, <2>1, TakingKeeps
<1>6. ASSUME NEW n \in Messages, NEW c \in Coordinators, Steers(n, c)
      PROVE  row'[m] = row[m]
  <2>1. n \in Existing
    BY <1>6 DEF Steers, Existing
  <2>. QED
    BY <1>1, <1>6, <2>1, TakingKeeps DEF Steers
<1>7. ASSUME NEW n \in Messages,
             \/ \E s \in Unfinished : Changes(n, s)
             \/ Delivers(n)
             \/ \E s \in Finished, phase \in TerminalPhases : Ends(n, s, phase)
      PROVE  row'[m] = row[m]
  BY <1>3, <1>7 DEF Changes, Delivers, Ends, Updated, Unfinished, RowStates, Held, Owned, Finished
<1>8. ASSUME NEW c \in Coordinators, NEW n \in Messages,
             NEW ended \in SUBSET (Messages \ {n}), Claims(n, c, ended)
      PROVE  row'[m] = row[m] \/ row'[m].via = "turn"
  BY <1>1, <1>8, ClaimedRows
<1>9. ASSUME NEW ended \in SUBSET Messages, Cancels(ended)
      PROVE  row'[m] = row[m]
  BY <1>1, <1>9, ClaimedRows
<1>10. ASSUME NEW c \in Coordinators, Recover(c)
       PROVE  row'[m] = row[m]
  BY <1>1, <1>10, RecoveredRows
<1>11. UNCHANGED row => row'[m] = row[m]
  OBVIOUS
<1>. QED
  BY <1>2, <1>4, <1>5, <1>6, <1>7, <1>8, <1>9, <1>10, <1>11, StepsHaveEffects
  DEF Effect, Rests, Reports, SavePermission, Answers, Asks, Expires

\* The call that closes a turn rejects the requests for it, unless the turn was
\* itself a steer that another turn has just consumed.
LEMMA ClosingRejects ==
  ASSUME IInv, Next, NEW m \in Messages, NEW t \in Messages,
         Open(t), turn'[t].phase # "active",
         steer[m].state = "requested", steer[m].turn = t
  PROVE  steer'[m].state # "requested" \/ row'[t].via = "steer"
<1>1. /\ TypeOK /\ row \in [Messages -> Rows] /\ turn \in [Messages -> Turns]
      /\ steer[m] \in SteerTargets /\ turn'[t] # turn[t]
  BY DEF IInv, TypeOK, Open
<1>2. ASSUME NEW T, NEW phase, turn' = TurnsClosed(T, phase)
      PROVE  SteersOfClosed(T)[m].state = "rejected"
  <2>1. t \in T
    BY <1>1, <1>2 DEF TurnsClosed
  <2>2. SteersOfClosed(T)[m] = [steer[m] EXCEPT !.state = "rejected"]
    BY <2>1 DEF SteersOfClosed
  <2>. QED
    BY <1>1, <2>2 DEF SteerTargets, NoSteer
<1>3. ASSUME NEW T, SteersOfClosed(T)[m].state = "rejected",
             \/ steer' = SteersOfClosed(T)
             \/ \E R : steer' = UnprovableExpired(R, SteersOfClosed(T))
      PROVE  steer'[m].state # "requested"
  <2>1. steer'[m] = SteersOfClosed(T)[m]
    BY <1>3 DEF UnprovableExpired
  <2>. QED
    BY <1>3, <2>1
<1>4. ASSUME NEW n \in Messages, NEW s \in Finished, NEW phase \in TerminalPhases,
             Ends(n, s, phase)
      PROVE  steer'[m].state # "requested"
  BY <1>2, <1>3, <1>4 DEF Ends
<1>5. ASSUME NEW c \in Coordinators, NEW n \in Messages,
             NEW ended \in SUBSET (Messages \ {n}), Claims(n, c, ended)
      PROVE  steer'[m].state # "requested"
  BY <1>2, <1>3, <1>5 DEF Claims
<1>6. ASSUME NEW ended \in SUBSET Messages, Cancels(ended)
      PROVE  steer'[m].state # "requested"
  BY <1>2, <1>3, <1>6 DEF Cancels
<1>7. ASSUME NEW c \in Coordinators, Recover(c)
      PROVE  steer'[m].state # "requested"
  BY <1>2, <1>3, <1>7 DEF Recover
<1>8. ASSUME NEW n \in Messages, Delivers(n)
      PROVE  row'[t].via = "steer"
  <2>1. n = t
    BY <1>1, <1>8 DEF Delivers
  <2>2. row[t] \in Rows \ {NoRow} /\ row[t].via = "steer"
    BY <1>1, <1>8, <2>1 DEF Delivers, NoRow
  <2>3. row'[t] = [row[t] EXCEPT !.state = "settled"]
    BY <1>1, <1>8, <2>1 DEF Delivers, Moved
  <2>. QED
    BY <2>2, <2>3 DEF Rows
<1>9. ASSUME NEW n \in Messages, NEW r \in Runs, NEW k \in {"send", "queue"}, Saves(n, r, k)
      PROVE  FALSE
  BY <1>1, <1>9 DEF Saves, Open
<1>10. ASSUME NEW n \in Messages, NEW phase \in TerminalPhases, Reports(n, phase)
       PROVE  FALSE
  BY <1>1, <1>10 DEF Reports, Open, Turns
<1>. QED
  BY <1>1, <1>4, <1>5, <1>6, <1>7, <1>8, <1>9, <1>10, StepsHaveEffects
  DEF Effect, Rests, Changes, StartsSteered, Steers, SavePermission, Answers, Asks, Expires

\* A finished prompt is left as it is by every step.
LEMMA FinishedKept ==
  ASSUME IInv, Next, NEW m \in Messages, row[m].state \in Finished
  PROVE  Kept(m)
BY StepsClassified, PromptMoves
DEF Accepted, Requeued, TakenBack, Taken, Advanced, Withdrawn, Ended, Lost, Reported,
    Held, Finished

DeliveredIsOver ==
    \A m \in Messages : steer[m].state = "delivered" =>
        row[m].state = "settled" /\ turn[m].phase = "completed"

\* The inductive invariant of the steer targets.
SteerInv == SteersAgree /\ ClaimsAreForTurns /\ DeliveredIsOver /\ RequestWaitsForTurn

\* The four parts of it hold of one prompt after a step.
LEMMA SteerInvStep ==
  ASSUME IInv, SteerInv, Next, NEW m \in Messages
  PROVE  /\ steer'[m].state = "claimed" <=> Lifted(m)' /\ steer'[m].state # "none"
         /\ row'[m].state = "claimed" => row'[m].via = "turn"
         /\ steer'[m].state = "delivered" =>
                row'[m].state = "settled" /\ turn'[m].phase = "completed"
         /\ steer'[m].state = "requested" =>
                \/ turn'[steer'[m].turn].phase = "active"
                \/ row'[steer'[m].turn].via = "steer"
<1>1. steer[m] \in SteerTargets /\ SteersAgree /\ ClaimsAreForTurns
  BY DEF IInv, TypeOK, SteerInv
<1>2. LeftAlone(m) \/ Targeted(m) \/ HandedOver(m) \/ TakenOut(m)
  BY <1>1, SteerMoves
<1>3. steer[m].state = "requested" =>
        /\ steer[m].turn \in Messages
        /\ [steer[m] EXCEPT !.state = "rejected"].state = "rejected"
  BY <1>1 DEF SteerTargets, NoSteer
<1>4. \/ steer'[m] = steer[m] /\ (Lifted(m)' <=> Lifted(m))
      \/ ~Lifted(m) /\ ~Lifted(m)' /\ steer'[m].state = "rejected"
      \/ Targeted(m) /\ ~Lifted(m)' /\ steer'[m].state = "requested"
      \/ HandedOver(m) \/ TakenOut(m)
  <2>1. CASE LeftAlone(m)
    BY <1>1, <1>3, <2>1 DEF LeftAlone, SteersAgree
  <2>2. CASE Targeted(m)
    BY <2>2 DEF Targeted
  <2>. QED
    BY <1>2, <2>1, <2>2
<1>5. steer'[m].state = "claimed" <=> Lifted(m)' /\ steer'[m].state # "none"
  BY <1>1, <1>4 DEF SteersAgree, HandedOver, TakenOut
<1>6. row'[m].state = "claimed" => row'[m].via = "turn"
  BY <1>1, ClaimedRowsAreForTurns
<1>7. steer'[m].state = "delivered" =>
        row'[m].state = "settled" /\ turn'[m].phase = "completed"
  <2>. SUFFICES ASSUME steer'[m].state = "delivered", ~TakenOut(m)
                PROVE  row'[m].state = "settled" /\ turn'[m].phase = "completed"
    BY DEF TakenOut
  <2>1. steer[m].state = "delivered"
    BY <1>4 DEF HandedOver
  <2>2. row[m].state = "settled" /\ turn[m].phase = "completed"
    BY <2>1 DEF SteerInv, DeliveredIsOver
  <2>. QED
    BY <2>2, FinishedKept DEF Finished, Kept
<1>8. ASSUME steer'[m].state = "requested"
      PROVE  \/ turn'[steer'[m].turn].phase = "active"
             \/ row'[steer'[m].turn].via = "steer"
  <2>1. CASE Targeted(m)
    BY <2>1 DEF Targeted, Open
  <2>2. CASE LeftAlone(m)
    <3>. DEFINE t == steer[m].turn
    <3>1. steer'[m] = steer[m] /\ steer[m].state = "requested" /\ t \in Messages
      BY <1>3, <1>8, <2>2 DEF LeftAlone
    <3>2. Open(t) \/ row[t].via = "steer"
      BY <3>1 DEF SteerInv, RequestWaitsForTurn
    <3>3. CASE Open(t)
      BY <1>8, <3>1, <3>3, ClosingRejects
    <3>4. CASE ~Open(t) /\ row[t].via = "steer"
      <4>1. row[t].state \in Finished
        <5>1. t \in Existing
          <6>1. row[t] \in Rows
            BY <3>1 DEF IInv, TypeOK
          <6>2. row[t] # NoRow
            BY <3>4 DEF NoRow
          <6>. QED
            BY <3>1, <6>1, <6>2 DEF Rows, Existing, RowStates, Held, Owned, Finished
        <5>. QED
          BY <3>4, <5>1 DEF IInv, TurnOpenIffUnfinished
      <4>2. Kept(t)
        BY <3>1, <4>1, FinishedKept
      <4>. QED
        BY <3>1, <3>4, <4>2 DEF Kept
    <3>. QED
      BY <3>2, <3>3, <3>4
  <2>. QED
    BY <1>2, <1>8, <2>1, <2>2 DEF HandedOver, TakenOut
<1>. QED
  BY <1>5, <1>6, <1>7, <1>8

\* The steer targets agree with the dispatch rows and the turns they name.
LEMMA SteerInvariant == Spec => []SteerInv
<1>1. Init => SteerInv
  BY DEF Init, SteerInv, SteersAgree, ClaimsAreForTurns, DeliveredIsOver,
         RequestWaitsForTurn, Lifted, NoSteer, NoRow
<1>2. IInv /\ SteerInv /\ [Next]_vars => SteerInv'
  <2>1. ASSUME IInv, SteerInv, Next
        PROVE  SteerInv'
    BY <2>1, SteerInvStep
    DEF SteerInv, SteersAgree, ClaimsAreForTurns, DeliveredIsOver, RequestWaitsForTurn, Open
  <2>2. ASSUME SteerInv, UNCHANGED vars
        PROVE  SteerInv'
    BY <2>2
    DEF vars, SteerInv, SteersAgree, ClaimsAreForTurns, DeliveredIsOver,
        RequestWaitsForTurn, Lifted, Open
  <2>. QED
    BY <2>1, <2>2
<1>. QED
  BY <1>1, <1>2, InductiveInvariant, PTL DEF Spec

\* A targeted steer is claimed exactly while its prompt is in the provider's
\* hands, and a delivered one closed its own turn as completed.
THEOREM SteersFollowDispatch == Spec => []SteerFollowsDispatch
<1>1. SteerInv => SteerFollowsDispatch
  BY DEF SteerInv, SteersAgree, DeliveredIsOver, SteerFollowsDispatch, Lifted
<1>. QED
  BY <1>1, SteerInvariant, PTL

\* No request waits for a turn that is over, save one that was itself a steer.
THEOREM RequestsWaitForTurns == Spec => []RequestWaitsForTurn
<1>1. SteerInv => RequestWaitsForTurn
  BY DEF SteerInv
<1>. QED
  BY <1>1, SteerInvariant, PTL
=============================================================================
