---------------------------- MODULE PromptLedger ----------------------------
(***************************************************************************)
(* The durable prompt-dispatch ledger of gentd: the rows of                *)
(* agent_chat_prompt_dispatches, the turns they own, the steer targets, the *)
(* install receipts and the pending permissions that move with them, and    *)
(* the host epoch that fences every writer.                                 *)
(*                                                                         *)
(* Each ledger call is one SQLite transaction under one lock: an Err rolls it *)
(* back, so a refused call is no step, and an accepted one is one action.    *)
(* Texts, digests, transcripts and cursors are left out; a turn is named by *)
(* the message that opened it (prompt.rs saves exactly one turn a message). *)
(***************************************************************************)
EXTENDS Naturals, FiniteSets

CONSTANTS
    Conversations,   \* agent-chat conversations
    Runs,            \* provider runs; a selection switch starts a new one
    Messages,        \* prompts, each with the turn it opens
    Coordinators,    \* lifecycle owners that claim and drive prompts
    Providers,       \* claude, codex, claurst
    ConvOf,          \* [Runs -> Conversations]
    ProviderOf,      \* [Runs -> Providers]
    FirstRun,        \* [Conversations -> Runs]: the run a conversation opens with
    Kinds,           \* the dispositions clients use, a subset of {"send", "queue"}
    Continuations,   \* prompts whose origin is a goal continuation
    Outcomes,        \* the terminal phases providers and lifecycles report
    InstallRuns,     \* runs whose provider may have to be installed first
    PermissionRuns,  \* runs whose provider asks for permissions
    MaxEpoch,        \* bound: how far successors may advance the host epoch
    None             \* SQL NULL

ASSUME PromptLedgerAssumption ==
    /\ ConvOf \in [Runs -> Conversations]
    /\ ProviderOf \in [Runs -> Providers]
    /\ FirstRun \in [Conversations -> Runs]
    /\ \A c \in Conversations : ConvOf[FirstRun[c]] = c
    /\ Kinds \subseteq {"send", "queue"}
    /\ Continuations \subseteq Messages
    /\ Outcomes \subseteq {"completed", "interrupted", "cancelled", "failed"}
    /\ InstallRuns \subseteq Runs
    /\ PermissionRuns \subseteq Runs
    /\ MaxEpoch \in Nat \ {0}
    /\ IsFiniteSet(Messages)
    /\ None \notin Messages \cup Runs \cup Coordinators

VARIABLES
    host,        \* host_state: epoch and ingress; idle records how it closed
    belief,      \* the epoch each coordinator's process was started under
    current,     \* the durable current run of each conversation
    created,     \* runs that exist
    row,         \* dispatch rows, one a message
    turn,        \* turn phase and its recorded terminal fact
    steer,       \* agent_chat_steer_targets
    legacySteer, \* messages with a targetless steer receipt
    released,    \* messages whose PromptReleased event id is in the event log
    install,     \* the latest provider-install receipt of a message
    permission,  \* pending_provider_permissions, at most one a run
    session,     \* runs with a run_session_bindings row
    goalActive   \* the goal behind the continuations is still active

vars == <<host, belief, current, created, row, turn, steer, legacySteer,
          released, install, permission, session, goalActive>>

Held     == {"awaiting", "provisioning", "pending"}
Owned    == {"claimed", "launching", "started"}
Finished == {"settled", "unprovable"}
RowStates == Held \cup Owned \cup Finished

TerminalPhases == {"completed", "interrupted", "cancelled", "failed"}

Epochs == 1..MaxEpoch

Turns == [phase : {"none", "active"} \cup TerminalPhases,
          terminal : {"none"} \cup TerminalPhases]

\* Epoch 0 stands for a NULL host_epoch. "via" is which list of its binding
\* the coordinator keeps a launching prompt in: the turn it runs, or a steer.
NoRow == [state |-> "absent", run |-> None, kind |-> "send", rowid |-> 0,
          owner |-> None, epoch |-> 0, via |-> "none"]
Rows ==
    {NoRow} \cup [state : RowStates, run : Runs, kind : {"send", "queue"},
                  rowid : Nat \ {0}, owner : Coordinators \cup {None},
                  epoch : {0} \cup Epochs, via : {"none", "turn", "steer"}]
NoTurn == [phase |-> "none", terminal |-> "none"]
NoSteer == [state |-> "none", turn |-> None]
NoInstall == [status |-> "none", epoch |-> 0]
NoPermission == [turn |-> None, epoch |-> 0]

SteerTargets ==
    {NoSteer} \cup [state : {"requested", "claimed", "delivered", "rejected"},
                    turn : Messages]
Installs ==
    {NoInstall} \cup [status : {"accepted", "settled", "rejected", "unprovable"},
                      epoch : Epochs]
Permissions == {NoPermission} \cup [turn : Messages, epoch : Epochs]

Init ==
    /\ host = [epoch |-> 1, ingress |-> "open", idle |-> FALSE]
    /\ belief = [c \in Coordinators |-> 1]
    /\ current = FirstRun
    /\ created = {FirstRun[c] : c \in Conversations}
    /\ row = [m \in Messages |-> NoRow]
    /\ turn = [m \in Messages |-> NoTurn]
    /\ steer = [m \in Messages |-> NoSteer]
    /\ legacySteer = {}
    /\ released = {}
    /\ install = [m \in Messages |-> NoInstall]
    /\ permission = [r \in Runs |-> NoPermission]
    /\ session = {}
    /\ goalActive = TRUE

-----------------------------------------------------------------------------
(* What every operation looks up.                                           *)

\* Two mutants of RequireOpen: the epoch, or the ingress, is not compared.
RequireOpenAnyEpoch(c) == host.ingress = "open"
RequireOpenAnyIngress(c) == belief[c] = host.epoch

\* The call carries coordinator c's epoch: it must be the host's, and ingress open.
RequireOpen(c) ==
    /\ host.ingress = "open"
    /\ belief[c] = host.epoch

\* A coordinator's own row of the current epoch (the UPDATE's WHERE clause).
OwnedBy(c, m) == row[m].owner = c /\ row[m].epoch = belief[c]

\* The turn a coordinator's live provider process is bound to.
Bound(c, m) == OwnedBy(c, m) /\ row[m].state = "started"

OnCurrentRun(m) ==
    /\ row[m].run \in Runs
    /\ row[m].run = current[ConvOf[row[m].run]]

Existing == {m \in Messages : row[m].state # "absent"}

OfRun(r) == {m \in Existing : row[m].run = r}

\* ORDER BY created_rowid LIMIT 1.
Oldest(m, S) == m \in S /\ \A n \in S : row[m].rowid <= row[n].rowid

\* COALESCE(MAX(created_rowid), 0) + 1: no row is ever deleted.
NextRowid == Cardinality(Existing) + 1

\* A turn another prompt may steer into, under epoch e.
Live(t, e) ==
    /\ row[t].state \in {"launching", "started"}
    /\ row[t].epoch = e
    /\ OnCurrentRun(t)
    /\ turn[t].phase = "active"
    /\ turn[t].terminal = "none"

Open(m) == turn[m].phase = "active"

-----------------------------------------------------------------------------
(* Turn settlement (turn_terminal.rs) and steer expiry, shared by many calls.*)

\* Mutant of FinalPhase: the recorded fact is not consulted.
FinalPhaseOfCaller(m, phase) == phase

\* A terminal fact already recorded for the turn overrides the requested phase.
FinalPhase(m, phase) ==
    IF turn[m].terminal = "none" THEN phase ELSE turn[m].terminal

\* Mutant of TurnsClosed: a turn with a recorded fact is taken for closed.
TurnsClosedUnlessRecorded(T, phase) ==
    [m \in Messages |->
        IF m \in T /\ Open(m) /\ turn[m].terminal = "none"
        THEN [phase |-> phase, terminal |-> phase] ELSE turn[m]]

\* Mutant of TurnsClosed: the terminal fact is not appended.
TurnsClosedWithoutFact(T, phase) ==
    [m \in Messages |->
        IF m \in T /\ Open(m)
        THEN [turn[m] EXCEPT !.phase = FinalPhase(m, phase)] ELSE turn[m]]

\* Every still open turn of T closes, with one terminal fact.
TurnsClosed(T, phase) ==
    [m \in Messages |->
        IF m \in T /\ Open(m)
        THEN [phase |-> FinalPhase(m, phase), terminal |-> FinalPhase(m, phase)]
        ELSE turn[m]]

\* Mutants of PermissionsOfClosed: nothing is deleted, or only the turn is reset.
PermissionsKept(T) == permission
PermissionsHalfReset(T) ==
    [r \in Runs |->
        IF permission[r].turn \in T THEN [permission[r] EXCEPT !.turn = None]
                                    ELSE permission[r]]

\* Closing a turn deletes its pending permission ...
PermissionsOfClosed(T) ==
    [r \in Runs |->
        IF permission[r].turn \in T /\ Open(permission[r].turn)
        THEN NoPermission ELSE permission[r]]

\* Mutant of SteersOfClosed: the requests are left waiting.
SteersKept(T) == steer

\* ... and rejects the requests that target it, claimed ones excepted.
SteersOfClosed(T) ==
    [m \in Messages |->
        IF /\ steer[m].state = "requested"
           /\ steer[m].turn \in T /\ Open(steer[m].turn)
        THEN [steer[m] EXCEPT !.state = "rejected"] ELSE steer[m]]

SettleTurn(m, phase) ==
    /\ turn' = TurnsClosed({m}, phase)
    /\ permission' = PermissionsOfClosed({m})
    /\ steer' = SteersOfClosed({m})

\* expire: only a request that is still unanswered is rejected.
Expired(target) ==
    IF target.state \in {"requested", "claimed"}
    THEN [target EXCEPT !.state = "rejected"] ELSE target

\* Mutant of UnprovableExpired: the claimed request of an unprovable row stays.
UnprovableKept(R, S) == S

\* expire_unprovable over the rows R and steer targets S a call leaves behind.
UnprovableExpired(R, S) ==
    [m \in Messages |->
        IF S[m].state = "claimed" /\ R[m].state = "unprovable"
        THEN [S[m] EXCEPT !.state = "rejected"] ELSE S[m]]

\* The row of m after an UPDATE: moved on, freed of its owner, or taken by c.
Moved(m, state) == [row EXCEPT ![m].state = state]

\* Mutant of FreedRow: owner and epoch are not reset.
FreedRowKeepsOwner(m, state) == [row[m] EXCEPT !.state = state, !.via = "none"]

FreedRow(m, state) ==
    [row[m] EXCEPT !.state = state, !.owner = None, !.epoch = 0, !.via = "none"]

Freed(m, state) == [row EXCEPT ![m] = FreedRow(m, state)]

TakenRow(m, state, c, via) ==
    [row[m] EXCEPT !.state = state, !.owner = c, !.epoch = belief[c], !.via = via]

-----------------------------------------------------------------------------
(* Saving prompts and admitting them to the queue.                          *)

Insert(m, r, k) ==
    /\ row[m].state = "absent"
    /\ r = current[ConvOf[r]]
    /\ row' = [row EXCEPT ![m] = [NoRow EXCEPT !.state = "awaiting", !.run = r,
                                               !.kind = k, !.rowid = NextRowid]]
    /\ turn' = [turn EXCEPT ![m] = [phase |-> "active", terminal |-> "none"]]
    /\ UNCHANGED <<host, belief, current, created, legacySteer, released,
                   install, permission, session, goalActive>>

\* A goal continuation is always saved with the send disposition. The pursuit
\* read its goal before this transaction, so the goal may have ended meanwhile.
SavePrompt(c, m, r, k) ==
    /\ RequireOpen(c)
    /\ m \in Continuations => k = "send"
    /\ Insert(m, r, k)
    /\ UNCHANGED steer

\* steerPromptForTurn: the queued prompt and its target in one transaction.
SavePromptForTurn(c, m, t) ==
    /\ RequireOpen(c)
    /\ "queue" \in Kinds /\ m \notin Continuations
    /\ t # m /\ Live(t, belief[c])
    /\ Insert(m, row[t].run, "queue")
    /\ steer' = [steer EXCEPT ![m] = [state |-> "requested", turn |-> t]]

\* release and release_verified: held for readiness, now claimable.
ReleaseReady(c, m) ==
    /\ RequireOpen(c)
    /\ row[m].state = "awaiting" /\ OnCurrentRun(m)
    /\ row' = Moved(m, "pending")
    /\ UNCHANGED <<host, belief, current, created, turn, steer, legacySteer,
                   released, install, permission, session, goalActive>>

\* fail_verified: the provider cannot become ready; the turn ends.
FailReadiness(c, m, phase) ==
    /\ RequireOpen(c)
    /\ row[m].state = "awaiting" /\ OnCurrentRun(m) /\ Open(m)
    /\ row' = Moved(m, "settled")
    /\ SettleTurn(m, phase)
    /\ UNCHANGED <<host, belief, current, created, legacySteer, released,
                   install, session, goalActive>>

-----------------------------------------------------------------------------
(* Installing a missing provider while its prompt is held.                  *)

\* prompt_message: the receipt's prompt, still open, unowned, never targeted.
InstallOwns(m, state) ==
    /\ row[m].state = state /\ row[m].owner = None
    /\ Open(m) /\ OnCurrentRun(m)
    /\ steer[m].state = "none"

ReserveInstall(c, m) ==
    /\ RequireOpen(c)
    /\ row[m].run \in InstallRuns
    /\ InstallOwns(m, "awaiting")
    /\ row' = Moved(m, "provisioning")
    /\ install' = [install EXCEPT ![m] = [status |-> "accepted", epoch |-> belief[c]]]
    /\ UNCHANGED <<host, belief, current, created, turn, steer, legacySteer,
                   released, permission, session, goalActive>>

InstallEnds(m, status, state) ==
    /\ install[m].status = "accepted"
    /\ InstallOwns(m, "provisioning")
    /\ row' = Moved(m, state)
    /\ install' = [install EXCEPT ![m].status = status]
    /\ UNCHANGED <<host, belief, current, created, turn, steer, legacySteer,
                   released, permission, session, goalActive>>

\* Only a completed install, reported under its own epoch, releases the prompt.
SettleInstall(m) ==
    /\ host.ingress = "open" /\ install[m].epoch = host.epoch
    /\ InstallEnds(m, "settled", "pending")

\* The two failures consult neither the epoch nor the ingress.
RejectInstallBeforeEffect(m) == InstallEnds(m, "rejected", "awaiting")
SettleInstallUnprovable(m) == InstallEnds(m, "unprovable", "awaiting")

-----------------------------------------------------------------------------
(* Claiming and launching an ordinary turn.                                 *)

\* Rows an ordinary claim of provider p may pick, skipping the runs X.
Claimable(p, X) ==
    {m \in Existing :
        /\ row[m].state = "pending"
        /\ steer[m].state = "none"
        /\ OnCurrentRun(m)
        /\ row[m].run \notin X
        /\ ProviderOf[row[m].run] = p}

\* Mutant of Inactive: the claim does not look at the goal.
NeverInactive(m) == FALSE

Inactive(m) == m \in Continuations /\ ~goalActive

\* Continuations of an ended goal that the claim's loop meets, and cancels,
\* before the prompt it claims.
InactiveBefore(S, m) == {n \in S : Inactive(n) /\ row[n].rowid < row[m].rowid}

\* The PromptReleased event is a plain INSERT under a UNIQUE event id.
ReleasableOnce(m) == row[m].kind = "queue" => m \notin released

\* Claiming m for c, cancelling the ended continuations that come before it.
ClaimPrompt(c, m, ended) ==
    /\ ReleasableOnce(m)
    /\ row' = [n \in Messages |->
                CASE n \in ended -> FreedRow(n, "settled")
                  [] n = m -> TakenRow(m, "claimed", c, "turn")
                  [] OTHER -> row[n]]
    /\ released' = IF row[m].kind = "queue" THEN released \cup {m} ELSE released
    /\ turn' = TurnsClosed(ended, "cancelled")
    /\ permission' = PermissionsOfClosed(ended)
    /\ steer' = SteersOfClosed(ended)

Claim(c, p, X) ==
    /\ RequireOpen(c)
    /\ LET S == Claimable(p, X)
       IN \E m \in S :
            /\ Oldest(m, {n \in S : ~Inactive(n)})
            /\ ClaimPrompt(c, m, InactiveBefore(S, m))
    /\ UNCHANGED <<host, belief, current, created, legacySteer, install,
                   session, goalActive>>

\* The same loop when nothing is left to claim: the cancellations commit.
ClaimNothing(c, p, X) ==
    /\ RequireOpen(c)
    /\ LET ended == Claimable(p, X)
       IN /\ ended # {}
          /\ \A m \in ended : Inactive(m)
          /\ row' = [n \in Messages |->
                        IF n \in ended THEN FreedRow(n, "settled") ELSE row[n]]
          /\ turn' = TurnsClosed(ended, "cancelled")
          /\ permission' = PermissionsOfClosed(ended)
          /\ steer' = SteersOfClosed(ended)
    /\ UNCHANGED <<host, belief, current, created, legacySteer, released,
                   install, session, goalActive>>

Transition(c, m, from, rows) ==
    /\ RequireOpen(c)
    /\ row[m].state = from /\ OwnedBy(c, m)
    /\ row' = rows
    /\ UNCHANGED <<host, belief, current, created, turn, legacySteer,
                   released, install, permission, session, goalActive>>

BeginLaunch(c, m) ==
    Transition(c, m, "claimed", Moved(m, "launching")) /\ UNCHANGED steer

ReleaseClaim(c, m) ==
    Transition(c, m, "claimed", Freed(m, "pending")) /\ UNCHANGED steer

\* A lifecycle confirms only the prompt it launched as a turn.
ConfirmStarted(c, m) ==
    /\ row[m].via = "turn"
    /\ Transition(c, m, "launching", Moved(m, "started"))
    /\ UNCHANGED steer

\* A local result proves the runner was never invoked.
ReleaseUnstartedLaunch(c, m) ==
    /\ Transition(c, m, "launching", Freed(m, "pending"))
    /\ steer' = [steer EXCEPT ![m] = Expired(@)]

\* Claimed, or started by a process that never announced a session.
FailPrelaunch(c, m) ==
    /\ RequireOpen(c)
    /\ OwnedBy(c, m) /\ Open(m)
    /\ \/ row[m].state = "claimed"
       \/ row[m].state = "started" /\ row[m].run \notin session
    /\ row' = Moved(m, "settled")
    /\ SettleTurn(m, "failed")
    /\ UNCHANGED <<host, belief, current, created, legacySteer, released,
                   install, session, goalActive>>

\* Bytes may have reached the provider: the prompt is never replayed.
MarkUnprovable(c, m) ==
    /\ RequireOpen(c)
    /\ row[m].state = "launching" /\ OwnedBy(c, m) /\ Open(m)
    /\ row' = Moved(m, "unprovable")
    /\ turn' = TurnsClosed({m}, "failed")
    /\ permission' = PermissionsOfClosed({m})
    /\ steer' = UnprovableExpired(row', SteersOfClosed({m}))
    /\ UNCHANGED <<host, belief, current, created, legacySteer, released,
                   install, session, goalActive>>

SettleTerminal(c, m, phase) ==
    /\ RequireOpen(c)
    /\ Bound(c, m) /\ Open(m)
    /\ row' = Moved(m, "settled")
    /\ SettleTurn(m, phase)
    /\ UNCHANGED <<host, belief, current, created, legacySteer, released,
                   install, session, goalActive>>

-----------------------------------------------------------------------------
(* Steering a queued prompt into a turn that is already running.            *)

\* queued_prompt: queued and not yet taken by anybody.
Queued(m) == row[m].kind = "queue" /\ row[m].state \in {"awaiting", "pending"}

\* steerQueuedPromptForTurn: binds, or rebinds, the prompt to one live turn.
RequestSteer(c, m, t) ==
    /\ RequireOpen(c)
    /\ Queued(m) /\ row[t].run = row[m].run
    /\ Live(t, belief[c])
    /\ steer[m].state \notin {"requested", "claimed"}
    /\ steer' = [steer EXCEPT ![m] = [state |-> "requested", turn |-> t]]
    /\ UNCHANGED <<host, belief, current, created, row, turn, legacySteer,
                   released, install, permission, session, goalActive>>

\* steerQueuedPrompt: an older client's request, without a target.
RequestLegacySteer(c, m) ==
    /\ RequireOpen(c)
    /\ Queued(m) /\ m \notin legacySteer
    /\ steer[m].state = "none"
    /\ legacySteer' = legacySteer \cup {m}
    /\ UNCHANGED <<host, belief, current, created, row, turn, steer, released,
                   install, permission, session, goalActive>>

\* The only held prompt of run r that a steer claim looks at.
HeldOfRun(r) == {m \in OfRun(r) : row[m].state \in Held}

SteerWanted(m) ==
    \/ steer[m].state = "requested"
    \/ (steer[m].state = "none" /\ m \in legacySteer)

SteerFitsTurn(c, m, t) ==
    steer[m].state = "none" \/ (steer[m].turn = t /\ Live(t, belief[c]))

\* The owner of running turn t takes the oldest held prompt of its run.
ClaimSteered(c, m, t) ==
    /\ RequireOpen(c)
    /\ Bound(c, t)
    /\ Oldest(m, HeldOfRun(row[t].run))
    /\ SteerWanted(m) /\ SteerFitsTurn(c, m, t)
    /\ row[m].state = "pending" /\ row[m].kind = "queue"
    /\ row' = [row EXCEPT ![m] = TakenRow(m, "launching", c, "steer")]
    /\ steer' = IF steer[m].state = "requested"
                THEN [steer EXCEPT ![m].state = "claimed"] ELSE steer
    /\ UNCHANGED <<host, belief, current, created, turn, legacySteer, released,
                   install, permission, session, goalActive>>

\* A request for another turn, or one whose turn is no longer live.
ExpireSteer(c, m, t) ==
    /\ RequireOpen(c)
    /\ Bound(c, t)
    /\ Oldest(m, HeldOfRun(row[t].run))
    /\ SteerWanted(m) /\ ~SteerFitsTurn(c, m, t)
    /\ steer' = [steer EXCEPT ![m] = Expired(@)]
    /\ UNCHANGED <<host, belief, current, created, row, turn, legacySteer,
                   released, install, permission, session, goalActive>>

\* The provider consumed the steer inside the running turn t: the prompt's own
\* queued turn is completed directly, with no terminal fact of its own.
DeliverSteered(c, m, t) ==
    /\ RequireOpen(c)
    /\ Bound(c, t) /\ row[t].run = row[m].run /\ t # m
    /\ row[m].state = "launching" /\ OwnedBy(c, m) /\ row[m].via = "steer"
    /\ steer[m].state = "none" \/ (steer[m].state = "claimed" /\ steer[m].turn = t)
    /\ Open(m)
    /\ row' = Moved(m, "settled")
    /\ turn' = [turn EXCEPT ![m].phase = "completed"]
    /\ steer' = IF steer[m].state = "none" THEN steer
                ELSE [steer EXCEPT ![m].state = "delivered"]
    /\ UNCHANGED <<host, belief, current, created, legacySteer, released,
                   install, permission, session, goalActive>>

\* A targetless steer left over when its turn ended becomes the next turn.
StartSteeredTurn(c, m) ==
    /\ RequireOpen(c)
    /\ row[m].state = "launching" /\ OwnedBy(c, m) /\ row[m].via = "steer"
    /\ steer[m].state = "none"
    /\ m \notin released
    /\ row' = [row EXCEPT ![m].state = "started", ![m].via = "turn"]
    /\ released' = released \cup {m}
    /\ UNCHANGED <<host, belief, current, created, turn, steer, legacySteer,
                   install, permission, session, goalActive>>

CancelQueued(c, m) ==
    /\ RequireOpen(c)
    /\ Queued(m) /\ Open(m)
    /\ row' = [row EXCEPT ![m] = FreedRow(m, "settled")]
    /\ SettleTurn(m, "cancelled")
    /\ UNCHANGED <<host, belief, current, created, legacySteer, released,
                   install, session, goalActive>>

-----------------------------------------------------------------------------
(* What the bound provider process reports.                                 *)

\* saves are idempotent and unfenced; run_session_bindings is immutable.
AnnounceSession(c, m) ==
    /\ Bound(c, m) /\ row[m].run \notin session
    /\ session' = session \cup {row[m].run}
    /\ UNCHANGED <<host, belief, current, created, row, turn, steer,
                   legacySteer, released, install, permission, goalActive>>

\* The provider lost the session it was asked to resume.
RetireSession(c, m) ==
    /\ belief[c] = host.epoch
    /\ Bound(c, m) /\ row[m].run \in session
    /\ session' = session \ {row[m].run}
    /\ UNCHANGED <<host, belief, current, created, row, turn, steer,
                   legacySteer, released, install, permission, goalActive>>

\* A normalized batch carrying the turn's terminal fact; a provider ends a
\* turn once, so a second one is not modelled.
RecordProviderTerminal(c, m, phase) ==
    /\ RequireOpen(c)
    /\ Bound(c, m) /\ row[m].run \in session
    /\ turn[m].terminal = "none"
    /\ turn' = [turn EXCEPT ![m].terminal = phase]
    /\ UNCHANGED <<host, belief, current, created, row, steer, legacySteer,
                   released, install, permission, session, goalActive>>

\* Saving a permission consults neither the epoch nor the ingress.
SavePermission(c, m) ==
    /\ row[m].run \in PermissionRuns
    /\ Bound(c, m) /\ permission[row[m].run].turn = None
    /\ turn[m].terminal = "none"
    /\ permission' = [permission EXCEPT
            ![row[m].run] = [turn |-> m, epoch |-> belief[c]]]
    /\ UNCHANGED <<host, belief, current, created, row, turn, steer,
                   legacySteer, released, install, session, goalActive>>

AnswerPermission(r) ==
    /\ permission[r].turn # None
    /\ permission' = [permission EXCEPT ![r] = NoPermission]
    /\ UNCHANGED <<host, belief, current, created, row, turn, steer,
                   legacySteer, released, install, session, goalActive>>

-----------------------------------------------------------------------------
(* The host epoch, restarts and recovery.                                   *)

\* Bound: the last epoch stays open, so every behaviour ends with a live host.
MayClose == host.epoch < MaxEpoch

CloseUnder(c) ==
    /\ MayClose
    /\ belief[c] = host.epoch /\ host.ingress = "open"
    /\ UNCHANGED <<belief, current, created, row, turn, steer, legacySteer,
                   released, install, permission, session, goalActive>>

CloseIngress(c) ==
    /\ CloseUnder(c)
    /\ host' = [host EXCEPT !.ingress = "closed"]

\* Mutant of InFlight: an install in progress is forgotten.
InFlightOwned == {m \in Messages : row[m].state \in Owned}

InFlight == {m \in Messages : row[m].state \in Owned \cup {"provisioning"}}

\* quiesce_idle_owner: refused while any prompt or permission is in flight.
QuiesceIdleOwner(c) ==
    /\ InFlight = {}
    /\ \A r \in Runs : permission[r].turn = None
    /\ CloseUnder(c)
    /\ host' = [host EXCEPT !.ingress = "closed", !.idle = TRUE]

\* The successor process fences the old epoch; the others keep their belief.
FenceAndOpen(c) ==
    /\ host.ingress = "closed" /\ host.epoch < MaxEpoch
    /\ host' = [epoch |-> host.epoch + 1, ingress |-> "open", idle |-> FALSE]
    /\ belief' = [belief EXCEPT ![c] = host.epoch + 1]
    /\ UNCHANGED <<current, created, row, turn, steer, legacySteer, released,
                   install, permission, session, goalActive>>

\* Another owner of the successor process reads the new epoch.
Join(c) ==
    /\ host.ingress = "open" /\ belief[c] < host.epoch
    /\ belief' = [belief EXCEPT ![c] = host.epoch]
    /\ UNCHANGED <<host, current, created, row, turn, steer, legacySteer,
                   released, install, permission, session, goalActive>>

Stale(m, e) == row[m].epoch < e

\* Mutant of InterruptedInstalls: recovery does not look at installs.
NoInterruptedInstalls(e) == {}

\* recover_interrupted_installers: an install of a dead epoch is uncertain.
InterruptedInstalls(e) ==
    {m \in Messages : /\ install[m].status = "accepted" /\ install[m].epoch < e
                      /\ InstallOwns(m, "provisioning")}

\* Mutant of LostClaims: a launch is taken for a claim.
LostClaimsAndLaunches(e) ==
    {m \in Messages : row[m].state \in {"claimed", "launching"} /\ Stale(m, e)}

\* Claims of a dead epoch: the provider was never called.
LostClaims(e) == {m \in Messages : row[m].state = "claimed" /\ Stale(m, e)}

\* Launches of a dead epoch, which may have reached the provider.
LostLaunches(e) ==
    {m \in Messages : row[m].state \in {"launching", "started"} /\ Stale(m, e)}

Recover(c) ==
    /\ RequireOpen(c)
    /\ LET e == belief[c]
           installs == InterruptedInstalls(e)
           lost == LostLaunches(e)
           failed == lost \cup {m \in Messages : row[m].state = "unprovable"}
       IN /\ row' = [m \in Messages |->
                CASE m \in installs -> [row[m] EXCEPT !.state = "awaiting"]
                  [] m \in LostClaims(e) -> FreedRow(m, "pending")
                  [] m \in lost -> [row[m] EXCEPT !.state = "unprovable"]
                  [] OTHER -> row[m]]
          /\ install' = [m \in Messages |->
                IF m \in installs THEN [install[m] EXCEPT !.status = "unprovable"]
                                  ELSE install[m]]
          /\ turn' = TurnsClosed(failed, "failed")
          /\ steer' = UnprovableExpired(row', SteersOfClosed(failed))
          /\ permission' = [r \in Runs |->
                IF permission[r].epoch < e THEN NoPermission
                ELSE PermissionsOfClosed(failed)[r]]
    /\ UNCHANGED <<host, belief, current, created, legacySteer, released,
                   session, goalActive>>

-----------------------------------------------------------------------------
(* The conversation's selection, and the goal behind continuations.         *)

\* Mutant of ParentMayBeLeft: the parent run is not looked at.
ParentIgnored(r) == TRUE

\* reject_provisioning_parent: an install pins its conversation's current run.
ParentMayBeLeft(r) == \A m \in OfRun(r) : row[m].state # "provisioning"

Switch(c, r) ==
    /\ RequireOpen(c)
    /\ r \notin created
    /\ ParentMayBeLeft(current[ConvOf[r]])
    /\ created' = created \cup {r}
    /\ current' = [current EXCEPT ![ConvOf[r]] = r]
    /\ UNCHANGED <<host, belief, row, turn, steer, legacySteer, released,
                   install, permission, session, goalActive>>

\* The goal is paused, blocked, cleared or completed; or the user resumes it.
SetGoal(c, active) ==
    /\ RequireOpen(c)
    /\ Continuations # {} /\ goalActive # active
    /\ goalActive' = active
    /\ UNCHANGED <<host, belief, current, created, row, turn, steer,
                   legacySteer, released, install, permission, session>>

EndGoal(c)    == SetGoal(c, FALSE)
ResumeGoal(c) == SetGoal(c, TRUE)

-----------------------------------------------------------------------------
\* A daemon serves clients, prepares providers, drives prompts and restarts.
Admission(c) ==
    \E m \in Messages :
        \/ \E r \in Runs, k \in Kinds : SavePrompt(c, m, r, k)
        \/ \E t \in Messages : SavePromptForTurn(c, m, t)
        \/ \E t \in Messages : RequestSteer(c, m, t)
        \/ RequestLegacySteer(c, m)
        \/ CancelQueued(c, m)
        \/ ReleaseReady(c, m)
        \/ \E phase \in Outcomes \cap {"failed", "cancelled"} : FailReadiness(c, m, phase)
        \/ ReserveInstall(c, m)

Installer ==
    \E m \in Messages : \/ SettleInstall(m)
                        \/ RejectInstallBeforeEffect(m)
                        \/ SettleInstallUnprovable(m)

Dispatch(c) ==
    \/ \E p \in Providers, X \in SUBSET Runs : Claim(c, p, X)
    \/ \E p \in Providers, X \in SUBSET Runs : ClaimNothing(c, p, X)
    \/ \E m \in Messages :
        \/ BeginLaunch(c, m) \/ ReleaseClaim(c, m)
        \/ ConfirmStarted(c, m) \/ ReleaseUnstartedLaunch(c, m)
        \/ FailPrelaunch(c, m) \/ MarkUnprovable(c, m)
        \/ \E phase \in Outcomes : SettleTerminal(c, m, phase)

Steering(c) ==
    \E m \in Messages :
        \/ \E t \in Messages : \/ ClaimSteered(c, m, t) \/ ExpireSteer(c, m, t)
                               \/ DeliverSteered(c, m, t)
        \/ StartSteeredTurn(c, m)

Provider(c) ==
    \E m \in Messages :
        \/ AnnounceSession(c, m) \/ RetireSession(c, m) \/ SavePermission(c, m)
        \/ \E phase \in Outcomes : RecordProviderTerminal(c, m, phase)

Host(c) ==
    \/ CloseIngress(c) \/ QuiesceIdleOwner(c) \/ FenceAndOpen(c)
    \/ Join(c) \/ Recover(c)
    \/ \E r \in Runs : Switch(c, r)

Goal(c) == EndGoal(c) \/ ResumeGoal(c)

Next ==
    \/ \E c \in Coordinators :
        \/ Admission(c) \/ Dispatch(c) \/ Steering(c)
        \/ Provider(c) \/ Host(c) \/ Goal(c)
    \/ Installer
    \/ \E r \in Runs : AnswerPermission(r)

Spec == Init /\ [][Next]_vars

-----------------------------------------------------------------------------
(* Safety.                                                                  *)

\* Every variable holds what its column can hold.
TypeOK ==
    /\ host \in [epoch : Epochs, ingress : {"open", "closed"}, idle : BOOLEAN]
    /\ belief \in [Coordinators -> Epochs]
    /\ current \in [Conversations -> Runs]
    /\ created \subseteq Runs
    /\ row \in [Messages -> Rows]
    /\ turn \in [Messages -> Turns]
    /\ steer \in [Messages -> SteerTargets]
    /\ legacySteer \subseteq Messages
    /\ released \subseteq Messages
    /\ install \in [Messages -> Installs]
    /\ permission \in [Runs -> Permissions]
    /\ session \subseteq Runs
    /\ goalActive \in BOOLEAN

\* A held row names no owner and no epoch; a claimed, launching or started one
\* names both, and an epoch the host has reached: recovery's "host_epoch < ?"
\* then sees every in-flight row of a dead epoch.
OwnershipFollowsState ==
    \A m \in Messages :
        /\ row[m].state \in Held => row[m].owner = None /\ row[m].epoch = 0
        /\ row[m].state \in Owned => /\ row[m].owner \in Coordinators
                                     /\ row[m].epoch \in 1..host.epoch

\* A prompt's turn is open exactly as long as its dispatch row is unfinished,
\* whichever of the eight closing calls finished it: no turn is left spinning
\* and none is closed under a prompt that may still be sent.
TurnOpenIffUnfinished ==
    \A m \in Existing : Open(m) <=> row[m].state \notin Finished

\* A closed turn has the phase of its terminal fact. Only a steer delivered
\* into another turn closes without one.
TerminalFactDecides ==
    \A m \in Existing :
        /\ turn[m].terminal # "none" /\ ~Open(m) => turn[m].phase = turn[m].terminal
        /\ turn[m].terminal = "none" /\ ~Open(m) =>
                row[m].via = "steer" /\ turn[m].phase = "completed"
        /\ turn[m].terminal # "none" /\ Open(m) => row[m].state = "started"

\* A pending permission belongs to an open, started turn of its own run: a
\* client is never asked to decide for a turn that is over.
PermissionOfRunningTurn ==
    \A r \in Runs : LET m == permission[r].turn IN m # None =>
        /\ row[m].run = r /\ row[m].state = "started" /\ Open(m)
        /\ permission[r].epoch = row[m].epoch

\* A prompt reserved for an install is one recovery can give back: its accepted
\* receipt is there, it is untargeted, its run is still the current one.
ReservationIsRestorable ==
    \A m \in Messages : row[m].state = "provisioning" =>
        install[m].status = "accepted" /\ InstallOwns(m, "provisioning")

\* A targeted steer is in the provider's hands exactly while its target row
\* says claimed; a delivered one closed its own queued turn as completed.
SteerFollowsDispatch ==
    \A m \in Messages :
        /\ steer[m].state = "claimed" <=>
                /\ row[m].state = "launching" /\ row[m].via = "steer"
                /\ steer[m].state # "none"
        /\ steer[m].state = "delivered" =>
                row[m].state = "settled" /\ turn[m].phase = "completed"

\* A requested steer waits for a turn that is still open. The one exception is
\* a target that was itself steered into another turn (RequestTargetsOpenTurn).
RequestWaitsForTurn ==
    \A m \in Messages : steer[m].state = "requested" =>
        Open(steer[m].turn) \/ row[steer[m].turn].via = "steer"

\* An owner that quiesced left nothing in flight behind, nor does anything
\* start before the next epoch.
QuiescedIsIdle ==
    host.idle => /\ \A m \in Messages : row[m].state \notin Owned \cup {"provisioning"}
                 /\ \A r \in Runs : permission[r].turn = None

-----------------------------------------------------------------------------
(* What a step may never do.                                                *)

\* Nothing that reached the provider, or that may have, goes back to the queue:
\* only the launching coordinator, in its own epoch, may take a launch back.
NoReplay ==
    [][\A m \in Messages :
        /\ row[m].state \in {"started"} \cup Finished =>
                row'[m].state \in {"started"} \cup Finished
        /\ row[m].state \in Finished => row'[m].state = row[m].state
        /\ row[m].state = "launching" /\ row'[m].state \in Held =>
                row[m].epoch = host.epoch]_vars

\* A turn ends once, with one terminal fact.
TurnEndsOnce ==
    [][\A m \in Messages :
        /\ turn[m].phase \in TerminalPhases => turn'[m] = turn[m]
        /\ turn[m].terminal # "none" => turn'[m].terminal = turn[m].terminal]_vars

\* An in-flight row of a dead epoch moves only as recovery moves it: a claim
\* returns to the queue, a launch becomes unprovable, whatever a coordinator
\* of that epoch still tries.
DeadEpochIsFenced ==
    [][\A m \in Messages :
        row[m].state \in Owned /\ Stale(m, host.epoch) /\ row'[m] # row[m] =>
            \/ row[m].state = "claimed" /\ row'[m] = FreedRow(m, "pending")
            \/ row[m].state # "claimed" /\ row'[m].state = "unprovable"]_vars

\* Once its goal ended, a queued continuation is never sent.
EndedGoalSendsNothing ==
    [][\A m \in Continuations :
        ~goalActive /\ row[m].state \in Held =>
            row'[m].state \in Held \cup Finished]_vars

-----------------------------------------------------------------------------
(* The abstract promise this ledger implements.                             *)

\* A claim is durable but still only the daemon's: the provider saw nothing.
DeliveryOf(m) ==
    CASE row[m].state = "absent" -> "unsent"
      [] row[m].state \in Held \cup {"claimed"} -> "queued"
      [] row[m].state = "launching" /\ row[m].epoch = host.epoch -> "offered"
      [] row[m].state = "started" /\ row[m].epoch = host.epoch -> "running"
      [] row[m].state = "settled" -> "over"
      [] row[m].state = "unprovable" -> "uncertain"
      [] OTHER -> "orphaned"

OutcomeOf(m) ==
    IF turn[m].phase \in TerminalPhases THEN turn[m].phase ELSE "open"

Delivery == INSTANCE PromptDelivery WITH
    Ends <- TerminalPhases,
    delivery <- [m \in Messages |-> DeliveryOf(m)],
    outcome <- [m \in Messages |-> OutcomeOf(m)]

\* Every ledger transaction is one step, or no step, of at-most-once delivery,
\* through crashes, steers and several owners at once.
ImplementsDelivery == Delivery!Spec

-----------------------------------------------------------------------------
(* Liveness. The daemon's cadence keeps waking each owner, and the first     *)
(* wake of a process recovers; a closed host is started again by its         *)
(* service. Nothing is assumed of clients or providers.                      *)

RestartFairness ==
    /\ WF_vars(\E c \in Coordinators : FenceAndOpen(c))
    /\ WF_vars(\E c \in Coordinators : Recover(c))

RestartSpec == Spec /\ RestartFairness

StaleWork(m) ==
    \/ row[m].state \in Owned /\ Stale(m, host.epoch)
    \/ row[m].state = "provisioning" /\ install[m].epoch < host.epoch

\* Whatever a dead daemon left in flight is eventually given back or failed.
DeadEpochDrains ==
    /\ \A m \in Messages : StaleWork(m) ~> ~StaleWork(m)
    /\ \A r \in Runs :
        permission[r].epoch \in 1..(host.epoch - 1)
            ~> permission[r].epoch \notin 1..(host.epoch - 1)

\* Each owner also keeps offering a claim to the oldest prompt.
DispatchSpec ==
    RestartSpec /\ WF_vars(\E c \in Coordinators, p \in Providers : Claim(c, p, {}))

\* Nothing but a claim stands between this prompt and its provider.
Waiting(m) ==
    row[m].state = "pending" /\ steer[m].state = "none" /\ OnCurrentRun(m)

\* Work that was only claimed when its daemon died is replayed by the successor
\* (the test successor_replays_only_known_prelaunch_work): a waiting prompt is
\* eventually claimed again, or stops waiting. The code breaks this for queued
\* prompts: the second claim inserts the PromptReleased event id again.
PrelaunchWorkIsReplayed == \A m \in Messages : Waiting(m) ~> ~Waiting(m)

\* An accepted targeted steer names an "exact active dispatched turn" until it
\* is answered. The code breaks this when the target was a steer in flight.
RequestTargetsOpenTurn ==
    \A m \in Messages : steer[m].state = "requested" => Open(steer[m].turn)
=============================================================================
