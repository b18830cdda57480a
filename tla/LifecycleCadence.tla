-------------------------- MODULE LifecycleCadence --------------------------
(***************************************************************************)
(* The daemon's lifecycle: the admission latch with its permits, the one    *)
(* cadence task that recovers, drives and drains the provider hosts under   *)
(* the router lock, the threads that wake a host for a committed prompt,    *)
(* the warm pool, and the owner request that closes an idle daemon.         *)
(*                                                                         *)
(* A host is the lazily made ProviderLifecycleHost with its one-slot        *)
(* mailbox and its supervisor. Each prompt is on a run of its own. Of an    *)
(* owned process only its number matters: the turns that run, and `spare`,  *)
(* the sessions between turns together with the warmed ones. `refused` only *)
(* remembers, for a property, that no turn came of the last claim. The      *)
(* Claurst host and the escalation of a shutdown, which nothing calls, are  *)
(* left out.                                                                *)
(***************************************************************************)
EXTENDS Naturals, FiniteSets

CONSTANTS
    Hosts,            \* the providers of the router
    Prompts, HostOf,  \* prompts and the provider of each
    Left,             \* prompts a previous owner left queued
    ReadyAtStart,     \* providers installed when the daemon starts
    MaxActive,        \* process bound of a host
    Starts,           \* how a claimed prompt goes: "started", "failed", "denied"
    Requests,         \* how a shutdown begins: "quiesce", "shutdown"
    WarmUps           \* bound: warm processes asked for

ASSUME LifecycleCadenceAssumption ==
    /\ HostOf \in [Prompts -> Hosts]
    /\ Left \subseteq Prompts
    /\ ReadyAtStart \subseteq Hosts
    /\ MaxActive \in Nat \ {0}
    /\ Starts \subseteq {"started", "failed", "denied"}
    /\ Requests \subseteq {"quiesce", "shutdown"}
    /\ WarmUps \in Nat

VARIABLES
    latch,    \* AdmissionState: phase and quiesced
    cadence,  \* where the cadence task is
    stopping, \* the drive is the one of drain_shutdown
    todo,     \* hosts the pass in progress has yet to visit
    notify,   \* a stored notification of the cadence
    hosts,    \* per provider: mailbox, phases, supervisor, processes
    ready,    \* providers that are installed
    prompts,  \* the dispatch of each prompt
    request,  \* the connection that sends each prompt, then its wake thread
    provider, \* what the provider of each prompt's turn has said
    warming   \* a warm-up request: its permit, then its notification

vars == <<latch, cadence, stopping, todo, notify, hosts, ready, prompts, request, provider, warming>>

PromptsOf(h) == {p \in Prompts : HostOf[p] = h}
Turns(h) == {p \in PromptsOf(h) : prompts[p] = "running"}
ActiveLen(h) == Cardinality(Turns(h)) + hosts[h].spare

Absent == [made |-> FALSE, pending |-> "none", loop |-> "awaitingWake", armed |-> FALSE,
           asked |-> FALSE, supervisor |-> "awaitingRecovery", spare |-> 0, gone |-> 0,
           refused |-> FALSE]

Made == [Absent EXCEPT !.made = TRUE]

(* Holders of an OrdinaryPromptPermit. A thread that is spawned has none    *)
(* before it acquires its own.                                              *)
Permits == {p \in Prompts : request[p] \in {"admitted", "holding", "woke"}}
Permitted == Permits # {} \/ warming.step # "idle"

(* The cadence holds the router while a pass or the shutdown loop runs.     *)
RouterFree == cadence \notin {"pass", "begin"}

Init ==
    /\ latch = [phase |-> "recovering", quiesced |-> FALSE]
    /\ cadence = "start" /\ stopping = FALSE /\ todo = {} /\ notify = FALSE
    /\ hosts = [h \in Hosts |-> Absent]
    /\ ready = ReadyAtStart
    /\ prompts = [p \in Prompts |-> IF p \in Left THEN "queued" ELSE "unsent"]
    /\ request = [p \in Prompts |-> "none"]
    /\ provider = [p \in Prompts |-> "silent"]
    /\ warming = [step |-> "idle", left |-> WarmUps]

(***************************************************************************)
(* The mailbox of a host                                                    *)
(***************************************************************************)
(* wake_after_prompt_commit: arms the host; a wake on top of a pending      *)
(* command coalesces with it.                                               *)
Wake(host) == [host EXCEPT !.armed = TRUE, !.refused = FALSE,
                           !.pending = IF @ = "none" THEN "wake" ELSE @]

(* start_existing and start: the host is made for an installed provider.    *)
StartExisting(h) == IF h \in ready /\ ~hosts[h].made THEN Made ELSE hosts[h]

NextLoop(loop, command) ==
    IF command = "shutdown" THEN "awaitingDrainWake"
    ELSE IF loop = "awaitingWake" THEN "ready"
    ELSE IF loop = "awaitingDrainWake" THEN "readyToEscalate" ELSE loop

(* begin_shutdown_after_recovery: a host nobody drove is refused, and so is *)
(* one whose mailbox is taken.                                              *)
MayBeginShutdown(host) ==
    host.loop # "awaitingWake" /\ (host.asked \/ host.pending = "none")

BeginShutdown(host) ==
    IF host.asked THEN host
    ELSE [host EXCEPT !.armed = TRUE, !.pending = "shutdown", !.asked = TRUE]

(***************************************************************************)
(* Clients                                                                  *)
(***************************************************************************)
AcquirePrompt(p) ==
    /\ request[p] = "none" /\ prompts[p] = "unsent"
    /\ latch.phase = "ready"
    /\ request' = [request EXCEPT ![p] = "admitted"]
    /\ UNCHANGED <<latch, cadence, stopping, todo, notify, hosts, ready, prompts, provider, warming>>

(* The prompt commits, its wake is handed to a thread, the permit dropped.  *)
Submit(p) ==
    /\ request[p] = "admitted"
    /\ prompts' = [prompts EXCEPT ![p] = "queued"]
    /\ request' = [request EXCEPT ![p] = "spawned"]
    /\ UNCHANGED <<latch, cadence, stopping, todo, notify, hosts, ready, provider, warming>>

OperationAllowed == latch.phase # "draining"

AcquireOperation(p) ==
    /\ request[p] = "spawned"
    /\ request' = [request EXCEPT ![p] = IF OperationAllowed THEN "holding" ELSE "done"]
    /\ UNCHANGED <<latch, cadence, stopping, todo, notify, hosts, ready, prompts, provider, warming>>

(* The thread wakes the host under the router lock; a provider that is not  *)
(* installed fails the prompt.                                              *)
WakeHost(p) ==
    LET h == HostOf[p] IN
    /\ request[p] = "holding" /\ RouterFree
    /\ IF hosts[h].made \/ h \in ready
       THEN /\ hosts' = [hosts EXCEPT ![h] = Wake(StartExisting(h))]
            /\ request' = [request EXCEPT ![p] = "woke"]
            /\ UNCHANGED prompts
       ELSE /\ prompts' = [prompts EXCEPT ![p] = IF @ = "queued" THEN "failed" ELSE @]
            /\ request' = [request EXCEPT ![p] = "done"]
            /\ UNCHANGED hosts
    /\ UNCHANGED <<latch, cadence, stopping, todo, notify, ready, provider, warming>>

(* Mutant of Notified: the thread ends without its notify_one.              *)
NotNotified == notify

Notified == TRUE

NotifyWoken(p) ==
    /\ request[p] = "woke"
    /\ notify' = Notified
    /\ request' = [request EXCEPT ![p] = "done"]
    /\ UNCHANGED <<latch, cadence, stopping, todo, hosts, ready, prompts, provider, warming>>

(* A client warms a conversation up: with a permit, under the router lock.  *)
AcquireWarm ==
    /\ warming.step = "idle" /\ warming.left > 0
    /\ latch.phase = "ready"
    /\ warming' = [step |-> "holding", left |-> warming.left - 1]
    /\ UNCHANGED <<latch, cadence, stopping, todo, notify, hosts, ready, prompts, request, provider>>

WarmUp(h) ==
    LET host == StartExisting(h)
        room == ActiveLen(h) < MaxActive \/ host.spare > 0
    IN
    /\ warming.step = "holding" /\ RouterFree
    /\ IF host.made /\ host.supervisor = "running" /\ room
       THEN /\ hosts' = [hosts EXCEPT ![h] =
                    [Wake(host) EXCEPT !.spare = IF ActiveLen(h) < MaxActive THEN @ + 1 ELSE @]]
            /\ warming' = [warming EXCEPT !.step = "woke"]
       ELSE /\ hosts' = [hosts EXCEPT ![h] = host]
            /\ warming' = [warming EXCEPT !.step = "idle"]
    /\ UNCHANGED <<latch, cadence, stopping, todo, notify, ready, prompts, request, provider>>

NotifyWarm ==
    /\ warming.step = "woke"
    /\ notify' = Notified
    /\ warming' = [warming EXCEPT !.step = "idle"]
    /\ UNCHANGED <<latch, cadence, stopping, todo, hosts, ready, prompts, request, provider>>

(***************************************************************************)
(* Closing the daemon                                                       *)
(***************************************************************************)
Working == {p \in Prompts : prompts[p] = "running"}

(* Mutant of OwnerIdle: the latch is closed while permits are out.          *)
OwnerIdleButPermits ==
    /\ latch.phase = "ready" /\ RouterFree
    /\ \A h \in Hosts : ~hosts[h].armed
    /\ Working = {}

OwnerIdle ==
    /\ latch.phase = "ready" /\ ~Permitted
    /\ RouterFree
    /\ \A h \in Hosts : ~hosts[h].armed
    /\ Working = {}

(* quiesce_if_idle with the ledger's own check in the middle of it.         *)
Quiesce ==
    /\ "quiesce" \in Requests
    /\ OwnerIdle
    /\ latch' = [phase |-> "draining", quiesced |-> TRUE]
    /\ UNCHANGED <<cadence, stopping, todo, notify, hosts, ready, prompts, request, provider, warming>>

RequestShutdown ==
    /\ "shutdown" \in Requests
    /\ latch.phase # "draining"
    /\ latch' = [latch EXCEPT !.phase = "draining"]
    /\ UNCHANGED <<cadence, stopping, todo, notify, hosts, ready, prompts, request, provider, warming>>

(***************************************************************************)
(* The cadence                                                              *)
(***************************************************************************)
Begin ==
    /\ cadence = "start"
    /\ cadence' = IF latch.phase = "draining" THEN "done" ELSE "recover"
    /\ UNCHANGED <<latch, stopping, todo, notify, hosts, ready, prompts, request, provider, warming>>

ActivateRecovery ==
    /\ cadence = "recover"
    /\ hosts' = [h \in Hosts |-> LET host == StartExisting(h) IN
                     IF host.made THEN Wake(host) ELSE host]
    /\ cadence' = "open"
    /\ UNCHANGED <<latch, stopping, todo, notify, ready, prompts, request, provider, warming>>

OpenAfterRecovery ==
    /\ cadence = "open"
    /\ latch' = [latch EXCEPT !.phase = IF @ = "recovering" THEN "ready" ELSE @]
    /\ cadence' = "check"
    /\ UNCHANGED <<stopping, todo, notify, hosts, ready, prompts, request, provider, warming>>

(* Each round of drive_until_idle looks at the latch, then takes the router.*)
CheckQuiesced ==
    /\ cadence = "check"
    /\ cadence' = IF ~stopping /\ latch.quiesced THEN "select" ELSE "lock"
    /\ UNCHANGED <<latch, stopping, todo, notify, hosts, ready, prompts, request, provider, warming>>

TakeRouter ==
    /\ cadence = "lock"
    /\ cadence' = "pass"
    /\ todo' = {h \in Hosts : hosts[h].armed}
    /\ UNCHANGED <<latch, stopping, notify, hosts, ready, prompts, request, provider, warming>>

(* poll_active: the ended turns settle, their sessions stay unless they     *)
(* exited, and spare processes that ended are forgotten.                    *)
Ended(h) == {p \in Turns(h) : provider[p] # "silent"}
Completed(h) == {p \in Ended(h) : provider[p] = "completed"}

(* Mutant of Polled: a session that exits between turns is kept.            *)
PolledTurnsOnly(h) == [hosts[h] EXCEPT !.spare = @ + Cardinality(Completed(h)), !.gone = 0]

Polled(h) ==
    [hosts[h] EXCEPT !.spare = (@ - hosts[h].gone) + Cardinality(Completed(h)), !.gone = 0]
Settled(h) == [p \in Prompts |-> IF p \in Ended(h) THEN "settled" ELSE prompts[p]]

NeedsDrive(supervisor, turns) ==
    \/ supervisor \in {"awaitingRecovery", "draining"}
    \/ supervisor = "running" /\ turns # {}

(* Mutant of Ticked: a queued prompt is claimed whatever the bound.         *)
TickedBeyondBound(h, host, after) ==
    LET running == {p \in PromptsOf(h) : after[p] = "running"}
        queued  == {p \in PromptsOf(h) : after[p] = "queued"}
    IN  IF queued # {}
        THEN {[host |-> host, prompts |-> [after EXCEPT ![p] = "running"]] : p \in queued}
        ELSE {[host |-> host, prompts |-> after]}

(* What becomes of a claimed prompt: it starts, or fails before its turn,   *)
(* or is denied its launch (the provider changed, the lease of the run is   *)
(* contended) and released to the queue.                                    *)
Launched(host, after, p, outcome) ==
    [host    |-> [host EXCEPT !.refused = outcome # "started"],
     prompts |-> [after EXCEPT ![p] = CASE outcome = "started" -> "running"
                                        [] outcome = "failed"  -> "failed"
                                        [] outcome = "denied"  -> "queued"]]

(* make_room_for: at the bound a spare process is given up for the launch.  *)
MakeRoom(host, turns) ==
    [host EXCEPT !.spare = IF turns + host.spare >= MaxActive THEN @ - 1 ELSE @]

(* tick, behind the poll: at most one prompt is claimed, with a free place  *)
(* or in the place of a spare process.                                      *)
Ticked(h, host, after) ==
    LET turns  == Cardinality({p \in PromptsOf(h) : after[p] = "running"})
        queued == {p \in PromptsOf(h) : after[p] = "queued"}
    IN  IF queued # {} /\ (turns + host.spare < MaxActive \/ host.spare > 0)
        THEN UNION {{Launched(MakeRoom(host, turns), after, p, outcome) : outcome \in Starts} : p \in queued}
        ELSE {[host |-> host, prompts |-> after]}

(* What one command to the supervisor can lead to.                          *)
Executed(h, command) ==
    LET host    == hosts[h]
        drained == Polled(h).spare = 0 /\ Ended(h) = Turns(h)
    IN CASE command = "shutdown" ->
              {[host |-> [host EXCEPT !.supervisor = IF ActiveLen(h) = 0 THEN "stopped" ELSE "draining"],
                prompts |-> prompts]}
         [] command = "wake" /\ host.supervisor = "draining" ->
              {[host |-> [Polled(h) EXCEPT !.supervisor = IF drained THEN "stopped" ELSE "draining"],
                prompts |-> Settled(h)]}
         [] command = "wake" /\ host.supervisor = "stopped" ->
              {[host |-> host, prompts |-> prompts]}
         [] OTHER -> Ticked(h, [Polled(h) EXCEPT !.supervisor = "running"], Settled(h))

(* drive: a pending command wins over the wake of the drive.                *)
Command(host) == IF host.pending = "none" THEN "wake" ELSE host.pending

DriveHost(h) ==
    /\ cadence = "pass" /\ h \in todo
    /\ \E result \in Executed(h, Command(hosts[h])) :
          /\ prompts' = result.prompts
          /\ hosts' = [hosts EXCEPT ![h] =
                [result.host EXCEPT
                    !.pending = "none",
                    !.loop    = NextLoop(@, Command(hosts[h])),
                    !.armed   = NeedsDrive(result.host.supervisor,
                                   {p \in PromptsOf(h) : result.prompts[p] = "running"})]]
    /\ todo' = todo \ {h}
    /\ UNCHANGED <<latch, cadence, stopping, notify, ready, request, provider, warming>>

ShutdownComplete(host) == host.made => host.asked /\ host.supervisor = "stopped"

(* Mutant of PassEnded: an armed host is left for the next notification.    *)
PassEndedAtOnce ==
    IF ~stopping THEN "select"
    ELSE IF \A h \in Hosts : ShutdownComplete(hosts[h]) THEN "done" ELSE "failed"

PassEnded ==
    IF \E h \in Hosts : hosts[h].armed THEN "check"
    ELSE IF ~stopping THEN "select"
    ELSE IF \A h \in Hosts : ShutdownComplete(hosts[h]) THEN "done" ELSE "failed"

EndPass ==
    /\ cadence = "pass" /\ todo = {}
    /\ cadence' = PassEnded
    /\ UNCHANGED <<latch, stopping, todo, notify, hosts, ready, prompts, request, provider, warming>>

SelectNotified ==
    /\ cadence = "select" /\ notify
    /\ notify' = FALSE
    /\ cadence' = "check"
    /\ UNCHANGED <<latch, stopping, todo, hosts, ready, prompts, request, provider, warming>>

(* The warm pool is reaped: spare processes whose time is over are released.*)
SelectReap ==
    /\ cadence = "select"
    /\ \E kept \in [Hosts -> 0..MaxActive] :
          /\ \A h \in Hosts : kept[h] <= hosts[h].spare
          /\ hosts' = [h \in Hosts |->
                [StartExisting(h) EXCEPT
                    !.spare = IF hosts[h].supervisor = "running" THEN kept[h] ELSE @,
                    !.gone  = IF hosts[h].supervisor = "running" /\ kept[h] < @ THEN kept[h] ELSE @]]
    /\ UNCHANGED <<latch, cadence, stopping, todo, notify, ready, prompts, request, provider, warming>>

SelectShutdown ==
    /\ cadence = "select" /\ latch.phase = "draining"
    /\ cadence' = "permits"
    /\ UNCHANGED <<latch, stopping, todo, notify, hosts, ready, prompts, request, provider, warming>>

(* Mutant of PermitsOut: the drain begins while permits are out.            *)
PermitsIgnored == FALSE

PermitsOut == Permitted

WaitForPermits ==
    /\ cadence = "permits" /\ ~PermitsOut
    /\ cadence' = "begin"
    /\ todo' = Hosts
    /\ UNCHANGED <<latch, stopping, notify, hosts, ready, prompts, request, provider, warming>>

BeginHost(h) ==
    /\ cadence = "begin" /\ h \in todo
    /\ todo' = todo \ {h}
    /\ IF ~hosts[h].made THEN UNCHANGED <<hosts, cadence>>
       ELSE IF MayBeginShutdown(hosts[h])
       THEN hosts' = [hosts EXCEPT ![h] = BeginShutdown(@)] /\ UNCHANGED cadence
       ELSE cadence' = "failed" /\ UNCHANGED hosts
    /\ UNCHANGED <<latch, stopping, notify, ready, prompts, request, provider, warming>>

HostsBegun ==
    /\ cadence = "begin" /\ todo = {}
    /\ cadence' = "check" /\ stopping' = TRUE
    /\ UNCHANGED <<latch, todo, notify, hosts, ready, prompts, request, provider, warming>>

(***************************************************************************)
(* The world                                                                *)
(***************************************************************************)
ProviderEnds(p) ==
    /\ prompts[p] = "running" /\ provider[p] = "silent"
    /\ \E said \in {"completed", "exited"} : provider' = [provider EXCEPT ![p] = said]
    /\ UNCHANGED <<latch, cadence, stopping, todo, notify, hosts, ready, prompts, request, warming>>

SpareExits(h) ==
    /\ hosts[h].gone < hosts[h].spare
    /\ hosts' = [hosts EXCEPT ![h].gone = @ + 1]
    /\ UNCHANGED <<latch, cadence, stopping, todo, notify, ready, prompts, request, provider, warming>>

Install(h) ==
    /\ h \notin ready
    /\ ready' = ready \cup {h}
    /\ UNCHANGED <<latch, cadence, stopping, todo, notify, hosts, prompts, request, provider, warming>>

Stopped == cadence \in {"done", "failed"}

CadenceStep ==
    \/ Begin \/ ActivateRecovery \/ OpenAfterRecovery \/ CheckQuiesced \/ TakeRouter \/ EndPass
    \/ SelectNotified \/ SelectShutdown \/ WaitForPermits \/ HostsBegun
    \/ \E h \in Hosts : DriveHost(h) \/ BeginHost(h)

RequestStep(p) == Submit(p) \/ AcquireOperation(p) \/ WakeHost(p) \/ NotifyWoken(p)

Next ==
    \/ ~Stopped /\ CadenceStep
    \/ SelectReap
    \/ \E p \in Prompts : ~Stopped /\ (AcquirePrompt(p) \/ RequestStep(p) \/ ProviderEnds(p))
    \/ ~Stopped /\ (AcquireWarm \/ NotifyWarm \/ Quiesce \/ RequestShutdown)
    \/ \E h \in Hosts : ~Stopped /\ (WarmUp(h) \/ SpareExits(h) \/ Install(h))

Spec == Init /\ [][Next]_vars

(* The cadence and the threads run; turns end; an interrupted process exits.*)
Fairness ==
    /\ WF_vars(CadenceStep)
    /\ \A p \in Prompts : WF_vars(RequestStep(p)) /\ WF_vars(ProviderEnds(p))
    /\ WF_vars(\E h \in Hosts : WarmUp(h)) /\ WF_vars(NotifyWarm)
    /\ \A h \in Hosts : WF_vars(hosts[h].supervisor = "draining" /\ SpareExits(h))

FairSpec == Spec /\ Fairness

(***************************************************************************)
(* Properties                                                               *)
(***************************************************************************)
Host == [made : BOOLEAN, pending : {"none", "wake", "shutdown"},
         loop : {"awaitingWake", "ready", "awaitingDrainWake", "readyToEscalate"},
         armed : BOOLEAN, asked : BOOLEAN,
         supervisor : {"awaitingRecovery", "running", "draining", "stopped"},
         spare : 0..MaxActive, gone : 0..MaxActive, refused : BOOLEAN]

(* Type correctness. It holds the process bound too: a host never owns more *)
(* than max_active turns and spare sessions together.                       *)
TypeOK ==
    /\ latch \in [phase : {"recovering", "ready", "draining"}, quiesced : BOOLEAN]
    /\ cadence \in {"start", "recover", "open", "check", "lock", "pass", "select", "permits",
                    "begin", "done", "failed"}
    /\ stopping \in BOOLEAN /\ notify \in BOOLEAN
    /\ todo \subseteq Hosts /\ ready \subseteq Hosts
    /\ hosts \in [Hosts -> Host]
    /\ prompts \in [Prompts -> {"unsent", "queued", "running", "settled", "failed"}]
    /\ request \in [Prompts -> {"none", "admitted", "spawned", "holding", "woke", "done"}]
    /\ provider \in [Prompts -> {"silent", "completed", "exited"}]
    /\ warming \in [step : {"idle", "holding", "woke"}, left : 0..WarmUps]
    /\ \A h \in Hosts : ActiveLen(h) <= MaxActive

(* No wake is lost between a thread and the cadence: as long as the daemon  *)
(* is open, a host that asks to be driven is being driven, or a             *)
(* notification is stored or about to be, or the cadence has not yet begun  *)
(* its first round (schedule, drive_until_idle, select!).                   *)
ArmedHostIsDriven ==
    \A h \in Hosts : hosts[h].armed /\ cadence = "select" =>
        \/ notify
        \/ \E p \in PromptsOf(h) : request[p] = "woke"
        \/ warming.step = "woke"

(* Once the owner has told a client that it is quiesced, prompts only       *)
(* settle: none is queued, started or failed, whoever was on the way when   *)
(* the latch closed (quiesce_if_idle, acquire_operation, drive_until_idle). *)
QuiescedStartsNothing ==
    [][latch.quiesced =>
        \A p \in Prompts : prompts'[p] # prompts[p] => prompts'[p] = "settled"]_vars

(* The drain begins behind the last permit: while hosts are told to shut    *)
(* down or drained, no client is before its commit, no wake thread or       *)
(* warm-up that was let in is at work (wait_for_permits). It says nothing of *)
(* a thread that is spawned and was not let in yet: the permit of the        *)
(* request ends there and the thread asks for its own (schedule), so a drain *)
(* may begin between the commit of a prompt and its wake.                   *)
NoPermitWhileDraining == cadence = "begin" \/ stopping => ~Permitted

(* What holds of the daemon at all times: hosts keep their process bound, no *)
(* wake is lost, and no drain begins over a permit.                         *)
CadenceInvariant == TypeOK /\ ArmedHostIsDriven /\ NoPermitWhileDraining

(* An owner that was found idle and closed stops in good order: the drain   *)
(* is accepted by every host, except one that was made for a provider that  *)
(* was installed later and never driven, and proven by it (drain_shutdown). *)
QuiescedOwnerStopsCleanly ==
    latch.quiesced /\ cadence = "failed" =>
        \E h \in Hosts : hosts[h].made /\ hosts[h].loop = "awaitingWake"

(* A queued prompt whose wake was handed to its host leaves the queue, or   *)
(* the daemon closes, or behind that wake a claim of this host came to      *)
(* nothing: then it, or what is behind it, waits for the next wake (tick,   *)
(* needs_drive).                                                            *)
WokenPromptIsTaken ==
    \A p \in Prompts : request[p] = "woke" ~>
        prompts[p] # "queued" \/ latch.phase = "draining" \/ hosts[HostOf[p]].refused

(* A closed owner comes to its end: the permits that were out are returned, *)
(* the pass in progress ends, every process is drained.                     *)
ClosedOwnerStops == latch.phase = "draining" ~> Stopped
=============================================================================
