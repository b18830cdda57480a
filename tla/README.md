# Verification of the Gent runtime

TLA+ models of `gentd`, the daemon that owns Gent's SQLite fact ledger and
drives the provider command lines (Claude Code, Codex, Claurst), with TLC runs
and TLAPS proofs. `gent` is a client of it and keeps no state. The models
follow the code under `src/crates`; `PROJECT.json` maps every definition to the
lines it stands for.

## The system

| Part | State | Operations | What makes it correct | Module |
| --- | --- | --- | --- | --- |
| Prompt dispatch ledger (`gent-store/.../agent_chat_ledger`) | a dispatch row and a turn per prompt, event ids | save, release, claim, begin/confirm/release a launch, fail, settle, recover | a prompt reaches its provider at most once, its turn ends exactly when it does | `PromptLedger`, `PromptDelivery` |
| Steering (`agent_chat_steer_target.rs`, `prompt_steer.rs`) | a target row per steered prompt | request, claim, deliver, expire, start as a turn | a steer is consumed once, and only by the turn it named | `PromptLedger` |
| Provider install (`private_provider_prompt_provision*.rs`) | install receipts | reserve, settle, reject, mark unprovable, recover | a held prompt is always given back | `PromptLedger` |
| Permissions (`pending_permission_ledger.rs`) | one pending request a run | save, answer, close with the turn | no decision is asked for a turn that is over | `PromptLedger` |
| Host epoch (`epoch.rs`, `runtime_owner.rs`), selection (`switch.rs`) | epoch, ingress; current run | close, fence and open, quiesce; switch | a replaced daemon changes nothing | `PromptLedger` |
| Goals and their pursuit (`goals.rs`, `goal_ledger.rs`, `goal_pursuit.rs`) | goal record, continuations, what was woken | set, pause, resume, clear, report; account, decide, continue, wake | one active goal, one open continuation, no turn charged twice, stopped stays stopped | `GoalPursuit` |
| Local model admission (`prompt_admission*.rs`, `local_model_jobs*.rs`) | waiters, tasks, download jobs, the model file | follow, share, stop a download; hold, release, fail, cancel | a prompt is released only to a verified model, and leaves in the end | `PromptAdmission` |
| Lifecycle loop, hosts, cadence (`provider_lifecycle_host.rs`, `private_lifecycle_loop.rs`, `ordinary_lifecycle_*.rs`) | admission latch, permits, mailboxes, supervisors | recover, wake, drive, warm, quiesce, drain | no wake is lost, a closed daemon starts nothing and ends | `LifecycleCadence` |
| Runtime update (`runtime_update_*.rs`) | append-only journal, ingress | plan, stage, check health, hand over, confirm | one history an attempt, ingress closed behind it and always opened again | `RuntimeUpdate` |
| Runtime activation (`runtime_activation*.rs`) | owner and install locks, generations, the selection, operation records | activate, adopt, inspect | the selection is whole, never older, and its record can be trusted | `RuntimeActivation` |
| Attachments (`attachments.rs`, `attachment_blobs.rs`) | rows, receipts, staging files, blobs | begin, append, commit | what is available is what was verified | `AttachmentTransfer` |
| Reviewed plans (`reviewed_plan*.rs`) | revisions, approvals, child runs | ingest, approve, reject, implement | a plan is decided once and implemented once | `ReviewedPlan` |
| Prompt lifecycles (`gentd/src/*_prompt_lifecycle`) | in-memory binding of each live process | poll, steer, dispatch, interrupt, exit | memory and ledger agree after every failure | its ledger calls are the `Dispatch`, `Steering` and `Provider` actions of `PromptLedger` |
| Run leases (`leases.rs`), orchestration, permission policy, drivers, protocol, client, sandbox, git, MCP | | | | not modelled |

Every ledger operation is one `IMMEDIATE` SQLite transaction under one mutex. An
error rolls it back. Interleaving therefore happens *between* ledger calls:
several lifecycle owners, client requests, provider events and installers reach
the same rows in any order, and a daemon may die between any two calls. A
successor process closes and fences the epoch, and its first wake recovers.
A host lock normally keeps two daemons apart, so calls of a stale epoch are
defence in depth; the models let the stale owner go on calling at any time,
because the epoch check in each transaction is there for exactly that.

How the parts meet. A client's prompt passes the admission latch
(`LifecycleCadence`), is saved (`PromptLedger.Save`), waits for its model if its
provider runs one (`PromptAdmission`), and wakes the host whose lifecycle claims
and launches it. The pursuit of goals and of reviewed plans are two services of
one half-second task: each saves a prompt of its own and asks admission for it.
An update closes the ingress through the host epoch, and the daemon that
follows fences it; activation replaces the executables beneath, from a process
that holds the lock the daemon held. Each module keeps the part of the shared
state it needs (`host` is in five of them, with the same two transactions), so
that each can be checked alone; what it takes from the others is the weakest
thing they promise, and is said in its header.

## Modules

| Module | Contents |
| --- | --- |
| `PromptLedger` | the ledger: one action per operation of the code, the properties |
| `PromptDelivery` | the abstract promise: at-most-once delivery, one outcome a prompt |
| `GoalPursuit`, `PromptAdmission`, `LifecycleCadence`, `RuntimeUpdate`, `RuntimeActivation`, `AttachmentTransfer`, `ReviewedPlan` | one component each: its state, its actions, its properties |
| `MC...` | constants, bounds and symmetry of the TLC instances, one beside each component |
| `PromptLedgerProofs`, `GoalPursuitProofs`, `PromptAdmissionProofs`, `LifecycleCadenceProofs`, `RuntimeUpdateProofs`, `RuntimeActivationProofs`, `AttachmentTransferProofs`, `ReviewedPlanProofs` | theorems and proofs, one module beside each component |

### PromptLedger

| Variable | In the code |
| --- | --- |
| `host` | `host_state`: epoch and ingress; `idle` records that `quiesce_idle_owner` closed it |
| `belief` | the epoch an owner read when its process was composed (`standalone_authority_composition.rs`) |
| `row` | `agent_chat_prompt_dispatches`, with the run and disposition of its message and the order of `created_rowid`; `via` says whether the lifecycle holds a launching prompt as the turn it runs or as a steer |
| `turn` | `turns.phase` and the recorded terminal activity fact |
| `steer`, `legacySteer` | `agent_chat_steer_targets`; receipts of targetless steers |
| `released` | event ids `agent-chat-queue:<message>:released` in the event log |
| `install` | the latest provision receipt of a message |
| `permission` | `pending_provider_permissions` |
| `session` | `run_session_bindings` |
| `current`, `created` | the newest run of a conversation, the runs there are |
| `goalActive` | `conversation_goals.status = 'active'` for the goal of the continuations |

A message names the turn it opened. A row's epoch 0 is a SQL `NULL`. The three
open phases (`active`, `waitingPermission`, `waitingQuestion`) are one, `active`:
every query of these operations treats them alike and none of them writes the
other two. Texts, attachments, transcripts, cursors and receipts of the client's own
commands are left out. A repeated client command returns its stored receipt
and changes nothing, so it is a stutter. The actions are grouped by who calls
them: `Admission` (clients and readiness), `Installer`, `Dispatch` and
`Steering` (the lifecycle owner), `Provider` (its process), `Host`, `Goal`.

What the code checks is a guard of the action; what the code does in the same
transaction is one action. So `SettleTerminal` also closes the turn, appends the
terminal fact, deletes the pending permission and rejects waiting steers,
because `turn_terminal::settle` does; and `Claim` first cancels the
continuations of ended goals its loop meets. Guards that come from the caller
are few: only the prompt a lifecycle launched as a turn is confirmed
(`via = "turn"`), and a process event (session, permission, terminal) comes from
a process bound to a started prompt.

`belief` over-approximates: the coordinator of a process is named
`gentd-<epoch>`, so one name does not live through two epochs. A coordinator
that joins a later epoch, or that does not, covers both the successor and a
daemon that was replaced and does not know it.

Mutant operators (comment `Mutant of ...`) stand before the definition they
replace; no action uses them. Each breaks the property it is listed with in
`PROJECT.json`.

### GoalPursuit

One conversation. `goals` are its records in creation order, `turns` its turns by
ordinal with what each cost, `tick` is how far the pursuit has come and what it
has *read*: the goal (`BeginTick`), the turns behind it (`Observe`), then
`Account`, which writes, and the decision (`Stop`, `Settle`, `Rewake`, `Admit`,
`Wake`, `Block`). Between any two of them clients read and replace the goal
(`call`), the model reports, prompts are saved and turns end. `ReplaceGoal` is the
compare-and-swap of the whole stored record. `woken` and `admitting` are memory
and are lost by `Restart`. `since` is a ghost: how many turns there were when
the goal was last set or resumed. What turns cost together is `Costs`, the sums
of `tokens` from the first turn on: a recursive function, so that proofs can use it.

### PromptAdmission

One model and one run. A task (`task`) is one call of the admission spawner, of
the prompt's commit, of the pursuit or of recovery; `job` is every download ever
started, `listed` the one in the map, `storage` the one that holds the mutex of
the file. Every place where the code releases a mutex or awaits is a step. A
cancelling client (`cancel`) writes the ledger and takes the waiter in two
steps; the task does the same in the other order, and a finishing download
notifies the tasks. Giving up the share of a download is a step of its own
too: a task whose prompt stopped waiting or whose hold could not be recorded does so
(`Leave`) before it ends or fails the prompt, a client (`CancelDrop`) after it
settled the row. The transfer itself is one step, which a stop may precede or
follow.

`open` is the ingress at the epoch of this process. A save, a hold, a release, a
failure and a cancellation all ask for it in their transaction (`Writable`). A
refused release is followed by a settlement that is refused too, and its error
is dropped: the waiter is gone, the prompt awaits, and nobody in this process
takes it further. `Restart` opens the next epoch and its recovery wakes what
awaits. Storage errors are modelled only as this closed ingress. A queued prompt
that its client takes back stays registered as a waiter until its download ends,
as in the code, so the download runs on for it.

### LifecycleCadence

`latch` is `AdmissionState`, `request` a connection with its permit and the thread
that wakes the host, `hosts` the one-slot mailbox, loop and supervisor of each
provider, `cadence` the task that recovers, drives a pass over the hosts, waits
in its `select!`, and drains. A pass visits one host a step under the router
lock, so a thread that wants to wake waits for the whole pass. Each prompt is on
a run of its own; of a provider process only its number counts. A claimed prompt
starts, fails to start, or has its launch denied, by the provider or because its
lease is taken: then the claim is released, the prompt is queued again, and the
host is left as it was. `refused` is a ghost: whether a claim came to nothing
since the last wake of the host. A wake thread asks for its permit only when it
runs (`spawned` to `holding`), behind the permit of the request.

### RuntimeUpdate

A call keeps the record it read (`Holding`) through its own ledger calls and may
be cut between any two. `journal` is the append-only history of each attempt;
writing a revision that is there is accepted only for an equal record
(`SaveAccepted`). `Assess` reduces a release to the facts the decision depends on.
`BeginRestart` is the daemon's own unclean start, which closes and fences. `probes`
is a ghost.

### RuntimeActivation

A call takes the owner lock of its data directory, checks the epoch, takes the
install lock, and works: `Accept` and `Write` are the records, `Publish`, `Select` and
`Refresh` the generation, the `current` pointer and the helper. `Fault` is any
write that fails, with the record of the failure perhaps failing too, `Die` a
process that is gone with its locks. The daemons (`StartDaemon` ... `StopDaemon`)
hold the same owner locks. An untracked activation names a fresh generation, or
selects the same release again.

### AttachmentTransfer

A call claims its receipt, compares the row, writes, and settles, each a step.
A chunk is written byte after byte to the file it opened, at the length it saw
when it opened it, so that two connections interleave within a chunk. A file
lives on under its content address after promotion: writers that hold it open
write to the blob. The errors of a call that the code returns before
`settle_receipt` (`ClaimAttachment`) leave its receipt accepted.

`Stray` is a chunk with bytes that are not of the announced content, and
`StraysAlone` what is asked of clients that send one: while it is written, no
other call is at work on its attachment. It is a discipline of clients, which the
code does not enforce; two of the three properties need it, see below.

### ReviewedPlan

`tick` is the pursuit: it reads a batch of turns without a revision, makes each a
revision in two steps (read the revision number, save), then reads approvals
without a prompt and prompts each child run. Clients prompt, switch, approve and
reject between any two. A plan is named for its run, and its content is its
length, because that is what decides whether it fits a prompt.

## Runs

| Run | Instance | Shows |
| --- | --- | --- |
| `dispatch` | two queued prompts, or a sent one and the continuation of a goal; 2 coordinators, 3 epochs, permissions | types, turns, permissions, idleness and steers agree with the dispatch rows; no replay, turns end once, dead epochs are fenced, an ended goal sends nothing; refinement of `PromptDelivery` |
| `steer_install` | three queued prompts in one epoch, or two prompts, 2 runs, 2 coordinators and 2 epochs with installs and switches | a request waits for an open turn, a closed turn has the phase of its fact, a reservation can be given back |
| `restart` | 1 prompt, 2 coordinators, 3 epochs, fairness | what a dead daemon left drains |
| `goal_pursuit` | one goal over four turns; two clients, the model and two goals; a restart and refused admissions | one active goal, one open continuation, accounts behind which nothing is open and that charge no turn twice, limits, stopped goals stay stopped, an active goal is worked on |
| `admission` | two prompts that share a download; one prompt and two of a background download, a client that stops the run and a restart; one prompt whose request is sent twice | no orphaned and no stolen download, held prompts await, release only of a verified model, every prompt of the current run leaves, in this process or the next |
| `lifecycle` | 2 hosts of one process, one installed later, 3 prompts of which at most two are new, starts that fail or are denied, a warm-up, quiesce or shutdown | no lost wake, no drain over a permit, nothing starts in a quiesced daemon, a woken prompt is taken, a closed daemon ends |
| `update` | 2 callers on one attempt and a crash, or one caller on two attempts and two | one history, one probe, ingress held and given back, an overtaken call is harmless |
| `activation` | one data directory, 2 operations of different releases, untracked calls, 2 faults; or two directories over one store, 1 fault | the selection is whole and never regresses, the owner is respected, outcomes are final |
| `attachment` | two connections and a restart; two attachments of one content; two connections with wrong bytes and a failing disk, strays alone | progress follows bytes, receipts follow effects, what is available is verified and stays |
| `plans` | two prompts over three runs, or three over two; batches of one; plans that fit and that do not | decided once, implemented once, and the pursuit gets to every plan it can |
| `replay` | 1 queued prompt, 2 epochs, fairness | violation, see Findings |
| `stranded` | 3 queued prompts, 1 epoch | violation, see Findings |

Several instances in one run. A hazard needs two of one thing and one of
another, and the product of everything is out of reach. Most MC modules
therefore state two or three small instances and let TLC explore their union:
`MCNext` is `Next` with `Within'`, where an instance is chosen by a variable of the
MC module or by the state itself; the two safety runs of the ledger use a
`CONSTRAINT` instead. Cutting a step off in this way could make a liveness
property hold or fail for no reason of the code. Where a run checks liveness,
`Within` bounds only what the environment does (how many prompts are sent, which
commands clients use, how often something crashes), and of
several outcomes of a step which are looked at. There is one exception: the
tick of `goal_pursuit` is itself what adds continuations, and `MaxTurns`, or the one
or two turns of two of its instances, stops it. A behaviour that ends at such a
bound is not a fair one, so nothing is concluded from it: `ActiveGoalIsWorkedOn`
says what happens below the bound, and at `MaxTurns` asks nothing (`Stalled`). An
ingress is closed only while the restart it is owed is within the bound
(`PromptAdmission.CloseIngress`), and `ClosedIsReopened` speaks of the epochs that
have a successor within `MaxEpoch`; with one caller and two crashes the ingress is
reopened by its last step or by a restart, so it is the instance of two callers
that really tests it.

Why the bounds are enough. Order among prompts, turns and revisions needs two
(`Oldest`), steers three (a running turn, a steer in it, and a request onto the
steer). Epochs up to 3 make a row stale by one and by two epochs and let a
recovery be interrupted itself; where only "the epoch is over" matters, 2 do.
Goals take four turns because a batch (2), a limit of idle continuations (1)
and a prompt of the user in between are to meet in one behaviour; the code's
batch is 64 and its limit 3, and both occur only in comparisons with a count.
Two callers are enough for every race of a compare-and-swap: a third finds the
same row as the second. `MaxEpoch`, `MaxTurns`, `MaxRevision`, `MaxRestarts`,
`MaxCrashes`, `MaxFaults`, `MaxFiles`, `MaxWakes`, `MaxBackground`, `MaxCancels`, `WarmUps`
and `MaxGoals` are the only bounds on behaviour, and each is a conjunct of the
guard of the action it limits.

`CHECK_DEADLOCK FALSE` everywhere: when all prompts are finished, all attempts
ended and all bounds reached, the system has nothing left to do.

Symmetry. Coordinators, prompts that are not continuations, and connections are
alike where a run declares them so; no run that checks liveness does.

Fairness.

* `restart`: the successor of a closed host is started (the service restarts the
  daemon, `fence_unclean_predecessor` closes and fences) and recovery runs (the
  first wake of an owner recovers). `replay` adds that owners keep claiming.
* `goal_pursuit`, `plans`: the half-second tick goes on, and what admission took
  on it either releases or holds; `plans` also restarts a daemon whose ingress is closed.
* `admission`: tasks and jobs are spawned futures and run; the first wake of a
  prompt comes (its commit, or recovery after a restart); a closed ingress is
  followed by a process of the next epoch.
* `lifecycle`: the cadence task and wake threads run, a provider ends its turns, a
  process that is told to drain exits.
* `update`: a call goes on, and a restart that is possible again and again is made
  (`SF`, because an update call may take its place for a while).

Nothing is assumed of clients, of the model, of downloads asked for in the
background, or of anything closing.

## Findings

* **`replay`**: a queued prompt whose claim was released, by recovery or by
  `release_claim`, cannot be claimed again. The claim inserts the
  `PromptReleased` event under an id that is `UNIQUE` and already there, so the
  claim rolls back at every tick, and since it is the oldest candidate it also
  blocks the prompts behind it. The existing test replays a `send` prompt only.
* **`stranded`**: `live` accepts a steer target whose own dispatch is a steer in
  flight. When that steer is delivered, `retire_queued_turn` completes its turn
  without expiring requests that target it. The request stays `requested` on a
  closed turn. `RequestWaitsForTurn` is the weaker statement that does hold.

### Weaker than one would wish

The properties below hold, in the form stated, because the code does what
follows; the stronger form fails. They are disagreements between the code and
what it or its documents say, met while modelling.

* **A refused wake is not tried again** (`goal_pursuit.rs:182`). The pursuit
  remembers a continuation as woken before it asks admission. If admission
  refuses, the goal is blocked; after the user resumes it, every tick finds the
  continuation woken and skips it, until the daemon restarts.
  `ActiveGoalIsWorkedOn` speaks of continuations that were not woken before.
* **A drain may begin before a committed prompt's wake**
  (`ordinary_lifecycle_cadence_wake.rs:112`). The permit of a prompt's request is
  dropped when its wake thread is spawned, and the thread asks for one of its own. A
  shutdown in between drains before the wake, the thread is refused, and the
  committed prompt is left for the next process. The comment at
  `ordinary_lifecycle_control.rs:42` and
  `docs/ordinary-authority-shutdown-test-matrix.md:37` say the permit is held until
  the post-commit wake; line 49 of the same document expects the refusal of a
  notification behind the closing, which is what the code does.
  `NoPermitWhileDraining` holds of permits only: TLC finds at once a state of the
  `lifecycle` instance with `cadence = "begin"` and a request that is `spawned`.
* **A host made late refuses its drain.** The warm-pool pass makes the host of a
  provider that was installed while the daemon ran, without waking it. After a
  quiesce this host answers `RecoveryRequired`, so the cadence ends with an
  error. `docs/ordinary-authority-shutdown-test-matrix.md:42` says an idle host
  exits cleanly. `QuiescedOwnerStopsCleanly` makes this one exception.
* **A wake delivered while the drain waits for permits** stays in the one-slot
  mailbox and the drain is refused as backpressured; the cadence ends with an
  error. `ClosedOwnerStops` counts that as an end.
* **Admission opens before recovery drains.** `open_after_recovery` is called when
  recovery is armed, although the comment at `ordinary_lifecycle_control.rs:76`
  says only a fully drained recovery opens it.
* **A start that fails or is denied leaves prompts behind it.** One tick claims one
  prompt, and the host asks to be driven again only while a turn runs. If a launch
  fails, the prompt of a second, coalesced wake waits; if it is denied, by the
  provider or because another owner holds the lease, the prompt itself is back
  in the queue of a host that nothing drives (`start.rs:98`). Both wait for the next
  prompt somebody sends. `WokenPromptIsTaken` makes this one exception, of a host
  a claim of which came to nothing behind that very wake.
* **Staging and activation of an update have no checkpoint of their intent**, so a
  call after a crash repeats the effect, although
  `runtime_update_executor.rs:88` says incomplete effects are never retried. Only
  the health check saves its intent, and `ProbedOnce` is about it alone.
* **A torn record of an activation** (created, not yet written) makes its
  operation known for ever: it can be neither begun again, nor adopted, nor
  inspected.
* **A prompt woken twice may leave a download behind.** A request that is sent
  again is woken again, and its prompt has two tasks. If one of them fails or
  releases it takes the waiter with it, and the other's download may run on for
  nobody; a task whose start is refused may also stop the download of its own
  prompt. `NoOrphanDownload` and `SharedDownloadSurvives` hold for any number of
  wakes and name these two cases.
* **A refused release is not tried again in this process.** When the ingress closes
  between the waiter and the row, the release and the settlement are refused and
  the error is dropped (`ordinary_lifecycle_cadence_standalone_settlement.rs:40`).
  `AwaitingPromptLeaves` holds because recovery in the next process starts over.
* **A switch leaves prompts behind.** What awaits its model on a run the
  conversation moved away from is released and settled by nobody;
  `AwaitingPromptLeaves` is about the current run only.
* **An overtaken update call may still write its journal**, which is not fenced by
  the epoch; it is the ingress that `OvertakenCallTouchesNothing` is about.
* **Attachments.** The digest is computed before the promotion, so a chunk that
  another connection still writes lands in the promoted file; with clients that
  send the same content this is invisible, with wrong bytes it is not.
  `AvailableIsVerified` and `PromotedIsImmutable` are therefore checked and proved
  under `StraysAlone`. An append that was rejected, sent again under its
  key, is answered without an error. A commit repeated between the row and the
  receipt of the first is rejected and the first then fails, although the
  attachment is available; `SettledIsDone` says nothing of rejected receipts.
* **Reviewed plans.** The batch of turns is cut before blank plans are filtered
  out, so a full batch of planless turns, of all conversations together, hides every later plan (`Crowded`; one
  conversation is modelled). A
  plan of the largest size does not fit a prompt with its instruction and is
  never prompted. A switch between the read of an approval and the save of its
  prompt puts the prompt on another run, which `ImplementedOnce` allows. An approval retried after a restart is
  refused, because the epoch is part of the command, although
  `docs/agent-chat-execution-plan.md` promises the original child. A goal tick
  that fails skips the plan pursuit of that tick.

## Proofs

Each proof module takes nothing but the named assumption of its component, and
holds for every value of the constants. Two theorems about attachments have one
hypothesis more, `[]StraysAlone`, which their statement names.

Each module has an inductive invariant `IInv`, lemmas that show it preserved
action by action, and the theorems, which follow from it.

### PromptLedgerProofs

For every number of prompts, runs, coordinators,
providers and epochs, from `PromptLedgerAssumption` alone:

| Theorem | States |
| --- | --- |
| `TypeCorrect` | `TypeOK` |
| `OwnershipCorrect` | `OwnershipFollowsState` |
| `TurnsFollowRows` | `TurnOpenIffUnfinished` |
| `NeverReplayed` | `NoReplay` |
| `EndsOnce` | `TurnEndsOnce` |
| `DeadEpochFenced` | `DeadEpochIsFenced` |
| `LedgerImplementsDelivery` | `ImplementsDelivery`, the refinement of `PromptDelivery` |

The inductive invariant is `IInv`: the types, `OwnershipFollowsState`,
`TurnOpenIffUnfinished`, that an absent prompt has no turn, and that an open turn
with a terminal fact is a started one. The last two are needed because saving a
prompt opens its turn, and because `retire_queued_turn` closes a turn without
looking for a fact: without them the induction could start from a state where
a launching steer already ended.

The argument goes through a classification. `StepsClassified` shows that under
`IInv` every action, however large, is a `LedgerStep`: a quiet step (rows and turns stay, the
epoch may advance), one prompt moving in one of a few ways, a claim (one prompt
taken, some withdrawn), or recovery (claims given back, launches lost, installs restored).
`PromptMoves` turns that into what one prompt can see. The invariant's
induction step and all theorems above use only these two lemmas, and the
refinement maps each kind of step to a step of `PromptDelivery` or to a
stutter: a claim is invisible, an epoch change is `Restart`, recovery is `Lose`.

The second part of the module is about what the ledger's other tables have to do
with its rows and turns:

| Theorem | States |
| --- | --- |
| `QuiescenceHolds` | `QuiescedIsIdle` |
| `PermissionsAreLive` | `PermissionOfRunningTurn` |
| `FactsDecide` | `TerminalFactDecides` |
| `EndedGoalsSendNothing` | `EndedGoalSendsNothing` |
| `ReservationsRestorable` | `ReservationIsRestorable` |

`PromptMoves` says where a prompt goes, but not what the same transaction
does to permissions, targets and facts. A second classification does:
`StepsHaveEffects` shows that every action executes the statements of one
`Effect` (a save, a change of one row, an ending with its turn and permission, a
claim with its cancellations, ...). What the induction needs besides `IInv`:

* quiescence, that an idle host is closed: every call that starts work asks
  for an open ingress, and the three unfenced ones (the two failures of an
  install, a permission) ask for work in flight, of which there is none;
* permissions, that a started row is touched only by what ends its turn
  (`StartedRowsStay`), and each such call deletes the permission of its turn;
* facts, that a launching steer has none, which is part of `IInv`;
* ended goals, that continuations are saved to be sent: a claim asks for the
  goal, a steer does not, but it takes queued prompts only;
* reservations, that the receipt stands, no steer targets the prompt and its
  run is current. A switch could break the last and is refused; a steer cannot
  target a prompt that is held for an install.

The third part is about steers:

| Theorem | States |
| --- | --- |
| `SteersFollowDispatch` | `SteerFollowsDispatch` |
| `RequestsWaitForTurns` | `RequestWaitsForTurn` |

`SteerMoves` is the classification by target: it is left alone (at most its
request is rejected), bound, handed to the provider, or taken out of its hands.
`SteerInv` adds to the two properties that a claimed row is claimed for a turn:
without it a launch could make a steer of it. `ClosingRejects` is the step that
matters for requests: a call that closes a turn rejects the requests for it,
in the same transaction, except the delivery of a steer, which is the
exception that the finding `RequestTargetsOpenTurn` is about.

### GoalPursuitProofs

| Theorem | States |
| --- | --- |
| `OnePursuit` | `PursuitInvariant`: types, `OneActiveGoal`, `OneOpenContinuation` |
| `AccountsHold` | `AccountsAreSound`: `AccountedPrefixIsSettled`, `NoTurnChargedTwice` |
| `StoppedStays` | `StoppedStaysStopped` |
| `LimitsHold` | `PursuitRespectsLimits` |

A turn that has ended never changes again, and turns are only added at the end
(`TurnsMove`); so what is behind an accounted prefix is the same for ever
(`PrefixStays`), and that is why a tick may account for turns it read before.
`IInv` says what it has read that is still so:

* a goal that is not the newest has finished, which gives one active goal, and
  every command but `clear` looks at the status it read;
* an accounted prefix has ended, in the stored goal, in the goal a tick holds and in
  the prefix a `set` or `resume` has computed;
* `Counted`: a goal's idle count is at least the number of idle continuations
  that end its accounted prefix, behind the last resume. This is the strengthening
  that `PursuitRespectsLimits` needs, because one accounting may pass several turns;
* `Looked`: a tick saw all turns behind its goal, or a full batch of them, and
  what came after it looked are prompts of users, because only the tick itself
  continues a goal. A full batch of settled turns stops it. So when it admits a
  continuation no other is open (`NothingOpenBefore`);
* the tokens the tick read are those stored: nobody else charges a goal.

The costs are sums over sequences of any length, and `CostsType`, `CostsAgree`
and `CostsOfBatch` are proved by induction: `Induction` states it for a set of
numbers, through its least missing element, which needs no operator as a parameter.

### PromptAdmissionProofs

| Theorem | States |
| --- | --- |
| `AdmissionIsSound` | `AdmissionInvariant`: types, `NoOrphanDownload`, `SharedDownloadSurvives`, `HeldAwaits` |
| `OnlyReadyReleases` | `ReleasedWhenReady` |

A job, its holders, the tasks that follow it, the waiters and the rows are
written under different mutexes, so `IInv` says for each pair what one may rely on
between them. The job in the map was not stopped and has not announced its end
(`ListedRuns`); a prompt in it has a task there with a reason to be (`Wanted`): the
prompt still waits, or a client took its waiter and is about to drop the share
(`Excused`), or another task of the same prompt took the waiter and has ended
(`SharesAreUsed`); the other way round, a prompt that awaits keeps its share as long
as none of its tasks has given it up (`SharesAreKept`). With one task for each prompt
the last case of `Wanted` is empty; it is what a request sent twice leaves. A client settles
a row before it leaves the job (`SettledFirst`): in the other order a prompt that
awaits would be without a share. `CompleteIsReady` carries the verified file
from the job to the tasks that release on its account.

### LifecycleCadenceProofs

| Theorem | States |
| --- | --- |
| `CadenceIsSound` | `CadenceInvariant`: types and process bounds, `NoPermitWhileDraining`, `ArmedHostIsDriven` |
| `QuiescedStopsCleanly` | `QuiescedOwnerStopsCleanly` |
| `QuiescedIsQuiet` | `QuiescedStartsNothing` |

`Sound` is about one host and is kept by its own mailbox and supervisor, for
every way the cadence may drive it. The rest relates hosts to the cadence: the
latch closes before the cadence drains and never opens again (`LatchLeads`), a pass
visits armed hosts only, and the shutdown leaves no host unasked (`Visits`). `NoPermitWhileDraining` is of
permits only: a wake whose thread is spawned and has not taken its own permit is not
counted, and a drain may begin in front of it (see Findings). That a
quiesced owner stops cleanly rests on `QuiescedIsUnarmed`: the latch is quiesced
only while no permit is out and no host is armed, and every later wake needs a
permit, so the one thing that arms a host is its own shutdown.

### RuntimeUpdateProofs

| Theorem | States |
| --- | --- |
| `JournalIsOneHistory` | `UpdateInvariant`: types, `CheckpointsFollow`, `ProbedOnce` |
| `HandoverHoldsIngressClosed` | `UpdateHoldsIngressClosed` |
| `OvertakenCallIsHarmless` | `OvertakenCallTouchesNothing` |

The journal is safe only because of what each caller knows. `IInv` therefore
says of every call that the record it holds is a checkpoint of its attempt, of
an epoch that is not to come; that a call past its closing of the ingress works
for a closed epoch or for one that is over; and that one which is about to probe
has not. A save either appends the direct successor of a record that is
still the last, or finds its revision taken and changes nothing: that is the
whole argument for `CheckpointsFollow`, and it needs the first part. The
ingress theorem needs the second: nobody opens an epoch without ending it.

### RuntimeActivationProofs

| Theorem | States |
| --- | --- |
| `SelectionIsTrusted` | `ActivationInvariant`: types and locks, `UnpublishedIsNotSelected`, `SelectionIsWhole` |
| `OwnerIsRespected` | `OperationsRespectTheOwner` |
| `NewestStaysSelected` | `SelectionNeverRegresses` |
| `OutcomesAreFinal` | `OutcomeIsFinal` |

`IInv` has a part for each process in three layers: what its call asks
(`Asks`), which locks it has taken and what it saw behind them (`Holds`), and
how far it has come with the files (`Come`). `OneInside` is the heart: two
processes are never both inside the store, so what one of them came to is not
disturbed by another, and the look at the selection is not stale when it is
replaced. The epoch stays closed while its process is at work because only a
daemon changes it and the process holds the daemon's lock. Three lemmas,
`WorksOn`, `Leaves` and `Approaches`, do the bookkeeping of locks once for all steps.

### AttachmentTransferProofs

| Theorem | States |
| --- | --- |
| `TransferIsConsistent` | `TransferInvariant` |
| `AvailableIsTheContent` | `AvailableIsVerified`, under `[]StraysAlone` |
| `AddressIsImmutable` | `PromotedIsImmutable`, under `[]StraysAlone` |

A call looks at the row once and writes later, so `Fits` says for each of its steps
what it relies on: the row has not shrunk since, a chunk is written to a file
that is staged or promoted and that reaches as far as the chunk, a call that
promotes has the whole attachment staged, one that publishes finds the blob, one
that settles its receipt finds its effect. With it every step keeps the same of
all other calls, although two of them may be writing one file.

The other two theorems rest on `VInv`, which is inductive beside `IInv` when strays
are alone. What is behind an address is the content (`BlobsAreRight`), and so must
be what a commit is about to promote (`WillPromote`, `IsRight`): this comes from the
digest that `ReadDigest` compared, and from nothing else. It stays so because a
stray that is written meanwhile is on another attachment, and any other byte is
the one the content has at its place. That a stray never writes a promoted file
(`Strays`) is the delicate part: it opens the staging file of an attachment that is
uploading in this epoch, and such a file is behind an address only while the
commit that promoted it stands before `Unlink`, so is still at work (`Linked`), or
since an earlier epoch, whose uploads are refused (`Uploads`).

### ReviewedPlanProofs

`PlansAreDecidedOnce` states `PlansInvariant`, and with it that revisions are
numbered without a gap. `IInv` adds what the tick has read: a turn it works on
has ended with a plan, a revision number it holds is still the next one of its
run (only the tick saves revisions, and a restart drops what it read), and an
approval it works on is on record. That the approval has no prompt yet is *not*
part of it: the transaction that saves the prompt looks again.

### Only model-checked

Every safety property of a passing run is proved, invariants and action
properties alike. What stays with TLC are the liveness properties, which need
fairness and `ENABLED`, beyond the prover used here: `DeadEpochDrains`,
`ActiveGoalIsWorkedOn`, `AwaitingPromptLeaves`, `WokenPromptIsTaken`,
`ClosedOwnerStops`, `ClosedIsReopened`, `PlansProceed`.

## Not modelled

* **Provider prompt lifecycles.** The in-memory bindings of each provider owner.
  Their ledger calls are modelled, in every order the ledger's own state allows,
  so the ledger's properties do not depend on the bindings; that a binding is
  never lost, or that an error between the several ledger calls of a provider
  exit is made good, is not shown.
* **Run leases and executable locks** beyond the session of a run. Their known
  hazard (an event id that repeats when an executable is rebound to a former
  one) is an identity that the models abstract.
* **Orchestration**: a reducer over a task graph, of the size of the ledger.
* **In modelled parts**: the asynchronous Claurst host; the escalation of a
  shutdown, which nothing calls; storage errors inside a drive, which end the
  daemon; the answer of a quiesce that may or may not have changed anything; the
  acknowledgement of the owner request; the schedule, download, verification and
  rollback of updates; digests, paths and `fsync` failures of activation; reading
  attachments and linking them to turns; client receipts, texts, contexts.
* **Permission policy, drivers, wire protocol, command-line client, sandbox,
  process containment, git, MCP.** They evaluate tables, parse, format, and call
  the operating system; their state is not shared with the parts above, and a
  small model would restate them. They are most of the repository's lines.
