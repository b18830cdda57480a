---------------------------- MODULE RuntimeUpdate ----------------------------
(***************************************************************************)
(* A signed runtime update: planning, staging, health check, handover and   *)
(* the confirmation by the successor, each a sequence of ledger calls that  *)
(* a crash may cut, over the append-only update journal and the ingress of  *)
(* the host epoch.                                                          *)
(*                                                                         *)
(* A release is what the local facts make of it (assess_runtime_update);    *)
(* signatures, digests and versions are left out. A staging receipt is      *)
(* whether a matching one is on record.                                     *)
(***************************************************************************)
EXTENDS Naturals, Sequences, FiniteSets

CONSTANTS
    Attempts,     \* attempt ids
    Callers,      \* threads that plan, execute or confirm an update
    Releases,     \* releases a source may offer, see Assess
    Operations,   \* what callers do, see Operation
    MaxEpoch,     \* bound: the last host epoch
    MaxCrashes    \* bound: calls that are cut

Fact == [expired : BOOLEAN, revoked : BOOLEAN, protocol : BOOLEAN, schema : BOOLEAN,
         app : BOOLEAN, selected : BOOLEAN, forward : BOOLEAN]

ASSUME RuntimeUpdateAssumption ==
    /\ Releases \subseteq Fact
    /\ Operations \subseteq {"plan", "stage", "health", "activate", "confirm", "restart"}
    /\ MaxEpoch \in Nat \ {0} /\ MaxCrashes \in Nat

VARIABLES
    host,     \* host_state: epoch and ingress
    journal,  \* the checkpoints of each attempt, by revision
    call,     \* what each caller has read and is about to do
    probes,   \* ghost: how often each caller has probed each attempt
    crashes

vars == <<host, journal, call, probes, crashes>>

Idle == [step |-> "idle"]

Init ==
    /\ host = [epoch |-> 1, mode |-> "open"]
    /\ journal = [a \in Attempts |-> <<>>]
    /\ call = [c \in Callers |-> Idle]
    /\ probes = [a \in Attempts |-> [c \in Callers |-> 0]]
    /\ crashes = 0

(***************************************************************************)
(* The pure policy                                                          *)
(***************************************************************************)
Assess(release) ==
    IF release.expired \/ release.revoked THEN "rejected"
    ELSE IF ~release.protocol \/ ~release.schema \/ ~release.app THEN "readOnly"
    ELSE IF ~release.selected THEN "deferred" ELSE "eligible"

Discovered(eligibility) ==
    CASE eligibility = "eligible" -> "available"
      [] eligibility = "deferred" -> "idle"
      [] eligibility = "readOnly" -> "readOnly"
      [] eligibility = "rejected" -> "failed"

(* reduce_runtime_update: the stage an event leads to.                      *)
Reduce(stage, event) ==
    CASE event = "staged" /\ stage = "available" -> "staged"
      [] event = "healthCheckStarted" /\ stage = "staged" -> "healthChecking"
      [] event = "healthCheckPassed" /\ stage = "healthChecking" -> "ready"
      [] event = "handoffClosed" /\ stage = "ready" -> "handoff"
      [] event = "successorConfirmed" /\ stage = "handoff" -> "activated"
      [] event \in {"stagingFailed", "healthCheckFailed", "activationFailed"} -> "failed"
      [] event \in {"handoffOpen", "handoffClosed"} /\ stage # "ready" -> "failed"
      [] event = "handoffOpen" -> "failed"
      [] OTHER -> stage

(***************************************************************************)
(* The ledger                                                               *)
(***************************************************************************)
Current(a) == journal[a][Len(journal[a])]

(* Mutant of Saved: a checkpoint goes behind whatever is on record.         *)
SavedLast(a, revision, record) == [journal EXCEPT ![a] = Append(@, record)]

(* save_runtime_update: the same checkpoint again is accepted, another one  *)
(* of a known revision is refused.                                          *)
Saved(a, revision, record) ==
    IF revision <= Len(journal[a]) THEN journal
    ELSE [journal EXCEPT ![a] = Append(@, record)]

SaveAccepted(a, revision, record) ==
    revision <= Len(journal[a]) => journal[a][revision] = record

(* Mutant of MayClose: an old epoch closes the ingress of its successor.    *)
MayCloseAny(epoch) == TRUE

MayClose(epoch) == epoch = host.epoch

Closed(epoch) == IF MayClose(epoch) THEN [host EXCEPT !.mode = "closed"] ELSE host

MayFence(epoch) == epoch = host.epoch /\ host.mode = "closed" /\ epoch < MaxEpoch

(* Mutant of Fenced: the successor inherits the closed ingress.             *)
FencedClosed == [epoch |-> host.epoch + 1, mode |-> "closed"]

(* Mutant of Fenced: the ingress is opened in the epoch that was closed.    *)
FencedSame == [epoch |-> host.epoch, mode |-> "open"]

Fenced == [epoch |-> host.epoch + 1, mode |-> "open"]

(* The next step of a caller whose save succeeds; an error ends the call.   *)
SaveThen(c, a, revision, record, next) ==
    /\ journal' = Saved(a, revision, record)
    /\ call' = [call EXCEPT ![c] = IF SaveAccepted(a, revision, record) THEN next ELSE Idle]

(***************************************************************************)
(* plan                                                                     *)
(***************************************************************************)
(* A release that does not verify ends the call.                            *)
BeginPlan(c, a, release) ==
    /\ "plan" \in Operations
    /\ call[c] = Idle /\ journal[a] = <<>>
    /\ ~release.expired /\ ~release.revoked
    /\ call' = [call EXCEPT ![c] =
           [step |-> IF Assess(release) = "readOnly" THEN "planClose" ELSE "planSave",
            attempt |-> a, release |-> release, epoch |-> host.epoch]]
    /\ UNCHANGED <<host, journal, probes, crashes>>

ClosePlan(c) ==
    /\ call[c].step = "planClose"
    /\ host' = Closed(call[c].epoch)
    /\ call' = [call EXCEPT ![c] = IF MayClose(@.epoch) THEN [@ EXCEPT !.step = "planSave"] ELSE Idle]
    /\ UNCHANGED <<journal, probes, crashes>>

(* Mutant of SavePlan: the record names the epoch of the successor.         *)
SavePlanAhead(c) ==
    /\ call[c].step = "planSave"
    /\ SaveThen(c, call[c].attempt, 1,
           [stage |-> Discovered(Assess(call[c].release)), origin |-> call[c].epoch + 1,
            release |-> call[c].release, receipt |-> FALSE], Idle)
    /\ UNCHANGED <<host, probes, crashes>>

SavePlan(c) ==
    /\ call[c].step = "planSave"
    /\ SaveThen(c, call[c].attempt, 1,
           [stage |-> Discovered(Assess(call[c].release)), origin |-> call[c].epoch,
            release |-> call[c].release, receipt |-> FALSE], Idle)
    /\ UNCHANGED <<host, probes, crashes>>

(***************************************************************************)
(* execute                                                                  *)
(***************************************************************************)
Known(c, a) == call[c] = Idle /\ journal[a] # <<>>

Holding(step, a) ==
    [step |-> step, attempt |-> a, record |-> Current(a), revision |-> Len(journal[a])]

(* checkpoint: the record that was read, one revision on.                   *)
Checkpoint(c, event, next) ==
    SaveThen(c, call[c].attempt, call[c].revision + 1,
             [call[c].record EXCEPT !.stage = Reduce(@, event)], next)

BeginStage(c, a) ==
    /\ "stage" \in Operations
    /\ Known(c, a) /\ Len(journal[a]) = 1 /\ Current(a).stage = "available"
    /\ call' = [call EXCEPT ![c] = Holding("stage", a)]
    /\ UNCHANGED <<host, journal, probes, crashes>>

(* The stager answers with a receipt, or fails, or its receipt mismatches.  *)
Stage(c) ==
    /\ call[c].step = "stage"
    /\ \E answer \in {"staged", "stagingFailed"} :
           call' = [call EXCEPT ![c] = [@ EXCEPT !.step = answer]]
    /\ UNCHANGED <<host, journal, probes, crashes>>

SaveStaged(c) ==
    /\ call[c].step \in {"staged", "stagingFailed"}
    /\ SaveThen(c, call[c].attempt, call[c].revision + 1,
           [call[c].record EXCEPT !.stage = Reduce(@, call[c].step),
                                  !.receipt = call[c].step = "staged"], Idle)
    /\ UNCHANGED <<host, probes, crashes>>

(* A health check of the epoch the attempt was planned in.                  *)
BeginHealthCheck(c, a, epoch) ==
    /\ "health" \in Operations
    /\ Known(c, a) /\ Current(a).stage = "staged" /\ Current(a).receipt
    /\ epoch = Current(a).origin
    /\ call' = [call EXCEPT ![c] = Holding("healthClose", a)]
    /\ UNCHANGED <<host, journal, probes, crashes>>

CloseForHealthCheck(c) ==
    /\ call[c].step = "healthClose"
    /\ host' = Closed(call[c].record.origin)
    /\ call' = [call EXCEPT ![c] =
           IF MayClose(@.record.origin) THEN [@ EXCEPT !.step = "healthSave"] ELSE Idle]
    /\ UNCHANGED <<journal, probes, crashes>>

Checking(c) == [call[c] EXCEPT !.record.stage = Reduce(@, "healthCheckStarted"),
                               !.revision = @ + 1, !.step = "probe"]

(* Mutant of SaveHealthChecking: the intent is not saved before the probe.  *)
SkipHealthChecking(c) ==
    /\ call[c].step = "healthSave"
    /\ call' = [call EXCEPT ![c] = Checking(c)]
    /\ UNCHANGED <<host, journal, probes, crashes>>

SaveHealthChecking(c) ==
    /\ call[c].step = "healthSave"
    /\ Checkpoint(c, "healthCheckStarted", Checking(c))
    /\ UNCHANGED <<host, probes, crashes>>

Probe(c) ==
    /\ call[c].step = "probe"
    /\ \E answer \in {"healthCheckPassed", "healthCheckFailed"} :
           call' = [call EXCEPT ![c].step = answer]
    /\ probes' = [probes EXCEPT ![call[c].attempt][c] = @ + 1]
    /\ UNCHANGED <<host, journal, crashes>>

SaveHealth(c) ==
    /\ call[c].step \in {"healthCheckPassed", "healthCheckFailed"}
    /\ Checkpoint(c, call[c].step, Idle)
    /\ UNCHANGED <<host, probes, crashes>>

OriginActive(a) == Current(a).origin = host.epoch

BeginActivate(c, a) ==
    /\ "activate" \in Operations
    /\ Known(c, a) /\ Current(a).stage = "ready" /\ Current(a).receipt
    /\ OriginActive(a)
    /\ call' = [call EXCEPT ![c] = Holding(IF host.mode = "closed" THEN "activateClosed"
                                                                   ELSE "activateOpen", a)]
    /\ UNCHANGED <<host, journal, probes, crashes>>

Activate(c) ==
    /\ call[c].step \in {"activateClosed", "activateOpen"}
    /\ \E answer \in {IF call[c].step = "activateClosed" THEN "handoffClosed" ELSE "handoffOpen",
                      "activationFailed"} :
           call' = [call EXCEPT ![c].step = answer]
    /\ UNCHANGED <<host, journal, probes, crashes>>

SaveHandoff(c) ==
    /\ call[c].step \in {"handoffClosed", "handoffOpen", "activationFailed"}
    /\ Checkpoint(c, call[c].step, Idle)
    /\ UNCHANGED <<host, probes, crashes>>

(***************************************************************************)
(* The successor                                                            *)
(***************************************************************************)
(* validate and confirm: the record is read, then the ingress.              *)
BeginConfirm(c, a) ==
    /\ "confirm" \in Operations
    /\ Known(c, a) /\ Current(a).stage \in {"handoff", "activated"} /\ Current(a).receipt
    /\ OriginActive(a) /\ host.mode = "closed"
    /\ call' = [call EXCEPT ![c] =
           Holding(IF Current(a).stage = "activated" THEN "confirmed" ELSE "confirmSave", a)]
    /\ UNCHANGED <<host, journal, probes, crashes>>

SaveConfirmed(c) ==
    /\ call[c].step = "confirmSave"
    /\ Checkpoint(c, "successorConfirmed", [call[c] EXCEPT !.step = "confirmed"])
    /\ UNCHANGED <<host, probes, crashes>>

(* open_confirmed, once the listener is bound: it reads the record again.   *)
ReadConfirmed(c) ==
    /\ call[c].step = "confirmed"
    /\ call' = [call EXCEPT ![c] =
           IF Current(@.attempt).stage = "activated" THEN [@ EXCEPT !.step = "open"] ELSE Idle]
    /\ UNCHANGED <<host, journal, probes, crashes>>

OpenConfirmed(c) ==
    /\ call[c].step = "open"
    /\ host' = IF MayFence(call[c].record.origin) THEN Fenced ELSE host
    /\ call' = [call EXCEPT ![c] = Idle]
    /\ UNCHANGED <<journal, probes, crashes>>

(***************************************************************************)
(* An ordinary daemon starts on the ledger: fence_unclean_predecessor       *)
(***************************************************************************)
BeginRestart(c) ==
    /\ "restart" \in Operations
    /\ call[c] = Idle /\ host.epoch < MaxEpoch
    /\ call' = [call EXCEPT ![c] = [step |-> "fenceClose", epoch |-> host.epoch]]
    /\ UNCHANGED <<host, journal, probes, crashes>>

FenceClose(c) ==
    /\ call[c].step = "fenceClose"
    /\ host' = Closed(call[c].epoch)
    /\ call' = [call EXCEPT ![c] = IF MayClose(@.epoch) THEN [@ EXCEPT !.step = "fenceOpen"] ELSE Idle]
    /\ UNCHANGED <<journal, probes, crashes>>

FenceOpen(c) ==
    /\ call[c].step = "fenceOpen"
    /\ host' = IF MayFence(call[c].epoch) THEN Fenced ELSE host
    /\ call' = [call EXCEPT ![c] = Idle]
    /\ UNCHANGED <<journal, probes, crashes>>

(* The process is gone between two steps, or a ledger call of it fails.     *)
Crash(c) ==
    /\ call[c] # Idle /\ crashes < MaxCrashes
    /\ call' = [call EXCEPT ![c] = Idle]
    /\ crashes' = crashes + 1
    /\ UNCHANGED <<host, journal, probes>>

Begin(c) ==
    \/ BeginRestart(c)
    \/ \E a \in Attempts :
          \/ \E release \in Releases : BeginPlan(c, a, release)
          \/ BeginStage(c, a) \/ BeginActivate(c, a) \/ BeginConfirm(c, a)
          \/ \E epoch \in 1..MaxEpoch : BeginHealthCheck(c, a, epoch)

Step(c) ==
    \/ ClosePlan(c) \/ SavePlan(c) \/ Stage(c) \/ SaveStaged(c) \/ CloseForHealthCheck(c)
    \/ SaveHealthChecking(c) \/ Probe(c) \/ SaveHealth(c) \/ Activate(c) \/ SaveHandoff(c)
    \/ SaveConfirmed(c) \/ ReadConfirmed(c) \/ OpenConfirmed(c) \/ FenceClose(c) \/ FenceOpen(c)

Next == \E c \in Callers : Begin(c) \/ Step(c) \/ Crash(c)

Spec == Init /\ [][Next]_vars

(* Calls run on, and a service starts the ordinary daemon again and again.  *)
Fairness == \A c \in Callers : WF_vars(Step(c)) /\ SF_vars(BeginRestart(c))

FairSpec == Spec /\ Fairness

(***************************************************************************)
(* Properties                                                               *)
(***************************************************************************)
StageName == {"idle", "available", "staged", "healthChecking", "ready", "handoff", "activated",
              "readOnly", "failed"}

Record == [stage : StageName, origin : 1..host.epoch, release : Releases, receipt : BOOLEAN]

(* Type correctness; no record is of an epoch to come.                      *)
TypeOK ==
    /\ host \in [epoch : 1..MaxEpoch, mode : {"open", "closed"}]
    /\ \A a \in Attempts : journal[a] \in Seq(Record)
    /\ DOMAIN journal = Attempts /\ DOMAIN call = Callers
    /\ crashes \in 0..MaxCrashes

(* From the health check on the ingress of the epoch an update started in   *)
(* is closed and stays closed, whatever crashes and whoever else works on   *)
(* the attempt: no writer of that epoch is let in behind the handover       *)
(* (health_check, activate, open_confirmed).                                *)
Underway == {"healthChecking", "ready", "handoff", "activated"}

UpdateHoldsIngressClosed ==
    \A a \in Attempts :
        journal[a] # <<>> /\ Current(a).stage \in Underway /\ Current(a).origin = host.epoch =>
            host.mode = "closed"

(* The checkpoints of an attempt are one history, whoever raced to write    *)
(* them: each stage follows the one before, and a failed or an activated    *)
(* attempt has no further checkpoint (save_runtime_update).                 *)
Follows(before, after) ==
    \/ before = "available" /\ after \in {"staged", "failed"}
    \/ before = "staged" /\ after = "healthChecking"
    \/ before = "healthChecking" /\ after \in {"ready", "failed"}
    \/ before = "ready" /\ after \in {"handoff", "failed"}
    \/ before = "handoff" /\ after = "activated"

CheckpointsFollow ==
    \A a \in Attempts : \A i \in 2..Len(journal[a]) :
        Follows(journal[a][i - 1].stage, journal[a][i].stage)

(* Whatever is cut, nobody probes an attempt again whose health check he    *)
(* had begun; only callers that began it together each probe it (execute).  *)
ProbedOnce == \A a \in Attempts, c \in Callers : probes[a][c] <= 1

(* What holds of the update journal at all times: one history for each      *)
(* attempt, and one probe by whoever began the health check.                *)
UpdateInvariant == TypeOK /\ CheckpointsFollow /\ ProbedOnce

(* A call that was overtaken, for an epoch that is not the host's, neither  *)
(* closes nor opens an ingress. It may still write a checkpoint of its      *)
(* attempt: the journal is not fenced by the epoch (require_epoch).         *)
OvertakenCallTouchesNothing ==
    [][\A c \in Callers :
          /\ call[c] # Idle /\ call'[c] # call[c]
          /\ IF "record" \in DOMAIN call[c] THEN call[c].record.origin # host.epoch
                                            ELSE call[c].epoch # host.epoch
          => UNCHANGED host]_vars

(* A closed ingress is opened again, by the successor or by a restart.      *)
ClosedIsReopened ==
    \A e \in 1..(MaxEpoch - 1) : host.epoch = e /\ host.mode = "closed" ~> host.mode = "open"
=============================================================================
