----------------------------- MODULE ReviewedPlan -----------------------------
(***************************************************************************)
(* The reviewed plans of a conversation: turns of a plan run complete with  *)
(* a plan, the pursuit of the daemon makes each a revision for review, a    *)
(* client approves one exact revision, which reserves a child run, and the  *)
(* pursuit prompts that run to implement it. Clients prompt, switch the     *)
(* selection, approve and reject between any two calls of the pursuit, and  *)
(* the daemon may be restarted in the middle of it.                         *)
(*                                                                         *)
(* Runs, turns, artifacts and approvals are numbered by their rowid. A plan *)
(* is named for its run; of its content only the length matters, 0 for a    *)
(* turn without a plan. Digests, policies, context ordinals and receipts    *)
(* only refuse a request that is not exact; a retried approval changes      *)
(* nothing.                                                                 *)
(***************************************************************************)
EXTENDS Naturals, Sequences, FiniteSets

CONSTANTS
    Lengths,         \* lengths of the plans a provider may answer with
    MaxPlanBytes,    \* MAX_PLAN_CONTENT_BYTES
    MaxPromptBytes,  \* MAX_PROMPT_BYTES
    Instruction,     \* the length of the text around an approved plan
    Batch,           \* MAX_PLAN_PURSUIT_BATCH
    MaxRuns,         \* bound: runs of the conversation
    MaxTurns,        \* bound: prompts of the conversation
    MaxEpoch         \* bound: the last host epoch

ASSUME ReviewedPlanAssumption ==
    /\ Lengths \subseteq Nat \ {0}
    /\ {MaxPlanBytes, MaxPromptBytes, Instruction, Batch, MaxRuns, MaxEpoch} \subseteq Nat \ {0}
    /\ MaxTurns \in Nat

VARIABLES
    host,       \* host_state: epoch and ingress
    runs,       \* the mode each run was selected with
    turns,      \* turns, with the plan they ended with and what they implement
    artifacts,  \* reviewed_plan_artifacts
    approvals,  \* reviewed_plan_approval_receipts
    tick        \* what the pursuit has read and is working on

vars == <<host, runs, turns, artifacts, approvals, tick>>

Idle == [step |-> "idle", work |-> {}, item |-> 0, revision |-> 0]

Init ==
    /\ host = [epoch |-> 1, mode |-> "open"]
    /\ runs = <<"plan">>
    /\ turns = <<>> /\ artifacts = <<>> /\ approvals = <<>>
    /\ tick = Idle

Smaller(a, b) == IF a < b THEN a ELSE b

(* The members of a set that fewer than a batch of others come before.      *)
Oldest(set) == {x \in set : Cardinality({y \in set : y < x}) < Batch}

Current == Len(runs)
OfRun(r) == {t \in DOMAIN turns : turns[t].run = r}
OfPlan(r) == {i \in DOMAIN artifacts : artifacts[i].run = r}

-----------------------------------------------------------------------------
(* What the pursuit reads.                                                  *)

Unreviewed(t) ==
    /\ runs[turns[t].run] = "plan" /\ turns[t].phase = "completed"
    /\ \A i \in DOMAIN artifacts : artifacts[i].turn # t

HasPlan(t) == turns[t].length > 0

(* Mutant of TurnsAwaitingReview: the newest turns come first.              *)
NewestAwaitingReview ==
    LET all == {t \in DOMAIN turns : Unreviewed(t)}
    IN {t \in all : HasPlan(t) /\ Cardinality({u \in all : u > t}) < Batch}

(* The batch is cut before the turns without a plan are left out of it.     *)
TurnsAwaitingReview == {t \in Oldest({t \in DOMAIN turns : Unreviewed(t)}) : HasPlan(t)}

Unprompted(a) == approvals[a].child = Current /\ OfRun(approvals[a].child) = {}

ImplementationsAwaitingPrompt == Oldest({a \in DOMAIN approvals : Unprompted(a)})

(* The current revision of a plan, 0 when it has none.                      *)
Revision(r) == Cardinality(OfPlan(r))

-----------------------------------------------------------------------------
(* The ledger                                                               *)

(* Mutant of Superseded: the earlier revision stays open to review.         *)
StillReady(artifact, r) == artifact

(* An earlier revision of the plan that still waits for its review.         *)
Superseded(artifact, r) ==
    IF artifact.run = r /\ artifact.status = "readyForReview"
    THEN [artifact EXCEPT !.status = "superseded"] ELSE artifact

(* save_trusted_plan: a turn is reviewed once.                              *)
SavedPlan(t, revision) ==
    LET r == turns[t].run IN
    IF \E i \in DOMAIN artifacts :
           artifacts[i].turn = t \/ (artifacts[i].run = r /\ artifacts[i].revision = revision)
    THEN artifacts
    ELSE Append([i \in DOMAIN artifacts |-> Superseded(artifacts[i], r)],
                [run |-> r, revision |-> revision, turn |-> t, status |-> "readyForReview",
                 length |-> Smaller(turns[t].length, MaxPlanBytes)])

Decided(i, status) == [artifacts EXCEPT ![i].status = status]

(* A new prompt on the current run; it implements an approval or none.      *)
Prompted(a) ==
    Append(turns, [run |-> Current, phase |-> "active", length |-> 0, implements |-> a])

(* Mutant of MayImplement: the run a plan was made in may have been left.   *)
MayImplementAny(r) == \A t \in OfRun(r) : turns[t].phase # "active"

(* current_parent: the plan's run is the current one and has come to rest.  *)
MayImplement(r) == r = Current /\ \A t \in OfRun(r) : turns[t].phase # "active"

-----------------------------------------------------------------------------
(* Clients and providers. An install may also refuse a switch.              *)

Prompt ==
    /\ host.mode = "open" /\ Len(turns) < MaxTurns
    /\ turns' = Prompted(0)
    /\ UNCHANGED <<host, runs, artifacts, approvals, tick>>

(* A turn ends; in a plan run it may end with a plan.                       *)
EndTurn(t, phase, length) ==
    /\ turns[t].phase = "active"
    /\ length > 0 => runs[turns[t].run] = "plan"
    /\ turns' = [turns EXCEPT ![t].phase = phase, ![t].length = length]
    /\ UNCHANGED <<host, runs, artifacts, approvals, tick>>

Switch(mode) ==
    /\ host.mode = "open" /\ Len(runs) < MaxRuns
    /\ runs' = Append(runs, mode)
    /\ UNCHANGED <<host, turns, artifacts, approvals, tick>>

(* approve: one revision that waits for its review, for a new child run.    *)
Approve(i, mode) ==
    /\ host.mode = "open" /\ Len(runs) < MaxRuns
    /\ MayImplement(artifacts[i].run)
    /\ artifacts[i].status = "readyForReview"
    /\ runs' = Append(runs, mode)
    /\ artifacts' = Decided(i, "approved")
    /\ approvals' = Append(approvals, [artifact |-> i, child |-> Len(runs')])
    /\ UNCHANGED <<host, turns, tick>>

(* reject: also while the ingress is closed.                                *)
Reject(i) ==
    /\ artifacts[i].status = "readyForReview"
    /\ artifacts' = Decided(i, "rejected")
    /\ UNCHANGED <<host, runs, turns, approvals, tick>>

-----------------------------------------------------------------------------
(* The pursuit                                                              *)

(* A permit is had only while the host is open.                             *)
BeginTick ==
    /\ tick = Idle /\ host.mode = "open"
    /\ tick' = [Idle EXCEPT !.step = "ingest", !.work = TurnsAwaitingReview]
    /\ UNCHANGED <<host, runs, turns, artifacts, approvals>>

(* The oldest turn of the batch comes first.                                *)
ReadRevision ==
    /\ tick.step = "ingest"
    /\ \E t \in tick.work :
          /\ \A u \in tick.work : t <= u
          /\ tick' = [step |-> "save", work |-> tick.work \ {t}, item |-> t,
                      revision |-> Revision(turns[t].run) + 1]
    /\ UNCHANGED <<host, runs, turns, artifacts, approvals>>

SaveTrustedPlan ==
    /\ tick.step = "save"
    /\ artifacts' = SavedPlan(tick.item, tick.revision)
    /\ tick' = [Idle EXCEPT !.step = "ingest", !.work = tick.work]
    /\ UNCHANGED <<host, runs, turns, approvals>>

ReadImplementations ==
    /\ tick.step = "ingest" /\ tick.work = {}
    /\ tick' = [Idle EXCEPT !.step = "implement", !.work = ImplementationsAwaitingPrompt]
    /\ UNCHANGED <<host, runs, turns, artifacts, approvals>>

(* The request of an approval is always the same: it is saved once, and     *)
(* never when the plan and its instruction are too long for a prompt.       *)
Prompts(a) ==
    /\ artifacts[approvals[a].artifact].length + Instruction <= MaxPromptBytes
    /\ \A t \in DOMAIN turns : turns[t].implements # a

(* save_implementation_prompt: on whatever run is current by now. A closed  *)
(* ingress ends the tick.                                                   *)
SaveImplementationPrompt ==
    /\ tick.step = "implement"
    /\ \E a \in tick.work :
          /\ \A b \in tick.work : a <= b
          /\ IF host.mode = "open"
             THEN /\ turns' = IF Prompts(a) THEN Prompted(a) ELSE turns
                  /\ tick' = [tick EXCEPT !.work = @ \ {a}]
             ELSE turns' = turns /\ tick' = Idle
    /\ UNCHANGED <<host, runs, artifacts, approvals>>

EndTick ==
    /\ tick.step = "implement" /\ tick.work = {}
    /\ tick' = Idle
    /\ UNCHANGED <<host, runs, turns, artifacts, approvals>>

Pursue ==
    \/ BeginTick \/ ReadRevision \/ SaveTrustedPlan
    \/ ReadImplementations \/ SaveImplementationPrompt \/ EndTick

-----------------------------------------------------------------------------
(* The host                                                                 *)

CloseIngress ==
    /\ host.mode = "open" /\ host.epoch < MaxEpoch
    /\ host' = [host EXCEPT !.mode = "closed"]
    /\ UNCHANGED <<runs, turns, artifacts, approvals, tick>>

(* A daemon starts behind one that stopped or crashed, in a tick or not.    *)
Restart ==
    /\ host.epoch < MaxEpoch
    /\ host' = [epoch |-> host.epoch + 1, mode |-> "open"]
    /\ tick' = Idle
    /\ UNCHANGED <<runs, turns, artifacts, approvals>>

Clients ==
    \/ Prompt
    \/ \E t \in DOMAIN turns, length \in Lengths \cup {0} : EndTurn(t, "completed", length)
    \/ \E t \in DOMAIN turns : EndTurn(t, "failed", 0)
    \/ \E mode \in {"plan", "agent"} :
           Switch(mode) \/ \E i \in DOMAIN artifacts : Approve(i, mode)
    \/ \E i \in DOMAIN artifacts : Reject(i)

Next == Clients \/ Pursue \/ CloseIngress \/ Restart

Spec == Init /\ [][Next]_vars

(* The loop of the pursuit goes on for as long as the daemon runs, and a    *)
(* closed host is started again; nothing is assumed of clients.             *)
Fairness == WF_vars(Pursue) /\ WF_vars(host.mode = "closed" /\ Restart)

FairSpec == Spec /\ Fairness

-----------------------------------------------------------------------------
(* Properties                                                               *)

Status == {"readyForReview", "approved", "rejected", "superseded"}

TypeOK ==
    /\ host \in [epoch : 1..MaxEpoch, mode : {"open", "closed"}]
    /\ runs \in Seq({"plan", "agent"})
    /\ turns \in Seq([run : DOMAIN runs, phase : {"active", "completed", "failed"},
                      length : Lengths \cup {0}, implements : DOMAIN approvals \cup {0}])
    /\ artifacts \in Seq([run : DOMAIN runs, revision : Nat \ {0}, turn : DOMAIN turns,
                          status : Status, length : Nat \ {0}])
    /\ approvals \in Seq([artifact : DOMAIN artifacts, child : DOMAIN runs])

(* The revisions of a plan are numbered without a gap, a turn makes one of  *)
(* them, and only the last may still wait for its review: a client never    *)
(* has two revisions of a plan to decide on (save, ingest_turn).            *)
OneIsReviewable ==
    \A i \in DOMAIN artifacts :
        /\ artifacts[i].revision = Cardinality({j \in OfPlan(artifacts[i].run) : j <= i})
        /\ artifacts[i].status = "readyForReview" =>
               artifacts[i].revision = Revision(artifacts[i].run)
        /\ \A j \in DOMAIN artifacts : artifacts[j].turn = artifacts[i].turn => i = j

(* A plan is approved at most once, in whichever revision, although its run *)
(* may go on to make others: an approval reserves its own child run, behind *)
(* the plan's, and the revision it names stays approved (approve).          *)
ApprovedOnce ==
    /\ \A i \in DOMAIN artifacts :
           artifacts[i].status = "approved" <=> \E a \in DOMAIN approvals : approvals[a].artifact = i
    /\ \A a, b \in DOMAIN approvals :
           artifacts[approvals[a].artifact].run = artifacts[approvals[b].artifact].run => a = b
    /\ \A a \in DOMAIN approvals : approvals[a].child > artifacts[approvals[a].artifact].run

(* An approval is implemented by at most one prompt, in its child run or,   *)
(* when the selection was switched under the tick, in a run behind it; no   *)
(* restart and no second tick sends it again (save_implementation_prompt).  *)
ImplementedOnce ==
    /\ \A t, u \in DOMAIN turns :
           turns[t].implements = turns[u].implements /\ turns[t].implements # 0 => t = u
    /\ \A t \in DOMAIN turns :
           turns[t].implements # 0 => turns[t].run >= approvals[turns[t].implements].child

(* What holds of a conversation's plans at all times, however clients,      *)
(* pursuit and restarts interleave.                                         *)
PlansInvariant == TypeOK /\ OneIsReviewable /\ ApprovedOnce /\ ImplementedOnce

(* A full batch of older turns that have no plan stands before the turn.    *)
Crowded(t) ==
    Batch <= Cardinality({u \in 1..(t - 1) : Unreviewed(u) /\ ~HasPlan(u)})

AwaitsReview(t) == t \in DOMAIN turns /\ Unreviewed(t) /\ HasPlan(t)

(* An approved plan the pursuit can put into a prompt.                      *)
AwaitsPrompt(a) ==
    /\ a \in DOMAIN approvals /\ Unprompted(a)
    /\ artifacts[approvals[a].artifact].length + Instruction <= MaxPromptBytes

(* Every plan a turn ended with comes up for review, unless a full batch of *)
(* turns without a plan stands before it, and every approved plan that fits *)
(* a prompt is prompted for, unless its child run is prompted or left       *)
(* before: also after a closed ingress or a crash in the tick (pursue).     *)
PlansProceed ==
    /\ \A t \in 1..(MaxTurns + MaxRuns) : AwaitsReview(t) ~> ~AwaitsReview(t) \/ Crowded(t)
    /\ \A a \in 1..MaxRuns : AwaitsPrompt(a) ~> ~AwaitsPrompt(a)
=============================================================================
