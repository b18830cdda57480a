--------------------------- MODULE PromptAdmission ---------------------------
(***************************************************************************)
(* How a Claurst prompt waits for its local model. Admission registers the  *)
(* prompt as waiting and starts a task; tasks share one download job a      *)
(* model, which lives as long as somebody holds it. A cancelling client, a  *)
(* finishing download and the task itself all end the wait, each by taking  *)
(* the waiter and then writing the ledger, in that or the other order.      *)
(*                                                                         *)
(* One run and one curated model. The registry, the tasks and the jobs are  *)
(* memory of one process; rows, the current run and the model file survive. *)
(* A process writes the ledger while the ingress is open at its own epoch.  *)
(***************************************************************************)
EXTENDS Naturals, Sequences, FiniteSets

CONSTANTS
    Prompts,
    QueueKind,   \* the prompts sent with the queue disposition
    MaxWakes,    \* bound: tasks a prompt gets (its commit, a retry, pursuit, recovery)
    MaxBackground, \* bound: downloads a client asks for
    MaxRestarts, MaxCancels, \* bounds
    Background   \* the holder of a download that a client asked for

ASSUME PromptAdmissionAssumption ==
    /\ QueueKind \subseteq Prompts
    /\ {MaxWakes, MaxBackground, MaxRestarts, MaxCancels} \subseteq Nat
    /\ IsFiniteSet(Prompts) /\ Background \notin Prompts

VARIABLES
    row,       \* agent_chat_prompt_dispatches of the prompts
    held,      \* prompts with an unanswered PromptHeld fact
    switched,  \* the conversation has moved to another run
    open,      \* host_state: the ingress is open at the epoch of this process
    file,      \* the model file: "none", "partial", "ready"
    waiting,   \* AdmissionWaiters, by receipt
    task,      \* the admission tasks, by prompt and wake
    job,       \* downloads ever started, in order
    listed,    \* the one in the map of jobs, 0 for none
    storage,   \* the one that holds the model's storage mutex, 0 for none
    cancel,    \* a client that cancels what its run holds
    bound      \* how often the bounded things happened

vars == <<row, held, switched, open, file, waiting, task, job, listed, storage, cancel, bound>>
ledger == <<row, held, switched, open>>
downloads == <<file, job, listed, storage>>

Tasks == Prompts \X (1..MaxWakes)
Jobs == 1..Len(job)
NoTask == [at |-> "none", job |-> 0, reason |-> "none"]
NoCancel == [at |-> "none", todo |-> {}, prompt |-> Background]

Init ==
    /\ row = [p \in Prompts |-> "none"] /\ held = {} /\ switched = FALSE /\ open = TRUE
    /\ file = "none"
    /\ waiting = {} /\ task = [t \in Tasks |-> NoTask]
    /\ job = <<>> /\ listed = 0 /\ storage = 0
    /\ cancel = NoCancel
    /\ bound = [restarts |-> 0, cancels |-> 0, background |-> 0]

(***************************************************************************)
(* Ledger writes of admission. Each is one transaction, refused when the     *)
(* ingress is closed; release and settlement are refused, too, unless the    *)
(* prompt still awaits readiness on the conversation's current run.          *)
(***************************************************************************)
Awaits(p) == row[p] = "awaiting" /\ ~switched

Writable(p) == open /\ Awaits(p)

ReleaseRow(p) == /\ row' = [row EXCEPT ![p] = IF Writable(p) THEN "pending" ELSE @]
                 /\ held' = IF Writable(p) THEN held \ {p} ELSE held
                 /\ UNCHANGED <<switched, open>>

SettleRow(p, phase) == /\ row' = [row EXCEPT ![p] = IF Writable(p) THEN phase ELSE @]
                       /\ held' = IF Writable(p) THEN held \ {p} ELSE held
                       /\ UNCHANGED <<switched, open>>

Commit(p) ==
    /\ open /\ row[p] = "none" /\ ~switched
    /\ row' = [row EXCEPT ![p] = "awaiting"]
    /\ UNCHANGED <<held, switched, open, downloads, waiting, task, cancel, bound>>

(* A client takes a queued prompt back, whether it waits or not.            *)
CancelQueued(p) ==
    /\ open /\ p \in QueueKind /\ row[p] \in {"awaiting", "pending"}
    /\ row' = [row EXCEPT ![p] = "cancelled"]
    /\ held' = held \ {p}
    /\ UNCHANGED <<switched, open, downloads, waiting, task, cancel, bound>>

Switch ==
    /\ open /\ ~switched
    /\ switched' = TRUE
    /\ UNCHANGED <<row, held, open, downloads, waiting, task, cancel, bound>>

(* The owner is quiesced or updated. Nothing opens the ingress at this epoch *)
(* again; admission goes on in memory until the process ends.               *)
CloseIngress ==
    /\ open /\ bound.restarts < MaxRestarts     \* the next process is within the bound
    /\ open' = FALSE
    /\ UNCHANGED <<row, held, switched, downloads, waiting, task, cancel, bound>>

(***************************************************************************)
(* Download jobs                                                            *)
(***************************************************************************)
NewJob(holder) == [holders |-> {holder}, at |-> "queued", stop |-> "none",
                   outcome |-> "none", progress |-> "downloading"]

Start(holder) ==
    IF listed # 0
    THEN /\ job' = [job EXCEPT ![listed].holders = @ \cup {holder}]
         /\ UNCHANGED listed
    ELSE /\ job' = Append(job, NewJob(holder))
         /\ listed' = Len(job) + 1

(* Mutant of Abandoned: a job is stopped whoever else still holds it.       *)
AbandonedByOne(holder) == listed # 0

Abandoned(holder) == listed # 0 /\ job[listed].holders \subseteq {holder}

ReleaseHolder(holder) ==
    IF Abandoned(holder)
    THEN /\ job' = [job EXCEPT ![listed].holders = {}, ![listed].stop = "detach"]
         /\ listed' = 0
    ELSE /\ job' = IF listed = 0 THEN job ELSE [job EXCEPT ![listed].holders = @ \ {holder}]
         /\ UNCHANGED listed

StartBackground ==
    /\ bound.background < MaxBackground
    /\ bound' = [bound EXCEPT !.background = @ + 1]
    /\ file # "ready" \/ listed # 0
    /\ Start(Background)
    /\ UNCHANGED <<ledger, file, storage, waiting, task, cancel>>

(* A client cancels the download: whoever holds it is told.                 *)
CancelDownload ==
    /\ IF listed # 0
       THEN /\ job' = [job EXCEPT ![listed].stop = "cancel"]
            /\ listed' = 0
            /\ UNCHANGED file
       ELSE /\ file = "partial"
            /\ file' = "none"
            /\ UNCHANGED <<job, listed>>
    /\ UNCHANGED <<ledger, storage, waiting, task, cancel, bound>>

RunJob(j) ==
    /\ job[j].at = "queued" /\ storage = 0
    /\ storage' = j
    /\ job' = [job EXCEPT ![j].at = "running"]
    /\ file' = IF file = "ready" THEN file ELSE "partial"
    /\ UNCHANGED <<ledger, listed, waiting, task, cancel, bound>>

Stopped(j) == job[j].stop # "none"

(* Mutant of Outcome: the stop itself is announced.                         *)
OutcomeOfStop(j, end) == IF end = "done" THEN "complete" ELSE job[j].stop

(* What the job will announce. A failed one whose file verifies is complete. *)
Outcome(j, end) ==
    IF end = "done" THEN "complete"
    ELSE IF end = "stopped" THEN "cancelled"
    ELSE IF file = "ready" THEN "complete" ELSE "failed"

EndJob(j, end) ==
    /\ job[j].at = "running"
    /\ end = "stopped" => Stopped(j)      \* select! may also take the download's end
    /\ job' = [job EXCEPT ![j].at = "ended", ![j].outcome = Outcome(j, end)]
    /\ file' = CASE end = "done" -> "ready"
                 [] end = "stopped" /\ job[j].stop = "cancel" /\ file = "partial" -> "none"
                 [] OTHER -> file
    /\ UNCHANGED <<ledger, listed, storage, waiting, task, cancel, bound>>

(* The job leaves the map first, if it is still in it, and then announces.  *)
FinishJob(j) ==
    /\ job[j].at = "ended"
    /\ job' = [job EXCEPT ![j].at = "finished"]
    /\ listed' = IF listed = j THEN 0 ELSE listed
    /\ UNCHANGED <<ledger, file, storage, waiting, task, cancel, bound>>

(* Mutant of Announcement: a stopped job ends without a word.               *)
AnnouncementOfEnd(j) == IF job[j].outcome = "cancelled" THEN "downloading" ELSE job[j].outcome

Announcement(j) == job[j].outcome

AnnounceJob(j) ==
    /\ job[j].at = "finished"
    /\ job' = [job EXCEPT ![j].at = "announced", ![j].progress = Announcement(j)]
    /\ storage' = 0
    /\ UNCHANGED <<ledger, file, listed, waiting, task, cancel, bound>>

(***************************************************************************)
(* Admission tasks                                                          *)
(***************************************************************************)
At(t, step) == task[t].at = step
Moved(t, step) == task' = [task EXCEPT ![t].at = step]

(* A wake registers the prompt before its task runs. A request that is sent  *)
(* again wakes its prompt again, whatever became of it (prompt_retry).      *)
Wake(t) ==
    /\ At(t, "none") /\ row[t[1]] # "none"
    /\ \A k \in 1..t[2] - 1 : ~At(<<t[1], k>>, "none")
    /\ waiting' = waiting \cup {t[1]}
    /\ Moved(t, "start")
    /\ UNCHANGED <<ledger, downloads, cancel, bound>>

StartTask(t) ==
    /\ At(t, "start")
    /\ IF listed = 0 /\ file = "ready"
       THEN /\ Moved(t, "release")
            /\ UNCHANGED <<job, listed>>
       ELSE /\ Start(t[1])
            /\ task' = [task EXCEPT ![t] = [at |-> "check", job |-> listed', reason |-> "none"]]
    /\ UNCHANGED <<ledger, file, storage, waiting, cancel, bound>>

(* Draining admission, or storage that cannot be read.                      *)
StartFails(t) ==
    /\ At(t, "start")
    /\ task' = [task EXCEPT ![t].at = "fail", ![t].reason = "failed"]
    /\ UNCHANGED <<ledger, downloads, waiting, cancel, bound>>

(* Mutant of StillWaiting: the prompt may have been cancelled meanwhile.     *)
StillWaitingAlways(t) == TRUE

StillWaiting(t) == t[1] \in waiting

Check(t) ==
    /\ At(t, "check")
    /\ Moved(t, IF StillWaiting(t) THEN "hold" ELSE "leaving")
    /\ UNCHANGED <<ledger, downloads, waiting, cancel, bound>>

(* Then it gives up its share, and fails if its hold was refused.           *)
Leave(t) ==
    /\ At(t, "leaving")
    /\ ReleaseHolder(t[1])
    /\ Moved(t, IF task[t].reason = "none" THEN "done" ELSE "fail")
    /\ UNCHANGED <<ledger, file, storage, waiting, cancel, bound>>

(* The hold is recorded for send prompts that still await; else it is none.  *)
(* It fails when the ingress is closed, or with the storage.                *)
(* Mutant of MayHold: a send prompt is held whatever became of it.          *)
MayHoldAnySend(p) == p \notin QueueKind

MayHold(p) == row[p] = "awaiting" /\ p \notin QueueKind

Hold(t) ==
    /\ At(t, "hold") /\ open
    /\ held' = IF MayHold(t[1]) THEN held \cup {t[1]} ELSE held
    /\ Moved(t, "follow")
    /\ UNCHANGED <<row, switched, open, downloads, waiting, cancel, bound>>

HoldFails(t) ==
    /\ At(t, "hold")
    /\ task' = [task EXCEPT ![t].at = "leaving", ![t].reason = "failed"]
    /\ UNCHANGED <<ledger, downloads, waiting, cancel, bound>>

(* Mutant of Answer: a stopped download counts as a finished one.           *)
AnswerOptimist(progress) == IF progress = "failed" THEN "fail" ELSE "release"

Answer(progress) == IF progress = "complete" THEN "release" ELSE "fail"

Follow(t) ==
    LET progress == job[task[t].job].progress IN
    /\ At(t, "follow") /\ progress # "downloading"
    /\ task' = [task EXCEPT ![t].at = Answer(progress), ![t].reason = progress]
    /\ UNCHANGED <<ledger, downloads, waiting, cancel, bound>>

(* Taking the waiter decides who ends the wait; the ledger is written next.  *)
TakeWaiter(t) ==
    /\ At(t, "release") \/ At(t, "fail")
    /\ Moved(t, IF t[1] \notin waiting THEN "done" ELSE IF At(t, "release") THEN "releasing" ELSE "failing")
    /\ waiting' = waiting \ {t[1]}
    /\ UNCHANGED <<ledger, downloads, cancel, bound>>

(* A release that is refused settles the prompt as failed, if that is not   *)
(* refused too.                                                             *)
Release(t) ==
    /\ At(t, "releasing")
    /\ ReleaseRow(t[1])
    /\ Moved(t, "done")
    /\ UNCHANGED <<downloads, waiting, cancel, bound>>

Fail(t) ==
    /\ At(t, "failing")
    /\ SettleRow(t[1], IF task[t].reason = "cancelled" THEN "cancelled" ELSE "failed")
    /\ Moved(t, "done")
    /\ UNCHANGED <<downloads, waiting, cancel, bound>>

(***************************************************************************)
(* A client that stops the run: what is held is cancelled first             *)
(***************************************************************************)
(* Waiters are restored from the ledger, then those of send prompts listed.  *)
BeginCancel ==
    /\ cancel = NoCancel /\ bound.cancels < MaxCancels
    /\ bound' = [bound EXCEPT !.cancels = @ + 1]
    /\ cancel' = [cancel EXCEPT !.at = "restore", !.todo = {p \in Prompts : Awaits(p)}]
    /\ UNCHANGED <<ledger, downloads, waiting, task>>

RestoreWaiters ==
    /\ cancel.at = "restore"
    /\ waiting' = waiting \cup cancel.todo
    /\ cancel' = [cancel EXCEPT !.at = "next", !.todo = waiting' \ QueueKind]
    /\ UNCHANGED <<ledger, downloads, task, bound>>

CancelNext(p) ==
    /\ cancel.at = "next" /\ p \in cancel.todo
    /\ cancel' = [at |-> IF row[p] = "awaiting" THEN "settle" ELSE "leave",
                  todo |-> cancel.todo \ {p}, prompt |-> p]
    /\ UNCHANGED <<ledger, downloads, waiting, task, bound>>

CancelIdle ==
    /\ cancel.at = "next" /\ cancel.todo = {}
    /\ cancel' = NoCancel
    /\ UNCHANGED <<ledger, downloads, waiting, task, bound>>

(* A refused settlement answers an error and leaves the rest as it is.      *)
CancelSettle ==
    /\ cancel.at = "settle"
    /\ SettleRow(cancel.prompt, "cancelled")
    /\ cancel' = IF Writable(cancel.prompt) THEN [cancel EXCEPT !.at = "leave"] ELSE NoCancel
    /\ UNCHANGED <<downloads, waiting, task, bound>>

CancelLeave ==
    /\ cancel.at = "leave"
    /\ waiting' = waiting \ {cancel.prompt}
    /\ cancel' = [cancel EXCEPT !.at = "drop"]
    /\ UNCHANGED <<ledger, downloads, task, bound>>

CancelDrop ==
    /\ cancel.at = "drop"
    /\ ReleaseHolder(cancel.prompt)
    /\ cancel' = [cancel EXCEPT !.at = "next", !.prompt = Background]
    /\ UNCHANGED <<ledger, file, storage, waiting, task, bound>>

(* Memory is gone, the next process opens the ingress at its own epoch; its  *)
(* recovery wakes what still awaits, page by page.                          *)
Restart ==
    /\ bound.restarts < MaxRestarts
    /\ bound' = [bound EXCEPT !.restarts = @ + 1]
    /\ waiting' = {} /\ task' = [t \in Tasks |-> NoTask]
    /\ job' = <<>> /\ listed' = 0 /\ storage' = 0
    /\ cancel' = NoCancel
    /\ open' = TRUE
    /\ UNCHANGED <<row, held, switched, file>>

TaskStep(t) == \/ StartTask(t) \/ StartFails(t) \/ Check(t) \/ Leave(t) \/ Hold(t)
               \/ HoldFails(t) \/ Follow(t) \/ TakeWaiter(t) \/ Release(t) \/ Fail(t)
JobStep(j) == RunJob(j) \/ FinishJob(j) \/ AnnounceJob(j)
              \/ \E end \in {"done", "failed", "stopped"} : EndJob(j, end)
CancelStep == RestoreWaiters \/ CancelIdle \/ CancelSettle \/ CancelLeave \/ CancelDrop
              \/ \E p \in Prompts : CancelNext(p)

Next == \/ \E p \in Prompts : Commit(p) \/ CancelQueued(p)
        \/ \E t \in Tasks : Wake(t) \/ TaskStep(t)
        \/ \E j \in Jobs : JobStep(j)
        \/ BeginCancel \/ CancelStep
        \/ Switch \/ CloseIngress \/ StartBackground \/ CancelDownload \/ Restart

Spec == Init /\ [][Next]_vars

(* Tasks and downloads are spawned on a running executor and a download ends *)
(* by its transport's timeouts; a prompt is woken by its commit or by the   *)
(* recovery of the next process, and who closed the ingress starts that.    *)
Fairness ==
    /\ \A t \in Tasks : WF_vars(TaskStep(t))
    /\ \A j \in 1..Cardinality(Tasks) + MaxBackground : WF_vars(j \in Jobs /\ JobStep(j))
    /\ \A p \in Prompts : WF_vars(Wake(<<p, 1>>))
    /\ WF_vars(~open /\ Restart)

FairSpec == Spec /\ Fairness

(***************************************************************************)
(* Properties                                                               *)
(***************************************************************************)
(* local_model_jobs.rs and the admission registry hold values of their types.*)
TypeOK ==
    /\ row \in [Prompts -> {"none", "awaiting", "pending", "cancelled", "failed"}]
    /\ held \subseteq Prompts /\ waiting \subseteq Prompts
    /\ switched \in BOOLEAN /\ open \in BOOLEAN
    /\ file \in {"none", "partial", "ready"}
    /\ task \in [Tasks -> [at : {"none", "start", "check", "leaving", "hold", "follow", "release", "fail",
                                "releasing", "failing", "done"},
                          job : Nat,
                          reason : {"none", "complete", "cancelled", "failed"}]]
    /\ listed \in {0} \cup Jobs /\ storage \in {0} \cup Jobs
    /\ cancel.at \in {"none", "restore", "next", "settle", "leave", "drop"}
    /\ cancel.todo \subseteq Prompts

TasksOf(p) == {t \in Tasks : t[1] = p}

(* The other tasks of its prompt, whose request was sent again.             *)
Twins(t) == TasksOf(t[1]) \ {t}

(* provision_claurst and cancel_held: the download in the map is wanted. A  *)
(* prompt among its holders waits for it, or whoever took the waiter away   *)
(* is about to release the download too, or it was taken by one task of the *)
(* prompt while another is in this download.                                *)
NoOrphanDownload ==
    listed # 0 =>
        \A p \in job[listed].holders \ {Background} :
            \/ p \in waiting
            \/ cancel.at \in {"leave", "drop"} /\ cancel.prompt = p
            \/ \E t \in TasksOf(p) :
                  \/ At(t, "check") \/ At(t, "leaving")
                  \/ /\ task[t].at \in {"hold", "follow"} /\ task[t].job = listed
                     /\ \E u \in Twins(t) : task[u].at \in {"releasing", "failing", "done"}

(* release: a prompt that gives up its share never stops the download that   *)
(* another prompt still awaits; only a client that cancels the download     *)
(* does. Of its own tasks one that is refused may stop it for the others.    *)
SharedDownloadSurvives ==
    \A t \in Tasks :
        /\ row[t[1]] = "awaiting" /\ task[t].at \in {"check", "hold", "follow"}
        /\ \A u \in Twins(t) : task[u].at \notin {"fail", "releasing", "failing", "done"}
        => job[task[t].job].stop # "detach"

(* prompt_admission_hold.rs hold and clear: a prompt is shown as held only  *)
(* while it awaits, though the hold may race its cancellation and release.  *)
HeldAwaits == \A p \in held : row[p] = "awaiting"

(* What holds of prompts, waiters and downloads at all times.                *)
AdmissionInvariant == TypeOK /\ NoOrphanDownload /\ SharedDownloadSurvives /\ HeldAwaits

(* local_model_jobs_task.rs run: a prompt is released to the dispatchers only *)
(* when its model file has been verified.                                   *)
ReleasedWhenReady ==
    [][\A p \in Prompts : row[p] = "awaiting" /\ row'[p] = "pending" => file = "ready"]_vars

(* A prompt that awaits its model is released, cancelled or failed in the    *)
(* end: what a closed ingress refused, the next process does. It is left    *)
(* behind only when its conversation has moved to another run.              *)
AwaitingPromptLeaves ==
    \A p \in Prompts : row[p] = "awaiting" ~> row[p] # "awaiting" \/ switched
=============================================================================
