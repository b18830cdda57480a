------------------------ MODULE PromptAdmissionProofs ------------------------
(***************************************************************************)
(* Proofs about PromptAdmission for every set of prompts, however often     *)
(* each is woken and however often downloads, cancellations and restarts    *)
(* happen.                                                                  *)
(***************************************************************************)
EXTENDS PromptAdmission, SequenceTheorems, TLAPS

-----------------------------------------------------------------------------
(* The inductive invariant.                                                 *)

Holders == Prompts \cup {Background}

Job == [holders : SUBSET Holders,
        at : {"queued", "running", "ended", "finished", "announced"},
        stop : {"none", "detach", "cancel"},
        outcome : {"none", "complete", "cancelled", "failed"},
        progress : {"downloading", "none", "complete", "cancelled", "failed"}]

TaskSteps == {"none", "start", "check", "leaving", "hold", "follow", "release", "fail",
              "releasing", "failing", "done"}

Task == [at : TaskSteps,
         job : Nat,
         reason : {"none", "complete", "cancelled", "failed"}]

Cancel == [at : {"none", "restore", "next", "settle", "leave", "drop"},
           todo : SUBSET Prompts, prompt : Holders]

Shapes ==
    /\ row \in [Prompts -> {"none", "awaiting", "pending", "cancelled", "failed"}]
    /\ held \subseteq Prompts /\ waiting \subseteq Prompts /\ switched \in BOOLEAN
    /\ open \in BOOLEAN
    /\ file \in {"none", "partial", "ready"}
    /\ task \in [Tasks -> Task] /\ job \in Seq(Job) /\ cancel \in Cancel
    /\ listed \in {0} \cup Jobs /\ storage \in {0} \cup Jobs

\* Where a task has a share in its job, where it ended the wait, and where it
\* is done with its share.
InJob == {"check", "leaving", "hold", "follow"}
Ended == {"releasing", "failing", "done"}
Gone == Ended \cup {"fail"}

\* The prompt waits, or the client that took its waiter drops its share next.
Excused(p) == p \in waiting \/ (cancel.at \in {"leave", "drop"} /\ cancel.prompt = p)

\* Nothing is done for a prompt that was not saved.
SavedFirst ==
    /\ \A p \in waiting \cup cancel.todo : row[p] # "none"
    /\ \A t \in Tasks : ~At(t, "none") => row[t[1]] # "none"
    /\ cancel.at \in {"settle", "leave", "drop"} =>
           cancel.prompt \in Prompts /\ row[cancel.prompt] # "none"

\* A client that stops the run drops the share of a prompt that is settled.
SettledFirst == cancel.at \in {"leave", "drop"} => row[cancel.prompt] # "awaiting"

\* The job in the map was not stopped and has not announced its end.
ListedRuns ==
    /\ listed # 0 => job[listed].stop = "none" /\ job[listed].at \in {"queued", "running", "ended"}
    /\ \A j \in Jobs : job[j].at # "announced" => job[j].progress = "downloading"

\* A task in the job of the map, and why its prompt may be among the holders.
Wanted(t) ==
    /\ task[t].job = listed /\ task[t].at \in InJob
    /\ \/ Excused(t[1])
       \/ task[t].at \in {"check", "leaving"}
       \/ \E u \in Twins(t) : task[u].at \in Ended

\* A prompt in the job of the map has a task there.
SharesAreUsed ==
    listed # 0 => \A p \in job[listed].holders \ {Background} : \E t \in TasksOf(p) : Wanted(t)

\* The prompt awaits and none of its other tasks is done with the share.
Shares(t) == /\ row[t[1]] = "awaiting" /\ task[t].at \in {"check", "hold", "follow"}
             /\ \A u \in Twins(t) : task[u].at \notin Gone

\* A prompt that awaits keeps its share until a task is done with it.
SharesAreKept ==
    /\ \A t \in Tasks : task[t].at \in InJob => task[t].job \in Jobs
    /\ \A t \in Tasks : Shares(t) /\ task[t].job = listed => t[1] \in job[listed].holders

\* What is complete has a file that was verified, and it stays.
CompleteIsReady ==
    /\ \A j \in Jobs : job[j].outcome = "complete" \/ job[j].progress = "complete" => file = "ready"
    /\ \A t \in Tasks : task[t].at \in {"release", "releasing"} => file = "ready"

IInv == /\ Shapes /\ SavedFirst /\ SettledFirst /\ ListedRuns /\ SharesAreUsed /\ SharesAreKept
        /\ CompleteIsReady /\ SharedDownloadSurvives /\ HeldAwaits

-----------------------------------------------------------------------------
(* Tasks and jobs.                                                          *)

LEMMA Constants ==
  QueueKind \subseteq Prompts /\ MaxWakes \in Nat /\ Background \notin Prompts
BY PromptAdmissionAssumption DEF PromptAdmissionAssumption

LEMMA TaskParts ==
  ASSUME NEW t \in Tasks
  PROVE  t[1] \in Prompts /\ t[2] \in 1..MaxWakes /\ t = <<t[1], t[2]>>
BY DEF Tasks

\* The tasks of a prompt, and what is asked of those that share.
LEMMA TwinParts ==
  ASSUME NEW p, NEW t \in TasksOf(p)
  PROVE  /\ t \in Tasks /\ t[1] = p
         /\ \A u \in Twins(t) : u \in Tasks /\ u[1] = p /\ u # t
         /\ \A u \in Tasks : u[1] = p /\ u # t => u \in Twins(t)
BY DEF TasksOf, Twins

LEMMA SurvivesShares ==
  SharedDownloadSurvives <=> \A t \in Tasks : Shares(t) => job[task[t].job].stop # "detach"
BY DEF SharedDownloadSurvives, Shares, Gone, Ended

LEMMA OneTask ==
  ASSUME Shapes, NEW t \in Tasks, NEW y \in Task, task' = [task EXCEPT ![t] = y]
  PROVE  task' \in [Tasks -> Task] /\ task'[t] = y /\ \A u \in Tasks : u # t => task'[u] = task[u]
BY DEF Shapes

LEMMA MovedTask ==
  ASSUME IInv, NEW t \in Tasks, NEW s \in TaskSteps, Moved(t, s)
  PROVE  \E y \in Task : /\ task' = [task EXCEPT ![t] = y] /\ y.at = s
                         /\ y.job = task[t].job /\ y.reason = task[t].reason
<1>1. task[t] \in Task /\ task \in [Tasks -> Task]
  BY DEF IInv, Shapes
<1>2. PICK y : y = [task[t] EXCEPT !.at = s]
  OBVIOUS
<1>3. y \in Task /\ y.at = s /\ y.job = task[t].job /\ y.reason = task[t].reason
  BY <1>1, <1>2 DEF Task
<1>. QED
  BY <1>1, <1>2, <1>3 DEF Moved

LEMMA OneJob ==
  ASSUME Shapes, NEW j \in Jobs, NEW y \in Job, job' = [job EXCEPT ![j] = y]
  PROVE  /\ job' \in Seq(Job) /\ Jobs' = Jobs /\ job'[j] = y
         /\ \A i \in Jobs : i # j => job'[i] = job[i]
<1>1. job \in Seq(Job) /\ j \in 1..Len(job)
  BY DEF Shapes, Jobs
<1>2. job' \in Seq(Job) /\ Len(job') = Len(job)
      /\ \A i \in 1..Len(job) : job'[i] = IF i = j THEN y ELSE job[i]
  BY <1>1, ExceptSeq
<1>. QED
  BY <1>1, <1>2 DEF Jobs

\* A holder joins the job in the map, or starts one.
LEMMA StartEffect ==
  ASSUME IInv, NEW h \in Holders, Start(h)
  PROVE  /\ job' \in Seq(Job) /\ Jobs \subseteq Jobs' /\ listed' \in Jobs' /\ listed' # 0
         /\ h \in job'[listed'].holders
         /\ listed # 0 => /\ listed' = listed
                          /\ job'[listed].holders = job[listed].holders \cup {h}
         /\ listed = 0 => listed' \notin Jobs /\ job'[listed'].holders = {h}
         /\ \A j \in Jobs : /\ job'[j].at = job[j].at /\ job'[j].stop = job[j].stop
                            /\ job'[j].outcome = job[j].outcome
                            /\ job'[j].progress = job[j].progress
         /\ \A j \in Jobs' \ Jobs : j = listed' /\ job'[j] = NewJob(h)
<1>1. job \in Seq(Job) /\ Len(job) \in Nat /\ \A j \in Jobs : job[j] \in Job
  BY LenProperties, ElementOfSeq DEF IInv, Shapes, Jobs
<1>2. CASE listed # 0
  <2>1. listed \in Jobs
    BY <1>2 DEF IInv, Shapes
  <2>2. PICK y : y = [job[listed] EXCEPT !.holders = @ \cup {h}]
    OBVIOUS
  <2>3. /\ y \in Job /\ y.holders = job[listed].holders \cup {h} /\ y.at = job[listed].at
        /\ y.stop = job[listed].stop /\ y.outcome = job[listed].outcome
        /\ y.progress = job[listed].progress
    BY <1>1, <2>1, <2>2 DEF Job
  <2>4. job' = [job EXCEPT ![listed] = y] /\ listed' = listed
    BY <1>2, <2>2 DEF Start
  <2>5. /\ job' \in Seq(Job) /\ Jobs' = Jobs /\ job'[listed] = y
        /\ \A i \in Jobs : i # listed => job'[i] = job[i]
    BY <2>1, <2>3, <2>4, OneJob DEF IInv
  <2>6. listed' # 0
    BY <1>2, <2>4
  <2>. QED
    BY <1>2, <2>1, <2>3, <2>4, <2>5, <2>6
<1>3. CASE listed = 0
  <2>1. job' = Append(job, NewJob(h)) /\ listed' = Len(job) + 1
    BY <1>3 DEF Start
  <2>2. NewJob(h) \in Job /\ NewJob(h).holders = {h}
    BY DEF NewJob, Job
  <2>3. job' \in Seq(Job) /\ Len(job') = Len(job) + 1
    BY <1>1, <2>1, <2>2, AppendProperties
  <2>4. \A j \in 1..Len(job) : job'[j] = job[j]
    BY <1>1, <2>1, <2>2, AppendProperties
  <2>5. job'[Len(job) + 1] = NewJob(h)
    BY <1>1, <2>1, <2>2, AppendProperties
  <2>6. Jobs' = 1..(Len(job) + 1) /\ Jobs = 1..Len(job)
    BY <2>3 DEF Jobs
  <2>7. Jobs \subseteq Jobs' /\ listed' \in Jobs' /\ listed' # 0 /\ listed' \notin Jobs
        /\ \A j \in Jobs' \ Jobs : j = listed'
    BY <1>1, <2>1, <2>6
  <2>. QED
    BY <1>3, <2>1, <2>2, <2>3, <2>4, <2>5, <2>6, <2>7
<1>. QED
  BY <1>2, <1>3

\* A holder leaves the job in the map; the last one stops it.
LEMMA ReleaseEffect ==
  ASSUME IInv, NEW h, ReleaseHolder(h)
  PROVE  /\ job' \in Seq(Job) /\ Jobs' = Jobs /\ listed' \in {0, listed}
         /\ listed' # 0 => /\ job'[listed'].holders = job[listed'].holders \ {h}
                           /\ job'[listed'].stop = job[listed'].stop
         /\ \A j \in Jobs : /\ job'[j].at = job[j].at
                            /\ job'[j].outcome = job[j].outcome
                            /\ job'[j].progress = job[j].progress
         /\ \A j \in Jobs : job'[j].stop = "detach" =>
                job[j].stop = "detach" \/ (j = listed /\ job[j].holders \subseteq {h})
<1>1. job \in Seq(Job) /\ \A j \in Jobs : job[j] \in Job
  BY ElementOfSeq DEF IInv, Shapes, Jobs
<1>2. CASE listed = 0
  BY <1>1, <1>2 DEF ReleaseHolder, Abandoned, Jobs
<1>3. CASE listed # 0
  <2>1. listed \in Jobs
    BY <1>3 DEF IInv, Shapes
  <2>2. PICK y : y = IF Abandoned(h)
                     THEN [job[listed] EXCEPT !.holders = {}, !.stop = "detach"]
                     ELSE [job[listed] EXCEPT !.holders = @ \ {h}]
    OBVIOUS
  <2>3. /\ y \in Job /\ y.at = job[listed].at
        /\ y.outcome = job[listed].outcome /\ y.progress = job[listed].progress
        /\ ~Abandoned(h) => y.holders = job[listed].holders \ {h} /\ y.stop = job[listed].stop
    BY <1>1, <2>1, <2>2 DEF Job
  <2>4. job' = [job EXCEPT ![listed] = y] /\ listed' = IF Abandoned(h) THEN 0 ELSE listed
    BY <1>3, <2>1, <2>2 DEF ReleaseHolder, Jobs, IInv, Shapes
  <2>5. /\ job' \in Seq(Job) /\ Jobs' = Jobs /\ job'[listed] = y
        /\ \A i \in Jobs : i # listed => job'[i] = job[i]
    BY <2>1, <2>3, <2>4, OneJob DEF IInv
  <2>. QED
    BY <1>3, <2>1, <2>3, <2>4, <2>5 DEF Abandoned
<1>. QED
  BY <1>2, <1>3

-----------------------------------------------------------------------------
(* Steps of the ledger and of a client that stops the run.                  *)

\* Rows are settled, waiters and the client change; tasks and jobs stay.
LEMMA LedgerStep ==
  ASSUME IInv, Shapes', SavedFirst', SettledFirst', HeldAwaits',
         UNCHANGED <<task, job, listed, file>>,
         \A p \in Prompts : row'[p] = "awaiting" => row[p] \in {"awaiting", "none"},
         \A p \in Prompts : Excused(p) => Excused(p)'
  PROVE  IInv'
<1>1. ListedRuns' /\ CompleteIsReady'
  BY DEF IInv, ListedRuns, CompleteIsReady, Jobs
<1>2. \A t \in Tasks : t[1] \in Prompts /\ (~At(t, "none") => row[t[1]] # "none")
  BY TaskParts DEF IInv, SavedFirst
<1>3. \A t \in Tasks : Wanted(t) => Wanted(t)'
  BY <1>2 DEF Wanted
<1>4. SharesAreUsed'
  <2>. SUFFICES ASSUME listed' # 0, NEW p \in job'[listed'].holders \ {Background}
                PROVE  \E t \in TasksOf(p) : Wanted(t)'
    BY DEF SharesAreUsed
  <2>1. PICK t \in TasksOf(p) : Wanted(t)
    BY DEF IInv, SharesAreUsed
  <2>. QED
    BY <1>3, <2>1, TwinParts
<1>5. \A t \in Tasks : Shares(t)' => Shares(t)
  BY <1>2 DEF Shares, At
<1>6. SharesAreKept'
  BY <1>5 DEF IInv, SharesAreKept, Jobs
<1>7. SharedDownloadSurvives'
  BY <1>5, SurvivesShares DEF IInv, SharedDownloadSurvives, Shares, Gone, Ended
<1>. QED
  BY <1>1, <1>4, <1>6, <1>7 DEF IInv

LEMMA CommitStep ==
  ASSUME IInv, NEW p \in Prompts, Commit(p)
  PROVE  IInv'
<1>1. Shapes'
  BY DEF Commit, downloads, IInv, Shapes, Jobs
<1>2. row' \in [Prompts -> {"none", "awaiting", "pending", "cancelled", "failed"}]
      /\ row[p] = "none" /\ row'[p] = "awaiting" /\ \A q \in Prompts : q # p => row'[q] = row[q]
  BY DEF Commit, IInv, Shapes
<1>3. SavedFirst' /\ SettledFirst'
  <2>1. UNCHANGED <<waiting, task, cancel>>
    BY DEF Commit
  <2>2. waiting \subseteq Prompts /\ cancel.todo \subseteq Prompts
    BY DEF IInv, Shapes, Cancel
  <2>. QED
    BY <1>2, <2>1, <2>2, TaskParts DEF IInv, SavedFirst, SettledFirst, At
<1>4. HeldAwaits'
  BY <1>2 DEF Commit, IInv, Shapes, HeldAwaits
<1>. QED
  BY <1>1, <1>2, <1>3, <1>4, LedgerStep DEF Commit, downloads, Excused

\* A row that was saved stays saved, and awaits no longer or as before.
LEMMA RowsStep ==
  ASSUME IInv, Shapes', HeldAwaits', UNCHANGED <<task, job, listed, file, waiting, cancel>>,
         \A p \in Prompts : row[p] # "none" => row'[p] # "none",
         \A p \in Prompts : row'[p] = "awaiting" => row[p] = "awaiting"
  PROVE  IInv'
<1>1. waiting \subseteq Prompts /\ cancel.todo \subseteq Prompts
  BY DEF IInv, Shapes, Cancel
<1>2. SavedFirst' /\ SettledFirst'
  BY <1>1, TaskParts DEF IInv, SavedFirst, SettledFirst, At
<1>. QED
  BY <1>2, LedgerStep DEF Excused

LEMMA CancelQueuedStep ==
  ASSUME IInv, NEW p \in Prompts, CancelQueued(p)
  PROVE  IInv'
<1>1. Shapes'
  BY DEF CancelQueued, downloads, IInv, Shapes, Jobs
<1>2. HeldAwaits'
  BY DEF CancelQueued, IInv, Shapes, HeldAwaits
<1>. QED
  BY <1>1, <1>2, RowsStep DEF CancelQueued, downloads, IInv, Shapes

LEMMA SwitchStep ==
  ASSUME IInv, Switch
  PROVE  IInv'
<1>1. Shapes'
  BY DEF Switch, downloads, IInv, Shapes, Jobs
<1>2. HeldAwaits'
  BY DEF Switch, IInv, Shapes, HeldAwaits
<1>. QED
  BY <1>1, <1>2, RowsStep DEF Switch, downloads

LEMMA CloseIngressStep ==
  ASSUME IInv, CloseIngress
  PROVE  IInv'
<1>1. Shapes'
  BY DEF CloseIngress, downloads, IInv, Shapes, Jobs
<1>2. HeldAwaits'
  BY DEF CloseIngress, IInv, Shapes, HeldAwaits
<1>. QED
  BY <1>1, <1>2, RowsStep DEF CloseIngress, downloads

LEMMA BeginCancelStep ==
  ASSUME IInv, BeginCancel
  PROVE  IInv'
<1>1. cancel'.at = "restore" /\ cancel'.todo = {p \in Prompts : Awaits(p)} /\ cancel' \in Cancel
      /\ cancel.at = "none"
  BY DEF BeginCancel, NoCancel, Cancel, Holders
<1>2. UNCHANGED <<row, held, switched, open, file, job, listed, storage, waiting, task>>
  BY DEF BeginCancel, ledger, downloads
<1>3. Shapes'
  BY <1>1, <1>2 DEF IInv, Shapes, Jobs
<1>4. SavedFirst' /\ SettledFirst' /\ HeldAwaits'
  BY <1>1, <1>2 DEF IInv, SavedFirst, SettledFirst, HeldAwaits, Awaits, At
<1>. QED
  BY <1>1, <1>2, <1>3, <1>4, LedgerStep DEF Excused

\* The client goes on; what it has to do and whom it restores were saved.
LEMMA ClientStep ==
  ASSUME IInv, cancel' \in Cancel, UNCHANGED <<row, held, switched, open, file, job, listed, storage, task>>,
         waiting' \subseteq Prompts, waiting \subseteq waiting',
         \A p \in waiting' \cup cancel'.todo : row[p] # "none",
         cancel.at \notin {"leave", "drop"},
         cancel'.at \in {"settle", "leave", "drop"} =>
             cancel'.prompt \in Prompts /\ row[cancel'.prompt] # "none",
         cancel'.at \in {"leave", "drop"} => row[cancel'.prompt] # "awaiting"
  PROVE  IInv'
<1>1. Shapes'
  BY DEF IInv, Shapes, Jobs
<1>2. SavedFirst' /\ SettledFirst' /\ HeldAwaits'
  BY DEF IInv, SavedFirst, SettledFirst, HeldAwaits, At
<1>. QED
  BY <1>1, <1>2, LedgerStep DEF Excused

LEMMA RestoreWaitersStep ==
  ASSUME IInv, RestoreWaiters
  PROVE  IInv'
<1>1. cancel \in Cancel /\ cancel.todo \subseteq Prompts /\ waiting \subseteq Prompts
      /\ \A p \in waiting \cup cancel.todo : row[p] # "none"
  BY DEF IInv, Shapes, Cancel, SavedFirst
<1>2. /\ waiting' = waiting \cup cancel.todo /\ cancel'.at = "next"
      /\ cancel'.todo = waiting' \ QueueKind /\ cancel' \in Cancel /\ cancel.at = "restore"
  BY <1>1 DEF RestoreWaiters, Cancel
<1>. QED
  BY <1>1, <1>2, ClientStep DEF RestoreWaiters, ledger, downloads

LEMMA CancelNextStep ==
  ASSUME IInv, NEW p \in Prompts, CancelNext(p)
  PROVE  IInv'
<1>1. cancel \in Cancel /\ cancel.todo \subseteq Prompts /\ waiting \subseteq Prompts
      /\ \A q \in waiting \cup cancel.todo : row[q] # "none"
  BY DEF IInv, Shapes, Cancel, SavedFirst
<1>2. /\ cancel'.at = (IF row[p] = "awaiting" THEN "settle" ELSE "leave")
      /\ cancel'.todo = cancel.todo \ {p} /\ cancel'.prompt = p /\ cancel' \in Cancel
      /\ cancel.at = "next" /\ p \in cancel.todo
  BY <1>1 DEF CancelNext, Cancel, Holders
<1>. QED
  BY <1>1, <1>2, ClientStep DEF CancelNext, ledger, downloads

LEMMA CancelIdleStep ==
  ASSUME IInv, CancelIdle
  PROVE  IInv'
<1>1. waiting \subseteq Prompts /\ \A q \in waiting : row[q] # "none"
  BY DEF IInv, Shapes, SavedFirst
<1>2. cancel' \in Cancel /\ cancel'.at = "none" /\ cancel'.todo = {} /\ cancel.at = "next"
  BY DEF CancelIdle, NoCancel, Cancel, Holders
<1>. QED
  BY <1>1, <1>2, ClientStep DEF CancelIdle, ledger, downloads

\* What a settlement does to the ledger.
LEMMA SettleEffect ==
  ASSUME IInv, NEW p \in Prompts, NEW phase \in {"pending", "cancelled", "failed"},
         row' = [row EXCEPT ![p] = IF Writable(p) THEN phase ELSE @],
         held' = IF Writable(p) THEN held \ {p} ELSE held
  PROVE  /\ row' \in [Prompts -> {"none", "awaiting", "pending", "cancelled", "failed"}]
         /\ held' \subseteq Prompts /\ HeldAwaits'
         /\ \A q \in Prompts : row[q] # "none" => row'[q] # "none"
         /\ \A q \in Prompts : row'[q] = "awaiting" => row[q] = "awaiting"
         /\ Writable(p) => row'[p] = phase
BY DEF IInv, Shapes, HeldAwaits, Writable, Awaits

LEMMA CancelSettleStep ==
  ASSUME IInv, CancelSettle
  PROVE  IInv'
<1>1. PICK p : p = cancel.prompt
  OBVIOUS
<1>2. p \in Prompts /\ row[p] # "none" /\ cancel.at = "settle" /\ cancel \in Cancel
      /\ waiting \subseteq Prompts
  BY <1>1 DEF CancelSettle, IInv, SavedFirst, Shapes
<1>3. /\ row' = [row EXCEPT ![p] = IF Writable(p) THEN "cancelled" ELSE @]
      /\ held' = IF Writable(p) THEN held \ {p} ELSE held
      /\ cancel' = IF Writable(p) THEN [cancel EXCEPT !.at = "leave"] ELSE NoCancel
      /\ UNCHANGED <<switched, open, file, job, listed, storage, waiting, task>>
  BY <1>1 DEF CancelSettle, SettleRow, downloads
<1>4. /\ row' \in [Prompts -> {"none", "awaiting", "pending", "cancelled", "failed"}]
      /\ held' \subseteq Prompts /\ HeldAwaits'
      /\ \A q \in Prompts : row[q] # "none" => row'[q] # "none"
      /\ \A q \in Prompts : row'[q] = "awaiting" => row[q] = "awaiting"
      /\ Writable(p) => row'[p] = "cancelled"
  BY <1>2, <1>3, SettleEffect
<1>5. /\ cancel' \in Cancel /\ cancel'.todo \subseteq cancel.todo
      /\ cancel'.at \in {"leave", "none"}
      /\ cancel'.at = "leave" => cancel'.prompt = p /\ row'[p] = "cancelled"
  BY <1>1, <1>2, <1>3, <1>4 DEF Cancel, NoCancel, Holders
<1>6. Shapes'
  BY <1>3, <1>4, <1>5 DEF IInv, Shapes, Jobs
<1>7. SavedFirst' /\ SettledFirst'
  <2>1. cancel.todo \subseteq Prompts
    BY <1>2 DEF Cancel
  <2>. QED
    BY <1>2, <1>3, <1>4, <1>5, <2>1, TaskParts DEF IInv, SavedFirst, SettledFirst, At
<1>. QED
  BY <1>2, <1>3, <1>4, <1>6, <1>7, LedgerStep DEF Excused

LEMMA CancelLeaveStep ==
  ASSUME IInv, CancelLeave
  PROVE  IInv'
<1>1. cancel.at = "leave" /\ cancel \in Cancel
  BY DEF CancelLeave, IInv, Shapes
<1>2. /\ cancel' \in Cancel /\ cancel'.at = "drop" /\ cancel'.prompt = cancel.prompt
      /\ cancel'.todo = cancel.todo /\ waiting' = waiting \ {cancel.prompt}
      /\ UNCHANGED <<row, held, switched, open, file, job, listed, storage, task>>
  BY <1>1 DEF CancelLeave, Cancel, ledger, downloads
<1>3. Shapes'
  BY <1>2 DEF IInv, Shapes, Jobs
<1>4. SavedFirst' /\ SettledFirst' /\ HeldAwaits'
  BY <1>1, <1>2 DEF IInv, SavedFirst, SettledFirst, HeldAwaits, At
<1>. QED
  BY <1>1, <1>2, <1>3, <1>4, LedgerStep DEF Excused

-----------------------------------------------------------------------------
(* Steps of the tasks.                                                      *)

\* A task that does not join or leave a job takes a step.
LEMMA OneTaskStep ==
  ASSUME IInv, NEW t \in Tasks, NEW y \in Task, task' = [task EXCEPT ![t] = y],
         row' \in [Prompts -> {"none", "awaiting", "pending", "cancelled", "failed"}],
         held' \subseteq Prompts, HeldAwaits', waiting' \subseteq Prompts,
         UNCHANGED <<switched, open, file, job, listed, storage, cancel>>,
         \A q \in Prompts : row[q] # "none" => row'[q] # "none",
         \A q \in Prompts : row'[q] = "awaiting" => row[q] = "awaiting",
         row[t[1]] # "none", y.at # "none",
         waiting' \subseteq waiting \cup {t[1]}, waiting \subseteq waiting' \cup {t[1]},
         t[1] \in waiting => t[1] \in waiting' \/ y.at \in Ended,
         task[t].at \in Ended => y.at \in Ended, task[t].at \in Gone => y.at \in Gone,
         y.at \in InJob => task[t].at \in InJob /\ y.job = task[t].job,
         y.at \in {"check", "hold", "follow"} => task[t].at # "leaving",
         y.at \notin InJob => task[t].at \notin InJob \/ task[t].job # listed,
         y.at \in {"hold", "follow"} => task[t].at \in {"hold", "follow"} \/ t[1] \in waiting',
         y.at \in {"release", "releasing"} => file = "ready"
  PROVE  IInv'
<1>1. /\ task' \in [Tasks -> Task] /\ task'[t] = y /\ \A u \in Tasks : u # t => task'[u] = task[u]
      /\ Tasks' = Tasks /\ t[1] \in Prompts
  BY OneTask, TaskParts DEF IInv, Tasks
<1>2. Shapes'
  BY <1>1 DEF IInv, Shapes, Jobs
<1>3. \A u \in Tasks : /\ task[u].at \in Ended => task'[u].at \in Ended
                       /\ task[u].at \in Gone => task'[u].at \in Gone
  BY <1>1
<1>5. SavedFirst'
  <2>1. \A p \in waiting' \cup cancel'.todo : row'[p] # "none"
    BY <1>1 DEF IInv, SavedFirst, Shapes, Cancel
  <2>2. \A u \in Tasks : ~At(u, "none")' => row'[u[1]] # "none"
    BY <1>1, TaskParts DEF IInv, SavedFirst, At
  <2>. QED
    BY <1>1, <2>1, <2>2 DEF IInv, SavedFirst
<1>6. SettledFirst' /\ ListedRuns'
  BY DEF IInv, SavedFirst, SettledFirst, ListedRuns, Jobs
<1>7. CompleteIsReady'
  BY <1>1 DEF IInv, CompleteIsReady, Jobs
<1>8. ASSUME NEW u \in Tasks, Wanted(u) PROVE Wanted(u)'
  <2>1. task'[u].job = listed /\ task'[u].at \in InJob
    BY <1>1, <1>8 DEF Wanted, InJob
  <2>2. CASE u[1] \in waiting /\ u[1] \notin waiting'
    <3>1. u[1] = t[1] /\ task'[t].at \in Ended
      BY <1>1, <2>2
    <3>2. t \in Twins(u)
      BY <2>1, <3>1 DEF Twins, TasksOf, InJob, Ended
    <3>. QED
      BY <2>1, <3>1, <3>2 DEF Wanted
  <2>3. CASE Excused(u[1]) /\ ~(u[1] \in waiting /\ u[1] \notin waiting')
    <3>1. Excused(u[1])'
      BY <2>3 DEF Excused
    <3>. QED
      BY <2>1, <3>1 DEF Wanted
  <2>4. CASE task[u].at \in {"check", "leaving"}
    BY <1>1, <2>1, <2>4 DEF Wanted, Excused, InJob
  <2>5. ASSUME NEW v \in Twins(u), task[v].at \in Ended PROVE Wanted(u)'
    <3>1. v \in Tasks /\ task'[v].at \in Ended
      BY <1>3, <2>5 DEF Twins, TasksOf
    <3>. QED
      BY <2>1, <2>5, <3>1 DEF Wanted
  <2>. QED
    BY <1>8, <2>2, <2>3, <2>4, <2>5 DEF Wanted
<1>9. SharesAreUsed'
  <2>. SUFFICES ASSUME listed # 0, NEW p \in job[listed].holders \ {Background}
                PROVE  \E u \in TasksOf(p) : Wanted(u)'
    BY <1>1 DEF SharesAreUsed
  <2>1. PICK u \in TasksOf(p) : Wanted(u)
    BY DEF IInv, SharesAreUsed
  <2>. QED
    BY <1>8, <2>1, TwinParts
<1>10. ASSUME NEW u \in Tasks, Shares(u)'
       PROVE  Shares(u) /\ task'[u].job = task[u].job
  <2>1. u[1] \in Prompts /\ row[u[1]] = "awaiting"
    BY <1>10, TaskParts DEF Shares
  <2>2. task[u].at \in {"check", "hold", "follow"} /\ task'[u].job = task[u].job
    BY <1>1, <1>10 DEF Shares, InJob
  <2>3. \A v \in Twins(u) : task[v].at \notin Gone
    BY <1>3, <1>10 DEF Shares, Twins, TasksOf
  <2>. QED
    BY <2>1, <2>2, <2>3 DEF Shares
<1>11. SharesAreKept'
  <2>1. \A u \in Tasks : task'[u].at \in InJob => task'[u].job \in Jobs
    BY <1>1 DEF IInv, SharesAreKept
  <2>. QED
    BY <1>1, <1>10, <2>1 DEF IInv, SharesAreKept, Jobs
<1>12. \A u \in Tasks : Shares(u)' => job[task'[u].job].stop # "detach"
  BY <1>10, SurvivesShares DEF IInv
<1>13. SharedDownloadSurvives'
  BY <1>12 DEF SharedDownloadSurvives, Shares, Gone, Ended
<1>. QED
  BY <1>2, <1>5, <1>6, <1>7, <1>9, <1>11, <1>13 DEF IInv

\* What a task that was woken has.
LEMMA Woken ==
  ASSUME IInv, NEW t \in Tasks, task[t].at # "none"
  PROVE  row[t[1]] # "none" /\ t[1] \in Prompts /\ task[t] \in Task
BY TaskParts DEF IInv, SavedFirst, At, Shapes

\* A step of one task alone.
LEMMA AloneStep ==
  ASSUME IInv, NEW t \in Tasks, NEW y \in Task, task' = [task EXCEPT ![t] = y],
         UNCHANGED <<row, switched, open, file, job, listed, storage, waiting, cancel>>,
         held' \subseteq Prompts, HeldAwaits',
         task[t].at # "none", y.at # "none",
         task[t].at \notin Gone,
         y.at \in InJob => task[t].at \in InJob /\ y.job = task[t].job,
         y.at \in {"check", "hold", "follow"} => task[t].at # "leaving",
         y.at \notin InJob => task[t].at \notin InJob \/ task[t].job # listed,
         y.at \in {"hold", "follow"} => task[t].at \in {"hold", "follow"} \/ t[1] \in waiting,
         y.at \in {"release", "releasing"} => file = "ready"
  PROVE  IInv'
<1>1. row[t[1]] # "none"
  BY Woken
<1>2. row \in [Prompts -> {"none", "awaiting", "pending", "cancelled", "failed"}]
      /\ waiting \subseteq Prompts
  BY DEF IInv, Shapes
<1>. QED
  BY <1>1, <1>2, OneTaskStep DEF Gone

LEMMA WakeStep ==
  ASSUME IInv, NEW t \in Tasks, Wake(t)
  PROVE  IInv'
<1>1. task[t] \in Task /\ task[t].at = "none" /\ row[t[1]] # "none" /\ t[1] \in Prompts
  BY TaskParts DEF Wake, At, IInv, Shapes
<1>2. PICK y \in Task : task' = [task EXCEPT ![t] = y] /\ y.at = "start"
  BY <1>1, MovedTask DEF Wake, TaskSteps
<1>3. waiting' = waiting \cup {t[1]} /\ UNCHANGED <<row, held, switched, open, file, job, listed, storage, cancel>>
  BY DEF Wake, ledger, downloads
<1>4. row \in [Prompts -> {"none", "awaiting", "pending", "cancelled", "failed"}]
      /\ waiting \subseteq Prompts /\ held \subseteq Prompts /\ HeldAwaits'
  BY <1>3 DEF IInv, Shapes, HeldAwaits
<1>. QED
  BY <1>1, <1>2, <1>3, <1>4, OneTaskStep DEF InJob, Gone, Ended

LEMMA StartFailsStep ==
  ASSUME IInv, NEW t \in Tasks, StartFails(t)
  PROVE  IInv'
<1>1. task[t].at = "start" /\ task[t] \in Task
  BY DEF StartFails, At, IInv, Shapes
<1>2. PICK y : y = [task[t] EXCEPT !.at = "fail", !.reason = "failed"]
  OBVIOUS
<1>3. y \in Task /\ y.at = "fail" /\ task' = [task EXCEPT ![t] = y]
  BY <1>1, <1>2 DEF StartFails, Task, TaskSteps, IInv, Shapes
<1>4. UNCHANGED <<row, held, switched, open, file, job, listed, storage, waiting, cancel>>
  BY DEF StartFails, ledger, downloads
<1>. QED
  BY <1>1, <1>3, <1>4, AloneStep DEF InJob, Gone, Ended, IInv, Shapes, HeldAwaits

LEMMA CheckStep ==
  ASSUME IInv, NEW t \in Tasks, Check(t)
  PROVE  IInv'
<1>1. task[t].at = "check" /\ task[t] \in Task
  BY DEF Check, At, IInv, Shapes
<1>2. PICK s \in {"hold", "leaving"} : Moved(t, s) /\ (s = "hold" => t[1] \in waiting)
  BY DEF Check, StillWaiting
<1>3. PICK y \in Task : task' = [task EXCEPT ![t] = y] /\ y.at = s /\ y.job = task[t].job
  BY <1>1, <1>2, MovedTask DEF TaskSteps
<1>4. UNCHANGED <<row, held, switched, open, file, job, listed, storage, waiting, cancel>>
  BY DEF Check, ledger, downloads
<1>. QED
  BY <1>1, <1>2, <1>3, <1>4, AloneStep DEF InJob, Gone, Ended, IInv, Shapes, HeldAwaits

LEMMA HoldStep ==
  ASSUME IInv, NEW t \in Tasks, Hold(t)
  PROVE  IInv'
<1>1. task[t].at = "hold" /\ task[t] \in Task /\ t[1] \in Prompts
  BY TaskParts DEF Hold, At, IInv, Shapes
<1>2. PICK y \in Task : task' = [task EXCEPT ![t] = y] /\ y.at = "follow" /\ y.job = task[t].job
  BY <1>1, MovedTask DEF Hold, TaskSteps
<1>3. UNCHANGED <<row, switched, open, file, job, listed, storage, waiting, cancel>>
  BY DEF Hold, downloads
<1>4. held' \subseteq Prompts /\ HeldAwaits'
  BY <1>1, <1>3 DEF Hold, MayHold, IInv, Shapes, HeldAwaits
<1>. QED
  BY <1>1, <1>2, <1>3, <1>4, AloneStep DEF InJob, Gone, Ended

LEMMA HoldFailsStep ==
  ASSUME IInv, NEW t \in Tasks, HoldFails(t)
  PROVE  IInv'
<1>1. task[t].at = "hold" /\ task[t] \in Task
  BY DEF HoldFails, At, IInv, Shapes
<1>2. PICK y : y = [task[t] EXCEPT !.at = "leaving", !.reason = "failed"]
  OBVIOUS
<1>3. y \in Task /\ y.at = "leaving" /\ y.job = task[t].job /\ task' = [task EXCEPT ![t] = y]
  BY <1>1, <1>2 DEF HoldFails, Task, TaskSteps, IInv, Shapes
<1>4. UNCHANGED <<row, held, switched, open, file, job, listed, storage, waiting, cancel>>
  BY DEF HoldFails, ledger, downloads
<1>. QED
  BY <1>1, <1>3, <1>4, AloneStep DEF InJob, Gone, Ended, IInv, Shapes, HeldAwaits

LEMMA FollowStep ==
  ASSUME IInv, NEW t \in Tasks, Follow(t)
  PROVE  IInv'
<1>1. task[t].at = "follow" /\ task[t] \in Task /\ task[t].job \in Jobs
  BY DEF Follow, At, IInv, Shapes, SharesAreKept, InJob
<1>2. PICK progress : progress = job[task[t].job].progress
  OBVIOUS
<1>3. progress \in {"none", "complete", "cancelled", "failed"} /\ job[task[t].job].at = "announced"
  <2>1. job[task[t].job] \in Job
    BY <1>1, ElementOfSeq DEF IInv, Shapes, Jobs
  <2>2. progress # "downloading"
    BY <1>2 DEF Follow
  <2>. QED
    BY <1>1, <1>2, <2>1, <2>2 DEF Job, IInv, ListedRuns
<1>4. task[t].job # listed
  BY <1>1, <1>3 DEF IInv, ListedRuns, Jobs, Shapes
<1>5. PICK y : y = [task[t] EXCEPT !.at = Answer(progress), !.reason = progress]
  OBVIOUS
<1>6. y \in Task /\ y.at \in {"release", "fail"} /\ task' = [task EXCEPT ![t] = y]
      /\ (y.at = "release" => progress = "complete")
  BY <1>1, <1>2, <1>3, <1>5 DEF Follow, Answer, Task, TaskSteps, IInv, Shapes
<1>7. y.at = "release" => file = "ready"
  BY <1>1, <1>2, <1>6 DEF IInv, CompleteIsReady
<1>8. UNCHANGED <<row, held, switched, open, file, job, listed, storage, waiting, cancel>>
  BY DEF Follow, ledger, downloads
<1>. QED
  BY <1>1, <1>4, <1>6, <1>7, <1>8, AloneStep DEF InJob, Gone, Ended, IInv, Shapes, HeldAwaits

LEMMA TakeWaiterStep ==
  ASSUME IInv, NEW t \in Tasks, TakeWaiter(t)
  PROVE  IInv'
<1>1. task[t].at \in {"release", "fail"} /\ task[t] \in Task /\ row[t[1]] # "none"
      /\ t[1] \in Prompts
  BY Woken DEF TakeWaiter, At, IInv, Shapes
<1>2. PICK s \in {"done", "releasing", "failing"} :
          Moved(t, s) /\ (s = "releasing" => task[t].at = "release")
  BY DEF TakeWaiter, At
<1>3. PICK y \in Task : task' = [task EXCEPT ![t] = y] /\ y.at = s
  BY <1>1, <1>2, MovedTask DEF TaskSteps
<1>4. y.at = "releasing" => file = "ready"
  BY <1>2, <1>3 DEF IInv, CompleteIsReady
<1>5. waiting' = waiting \ {t[1]}
      /\ UNCHANGED <<row, held, switched, open, file, job, listed, storage, cancel>>
  BY DEF TakeWaiter, ledger, downloads
<1>6. row \in [Prompts -> {"none", "awaiting", "pending", "cancelled", "failed"}]
      /\ waiting \subseteq Prompts /\ held \subseteq Prompts /\ HeldAwaits'
  BY <1>5 DEF IInv, Shapes, HeldAwaits
<1>. QED
  BY <1>1, <1>2, <1>3, <1>4, <1>5, <1>6, OneTaskStep DEF InJob, Gone, Ended

\* The row is written and the task is done.
LEMMA WrittenStep ==
  ASSUME IInv, NEW t \in Tasks, task[t].at \in {"releasing", "failing"}, Moved(t, "done"),
         NEW phase \in {"pending", "cancelled", "failed"},
         row' = [row EXCEPT ![t[1]] = IF Writable(t[1]) THEN phase ELSE @],
         held' = IF Writable(t[1]) THEN held \ {t[1]} ELSE held,
         UNCHANGED <<switched, open, file, job, listed, storage, waiting, cancel>>
  PROVE  IInv'
<1>1. task[t] \in Task /\ row[t[1]] # "none" /\ t[1] \in Prompts
  BY Woken
<1>2. PICK y \in Task : task' = [task EXCEPT ![t] = y] /\ y.at = "done"
  BY <1>1, MovedTask DEF TaskSteps
<1>3. /\ row' \in [Prompts -> {"none", "awaiting", "pending", "cancelled", "failed"}]
      /\ held' \subseteq Prompts /\ HeldAwaits'
      /\ \A q \in Prompts : row[q] # "none" => row'[q] # "none"
      /\ \A q \in Prompts : row'[q] = "awaiting" => row[q] = "awaiting"
  BY <1>1, SettleEffect
<1>4. waiting \subseteq Prompts
  BY DEF IInv, Shapes
<1>. QED
  BY <1>1, <1>2, <1>3, <1>4, OneTaskStep DEF InJob, Gone, Ended

LEMMA ReleaseStep ==
  ASSUME IInv, NEW t \in Tasks, Release(t)
  PROVE  IInv'
BY WrittenStep DEF Release, ReleaseRow, At, downloads

LEMMA FailStep ==
  ASSUME IInv, NEW t \in Tasks, Fail(t)
  PROVE  IInv'
<1>1. PICK phase \in {"cancelled", "failed"} : SettleRow(t[1], phase)
  BY DEF Fail
<1>. QED
  BY <1>1, WrittenStep DEF Fail, SettleRow, At, downloads

LEMMA JobsTyped == ASSUME Shapes PROVE \A j \in Jobs : job[j] \in Job
BY ElementOfSeq DEF Shapes, Jobs

\* A task joins the job in the map, or starts it.
LEMMA JoinStep ==
  ASSUME IInv, NEW t \in Tasks, task[t].at = "start", Start(t[1]),
         task' = [task EXCEPT ![t] = [at |-> "check", job |-> listed', reason |-> "none"]],
         UNCHANGED <<row, held, switched, open, file, storage, waiting, cancel>>
  PROVE  IInv'
<1>1. t[1] \in Prompts /\ t[1] \in Holders /\ row[t[1]] # "none"
  BY Woken DEF Holders
<1>2. PICK y : y = [at |-> "check", job |-> listed', reason |-> "none"]
  OBVIOUS
<1>3. /\ job' \in Seq(Job) /\ Jobs \subseteq Jobs' /\ listed' \in Jobs' /\ listed' # 0
      /\ t[1] \in job'[listed'].holders
      /\ listed # 0 => /\ listed' = listed
                       /\ job'[listed].holders = job[listed].holders \cup {t[1]}
      /\ listed = 0 => listed' \notin Jobs /\ job'[listed'].holders = {t[1]}
      /\ \A j \in Jobs : /\ job'[j].at = job[j].at /\ job'[j].stop = job[j].stop
                         /\ job'[j].outcome = job[j].outcome
                         /\ job'[j].progress = job[j].progress
      /\ \A j \in Jobs' \ Jobs : j = listed' /\ job'[j] = NewJob(t[1])
  BY <1>1, StartEffect
<1>4. y \in Task /\ y.at = "check" /\ y.job = listed'
  BY <1>2, <1>3 DEF Task, TaskSteps, Jobs
<1>5. /\ task' \in [Tasks -> Task] /\ task'[t] = y /\ \A u \in Tasks : u # t => task'[u] = task[u]
      /\ Tasks' = Tasks
  BY <1>2, <1>4, OneTask DEF IInv, Tasks
<1>6. \A u \in Tasks : task[u].at \in Gone => task'[u].at \in Gone
  BY <1>5 DEF Gone, Ended
<1>7. Shapes'
  BY <1>3, <1>5 DEF IInv, Shapes
<1>8. SavedFirst' /\ SettledFirst' /\ HeldAwaits'
  BY <1>1, <1>5 DEF IInv, SavedFirst, SettledFirst, HeldAwaits, At
<1>9. \A j \in Jobs' \ Jobs : /\ job'[j].at = "queued" /\ job'[j].stop = "none"
                              /\ job'[j].outcome = "none" /\ job'[j].progress = "downloading"
  BY <1>3 DEF NewJob
<1>10. listed # 0 => listed \in Jobs
  BY DEF IInv, Shapes
<1>11. job'[listed'].stop = "none" /\ job'[listed'].at \in {"queued", "running", "ended"}
  BY <1>3, <1>9, <1>10 DEF IInv, ListedRuns
<1>12. ListedRuns'
  BY <1>3, <1>9, <1>11 DEF IInv, ListedRuns
<1>13. CompleteIsReady'
  BY <1>3, <1>4, <1>5, <1>9 DEF IInv, CompleteIsReady
<1>14. SharesAreUsed'
  <2>. SUFFICES ASSUME NEW p \in job'[listed'].holders \ {Background}
                PROVE  \E u \in TasksOf(p) : Wanted(u)'
    BY <1>5 DEF SharesAreUsed, TasksOf
  <2>1. CASE p = t[1]
    <3>1. Wanted(t)' /\ t \in TasksOf(p)
      BY <1>4, <1>5, <2>1 DEF Wanted, InJob, TasksOf
    <3>. QED
      BY <3>1
  <2>2. CASE p # t[1]
    <3>1. listed # 0 /\ listed' = listed /\ p \in job[listed].holders
      BY <1>3, <2>2
    <3>2. PICK u \in TasksOf(p) : Wanted(u)
      BY <3>1 DEF IInv, SharesAreUsed
    <3>3. /\ u[1] = p /\ task'[u] = task[u]
          /\ \A v \in Twins(u) : task'[v] = task[v]
      BY <1>5, <2>2, <3>2, TwinParts
    <3>4. Excused(p)' <=> Excused(p)
      BY DEF Excused
    <3>5. Twins(u)' = Twins(u)
      BY <1>5 DEF Twins, TasksOf
    <3>6. Wanted(u)'
      BY <3>1, <3>2, <3>3, <3>4, <3>5 DEF Wanted
    <3>. QED
      BY <3>2, <3>6
  <2>. QED
    BY <2>1, <2>2
<1>15. ASSUME NEW u \in Tasks, u # t, Shares(u)'
       PROVE  Shares(u) /\ task'[u] = task[u] /\ task[u].job \in Jobs
  <2>1. task'[u] = task[u]
    BY <1>5, <1>15
  <2>2. \A v \in Twins(u) : task[v].at \notin Gone
    BY <1>5, <1>6, <1>15 DEF Shares, Twins, TasksOf
  <2>3. Shares(u)
    BY <1>15, <2>1, <2>2 DEF Shares
  <2>. QED
    BY <2>1, <2>3 DEF IInv, SharesAreKept, Shares, InJob
<1>16. SharesAreKept'
  <2>1. \A u \in Tasks : task'[u].at \in InJob => task'[u].job \in Jobs'
    BY <1>3, <1>4, <1>5 DEF IInv, SharesAreKept
  <2>2. ASSUME NEW u \in Tasks, Shares(u)', task'[u].job = listed'
        PROVE  u[1] \in job'[listed'].holders
    <3>1. CASE u = t
      BY <1>3, <3>1
    <3>2. CASE u # t
      <4>1. Shares(u) /\ task[u].job = listed' /\ task[u].job \in Jobs
        BY <1>15, <2>2, <3>2
      <4>2. listed' = listed /\ listed # 0
        BY <1>3, <4>1
      <4>. QED
        BY <1>3, <4>1, <4>2 DEF IInv, SharesAreKept
    <3>. QED
      BY <3>1, <3>2
  <2>. QED
    BY <1>5, <2>1, <2>2 DEF SharesAreKept
<1>17. SharedDownloadSurvives'
  <2>1. ASSUME NEW u \in Tasks, Shares(u)' PROVE job'[task'[u].job].stop # "detach"
    <3>1. CASE u = t
      BY <1>4, <1>5, <1>11, <3>1
    <3>2. CASE u # t
      BY <1>3, <1>15, <2>1, <3>2, SurvivesShares DEF IInv
    <3>. QED
      BY <3>1, <3>2
  <2>. QED
    BY <1>5, <2>1 DEF SharedDownloadSurvives, Shares, Gone, Ended, Twins, TasksOf
<1>. QED
  BY <1>7, <1>8, <1>12, <1>13, <1>14, <1>16, <1>17 DEF IInv

LEMMA StartTaskStep ==
  ASSUME IInv, NEW t \in Tasks, StartTask(t)
  PROVE  IInv'
<1>1. task[t].at = "start" /\ task[t] \in Task
      /\ UNCHANGED <<row, held, switched, open, file, storage, waiting, cancel>>
  BY DEF StartTask, At, ledger, IInv, Shapes
<1>2. CASE listed = 0 /\ file = "ready"
  <2>1. PICK y \in Task : task' = [task EXCEPT ![t] = y] /\ y.at = "release"
    BY <1>2, MovedTask DEF StartTask, TaskSteps
  <2>. QED
    BY <1>1, <1>2, <2>1, AloneStep DEF StartTask, InJob, Gone, Ended, IInv, Shapes, HeldAwaits
<1>3. CASE ~(listed = 0 /\ file = "ready")
  BY <1>1, <1>3, JoinStep DEF StartTask
<1>. QED
  BY <1>2, <1>3

\* A prompt gives up its share: its task left, or the prompt is settled.
LEMMA DropStep ==
  ASSUME IInv, NEW h \in Prompts, ReleaseHolder(h), task' \in [Tasks -> Task], cancel' \in Cancel,
         UNCHANGED <<row, held, switched, open, file, storage, waiting>>,
         SavedFirst', SettledFirst',
         \A u \in Tasks : task'[u] = task[u] \/ (u[1] = h /\ task'[u].at \in {"done", "fail"}),
         \A u \in TasksOf(h) : Shares(u)' => row[h] # "awaiting",
         \A p \in Prompts : p # h /\ Excused(p) => Excused(p)'
  PROVE  IInv'
<1>1. /\ job' \in Seq(Job) /\ Jobs' = Jobs /\ listed' \in {0, listed}
      /\ listed' # 0 => /\ job'[listed'].holders = job[listed'].holders \ {h}
                        /\ job'[listed'].stop = job[listed'].stop
      /\ \A j \in Jobs : /\ job'[j].at = job[j].at
                         /\ job'[j].outcome = job[j].outcome
                         /\ job'[j].progress = job[j].progress
      /\ \A j \in Jobs : job'[j].stop = "detach" =>
             job[j].stop = "detach" \/ (j = listed /\ job[j].holders \subseteq {h})
  BY ReleaseEffect
<1>2. Shapes'
  BY <1>1 DEF IInv, Shapes, Tasks
<1>3. listed # 0 => listed \in Jobs
  BY DEF IInv, Shapes
<1>4. Tasks' = Tasks /\ \A u \in Tasks : u[1] # h => task'[u] = task[u] /\ Twins(u)' = Twins(u)
  BY DEF Tasks, Twins, TasksOf
<1>5. ListedRuns'
  BY <1>1, <1>3 DEF IInv, ListedRuns
<1>6. CompleteIsReady'
  BY <1>1 DEF IInv, CompleteIsReady, Tasks
<1>7. SharesAreUsed'
  <2>. SUFFICES ASSUME listed' # 0, NEW p \in job'[listed'].holders \ {Background}
                PROVE  \E u \in TasksOf(p) : Wanted(u)'
    BY <1>4 DEF SharesAreUsed, TasksOf
  <2>1. listed' = listed /\ listed # 0 /\ p \in job[listed].holders /\ p # h
    BY <1>1
  <2>2. p \in Prompts
    BY <1>3, <2>1, JobsTyped DEF IInv, Job, Holders
  <2>3. PICK u \in TasksOf(p) : Wanted(u)
    BY <2>1 DEF IInv, SharesAreUsed
  <2>4. /\ u[1] = p /\ task'[u] = task[u] /\ Twins(u)' = Twins(u)
        /\ \A v \in Twins(u) : task'[v] = task[v]
    BY <1>4, <2>1, <2>3, TwinParts
  <2>5. Excused(p) => Excused(p)'
    BY <2>1, <2>2
  <2>6. Wanted(u)'
    BY <2>1, <2>3, <2>4, <2>5 DEF Wanted
  <2>. QED
    BY <2>3, <2>6
<1>8. ASSUME NEW u \in Tasks, Shares(u)'
      PROVE  u[1] # h /\ Shares(u) /\ task'[u] = task[u] /\ task[u].job \in Jobs
  <2>1. row[u[1]] = "awaiting" /\ u[1] # h
    BY <1>8 DEF Shares, TasksOf
  <2>2. /\ task'[u] = task[u] /\ Twins(u)' = Twins(u)
        /\ \A v \in Twins(u) : task'[v] = task[v]
    BY <1>4, <2>1 DEF Twins, TasksOf
  <2>3. Shares(u)
    BY <1>8, <2>1, <2>2 DEF Shares
  <2>. QED
    BY <2>1, <2>2, <2>3 DEF IInv, SharesAreKept, Shares, InJob
<1>9. SharesAreKept'
  <2>1. \A u \in Tasks : task'[u].at \in InJob => task'[u].job \in Jobs
    BY DEF IInv, SharesAreKept, InJob
  <2>2. ASSUME NEW u \in Tasks, Shares(u)', task'[u].job = listed'
        PROVE  u[1] \in job'[listed'].holders
    <3>1. u[1] # h /\ Shares(u) /\ task'[u] = task[u] /\ task[u].job \in Jobs
      BY <1>8, <2>2
    <3>2. listed' # 0 /\ listed' = listed
      BY <1>1, <2>2, <3>1 DEF Jobs
    <3>. QED
      BY <1>1, <2>2, <3>1, <3>2 DEF IInv, SharesAreKept
  <2>. QED
    BY <1>1, <1>4, <2>1, <2>2 DEF SharesAreKept
<1>10. SharedDownloadSurvives'
  <2>1. ASSUME NEW u \in Tasks, Shares(u)' PROVE job'[task'[u].job].stop # "detach"
    <3>1. u[1] # h /\ Shares(u) /\ task'[u] = task[u] /\ task[u].job \in Jobs
      BY <1>8, <2>1
    <3>2. job[task[u].job].stop # "detach"
      BY <3>1, SurvivesShares DEF IInv
    <3>3. task[u].job = listed => u[1] \in job[listed].holders
      BY <3>1 DEF IInv, SharesAreKept
    <3>. QED
      BY <1>1, <3>1, <3>2, <3>3
  <2>. QED
    BY <1>4, <2>1 DEF SharedDownloadSurvives, Shares, Gone, Ended, Twins, TasksOf
<1>. QED
  BY <1>2, <1>5, <1>6, <1>7, <1>9, <1>10 DEF IInv, HeldAwaits

LEMMA LeaveStep ==
  ASSUME IInv, NEW t \in Tasks, Leave(t)
  PROVE  IInv'
<1>1. task[t].at = "leaving" /\ t[1] \in Prompts /\ row[t[1]] # "none"
  BY Woken DEF Leave, At
<1>2. PICK h \in Prompts : h = t[1]
  BY <1>1
<1>3. PICK s \in {"done", "fail"} : Moved(t, s)
  BY DEF Leave
<1>4. PICK y \in Task : task' = [task EXCEPT ![t] = y] /\ y.at = s
  BY <1>3, MovedTask DEF TaskSteps
<1>5. task' \in [Tasks -> Task] /\ task'[t] = y /\ \A u \in Tasks : u # t => task'[u] = task[u]
  BY <1>4, OneTask DEF IInv
<1>6. UNCHANGED <<row, held, switched, open, file, storage, waiting>> /\ cancel' = cancel
  BY DEF Leave, ledger
<1>7. ReleaseHolder(h)
  BY <1>2 DEF Leave
<1>8. SavedFirst' /\ SettledFirst'
  BY <1>1, <1>4, <1>5, <1>6, TaskParts DEF IInv, SavedFirst, SettledFirst, At, Tasks
<1>9. \A u \in TasksOf(h) : Shares(u)' => row[h] # "awaiting"
  <2>. SUFFICES ASSUME NEW u \in TasksOf(h), Shares(u)' PROVE FALSE
    OBVIOUS
  <2>1. task'[u].at \in {"check", "hold", "follow"} /\ \A v \in Twins(u)' : task'[v].at \notin Gone
    BY DEF Shares
  <2>2. u # t
    BY <1>4, <1>5, <2>1
  <2>3. t \in Twins(u)'
    BY <1>2, <2>2, TwinParts DEF Twins, TasksOf, Tasks
  <2>. QED
    BY <1>4, <1>5, <2>1, <2>3 DEF Gone, Ended
<1>10. cancel' \in Cancel
  BY <1>6 DEF IInv, Shapes
<1>11. \A u \in Tasks : task'[u] = task[u] \/ (u[1] = h /\ task'[u].at \in {"done", "fail"})
  BY <1>2, <1>4, <1>5
<1>12. \A p \in Prompts : p # h /\ Excused(p) => Excused(p)'
  BY <1>6 DEF Excused
<1>. QED
  BY <1>5, <1>6, <1>7, <1>8, <1>9, <1>10, <1>11, <1>12, DropStep

LEMMA CancelDropStep ==
  ASSUME IInv, CancelDrop
  PROVE  IInv'
<1>1. PICK h : h = cancel.prompt
  OBVIOUS
<1>2. h \in Prompts /\ row[h] # "none" /\ row[h] # "awaiting" /\ cancel \in Cancel
  BY <1>1 DEF CancelDrop, IInv, SavedFirst, SettledFirst, Shapes
<1>3. UNCHANGED <<row, held, switched, open, file, storage, waiting>> /\ task' = task
  BY DEF CancelDrop, ledger
<1>4. cancel' \in Cancel /\ cancel'.at = "next" /\ cancel'.todo = cancel.todo
  BY <1>2 DEF CancelDrop, Cancel, Holders
<1>5. ReleaseHolder(h)
  BY <1>1 DEF CancelDrop
<1>6. SavedFirst' /\ SettledFirst'
  BY <1>3, <1>4 DEF IInv, SavedFirst, SettledFirst, At, Tasks
<1>7. task' \in [Tasks -> Task]
  BY <1>3 DEF IInv, Shapes
<1>8. \A u \in Tasks : task'[u] = task[u] \/ (u[1] = h /\ task'[u].at \in {"done", "fail"})
  BY <1>3
<1>9. \A u \in TasksOf(h) : Shares(u)' => row[h] # "awaiting"
  BY <1>2
<1>10. \A p \in Prompts : p # h /\ Excused(p) => Excused(p)'
  BY <1>1, <1>3 DEF Excused
<1>. QED
  BY <1>2, <1>3, <1>4, <1>5, <1>6, <1>7, <1>8, <1>9, <1>10, DropStep

-----------------------------------------------------------------------------
(* Steps of the jobs.                                                       *)

\* The prompts among the holders of the job in the map are the same, or it is
\* a new job that no prompt holds; a stopped one is in nobody's way.
LEMMA OneJobStep ==
  ASSUME IInv, Shapes', ListedRuns', CompleteIsReady',
         UNCHANGED <<row, held, switched, open, waiting, task, cancel>>,
         Jobs \subseteq Jobs',
         listed' # 0 => \/ /\ listed' = listed
                           /\ job'[listed'].holders \ {Background} = job[listed].holders \ {Background}
                        \/ listed' \notin Jobs /\ job'[listed'].holders \subseteq {Background},
         \A j \in Jobs : job'[j].stop = "detach" => job[j].stop = "detach"
  PROVE  IInv'
<1>1. SavedFirst' /\ SettledFirst' /\ HeldAwaits'
  BY DEF IInv, SavedFirst, SettledFirst, HeldAwaits, At, Tasks
<1>2. Tasks' = Tasks /\ \A u \in Tasks : (Shares(u)' <=> Shares(u)) /\ Twins(u)' = Twins(u)
  BY DEF Shares, Twins, TasksOf, Tasks
<1>3. SharesAreUsed'
  <2>. SUFFICES ASSUME listed' # 0, NEW p \in job'[listed'].holders \ {Background}
                PROVE  \E u \in TasksOf(p) : Wanted(u)'
    BY <1>2 DEF SharesAreUsed, TasksOf
  <2>1. listed' = listed /\ listed # 0 /\ p \in job[listed].holders
    OBVIOUS
  <2>2. PICK u \in TasksOf(p) : Wanted(u)
    BY <2>1 DEF IInv, SharesAreUsed
  <2>3. Twins(u)' = Twins(u)
    BY <1>2, <2>2, TwinParts
  <2>4. Wanted(u)'
    BY <2>1, <2>2, <2>3 DEF Wanted, Excused
  <2>. QED
    BY <2>2, <2>4
<1>4. ASSUME NEW u \in Tasks, Shares(u)
      PROVE  /\ task[u].job \in Jobs /\ job[task[u].job].stop # "detach"
             /\ task[u].job = listed => u[1] \in job[listed].holders
  <2>1. task[u].job \in Jobs /\ (task[u].job = listed => u[1] \in job[listed].holders)
    BY <1>4 DEF IInv, SharesAreKept, Shares, InJob
  <2>. QED
    BY <1>4, <2>1, SurvivesShares DEF IInv
<1>5. SharesAreKept'
  <2>1. \A u \in Tasks : task'[u].at \in InJob => task'[u].job \in Jobs'
    BY DEF IInv, SharesAreKept
  <2>2. ASSUME NEW u \in Tasks, Shares(u), task[u].job = listed'
        PROVE  u[1] \in job'[listed'].holders
    <3>1. task[u].job \in Jobs /\ listed' \in Jobs /\ u[1] # Background
      BY <1>4, <2>2, TaskParts, Constants
    <3>2. listed' # 0
      BY <3>1 DEF Jobs
    <3>. QED
      BY <1>4, <2>2, <3>1, <3>2
  <2>. QED
    BY <1>2, <2>1, <2>2 DEF SharesAreKept
<1>6. SharedDownloadSurvives'
  <2>1. \A u \in Tasks : Shares(u)' => job'[task'[u].job].stop # "detach"
    BY <1>2, <1>4
  <2>. QED
    BY <1>2, <2>1 DEF SharedDownloadSurvives, Shares, Gone, Ended, Twins, TasksOf
<1>. QED
  BY <1>1, <1>3, <1>5, <1>6 DEF IInv

\* One job moves on; it stays in the map unless it leaves it.
LEMMA MovedJobStep ==
  ASSUME IInv, NEW j \in Jobs, NEW y \in Job, job' = [job EXCEPT ![j] = y],
         y.holders = job[j].holders, y.stop = job[j].stop \/ y.stop = "cancel",
         y.at # "announced" => y.progress = "downloading",
         UNCHANGED <<row, held, switched, open, waiting, task, cancel>>,
         listed' \in {0, listed}, storage' \in {0, j, storage}, file' \in {"none", "partial", "ready"},
         file = "ready" => file' = "ready",
         y.outcome = "complete" \/ y.progress = "complete" => file' = "ready",
         listed' = j => y.stop = "none" /\ y.at \in {"queued", "running", "ended"}
  PROVE  IInv'
<1>1. /\ job' \in Seq(Job) /\ Jobs' = Jobs /\ job'[j] = y
      /\ \A i \in Jobs : i # j => job'[i] = job[i]
  BY OneJob DEF IInv
<1>2. listed # 0 => listed \in Jobs
  BY DEF IInv, Shapes
<1>3. Shapes'
  BY <1>1, <1>2 DEF IInv, Shapes, Tasks
<1>4. ListedRuns'
  <2>1. listed' # 0 => job'[listed'].stop = "none" /\ job'[listed'].at \in {"queued", "running", "ended"}
    BY <1>1, <1>2 DEF IInv, ListedRuns
  <2>2. \A i \in Jobs : job'[i].at # "announced" => job'[i].progress = "downloading"
    BY <1>1 DEF IInv, ListedRuns
  <2>. QED
    BY <1>1, <2>1, <2>2 DEF ListedRuns
<1>5. CompleteIsReady'
  BY <1>1 DEF IInv, CompleteIsReady, Tasks
<1>6. Jobs \subseteq Jobs'
  BY <1>1
<1>7. listed' # 0 => \/ /\ listed' = listed
                        /\ job'[listed'].holders \ {Background} = job[listed].holders \ {Background}
                     \/ listed' \notin Jobs /\ job'[listed'].holders \subseteq {Background}
  BY <1>1, <1>2
<1>8. \A i \in Jobs : job'[i].stop = "detach" => job[i].stop = "detach"
  BY <1>1
<1>. QED
  BY <1>3, <1>4, <1>5, <1>6, <1>7, <1>8, OneJobStep

LEMMA StartBackgroundStep ==
  ASSUME IInv, StartBackground
  PROVE  IInv'
<1>1. Background \in Holders /\ Start(Background)
      /\ UNCHANGED <<row, held, switched, open, file, storage, waiting, task, cancel>>
  BY DEF StartBackground, Holders, ledger
<1>2. /\ job' \in Seq(Job) /\ Jobs \subseteq Jobs' /\ listed' \in Jobs' /\ listed' # 0
      /\ listed # 0 => /\ listed' = listed
                       /\ job'[listed].holders = job[listed].holders \cup {Background}
      /\ listed = 0 => listed' \notin Jobs /\ job'[listed'].holders = {Background}
      /\ \A j \in Jobs : /\ job'[j].at = job[j].at /\ job'[j].stop = job[j].stop
                         /\ job'[j].outcome = job[j].outcome
                         /\ job'[j].progress = job[j].progress
      /\ \A j \in Jobs' \ Jobs : j = listed' /\ job'[j] = NewJob(Background)
  BY <1>1, StartEffect
<1>3. Shapes'
  BY <1>1, <1>2 DEF IInv, Shapes, Tasks
<1>4. \A j \in Jobs' \ Jobs : /\ job'[j].at = "queued" /\ job'[j].stop = "none"
                              /\ job'[j].outcome = "none" /\ job'[j].progress = "downloading"
  BY <1>2 DEF NewJob
<1>5. ListedRuns'
  <2>1. job'[listed'].stop = "none" /\ job'[listed'].at \in {"queued", "running", "ended"}
    BY <1>2, <1>4 DEF IInv, ListedRuns, Shapes
  <2>2. \A j \in Jobs' : job'[j].at # "announced" => job'[j].progress = "downloading"
    BY <1>2, <1>4 DEF IInv, ListedRuns
  <2>. QED
    BY <2>1, <2>2 DEF ListedRuns
<1>6. CompleteIsReady'
  BY <1>1, <1>2, <1>4 DEF IInv, CompleteIsReady, Tasks
<1>. QED
  BY <1>1, <1>2, <1>3, <1>5, <1>6, OneJobStep

LEMMA CancelDownloadStep ==
  ASSUME IInv, CancelDownload
  PROVE  IInv'
<1>1. UNCHANGED <<row, held, switched, open, storage, waiting, task, cancel>>
  BY DEF CancelDownload, ledger
<1>2. CASE listed # 0
  <2>1. listed \in Jobs /\ job[listed] \in Job
    BY <1>2, JobsTyped DEF IInv, Shapes
  <2>2. PICK y : y = [job[listed] EXCEPT !.stop = "cancel"]
    OBVIOUS
  <2>3. /\ y \in Job /\ y.stop = "cancel" /\ y.holders = job[listed].holders
        /\ y.at = job[listed].at /\ y.outcome = job[listed].outcome
        /\ y.progress = job[listed].progress
    BY <2>1, <2>2 DEF Job
  <2>4. job' = [job EXCEPT ![listed] = y] /\ listed' = 0 /\ file' = file
    BY <1>2, <2>2 DEF CancelDownload
  <2>5. y.at # "announced" => y.progress = "downloading"
    BY <2>1, <2>3 DEF IInv, ListedRuns
  <2>6. y.outcome = "complete" \/ y.progress = "complete" => file' = "ready"
    BY <2>1, <2>3, <2>4 DEF IInv, CompleteIsReady
  <2>7. file \in {"none", "partial", "ready"} /\ 0 \notin Jobs
    BY DEF IInv, Shapes, Jobs
  <2>. QED
    BY <1>1, <2>1, <2>3, <2>4, <2>5, <2>6, <2>7, MovedJobStep
<1>3. CASE listed = 0
  <2>1. file = "partial" /\ file' = "none" /\ job' = job /\ listed' = 0
    BY <1>3 DEF CancelDownload
  <2>2. Shapes' /\ ListedRuns' /\ CompleteIsReady' /\ Jobs' = Jobs
    BY <1>1, <1>3, <2>1 DEF IInv, Shapes, ListedRuns, CompleteIsReady, Jobs, Tasks
  <2>. QED
    BY <1>1, <2>1, <2>2, OneJobStep
<1>. QED
  BY <1>2, <1>3

LEMMA RunJobStep ==
  ASSUME IInv, NEW j \in Jobs, RunJob(j)
  PROVE  IInv'
<1>1. job[j].at = "queued" /\ job[j] \in Job
  BY JobsTyped DEF RunJob, IInv
<1>2. PICK y : y = [job[j] EXCEPT !.at = "running"]
  OBVIOUS
<1>3. /\ y \in Job /\ y.at = "running" /\ y.holders = job[j].holders /\ y.stop = job[j].stop
      /\ y.outcome = job[j].outcome /\ y.progress = job[j].progress
  BY <1>1, <1>2 DEF Job
<1>4. job' = [job EXCEPT ![j] = y]
      /\ UNCHANGED <<row, held, switched, open, listed, waiting, task, cancel>>
      /\ storage' = j /\ file' \in {"none", "partial", "ready"} /\ (file = "ready" => file' = "ready")
  BY <1>2 DEF RunJob, ledger
<1>5. y.progress = "downloading" /\ (listed = j => y.stop = "none")
  BY <1>1, <1>3 DEF IInv, ListedRuns, Jobs
<1>6. y.outcome = "complete" => file' = "ready"
  BY <1>3, <1>4 DEF IInv, CompleteIsReady
<1>. QED
  BY <1>3, <1>4, <1>5, <1>6, MovedJobStep

LEMMA EndJobStep ==
  ASSUME IInv, NEW j \in Jobs, NEW end \in {"done", "failed", "stopped"}, EndJob(j, end)
  PROVE  IInv'
<1>1. job[j].at = "running" /\ job[j] \in Job /\ file \in {"none", "partial", "ready"}
  BY JobsTyped DEF EndJob, IInv, Shapes
<1>2. PICK y : y = [job[j] EXCEPT !.at = "ended", !.outcome = Outcome(j, end)]
  OBVIOUS
<1>3. /\ y \in Job /\ y.at = "ended" /\ y.holders = job[j].holders /\ y.stop = job[j].stop
      /\ y.outcome = Outcome(j, end) /\ y.progress = job[j].progress
  BY <1>1, <1>2 DEF Job, Outcome
<1>4. file' \in {"none", "partial", "ready"} /\ (file = "ready" => file' = "ready")
      /\ (end = "done" => file' = "ready")
  BY <1>1 DEF EndJob
<1>5. job' = [job EXCEPT ![j] = y]
      /\ UNCHANGED <<row, held, switched, open, listed, storage, waiting, task, cancel>>
  BY <1>2 DEF EndJob, ledger
<1>6. y.progress = "downloading" /\ (listed = j => y.stop = "none")
  BY <1>1, <1>3 DEF IInv, ListedRuns, Jobs
<1>7. y.outcome = "complete" => file' = "ready"
  BY <1>3, <1>4 DEF Outcome
<1>. QED
  BY <1>3, <1>4, <1>5, <1>6, <1>7, MovedJobStep

LEMMA FinishJobStep ==
  ASSUME IInv, NEW j \in Jobs, FinishJob(j)
  PROVE  IInv'
<1>1. job[j].at = "ended" /\ job[j] \in Job /\ j # 0
  BY JobsTyped DEF FinishJob, IInv, Jobs
<1>2. PICK y : y = [job[j] EXCEPT !.at = "finished"]
  OBVIOUS
<1>3. /\ y \in Job /\ y.at = "finished" /\ y.holders = job[j].holders /\ y.stop = job[j].stop
      /\ y.outcome = job[j].outcome /\ y.progress = job[j].progress
  BY <1>1, <1>2 DEF Job
<1>4. job' = [job EXCEPT ![j] = y]
      /\ UNCHANGED <<row, held, switched, open, file, storage, waiting, task, cancel>>
      /\ listed' \in {0, listed} /\ listed' # j
  BY <1>1, <1>2 DEF FinishJob, ledger
<1>5. y.progress = "downloading" /\ file \in {"none", "partial", "ready"}
  BY <1>1, <1>3 DEF IInv, ListedRuns, Jobs, Shapes
<1>6. y.outcome = "complete" => file' = "ready"
  BY <1>3, <1>4 DEF IInv, CompleteIsReady
<1>. QED
  BY <1>3, <1>4, <1>5, <1>6, MovedJobStep

LEMMA AnnounceJobStep ==
  ASSUME IInv, NEW j \in Jobs, AnnounceJob(j)
  PROVE  IInv'
<1>1. job[j].at = "finished" /\ job[j] \in Job /\ j # 0
  BY JobsTyped DEF AnnounceJob, IInv, Jobs
<1>2. PICK y : y = [job[j] EXCEPT !.at = "announced", !.progress = Announcement(j)]
  OBVIOUS
<1>3. /\ y \in Job /\ y.at = "announced" /\ y.holders = job[j].holders /\ y.stop = job[j].stop
      /\ y.outcome = job[j].outcome /\ y.progress = job[j].outcome
  BY <1>1, <1>2 DEF Job, Announcement
<1>4. job' = [job EXCEPT ![j] = y]
      /\ UNCHANGED <<row, held, switched, open, file, listed, waiting, task, cancel>> /\ storage' = 0
  BY <1>2 DEF AnnounceJob, ledger
<1>5. listed # j /\ file \in {"none", "partial", "ready"}
  BY <1>1 DEF IInv, ListedRuns, Shapes
<1>6. y.outcome = "complete" => file' = "ready"
  BY <1>3, <1>4 DEF IInv, CompleteIsReady
<1>. QED
  BY <1>3, <1>4, <1>5, <1>6, MovedJobStep

-----------------------------------------------------------------------------
(* Restart, and the theorems.                                               *)

LEMMA InitIInv == Init => IInv
<1>. SUFFICES ASSUME Init PROVE IInv
  OBVIOUS
<1>1. NoTask \in Task /\ NoCancel \in Cancel /\ NoCancel.at = "none" /\ NoCancel.todo = {}
  BY DEF NoTask, NoCancel, Task, TaskSteps, Cancel, Holders
<1>2. \A t \in Tasks : task[t].at = "none"
  BY DEF Init, NoTask
<1>3. job \in Seq(Job) /\ Jobs = {}
  BY DEF Init, Jobs
<1>4. Shapes
  BY <1>1, <1>3 DEF Init, Shapes
<1>. QED
  BY <1>1, <1>2, <1>3, <1>4
     DEF Init, IInv, SavedFirst, SettledFirst, ListedRuns, SharesAreUsed, SharesAreKept,
         CompleteIsReady, SharedDownloadSurvives, HeldAwaits, At, Shares, InJob

LEMMA RestartStep ==
  ASSUME IInv, Restart
  PROVE  IInv'
<1>1. NoTask \in Task /\ NoCancel \in Cancel /\ NoCancel.at = "none" /\ NoCancel.todo = {}
  BY DEF NoTask, NoCancel, Task, TaskSteps, Cancel, Holders
<1>2. task' \in [Tasks -> Task] /\ \A t \in Tasks : task'[t].at = "none"
  BY <1>1 DEF Restart, NoTask
<1>3. job' = <<>> /\ job' \in Seq(Job) /\ Jobs' = {}
  BY DEF Restart, Jobs
<1>4. waiting' = {} /\ listed' = 0 /\ storage' = 0 /\ cancel' = NoCancel
      /\ open' = TRUE /\ UNCHANGED <<row, held, switched, file>>
  BY DEF Restart, ledger
<1>5. Shapes'
  BY <1>1, <1>2, <1>3, <1>4 DEF IInv, Shapes, Tasks
<1>6. SavedFirst' /\ SettledFirst' /\ HeldAwaits'
  BY <1>1, <1>2, <1>4 DEF IInv, SavedFirst, SettledFirst, HeldAwaits, At, Tasks
<1>7. ListedRuns' /\ SharesAreUsed' /\ SharesAreKept' /\ CompleteIsReady' /\ SharedDownloadSurvives'
  BY <1>2, <1>3, <1>4
     DEF ListedRuns, SharesAreUsed, SharesAreKept, CompleteIsReady, SharedDownloadSurvives, Tasks,
         Shares, InJob
<1>. QED
  BY <1>5, <1>6, <1>7 DEF IInv

LEMMA StutterStep ==
  ASSUME IInv, UNCHANGED vars
  PROVE  IInv'
BY DEF vars, IInv, Shapes, SavedFirst, SettledFirst, ListedRuns, SharesAreUsed, SharesAreKept,
       CompleteIsReady, SharedDownloadSurvives, HeldAwaits, Jobs, Tasks, At, Twins, TasksOf,
       Wanted, Excused, Shares

LEMMA TasksKeepIInv ==
  ASSUME IInv, NEW t \in Tasks, TaskStep(t)
  PROVE  IInv'
BY StartTaskStep, StartFailsStep, CheckStep, LeaveStep, HoldStep, HoldFailsStep, FollowStep,
   TakeWaiterStep, ReleaseStep, FailStep DEF TaskStep

LEMMA NextKeepsIInv ==
  ASSUME IInv, Next
  PROVE  IInv'
<1>1. ASSUME NEW p \in Prompts, Commit(p) \/ CancelQueued(p) PROVE IInv'
  BY <1>1, CommitStep, CancelQueuedStep
<1>2. ASSUME NEW t \in Tasks, Wake(t) \/ TaskStep(t) PROVE IInv'
  BY <1>2, WakeStep, TasksKeepIInv
<1>3. ASSUME NEW j \in Jobs, JobStep(j) PROVE IInv'
  BY <1>3, RunJobStep, FinishJobStep, AnnounceJobStep, EndJobStep DEF JobStep
<1>4. CASE BeginCancel \/ CancelStep
  BY <1>4, BeginCancelStep, RestoreWaitersStep, CancelIdleStep, CancelSettleStep, CancelLeaveStep,
     CancelDropStep, CancelNextStep DEF CancelStep
<1>5. CASE Switch \/ CloseIngress \/ StartBackground \/ CancelDownload \/ Restart
  BY <1>5, SwitchStep, CloseIngressStep, StartBackgroundStep, CancelDownloadStep, RestartStep
<1>. QED
  BY <1>1, <1>2, <1>3, <1>4, <1>5 DEF Next

LEMMA IInvHolds == Spec => []IInv
<1>1. IInv /\ [Next]_vars => IInv'
  BY NextKeepsIInv, StutterStep
<1>. QED
  BY InitIInv, <1>1, PTL DEF Spec

LEMMA IInvIsAdmission == IInv => AdmissionInvariant
<1>. SUFFICES ASSUME IInv PROVE AdmissionInvariant
  OBVIOUS
<1>1. TypeOK
  BY DEF IInv, Shapes, TypeOK, Task, TaskSteps, Cancel
<1>2. NoOrphanDownload
  <2>. SUFFICES ASSUME listed # 0, NEW p \in job[listed].holders \ {Background}
                PROVE  \/ p \in waiting
                       \/ cancel.at \in {"leave", "drop"} /\ cancel.prompt = p
                       \/ \E t \in TasksOf(p) :
                             \/ At(t, "check") \/ At(t, "leaving")
                             \/ /\ task[t].at \in {"hold", "follow"} /\ task[t].job = listed
                                /\ \E u \in Twins(t) : task[u].at \in {"releasing", "failing", "done"}
    BY DEF NoOrphanDownload
  <2>1. PICK t \in TasksOf(p) : Wanted(t)
    BY DEF IInv, SharesAreUsed
  <2>2. t[1] = p
    BY <2>1, TwinParts
  <2>. QED
    BY <2>1, <2>2 DEF Wanted, Excused, InJob, Ended, At
<1>. QED
  BY <1>1, <1>2 DEF IInv, AdmissionInvariant

\* Whatever the tasks, the clients and the downloads do in between: a prompt
\* among the holders of the download in the map waits, is about to leave, or
\* had its waiter taken by another of its tasks; no download is stopped by
\* one prompt under another; a prompt is shown as held only while it awaits.
THEOREM AdmissionIsSound == Spec => []AdmissionInvariant
BY IInvHolds, IInvIsAdmission, PTL

\* A prompt that awaits is handed to the dispatchers only by a task that saw
\* its download complete, and a model file that was verified stays.
THEOREM OnlyReadyReleases == Spec => ReleasedWhenReady
<1>1. ASSUME IInv, [Next]_vars, NEW p \in Prompts, row[p] = "awaiting", row'[p] = "pending"
      PROVE  file = "ready"
  <2>1. CASE UNCHANGED vars
    BY <1>1, <2>1 DEF vars
  <2>2. CASE row' = row
    BY <1>1, <2>2
  <2>3. ASSUME NEW t \in Tasks, Release(t) PROVE file = "ready"
    BY <1>1, <2>3 DEF Release, At, IInv, CompleteIsReady
  <2>4. ASSUME NEW q \in Prompts, NEW phase \in {"awaiting", "cancelled", "failed"},
               row' = [row EXCEPT ![q] = phase]
        PROVE  FALSE
    BY <1>1, <2>4 DEF IInv, Shapes
  <2>5. ASSUME NEW q \in Prompts, NEW phase \in {"cancelled", "failed"}, SettleRow(q, phase)
        PROVE  FALSE
    BY <1>1, <2>5 DEF SettleRow, IInv, Shapes
  <2>6. ASSUME NEW q \in Prompts, Commit(q) \/ CancelQueued(q) PROVE file = "ready"
    BY <2>4, <2>6 DEF Commit, CancelQueued
  <2>7. ASSUME NEW t \in Tasks, Fail(t) PROVE file = "ready"
    BY <2>5, <2>7, TaskParts DEF Fail
  <2>8. CASE CancelSettle
    <3>1. cancel.prompt \in Prompts
      BY <1>1, <2>8 DEF CancelSettle, IInv, SavedFirst
    <3>. QED
      BY <2>5, <2>8, <3>1 DEF CancelSettle
  <2>9. ASSUME NEW t \in Tasks, Wake(t) \/ TaskStep(t) PROVE file = "ready"
    BY <2>2, <2>3, <2>7, <2>9
       DEF Wake, TaskStep, StartTask, StartFails, Check, Leave, Hold, HoldFails, Follow,
           TakeWaiter, ledger
  <2>10. ASSUME NEW j \in Jobs, JobStep(j) PROVE file = "ready"
    BY <2>2, <2>10 DEF JobStep, RunJob, EndJob, FinishJob, AnnounceJob, ledger
  <2>11. CASE BeginCancel \/ CancelStep
    BY <2>2, <2>8, <2>11
       DEF BeginCancel, CancelStep, RestoreWaiters, CancelIdle, CancelLeave, CancelDrop,
           CancelNext, ledger
  <2>12. CASE Switch \/ CloseIngress \/ StartBackground \/ CancelDownload \/ Restart
    BY <2>2, <2>12 DEF Switch, CloseIngress, StartBackground, CancelDownload, Restart, ledger
  <2>. QED
    BY <1>1, <2>1, <2>6, <2>9, <2>10, <2>11, <2>12 DEF Next
<1>2. IInv /\ [Next]_vars
      => [\A p \in Prompts : row[p] = "awaiting" /\ row'[p] = "pending" => file = "ready"]_vars
  BY <1>1
<1>. QED
  BY IInvHolds, <1>2, PTL DEF ReleasedWhenReady, Spec

=============================================================================
