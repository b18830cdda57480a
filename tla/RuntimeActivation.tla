-------------------------- MODULE RuntimeActivation --------------------------
(***************************************************************************)
(* The activation of a staged runtime: maintenance processes that take the  *)
(* owner lock of a data directory and then the install lock of the runtime  *)
(* store, publish a generation, select it and refresh the update helper,    *)
(* tracked by an operation record or untracked, beside the daemons that own *)
(* the data directories. Any process may die between two steps, and any     *)
(* write may fail.                                                          *)
(*                                                                         *)
(* A generation of a tracked activation is named for its operation. Paths,  *)
(* digests and the check of the bootstrap against them are left out: a      *)
(* bootstrap that does not match ends a call before it changes anything.    *)
(***************************************************************************)
EXTENDS Naturals, FiniteSets

CONSTANTS
    Dirs,         \* data directories, each with one owner at a time
    Processes,    \* maintenance processes
    Operations,   \* ids of tracked activations
    Fresh,        \* names of untracked generations
    Release,      \* the version and the tree of each generation
    Scope,        \* the data directory and the epoch of each operation
    Untracked,    \* the epochs an untracked call may expect, 0 for none
    MaxEpoch,     \* bound: the last host epoch
    MaxFaults,    \* bound: deaths and failed writes
    NoGeneration

Generations == Operations \cup Fresh

ASSUME RuntimeActivationAssumption ==
    /\ Operations \cap Fresh = {} /\ NoGeneration \notin Generations
    /\ Release \in [Generations -> [version : Nat, tree : Nat]]
    /\ MaxEpoch \in Nat \ {0} /\ MaxFaults \in Nat
    /\ Scope \in [Operations -> [data : Dirs, epoch : 1..MaxEpoch]]
    /\ Untracked \subseteq 0..MaxEpoch
    /\ Processes \cap {"free", "starting", "daemon"} = {}

VARIABLES
    host,       \* host_state of each data directory
    owner,      \* who holds gentd.lock of each data directory
    store,      \* who holds .install.lock
    published,  \* generations under releases/
    selected,   \* the current pointer
    helper,     \* the generation whose update helper is installed
    operation,  \* the record of each operation
    call,       \* what each process is doing
    faults

vars == <<host, owner, store, published, selected, helper, operation, call, faults>>
files == <<published, selected, helper, operation>>

Idle == [step |-> "idle"]

Init ==
    /\ host = [d \in Dirs |-> [epoch |-> 1, mode |-> "open"]]
    /\ owner = [d \in Dirs |-> "free"]
    /\ store = "free"
    /\ published = {} /\ selected = NoGeneration /\ helper = NoGeneration
    /\ operation = [o \in Operations |-> "none"]
    /\ call = [p \in Processes |-> Idle]
    /\ faults = 0

(***************************************************************************)
(* The owner of a data directory                                            *)
(***************************************************************************)
(* A daemon starts, alone, and fences the epoch it finds: it closes it and  *)
(* opens the next one.                                                      *)
StartDaemon(d) ==
    /\ owner[d] = "free" /\ host[d].epoch < MaxEpoch
    /\ owner' = [owner EXCEPT ![d] = "starting"]
    /\ host' = [host EXCEPT ![d].mode = "closed"]
    /\ UNCHANGED <<store, files, call, faults>>

OpenDaemon(d) ==
    /\ owner[d] = "starting"
    /\ owner' = [owner EXCEPT ![d] = "daemon"]
    /\ host' = [host EXCEPT ![d] = [epoch |-> @.epoch + 1, mode |-> "open"]]
    /\ UNCHANGED <<store, files, call, faults>>

QuiesceDaemon(d) ==
    /\ owner[d] = "daemon" /\ host[d].mode = "open"
    /\ host' = [host EXCEPT ![d].mode = "closed"]
    /\ UNCHANGED <<owner, store, files, call, faults>>

(* It exits, quiesced or killed.                                            *)
StopDaemon(d) ==
    /\ owner[d] \in {"starting", "daemon"}
    /\ owner' = [owner EXCEPT ![d] = "free"]
    /\ UNCHANGED <<host, store, files, call, faults>>

(***************************************************************************)
(* The lease of an activation                                               *)
(***************************************************************************)
Tracked(o) == [kind |-> "tracked", generation |-> o, data |-> Scope[o].data,
               epoch |-> Scope[o].epoch, step |-> "host"]

Adoption(o) == [Tracked(o) EXCEPT !.kind = "adopt"]

Status(o) == [Tracked(o) EXCEPT !.kind = "status", !.epoch = 0]

UntrackedCall(g, d, epoch) ==
    [kind |-> "untracked", generation |-> g, data |-> d, epoch |-> epoch, step |-> "host"]

Unused(g) ==
    g \notin published /\ \A q \in Processes : call[q] # Idle => call[q].generation # g

Requests ==
    {Tracked(o) : o \in Operations}
    \cup {Adoption(o) : o \in {x \in Operations : operation[x] \notin {"none", "torn"}}}
    \cup {Status(o) : o \in {x \in Operations : operation[x] \notin {"none", "torn"}}}
    \cup {UntrackedCall(g, d, e) : g \in {x \in Fresh : Unused(x)}, d \in Dirs, e \in Untracked}

Begin(p, request) ==
    /\ call[p] = Idle
    /\ call' = [call EXCEPT ![p] = request]
    /\ UNCHANGED <<host, owner, store, files, faults>>

At(p, step) == call[p].step = step
GoTo(p, step) == call' = [call EXCEPT ![p].step = step]

(* Mutant of Leave: only the install lock is given back.               *)
LeaveStoreOnly(p) ==
    /\ call' = [call EXCEPT ![p] = Idle]
    /\ store' = IF store = p THEN "free" ELSE store
    /\ owner' = owner

(* The call returns, or the process is gone: both locks are free again.     *)
Leave(p) ==
    /\ call' = [call EXCEPT ![p] = Idle]
    /\ store' = IF store = p THEN "free" ELSE store
    /\ owner' = [d \in Dirs |-> IF owner[d] = p THEN "free" ELSE owner[d]]

TakeHost(p) ==
    /\ At(p, "host")
    /\ IF owner[call[p].data] = "free"
       THEN owner' = [owner EXCEPT ![call[p].data] = p] /\ GoTo(p, "epoch") /\ store' = store
       ELSE Leave(p)
    /\ UNCHANGED <<host, files, faults>>

(* Mutant of EpochHolds: the ingress is not looked at.                      *)
EpochMatches(p) == call[p].epoch \in {0, host[call[p].data].epoch}

EpochHolds(p) ==
    call[p].epoch # 0 => host[call[p].data] = [epoch |-> call[p].epoch, mode |-> "closed"]

CheckHost(p) ==
    /\ At(p, "epoch")
    /\ IF EpochHolds(p) THEN GoTo(p, "store") /\ UNCHANGED <<owner, store>> ELSE Leave(p)
    /\ UNCHANGED <<host, files, faults>>

(* Mutant of StoreFree: the store is entered whoever holds it.              *)
StoreAny == TRUE

StoreFree == store = "free"

TakeStore(p) ==
    /\ At(p, "store")
    /\ IF StoreFree
       THEN store' = p /\ owner' = owner /\ GoTo(p, call[p].kind)
       ELSE Leave(p)
    /\ UNCHANGED <<host, files, faults>>

(***************************************************************************)
(* A tracked activation                                                     *)
(***************************************************************************)
Newer(g) == selected # NoGeneration /\ Release[selected].version > Release[g].version

(* Mutant of Known: an operation that did not end is begun again.           *)
KnownEnded(o) == operation[o] \in {"completed", "recovered"}

Known(o) == operation[o] # "none"

(* The record is created and then written.                                  *)
Accept(p) ==
    LET o == call[p].generation IN
    /\ At(p, "tracked")
    /\ IF Known(o) \/ Newer(o)
       THEN Leave(p) /\ UNCHANGED operation
       ELSE /\ operation' = [operation EXCEPT ![o] = "torn"]
            /\ GoTo(p, "accept") /\ UNCHANGED <<owner, store>>
    /\ UNCHANGED <<host, published, selected, helper, faults>>

Writes == [accept |-> "accepted", prepare |-> "preparing",
           intend |-> "publicationIntent", complete |-> "completed"]

(* Mutant of After: the generation is not published.                        *)
AfterUnpublished == [accept |-> "prepare", prepare |-> "intend", intend |-> "select"]

After == [accept |-> "prepare", prepare |-> "publish", intend |-> "select"]

Completes(p) == At(p, "complete") => selected = call[p].generation /\ helper = selected

(* The record of the operation is written on.                               *)
Write(p) ==
    /\ call[p].step \in DOMAIN Writes /\ Completes(p)
    /\ operation' = [operation EXCEPT ![call[p].generation] = Writes[call[p].step]]
    /\ IF At(p, "complete")
       THEN Leave(p)
       ELSE GoTo(p, After[call[p].step]) /\ UNCHANGED <<owner, store>>
    /\ UNCHANGED <<host, published, selected, helper, faults>>

(* An existing generation is never staged again.                            *)
Publish(p) ==
    /\ At(p, "publish") /\ call[p].generation \notin published
    /\ published' = published \cup {call[p].generation}
    /\ GoTo(p, IF call[p].kind = "tracked" THEN "intend" ELSE "select")
    /\ UNCHANGED <<host, owner, store, selected, helper, operation, faults>>

Select(p) ==
    /\ At(p, "select")
    /\ selected' = call[p].generation
    /\ GoTo(p, "refresh")
    /\ UNCHANGED <<host, owner, store, published, helper, operation, faults>>

(* refresh_auto_update_helper, for whatever is selected.                    *)
Refresh(p) ==
    /\ At(p, "refresh")
    /\ helper' = selected
    /\ IF call[p].kind = "tracked" THEN GoTo(p, "complete") /\ UNCHANGED <<owner, store>>
                                   ELSE Leave(p)
    /\ UNCHANGED <<host, published, selected, operation, faults>>

(* Mutant of Outcome: a failure is taken for one before the publication     *)
(* unless the activation had completed.                                     *)
OutcomeByEnd(p) == IF At(p, "complete") THEN "uncertain" ELSE "failedBeforePublication"

(* What is recorded of a failure: the state the process had reached, with   *)
(* the one it was about to write.                                           *)
Outcome(p) ==
    IF At(p, "accept") \/ At(p, "prepare") \/ At(p, "publish")
    THEN "failedBeforePublication" ELSE "uncertain"

Failing == {"accept", "prepare", "publish", "intend", "select", "refresh", "complete"}

(* A write or a file operation fails. The first write fails the call; a     *)
(* later failure of a tracked activation is recorded unless that fails too. *)
Fault(p) ==
    /\ call[p].step \in Failing
    /\ faults < MaxFaults /\ faults' = faults + 1
    /\ \/ call[p].kind = "tracked" /\ ~At(p, "accept")
          /\ operation' = [operation EXCEPT ![call[p].generation] = Outcome(p)]
       \/ operation' = operation
    /\ Leave(p)
    /\ UNCHANGED <<host, published, selected, helper>>

(***************************************************************************)
(* The others                                                               *)
(***************************************************************************)
SameAsSelected(g) == selected # NoGeneration /\ Release[selected] = Release[g]

(* An untracked activation: a newer selection is kept, the same release is  *)
(* selected again or left alone, another one is published.                  *)
Choose(p) ==
    /\ At(p, "untracked")
    /\ \/ /\ Newer(call[p].generation) \/ SameAsSelected(call[p].generation)
          /\ Leave(p)
       \/ /\ SameAsSelected(call[p].generation)
          /\ call' = [call EXCEPT ![p].generation = selected, ![p].step = "select"]
          /\ UNCHANGED <<owner, store>>
       \/ /\ ~Newer(call[p].generation) /\ ~SameAsSelected(call[p].generation)
          /\ GoTo(p, "publish") /\ UNCHANGED <<owner, store>>
    /\ UNCHANGED <<host, files, faults>>

Adoptable(o) ==
    /\ operation[o] \in {"publicationIntent", "uncertain"}
    /\ selected = o /\ o \in published

Adopt(p) ==
    LET o == call[p].generation IN
    /\ At(p, "adopt")
    /\ operation' = IF Adoptable(o) THEN [operation EXCEPT ![o] = "recovered"] ELSE operation
    /\ Leave(p)
    /\ UNCHANGED <<host, published, selected, helper, faults>>

Inspect(p) ==
    /\ At(p, "status")
    /\ Leave(p)
    /\ UNCHANGED <<host, files, faults>>

Die(p) ==
    /\ call[p] # Idle /\ faults < MaxFaults
    /\ faults' = faults + 1
    /\ Leave(p)
    /\ UNCHANGED <<host, files>>

Step(p) ==
    \/ TakeHost(p) \/ CheckHost(p) \/ TakeStore(p) \/ Accept(p) \/ Write(p) \/ Publish(p)
    \/ Select(p) \/ Refresh(p) \/ Fault(p) \/ Choose(p) \/ Adopt(p) \/ Inspect(p) \/ Die(p)

Next ==
    \/ \E d \in Dirs : StartDaemon(d) \/ OpenDaemon(d) \/ QuiesceDaemon(d) \/ StopDaemon(d)
    \/ \E p \in Processes : Step(p) \/ \E request \in Requests : Begin(p, request)

Spec == Init /\ [][Next]_vars

(***************************************************************************)
(* Properties                                                               *)
(***************************************************************************)
State == {"none", "torn", "accepted", "preparing", "publicationIntent", "completed",
          "failedBeforePublication", "uncertain", "recovered"}

(* Type correctness, and a lock is held by a process that works on what it  *)
(* locks (ActivationLease).                                                 *)
TypeOK ==
    /\ host \in [Dirs -> [epoch : 1..MaxEpoch, mode : {"open", "closed"}]]
    /\ owner \in [Dirs -> Processes \cup {"free", "starting", "daemon"}]
    /\ store \in Processes \cup {"free"}
    /\ published \subseteq Generations
    /\ selected \in Generations \cup {NoGeneration} /\ helper \in Generations \cup {NoGeneration}
    /\ operation \in [Operations -> State]
    /\ \A d \in Dirs : owner[d] \in Processes => call[owner[d]] # Idle /\ call[owner[d]].data = d
    /\ store \in Processes => call[store] # Idle /\ owner[call[store].data] = store
    /\ faults \in 0..MaxFaults

(* An operation that has not come to its intent, or that is recorded as     *)
(* failed before publication, is not selected: its record may be trusted    *)
(* after a crash at any point (activate, publish).                          *)
UnpublishedIsNotSelected ==
    \A o \in Operations :
        operation[o] \in {"none", "torn", "accepted", "preparing", "failedBeforePublication"} =>
            selected # o

(* The selected generation is complete, and the helper beside a completed   *)
(* and selected operation is its own (publish).                             *)
SelectionIsWhole ==
    /\ selected # NoGeneration => selected \in published
    /\ \A o \in Operations : operation[o] = "completed" /\ selected = o => helper = o

(* What holds of the store and of the records at all times, whoever dies:   *)
(* what is selected is whole, and no record calls it unpublished.           *)
ActivationInvariant == TypeOK /\ UnpublishedIsNotSelected /\ SelectionIsWhole

(* No activation, in whatever data directory, takes the place of a newer    *)
(* release: the look at the selection is not stale when it is replaced      *)
(* (activate, activate_at_expected).                                        *)
SelectionNeverRegresses ==
    [][selected # NoGeneration /\ selected' # selected =>
           Release[selected'].version >= Release[selected].version]_vars

(* A tracked operation writes its record, publishes and is selected only    *)
(* while its owner is gone and the epoch it was planned for is closed: once *)
(* a successor runs, nothing that was in flight goes on (ActivationLease).  *)
OperationsRespectTheOwner ==
    [][\A o \in Operations :
          \/ operation'[o] # operation[o]
          \/ selected' = o /\ selected # o
          \/ o \in published' /\ o \notin published
          => /\ host[Scope[o].data] = [epoch |-> Scope[o].epoch, mode |-> "closed"]
             /\ owner[Scope[o].data] \in Processes]_vars

(* What an operation came to is final: its record only moves forward, so it *)
(* is never begun twice, and it is adopted only while it is selected        *)
(* (activate, adopt).                                                       *)
Rank == [none |-> 0, torn |-> 1, accepted |-> 2, preparing |-> 3, publicationIntent |-> 4,
         failedBeforePublication |-> 7, uncertain |-> 5, completed |-> 7, recovered |-> 7]

OutcomeIsFinal ==
    [][\A o \in Operations :
          operation'[o] # operation[o] =>
              /\ Rank[operation'[o]] > Rank[operation[o]] /\ Rank[operation[o]] < 7
              /\ operation'[o] = "recovered" => selected = o]_vars
=============================================================================
