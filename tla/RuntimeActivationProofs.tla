------------------------ MODULE RuntimeActivationProofs ------------------------
(***************************************************************************)
(* Proofs about RuntimeActivation for every number of data directories,     *)
(* maintenance processes, operations, epochs and faults.                    *)
(***************************************************************************)
EXTENDS RuntimeActivation, TLAPS

-----------------------------------------------------------------------------
(* The inductive invariant: the files, and a part for each process.         *)

Kinds == {"tracked", "adopt", "status", "untracked"}
WorkSteps == {"accept", "prepare", "publish", "intend", "select", "refresh", "complete"}

\* A process at one of these holds the install lock.
Inside == Kinds \cup WorkSteps

CallRec == [kind : Kinds, generation : Generations, data : Dirs, epoch : 0..MaxEpoch,
            step : {"host", "epoch", "store"} \cup Inside]

\* What a call is about, and the steps its kind takes.
Asks(k) ==
    /\ k.kind # "untracked" => k.generation \in Operations /\ k.data = Scope[k.generation].data
    /\ k.kind \in {"tracked", "adopt"} => k.epoch = Scope[k.generation].epoch
    /\ k.step \in Kinds => k.step = k.kind
    /\ k.step \in {"accept", "prepare", "intend", "complete"} => k.kind = "tracked"
    /\ k.step \in {"publish", "select", "refresh"} => k.kind \in {"tracked", "untracked"}
    /\ k.kind = "untracked" => k.generation \in Fresh \/ k.step \in {"select", "refresh"}

\* The locks a process has taken by a step, and what it saw behind them.
Holds(p, k) ==
    /\ k.step # "host" => owner[k.data] = p
    /\ k.step \notin {"host", "epoch"} =>
           (k.epoch # 0 => host[k.data] = [epoch |-> k.epoch, mode |-> "closed"])
    /\ k.step \in Inside => store = p

\* How far a call has come with the files.
Come(k) ==
    /\ k.kind = "tracked" =>
           /\ k.step = "accept" => operation[k.generation] = "torn"
           /\ k.step = "prepare" => operation[k.generation] = "accepted"
           /\ k.step \in {"publish", "intend"} => operation[k.generation] = "preparing"
           /\ k.step \in {"select", "refresh", "complete"} =>
                  operation[k.generation] = "publicationIntent"
    /\ k.step \in {"intend", "select", "refresh", "complete"} => k.generation \in published
    /\ k.step \in {"accept", "prepare", "publish", "intend", "select"} => ~Newer(k.generation)
    /\ k.step = "select" /\ k.kind = "untracked" =>
           k.generation \in Fresh \/ k.generation = selected
    /\ k.step \in {"refresh", "complete"} => selected = k.generation
    /\ k.step = "complete" => helper = k.generation

CallOK(p) == call[p] # Idle => Asks(call[p]) /\ Holds(p, call[p]) /\ Come(call[p])

FilesOK ==
    /\ published \subseteq Generations
    /\ selected \in Generations \cup {NoGeneration} /\ helper \in Generations \cup {NoGeneration}
    /\ operation \in [Operations -> State]
    /\ UnpublishedIsNotSelected /\ SelectionIsWhole

LocksOK ==
    /\ owner \in [Dirs -> Processes \cup {"free", "starting", "daemon"}]
    /\ store \in Processes \cup {"free"}
    /\ \A d \in Dirs : owner[d] \in Processes => call[owner[d]] # Idle /\ call[owner[d]].data = d
    /\ store \in Processes => call[store] # Idle /\ owner[call[store].data] = store

Hosts == [Dirs -> [epoch : 1..MaxEpoch, mode : {"open", "closed"}]]

\* A daemon that starts finds an epoch behind it.
StartsInTime == \A d \in Dirs : owner[d] = "starting" => host[d].epoch < MaxEpoch

IInv ==
    /\ host \in Hosts /\ faults \in 0..MaxFaults
    /\ LocksOK /\ StartsInTime /\ FilesOK
    /\ call \in [Processes -> CallRec \cup {Idle}]
    /\ \A p \in Processes : CallOK(p)

-----------------------------------------------------------------------------
(* What the locks keep apart.                                               *)

LEMMA IdleIsNoCall == Idle \notin CallRec /\ Idle.step = "idle"
BY DEF Idle, CallRec

\* A call in progress is a record of its type.
LEMMA Called ==
  ASSUME IInv, NEW p \in Processes, call[p].step # "idle"
  PROVE  call[p] # Idle /\ call[p] \in CallRec /\ Asks(call[p]) /\ Holds(p, call[p]) /\ Come(call[p])
BY IdleIsNoCall DEF IInv, CallOK

\* Only one process is inside the store.
LEMMA OneInside ==
  ASSUME IInv, NEW p \in Processes, call[p].step \in Inside, NEW q \in Processes, q # p
  PROVE  call[q].step \notin Inside
<1>1. call[p].step # "idle" /\ store = p
  BY Called DEF Inside, Kinds, WorkSteps, Holds
<1>2. ASSUME call[q].step \in Inside
      PROVE  FALSE
  <2>1. call[q].step # "idle"
    BY <1>2 DEF Inside, Kinds, WorkSteps
  <2>2. store = q
    BY <1>2, <2>1, Called DEF Holds
  <2>. QED
    BY <1>1, <2>2
<1>. QED
  BY <1>2

\* A process outside the store has come to nothing yet.
LEMMA OutsideComes ==
  ASSUME NEW k, k.step \notin WorkSteps
  PROVE  Come(k)
BY DEF Come, WorkSteps

-----------------------------------------------------------------------------
(* Steps, by what they do to the locks.                                     *)

\* The one process inside the store works on the files and goes on to k.
LEMMA WorksOn ==
  ASSUME IInv, NEW p \in Processes, call[p].step \in Inside,
         NEW k \in CallRec, k.step \in Inside, k.data = call[p].data, k.epoch = call[p].epoch,
         Asks(k), Come(k)', call' = [call EXCEPT ![p] = k],
         FilesOK', UNCHANGED <<host, owner, store, faults>>
  PROVE  IInv'
<1>1. call[p].step # "idle"
  BY DEF Inside, Kinds, WorkSteps
<1>2. call[p] # Idle /\ call[p] \in CallRec /\ Holds(p, call[p])
  BY <1>1, Called
<1>3. call' \in [Processes -> CallRec \cup {Idle}] /\ k # Idle /\ call'[p] = k
      /\ \A q \in Processes : q # p => call'[q] = call[q]
  BY IdleIsNoCall DEF IInv
<1>4. LocksOK' /\ StartsInTime'
  BY <1>2, <1>3 DEF IInv, LocksOK, StartsInTime
<1>5. ASSUME NEW q \in Processes
      PROVE  CallOK(q)'
  <2>1. CASE q = p
    <3>1. Holds(p, k)'
      BY <1>2, IdleIsNoCall DEF Holds, Inside, Kinds, WorkSteps
    <3>. QED
      BY <1>3, <2>1, <3>1 DEF CallOK, Asks
  <2>2. CASE q # p
    <3>1. call'[q] = call[q] /\ call[q].step \notin Inside
      BY <1>3, <2>2, OneInside
    <3>2. call[q] # Idle => Asks(call[q]) /\ Holds(q, call[q])
      BY DEF IInv, CallOK
    <3>3. Come(call[q])'
      BY <3>1 DEF Come, Inside, WorkSteps
    <3>. QED
      BY <3>1, <3>2, <3>3 DEF CallOK, Asks, Holds
  <2>. QED
    BY <2>1, <2>2
<1>. QED
  BY <1>3, <1>4, <1>5 DEF IInv

\* A call ends, with the files as they are or, inside the store, written.
LEMMA Leaves ==
  ASSUME IInv, NEW p \in Processes, Leave(p), FilesOK', faults' \in 0..MaxFaults,
         host' = host, UNCHANGED files \/ call[p].step \in Inside
  PROVE  IInv'
<1>1. call' \in [Processes -> CallRec \cup {Idle}] /\ call'[p] = Idle
      /\ \A q \in Processes : q # p => call'[q] = call[q]
  BY DEF IInv, Leave
<1>2. \A d \in Dirs : owner'[d] = IF owner[d] = p THEN "free" ELSE owner[d]
  BY DEF Leave
<1>3. p # "free"
  BY RuntimeActivationAssumption DEF RuntimeActivationAssumption
<1>4. \A q \in Processes : q # p =>
         /\ \A d \in Dirs : owner[d] = q => owner'[d] = q
         /\ store = q => store' = q
  BY <1>2 DEF Leave
<1>5. LocksOK'
  <2>1. owner' \in [Dirs -> Processes \cup {"free", "starting", "daemon"}]
    BY DEF IInv, LocksOK, Leave
  <2>2. store' \in Processes \cup {"free"} /\ (store' \in Processes => store' = store /\ store # p)
    BY RuntimeActivationAssumption DEF IInv, LocksOK, Leave, RuntimeActivationAssumption
  <2>3. ASSUME NEW d \in Dirs, owner'[d] \in Processes
        PROVE  call'[owner'[d]] # Idle /\ call'[owner'[d]].data = d
    <3>1. owner'[d] = owner[d] /\ owner[d] # p
      BY <1>2, <2>3, RuntimeActivationAssumption DEF RuntimeActivationAssumption
    <3>. QED
      BY <1>1, <2>3, <3>1 DEF IInv, LocksOK
  <2>4. ASSUME store' \in Processes
        PROVE  call'[store'] # Idle /\ owner'[call'[store'].data] = store'
    <3>1. call'[store'] = call[store] /\ store' = store /\ store # p
      BY <1>1, <2>2, <2>4
    <3>2. call[store] # Idle /\ owner[call[store].data] = store /\ call[store] \in CallRec
      BY <2>4, <3>1 DEF IInv, LocksOK
    <3>. QED
      BY <1>4, <2>4, <3>1, <3>2 DEF CallRec
  <2>. QED
    BY <2>1, <2>2, <2>3, <2>4 DEF LocksOK
<1>6. ASSUME NEW q \in Processes
      PROVE  CallOK(q)'
  <2>1. CASE q = p
    BY <1>1, <2>1 DEF CallOK
  <2>2. CASE q # p /\ call[q] # Idle
    <3>1. call'[q] = call[q] /\ call[q] \in CallRec /\ Asks(call[q]) /\ Holds(q, call[q])
          /\ Come(call[q])
      BY <1>1, <2>2 DEF IInv, CallOK
    <3>2. Come(call[q])'
      <4>1. CASE UNCHANGED files
        BY <3>1, <4>1 DEF Come, files, Newer
      <4>2. CASE call[p].step \in Inside
        <5>1. call[q].step \notin Inside
          BY <2>2, <4>2, OneInside
        <5>. QED
          BY <3>1, <5>1 DEF Come, Inside, WorkSteps
      <4>. QED
        BY <4>1, <4>2
    <3>3. Holds(q, call[q])'
      BY <1>4, <2>2, <3>1 DEF Holds, CallRec
    <3>. QED
      BY <3>1, <3>2, <3>3 DEF CallOK, Asks
  <2>3. CASE q # p /\ call[q] = Idle
    BY <1>1, <2>3 DEF CallOK
  <2>. QED
    BY <2>1, <2>2, <2>3
<1>7. StartsInTime'
  BY <1>2 DEF IInv, StartsInTime
<1>. QED
  BY <1>1, <1>5, <1>6, <1>7 DEF IInv

\* A daemon moves while no process owns its data directory.
LEMMA OwnerMoves ==
  ASSUME IInv, NEW d \in Dirs, owner[d] \notin Processes,
         NEW o \in {"free", "starting", "daemon"}, NEW h \in [epoch : 1..MaxEpoch,
                                                             mode : {"open", "closed"}],
         o = "starting" => h.epoch < MaxEpoch,
         owner' = [owner EXCEPT ![d] = o], host' = [host EXCEPT ![d] = h],
         UNCHANGED <<store, files, call, faults>>
  PROVE  IInv'
<1>1. o \notin Processes
  BY RuntimeActivationAssumption DEF RuntimeActivationAssumption
<1>2. /\ host' \in Hosts /\ owner' \in [Dirs -> Processes \cup {"free", "starting", "daemon"}]
      /\ \A e \in Dirs : e # d => owner'[e] = owner[e] /\ host'[e] = host[e]
      /\ owner'[d] = o /\ host'[d] = h
  BY DEF IInv, LocksOK, Hosts
<1>3. LocksOK'
  <2>1. ASSUME NEW e \in Dirs, owner'[e] \in Processes
        PROVE  call[owner'[e]] # Idle /\ call[owner'[e]].data = e
    BY <1>1, <1>2, <2>1 DEF IInv, LocksOK
  <2>2. ASSUME store \in Processes
        PROVE  call[store] # Idle /\ owner'[call[store].data] = store
    <3>1. call[store] # Idle /\ owner[call[store].data] = store /\ call[store].data \in Dirs
      BY <2>2 DEF IInv, LocksOK, CallRec
    <3>. QED
      BY <1>2, <2>2, <3>1
  <2>. QED
    BY <1>2, <2>1, <2>2 DEF IInv, LocksOK
<1>4. FilesOK'
  BY DEF IInv, FilesOK, files, UnpublishedIsNotSelected, SelectionIsWhole
<1>5. ASSUME NEW q \in Processes, call[q] # Idle
      PROVE  Holds(q, call[q])' /\ Come(call[q])'
  <2>1. Holds(q, call[q]) /\ Come(call[q]) /\ call[q] \in CallRec
    BY <1>5 DEF IInv, CallOK
  <2>2. call[q].step # "host" => call[q].data # d
    BY <2>1 DEF Holds
  <2>3. Holds(q, call[q])'
    BY <1>2, <2>1, <2>2 DEF Holds, CallRec, Inside, Kinds, WorkSteps
  <2>4. Come(call[q])'
    BY <2>1 DEF Come, files, Newer
  <2>. QED
    BY <2>3, <2>4
<1>6. StartsInTime'
  BY <1>2 DEF IInv, StartsInTime
<1>. QED
  BY <1>2, <1>3, <1>4, <1>5, <1>6 DEF IInv, CallOK, Asks

\* A process without the install lock goes on to k outside the store's work.
LEMMA Approaches ==
  ASSUME IInv, NEW p \in Processes, NEW k \in CallRec, k.step \notin WorkSteps, Asks(k),
         call' = [call EXCEPT ![p] = k], Holds(p, k)', UNCHANGED <<host, files, faults>>,
         \/ call[p] = Idle /\ UNCHANGED <<owner, store>>
         \/ /\ call[p] # Idle /\ k.data = call[p].data /\ owner[k.data] \in {"free", p}
            /\ owner' = [owner EXCEPT ![k.data] = p]
            /\ \/ store' = store
               \/ store' = p /\ store = "free"
  PROVE  IInv'
<1>1. call' \in [Processes -> CallRec \cup {Idle}] /\ call'[p] = k /\ k # Idle
      /\ \A q \in Processes : q # p => call'[q] = call[q]
  BY IdleIsNoCall DEF IInv
<1>2. FilesOK'
  BY DEF IInv, FilesOK, files, UnpublishedIsNotSelected, SelectionIsWhole
<1>3. k.data \in Dirs /\ p \notin {"free", "starting", "daemon"} /\ "free" \notin Processes
  BY RuntimeActivationAssumption DEF RuntimeActivationAssumption, CallRec
<1>4. \A q \in Processes : q # p =>
         /\ \A d \in Dirs : owner[d] = q => owner'[d] = q
         /\ store = q => store' = q
  BY <1>3 DEF IInv, LocksOK
<1>5. LocksOK'
  <2>1. CASE call[p] = Idle /\ UNCHANGED <<owner, store>>
    BY <1>1, <1>3, <2>1 DEF IInv, LocksOK
  <2>2. CASE /\ call[p] # Idle /\ k.data = call[p].data /\ owner[k.data] \in {"free", p}
             /\ owner' = [owner EXCEPT ![k.data] = p]
             /\ \/ store' = store
                \/ store' = p /\ store = "free"
    <3>1. owner' \in [Dirs -> Processes \cup {"free", "starting", "daemon"}]
          /\ store' \in Processes \cup {"free"}
      BY <1>3, <2>2 DEF IInv, LocksOK
    <3>2. ASSUME NEW d \in Dirs, owner'[d] \in Processes
          PROVE  call'[owner'[d]] # Idle /\ call'[owner'[d]].data = d
      BY <1>1, <1>3, <2>2, <3>2 DEF IInv, LocksOK
    <3>3. ASSUME store' \in Processes
          PROVE  call'[store'] # Idle /\ owner'[call'[store'].data] = store'
      <4>1. CASE store' = p
        BY <1>1, <1>3, <2>2, <4>1 DEF IInv, LocksOK
      <4>2. CASE store' # p
        <5>1. store' = store /\ call'[store'] = call[store] /\ call[store] # Idle
              /\ owner[call[store].data] = store /\ call[store].data \in Dirs
          BY <1>1, <2>2, <3>3, <4>2 DEF IInv, LocksOK, CallRec
        <5>. QED
          BY <1>4, <3>3, <4>2, <5>1
      <4>. QED
        BY <4>1, <4>2
    <3>. QED
      BY <3>1, <3>2, <3>3 DEF LocksOK
  <2>. QED
    BY <2>1, <2>2
<1>6. ASSUME NEW q \in Processes
      PROVE  CallOK(q)'
  <2>1. CASE q = p
    <3>1. Come(k)'
      BY DEF Come, WorkSteps
    <3>. QED
      BY <1>1, <2>1, <3>1 DEF CallOK, Asks
  <2>2. CASE q # p /\ call[q] # Idle
    <3>1. call'[q] = call[q] /\ call[q] \in CallRec /\ Asks(call[q]) /\ Holds(q, call[q])
          /\ Come(call[q])
      BY <1>1, <2>2 DEF IInv, CallOK
    <3>2. Holds(q, call[q])'
      BY <1>4, <2>2, <3>1 DEF Holds, CallRec
    <3>3. Come(call[q])'
      BY <3>1 DEF Come, files, Newer
    <3>. QED
      BY <3>1, <3>2, <3>3 DEF CallOK, Asks
  <2>3. CASE q # p /\ call[q] = Idle
    BY <1>1, <2>3 DEF CallOK
  <2>. QED
    BY <2>1, <2>2, <2>3
<1>7. StartsInTime'
  <2>1. \A d \in Dirs : owner'[d] = owner[d] \/ owner'[d] = p
    BY DEF IInv, LocksOK
  <2>. QED
    BY <1>3, <2>1 DEF IInv, StartsInTime
<1>. QED
  BY <1>1, <1>2, <1>5, <1>6, <1>7 DEF IInv

LEMMA SameFiles ==
  ASSUME IInv, UNCHANGED files
  PROVE  FilesOK'
BY DEF IInv, FilesOK, files, UnpublishedIsNotSelected, SelectionIsWhole

-----------------------------------------------------------------------------
(* The steps on the way into the store.                                     *)

LEMMA DaemonStep ==
  ASSUME IInv, NEW d \in Dirs,
         StartDaemon(d) \/ OpenDaemon(d) \/ QuiesceDaemon(d) \/ StopDaemon(d)
  PROVE  IInv'
<1>1. host[d] \in [epoch : 1..MaxEpoch, mode : {"open", "closed"}] /\ host \in Hosts
  BY DEF IInv, Hosts
<1>2. {"free", "starting", "daemon"} \cap Processes = {}
  BY RuntimeActivationAssumption DEF RuntimeActivationAssumption
<1>3. owner \in [Dirs -> Processes \cup {"free", "starting", "daemon"}]
  BY DEF IInv, LocksOK
<1>4. host[d].epoch < MaxEpoch =>
         [epoch |-> host[d].epoch + 1, mode |-> "open"] \in [epoch : 1..MaxEpoch,
                                                             mode : {"open", "closed"}]
  BY <1>1, RuntimeActivationAssumption DEF RuntimeActivationAssumption
<1>5. CASE StartDaemon(d)
  <2>1. PICK h \in [epoch : 1..MaxEpoch, mode : {"open", "closed"}] :
            h = [host[d] EXCEPT !.mode = "closed"]
    BY <1>1
  <2>2. host' = [host EXCEPT ![d] = h] /\ owner[d] \notin Processes
    BY <1>2, <1>5, <2>1 DEF StartDaemon
  <2>3. h.epoch < MaxEpoch
    BY <1>1, <1>5, <2>1 DEF StartDaemon
  <2>. QED
    BY <1>5, <2>2, <2>3, OwnerMoves DEF StartDaemon
<1>6. CASE OpenDaemon(d)
  <2>1. host[d].epoch < MaxEpoch
    BY <1>6 DEF OpenDaemon, IInv, StartsInTime
  <2>2. PICK h \in [epoch : 1..MaxEpoch, mode : {"open", "closed"}] :
            h = [epoch |-> host[d].epoch + 1, mode |-> "open"]
    BY <1>4, <2>1
  <2>3. host' = [host EXCEPT ![d] = h] /\ owner[d] \notin Processes
    BY <1>1, <1>2, <1>6, <2>2 DEF OpenDaemon, Hosts
  <2>. QED
    BY <1>6, <2>3, OwnerMoves DEF OpenDaemon
<1>7. CASE QuiesceDaemon(d)
  <2>1. PICK h \in [epoch : 1..MaxEpoch, mode : {"open", "closed"}] :
            h = [host[d] EXCEPT !.mode = "closed"]
    BY <1>1
  <2>2. host' = [host EXCEPT ![d] = h] /\ owner[d] \notin Processes
        /\ owner' = [owner EXCEPT ![d] = "daemon"]
    BY <1>2, <1>3, <1>7, <2>1 DEF QuiesceDaemon
  <2>. QED
    BY <1>7, <2>2, OwnerMoves DEF QuiesceDaemon
<1>8. CASE StopDaemon(d)
  <2>1. host' = [host EXCEPT ![d] = host[d]] /\ owner[d] \notin Processes
    BY <1>1, <1>2, <1>8 DEF StopDaemon, Hosts
  <2>. QED
    BY <1>1, <1>8, <2>1, OwnerMoves DEF StopDaemon
<1>. QED
  BY <1>5, <1>6, <1>7, <1>8

LEMMA BeginStep ==
  ASSUME IInv, NEW p \in Processes, NEW request \in Requests, Begin(p, request)
  PROVE  IInv'
<1>1. request \in CallRec /\ request.step = "host" /\ Asks(request)
  <2> USE DEF CallRec, Asks, Kinds, Inside, WorkSteps
  <2>1. ASSUME NEW o \in Operations
        PROVE  /\ o \in Generations /\ Scope[o].data \in Dirs /\ Scope[o].epoch \in 0..MaxEpoch
               /\ 0 \in 0..MaxEpoch
    BY RuntimeActivationAssumption DEF RuntimeActivationAssumption, Generations
  <2>2. ASSUME NEW o \in Operations, request = Tracked(o)
        PROVE  request \in CallRec /\ request.step = "host" /\ Asks(request)
    BY <2>1, <2>2 DEF Tracked
  <2>3. ASSUME NEW o \in Operations, request = Adoption(o)
        PROVE  request \in CallRec /\ request.step = "host" /\ Asks(request)
    BY <2>1, <2>3 DEF Tracked, Adoption
  <2>4. ASSUME NEW o \in Operations, request = Status(o)
        PROVE  request \in CallRec /\ request.step = "host" /\ Asks(request)
    BY <2>1, <2>4 DEF Tracked, Status
  <2>5. ASSUME NEW g \in Fresh, NEW d \in Dirs, NEW e \in Untracked,
               request = UntrackedCall(g, d, e)
        PROVE  request \in CallRec /\ request.step = "host" /\ Asks(request)
    BY <2>5, RuntimeActivationAssumption DEF RuntimeActivationAssumption, UntrackedCall, Generations
  <2>. QED
    BY <2>2, <2>3, <2>4, <2>5 DEF Requests
<1>2. Holds(p, request)' /\ request.step \notin WorkSteps
  BY <1>1 DEF Holds, Inside, Kinds, WorkSteps
<1>. QED
  BY <1>1, <1>2, Approaches DEF Begin

\* A step of a process on its way, which goes on or gives up.
LEMMA WayStep ==
  ASSUME IInv, NEW p \in Processes, TakeHost(p) \/ CheckHost(p) \/ TakeStore(p)
  PROVE  IInv'
<1>1. call[p].step \in {"host", "epoch", "store"}
  BY DEF TakeHost, CheckHost, TakeStore, At
<1>2. /\ call[p] # Idle /\ call[p] \in CallRec /\ Asks(call[p]) /\ Holds(p, call[p])
      /\ call[p].data \in Dirs
  BY <1>1, Called DEF CallRec
<1>3. CASE Leave(p)
  <2>1. host' = host /\ faults' \in 0..MaxFaults /\ UNCHANGED files
    BY DEF TakeHost, CheckHost, TakeStore, IInv
  <2>. QED
    BY <1>3, <2>1, SameFiles, Leaves
<1>4. ASSUME NEW s \in {"epoch", "store"} \cup Kinds, GoTo(p, s)
      PROVE  [call[p] EXCEPT !.step = s] \in CallRec
             /\ call' = [call EXCEPT ![p] = [call[p] EXCEPT !.step = s]]
  BY <1>2, <1>4 DEF GoTo, CallRec, Inside, Kinds
<1>5. CASE TakeHost(p) /\ ~Leave(p)
  <2>1. PICK k : k = [call[p] EXCEPT !.step = "epoch"]
    OBVIOUS
  <2>2. /\ owner[call[p].data] = "free" /\ owner' = [owner EXCEPT ![call[p].data] = p]
        /\ GoTo(p, "epoch") /\ store' = store /\ UNCHANGED <<host, files, faults>>
    BY <1>5 DEF TakeHost
  <2>3. k \in CallRec /\ k.step = "epoch" /\ k.data = call[p].data /\ call' = [call EXCEPT ![p] = k]
    BY <1>2, <1>4, <2>1, <2>2 DEF CallRec
  <2>4. Asks(k) /\ k.step \notin WorkSteps
    BY <1>1, <1>2, <2>1 DEF Asks, WorkSteps, Kinds, CallRec
  <2>5. Holds(p, k)'
    BY <1>2, <2>2, <2>3 DEF Holds, Inside, Kinds, WorkSteps, IInv, LocksOK
  <2>. QED
    BY <1>2, <2>2, <2>3, <2>4, <2>5, Approaches
<1>6. CASE CheckHost(p) /\ ~Leave(p)
  <2>1. PICK k : k = [call[p] EXCEPT !.step = "store"]
    OBVIOUS
  <2>2. /\ EpochHolds(p) /\ GoTo(p, "store") /\ UNCHANGED <<host, owner, store, files, faults>>
        /\ call[p].step = "epoch"
    BY <1>6 DEF CheckHost, At
  <2>3. /\ k \in CallRec /\ k.step = "store" /\ k.data = call[p].data /\ k.epoch = call[p].epoch
        /\ call' = [call EXCEPT ![p] = k]
    BY <1>2, <1>4, <2>1, <2>2 DEF CallRec
  <2>4. Asks(k) /\ k.step \notin WorkSteps
    BY <1>1, <1>2, <2>1 DEF Asks, WorkSteps, Kinds, CallRec
  <2>5. owner[k.data] = p /\ owner' = [owner EXCEPT ![k.data] = p]
    BY <1>2, <2>2, <2>3 DEF Holds, IInv, LocksOK
  <2>6. Holds(p, k)'
    BY <2>2, <2>3, <2>5 DEF Holds, Inside, Kinds, WorkSteps, EpochHolds
  <2>. QED
    BY <1>2, <2>2, <2>3, <2>4, <2>5, <2>6, Approaches
<1>7. CASE TakeStore(p) /\ ~Leave(p)
  <2>1. PICK k : k = [call[p] EXCEPT !.step = call[p].kind]
    OBVIOUS
  <2>2. /\ store = "free" /\ store' = p /\ owner' = owner /\ GoTo(p, call[p].kind)
        /\ UNCHANGED <<host, files, faults>> /\ call[p].step = "store"
    BY <1>7 DEF TakeStore, StoreFree, At
  <2>3. /\ k \in CallRec /\ k.step = k.kind /\ k.kind \in Kinds
        /\ k.data = call[p].data /\ k.epoch = call[p].epoch /\ k.kind = call[p].kind
        /\ k.generation = call[p].generation
        /\ call' = [call EXCEPT ![p] = k]
    BY <1>2, <2>1, <2>2 DEF CallRec, GoTo, Inside
  <2>4. Asks(k) /\ k.step \notin WorkSteps
    BY <1>2, <2>2, <2>3 DEF Asks, WorkSteps, Kinds
  <2>5. owner[k.data] = p /\ owner' = [owner EXCEPT ![k.data] = p]
    BY <1>2, <2>2, <2>3 DEF Holds, IInv, LocksOK
  <2>6. Holds(p, k)'
    BY <1>2, <2>2, <2>3, <2>5 DEF Holds
  <2>. QED
    BY <1>2, <2>2, <2>3, <2>4, <2>5, <2>6, Approaches
<1>. QED
  BY <1>3, <1>5, <1>6, <1>7

-----------------------------------------------------------------------------
(* The steps inside the store.                                              *)

\* What a process inside the store has: its record, its lock and its progress.
LEMMA AtWork ==
  ASSUME IInv, NEW p \in Processes, call[p].step \in Inside
  PROVE  /\ call[p] # Idle /\ call[p] \in CallRec
         /\ Asks(call[p]) /\ Holds(p, call[p]) /\ Come(call[p])
         /\ call[p].generation \in Generations /\ NoGeneration \notin Generations
         /\ call[p].kind # "untracked" => call[p].generation \in Operations
         /\ Operations \cap Fresh = {}
<1>1. call[p].step # "idle"
  BY DEF Inside, Kinds, WorkSteps
<1>2. NoGeneration \notin Generations /\ Operations \cap Fresh = {}
  BY RuntimeActivationAssumption DEF RuntimeActivationAssumption
<1>. QED
  BY <1>1, <1>2, Called DEF CallRec, Asks

\* The step of a call moved on.
LEMMA MovedTo ==
  ASSUME IInv, NEW p \in Processes, call[p].step \in Inside, NEW s \in Inside, GoTo(p, s)
  PROVE  \E k \in CallRec :
            /\ k.step = s /\ k.kind = call[p].kind /\ k.generation = call[p].generation
            /\ k.data = call[p].data /\ k.epoch = call[p].epoch
            /\ call' = [call EXCEPT ![p] = k]
<1>1. PICK k : k = [call[p] EXCEPT !.step = s]
  OBVIOUS
<1>2. call[p] \in CallRec
  BY AtWork
<1>3. /\ k \in CallRec /\ k.step = s /\ k.kind = call[p].kind /\ k.generation = call[p].generation
      /\ k.data = call[p].data /\ k.epoch = call[p].epoch
  BY <1>1, <1>2 DEF CallRec
<1>4. call' = [call EXCEPT ![p] = k]
  BY <1>1 DEF GoTo
<1>. QED
  BY <1>3, <1>4

\* A record written on keeps the files in order when its operation is not selected,
\* or goes on as a published one.
LEMMA Recorded ==
  ASSUME IInv, NEW o \in Operations, NEW s \in State,
         operation' = [operation EXCEPT ![o] = s], UNCHANGED <<published, selected, helper>>,
         selected = o => s \in {"publicationIntent", "uncertain", "completed", "recovered"},
         selected = o /\ s = "completed" => helper = o
  PROVE  FilesOK'
BY DEF IInv, FilesOK, UnpublishedIsNotSelected, SelectionIsWhole

\* Records that are not called published are not of the selected generation.
LEMMA NotSelected ==
  ASSUME IInv, NEW o \in Operations,
         operation[o] \in {"none", "torn", "accepted", "preparing", "failedBeforePublication"}
  PROVE  selected # o
BY DEF IInv, FilesOK, UnpublishedIsNotSelected

LEMMA AcceptStep ==
  ASSUME IInv, NEW p \in Processes, Accept(p)
  PROVE  IInv'
<1> DEFINE o == call[p].generation
<1>1. call[p].step = "tracked" /\ call[p].step \in Inside
  BY DEF Accept, At, Inside, Kinds
<1>2. /\ Asks(call[p]) /\ call[p].kind = "tracked" /\ o \in Operations
  BY <1>1, AtWork DEF Asks, Kinds
<1>3. CASE Known(o) \/ Newer(o)
  <2>1. Leave(p) /\ UNCHANGED files /\ host' = host /\ faults' \in 0..MaxFaults
    BY <1>3 DEF Accept, files, IInv
  <2>. QED
    BY <2>1, SameFiles, Leaves
<1>4. CASE ~Known(o) /\ ~Newer(o)
  <2>1. /\ operation' = [operation EXCEPT ![o] = "torn"] /\ GoTo(p, "accept")
        /\ UNCHANGED <<owner, store, host, published, selected, helper, faults>>
    BY <1>4 DEF Accept
  <2>2. PICK k \in CallRec :
            /\ k.step = "accept" /\ k.kind = call[p].kind /\ k.generation = o
            /\ k.data = call[p].data /\ k.epoch = call[p].epoch
            /\ call' = [call EXCEPT ![p] = k]
    BY <1>1, <2>1, MovedTo DEF Inside, WorkSteps
  <2>3. selected # o
    BY <1>2, <1>4, NotSelected DEF Known
  <2>4. FilesOK'
    BY <1>2, <2>1, <2>3, Recorded DEF State
  <2>5. Asks(k)
    BY <1>2, <2>2 DEF Asks, Kinds
  <2>6. Come(k)'
    BY <1>2, <1>4, <2>1, <2>2 DEF Come, Newer, IInv, FilesOK
  <2>. QED
    BY <1>1, <2>1, <2>2, <2>4, <2>5, <2>6, WorksOn DEF Inside, WorkSteps
<1>. QED
  BY <1>3, <1>4

LEMMA WriteStep ==
  ASSUME IInv, NEW p \in Processes, Write(p)
  PROVE  IInv'
<1> DEFINE o == call[p].generation
<1>1. call[p].step \in {"accept", "prepare", "intend", "complete"} /\ call[p].step \in Inside
  BY DEF Write, Writes, Inside, WorkSteps
<1>2. /\ Asks(call[p]) /\ call[p].kind = "tracked" /\ o \in Operations /\ Come(call[p])
  BY <1>1, AtWork DEF Asks
<1>3. call[p].step = "complete" => selected = o /\ helper = o
  BY <1>2 DEF Come
<1>4. call[p].step # "complete" => selected # o
  BY <1>1, <1>2, NotSelected DEF Come
<1>5. /\ operation' = [operation EXCEPT ![o] = Writes[call[p].step]]
      /\ UNCHANGED <<host, published, selected, helper, faults>>
      /\ Writes[call[p].step] \in {"accepted", "preparing", "publicationIntent", "completed"}
      /\ call[p].step = "complete" => Writes[call[p].step] = "completed"
  BY <1>1 DEF Write, Writes
<1>6. FilesOK'
  BY <1>2, <1>3, <1>4, <1>5, Recorded DEF State
<1>7. CASE call[p].step = "complete"
  <2>1. Leave(p) /\ faults' \in 0..MaxFaults
    BY <1>7 DEF Write, At, IInv
  <2>. QED
    BY <1>1, <1>5, <1>6, <2>1, Leaves
<1>8. CASE call[p].step # "complete"
  <2>1. GoTo(p, After[call[p].step]) /\ UNCHANGED <<owner, store>>
    BY <1>8 DEF Write, At
  <2>2. PICK s \in Inside : s = After[call[p].step] /\ s \in {"prepare", "publish", "select"}
    BY <1>1, <1>8 DEF After, Inside, WorkSteps
  <2>3. PICK k \in CallRec :
            /\ k.step = s /\ k.kind = call[p].kind /\ k.generation = o
            /\ k.data = call[p].data /\ k.epoch = call[p].epoch
            /\ call' = [call EXCEPT ![p] = k]
    BY <1>1, <2>1, <2>2, MovedTo
  <2>4. Asks(k)
    BY <1>2, <2>2, <2>3 DEF Asks, Kinds
  <2>5. operation'[o] = Writes[call[p].step]
    BY <1>2, <1>5 DEF IInv, FilesOK
  <2>6. Come(k)'
    BY <1>1, <1>2, <1>5, <1>8, <2>2, <2>3, <2>5 DEF Come, Newer, After, Writes
  <2>. QED
    BY <1>1, <1>5, <1>6, <2>1, <2>2, <2>3, <2>4, <2>6, WorksOn
<1>. QED
  BY <1>7, <1>8

LEMMA PublishStep ==
  ASSUME IInv, NEW p \in Processes, Publish(p)
  PROVE  IInv'
<1> DEFINE o == call[p].generation
<1>1. call[p].step = "publish" /\ call[p].step \in Inside
  BY DEF Publish, At, Inside, WorkSteps
<1>2. /\ Asks(call[p]) /\ o \in Generations /\ Come(call[p])
      /\ call[p].kind \in {"tracked", "untracked"}
  BY <1>1, AtWork DEF Asks
<1>3. /\ published' = published \cup {o}
      /\ UNCHANGED <<host, owner, store, selected, helper, operation, faults>>
  BY DEF Publish
<1>4. FilesOK'
  BY <1>2, <1>3 DEF IInv, FilesOK, UnpublishedIsNotSelected, SelectionIsWhole
<1>5. PICK s \in Inside : GoTo(p, s) /\ s = IF call[p].kind = "tracked" THEN "intend" ELSE "select"
  BY DEF Publish, Inside, WorkSteps
<1>6. PICK k \in CallRec :
            /\ k.step = s /\ k.kind = call[p].kind /\ k.generation = o
            /\ k.data = call[p].data /\ k.epoch = call[p].epoch
            /\ call' = [call EXCEPT ![p] = k]
  BY <1>1, <1>5, MovedTo
<1>7. Asks(k)
  BY <1>1, <1>2, <1>5, <1>6 DEF Asks, Kinds
<1>8. Come(k)'
  BY <1>1, <1>2, <1>3, <1>5, <1>6 DEF Come, Newer, Asks
<1>. QED
  BY <1>1, <1>3, <1>4, <1>5, <1>6, <1>7, <1>8, WorksOn

LEMMA SelectStep ==
  ASSUME IInv, NEW p \in Processes, Select(p)
  PROVE  IInv'
<1> DEFINE o == call[p].generation
<1>1. call[p].step = "select" /\ call[p].step \in Inside
  BY DEF Select, At, Inside, WorkSteps
<1>2. /\ Asks(call[p]) /\ o \in Generations /\ Come(call[p]) /\ NoGeneration \notin Generations
      /\ call[p].kind \in {"tracked", "untracked"} /\ Operations \cap Fresh = {}
      /\ o \in published
  BY <1>1, AtWork DEF Asks, Come
<1>3. /\ selected' = o
      /\ UNCHANGED <<host, owner, store, published, helper, operation, faults>>
  BY DEF Select
<1>4. o \in Operations /\ o # selected => operation[o] = "publicationIntent"
  BY <1>1, <1>2 DEF Come
<1>5. FilesOK'
  BY <1>2, <1>3, <1>4 DEF IInv, FilesOK, UnpublishedIsNotSelected, SelectionIsWhole
<1>6. PICK k \in CallRec :
            /\ k.step = "refresh" /\ k.kind = call[p].kind /\ k.generation = o
            /\ k.data = call[p].data /\ k.epoch = call[p].epoch
            /\ call' = [call EXCEPT ![p] = k]
  BY <1>1, MovedTo DEF Select, Inside, WorkSteps
<1>7. Asks(k)
  BY <1>1, <1>2, <1>6 DEF Asks, Kinds
<1>8. Come(k)'
  BY <1>1, <1>2, <1>3, <1>6 DEF Come
<1>. QED
  BY <1>1, <1>3, <1>5, <1>6, <1>7, <1>8, WorksOn DEF Inside, WorkSteps

LEMMA RefreshStep ==
  ASSUME IInv, NEW p \in Processes, Refresh(p)
  PROVE  IInv'
<1> DEFINE o == call[p].generation
<1>1. call[p].step = "refresh" /\ call[p].step \in Inside
  BY DEF Refresh, At, Inside, WorkSteps
<1>2. /\ Asks(call[p]) /\ Come(call[p]) /\ selected = o
  BY <1>1, AtWork DEF Come
<1>3. helper' = selected /\ UNCHANGED <<host, published, selected, operation, faults>>
  BY DEF Refresh
<1>4. FilesOK'
  BY <1>3 DEF IInv, FilesOK, UnpublishedIsNotSelected, SelectionIsWhole
<1>5. CASE call[p].kind = "tracked"
  <2>1. GoTo(p, "complete") /\ UNCHANGED <<owner, store>>
    BY <1>5 DEF Refresh
  <2>2. PICK k \in CallRec :
            /\ k.step = "complete" /\ k.kind = call[p].kind /\ k.generation = o
            /\ k.data = call[p].data /\ k.epoch = call[p].epoch
            /\ call' = [call EXCEPT ![p] = k]
    BY <1>1, <2>1, MovedTo DEF Inside, WorkSteps
  <2>3. Asks(k)
    BY <1>2, <1>5, <2>2 DEF Asks, Kinds
  <2>4. Come(k)'
    BY <1>1, <1>2, <1>3, <1>5, <2>2 DEF Come
  <2>. QED
    BY <1>1, <1>3, <1>4, <2>1, <2>2, <2>3, <2>4, WorksOn DEF Inside, WorkSteps
<1>6. CASE call[p].kind # "tracked"
  <2>1. Leave(p) /\ faults' \in 0..MaxFaults
    BY <1>3, <1>6 DEF Refresh, IInv
  <2>. QED
    BY <1>1, <1>3, <1>4, <2>1, Leaves
<1>. QED
  BY <1>5, <1>6

LEMMA FaultStep ==
  ASSUME IInv, NEW p \in Processes, Fault(p)
  PROVE  IInv'
<1> DEFINE o == call[p].generation
<1>1. call[p].step \in WorkSteps /\ call[p].step \in Inside
  BY DEF Fault, Failing, Inside, WorkSteps
<1>2. Asks(call[p]) /\ Come(call[p]) /\ (call[p].kind = "tracked" => o \in Operations)
  BY <1>1, AtWork DEF Kinds
<1>3. Leave(p) /\ UNCHANGED <<host, published, selected, helper>>
  BY DEF Fault
<1>4. faults' \in 0..MaxFaults
  BY RuntimeActivationAssumption DEF Fault, IInv, RuntimeActivationAssumption
<1>5. CASE call[p].kind = "tracked" /\ operation' = [operation EXCEPT ![o] = Outcome(p)]
  <2>1. Outcome(p) \in {"failedBeforePublication", "uncertain"} /\ Outcome(p) \in State
    BY DEF Outcome, State
  <2>2. selected = o => Outcome(p) = "uncertain"
    <3>1. call[p].step \in {"accept", "prepare", "publish"} => selected # o
      BY <1>2, <1>5, NotSelected DEF Come
    <3>. QED
      BY <3>1, <1>1 DEF Outcome, At
  <2>3. FilesOK'
    BY <1>2, <1>3, <1>5, <2>1, <2>2, Recorded
  <2>. QED
    BY <1>1, <1>3, <1>4, <2>3, Leaves
<1>6. CASE operation' = operation
  <2>1. FilesOK'
    BY <1>3, <1>6, SameFiles DEF files
  <2>. QED
    BY <1>1, <1>3, <1>4, <2>1, Leaves
<1>. QED
  BY <1>5, <1>6 DEF Fault

LEMMA ChooseStep ==
  ASSUME IInv, NEW p \in Processes, Choose(p)
  PROVE  IInv'
<1> DEFINE g == call[p].generation
<1>1. call[p].step = "untracked" /\ call[p].step \in Inside
  BY DEF Choose, At, Inside, Kinds
<1>2. /\ Asks(call[p]) /\ Come(call[p]) /\ call[p] \in CallRec
      /\ call[p].kind = "untracked" /\ g \in Fresh /\ g \in Generations
  BY <1>1, AtWork DEF Asks, Kinds
<1>3. UNCHANGED <<host, files, faults>> /\ FilesOK' /\ faults' \in 0..MaxFaults
  BY SameFiles DEF Choose, IInv
<1>4. CASE Leave(p)
  BY <1>1, <1>3, <1>4, Leaves
<1>5. CASE /\ SameAsSelected(g) /\ UNCHANGED <<owner, store>>
           /\ call' = [call EXCEPT ![p].generation = selected, ![p].step = "select"]
  <2>1. PICK k : k = [call[p] EXCEPT !.generation = selected, !.step = "select"]
    OBVIOUS
  <2>2. call' = [call EXCEPT ![p] = k]
    BY <1>2, <1>5, <2>1 DEF IInv, CallRec
  <2>3. selected \in Generations /\ selected \in published
    BY <1>5 DEF SameAsSelected, IInv, FilesOK, SelectionIsWhole
  <2>4. /\ k \in CallRec /\ k.step = "select" /\ k.kind = "untracked" /\ k.generation = selected
        /\ k.data = call[p].data /\ k.epoch = call[p].epoch
    BY <1>2, <2>1, <2>3 DEF CallRec, Inside, WorkSteps
  <2>5. Asks(k)
    BY <2>4 DEF Asks, Kinds
  <2>6. ~Newer(selected)
    BY <2>3, RuntimeActivationAssumption DEF RuntimeActivationAssumption, Newer
  <2>7. Come(k)'
    BY <1>3, <2>3, <2>4, <2>6 DEF Come, files, Newer
  <2>. QED
    BY <1>1, <1>3, <1>5, <2>2, <2>4, <2>5, <2>7, WorksOn DEF Inside, WorkSteps
<1>6. CASE ~Newer(g) /\ GoTo(p, "publish") /\ UNCHANGED <<owner, store>>
  <2>1. PICK k \in CallRec :
            /\ k.step = "publish" /\ k.kind = call[p].kind /\ k.generation = g
            /\ k.data = call[p].data /\ k.epoch = call[p].epoch
            /\ call' = [call EXCEPT ![p] = k]
    BY <1>1, <1>6, MovedTo DEF Inside, WorkSteps
  <2>2. Asks(k)
    BY <1>2, <2>1 DEF Asks, Kinds
  <2>3. Come(k)'
    BY <1>2, <1>3, <1>6, <2>1 DEF Come, files, Newer
  <2>. QED
    BY <1>1, <1>3, <1>6, <2>1, <2>2, <2>3, WorksOn DEF Inside, WorkSteps
<1>. QED
  BY <1>4, <1>5, <1>6 DEF Choose

LEMMA AdoptStep ==
  ASSUME IInv, NEW p \in Processes, Adopt(p)
  PROVE  IInv'
<1> DEFINE o == call[p].generation
<1>1. call[p].step = "adopt" /\ call[p].step \in Inside
  BY DEF Adopt, At, Inside, Kinds
<1>2. o \in Operations
  BY <1>1, AtWork DEF Asks, Kinds
<1>3. Leave(p) /\ UNCHANGED <<host, published, selected, helper>> /\ faults' \in 0..MaxFaults
  BY DEF Adopt, IInv
<1>4. FilesOK'
  <2>1. CASE Adoptable(o)
    BY <1>2, <1>3, <2>1, Recorded DEF Adopt, State
  <2>2. CASE ~Adoptable(o)
    BY <1>3, <2>2, SameFiles DEF Adopt, files
  <2>. QED
    BY <2>1, <2>2
<1>. QED
  BY <1>1, <1>3, <1>4, Leaves

LEMMA EndStep ==
  ASSUME IInv, NEW p \in Processes, Inspect(p) \/ Die(p)
  PROVE  IInv'
<1>1. faults' \in 0..MaxFaults
  BY RuntimeActivationAssumption DEF Inspect, Die, IInv, RuntimeActivationAssumption
<1>2. Leave(p) /\ host' = host /\ UNCHANGED files
  BY DEF Inspect, Die
<1>. QED
  BY <1>1, <1>2, SameFiles, Leaves

-----------------------------------------------------------------------------
(* The invariant is inductive.                                              *)

LEMMA InitIInv == Init => IInv
<1> SUFFICES ASSUME Init
             PROVE  IInv
  OBVIOUS
<1>1. host \in Hosts /\ faults \in 0..MaxFaults
  BY RuntimeActivationAssumption DEF Init, Hosts, RuntimeActivationAssumption
<1>2. LocksOK /\ StartsInTime
  BY RuntimeActivationAssumption DEF Init, LocksOK, StartsInTime, RuntimeActivationAssumption
<1>3. FilesOK
  BY RuntimeActivationAssumption
  DEF Init, FilesOK, UnpublishedIsNotSelected, SelectionIsWhole, State, RuntimeActivationAssumption,
      Generations
<1>4. call \in [Processes -> CallRec \cup {Idle}] /\ \A p \in Processes : CallOK(p)
  BY DEF Init, CallOK
<1>. QED
  BY <1>1, <1>2, <1>3, <1>4 DEF IInv

LEMMA NextKeepsIInv == IInv /\ [Next]_vars => IInv'
<1> SUFFICES ASSUME IInv, [Next]_vars
             PROVE  IInv'
  OBVIOUS
<1>1. ASSUME NEW p \in Processes, Step(p)
      PROVE  IInv'
  BY <1>1, WayStep, AcceptStep, WriteStep, PublishStep, SelectStep, RefreshStep, FaultStep,
     ChooseStep, AdoptStep, EndStep DEF Step
<1>2. CASE UNCHANGED vars
  BY <1>2 DEF vars, files, IInv, Hosts, LocksOK, StartsInTime, FilesOK, UnpublishedIsNotSelected,
              SelectionIsWhole, CallOK, Asks, Holds, Come, Newer
<1>. QED
  BY <1>1, <1>2, DaemonStep, BeginStep DEF Next

LEMMA AlwaysIInv == Spec => []IInv
BY InitIInv, NextKeepsIInv, PTL DEF Spec

(* What is selected is published and whole, and no record that calls an     *)
(* operation unpublished is of the selected one, whichever process dies     *)
(* where (publish, activate).                                               *)
THEOREM SelectionIsTrusted == Spec => []ActivationInvariant
<1>1. IInv => ActivationInvariant
  BY DEF IInv, LocksOK, FilesOK, Hosts, ActivationInvariant, TypeOK
<1>. QED
  BY <1>1, AlwaysIInv, PTL

-----------------------------------------------------------------------------
(* What a step does to the files.                                           *)

\* Only an activation's own steps write.
LEMMA Written ==
  ASSUME IInv, [Next]_vars, ~UNCHANGED files
  PROVE  \E p \in Processes :
            Accept(p) \/ Write(p) \/ Publish(p) \/ Select(p) \/ Refresh(p) \/ Fault(p) \/ Adopt(p)
<1>1. ASSUME NEW p \in Processes, Step(p)
      PROVE  Accept(p) \/ Write(p) \/ Publish(p) \/ Select(p) \/ Refresh(p) \/ Fault(p) \/ Adopt(p)
  BY <1>1 DEF Step, TakeHost, CheckHost, TakeStore, Choose, Inspect, Die
<1>2. ASSUME NEW d \in Dirs, StartDaemon(d) \/ OpenDaemon(d) \/ QuiesceDaemon(d) \/ StopDaemon(d)
      PROVE  FALSE
  BY <1>2 DEF StartDaemon, OpenDaemon, QuiesceDaemon, StopDaemon
<1>3. ASSUME NEW p \in Processes, NEW request \in Requests, Begin(p, request)
      PROVE  FALSE
  BY <1>3 DEF Begin
<1>. QED
  BY <1>1, <1>2, <1>3 DEF Next, vars, files

\* A process at work on an operation holds its owner's lock behind the closed epoch.
LEMMA OwnerIsHeld ==
  ASSUME IInv, NEW p \in Processes, call[p].step \in Inside, call[p].kind \in {"tracked", "adopt"}
  PROVE  LET o == call[p].generation IN
         /\ host[Scope[o].data] = [epoch |-> Scope[o].epoch, mode |-> "closed"]
         /\ owner[Scope[o].data] \in Processes
<1> DEFINE o == call[p].generation
<1>1. /\ o \in Operations /\ call[p].data = Scope[o].data /\ call[p].epoch = Scope[o].epoch
      /\ owner[call[p].data] = p
      /\ call[p].epoch # 0 =>
             host[call[p].data] = [epoch |-> call[p].epoch, mode |-> "closed"]
  BY AtWork DEF Asks, Holds, Inside, Kinds, WorkSteps
<1>2. Scope[o].epoch \in 1..MaxEpoch
  BY <1>1, RuntimeActivationAssumption DEF RuntimeActivationAssumption
<1>. QED
  BY <1>1, <1>2, RuntimeActivationAssumption DEF RuntimeActivationAssumption

(* A tracked operation writes its record, publishes and is selected only    *)
(* while its owner is gone and the epoch it was planned for is closed       *)
(* (ActivationLease, verify_host).                                          *)
THEOREM OwnerIsRespected == Spec => OperationsRespectTheOwner
<1>1. ASSUME IInv, [Next]_vars, NEW o \in Operations,
             \/ operation'[o] # operation[o]
             \/ selected' = o /\ selected # o
             \/ o \in published' /\ o \notin published
      PROVE  /\ host[Scope[o].data] = [epoch |-> Scope[o].epoch, mode |-> "closed"]
             /\ owner[Scope[o].data] \in Processes
  <2>1. ~UNCHANGED files
    BY <1>1 DEF files
  <2>2. PICK p \in Processes :
            Accept(p) \/ Write(p) \/ Publish(p) \/ Select(p) \/ Refresh(p) \/ Fault(p) \/ Adopt(p)
    BY <1>1, <2>1, Written
  <2>3. call[p].step \in Inside
    BY <2>2 DEF Accept, Write, Writes, Publish, Select, Refresh, Fault, Failing, Adopt, At, Inside,
                Kinds, WorkSteps
  <2>4. /\ call[p].kind # "untracked" =>
             call[p].generation \in Operations
        /\ Asks(call[p]) /\ Come(call[p])
        /\ Operations \cap Fresh = {}
    BY <1>1, <2>3, AtWork
  <2>5. call[p].generation = o
    BY <1>1, <2>2 DEF Accept, Write, Publish, Select, Refresh, Fault, Adopt, IInv, FilesOK
  <2>6. call[p].kind \in {"tracked", "adopt"}
    BY <1>1, <2>2, <2>4, <2>5 DEF Accept, Write, Writes, Publish, Select, Refresh, Fault, Adopt, At,
                                  Asks, Come, Kinds
  <2>. QED
    BY <1>1, <2>3, <2>5, <2>6, OwnerIsHeld
<1>2. IInv /\ [Next]_vars =>
         [\A o \in Operations :
             \/ operation'[o] # operation[o]
             \/ selected' = o /\ selected # o
             \/ o \in published' /\ o \notin published
             => /\ host[Scope[o].data] = [epoch |-> Scope[o].epoch, mode |-> "closed"]
                /\ owner[Scope[o].data] \in Processes]_vars
  BY <1>1
<1>. QED
  BY <1>2, AlwaysIInv, PTL DEF Spec, OperationsRespectTheOwner

(* No activation, of whatever data directory, takes the place of a newer    *)
(* release (activate, activate_at_expected).                                *)
THEOREM NewestStaysSelected == Spec => SelectionNeverRegresses
<1>1. ASSUME IInv, [Next]_vars, selected # NoGeneration, selected' # selected
      PROVE  Release[selected'].version >= Release[selected].version
  <2>1. ~UNCHANGED files
    BY <1>1 DEF files
  <2>2. PICK p \in Processes : Select(p)
    BY <1>1, <2>1, Written DEF Accept, Write, Publish, Refresh, Fault, Adopt
  <2>3. call[p].step = "select" /\ call[p].step \in Inside /\ selected' = call[p].generation
    BY <2>2 DEF Select, At, Inside, WorkSteps
  <2>4. ~Newer(call[p].generation) /\ call[p].generation \in Generations
    BY <1>1, <2>3, AtWork DEF Come
  <2>5. selected \in Generations
    BY <1>1 DEF IInv, FilesOK
  <2>6. Release[selected].version \in Nat /\ Release[selected'].version \in Nat
    BY <2>3, <2>4, <2>5, RuntimeActivationAssumption DEF RuntimeActivationAssumption
  <2>7. ~(Release[selected].version > Release[selected'].version)
    BY <1>1, <2>3, <2>4 DEF Newer
  <2>. QED
    BY <2>6, <2>7
<1>2. IInv /\ [Next]_vars =>
         [selected # NoGeneration /\ selected' # selected =>
             Release[selected'].version >= Release[selected].version]_vars
  BY <1>1
<1>. QED
  BY <1>2, AlwaysIInv, PTL DEF Spec, SelectionNeverRegresses

(* What an operation came to is final, and it is adopted only after it was  *)
(* selected (activate, adopt).                                              *)
THEOREM OutcomesAreFinal == Spec => OutcomeIsFinal
<1>1. ASSUME IInv, [Next]_vars, NEW o \in Operations, operation'[o] # operation[o]
      PROVE  /\ Rank[operation'[o]] > Rank[operation[o]] /\ Rank[operation[o]] < 7
             /\ operation'[o] = "recovered" => selected = o
  <2>1. ~UNCHANGED files
    BY <1>1 DEF files
  <2>2. PICK p \in Processes : Accept(p) \/ Write(p) \/ Fault(p) \/ Adopt(p)
    BY <1>1, <2>1, Written DEF Publish, Select, Refresh
  <2>3. call[p].step \in Inside
    BY <2>2 DEF Accept, Write, Writes, Fault, Failing, Adopt, At, Inside, Kinds, WorkSteps
  <2>4. /\ call[p].kind # "untracked" => call[p].generation \in Operations
        /\ Asks(call[p]) /\ Come(call[p])
    BY <1>1, <2>3, AtWork
  <2>5. call[p].generation = o /\ operation \in [Operations -> State]
    BY <1>1, <2>2 DEF Accept, Write, Fault, Adopt, IInv, FilesOK
  <2>6. CASE Accept(p)
    BY <1>1, <2>5, <2>6 DEF Accept, Known, Rank
  <2>7. CASE Write(p)
    <3>1. call[p].step \in {"accept", "prepare", "intend", "complete"}
          /\ operation'[o] = Writes[call[p].step]
      BY <1>1, <2>5, <2>7 DEF Write, Writes
    <3>2. call[p].kind = "tracked"
      BY <2>4, <3>1 DEF Asks
    <3>. QED
      BY <2>4, <2>5, <3>1, <3>2 DEF Come, Writes, Rank
  <2>8. CASE Fault(p)
    <3>1. /\ call[p].kind = "tracked" /\ call[p].step # "accept" /\ call[p].step \in WorkSteps
          /\ operation'[o] = Outcome(p)
      BY <1>1, <2>5, <2>8 DEF Fault, Failing, WorkSteps, At
    <3>2. call[p].step \in {"prepare", "publish"} =>
             operation[o] \in {"accepted", "preparing"} /\ Outcome(p) = "failedBeforePublication"
      BY <2>4, <2>5, <3>1 DEF Come, Outcome, At
    <3>3. call[p].step \in {"intend", "select", "refresh", "complete"} =>
             operation[o] \in {"preparing", "publicationIntent"} /\ Outcome(p) = "uncertain"
      BY <2>4, <2>5, <3>1 DEF Come, Outcome, At
    <3>. QED
      BY <3>1, <3>2, <3>3 DEF Rank, WorkSteps
  <2>9. CASE Adopt(p)
    BY <1>1, <2>5, <2>9 DEF Adopt, Adoptable, Rank
  <2>. QED
    BY <2>2, <2>6, <2>7, <2>8, <2>9
<1>2. IInv /\ [Next]_vars =>
         [\A o \in Operations :
             operation'[o] # operation[o] =>
                 /\ Rank[operation'[o]] > Rank[operation[o]] /\ Rank[operation[o]] < 7
                 /\ operation'[o] = "recovered" => selected = o]_vars
  BY <1>1
<1>. QED
  BY <1>2, AlwaysIInv, PTL DEF Spec, OutcomeIsFinal
=============================================================================
