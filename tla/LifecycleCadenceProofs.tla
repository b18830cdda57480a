------------------------- MODULE LifecycleCadenceProofs -------------------------
(***************************************************************************)
(* Proofs about LifecycleCadence for every set of providers and prompts and *)
(* every process bound.                                                     *)
(***************************************************************************)
EXTENDS LifecycleCadence, FiniteSetTheorems, TLAPS

-----------------------------------------------------------------------------
(* The inductive invariant.                                                 *)

\* What holds of one host, wherever the cadence is.
Sound(host) ==
    /\ host \in Host
    /\ host.made \/ host = Absent
    /\ host.pending # "none" \/ host.supervisor = "draining" => host.armed
    /\ host.asked => host.pending = "shutdown" \/ host.supervisor \in {"draining", "stopped"}
    /\ host.gone <= host.spare

Shapes ==
    /\ latch \in [phase : {"recovering", "ready", "draining"}, quiesced : BOOLEAN]
    /\ cadence \in {"start", "recover", "open", "check", "lock", "pass", "select", "permits",
                    "begin", "done", "failed"}
    /\ stopping \in BOOLEAN /\ notify \in BOOLEAN
    /\ todo \subseteq Hosts /\ ready \subseteq Hosts
    /\ hosts \in [Hosts -> Host] /\ \A h \in Hosts : Sound(hosts[h])
    /\ prompts \in [Prompts -> {"unsent", "queued", "running", "settled", "failed"}]
    /\ request \in [Prompts -> {"none", "admitted", "spawned", "holding", "woke", "done"}]
    /\ provider \in [Prompts -> {"silent", "completed", "exited"}]
    /\ warming \in [step : {"idle", "holding", "woke"}, left : 0..WarmUps]

Bounded == \A h \in Hosts : IsFiniteSet(Turns(h)) /\ ActiveLen(h) <= MaxActive

\* A prompt with a permit is not committed yet.
AdmittedIsUnsent == \A p \in Prompts : request[p] = "admitted" => prompts[p] = "unsent"

\* The latch is at least as far as the cadence, and a quiesced one is closed
\* behind every permit.
LatchLeads ==
    /\ latch.phase = "ready" => cadence \notin {"start", "recover", "open"}
    /\ cadence \in {"permits", "begin"} \/ stopping => latch.phase = "draining"
    /\ stopping => cadence \in {"check", "lock", "pass", "done", "failed"}
    /\ latch.quiesced => /\ latch.phase = "draining" /\ ~Permitted
                         /\ cadence \notin {"start", "recover", "open"}

\* A pass visits armed hosts, and the shutdown loop leaves none unasked.
Visits ==
    /\ cadence = "pass" => \A h \in todo : hosts[h].armed
    /\ cadence = "begin" => \A h \in Hosts \ todo : hosts[h].made => hosts[h].asked
    /\ stopping => \A h \in Hosts : hosts[h].made => hosts[h].asked

\* In a quiesced daemon only the shutdown arms a host.
QuiescedIsUnarmed ==
    latch.quiesced /\ ~stopping =>
        \A h \in Hosts : hosts[h].armed =>
            hosts[h].asked /\ h \notin todo /\ cadence \in {"begin", "failed"}

IInv == /\ Shapes /\ Bounded /\ AdmittedIsUnsent /\ LatchLeads /\ Visits /\ QuiescedIsUnarmed
        /\ ArmedHostIsDriven /\ NoPermitWhileDraining /\ QuiescedOwnerStopsCleanly


-----------------------------------------------------------------------------
(* Hosts.                                                                   *)

LEMMA Constants ==
  /\ HostOf \in [Prompts -> Hosts] /\ Left \subseteq Prompts /\ ReadyAtStart \subseteq Hosts
  /\ MaxActive \in Nat /\ WarmUps \in Nat
BY LifecycleCadenceAssumption DEF LifecycleCadenceAssumption

LEMMA NewHosts ==
  /\ Sound(Absent) /\ Absent.made = FALSE /\ Absent.armed = FALSE /\ Absent.asked = FALSE
  /\ Absent.supervisor = "awaitingRecovery" /\ Absent.spare = 0 /\ Absent.gone = 0
  /\ Sound(Made) /\ Made.made = TRUE /\ Made.armed = FALSE /\ Made.asked = FALSE
  /\ Made.supervisor = "awaitingRecovery" /\ Made.spare = 0 /\ Made.gone = 0
<1>1. /\ Absent.made = FALSE /\ Absent.armed = FALSE /\ Absent.supervisor = "awaitingRecovery"
      /\ Absent.spare = 0 /\ Absent.gone = 0 /\ Absent.pending = "none" /\ Absent.asked = FALSE
      /\ Absent.loop = "awaitingWake"
  BY DEF Absent
<1>2. Absent \in Host
  BY Constants DEF Absent, Host
<1>3. Sound(Absent)
  BY <1>1, <1>2 DEF Sound
<1>4. /\ Made.made = TRUE /\ Made.armed = FALSE /\ Made.supervisor = "awaitingRecovery"
      /\ Made.spare = 0 /\ Made.gone = 0 /\ Made.pending = "none" /\ Made.asked = FALSE
      /\ Made.loop = "awaitingWake"
  BY DEF Absent, Made
<1>5. Made \in Host
  BY <1>2 DEF Made, Host
<1>6. Sound(Made)
  BY <1>4, <1>5 DEF Sound
<1>. QED
  BY <1>1, <1>3, <1>4, <1>6

\* A host that is armed was made.
LEMMA ArmedIsMade ==
  ASSUME NEW x, Sound(x), x.armed \/ x.asked \/ x.spare # 0
  PROVE  x.made
BY NewHosts DEF Sound

LEMMA WokenHost ==
  ASSUME NEW x, Sound(x), x.made
  PROVE  /\ Sound(Wake(x)) /\ Wake(x).made /\ Wake(x).armed
         /\ Wake(x).asked = x.asked /\ Wake(x).supervisor = x.supervisor
         /\ Wake(x).spare = x.spare /\ Wake(x).gone = x.gone
BY DEF Sound, Host, Wake

\* Making a host changes nothing else about it.
LEMMA StartedHost ==
  ASSUME Shapes, NEW h \in Hosts, NEW x, x = StartExisting(h)
  PROVE  /\ Sound(x) /\ (hosts[h].made \/ h \in ready => x.made)
         /\ (x.made \/ x = Absent)
         /\ x.armed = hosts[h].armed /\ x.asked = hosts[h].asked
         /\ x.supervisor = hosts[h].supervisor /\ x.spare = hosts[h].spare /\ x.gone = hosts[h].gone
<1>1. CASE hosts[h].made \/ h \notin ready
  BY <1>1 DEF Shapes, Sound, StartExisting
<1>2. CASE ~hosts[h].made /\ h \in ready
  <2>1. x = Made /\ hosts[h] = Absent
    BY <1>2 DEF Shapes, Sound, StartExisting
  <2>. QED
    BY <1>2, <2>1, NewHosts
<1>. QED
  BY <1>1, <1>2

LEMMA AskedHost ==
  ASSUME NEW x, Sound(x), x.made, MayBeginShutdown(x)
  PROVE  /\ Sound(BeginShutdown(x)) /\ BeginShutdown(x).made /\ BeginShutdown(x).asked
         /\ BeginShutdown(x).spare = x.spare
BY DEF Sound, Host, BeginShutdown, MayBeginShutdown

LEMMA OneHost ==
  ASSUME Shapes, NEW h \in Hosts, NEW y, Sound(y), hosts' = [hosts EXCEPT ![h] = y]
  PROVE  /\ hosts' \in [Hosts -> Host] /\ \A k \in Hosts : Sound(hosts'[k])
         /\ hosts'[h] = y /\ \A k \in Hosts : k # h => hosts'[k] = hosts[k]
BY DEF Shapes, Sound



-----------------------------------------------------------------------------
(* Steps that leave the hosts as they are.                                  *)

\* A step that starts and ends no turn keeps the process bound.
LEMMA Kept ==
  ASSUME IInv, hosts' = hosts,
         \A p \in Prompts : prompts'[p] = "running" <=> prompts[p] = "running"
  PROVE  Bounded'
<1>1. ASSUME NEW h \in Hosts PROVE Turns(h)' = Turns(h)
  BY DEF Turns, PromptsOf
<1>. QED
  BY <1>1 DEF IInv, Bounded, ActiveLen

LEMMA AcquirePromptStep ==
  ASSUME IInv, NEW p \in Prompts, ~Stopped, AcquirePrompt(p)
  PROVE  IInv'
<1>1. Shapes'
  BY DEF AcquirePrompt, IInv, Shapes
<1>2. Bounded'
  BY Kept DEF AcquirePrompt, IInv, Shapes, AdmittedIsUnsent
<1>3. LatchLeads' /\ NoPermitWhileDraining'
  BY DEF AcquirePrompt, IInv, Shapes, LatchLeads, NoPermitWhileDraining, Permitted, Permits
<1>4. Visits'
  BY DEF AcquirePrompt, IInv, Shapes, LatchLeads, Visits
<1>5. QuiescedIsUnarmed' /\ QuiescedOwnerStopsCleanly'
  BY DEF AcquirePrompt, IInv, Shapes, LatchLeads, Visits, QuiescedIsUnarmed, QuiescedOwnerStopsCleanly, Stopped
<1>6. ArmedHostIsDriven'
  BY DEF AcquirePrompt, IInv, Shapes, LatchLeads, QuiescedIsUnarmed, ArmedHostIsDriven, PromptsOf
<1>7. AdmittedIsUnsent'
  BY DEF AcquirePrompt, IInv, Shapes, AdmittedIsUnsent
<1>. QED
  BY <1>1, <1>2, <1>3, <1>4, <1>5, <1>6, <1>7 DEF IInv

LEMMA SubmitStep ==
  ASSUME IInv, NEW p \in Prompts, ~Stopped, Submit(p)
  PROVE  IInv'
<1>1. Shapes'
  BY DEF Submit, IInv, Shapes
<1>2. Bounded'
  BY Kept DEF Submit, IInv, Shapes, AdmittedIsUnsent
<1>3. LatchLeads' /\ NoPermitWhileDraining'
  BY DEF Submit, IInv, Shapes, LatchLeads, NoPermitWhileDraining, Permitted, Permits
<1>4. Visits'
  BY DEF Submit, IInv, Shapes, LatchLeads, Visits
<1>5. QuiescedIsUnarmed' /\ QuiescedOwnerStopsCleanly'
  BY DEF Submit, IInv, Shapes, LatchLeads, Visits, QuiescedIsUnarmed, QuiescedOwnerStopsCleanly, Stopped
<1>6. ArmedHostIsDriven'
  BY DEF Submit, IInv, Shapes, LatchLeads, QuiescedIsUnarmed, ArmedHostIsDriven, PromptsOf
<1>7. AdmittedIsUnsent'
  BY DEF Submit, IInv, Shapes, AdmittedIsUnsent
<1>. QED
  BY <1>1, <1>2, <1>3, <1>4, <1>5, <1>6, <1>7 DEF IInv

LEMMA AcquireOperationStep ==
  ASSUME IInv, NEW p \in Prompts, ~Stopped, AcquireOperation(p)
  PROVE  IInv'
<1>1. Shapes'
  BY DEF AcquireOperation, OperationAllowed, IInv, Shapes
<1>2. Bounded'
  BY Kept DEF AcquireOperation, IInv, Shapes, AdmittedIsUnsent
<1>3. LatchLeads' /\ NoPermitWhileDraining'
  BY DEF AcquireOperation, OperationAllowed, IInv, Shapes, LatchLeads, NoPermitWhileDraining, Permitted, Permits
<1>4. Visits'
  BY DEF AcquireOperation, OperationAllowed, IInv, Shapes, LatchLeads, Visits
<1>5. QuiescedIsUnarmed' /\ QuiescedOwnerStopsCleanly'
  BY DEF AcquireOperation, OperationAllowed, IInv, Shapes, LatchLeads, Visits, QuiescedIsUnarmed, QuiescedOwnerStopsCleanly, Stopped
<1>6. ArmedHostIsDriven'
  BY DEF AcquireOperation, OperationAllowed, IInv, Shapes, LatchLeads, QuiescedIsUnarmed, ArmedHostIsDriven, PromptsOf
<1>7. AdmittedIsUnsent'
  BY DEF AcquireOperation, OperationAllowed, IInv, Shapes, AdmittedIsUnsent
<1>. QED
  BY <1>1, <1>2, <1>3, <1>4, <1>5, <1>6, <1>7 DEF IInv

LEMMA NotifyWokenStep ==
  ASSUME IInv, NEW p \in Prompts, ~Stopped, NotifyWoken(p)
  PROVE  IInv'
<1>1. Shapes'
  BY DEF NotifyWoken, Notified, IInv, Shapes
<1>2. Bounded'
  BY Kept DEF NotifyWoken, IInv, Shapes, AdmittedIsUnsent
<1>3. LatchLeads' /\ NoPermitWhileDraining'
  BY DEF NotifyWoken, Notified, IInv, Shapes, LatchLeads, NoPermitWhileDraining, Permitted, Permits
<1>4. Visits'
  BY DEF NotifyWoken, Notified, IInv, Shapes, LatchLeads, Visits
<1>5. QuiescedIsUnarmed' /\ QuiescedOwnerStopsCleanly'
  BY DEF NotifyWoken, Notified, IInv, Shapes, LatchLeads, Visits, QuiescedIsUnarmed, QuiescedOwnerStopsCleanly, Stopped
<1>6. ArmedHostIsDriven'
  BY DEF NotifyWoken, Notified, IInv, Shapes, LatchLeads, QuiescedIsUnarmed, ArmedHostIsDriven, PromptsOf
<1>7. AdmittedIsUnsent'
  BY DEF NotifyWoken, Notified, IInv, Shapes, AdmittedIsUnsent
<1>. QED
  BY <1>1, <1>2, <1>3, <1>4, <1>5, <1>6, <1>7 DEF IInv

LEMMA AcquireWarmStep ==
  ASSUME IInv, ~Stopped, AcquireWarm
  PROVE  IInv'
<1>1. Shapes'
  BY Constants DEF AcquireWarm, IInv, Shapes
<1>2. Bounded'
  BY Kept DEF AcquireWarm, IInv, Shapes, AdmittedIsUnsent
<1>3. LatchLeads' /\ NoPermitWhileDraining'
  BY DEF AcquireWarm, IInv, Shapes, LatchLeads, NoPermitWhileDraining, Permitted, Permits
<1>4. Visits'
  BY DEF AcquireWarm, IInv, Shapes, LatchLeads, Visits
<1>5. QuiescedIsUnarmed' /\ QuiescedOwnerStopsCleanly'
  BY DEF AcquireWarm, IInv, Shapes, LatchLeads, Visits, QuiescedIsUnarmed, QuiescedOwnerStopsCleanly, Stopped
<1>6. ArmedHostIsDriven'
  BY DEF AcquireWarm, IInv, Shapes, LatchLeads, QuiescedIsUnarmed, ArmedHostIsDriven, PromptsOf
<1>7. AdmittedIsUnsent'
  BY DEF AcquireWarm, IInv, Shapes, AdmittedIsUnsent
<1>. QED
  BY <1>1, <1>2, <1>3, <1>4, <1>5, <1>6, <1>7 DEF IInv

LEMMA NotifyWarmStep ==
  ASSUME IInv, ~Stopped, NotifyWarm
  PROVE  IInv'
<1>1. Shapes'
  BY DEF NotifyWarm, Notified, IInv, Shapes
<1>2. Bounded'
  BY Kept DEF NotifyWarm, IInv, Shapes, AdmittedIsUnsent
<1>3. LatchLeads' /\ NoPermitWhileDraining'
  BY DEF NotifyWarm, Notified, IInv, Shapes, LatchLeads, NoPermitWhileDraining, Permitted, Permits
<1>4. Visits'
  BY DEF NotifyWarm, Notified, IInv, Shapes, LatchLeads, Visits
<1>5. QuiescedIsUnarmed' /\ QuiescedOwnerStopsCleanly'
  BY DEF NotifyWarm, Notified, IInv, Shapes, LatchLeads, Visits, QuiescedIsUnarmed, QuiescedOwnerStopsCleanly, Stopped
<1>6. ArmedHostIsDriven'
  BY DEF NotifyWarm, Notified, IInv, Shapes, LatchLeads, QuiescedIsUnarmed, ArmedHostIsDriven, PromptsOf
<1>7. AdmittedIsUnsent'
  BY DEF NotifyWarm, Notified, IInv, Shapes, AdmittedIsUnsent
<1>. QED
  BY <1>1, <1>2, <1>3, <1>4, <1>5, <1>6, <1>7 DEF IInv

LEMMA QuiesceStep ==
  ASSUME IInv, ~Stopped, Quiesce
  PROVE  IInv'
<1>1. Shapes'
  BY DEF Quiesce, OwnerIdle, RouterFree, IInv, Shapes
<1>2. Bounded'
  BY Kept DEF Quiesce, IInv, Shapes, AdmittedIsUnsent
<1>3. LatchLeads' /\ NoPermitWhileDraining'
  BY DEF Quiesce, OwnerIdle, RouterFree, IInv, Shapes, LatchLeads, NoPermitWhileDraining, Permitted, Permits
<1>4. Visits'
  BY DEF Quiesce, OwnerIdle, RouterFree, IInv, Shapes, LatchLeads, Visits
<1>5. QuiescedIsUnarmed' /\ QuiescedOwnerStopsCleanly'
  BY DEF Quiesce, OwnerIdle, RouterFree, IInv, Shapes, LatchLeads, Visits, QuiescedIsUnarmed, QuiescedOwnerStopsCleanly, Stopped
<1>6. ArmedHostIsDriven'
  BY DEF Quiesce, OwnerIdle, RouterFree, IInv, Shapes, LatchLeads, QuiescedIsUnarmed, ArmedHostIsDriven, PromptsOf
<1>7. AdmittedIsUnsent'
  BY DEF Quiesce, OwnerIdle, RouterFree, IInv, Shapes, AdmittedIsUnsent
<1>. QED
  BY <1>1, <1>2, <1>3, <1>4, <1>5, <1>6, <1>7 DEF IInv

LEMMA RequestShutdownStep ==
  ASSUME IInv, ~Stopped, RequestShutdown
  PROVE  IInv'
<1>1. Shapes'
  BY DEF RequestShutdown, IInv, Shapes
<1>2. Bounded'
  BY Kept DEF RequestShutdown, IInv, Shapes, AdmittedIsUnsent
<1>3. LatchLeads' /\ NoPermitWhileDraining'
  BY DEF RequestShutdown, IInv, Shapes, LatchLeads, NoPermitWhileDraining, Permitted, Permits
<1>4. Visits'
  BY DEF RequestShutdown, IInv, Shapes, LatchLeads, Visits
<1>5. QuiescedIsUnarmed' /\ QuiescedOwnerStopsCleanly'
  BY DEF RequestShutdown, IInv, Shapes, LatchLeads, Visits, QuiescedIsUnarmed, QuiescedOwnerStopsCleanly, Stopped
<1>6. ArmedHostIsDriven'
  BY DEF RequestShutdown, IInv, Shapes, LatchLeads, QuiescedIsUnarmed, ArmedHostIsDriven, PromptsOf
<1>7. AdmittedIsUnsent'
  BY DEF RequestShutdown, IInv, Shapes, AdmittedIsUnsent
<1>. QED
  BY <1>1, <1>2, <1>3, <1>4, <1>5, <1>6, <1>7 DEF IInv

LEMMA BeginStep ==
  ASSUME IInv, ~Stopped, Begin
  PROVE  IInv'
<1>1. Shapes'
  BY DEF Begin, IInv, Shapes
<1>2. Bounded'
  BY Kept DEF Begin, IInv, Shapes, AdmittedIsUnsent
<1>3. LatchLeads' /\ NoPermitWhileDraining'
  BY DEF Begin, IInv, Shapes, LatchLeads, NoPermitWhileDraining, Permitted, Permits
<1>4. Visits'
  BY DEF Begin, IInv, Shapes, LatchLeads, Visits
<1>5. QuiescedIsUnarmed' /\ QuiescedOwnerStopsCleanly'
  BY DEF Begin, IInv, Shapes, LatchLeads, Visits, QuiescedIsUnarmed, QuiescedOwnerStopsCleanly, Stopped
<1>6. ArmedHostIsDriven'
  BY DEF Begin, IInv, Shapes, LatchLeads, QuiescedIsUnarmed, ArmedHostIsDriven, PromptsOf
<1>7. AdmittedIsUnsent'
  BY DEF Begin, IInv, Shapes, AdmittedIsUnsent
<1>. QED
  BY <1>1, <1>2, <1>3, <1>4, <1>5, <1>6, <1>7 DEF IInv

LEMMA OpenAfterRecoveryStep ==
  ASSUME IInv, ~Stopped, OpenAfterRecovery
  PROVE  IInv'
<1>1. Shapes'
  BY DEF OpenAfterRecovery, IInv, Shapes
<1>2. Bounded'
  BY Kept DEF OpenAfterRecovery, IInv, Shapes, AdmittedIsUnsent
<1>3. LatchLeads' /\ NoPermitWhileDraining'
  BY DEF OpenAfterRecovery, IInv, Shapes, LatchLeads, NoPermitWhileDraining, Permitted, Permits
<1>4. Visits'
  BY DEF OpenAfterRecovery, IInv, Shapes, LatchLeads, Visits
<1>5. QuiescedIsUnarmed' /\ QuiescedOwnerStopsCleanly'
  BY DEF OpenAfterRecovery, IInv, Shapes, LatchLeads, Visits, QuiescedIsUnarmed, QuiescedOwnerStopsCleanly, Stopped
<1>6. ArmedHostIsDriven'
  BY DEF OpenAfterRecovery, IInv, Shapes, LatchLeads, QuiescedIsUnarmed, ArmedHostIsDriven, PromptsOf
<1>7. AdmittedIsUnsent'
  BY DEF OpenAfterRecovery, IInv, Shapes, AdmittedIsUnsent
<1>. QED
  BY <1>1, <1>2, <1>3, <1>4, <1>5, <1>6, <1>7 DEF IInv

LEMMA CheckQuiescedStep ==
  ASSUME IInv, ~Stopped, CheckQuiesced
  PROVE  IInv'
<1>1. Shapes'
  BY DEF CheckQuiesced, IInv, Shapes
<1>2. Bounded'
  BY Kept DEF CheckQuiesced, IInv, Shapes, AdmittedIsUnsent
<1>3. LatchLeads' /\ NoPermitWhileDraining'
  BY DEF CheckQuiesced, IInv, Shapes, LatchLeads, NoPermitWhileDraining, Permitted, Permits
<1>4. Visits'
  BY DEF CheckQuiesced, IInv, Shapes, LatchLeads, Visits
<1>5. QuiescedIsUnarmed' /\ QuiescedOwnerStopsCleanly'
  BY DEF CheckQuiesced, IInv, Shapes, LatchLeads, Visits, QuiescedIsUnarmed, QuiescedOwnerStopsCleanly, Stopped
<1>6. ArmedHostIsDriven'
  BY DEF CheckQuiesced, IInv, Shapes, LatchLeads, QuiescedIsUnarmed, ArmedHostIsDriven, PromptsOf
<1>7. AdmittedIsUnsent'
  BY DEF CheckQuiesced, IInv, Shapes, AdmittedIsUnsent
<1>. QED
  BY <1>1, <1>2, <1>3, <1>4, <1>5, <1>6, <1>7 DEF IInv

LEMMA TakeRouterStep ==
  ASSUME IInv, ~Stopped, TakeRouter
  PROVE  IInv'
<1>1. Shapes'
  BY DEF TakeRouter, IInv, Shapes
<1>2. Bounded'
  BY Kept DEF TakeRouter, IInv, Shapes, AdmittedIsUnsent
<1>3. LatchLeads' /\ NoPermitWhileDraining'
  BY DEF TakeRouter, IInv, Shapes, LatchLeads, NoPermitWhileDraining, Permitted, Permits
<1>4. Visits'
  BY DEF TakeRouter, IInv, Shapes, LatchLeads, Visits
<1>5. QuiescedIsUnarmed' /\ QuiescedOwnerStopsCleanly'
  BY DEF TakeRouter, IInv, Shapes, LatchLeads, Visits, QuiescedIsUnarmed, QuiescedOwnerStopsCleanly, Stopped
<1>6. ArmedHostIsDriven'
  BY DEF TakeRouter, IInv, Shapes, LatchLeads, QuiescedIsUnarmed, ArmedHostIsDriven, PromptsOf
<1>7. AdmittedIsUnsent'
  BY DEF TakeRouter, IInv, Shapes, AdmittedIsUnsent
<1>. QED
  BY <1>1, <1>2, <1>3, <1>4, <1>5, <1>6, <1>7 DEF IInv

LEMMA EndPassStep ==
  ASSUME IInv, ~Stopped, EndPass
  PROVE  IInv'
<1>1. Shapes'
  BY DEF EndPass, PassEnded, ShutdownComplete, Sound, IInv, Shapes
<1>2. Bounded'
  BY Kept DEF EndPass, IInv, Shapes, AdmittedIsUnsent
<1>3. LatchLeads' /\ NoPermitWhileDraining'
  BY DEF EndPass, PassEnded, ShutdownComplete, Sound, IInv, Shapes, LatchLeads, NoPermitWhileDraining, Permitted, Permits
<1>4. Visits'
  BY DEF EndPass, PassEnded, ShutdownComplete, Sound, IInv, Shapes, LatchLeads, Visits
<1>5. QuiescedIsUnarmed' /\ QuiescedOwnerStopsCleanly'
  BY DEF EndPass, PassEnded, ShutdownComplete, Sound, IInv, Shapes, LatchLeads, Visits, QuiescedIsUnarmed, QuiescedOwnerStopsCleanly, Stopped
<1>6. ArmedHostIsDriven'
  BY DEF EndPass, PassEnded, ShutdownComplete, Sound, IInv, Shapes, LatchLeads, QuiescedIsUnarmed, ArmedHostIsDriven, PromptsOf
<1>7. AdmittedIsUnsent'
  BY DEF EndPass, PassEnded, ShutdownComplete, Sound, IInv, Shapes, AdmittedIsUnsent
<1>. QED
  BY <1>1, <1>2, <1>3, <1>4, <1>5, <1>6, <1>7 DEF IInv

LEMMA SelectNotifiedStep ==
  ASSUME IInv, ~Stopped, SelectNotified
  PROVE  IInv'
<1>1. Shapes'
  BY DEF SelectNotified, IInv, Shapes
<1>2. Bounded'
  BY Kept DEF SelectNotified, IInv, Shapes, AdmittedIsUnsent
<1>3. LatchLeads' /\ NoPermitWhileDraining'
  BY DEF SelectNotified, IInv, Shapes, LatchLeads, NoPermitWhileDraining, Permitted, Permits
<1>4. Visits'
  BY DEF SelectNotified, IInv, Shapes, LatchLeads, Visits
<1>5. QuiescedIsUnarmed' /\ QuiescedOwnerStopsCleanly'
  BY DEF SelectNotified, IInv, Shapes, LatchLeads, Visits, QuiescedIsUnarmed, QuiescedOwnerStopsCleanly, Stopped
<1>6. ArmedHostIsDriven'
  BY DEF SelectNotified, IInv, Shapes, LatchLeads, QuiescedIsUnarmed, ArmedHostIsDriven, PromptsOf
<1>7. AdmittedIsUnsent'
  BY DEF SelectNotified, IInv, Shapes, AdmittedIsUnsent
<1>. QED
  BY <1>1, <1>2, <1>3, <1>4, <1>5, <1>6, <1>7 DEF IInv

LEMMA SelectShutdownStep ==
  ASSUME IInv, ~Stopped, SelectShutdown
  PROVE  IInv'
<1>1. Shapes'
  BY DEF SelectShutdown, IInv, Shapes
<1>2. Bounded'
  BY Kept DEF SelectShutdown, IInv, Shapes, AdmittedIsUnsent
<1>3. LatchLeads' /\ NoPermitWhileDraining'
  BY DEF SelectShutdown, IInv, Shapes, LatchLeads, NoPermitWhileDraining, Permitted, Permits
<1>4. Visits'
  BY DEF SelectShutdown, IInv, Shapes, LatchLeads, Visits
<1>5. QuiescedIsUnarmed' /\ QuiescedOwnerStopsCleanly'
  BY DEF SelectShutdown, IInv, Shapes, LatchLeads, Visits, QuiescedIsUnarmed, QuiescedOwnerStopsCleanly, Stopped
<1>6. ArmedHostIsDriven'
  BY DEF SelectShutdown, IInv, Shapes, LatchLeads, QuiescedIsUnarmed, ArmedHostIsDriven, PromptsOf
<1>7. AdmittedIsUnsent'
  BY DEF SelectShutdown, IInv, Shapes, AdmittedIsUnsent
<1>. QED
  BY <1>1, <1>2, <1>3, <1>4, <1>5, <1>6, <1>7 DEF IInv

LEMMA WaitForPermitsStep ==
  ASSUME IInv, ~Stopped, WaitForPermits
  PROVE  IInv'
<1>1. Shapes'
  BY DEF WaitForPermits, PermitsOut, IInv, Shapes
<1>2. Bounded'
  BY Kept DEF WaitForPermits, IInv, Shapes, AdmittedIsUnsent
<1>3. LatchLeads' /\ NoPermitWhileDraining'
  BY DEF WaitForPermits, PermitsOut, IInv, Shapes, LatchLeads, NoPermitWhileDraining, Permitted, Permits
<1>4. Visits'
  BY DEF WaitForPermits, PermitsOut, IInv, Shapes, LatchLeads, Visits
<1>5. QuiescedIsUnarmed' /\ QuiescedOwnerStopsCleanly'
  BY DEF WaitForPermits, PermitsOut, IInv, Shapes, LatchLeads, Visits, QuiescedIsUnarmed, QuiescedOwnerStopsCleanly, Stopped
<1>6. ArmedHostIsDriven'
  BY DEF WaitForPermits, PermitsOut, IInv, Shapes, LatchLeads, QuiescedIsUnarmed, ArmedHostIsDriven, PromptsOf
<1>7. AdmittedIsUnsent'
  BY DEF WaitForPermits, PermitsOut, IInv, Shapes, AdmittedIsUnsent
<1>. QED
  BY <1>1, <1>2, <1>3, <1>4, <1>5, <1>6, <1>7 DEF IInv

LEMMA HostsBegunStep ==
  ASSUME IInv, ~Stopped, HostsBegun
  PROVE  IInv'
<1>1. Shapes'
  BY DEF HostsBegun, IInv, Shapes
<1>2. Bounded'
  BY Kept DEF HostsBegun, IInv, Shapes, AdmittedIsUnsent
<1>3. LatchLeads' /\ NoPermitWhileDraining'
  BY DEF HostsBegun, IInv, Shapes, LatchLeads, NoPermitWhileDraining, Permitted, Permits
<1>4. Visits'
  BY DEF HostsBegun, IInv, Shapes, LatchLeads, Visits
<1>5. QuiescedIsUnarmed' /\ QuiescedOwnerStopsCleanly'
  BY DEF HostsBegun, IInv, Shapes, LatchLeads, Visits, QuiescedIsUnarmed, QuiescedOwnerStopsCleanly, Stopped
<1>6. ArmedHostIsDriven'
  BY DEF HostsBegun, IInv, Shapes, LatchLeads, QuiescedIsUnarmed, ArmedHostIsDriven, PromptsOf
<1>7. AdmittedIsUnsent'
  BY DEF HostsBegun, IInv, Shapes, AdmittedIsUnsent
<1>. QED
  BY <1>1, <1>2, <1>3, <1>4, <1>5, <1>6, <1>7 DEF IInv

LEMMA ProviderEndsStep ==
  ASSUME IInv, NEW p \in Prompts, ~Stopped, ProviderEnds(p)
  PROVE  IInv'
<1>1. Shapes'
  BY DEF ProviderEnds, IInv, Shapes
<1>2. Bounded'
  BY Kept DEF ProviderEnds, IInv, Shapes, AdmittedIsUnsent
<1>3. LatchLeads' /\ NoPermitWhileDraining'
  BY DEF ProviderEnds, IInv, Shapes, LatchLeads, NoPermitWhileDraining, Permitted, Permits
<1>4. Visits'
  BY DEF ProviderEnds, IInv, Shapes, LatchLeads, Visits
<1>5. QuiescedIsUnarmed' /\ QuiescedOwnerStopsCleanly'
  BY DEF ProviderEnds, IInv, Shapes, LatchLeads, Visits, QuiescedIsUnarmed, QuiescedOwnerStopsCleanly, Stopped
<1>6. ArmedHostIsDriven'
  BY DEF ProviderEnds, IInv, Shapes, LatchLeads, QuiescedIsUnarmed, ArmedHostIsDriven, PromptsOf
<1>7. AdmittedIsUnsent'
  BY DEF ProviderEnds, IInv, Shapes, AdmittedIsUnsent
<1>. QED
  BY <1>1, <1>2, <1>3, <1>4, <1>5, <1>6, <1>7 DEF IInv

LEMMA InstallStep ==
  ASSUME IInv, NEW h \in Hosts, ~Stopped, Install(h)
  PROVE  IInv'
<1>1. Shapes'
  BY DEF Install, IInv, Shapes
<1>2. Bounded'
  BY Kept DEF Install, IInv, Shapes, AdmittedIsUnsent
<1>3. LatchLeads' /\ NoPermitWhileDraining'
  BY DEF Install, IInv, Shapes, LatchLeads, NoPermitWhileDraining, Permitted, Permits
<1>4. Visits'
  BY DEF Install, IInv, Shapes, LatchLeads, Visits
<1>5. QuiescedIsUnarmed' /\ QuiescedOwnerStopsCleanly'
  BY DEF Install, IInv, Shapes, LatchLeads, Visits, QuiescedIsUnarmed, QuiescedOwnerStopsCleanly, Stopped
<1>6. ArmedHostIsDriven'
  BY DEF Install, IInv, Shapes, LatchLeads, QuiescedIsUnarmed, ArmedHostIsDriven, PromptsOf
<1>7. AdmittedIsUnsent'
  BY DEF Install, IInv, Shapes, AdmittedIsUnsent
<1>. QED
  BY <1>1, <1>2, <1>3, <1>4, <1>5, <1>6, <1>7 DEF IInv

-----------------------------------------------------------------------------
(* Threads and clients that touch a host: with a permit, between passes.    *)

\* Whoever holds a permit is neither in a quiesced daemon nor in its drain.
LEMMA PermitMeansOpen ==
  ASSUME IInv, Permitted
  PROVE  ~latch.quiesced /\ ~stopping /\ cadence # "begin"
BY DEF IInv, Shapes, LatchLeads, NoPermitWhileDraining

LEMMA WakeHostStep ==
  ASSUME IInv, NEW p \in Prompts, ~Stopped, WakeHost(p)
  PROVE  IInv'
<1>1. PICK h \in Hosts : h = HostOf[p]
  BY Constants
<1>2. /\ request[p] = "holding" /\ cadence \notin {"pass", "begin"}
      /\ UNCHANGED <<latch, cadence, stopping, todo, notify, ready, provider, warming>>
  BY DEF WakeHost, RouterFree
<1>3. ~latch.quiesced /\ ~stopping
  BY <1>2, PermitMeansOpen DEF Permitted, Permits
<1>4. CASE hosts[h].made \/ h \in ready
  <2>1. PICK x : x = StartExisting(h)
    OBVIOUS
  <2>2. Sound(x) /\ x.made /\ x.spare = hosts[h].spare
    BY <1>4, <2>1, StartedHost DEF IInv
  <2>3. PICK y : y = Wake(x)
    OBVIOUS
  <2>4. Sound(y) /\ y.spare = hosts[h].spare
    BY <2>2, <2>3, WokenHost
  <2>5. /\ hosts' = [hosts EXCEPT ![h] = y] /\ prompts' = prompts
        /\ request' = [request EXCEPT ![p] = "woke"]
    BY <1>1, <1>4, <2>1, <2>3 DEF WakeHost
  <2>6. /\ hosts' \in [Hosts -> Host] /\ \A k \in Hosts : Sound(hosts'[k])
        /\ hosts'[h] = y /\ \A k \in Hosts : k # h => hosts'[k] = hosts[k]
    BY <2>4, <2>5, OneHost DEF IInv
  <2>7. request' \in [Prompts -> {"none", "admitted", "spawned", "holding", "woke", "done"}]
        /\ request'[p] = "woke" /\ \A q \in Prompts : q # p => request'[q] = request[q]
    BY <2>5 DEF IInv, Shapes
  <2>8. Shapes'
    BY <1>2, <2>5, <2>6, <2>7 DEF IInv, Shapes
  <2>9. Bounded'
    <3>1. ASSUME NEW k \in Hosts PROVE Turns(k)' = Turns(k) /\ hosts'[k].spare = hosts[k].spare
      BY <2>4, <2>5, <2>6 DEF Turns, PromptsOf
    <3>. QED
      BY <3>1 DEF IInv, Bounded, ActiveLen
  <2>10. AdmittedIsUnsent'
    BY <2>5, <2>7 DEF IInv, AdmittedIsUnsent
  <2>11. LatchLeads' /\ NoPermitWhileDraining' /\ Visits' /\ QuiescedIsUnarmed'
         /\ QuiescedOwnerStopsCleanly'
    BY <1>2, <1>3
       DEF IInv, LatchLeads, NoPermitWhileDraining, Visits, QuiescedIsUnarmed, QuiescedOwnerStopsCleanly
  <2>12. ArmedHostIsDriven'
    BY <1>1, <1>2, <2>6, <2>7 DEF IInv, ArmedHostIsDriven, PromptsOf
  <2>. QED
    BY <2>8, <2>9, <2>10, <2>11, <2>12 DEF IInv
<1>5. CASE ~(hosts[h].made \/ h \in ready)
  <2>1. /\ hosts' = hosts /\ request' = [request EXCEPT ![p] = "done"]
        /\ prompts' = [prompts EXCEPT ![p] = IF @ = "queued" THEN "failed" ELSE @]
    BY <1>1, <1>5 DEF WakeHost
  <2>2. Shapes'
    BY <1>2, <2>1 DEF IInv, Shapes
  <2>3. Bounded'
    BY <2>1, Kept DEF IInv, Shapes
  <2>4. AdmittedIsUnsent'
    BY <2>1 DEF IInv, Shapes, AdmittedIsUnsent
  <2>5. LatchLeads' /\ NoPermitWhileDraining' /\ Visits' /\ QuiescedIsUnarmed'
        /\ QuiescedOwnerStopsCleanly'
    BY <1>2, <1>3
       DEF IInv, LatchLeads, NoPermitWhileDraining, Visits, QuiescedIsUnarmed, QuiescedOwnerStopsCleanly
  <2>6. ArmedHostIsDriven'
    BY <1>2, <2>1 DEF IInv, Shapes, ArmedHostIsDriven, PromptsOf
  <2>. QED
    BY <2>2, <2>3, <2>4, <2>5, <2>6 DEF IInv
<1>. QED
  BY <1>4, <1>5

LEMMA WarmUpStep ==
  ASSUME IInv, NEW h \in Hosts, ~Stopped, WarmUp(h)
  PROVE  IInv'
<1>1. /\ warming.step = "holding" /\ cadence \notin {"pass", "begin"}
      /\ UNCHANGED <<latch, cadence, stopping, todo, notify, ready, prompts, request, provider>>
  BY DEF WarmUp, RouterFree
<1>2. ~latch.quiesced /\ ~stopping
  BY <1>1, PermitMeansOpen DEF Permitted
<1>3. PICK x : x = StartExisting(h)
  OBVIOUS
<1>4. Sound(x) /\ x.spare = hosts[h].spare /\ x.gone = hosts[h].gone /\ x.armed = hosts[h].armed
  BY <1>3, StartedHost DEF IInv
<1>5. ActiveLen(h) <= MaxActive /\ Cardinality(Turns(h)) \in Nat /\ hosts[h].spare \in Nat
      /\ ActiveLen(h) = Cardinality(Turns(h)) + hosts[h].spare /\ MaxActive \in Nat
  BY FS_CardinalityType, Constants DEF IInv, Bounded, ActiveLen, Shapes, Sound, Host
<1>6. PICK y \in Host, s \in {"woke", "idle"} :
          /\ Sound(y) /\ hosts' = [hosts EXCEPT ![h] = y] /\ warming' = [warming EXCEPT !.step = s]
          /\ Cardinality(Turns(h)) + y.spare <= MaxActive
          /\ s = "woke" \/ y.armed = hosts[h].armed
  <2>1. CASE x.made /\ x.supervisor = "running" /\ (ActiveLen(h) < MaxActive \/ x.spare > 0)
    <3>1. PICK w : w = Wake(x)
      OBVIOUS
    <3>2. Sound(w) /\ w.made /\ w.spare = hosts[h].spare /\ w.gone = hosts[h].gone
      BY <1>4, <2>1, <3>1, WokenHost
    <3>3. PICK y : y = [w EXCEPT !.spare = IF ActiveLen(h) < MaxActive THEN @ + 1 ELSE @]
      OBVIOUS
    <3>4. y.spare \in 0..MaxActive /\ y.spare >= w.spare
          /\ Cardinality(Turns(h)) + y.spare <= MaxActive
      BY <1>5, <3>2, <3>3 DEF Sound, Host
    <3>5. y \in Host
      BY <3>2, <3>3, <3>4 DEF Sound, Host
    <3>6. Sound(y)
      BY <3>2, <3>3, <3>4, <3>5, Constants DEF Sound, Host
    <3>7. hosts' = [hosts EXCEPT ![h] = y] /\ warming' = [warming EXCEPT !.step = "woke"]
      BY <1>3, <2>1, <3>1, <3>3 DEF WarmUp
    <3>. QED
      BY <3>4, <3>5, <3>6, <3>7
  <2>2. CASE ~(x.made /\ x.supervisor = "running" /\ (ActiveLen(h) < MaxActive \/ x.spare > 0))
    <3>1. hosts' = [hosts EXCEPT ![h] = x] /\ warming' = [warming EXCEPT !.step = "idle"]
      BY <1>3, <2>2 DEF WarmUp
    <3>2. x \in Host /\ Cardinality(Turns(h)) + x.spare <= MaxActive
      BY <1>4, <1>5 DEF Sound
    <3>. QED
      BY <1>4, <3>1, <3>2
  <2>. QED
    BY <2>1, <2>2
<1>7. /\ hosts' \in [Hosts -> Host] /\ \A k \in Hosts : Sound(hosts'[k])
      /\ hosts'[h] = y /\ \A k \in Hosts : k # h => hosts'[k] = hosts[k]
  BY <1>6, OneHost DEF IInv
<1>8. warming' \in [step : {"idle", "holding", "woke"}, left : 0..WarmUps] /\ warming'.step = s
  BY <1>6 DEF IInv, Shapes
<1>9. Shapes'
  BY <1>1, <1>7, <1>8 DEF IInv, Shapes
<1>10. Bounded'
  <2>1. ASSUME NEW k \in Hosts PROVE Turns(k)' = Turns(k)
    BY <1>1 DEF Turns, PromptsOf
  <2>. QED
    BY <1>6, <1>7, <2>1 DEF IInv, Bounded, ActiveLen
<1>11. AdmittedIsUnsent' /\ LatchLeads' /\ NoPermitWhileDraining' /\ Visits' /\ QuiescedIsUnarmed'
       /\ QuiescedOwnerStopsCleanly'
  BY <1>1, <1>2
     DEF IInv, AdmittedIsUnsent, LatchLeads, NoPermitWhileDraining, Visits, QuiescedIsUnarmed,
         QuiescedOwnerStopsCleanly
<1>12. ArmedHostIsDriven'
  BY <1>1, <1>6, <1>7, <1>8 DEF IInv, ArmedHostIsDriven, PromptsOf
<1>. QED
  BY <1>9, <1>10, <1>11, <1>12 DEF IInv

LEMMA SpareExitsStep ==
  ASSUME IInv, NEW h \in Hosts, ~Stopped, SpareExits(h)
  PROVE  IInv'
<1>1. PICK y : y = [hosts[h] EXCEPT !.gone = @ + 1]
  OBVIOUS
<1>2. hosts[h] \in Host /\ Sound(hosts[h]) /\ hosts[h].gone < hosts[h].spare
  BY DEF SpareExits, IInv, Shapes
<1>3. hosts[h].made
  BY <1>2, ArmedIsMade DEF Host
<1>4. y \in Host /\ y.armed = hosts[h].armed /\ y.asked = hosts[h].asked /\ y.made = hosts[h].made
      /\ y.spare = hosts[h].spare /\ y.loop = hosts[h].loop
  BY <1>1, <1>2, Constants DEF Host
<1>5. Sound(y)
  BY <1>1, <1>2, <1>3, <1>4 DEF Sound, Host
<1>6. hosts' = [hosts EXCEPT ![h] = y]
      /\ UNCHANGED <<latch, cadence, stopping, todo, notify, ready, prompts, request, provider, warming>>
  BY <1>1, <1>2 DEF SpareExits, IInv, Shapes
<1>7. /\ hosts' \in [Hosts -> Host] /\ \A k \in Hosts : Sound(hosts'[k])
      /\ hosts'[h] = y /\ \A k \in Hosts : k # h => hosts'[k] = hosts[k]
  BY <1>5, <1>6, OneHost DEF IInv
<1>8. \A k \in Hosts : /\ hosts'[k].armed = hosts[k].armed /\ hosts'[k].asked = hosts[k].asked
                       /\ hosts'[k].made = hosts[k].made /\ hosts'[k].spare = hosts[k].spare
                       /\ hosts'[k].loop = hosts[k].loop
  BY <1>4, <1>7
<1>9. Shapes' /\ AdmittedIsUnsent' /\ LatchLeads' /\ NoPermitWhileDraining'
  BY <1>6, <1>7 DEF IInv, Shapes, AdmittedIsUnsent, LatchLeads, NoPermitWhileDraining, Permitted, Permits
<1>10. Bounded'
  <2>1. ASSUME NEW k \in Hosts PROVE Turns(k)' = Turns(k)
    BY <1>6 DEF Turns, PromptsOf
  <2>. QED
    BY <1>8, <2>1 DEF IInv, Bounded, ActiveLen
<1>11. Visits' /\ QuiescedIsUnarmed' /\ QuiescedOwnerStopsCleanly'
  BY <1>6, <1>8 DEF IInv, Shapes, Visits, QuiescedIsUnarmed, QuiescedOwnerStopsCleanly
<1>12. ArmedHostIsDriven'
  BY <1>6, <1>8 DEF IInv, ArmedHostIsDriven, PromptsOf
<1>. QED
  BY <1>9, <1>10, <1>11, <1>12 DEF IInv

-----------------------------------------------------------------------------
(* The cadence and its hosts.                                               *)

LEMMA ActivateRecoveryStep ==
  ASSUME IInv, ~Stopped, ActivateRecovery
  PROVE  IInv'
<1>1. /\ cadence = "recover" /\ cadence' = "open"
      /\ UNCHANGED <<latch, stopping, todo, notify, ready, prompts, request, provider, warming>>
      /\ hosts' = [h \in Hosts |-> LET host == StartExisting(h) IN
                       IF host.made THEN Wake(host) ELSE host]
  BY DEF ActivateRecovery
<1>2. ~stopping /\ ~latch.quiesced /\ latch.phase # "ready"
  BY <1>1 DEF IInv, Shapes, LatchLeads
<1>3. ASSUME NEW h \in Hosts PROVE Sound(hosts'[h]) /\ hosts'[h].spare = hosts[h].spare
  <2>1. PICK x : x = StartExisting(h)
    OBVIOUS
  <2>2. Sound(x) /\ x.spare = hosts[h].spare
    BY <2>1, StartedHost DEF IInv
  <2>3. hosts'[h] = IF x.made THEN Wake(x) ELSE x
    BY <1>1, <2>1
  <2>. QED
    BY <2>2, <2>3, WokenHost
<1>4. hosts' \in [Hosts -> Host]
  <2>1. \A h \in Hosts : hosts'[h] \in Host
    BY <1>3 DEF Sound
  <2>. QED
    BY <1>1, <2>1
<1>5. Shapes'
  BY <1>1, <1>3, <1>4 DEF IInv, Shapes
<1>6. Bounded'
  <2>1. ASSUME NEW k \in Hosts PROVE Turns(k)' = Turns(k)
    BY <1>1 DEF Turns, PromptsOf
  <2>. QED
    BY <1>3, <2>1 DEF IInv, Bounded, ActiveLen
<1>7. AdmittedIsUnsent' /\ LatchLeads' /\ NoPermitWhileDraining' /\ Visits' /\ QuiescedIsUnarmed'
      /\ QuiescedOwnerStopsCleanly' /\ ArmedHostIsDriven'
  BY <1>1, <1>2
     DEF IInv, AdmittedIsUnsent, LatchLeads, NoPermitWhileDraining, Visits, QuiescedIsUnarmed,
         QuiescedOwnerStopsCleanly, ArmedHostIsDriven
<1>. QED
  BY <1>5, <1>6, <1>7 DEF IInv

LEMMA SelectReapStep ==
  ASSUME IInv, SelectReap
  PROVE  IInv'
<1>1. PICK kept \in [Hosts -> 0..MaxActive] :
          /\ \A h \in Hosts : kept[h] <= hosts[h].spare
          /\ hosts' = [h \in Hosts |->
                [StartExisting(h) EXCEPT
                    !.spare = IF hosts[h].supervisor = "running" THEN kept[h] ELSE @,
                    !.gone  = IF hosts[h].supervisor = "running" /\ kept[h] < @ THEN kept[h] ELSE @]]
  BY DEF SelectReap
<1>2. /\ cadence = "select"
      /\ UNCHANGED <<latch, cadence, stopping, todo, notify, ready, prompts, request, provider, warming>>
  BY DEF SelectReap
<1>3. ~stopping
  BY <1>2 DEF IInv, Shapes, LatchLeads
<1>4. ASSUME NEW h \in Hosts
      PROVE  Sound(hosts'[h]) /\ hosts'[h].armed = hosts[h].armed /\ hosts'[h].spare <= hosts[h].spare
  <2>1. PICK x : x = StartExisting(h)
    OBVIOUS
  <2>2. /\ Sound(x) /\ (x.made \/ x = Absent) /\ x.armed = hosts[h].armed
        /\ x.supervisor = hosts[h].supervisor /\ x.spare = hosts[h].spare /\ x.gone = hosts[h].gone
    BY <2>1, StartedHost DEF IInv
  <2>3. PICK y : y = [x EXCEPT !.spare = IF x.supervisor = "running" THEN kept[h] ELSE @,
                               !.gone = IF x.supervisor = "running" /\ kept[h] < @ THEN kept[h] ELSE @]
    OBVIOUS
  <2>4. hosts'[h] = y
    BY <1>1, <2>1, <2>2, <2>3
  <2>5. x \in Host /\ x.spare \in 0..MaxActive /\ x.gone \in 0..MaxActive
    BY <2>2 DEF Sound, Host
  <2>6. CASE x.supervisor # "running"
    <3>1. y = x
      BY <2>3, <2>5, <2>6 DEF Host
    <3>. QED
      BY <2>2, <2>4, <2>5, <3>1, Constants
  <2>7. CASE x.supervisor = "running"
    <3>1. x.made
      BY <2>2, <2>7, NewHosts
    <3>2. kept[h] \in 0..MaxActive /\ kept[h] <= x.spare
      BY <1>1, <2>2
    <3>3. /\ y.spare = kept[h] /\ y.gone = IF kept[h] < x.gone THEN kept[h] ELSE x.gone
          /\ y.armed = x.armed /\ y.made = x.made /\ y.asked = x.asked
          /\ y.pending = x.pending /\ y.supervisor = x.supervisor /\ y.loop = x.loop
      BY <2>3, <2>5, <2>7 DEF Host
    <3>4. y \in Host
      BY <2>3, <2>5, <2>7, <3>2 DEF Host
    <3>5. y.gone <= y.spare
      BY <2>5, <3>2, <3>3, Constants
    <3>6. Sound(y)
      BY <2>2, <3>1, <3>3, <3>4, <3>5 DEF Sound
    <3>. QED
      BY <2>2, <2>4, <3>2, <3>3, <3>6
  <2>. QED
    BY <2>6, <2>7
<1>5. hosts' \in [Hosts -> Host]
  <2>1. \A h \in Hosts : hosts'[h] \in Host
    BY <1>4 DEF Sound
  <2>. QED
    BY <1>1, <2>1
<1>6. Shapes' /\ AdmittedIsUnsent' /\ LatchLeads' /\ NoPermitWhileDraining'
  BY <1>2, <1>4, <1>5
     DEF IInv, Shapes, AdmittedIsUnsent, LatchLeads, NoPermitWhileDraining, Permitted, Permits
<1>7. Bounded'
  <2>1. ASSUME NEW k \in Hosts
        PROVE  Turns(k)' = Turns(k) /\ hosts'[k].spare \in Nat /\ hosts[k].spare \in Nat
               /\ Cardinality(Turns(k)) \in Nat
    <3>1. Turns(k)' = Turns(k)
      BY <1>2 DEF Turns, PromptsOf
    <3>2. hosts'[k].spare \in Nat /\ hosts[k].spare \in Nat
      BY <1>4, Constants DEF IInv, Shapes, Sound, Host
    <3>3. Cardinality(Turns(k)) \in Nat
      BY FS_CardinalityType DEF IInv, Bounded
    <3>. QED
      BY <3>1, <3>2, <3>3
  <2>2. ASSUME NEW k \in Hosts PROVE IsFiniteSet(Turns(k)') /\ ActiveLen(k)' <= MaxActive
    <3>1. Cardinality(Turns(k)) + hosts[k].spare <= MaxActive /\ hosts'[k].spare <= hosts[k].spare
      BY <1>4 DEF IInv, Bounded, ActiveLen
    <3>2. Cardinality(Turns(k)) + hosts'[k].spare <= MaxActive
      BY <2>1, <3>1, Constants
    <3>. QED
      BY <2>1, <3>2 DEF IInv, Bounded, ActiveLen
  <2>. QED
    BY <2>2 DEF Bounded
<1>8. Visits' /\ QuiescedIsUnarmed' /\ QuiescedOwnerStopsCleanly'
  BY <1>2, <1>3, <1>4 DEF IInv, Shapes, Visits, QuiescedIsUnarmed, QuiescedOwnerStopsCleanly
<1>9. ArmedHostIsDriven'
  BY <1>2, <1>4 DEF IInv, ArmedHostIsDriven, PromptsOf
<1>. QED
  BY <1>6, <1>7, <1>8, <1>9 DEF IInv

LEMMA BeginHostStep ==
  ASSUME IInv, NEW h \in Hosts, ~Stopped, BeginHost(h)
  PROVE  IInv'
<1>1. /\ cadence = "begin" /\ h \in todo /\ todo' = todo \ {h}
      /\ UNCHANGED <<latch, stopping, notify, ready, prompts, request, provider, warming>>
      /\ Sound(hosts[h]) /\ todo \subseteq Hosts
  BY DEF BeginHost, IInv, Shapes
<1>2. ~stopping /\ latch.phase = "draining" /\ ~Permitted
  BY <1>1 DEF IInv, Shapes, LatchLeads, NoPermitWhileDraining
<1>3. ~Permitted'
  BY <1>1, <1>2 DEF Permitted, Permits
<1>4. CASE hosts' = hosts /\ cadence' = cadence /\ ~hosts[h].made
  <2>1. ~hosts[h].armed
    BY <1>1, <1>4, ArmedIsMade
  <2>2. Bounded'
    BY <1>1, <1>4, Kept
  <2>. QED
    BY <1>1, <1>2, <1>3, <1>4, <2>1, <2>2
       DEF IInv, Shapes, AdmittedIsUnsent, LatchLeads, NoPermitWhileDraining, Visits,
           QuiescedIsUnarmed, QuiescedOwnerStopsCleanly, ArmedHostIsDriven
<1>5. CASE hosts[h].made /\ MayBeginShutdown(hosts[h])
  <2>1. PICK y : y = BeginShutdown(hosts[h])
    OBVIOUS
  <2>2. Sound(y) /\ y.made /\ y.asked /\ y.spare = hosts[h].spare
    BY <1>1, <1>5, <2>1, AskedHost
  <2>3. hosts' = [hosts EXCEPT ![h] = y] /\ cadence' = cadence
    BY <1>5, <2>1 DEF BeginHost
  <2>4. /\ hosts' \in [Hosts -> Host] /\ \A k \in Hosts : Sound(hosts'[k])
        /\ hosts'[h] = y /\ \A k \in Hosts : k # h => hosts'[k] = hosts[k]
    BY <2>2, <2>3, OneHost DEF IInv
  <2>5. Bounded'
    <3>1. ASSUME NEW k \in Hosts PROVE Turns(k)' = Turns(k) /\ hosts'[k].spare = hosts[k].spare
      BY <1>1, <2>2, <2>4 DEF Turns, PromptsOf
    <3>. QED
      BY <3>1 DEF IInv, Bounded, ActiveLen
  <2>6. Shapes' /\ AdmittedIsUnsent'
    BY <1>1, <2>3, <2>4 DEF IInv, Shapes, AdmittedIsUnsent
  <2>. QED
    BY <1>1, <1>2, <1>3, <2>2, <2>3, <2>4, <2>5, <2>6
       DEF IInv, Shapes, LatchLeads, NoPermitWhileDraining, Visits,
           QuiescedIsUnarmed, QuiescedOwnerStopsCleanly, ArmedHostIsDriven
<1>6. CASE hosts[h].made /\ ~MayBeginShutdown(hosts[h])
  <2>1. hosts' = hosts /\ cadence' = "failed"
    BY <1>6 DEF BeginHost
  <2>2. Bounded'
    BY <1>1, <2>1, Kept
  <2>3. QuiescedOwnerStopsCleanly'
    <3>1. hosts[h].loop = "awaitingWake" \/ (~hosts[h].asked /\ hosts[h].pending # "none")
      BY <1>6 DEF MayBeginShutdown
    <3>2. latch.quiesced => ~hosts[h].armed
      BY <1>1, <1>2 DEF IInv, QuiescedIsUnarmed
    <3>3. latch.quiesced => hosts[h].loop = "awaitingWake"
      BY <1>1, <3>1, <3>2 DEF Sound
    <3>. QED
      BY <1>1, <1>6, <2>1, <3>3 DEF QuiescedOwnerStopsCleanly
  <2>. QED
    BY <1>1, <1>2, <1>3, <2>1, <2>2, <2>3
       DEF IInv, Shapes, AdmittedIsUnsent, LatchLeads, NoPermitWhileDraining, Visits,
           QuiescedIsUnarmed, ArmedHostIsDriven
<1>. QED
  BY <1>1, <1>4, <1>5, <1>6 DEF BeginHost

-----------------------------------------------------------------------------
(* Driving a host.                                                          *)

States == {"unsent", "queued", "running", "settled", "failed"}

RunningOf(h, dispatch) == {p \in PromptsOf(h) : dispatch[p] = "running"}

LEMMA HostTurns ==
  ASSUME IInv, NEW h \in Hosts
  PROVE  /\ IsFiniteSet(Turns(h)) /\ Cardinality(Turns(h)) \in Nat /\ MaxActive \in Nat
         /\ hosts[h] \in Host /\ hosts[h].spare \in Nat /\ hosts[h].gone \in Nat
         /\ hosts[h].gone <= hosts[h].spare
         /\ Cardinality(Turns(h)) + hosts[h].spare <= MaxActive
BY FS_CardinalityType, Constants DEF IInv, Bounded, ActiveLen, Shapes, Sound, Host

\* A poll ends turns and forgets processes that exited; it makes none.
LEMMA PolledHost ==
  ASSUME IInv, NEW h \in Hosts, NEW x, x = Polled(h), NEW after, after = Settled(h)
  PROVE  /\ x \in Host /\ x.gone = 0 /\ x.made = hosts[h].made /\ x.asked = hosts[h].asked
         /\ after \in [Prompts -> States]
         /\ \A p \in Prompts : \/ after[p] = prompts[p]
                               \/ p \in PromptsOf(h) /\ prompts[p] = "running" /\ after[p] = "settled"
         /\ IsFiniteSet(RunningOf(h, after))
         /\ Cardinality(RunningOf(h, after)) + x.spare <= MaxActive
<1>1. Completed(h) \subseteq Ended(h) /\ Ended(h) \subseteq Turns(h) /\ Turns(h) \subseteq PromptsOf(h)
  BY DEF Completed, Ended, Turns
<1>2. /\ IsFiniteSet(Turns(h)) /\ Cardinality(Turns(h)) \in Nat /\ MaxActive \in Nat
      /\ hosts[h] \in Host /\ hosts[h].spare \in Nat /\ hosts[h].gone \in Nat
      /\ hosts[h].gone <= hosts[h].spare
      /\ Cardinality(Turns(h)) + hosts[h].spare <= MaxActive
  BY HostTurns
<1>3. /\ IsFiniteSet(Ended(h)) /\ IsFiniteSet(Completed(h))
      /\ Cardinality(Completed(h)) <= Cardinality(Ended(h))
      /\ Cardinality(Completed(h)) \in Nat /\ Cardinality(Ended(h)) \in Nat
  BY <1>1, <1>2, FS_Subset, FS_CardinalityType
<1>4. /\ after \in [Prompts -> States]
      /\ \A p \in Prompts : after[p] = IF p \in Ended(h) THEN "settled" ELSE prompts[p]
  BY DEF Settled, States, IInv, Shapes
<1>5. RunningOf(h, after) = Turns(h) \ Ended(h)
  BY <1>4 DEF RunningOf, Turns, PromptsOf, Ended
<1>6. IsFiniteSet(Turns(h) \ Ended(h))
      /\ Cardinality(Turns(h) \ Ended(h)) = Cardinality(Turns(h)) - Cardinality(Ended(h))
  <2>1. IsFiniteSet(Turns(h) \ Ended(h)) /\ Turns(h) \cap Ended(h) = Ended(h)
    BY <1>1, <1>2, FS_Difference
  <2>2. Cardinality(Turns(h) \ Ended(h)) = Cardinality(Turns(h)) - Cardinality(Turns(h) \cap Ended(h))
    BY <1>2, FS_Difference
  <2>. QED
    BY <2>1, <2>2
<1>7. /\ x.spare = (hosts[h].spare - hosts[h].gone) + Cardinality(Completed(h))
      /\ x.gone = 0 /\ x.made = hosts[h].made /\ x.asked = hosts[h].asked
      /\ x.pending = hosts[h].pending /\ x.supervisor = hosts[h].supervisor
  BY <1>2 DEF Polled, Host
<1>8. Cardinality(Turns(h) \ Ended(h)) + x.spare <= MaxActive /\ x.spare \in 0..MaxActive
  <2>1. Cardinality(Turns(h) \ Ended(h)) \in Nat
    BY <1>6, FS_CardinalityType
  <2>. QED
    BY <1>2, <1>3, <1>6, <1>7, <2>1
<1>9. x \in Host
  <2>1. PICK s \in 0..MaxActive : s = x.spare
    BY <1>8
  <2>2. x = [hosts[h] EXCEPT !.spare = s, !.gone = 0]
    BY <1>2, <1>7, <2>1 DEF Polled, Host
  <2>3. PICK g \in Host : g = hosts[h]
    BY <1>2
  <2>4. 0 \in 0..MaxActive
    BY <1>2
  <2>5. [g EXCEPT !.spare = s, !.gone = 0] \in Host
    BY <2>1, <2>4 DEF Host
  <2>. QED
    BY <2>2, <2>3, <2>5
<1>. QED
  BY <1>1, <1>4, <1>5, <1>6, <1>7, <1>8, <1>9 DEF Ended, Turns, PromptsOf

\* A tick claims at most one queued prompt, for a free place or a spare process.
LEMMA TickedHost ==
  ASSUME NEW h \in Hosts, NEW x \in Host, x.gone = 0, NEW after \in [Prompts -> States],
         IsFiniteSet(RunningOf(h, after)), Cardinality(RunningOf(h, after)) + x.spare <= MaxActive,
         NEW r \in Ticked(h, x, after)
  PROVE  /\ r.host \in Host /\ r.host.gone = 0 /\ r.host.made = x.made /\ r.host.asked = x.asked
         /\ r.prompts \in [Prompts -> States]
         /\ \A p \in Prompts : \/ r.prompts[p] = after[p]
                               \/ /\ p \in PromptsOf(h) /\ after[p] = "queued"
                                  /\ r.prompts[p] \in {"running", "failed"}
         /\ IsFiniteSet(RunningOf(h, r.prompts))
         /\ Cardinality(RunningOf(h, r.prompts)) + r.host.spare <= MaxActive
<1>1. PICK n \in Nat : n = Cardinality(RunningOf(h, after))
  BY FS_CardinalityType
<1>2. x.spare \in 0..MaxActive /\ MaxActive \in Nat
  BY Constants DEF Host
<1>3. CASE r = [host |-> x, prompts |-> after]
  BY <1>3
<1>4. ASSUME NEW q \in PromptsOf(h), after[q] = "queued", n < MaxActive - x.spare \/ x.spare > 0,
             NEW phase \in {"running", "failed", "queued"}, NEW refused \in BOOLEAN,
             NEW room, room = MakeRoom(x, n),
             r = [host |-> [room EXCEPT !.refused = refused],
                  prompts |-> [after EXCEPT ![q] = phase]]
      PROVE  /\ r.host \in Host /\ r.host.gone = 0 /\ r.host.made = x.made /\ r.host.asked = x.asked
             /\ r.prompts \in [Prompts -> States]
             /\ \A p \in Prompts : \/ r.prompts[p] = after[p]
                                   \/ /\ p \in PromptsOf(h) /\ after[p] = "queued"
                                      /\ r.prompts[p] \in {"running", "failed"}
             /\ IsFiniteSet(RunningOf(h, r.prompts))
             /\ Cardinality(RunningOf(h, r.prompts)) + r.host.spare <= MaxActive
  <2>1. PICK s : s = IF n + x.spare >= MaxActive THEN x.spare - 1 ELSE x.spare
    OBVIOUS
  <2>2. s \in 0..MaxActive /\ n + 1 + s <= MaxActive
    BY <1>1, <1>2, <1>4, <2>1
  <2>3. room = [x EXCEPT !.spare = s]
    BY <1>4, <2>1 DEF MakeRoom
  <2>4. /\ r.host \in Host /\ r.host.spare = s /\ r.host.gone = 0 /\ r.host.made = x.made
        /\ r.host.asked = x.asked
    <3>1. room \in Host /\ room.spare = s /\ room.gone = 0 /\ room.made = x.made
          /\ room.asked = x.asked
      BY <2>2, <2>3 DEF Host
    <3>2. r.host = [room EXCEPT !.refused = refused]
      BY <1>4
    <3>. QED
      BY <3>1, <3>2 DEF Host
  <2>5. /\ r.prompts \in [Prompts -> States] /\ r.prompts[q] = phase /\ q \in Prompts
        /\ \A p \in Prompts : p # q => r.prompts[p] = after[p]
    BY <1>4 DEF States, PromptsOf
  <2>6. RunningOf(h, r.prompts) = RunningOf(h, after) \cup (IF phase = "running" THEN {q} ELSE {})
    BY <1>4, <2>5 DEF RunningOf, PromptsOf
  <2>7. IsFiniteSet(RunningOf(h, r.prompts)) /\ Cardinality(RunningOf(h, r.prompts)) \in Nat
        /\ Cardinality(RunningOf(h, r.prompts)) <= n + 1
    <3>1. CASE phase = "running"
      <4>1. RunningOf(h, r.prompts) = RunningOf(h, after) \cup {q} /\ q \notin RunningOf(h, after)
        BY <1>4, <2>6, <3>1 DEF RunningOf
      <4>2. PICK R : R = RunningOf(h, after)
        OBVIOUS
      <4>3. IsFiniteSet(R) /\ q \notin R
        BY <4>1, <4>2
      <4>4. IsFiniteSet(R \cup {q}) /\ Cardinality(R \cup {q}) = Cardinality(R) + 1
        BY <4>3, FS_AddElement
      <4>. QED
        BY <1>1, <4>1, <4>2, <4>4
    <3>2. CASE phase # "running"
      <4>1. RunningOf(h, r.prompts) = RunningOf(h, after)
        BY <2>6, <3>2
      <4>. QED
        BY <1>1, <4>1
    <3>. QED
      BY <3>1, <3>2
  <2>8. Cardinality(RunningOf(h, r.prompts)) + r.host.spare <= MaxActive
    BY <1>1, <1>2, <2>2, <2>4, <2>7
  <2>. QED
    BY <1>4, <2>4, <2>5, <2>7, <2>8
<1>5. PICK room : room = MakeRoom(x, n)
  OBVIOUS
<1>6. \/ r = [host |-> x, prompts |-> after]
      \/ \E q \in PromptsOf(h), outcome \in Starts :
            /\ after[q] = "queued" /\ (n + x.spare < MaxActive \/ x.spare > 0)
            /\ r = Launched(room, after, q, outcome)
  <2>1. PICK queued : queued = {p \in PromptsOf(h) : after[p] = "queued"}
    OBVIOUS
  <2>2. Cardinality({p \in PromptsOf(h) : after[p] = "running"}) = n
    BY <1>1 DEF RunningOf
  <2>3. r \in IF queued # {} /\ (n + x.spare < MaxActive \/ x.spare > 0)
             THEN UNION {{Launched(MakeRoom(x, n), after, p, outcome) : outcome \in Starts} : p \in queued}
             ELSE {[host |-> x, prompts |-> after]}
    BY <2>1, <2>2 DEF Ticked
  <2>. QED
    BY <1>5, <2>1, <2>3
<1>7. ASSUME NEW q \in PromptsOf(h), NEW outcome \in Starts, r = Launched(room, after, q, outcome)
      PROVE  \E phase \in {"running", "failed", "queued"}, refused \in BOOLEAN :
                r = [host |-> [room EXCEPT !.refused = refused],
                     prompts |-> [after EXCEPT ![q] = phase]]
  <2>1. outcome \in {"started", "failed", "denied"}
    BY LifecycleCadenceAssumption DEF LifecycleCadenceAssumption
  <2>. QED
    BY <1>7, <2>1 DEF Launched
<1>8. n + x.spare < MaxActive => n < MaxActive - x.spare
  BY <1>1, <1>2
<1>. QED
  BY <1>3, <1>4, <1>5, <1>6, <1>7, <1>8

\* A command ends turns, and one that no shutdown preceded may claim a prompt.
LEMMA DrivenHost ==
  ASSUME IInv, NEW h \in Hosts, NEW r \in Executed(h, Command(hosts[h]))
  PROVE  /\ r.host \in Host /\ r.host.gone <= r.host.spare /\ r.host.made = hosts[h].made
         /\ r.host.asked = hosts[h].asked
         /\ r.host.asked => r.host.supervisor \in {"draining", "stopped"}
         /\ r.prompts \in [Prompts -> States]
         /\ \A p \in Prompts :
               \/ r.prompts[p] = prompts[p]
               \/ p \in PromptsOf(h) /\ prompts[p] = "running" /\ r.prompts[p] = "settled"
               \/ /\ p \in PromptsOf(h) /\ prompts[p] = "queued" /\ ~hosts[h].asked
                  /\ r.prompts[p] \in {"running", "failed"}
         /\ IsFiniteSet(RunningOf(h, r.prompts))
         /\ Cardinality(RunningOf(h, r.prompts)) + r.host.spare <= MaxActive
<1>1. /\ IsFiniteSet(Turns(h)) /\ Cardinality(Turns(h)) \in Nat /\ MaxActive \in Nat
      /\ hosts[h] \in Host /\ hosts[h].spare \in Nat /\ hosts[h].gone \in Nat
      /\ hosts[h].gone <= hosts[h].spare
      /\ Cardinality(Turns(h)) + hosts[h].spare <= MaxActive
  BY HostTurns
<1>2. RunningOf(h, prompts) = Turns(h) /\ prompts \in [Prompts -> States]
  BY DEF RunningOf, Turns, IInv, Shapes, States
<1>3. PICK c : c = Command(hosts[h])
  OBVIOUS
<1>4. c \in {"wake", "shutdown"} /\ (hosts[h].asked => c = "shutdown" \/ hosts[h].supervisor \in {"draining", "stopped"})
  BY <1>1, <1>3 DEF Command, Host, IInv, Shapes, Sound
<1>5. PICK x : x = Polled(h)
  OBVIOUS
<1>6. PICK after : after = Settled(h)
  OBVIOUS
<1>7. /\ x \in Host /\ x.gone = 0 /\ x.made = hosts[h].made /\ x.asked = hosts[h].asked
      /\ after \in [Prompts -> States]
      /\ \A p \in Prompts : \/ after[p] = prompts[p]
                            \/ p \in PromptsOf(h) /\ prompts[p] = "running" /\ after[p] = "settled"
      /\ IsFiniteSet(RunningOf(h, after))
      /\ Cardinality(RunningOf(h, after)) + x.spare <= MaxActive
  BY <1>5, <1>6, PolledHost
<1>8. CASE c = "shutdown"
  <2>1. PICK s \in {"stopped", "draining"} :
            r = [host |-> [hosts[h] EXCEPT !.supervisor = s], prompts |-> prompts]
    BY <1>3, <1>8 DEF Executed
  <2>2. PICK y : y = [hosts[h] EXCEPT !.supervisor = s]
    OBVIOUS
  <2>3. /\ y \in Host /\ y.gone = hosts[h].gone /\ y.spare = hosts[h].spare /\ y.made = hosts[h].made
        /\ y.asked = hosts[h].asked /\ y.supervisor = s
    BY <1>1, <2>2 DEF Host
  <2>4. r.host = y /\ r.prompts = prompts
    BY <2>1, <2>2
  <2>. QED
    BY <1>1, <1>2, <2>3, <2>4
<1>9. CASE c = "wake" /\ hosts[h].supervisor = "draining"
  <2>1. PICK s \in {"stopped", "draining"} :
            r = [host |-> [x EXCEPT !.supervisor = s], prompts |-> after]
    BY <1>3, <1>5, <1>6, <1>9 DEF Executed
  <2>2. PICK y : y = [x EXCEPT !.supervisor = s]
    OBVIOUS
  <2>3. /\ y \in Host /\ y.gone = x.gone /\ y.spare = x.spare /\ y.made = x.made
        /\ y.asked = x.asked /\ y.supervisor = s /\ x.spare \in Nat
    BY <1>1, <1>7, <2>2 DEF Host
  <2>4. r.host = y /\ r.prompts = after
    BY <2>1, <2>2
  <2>. QED
    BY <1>1, <1>7, <2>3, <2>4
<1>10. CASE c = "wake" /\ hosts[h].supervisor = "stopped"
  <2>1. r = [host |-> hosts[h], prompts |-> prompts]
    BY <1>3, <1>10 DEF Executed
  <2>. QED
    BY <1>1, <1>2, <1>10, <2>1
<1>11. CASE c = "wake" /\ hosts[h].supervisor \notin {"draining", "stopped"}
  <2>1. PICK y : y = [x EXCEPT !.supervisor = "running"]
    OBVIOUS
  <2>2. /\ y \in Host /\ y.gone = 0 /\ y.spare = x.spare /\ y.made = x.made /\ y.asked = x.asked
    BY <1>7, <2>1 DEF Host
  <2>3. r \in Ticked(h, y, after)
    BY <1>3, <1>5, <1>6, <1>11, <2>1 DEF Executed
  <2>4. /\ r.host \in Host /\ r.host.gone = 0 /\ r.host.made = y.made /\ r.host.asked = y.asked
        /\ r.prompts \in [Prompts -> States]
        /\ \A p \in Prompts : \/ r.prompts[p] = after[p]
                              \/ /\ p \in PromptsOf(h) /\ after[p] = "queued"
                                 /\ r.prompts[p] \in {"running", "failed"}
        /\ IsFiniteSet(RunningOf(h, r.prompts))
        /\ Cardinality(RunningOf(h, r.prompts)) + r.host.spare <= MaxActive
    BY <1>7, <2>2, <2>3, TickedHost
  <2>5. ~hosts[h].asked
    BY <1>4, <1>11
  <2>6. r.host.spare \in Nat
    BY <1>1, <2>4 DEF Host
  <2>. QED
    BY <1>7, <2>2, <2>4, <2>5, <2>6
<1>. QED
  BY <1>4, <1>8, <1>9, <1>10, <1>11

\* What a drive writes, in terms of the prompts and of the host.
LEMMA Driven ==
  ASSUME IInv, NEW h \in Hosts, DriveHost(h)
  PROVE  \E y \in Host :
            /\ Sound(y) /\ y.asked = hosts[h].asked /\ hosts' = [hosts EXCEPT ![h] = y]
            /\ prompts' \in [Prompts -> States]
            /\ \A p \in Prompts :
                  \/ prompts'[p] = prompts[p]
                  \/ p \in PromptsOf(h) /\ prompts[p] = "running" /\ prompts'[p] = "settled"
                  \/ /\ p \in PromptsOf(h) /\ prompts[p] = "queued" /\ ~hosts[h].asked
                     /\ prompts'[p] \in {"running", "failed"}
            /\ IsFiniteSet(RunningOf(h, prompts'))
            /\ Cardinality(RunningOf(h, prompts')) + y.spare <= MaxActive
<1>1. PICK r \in Executed(h, Command(hosts[h])) :
          /\ prompts' = r.prompts
          /\ hosts' = [hosts EXCEPT ![h] =
                [r.host EXCEPT
                    !.pending = "none",
                    !.loop    = NextLoop(@, Command(hosts[h])),
                    !.armed   = NeedsDrive(r.host.supervisor,
                                   {p \in PromptsOf(h) : r.prompts[p] = "running"})]]
  BY DEF DriveHost
<1>2. /\ r.host \in Host /\ r.host.gone <= r.host.spare /\ r.host.made = hosts[h].made
      /\ r.host.asked = hosts[h].asked
      /\ r.host.asked => r.host.supervisor \in {"draining", "stopped"}
      /\ r.prompts \in [Prompts -> States]
      /\ \A p \in Prompts :
            \/ r.prompts[p] = prompts[p]
            \/ p \in PromptsOf(h) /\ prompts[p] = "running" /\ r.prompts[p] = "settled"
            \/ /\ p \in PromptsOf(h) /\ prompts[p] = "queued" /\ ~hosts[h].asked
               /\ r.prompts[p] \in {"running", "failed"}
      /\ IsFiniteSet(RunningOf(h, r.prompts))
      /\ Cardinality(RunningOf(h, r.prompts)) + r.host.spare <= MaxActive
  BY DrivenHost
<1>3. hosts[h].made
  <2>1. hosts[h].armed /\ Sound(hosts[h])
    BY DEF DriveHost, IInv, Visits, Shapes
  <2>. QED
    BY <2>1, ArmedIsMade
<1>4. PICK armed \in BOOLEAN : armed = NeedsDrive(r.host.supervisor, {p \in PromptsOf(h) : r.prompts[p] = "running"})
  BY DEF NeedsDrive
<1>5. r.host.supervisor = "draining" => armed
  BY <1>4 DEF NeedsDrive
<1>6. PICK loop : loop = NextLoop(r.host.loop, Command(hosts[h]))
  OBVIOUS
<1>7. loop \in {"awaitingWake", "ready", "awaitingDrainWake", "readyToEscalate"}
  BY <1>2, <1>6 DEF NextLoop, Host
<1>8. PICK y : y = [r.host EXCEPT !.pending = "none", !.loop = loop, !.armed = armed]
  OBVIOUS
<1>9. /\ y \in Host /\ y.pending = "none" /\ y.armed = armed /\ y.supervisor = r.host.supervisor
      /\ y.spare = r.host.spare /\ y.gone = r.host.gone /\ y.made = r.host.made /\ y.asked = r.host.asked
  BY <1>2, <1>7, <1>8 DEF Host
<1>10. Sound(y)
  BY <1>2, <1>3, <1>5, <1>9 DEF Sound
<1>11. hosts' = [hosts EXCEPT ![h] = y]
  BY <1>1, <1>4, <1>6, <1>8
<1>. QED
  BY <1>1, <1>2, <1>9, <1>10, <1>11

LEMMA DriveHostStep ==
  ASSUME IInv, NEW h \in Hosts, ~Stopped, DriveHost(h)
  PROVE  IInv'
<1>1. /\ cadence = "pass" /\ h \in todo /\ todo' = todo \ {h}
      /\ UNCHANGED <<latch, cadence, stopping, notify, ready, request, provider, warming>>
  BY DEF DriveHost
<1>2. PICK y \in Host :
          /\ Sound(y) /\ y.asked = hosts[h].asked /\ hosts' = [hosts EXCEPT ![h] = y]
          /\ prompts' \in [Prompts -> States]
          /\ \A p \in Prompts :
                \/ prompts'[p] = prompts[p]
                \/ p \in PromptsOf(h) /\ prompts[p] = "running" /\ prompts'[p] = "settled"
                \/ /\ p \in PromptsOf(h) /\ prompts[p] = "queued" /\ ~hosts[h].asked
                   /\ prompts'[p] \in {"running", "failed"}
          /\ IsFiniteSet(RunningOf(h, prompts'))
          /\ Cardinality(RunningOf(h, prompts')) + y.spare <= MaxActive
  BY Driven
<1>3. /\ hosts' \in [Hosts -> Host] /\ \A k \in Hosts : Sound(hosts'[k])
      /\ hosts'[h] = y /\ \A k \in Hosts : k # h => hosts'[k] = hosts[k]
  BY <1>2, OneHost DEF IInv
<1>4. hosts[h].armed /\ hosts[h].made
  <2>1. hosts[h].armed /\ Sound(hosts[h])
    BY <1>1 DEF IInv, Visits, Shapes
  <2>. QED
    BY <2>1, ArmedIsMade
<1>5. Shapes'
  BY <1>1, <1>2, <1>3 DEF IInv, Shapes, States
<1>6. Bounded'
  <2>1. ASSUME NEW k \in Hosts, k # h PROVE Turns(k)' = Turns(k) /\ hosts'[k] = hosts[k]
    <3>1. \A p \in PromptsOf(k) : p \in Prompts /\ p \notin PromptsOf(h)
      BY <2>1 DEF PromptsOf
    <3>2. \A p \in PromptsOf(k) : prompts'[p] = prompts[p]
      BY <1>2, <3>1
    <3>. QED
      BY <1>3, <2>1, <3>2 DEF Turns, PromptsOf
  <2>2. Turns(h)' = RunningOf(h, prompts')
    BY DEF Turns, RunningOf, PromptsOf
  <2>3. ASSUME NEW k \in Hosts PROVE IsFiniteSet(Turns(k)') /\ ActiveLen(k)' <= MaxActive
    <3>1. CASE k = h
      BY <1>2, <1>3, <2>2, <3>1 DEF ActiveLen
    <3>2. CASE k # h
      BY <2>1, <3>2 DEF ActiveLen, IInv, Bounded
    <3>. QED
      BY <3>1, <3>2
  <2>. QED
    BY <2>3 DEF Bounded
<1>7. AdmittedIsUnsent'
  BY <1>1, <1>2 DEF IInv, AdmittedIsUnsent
<1>8. LatchLeads' /\ NoPermitWhileDraining'
  BY <1>1 DEF IInv, LatchLeads, NoPermitWhileDraining, Permitted, Permits
<1>9. Visits'
  BY <1>1, <1>2, <1>3, <1>4 DEF IInv, Shapes, Visits
<1>10. QuiescedIsUnarmed' /\ QuiescedOwnerStopsCleanly' /\ ArmedHostIsDriven'
  BY <1>1, <1>4 DEF IInv, Shapes, QuiescedIsUnarmed, QuiescedOwnerStopsCleanly, ArmedHostIsDriven
<1>. QED
  BY <1>5, <1>6, <1>7, <1>8, <1>9, <1>10 DEF IInv

-----------------------------------------------------------------------------
(* The theorems.                                                            *)

LEMMA InitIInv == Init => IInv
<1>. SUFFICES ASSUME Init PROVE IInv
  OBVIOUS
<1>1. \A h \in Hosts : hosts[h] = Absent
  BY DEF Init
<1>2. Shapes
  <2>1. hosts \in [Hosts -> Host]
    BY NewHosts DEF Init, Sound
  <2>2. \A h \in Hosts : Sound(hosts[h])
    BY <1>1, NewHosts
  <2>3. prompts \in [Prompts -> {"unsent", "queued", "running", "settled", "failed"}]
    BY DEF Init
  <2>4. warming \in [step : {"idle", "holding", "woke"}, left : 0..WarmUps]
    BY Constants DEF Init
  <2>5. latch \in [phase : {"recovering", "ready", "draining"}, quiesced : BOOLEAN]
    BY DEF Init
  <2>6. /\ request \in [Prompts -> {"none", "admitted", "spawned", "holding", "woke", "done"}]
        /\ provider \in [Prompts -> {"silent", "completed", "exited"}]
    BY DEF Init
  <2>7. cadence = "start" /\ ~stopping /\ ~notify /\ stopping \in BOOLEAN /\ notify \in BOOLEAN
        /\ todo \subseteq Hosts /\ ready \subseteq Hosts
    BY Constants DEF Init
  <2>. QED
    BY <2>1, <2>2, <2>3, <2>4, <2>5, <2>6, <2>7 DEF Shapes
<1>3. Bounded
  <2>1. ASSUME NEW h \in Hosts PROVE Turns(h) = {} /\ hosts[h].spare = 0
    BY <1>1, NewHosts DEF Init, Turns, PromptsOf
  <2>2. IsFiniteSet({}) /\ Cardinality({}) = 0 /\ MaxActive \in Nat
    BY FS_EmptySet, Constants
  <2>3. ASSUME NEW h \in Hosts PROVE IsFiniteSet(Turns(h)) /\ ActiveLen(h) <= MaxActive
    <3>1. Turns(h) = {} /\ hosts[h].spare = 0
      BY <2>1
    <3>2. ActiveLen(h) = 0
      BY <2>2, <3>1 DEF ActiveLen
    <3>. QED
      BY <2>2, <3>1, <3>2
  <2>. QED
    BY <2>3 DEF Bounded
<1>4. AdmittedIsUnsent /\ LatchLeads /\ Visits /\ QuiescedIsUnarmed /\ ArmedHostIsDriven
      /\ NoPermitWhileDraining /\ QuiescedOwnerStopsCleanly
  BY DEF Init, AdmittedIsUnsent, LatchLeads, Visits, QuiescedIsUnarmed, ArmedHostIsDriven,
         NoPermitWhileDraining, QuiescedOwnerStopsCleanly
<1>. QED
  BY <1>2, <1>3, <1>4 DEF IInv

LEMMA StutterStep ==
  ASSUME IInv, UNCHANGED vars
  PROVE  IInv'
<1>1. Bounded'
  BY Kept DEF vars
<1>. QED
  BY <1>1 DEF vars, IInv, Shapes, AdmittedIsUnsent, LatchLeads, Visits, QuiescedIsUnarmed,
              ArmedHostIsDriven, NoPermitWhileDraining, QuiescedOwnerStopsCleanly, Permitted,
              Permits, PromptsOf

LEMMA NextKeepsIInv ==
  ASSUME IInv, Next
  PROVE  IInv'
<1>1. CASE ~Stopped /\ CadenceStep
  BY <1>1, BeginStep, ActivateRecoveryStep, OpenAfterRecoveryStep, CheckQuiescedStep, TakeRouterStep,
     EndPassStep, SelectNotifiedStep, SelectShutdownStep, WaitForPermitsStep, HostsBegunStep,
     DriveHostStep, BeginHostStep DEF CadenceStep
<1>2. ASSUME NEW p \in Prompts, ~Stopped, AcquirePrompt(p) \/ RequestStep(p) \/ ProviderEnds(p)
      PROVE  IInv'
  BY <1>2, AcquirePromptStep, SubmitStep, AcquireOperationStep, WakeHostStep, NotifyWokenStep,
     ProviderEndsStep DEF RequestStep
<1>3. CASE ~Stopped /\ (AcquireWarm \/ NotifyWarm \/ Quiesce \/ RequestShutdown)
  BY <1>3, AcquireWarmStep, NotifyWarmStep, QuiesceStep, RequestShutdownStep
<1>4. ASSUME NEW h \in Hosts, ~Stopped, WarmUp(h) \/ SpareExits(h) \/ Install(h)
      PROVE  IInv'
  BY <1>4, WarmUpStep, SpareExitsStep, InstallStep
<1>. QED
  BY <1>1, <1>2, <1>3, <1>4, SelectReapStep DEF Next

LEMMA IInvHolds == Spec => []IInv
<1>1. IInv /\ [Next]_vars => IInv'
  BY NextKeepsIInv, StutterStep
<1>. QED
  BY InitIInv, <1>1, PTL DEF Spec

\* Whatever threads, warm-ups, installations and the request to close do
\* while the cadence is on its way: no host has more processes than its bound,
\* no wake is lost before a select, no drain begins over a permit.
THEOREM CadenceIsSound == Spec => []CadenceInvariant
<1>1. IInv => CadenceInvariant
  BY DEF IInv, Shapes, Bounded, CadenceInvariant, TypeOK
<1>. QED
  BY IInvHolds, <1>1, PTL

\* An owner that was idle when it was closed is drained without a failure,
\* unless a host was made for it that nobody drove.
THEOREM QuiescedStopsCleanly == Spec => []QuiescedOwnerStopsCleanly
<1>1. IInv => QuiescedOwnerStopsCleanly
  BY DEF IInv
<1>. QED
  BY IInvHolds, <1>1, PTL

\* After a client was told that the owner is quiesced, prompts only settle.
THEOREM QuiescedIsQuiet == Spec => QuiescedStartsNothing
<1>1. ASSUME IInv, [Next]_vars, latch.quiesced, NEW p \in Prompts, prompts'[p] # prompts[p]
      PROVE  prompts'[p] = "settled"
  <2>1. ~Permitted
    BY <1>1 DEF IInv, LatchLeads
  <2>2. ASSUME NEW h \in Hosts, DriveHost(h) PROVE prompts'[p] = "settled"
    <3>1. cadence = "pass" /\ h \in todo
      BY <2>2 DEF DriveHost
    <3>2. hosts[h].armed /\ Sound(hosts[h])
      BY <1>1, <3>1 DEF IInv, Visits, Shapes
    <3>3. hosts[h].made
      BY <3>2, ArmedIsMade
    <3>4. stopping
      BY <1>1, <3>1, <3>2 DEF IInv, QuiescedIsUnarmed
    <3>5. hosts[h].asked
      BY <1>1, <3>3, <3>4 DEF IInv, Visits
    <3>. QED
      BY <1>1, <2>2, <3>5, Driven
  <2>3. ASSUME NEW q \in Prompts, Submit(q) \/ WakeHost(q) PROVE FALSE
    BY <2>1, <2>3 DEF Submit, WakeHost, Permitted, Permits
  <2>4. CASE CadenceStep
    BY <1>1, <2>2, <2>4
       DEF CadenceStep, Begin, ActivateRecovery, OpenAfterRecovery, CheckQuiesced, TakeRouter, EndPass,
           SelectNotified, SelectShutdown, WaitForPermits, HostsBegun, BeginHost
  <2>5. ASSUME NEW q \in Prompts, AcquirePrompt(q) \/ RequestStep(q) \/ ProviderEnds(q)
        PROVE  FALSE
    BY <1>1, <2>3, <2>5 DEF AcquirePrompt, RequestStep, AcquireOperation, NotifyWoken, ProviderEnds
  <2>6. CASE SelectReap \/ AcquireWarm \/ NotifyWarm \/ Quiesce \/ RequestShutdown
    BY <1>1, <2>6 DEF SelectReap, AcquireWarm, NotifyWarm, Quiesce, RequestShutdown
  <2>7. ASSUME NEW h \in Hosts, WarmUp(h) \/ SpareExits(h) \/ Install(h) PROVE FALSE
    BY <1>1, <2>7 DEF WarmUp, SpareExits, Install
  <2>8. CASE UNCHANGED vars
    BY <1>1, <2>8 DEF vars
  <2>. QED
    BY <1>1, <2>4, <2>5, <2>6, <2>7, <2>8 DEF Next
<1>2. IInv /\ [Next]_vars
      => [latch.quiesced =>
            \A p \in Prompts : prompts'[p] # prompts[p] => prompts'[p] = "settled"]_vars
  BY <1>1
<1>. QED
  BY IInvHolds, <1>2, PTL DEF QuiescedStartsNothing, Spec

=============================================================================
