-------------------------- MODULE RuntimeUpdateProofs --------------------------
(***************************************************************************)
(* Proofs about RuntimeUpdate for every number of attempts, callers, epochs *)
(* and crashes, and for every release a source may offer.                   *)
(***************************************************************************)
EXTENDS RuntimeUpdate, SequenceTheorems, TLAPS

-----------------------------------------------------------------------------
(* The inductive invariant: a part for each caller, a part for each attempt. *)

StageSteps == {"stage", "staged", "stagingFailed"}
CheckSteps == {"healthClose", "healthSave"}
ProbeSteps == {"probe", "healthCheckPassed", "healthCheckFailed"}
ReadySteps == {"activateClosed", "activateOpen", "handoffClosed", "handoffOpen",
               "activationFailed"}
ConfirmSteps == {"confirmSave", "confirmed", "open"}
WorkSteps == StageSteps \cup CheckSteps \cup ProbeSteps \cup ReadySteps \cup ConfirmSteps

\* A caller at one of these has seen the ingress of its epoch closed.
BehindClose == {"healthSave"} \cup ProbeSteps \cup ReadySteps \cup ConfirmSteps

Work == [step : WorkSteps, attempt : Attempts, record : Record, revision : Nat]

Calls ==
    {Idle}
    \cup [step : {"planClose", "planSave"}, attempt : Attempts, release : Releases,
          epoch : 1..host.epoch]
    \cup [step : {"fenceClose", "fenceOpen"}, epoch : 1..host.epoch]
    \cup Work

Shut(epoch) == epoch = host.epoch => host.mode = "closed"

\* What a caller read of an attempt is still there, at its revision; the stage
\* is the one its step began from.
Agrees(step, stage) ==
    /\ step \in StageSteps => stage = "available"
    /\ step \in CheckSteps => stage = "staged"
    /\ step \in ProbeSteps => stage = "healthChecking"
    /\ step \in ReadySteps => stage = "ready"
    /\ step = "confirmSave" => stage = "handoff"

WorkFits(k, c) ==
    /\ k.revision \in 1..Len(journal[k.attempt])
    /\ journal[k.attempt][k.revision] = k.record
    /\ Agrees(k.step, k.record.stage)
    /\ k.step \in BehindClose => Shut(k.record.origin)
    /\ k.step \in CheckSteps \cup {"probe"} => probes[k.attempt][c] = 0

CallOK(c) == call[c] \in Calls /\ (call[c] \in Work => WorkFits(call[c], c))

\* The first checkpoints have fixed places, and whoever probed did so behind
\* the checkpoint of the health check.
HistoryOK(h) ==
    \A i \in 1..Len(h) :
        /\ i = 1 => h[i].stage \in {"idle", "available", "readOnly", "failed"}
        /\ h[i].stage = "available" => i = 1
        /\ h[i].stage = "staged" => i = 2
        /\ h[i].stage = "healthChecking" => i = 3
        /\ i > 1 => Follows(h[i - 1].stage, h[i].stage)

HoldsClosed(h) == h # <<>> /\ h[Len(h)].stage \in Underway => Shut(h[Len(h)].origin)

AttemptOK(a) ==
    /\ HistoryOK(journal[a])
    /\ HoldsClosed(journal[a])
    /\ \A c \in Callers : probes[a][c] # 0 => probes[a][c] = 1 /\ Len(journal[a]) >= 3

Types ==
    /\ host \in [epoch : 1..MaxEpoch, mode : {"open", "closed"}]
    /\ journal \in [Attempts -> Seq(Record)]
    /\ probes \in [Attempts -> [Callers -> Nat]]
    /\ DOMAIN call = Callers
    /\ call \in [Callers -> Calls]
    /\ crashes \in 0..MaxCrashes

IInv ==
    /\ Types
    /\ \A c \in Callers : CallOK(c)
    /\ \A a \in Attempts : AttemptOK(a)

-----------------------------------------------------------------------------
(* What a step leaves alone.                                                *)

HostMoves ==
    \/ host' = host
    \/ host'.epoch = host.epoch /\ host'.mode = "closed"
    \/ host'.epoch = host.epoch + 1

Grows(a) ==
    /\ Len(journal[a]) <= Len(journal'[a])
    /\ \A i \in 1..Len(journal[a]) : journal'[a][i] = journal[a][i]

\* A host that is closed, or fenced, shuts what was shut.
LEMMA StaysShut ==
  ASSUME Types, Types', HostMoves, NEW e \in 1..host.epoch, Shut(e)
  PROVE  Shut(e)'
BY DEF Types, HostMoves, Shut

\* The epochs of the records on file are not after the host's.
LEMMA RecordsKept ==
  ASSUME Types, HostMoves, host' \in [epoch : 1..MaxEpoch, mode : {"open", "closed"}]
  PROVE  /\ \A x \in Record : x \in Record'
         /\ \A x \in Work : x \in Work'
         /\ \A x \in Calls : x \in Calls'
<1>1. 1..host.epoch \subseteq 1..host'.epoch
  BY RuntimeUpdateAssumption DEF Types, HostMoves, RuntimeUpdateAssumption
<1>2. \A x \in Record : x \in Record'
  BY <1>1 DEF Record
<1>3. \A x \in Work : x \in Work'
  BY <1>2 DEF Work
<1>. QED
  BY <1>1, <1>2, <1>3 DEF Calls

\* A caller that does nothing stays in order when histories only grow.
LEMMA OthersKept ==
  ASSUME Types, Types', HostMoves, \A a \in Attempts : Grows(a),
         NEW c \in Callers, CallOK(c), call'[c] = call[c],
         \A a \in Attempts : probes'[a][c] = probes[a][c]
  PROVE  CallOK(c)'
<1>1. call'[c] \in Calls'
  BY RecordsKept DEF CallOK, Types
<1>2. ASSUME call'[c] \in Work'
      PROVE  WorkFits(call[c], c)'
  <2>1. call[c] \in Work
    BY <1>2 DEF CallOK, Calls, Work, WorkSteps, StageSteps, CheckSteps, ProbeSteps, ReadySteps,
                ConfirmSteps, Idle
  <2>2. WorkFits(call[c], c)
    BY <2>1 DEF CallOK
  <2>3. call[c].attempt \in Attempts /\ call[c].record.origin \in 1..host.epoch
    BY <2>1 DEF Work, Record
  <2>4. Shut(call[c].record.origin) => Shut(call[c].record.origin)'
    BY <2>3, StaysShut
  <2>5. /\ Len(journal[call[c].attempt]) \in Nat
        /\ Len(journal'[call[c].attempt]) \in Nat
    BY <2>3, LenProperties DEF Types
  <2>. QED
    BY <2>2, <2>3, <2>4, <2>5 DEF WorkFits, Grows, Shut
<1>. QED
  BY <1>1, <1>2 DEF CallOK

\* An attempt nobody writes to stays in order when probes are counted elsewhere.
LEMMA AttemptsKept ==
  ASSUME Types, Types', HostMoves, NEW a \in Attempts, AttemptOK(a),
         journal'[a] = journal[a], probes'[a] = probes[a]
  PROVE  AttemptOK(a)'
<1>1. Len(journal[a]) \in Nat /\ (journal[a] # <<>> => Len(journal[a]) \in 1..Len(journal[a]))
  BY LenProperties, EmptySeq DEF Types
<1>2. journal[a] # <<>> => journal[a][Len(journal[a])] \in Record
  BY <1>1, ElementOfSeq DEF Types
<1>3. journal[a] # <<>> /\ Shut(journal[a][Len(journal[a])].origin)
         => Shut(journal[a][Len(journal[a])].origin)'
  BY <1>2, StaysShut DEF Record
<1>. QED
  BY <1>3 DEF AttemptOK, HistoryOK, HoldsClosed, Shut

-----------------------------------------------------------------------------
(* Steps that write no checkpoint, and steps that write one.                *)

\* A caller moves on to x without writing to the journal.
LEMMA QuietStep ==
  ASSUME IInv, NEW c \in Callers, NEW x,
         host' \in [epoch : 1..MaxEpoch, mode : {"open", "closed"}], HostMoves,
         call' = [call EXCEPT ![c] = x], x \in Calls', x \in Work' => WorkFits(x, c)',
         journal' = journal, probes' = probes, crashes' \in 0..MaxCrashes
  PROVE  IInv'
<1>1. journal' \in [Attempts -> Seq(Record')]
  BY RecordsKept, SeqMonotonic DEF IInv, Types
<1>2. call' \in [Callers -> Calls'] /\ DOMAIN call' = Callers
  BY RecordsKept DEF IInv, Types
<1>3. Types'
  BY <1>1, <1>2 DEF IInv, Types
<1>4. \A a \in Attempts : Grows(a)
  BY LenProperties DEF IInv, Types, Grows
<1>5. ASSUME NEW d \in Callers
      PROVE  CallOK(d)'
  <2>1. CASE d = c
    BY <2>1 DEF IInv, Types, CallOK
  <2>2. CASE d # c
    BY <1>3, <1>4, <2>2, OthersKept DEF IInv, Types
  <2>. QED
    BY <2>1, <2>2
<1>6. ASSUME NEW a \in Attempts
      PROVE  AttemptOK(a)'
  BY <1>3, AttemptsKept DEF IInv
<1>. QED
  BY <1>3, <1>5, <1>6 DEF IInv

\* A checkpoint is appended, or the history stays what it is.
LEMMA SavedEffect ==
  ASSUME Types, NEW a \in Attempts, NEW revision \in Nat \ {0}, NEW record \in Record,
         journal' = Saved(a, revision, record)
  PROVE  /\ journal' \in [Attempts -> Seq(Record)]
         /\ \A b \in Attempts : Grows(b)
         /\ \A b \in Attempts : b # a => journal'[b] = journal[b]
         /\ \/ revision <= Len(journal[a]) /\ journal'[a] = journal[a]
            \/ /\ revision > Len(journal[a])
               /\ journal'[a] = Append(journal[a], record)
               /\ Len(journal'[a]) = Len(journal[a]) + 1
               /\ journal'[a][Len(journal[a]) + 1] = record
<1>1. \A b \in Attempts : journal[b] \in Seq(Record) /\ Len(journal[b]) \in Nat
  BY LenProperties DEF Types
<1>2. CASE revision <= Len(journal[a])
  BY <1>1, <1>2 DEF Saved, Types, Grows
<1>3. CASE revision > Len(journal[a])
  <2>1. journal' = [journal EXCEPT ![a] = Append(journal[a], record)]
    BY <1>1, <1>3 DEF Saved
  <2>2. /\ Append(journal[a], record) \in Seq(Record)
        /\ Len(Append(journal[a], record)) = Len(journal[a]) + 1
        /\ Append(journal[a], record)[Len(journal[a]) + 1] = record
        /\ \A i \in 1..Len(journal[a]) : Append(journal[a], record)[i] = journal[a][i]
    BY <1>1, AppendProperties
  <2>. QED
    BY <1>1, <1>3, <2>1, <2>2 DEF Types, Grows
<1>. QED
  BY <1>1, <1>2, <1>3

\* A caller saves a checkpoint and moves on to x: whatever it writes comes next
\* in the history and keeps the ingress shut.
LEMMA SavingStep ==
  ASSUME IInv, NEW c \in Callers, NEW x, NEW a \in Attempts,
         NEW revision \in Nat \ {0}, NEW record \in Record,
         host' = host, journal' = Saved(a, revision, record),
         call' = [call EXCEPT ![c] = x], x \in Calls, x \in Work => WorkFits(x, c)',
         probes' = probes, crashes' = crashes,
         record.stage \in Underway => Shut(record.origin),
         revision <= Len(journal[a]) + 1,
         revision = 1 => record.stage \in {"idle", "available", "readOnly", "failed"},
         revision > 1 => /\ Follows(journal[a][revision - 1].stage, record.stage)
                         /\ revision - 1 <= Len(journal[a])
  PROVE  IInv'
<1>1. Record' = Record /\ Work' = Work /\ Calls' = Calls
  BY DEF Record, Work, Calls
<1>2. Types'
  BY <1>1, SavedEffect DEF IInv, Types
<1>3. HostMoves /\ \A b \in Attempts : Grows(b)
  BY SavedEffect DEF IInv, HostMoves
<1>4. ASSUME NEW d \in Callers
      PROVE  CallOK(d)'
  <2>1. CASE d = c
    BY <1>1, <2>1 DEF IInv, Types, CallOK
  <2>2. CASE d # c
    BY <1>2, <1>3, <2>2, OthersKept DEF IInv, Types
  <2>. QED
    BY <2>1, <2>2
<1>5. ASSUME NEW b \in Attempts
      PROVE  AttemptOK(b)'
  <2>1. CASE journal'[b] = journal[b]
    BY <1>2, <1>3, <2>1, AttemptsKept DEF IInv
  <2>2. CASE journal'[b] # journal[b]
    <3> DEFINE n == Len(journal[a])
    <3>1. /\ b = a /\ n \in Nat /\ revision = n + 1
          /\ Len(journal'[a]) = n + 1 /\ journal'[a][n + 1] = record
          /\ \A i \in 1..n : journal'[a][i] = journal[a][i]
      BY <1>3, <2>2, SavedEffect, LenProperties DEF IInv, Types, Grows
    <3>2. HistoryOK(journal[a])
      BY DEF IInv, AttemptOK
    <3>3. HistoryOK(journal'[a])
      <4>1. ASSUME NEW i \in 1..n + 1
            PROVE  /\ i = 1 => journal'[a][i].stage \in {"idle", "available", "readOnly", "failed"}
                   /\ journal'[a][i].stage = "available" => i = 1
                   /\ journal'[a][i].stage = "staged" => i = 2
                   /\ journal'[a][i].stage = "healthChecking" => i = 3
                   /\ i > 1 => Follows(journal'[a][i - 1].stage, journal'[a][i].stage)
        <5>1. CASE i <= n
          <6>1. i \in 1..n /\ (i > 1 => i - 1 \in 1..n)
            BY <3>1, <5>1
          <6>. QED
            BY <3>1, <3>2, <6>1 DEF HistoryOK
        <5>2. CASE i = n + 1 /\ n = 0
          BY <3>1, <5>2
        <5>3. CASE i = n + 1 /\ n > 0
          <6>1. n \in 1..n /\ journal'[a][n] = journal[a][n]
            BY <3>1, <5>3
          <6>2. Follows(journal[a][n].stage, record.stage)
            BY <3>1, <5>3
          <6>. QED
            BY <3>1, <3>2, <5>3, <6>1, <6>2 DEF HistoryOK, Follows
        <5>. QED
          BY <3>1, <5>1, <5>2, <5>3
      <4>. QED
        BY <3>1, <4>1 DEF HistoryOK
    <3>4. HoldsClosed(journal[a])'
      BY <3>1 DEF HoldsClosed, Shut
    <3>5. \A d \in Callers : probes'[a][d] # 0 => probes'[a][d] = 1 /\ Len(journal'[a]) >= 3
      BY <3>1 DEF IInv, AttemptOK
    <3>. QED
      BY <3>1, <3>3, <3>4, <3>5 DEF AttemptOK, HistoryOK
  <2>. QED
    BY <2>1, <2>2
<1>. QED
  BY <1>2, <1>4, <1>5 DEF IInv

-----------------------------------------------------------------------------
(* What a caller reads of an attempt, and where an event leads.             *)

\* Of an attempt on record a caller reads the last checkpoint.
LEMMA LastRead ==
  ASSUME IInv, NEW a \in Attempts, journal[a] # <<>>
  PROVE  /\ Len(journal[a]) \in Nat \ {0}
         /\ Len(journal[a]) \in 1..Len(journal[a])
         /\ Current(a) = journal[a][Len(journal[a])]
         /\ Current(a) \in Record
         /\ Current(a).stage \in StageName /\ Current(a).origin \in 1..host.epoch
         /\ Current(a).stage \in Underway => Shut(Current(a).origin)
<1>1. journal[a] \in Seq(Record)
  BY DEF IInv, Types
<1>2. Len(journal[a]) \in Nat \ {0} /\ Len(journal[a]) \in 1..Len(journal[a])
  BY <1>1, LenProperties, EmptySeq
<1>3. Current(a) = journal[a][Len(journal[a])] /\ Current(a) \in Record
  BY <1>1, <1>2, ElementOfSeq DEF Current
<1>4. HoldsClosed(journal[a])
  BY DEF IInv, AttemptOK
<1>. QED
  BY <1>2, <1>3, <1>4 DEF HoldsClosed, Record

\* A caller at work holds an attempt, a record of it and that record's revision.
LEMMA AtWork ==
  ASSUME IInv, NEW c \in Callers, call[c].step \in WorkSteps
  PROVE  /\ call[c] \in Work /\ WorkFits(call[c], c)
         /\ call[c] = [step |-> call[c].step, attempt |-> call[c].attempt,
                       record |-> call[c].record, revision |-> call[c].revision]
         /\ call[c].attempt \in Attempts /\ call[c].record \in Record
         /\ call[c].revision \in Nat \ {0}
<1>1. call[c] \in Calls
  BY DEF IInv, CallOK
<1>2. call[c] \in Work
  BY <1>1 DEF Calls, Idle, WorkSteps, StageSteps, CheckSteps, ProbeSteps, ReadySteps, ConfirmSteps
<1>3. WorkFits(call[c], c)
  BY <1>2 DEF IInv, CallOK
<1>4. call[c].attempt \in Attempts /\ call[c].record \in Record /\ call[c].revision \in Nat
  BY <1>2 DEF Work
<1>5. Len(journal[call[c].attempt]) \in Nat
  BY <1>4, LenProperties DEF IInv, Types
<1>. QED
  BY <1>2, <1>3, <1>4, <1>5 DEF Work, WorkFits

\* A record is what it was with another stage.
LEMMA RecordRewritten ==
  ASSUME NEW r \in Record, NEW s \in StageName, NEW t \in BOOLEAN
  PROVE  /\ [r EXCEPT !.stage = s] \in Record
         /\ [r EXCEPT !.stage = s].stage = s /\ [r EXCEPT !.stage = s].origin = r.origin
         /\ [r EXCEPT !.stage = s, !.receipt = t] \in Record
         /\ [r EXCEPT !.stage = s, !.receipt = t].stage = s
         /\ [r EXCEPT !.stage = s, !.receipt = t].origin = r.origin
BY DEF Record

-----------------------------------------------------------------------------
(* The invariant is inductive.                                              *)

\* The caller at work moves to another step and holds what it held.
LEMMA MovesOn ==
  ASSUME IInv, NEW c \in Callers, call[c].step \in WorkSteps, NEW s \in WorkSteps,
         host' \in [epoch : 1..MaxEpoch, mode : {"open", "closed"}], HostMoves,
         call' = [call EXCEPT ![c] = [step |-> s, attempt |-> call[c].attempt,
                                      record |-> call[c].record, revision |-> call[c].revision]],
         Agrees(s, call[c].record.stage),
         s \in BehindClose => (call[c].record.origin = host'.epoch => host'.mode = "closed"),
         s \in CheckSteps \cup {"probe"} => call[c].step \in CheckSteps \cup {"probe"},
         UNCHANGED <<journal, probes, crashes>>
  PROVE  IInv'
<1>1. PICK x : x = [step |-> s, attempt |-> call[c].attempt,
                    record |-> call[c].record, revision |-> call[c].revision]
  OBVIOUS
<1>2. /\ call[c].attempt \in Attempts /\ call[c].record \in Record
      /\ call[c].revision \in Nat \ {0} /\ WorkFits(call[c], c)
  BY AtWork
<1>3. x \in Work
  BY <1>1, <1>2 DEF Work
<1>4. x \in Calls'
  BY <1>3, RecordsKept DEF IInv, Calls
<1>5. WorkFits(x, c)'
  BY <1>1, <1>2 DEF WorkFits, Shut
<1>6. call' = [call EXCEPT ![c] = x]
  BY <1>1
<1>7. crashes' \in 0..MaxCrashes
  BY DEF IInv, Types
<1>. QED
  BY <1>4, <1>5, <1>6, <1>7, QuietStep

\* A caller drops what it held.
LEMMA GivesUp ==
  ASSUME IInv, NEW c \in Callers,
         host' \in [epoch : 1..MaxEpoch, mode : {"open", "closed"}], HostMoves,
         call' = [call EXCEPT ![c] = Idle],
         journal' = journal, probes' = probes, crashes' \in 0..MaxCrashes
  PROVE  IInv'
<1>1. Idle \in Calls' /\ Idle \notin Work'
  BY DEF Calls, Idle, Work
<1>. QED
  BY <1>1, QuietStep

\* A caller reads an attempt and begins to work on it.
LEMMA Reads ==
  ASSUME IInv, NEW c \in Callers, NEW a \in Attempts, journal[a] # <<>>, NEW s \in WorkSteps,
         call' = [call EXCEPT ![c] = Holding(s, a)],
         Agrees(s, Current(a).stage),
         s \in BehindClose => Shut(Current(a).origin),
         s \in CheckSteps \cup {"probe"} => probes[a][c] = 0,
         UNCHANGED <<host, journal, probes, crashes>>
  PROVE  IInv'
<1>1. PICK x : x = Holding(s, a)
  OBVIOUS
<1>2. /\ Len(journal[a]) \in Nat \ {0} /\ Len(journal[a]) \in 1..Len(journal[a])
      /\ Current(a) = journal[a][Len(journal[a])] /\ Current(a) \in Record
  BY LastRead
<1>3. x \in Work
  BY <1>1, <1>2 DEF Work, Holding
<1>4. x \in Calls' /\ HostMoves /\ host' \in [epoch : 1..MaxEpoch, mode : {"open", "closed"}]
  BY <1>3 DEF IInv, Types, Calls, Work, Record, HostMoves
<1>5. WorkFits(x, c)'
  BY <1>1, <1>2 DEF WorkFits, Shut, Holding
<1>6. call' = [call EXCEPT ![c] = x] /\ crashes' \in 0..MaxCrashes
  BY <1>1 DEF IInv, Types
<1>. QED
  BY <1>4, <1>5, <1>6, QuietStep

\* A call about an epoch, not about a record on file.
LEMMA OtherCall ==
  ASSUME IInv, NEW c \in Callers, NEW x \in Calls, x \notin Work,
         host' \in [epoch : 1..MaxEpoch, mode : {"open", "closed"}], HostMoves,
         call' = [call EXCEPT ![c] = x], UNCHANGED <<journal, probes, crashes>>
  PROVE  IInv'
<1>1. x \in Calls' /\ x \notin Work'
  BY RecordsKept DEF IInv, Calls, Work, Idle, WorkSteps, StageSteps, CheckSteps, ProbeSteps,
                     ReadySteps, ConfirmSteps
<1>2. crashes' \in 0..MaxCrashes
  BY DEF IInv, Types
<1>. QED
  BY <1>1, <1>2, QuietStep

\* The caller at work saves the next checkpoint and moves on to x.
LEMMA NextCheckpoint ==
  ASSUME IInv, NEW c \in Callers, call[c].step \in WorkSteps, NEW x \in Calls,
         NEW record \in Record,
         SaveThen(c, call[c].attempt, call[c].revision + 1, record, x),
         x \in Work => /\ x.attempt = call[c].attempt
                       /\ Agrees(x.step, x.record.stage)
                       /\ Shut(x.record.origin)
                       /\ x.step \in CheckSteps \cup {"probe"} => probes[x.attempt][c] = 0
                       /\ \/ x.revision = call[c].revision /\ x.record = call[c].record
                          \/ x.revision = call[c].revision + 1 /\ x.record = record,
         Follows(call[c].record.stage, record.stage),
         record.stage \in Underway => Shut(record.origin),
         UNCHANGED <<host, probes, crashes>>
  PROVE  IInv'
<1> DEFINE a == call[c].attempt
           n == call[c].revision
<1>0. a \in Attempts /\ n \in Nat \ {0} /\ WorkFits(call[c], c)
  BY AtWork
<1>1. a \in Attempts /\ n \in Nat \ {0} /\ n + 1 \in Nat \ {0} /\ WorkFits(call[c], c)
  BY <1>0
<1>2. /\ n \in 1..Len(journal[a]) /\ journal[a][n] = call[c].record /\ Len(journal[a]) \in Nat
  BY <1>1, LenProperties DEF WorkFits, IInv, Types
<1>3. journal' = Saved(a, n + 1, record)
  BY DEF SaveThen
<1>4. /\ Grows(a)
      /\ \/ n + 1 <= Len(journal[a]) /\ journal'[a] = journal[a]
         \/ /\ n = Len(journal[a]) /\ Len(journal'[a]) = n + 1 /\ journal'[a][n + 1] = record
  BY <1>1, <1>2, <1>3, SavedEffect DEF IInv
<1>5. PICK y : y = IF SaveAccepted(a, n + 1, record) THEN x ELSE Idle
  OBVIOUS
<1>6. call' = [call EXCEPT ![c] = y] /\ y \in Calls
  BY <1>5 DEF SaveThen, Calls
<1>7. ASSUME y \in Work
      PROVE  WorkFits(y, c)'
  <2>1. y = x /\ SaveAccepted(a, n + 1, record)
    BY <1>5, <1>7 DEF Work, Idle
  <2>2. /\ n \in 1..Len(journal'[a]) /\ journal'[a][n] = journal[a][n]
        /\ n + 1 \in 1..Len(journal'[a]) /\ journal'[a][n + 1] = record
    <3>1. n + 1 <= Len(journal[a]) => journal[a][n + 1] = record
      BY <2>1 DEF SaveAccepted
    <3>2. CASE n + 1 <= Len(journal[a]) /\ journal'[a] = journal[a]
      BY <1>1, <1>2, <3>1, <3>2
    <3>3. CASE n = Len(journal[a]) /\ Len(journal'[a]) = n + 1 /\ journal'[a][n + 1] = record
      <4>1. journal'[a][n] = journal[a][n]
        BY <1>2, <1>4 DEF Grows
      <4>2. n \in 1..n + 1 /\ n + 1 \in 1..n + 1
        BY <1>1
      <4>. QED
        BY <3>3, <4>1, <4>2
    <3>. QED
      BY <1>4, <3>2, <3>3
  <2>. QED
    BY <1>2, <1>7, <2>1, <2>2 DEF WorkFits, Shut
<1>8. PICK b \in Attempts, m \in Nat \ {0} : b = a /\ m = n + 1
  BY <1>1
<1>9. /\ m <= Len(journal[b]) + 1 /\ m # 1 /\ m - 1 = n
      /\ Follows(journal[b][m - 1].stage, record.stage) /\ m - 1 <= Len(journal[b])
  BY <1>1, <1>2, <1>8
<1>10. journal' = Saved(b, m, record)
  BY <1>3, <1>8
<1>. QED
  BY <1>6, <1>7, <1>9, <1>10, SavingStep

LEMMA InitIInv == Init => IInv
<1>. SUFFICES ASSUME Init PROVE IInv
  OBVIOUS
<1>1. Types
  BY RuntimeUpdateAssumption, EmptySeq DEF Init, Types, Calls, RuntimeUpdateAssumption
<1>2. ASSUME NEW c \in Callers
      PROVE  CallOK(c)
  BY DEF Init, CallOK, Calls, Idle, Work
<1>3. ASSUME NEW a \in Attempts
      PROVE  AttemptOK(a)
  BY DEF Init, AttemptOK, HistoryOK, HoldsClosed
<1>. QED
  BY <1>1, <1>2, <1>3 DEF IInv

LEMMA ClosedStep ==
  ASSUME Types, NEW e \in 1..host.epoch, host' = Closed(e)
  PROVE  /\ host' \in [epoch : 1..MaxEpoch, mode : {"open", "closed"}] /\ HostMoves
         /\ MayClose(e) => (e = host'.epoch => host'.mode = "closed")
BY DEF Types, Closed, MayClose, HostMoves, Shut

LEMMA FencedStep ==
  ASSUME Types, NEW e \in 1..host.epoch, host' = IF MayFence(e) THEN Fenced ELSE host
  PROVE  host' \in [epoch : 1..MaxEpoch, mode : {"open", "closed"}] /\ HostMoves
BY RuntimeUpdateAssumption DEF Types, MayFence, Fenced, HostMoves, RuntimeUpdateAssumption

LEMMA BeginKeepsIInv ==
  ASSUME IInv, NEW c \in Callers, Begin(c)
  PROVE  IInv'
<1> USE DEF WorkSteps, StageSteps, CheckSteps, ProbeSteps, ReadySteps, ConfirmSteps
<1>1. CASE BeginRestart(c)
  <2>1. PICK x : x = [step |-> "fenceClose", epoch |-> host.epoch]
    OBVIOUS
  <2>2. x \in Calls /\ x \notin Work
    BY <2>1 DEF IInv, Types, Calls, Work
  <2>. QED
    BY <1>1, <2>1, <2>2, OtherCall DEF BeginRestart, IInv, Types, HostMoves
<1>2. ASSUME NEW a \in Attempts, NEW release \in Releases, BeginPlan(c, a, release)
      PROVE  IInv'
  <2>1. PICK x : x = [step |-> IF Assess(release) = "readOnly" THEN "planClose" ELSE "planSave",
                      attempt |-> a, release |-> release, epoch |-> host.epoch]
    OBVIOUS
  <2>2. x \in Calls /\ x \notin Work
    BY <2>1 DEF IInv, Types, Calls, Work
  <2>. QED
    BY <1>2, <2>1, <2>2, OtherCall DEF BeginPlan, IInv, Types, HostMoves
<1>3. ASSUME NEW a \in Attempts, BeginStage(c, a)
      PROVE  IInv'
  BY <1>3, Reads DEF BeginStage, Known, Agrees, BehindClose
<1>4. ASSUME NEW a \in Attempts, NEW epoch \in 1..MaxEpoch, BeginHealthCheck(c, a, epoch)
      PROVE  IInv'
  <2>1. journal[a] # <<>> /\ Current(a).stage = "staged"
    BY <1>4 DEF BeginHealthCheck, Known
  <2>2. Len(journal[a]) = 2
    BY <2>1, LastRead DEF IInv, AttemptOK, HistoryOK
  <2>3. probes[a][c] = 0
    <3>1. \A d \in Callers : probes[a][d] # 0 => Len(journal[a]) >= 3
      BY DEF IInv, AttemptOK
    <3>. QED
      BY <2>2, <3>1
  <2>. QED
    BY <1>4, <2>1, <2>3, Reads DEF BeginHealthCheck, Agrees, BehindClose
<1>5. ASSUME NEW a \in Attempts, BeginActivate(c, a)
      PROVE  IInv'
  <2>1. journal[a] # <<>> /\ Current(a).stage = "ready" /\ Shut(Current(a).origin)
    BY <1>5, LastRead DEF BeginActivate, Known, Underway
  <2>. QED
    <3>1. PICK s \in ReadySteps : s = IF host.mode = "closed" THEN "activateClosed"
                                                             ELSE "activateOpen"
      OBVIOUS
    <3>2. call' = [call EXCEPT ![c] = Holding(s, a)]
      BY <1>5, <3>1 DEF BeginActivate
    <3>3. s \in WorkSteps /\ Agrees(s, Current(a).stage)
          /\ s \notin CheckSteps \cup {"probe"}
      BY <2>1, <3>1 DEF Agrees
    <3>. QED
      BY <1>5, <2>1, <3>2, <3>3, Reads DEF BeginActivate
<1>6. ASSUME NEW a \in Attempts, BeginConfirm(c, a)
      PROVE  IInv'
  <2>1. journal[a] # <<>> /\ Shut(Current(a).origin)
    BY <1>6 DEF BeginConfirm, Known, Shut
  <2>. QED
    BY <1>6, <2>1, Reads DEF BeginConfirm, Agrees, BehindClose
<1>. QED
  BY <1>1, <1>2, <1>3, <1>4, <1>5, <1>6 DEF Begin

\* Where an event leads from the stage a caller at work began from.
LEMMA Leads ==
  ASSUME NEW stage \in StageName
  PROVE  /\ stage = "available" => Reduce(stage, "staged") = "staged"
         /\ stage = "staged" => Reduce(stage, "healthCheckStarted") = "healthChecking"
         /\ stage = "healthChecking" => Reduce(stage, "healthCheckPassed") = "ready"
         /\ stage = "ready" => Reduce(stage, "handoffClosed") = "handoff"
         /\ stage = "handoff" => Reduce(stage, "successorConfirmed") = "activated"
         /\ stage = "ready" => Reduce(stage, "handoffOpen") = "failed"
         /\ \A e \in {"stagingFailed", "healthCheckFailed", "activationFailed"} :
               Reduce(stage, e) = "failed"
BY DEF Reduce, StageName

LEMMA PlanningKeepsIInv ==
  ASSUME IInv, NEW c \in Callers, ClosePlan(c) \/ SavePlan(c)
  PROVE  IInv'
<1>1. /\ call[c] \in [step : {"planClose", "planSave"}, attempt : Attempts, release : Releases,
                      epoch : 1..host.epoch]
  BY DEF IInv, CallOK, Calls, Work, Idle, ClosePlan, SavePlan, WorkSteps, StageSteps, CheckSteps,
         ProbeSteps, ReadySteps, ConfirmSteps
<1>2. CASE ClosePlan(c)
  <2>1. host' \in [epoch : 1..MaxEpoch, mode : {"open", "closed"}] /\ HostMoves
    BY <1>1, <1>2, ClosedStep DEF ClosePlan, IInv
  <2>2. PICK x : x = [call[c] EXCEPT !.step = "planSave"]
    OBVIOUS
  <2>3. x \in Calls /\ x \notin Work
    BY <1>1, <2>2 DEF Calls, Work, WorkSteps, StageSteps, CheckSteps, ProbeSteps, ReadySteps,
                      ConfirmSteps
  <2>4. CASE call' = [call EXCEPT ![c] = x]
    BY <1>2, <2>1, <2>3, <2>4, OtherCall DEF ClosePlan
  <2>5. CASE call' = [call EXCEPT ![c] = Idle]
    BY <1>2, <2>1, <2>5, GivesUp DEF ClosePlan, IInv, Types
  <2>. QED
    BY <1>2, <2>2, <2>4, <2>5 DEF ClosePlan
<1>3. CASE SavePlan(c)
  <2>0. PICK a \in Attempts : a = call[c].attempt
    BY <1>1
  <2>1. PICK record : record = [stage |-> Discovered(Assess(call[c].release)),
                                origin |-> call[c].epoch,
                                release |-> call[c].release, receipt |-> FALSE]
    OBVIOUS
  <2>2. Discovered(Assess(call[c].release)) \in {"idle", "available", "readOnly", "failed"}
    BY DEF Discovered, Assess
  <2>3. record \in Record /\ record.stage \in {"idle", "available", "readOnly", "failed"}
    BY <1>1, <2>0, <2>1, <2>2 DEF Record, StageName
  <2>4. journal' = Saved(a, 1, record) /\ call' = [call EXCEPT ![c] = Idle]
    BY <1>3, <2>0, <2>1 DEF SavePlan, SaveThen
  <2>5. Idle \in Calls /\ Idle \notin Work
    BY DEF Calls, Work, Idle
  <2>6. 1 <= Len(journal[a]) + 1
    BY LenProperties DEF IInv, Types
  <2>7. record.stage \notin Underway
    BY <2>3 DEF Underway
  <2>8. PICK m \in Nat \ {0} : m = 1
    OBVIOUS
  <2>9. m <= Len(journal[a]) + 1 /\ ~(m > 1) /\ journal' = Saved(a, m, record)
    BY <2>4, <2>6, <2>8
  <2>10. host' = host /\ probes' = probes /\ crashes' = crashes
    BY <1>3 DEF SavePlan
  <2>. QED
    BY <2>3, <2>4, <2>5, <2>7, <2>9, <2>10, SavingStep
<1>. QED
  BY <1>2, <1>3

LEMMA FencingKeepsIInv ==
  ASSUME IInv, NEW c \in Callers, FenceClose(c) \/ FenceOpen(c)
  PROVE  IInv'
<1>1. call[c] \in [step : {"fenceClose", "fenceOpen"}, epoch : 1..host.epoch]
  BY DEF IInv, CallOK, Calls, Work, Idle, FenceClose, FenceOpen, WorkSteps, StageSteps, CheckSteps,
         ProbeSteps, ReadySteps, ConfirmSteps
<1>2. CASE FenceClose(c)
  <2>1. host' \in [epoch : 1..MaxEpoch, mode : {"open", "closed"}] /\ HostMoves
    BY <1>1, <1>2, ClosedStep DEF FenceClose, IInv
  <2>2. PICK x : x = [call[c] EXCEPT !.step = "fenceOpen"]
    OBVIOUS
  <2>3. x \in Calls /\ x \notin Work
    BY <1>1, <2>2 DEF Calls, Work
  <2>4. CASE call' = [call EXCEPT ![c] = x]
    BY <1>2, <2>1, <2>3, <2>4, OtherCall DEF FenceClose
  <2>5. CASE call' = [call EXCEPT ![c] = Idle]
    BY <1>2, <2>1, <2>5, GivesUp DEF FenceClose, IInv, Types
  <2>. QED
    BY <1>2, <2>2, <2>4, <2>5 DEF FenceClose
<1>3. CASE FenceOpen(c)
  <2>1. host' \in [epoch : 1..MaxEpoch, mode : {"open", "closed"}] /\ HostMoves
    BY <1>1, <1>3, FencedStep DEF FenceOpen, IInv
  <2>. QED
    BY <1>3, <2>1, GivesUp DEF FenceOpen, IInv, Types
<1>. QED
  BY <1>2, <1>3

\* A checkpoint that ends the call.
LEMMA LastCheckpoint ==
  ASSUME IInv, NEW c \in Callers, call[c].step \in WorkSteps,
         NEW event, Checkpoint(c, event, Idle),
         Reduce(call[c].record.stage, event) \in StageName,
         Follows(call[c].record.stage, Reduce(call[c].record.stage, event)),
         Shut(call[c].record.origin), UNCHANGED <<host, probes, crashes>>
  PROVE  IInv'
<1>1. call[c].record \in Record
  BY AtWork
<1>2. PICK s \in StageName : s = Reduce(call[c].record.stage, event)
  OBVIOUS
<1>3. PICK record : record = [call[c].record EXCEPT !.stage = s]
  OBVIOUS
<1>4. record \in Record /\ record.stage = s /\ record.origin = call[c].record.origin
  BY <1>1, <1>3, RecordRewritten
<1>5. SaveThen(c, call[c].attempt, call[c].revision + 1, record, Idle)
  BY <1>2, <1>3 DEF Checkpoint
<1>6. Idle \in Calls /\ Idle \notin Work
  BY DEF Calls, Idle, Work
<1>. QED
  BY <1>2, <1>4, <1>5, <1>6, NextCheckpoint

\* A probe is counted for the caller at it and for nobody else.
LEMMA ProbeStep ==
  ASSUME IInv, NEW c \in Callers, call[c].step = "probe",
         NEW s \in {"healthCheckPassed", "healthCheckFailed"},
         call' = [call EXCEPT ![c] = [step |-> s, attempt |-> call[c].attempt,
                                      record |-> call[c].record, revision |-> call[c].revision]],
         probes' = [probes EXCEPT ![call[c].attempt][c] = @ + 1],
         UNCHANGED <<host, journal, crashes>>
  PROVE  IInv'
<1> DEFINE a == call[c].attempt
<1> USE DEF WorkSteps, StageSteps, CheckSteps, ProbeSteps, ReadySteps, ConfirmSteps, BehindClose
<1>1. /\ call[c] \in Work /\ WorkFits(call[c], c) /\ a \in Attempts
      /\ call[c].record \in Record /\ call[c].revision \in Nat \ {0}
  BY AtWork
<1>2. /\ call[c].revision \in 1..Len(journal[a]) /\ journal[a][call[c].revision] = call[c].record
      /\ call[c].record.stage = "healthChecking" /\ probes[a][c] = 0
      /\ Shut(call[c].record.origin)
  BY <1>1 DEF WorkFits, Agrees
<1>3. HistoryOK(journal[a]) /\ Len(journal[a]) \in Nat
  BY <1>1, LenProperties DEF IInv, AttemptOK, Types
<1>4. Len(journal[a]) >= 3
  BY <1>2, <1>3 DEF HistoryOK
<1>5. Record' = Record /\ Work' = Work /\ Calls' = Calls
  BY DEF Record, Work, Calls
<1>6. PICK x : x = [step |-> s, attempt |-> a, record |-> call[c].record,
                    revision |-> call[c].revision]
  OBVIOUS
<1>7. x \in Work /\ x \in Calls /\ call' = [call EXCEPT ![c] = x]
  BY <1>1, <1>6 DEF Work, Calls
<1>8. \A b \in Attempts, d \in Callers :
         /\ probes'[b][d] \in Nat
         /\ b = a /\ d = c => probes'[b][d] = 1
         /\ b # a \/ d # c => probes'[b][d] = probes[b][d]
  BY <1>1, <1>2 DEF IInv, Types
<1>9. probes' \in [Attempts -> [Callers -> Nat]]
  BY <1>1 DEF IInv, Types
<1>10. Types'
  BY <1>5, <1>7, <1>9 DEF IInv, Types
<1>11. HostMoves /\ \A b \in Attempts : Grows(b)
  BY LenProperties DEF HostMoves, IInv, Types, Grows
<1>12. ASSUME NEW d \in Callers
       PROVE  CallOK(d)'
  <2>1. CASE d = c
    <3>1. call'[d] = x
      BY <1>7, <2>1 DEF IInv, Types
    <3>2. WorkFits(x, c)'
      BY <1>2, <1>6 DEF WorkFits, Agrees, Shut
    <3>. QED
      BY <1>5, <1>7, <2>1, <3>1, <3>2 DEF CallOK
  <2>2. CASE d # c
    BY <1>7, <1>8, <1>10, <1>11, <2>2, OthersKept DEF IInv, Types
  <2>. QED
    BY <2>1, <2>2
<1>13. ASSUME NEW b \in Attempts
       PROVE  AttemptOK(b)'
  <2>1. /\ HistoryOK(journal[b]) /\ HoldsClosed(journal[b])
        /\ \A d \in Callers : probes[b][d] # 0 => probes[b][d] = 1 /\ Len(journal[b]) >= 3
    BY DEF IInv, AttemptOK
  <2>2. \A d \in Callers : probes'[b][d] # 0 => probes'[b][d] = 1 /\ Len(journal'[b]) >= 3
    BY <1>4, <1>8, <2>1
  <2>3. HoldsClosed(journal[b])'
    BY <2>1 DEF HoldsClosed, Shut
  <2>. QED
    BY <2>1, <2>2, <2>3 DEF AttemptOK, HistoryOK
<1>. QED
  BY <1>10, <1>12, <1>13 DEF IInv

LEMMA WorkKeepsIInv ==
  ASSUME IInv, NEW c \in Callers, call[c].step \in WorkSteps, Step(c)
  PROVE  IInv'
<1> DEFINE a == call[c].attempt
           r == call[c].record
<1>1. /\ call[c] \in Work /\ WorkFits(call[c], c)
      /\ call[c] = [step |-> call[c].step, attempt |-> a, record |-> r,
                    revision |-> call[c].revision]
      /\ a \in Attempts /\ r \in Record /\ call[c].revision \in Nat \ {0}
      /\ r.stage \in StageName /\ r.origin \in 1..host.epoch
  BY AtWork DEF Record
<1>2. \A s \in WorkSteps :
         [call[c] EXCEPT !.step = s] = [step |-> s, attempt |-> a, record |-> r,
                                        revision |-> call[c].revision]
  BY <1>1
<1>3. /\ Agrees(call[c].step, r.stage)
      /\ call[c].step \in BehindClose => Shut(r.origin)
      /\ call[c].step \in CheckSteps \cup {"probe"} => probes[a][c] = 0
  BY <1>1 DEF WorkFits
<1>4. Idle \in Calls /\ Idle \notin Work
  BY DEF Calls, Idle, Work
<1>5. UNCHANGED host =>
         host' \in [epoch : 1..MaxEpoch, mode : {"open", "closed"}] /\ HostMoves
         /\ (Shut(r.origin) => (r.origin = host'.epoch => host'.mode = "closed"))
  BY DEF IInv, Types, HostMoves, Shut
<1> USE DEF WorkSteps, StageSteps, CheckSteps, ProbeSteps, ReadySteps, ConfirmSteps, BehindClose
<1>6. CASE Stage(c)
  <2>1. PICK s \in {"staged", "stagingFailed"} : call' = [call EXCEPT ![c] = [@ EXCEPT !.step = s]]
    BY <1>6 DEF Stage
  <2>2. call' = [call EXCEPT ![c] = [step |-> s, attempt |-> a, record |-> r,
                                     revision |-> call[c].revision]]
    BY <1>2, <2>1
  <2>3. s \in WorkSteps /\ Agrees(s, r.stage) /\ s \notin BehindClose
        /\ s \notin CheckSteps \cup {"probe"}
    BY <1>3, <1>6 DEF Agrees, Stage
  <2>. QED
    BY <1>5, <1>6, <2>2, <2>3, MovesOn DEF Stage
<1>7. CASE SaveStaged(c)
  <2>1. r.stage = "available"
    BY <1>3, <1>7 DEF SaveStaged, Agrees
  <2>0. Reduce(r.stage, call[c].step) \in {"staged", "failed"}
    BY <1>1, <1>7, <2>1, Leads DEF SaveStaged
  <2>2. PICK s \in StageName, t \in BOOLEAN :
            s = Reduce(r.stage, call[c].step) /\ t = (call[c].step = "staged")
            /\ s \in {"staged", "failed"}
    BY <2>0, Zenon DEF StageName
  <2>3. PICK record : record = [r EXCEPT !.stage = s, !.receipt = t]
    OBVIOUS
  <2>4. record \in Record /\ record.stage = s
    BY <1>1, <2>3, RecordRewritten
  <2>5. SaveThen(c, a, call[c].revision + 1, record, Idle)
    BY <1>7, <2>2, <2>3 DEF SaveStaged
  <2>6. Follows(r.stage, record.stage) /\ record.stage \notin Underway
    BY <2>1, <2>2, <2>4 DEF Follows, Underway
  <2>. QED
    BY <1>4, <1>7, <2>4, <2>5, <2>6, NextCheckpoint DEF SaveStaged
<1>8. CASE CloseForHealthCheck(c)
  <2>1. host' \in [epoch : 1..MaxEpoch, mode : {"open", "closed"}] /\ HostMoves
        /\ (MayClose(r.origin) => (r.origin = host'.epoch => host'.mode = "closed"))
    BY <1>1, <1>8, ClosedStep DEF CloseForHealthCheck, IInv
  <2>2. CASE MayClose(r.origin)
    <3>1. call' = [call EXCEPT ![c] = [step |-> "healthSave", attempt |-> a, record |-> r,
                                       revision |-> call[c].revision]]
      BY <1>2, <1>8, <2>2 DEF CloseForHealthCheck
    <3>2. Agrees("healthSave", r.stage) /\ call[c].step \in CheckSteps
      BY <1>3, <1>8 DEF Agrees, CloseForHealthCheck
    <3>. QED
      BY <1>8, <2>1, <2>2, <3>1, <3>2, MovesOn DEF CloseForHealthCheck
  <2>3. CASE ~MayClose(r.origin)
    BY <1>8, <2>1, <2>3, GivesUp DEF CloseForHealthCheck, IInv, Types
  <2>. QED
    BY <2>2, <2>3
<1>9. CASE SaveHealthChecking(c)
  <2>1. /\ r.stage = "staged" /\ Shut(r.origin) /\ probes[a][c] = 0
        /\ Reduce(r.stage, "healthCheckStarted") = "healthChecking"
    BY <1>1, <1>3, <1>9, Leads DEF SaveHealthChecking, Agrees
  <2>2. PICK record : record = [r EXCEPT !.stage = "healthChecking"]
    OBVIOUS
  <2>3. /\ record \in Record /\ record.stage = "healthChecking" /\ record.origin = r.origin
    BY <1>1, <2>2, RecordRewritten DEF StageName
  <2>4. PICK x : x = Checking(c)
    OBVIOUS
  <2>5. x = [step |-> "probe", attempt |-> a, record |-> record,
             revision |-> call[c].revision + 1]
    BY <1>1, <2>1, <2>2, <2>4 DEF Checking
  <2>6. x \in Calls
    BY <1>1, <2>3, <2>5 DEF Calls, Work
  <2>7. SaveThen(c, a, call[c].revision + 1, record, x)
    BY <1>9, <2>1, <2>2, <2>4 DEF SaveHealthChecking, Checkpoint
  <2>8. Follows(r.stage, record.stage) /\ Shut(record.origin)
    BY <2>1, <2>3 DEF Follows
  <2>9. /\ x.attempt = a /\ Agrees(x.step, x.record.stage) /\ Shut(x.record.origin)
        /\ probes[x.attempt][c] = 0
        /\ x.revision = call[c].revision + 1 /\ x.record = record
    BY <2>1, <2>3, <2>5, <2>8 DEF Agrees
  <2>. QED
    BY <1>9, <2>3, <2>6, <2>7, <2>8, <2>9, NextCheckpoint DEF SaveHealthChecking
<1>10. CASE Probe(c)
  <2>1. PICK s \in {"healthCheckPassed", "healthCheckFailed"} :
            call' = [call EXCEPT ![c] = [step |-> s, attempt |-> a, record |-> r,
                                         revision |-> call[c].revision]]
    BY <1>2, <1>10 DEF Probe
  <2>. QED
    BY <1>1, <1>3, <1>10, <2>1, ProbeStep DEF Probe
<1>11. CASE SaveHealth(c)
  <2>1. r.stage = "healthChecking" /\ Shut(r.origin)
    BY <1>3, <1>11 DEF SaveHealth, Agrees
  <2>2. Reduce(r.stage, call[c].step) \in {"ready", "failed"}
    BY <1>1, <1>11, <2>1, Leads DEF SaveHealth
  <2>3. Reduce(r.stage, call[c].step) \in StageName /\ Follows(r.stage, Reduce(r.stage, call[c].step))
    BY <2>1, <2>2 DEF StageName, Follows
  <2>4. PICK event : event = call[c].step
    OBVIOUS
  <2>5. Checkpoint(c, event, Idle) /\ UNCHANGED <<host, probes, crashes>>
    BY <1>11, <2>4 DEF SaveHealth
  <2>. QED
    BY <2>1, <2>3, <2>4, <2>5, LastCheckpoint
<1>12. CASE Activate(c)
  <2>1. PICK s \in {"handoffClosed", "handoffOpen", "activationFailed"} :
            call' = [call EXCEPT ![c] = [@ EXCEPT !.step = s]]
    BY <1>12 DEF Activate
  <2>2. call' = [call EXCEPT ![c] = [step |-> s, attempt |-> a, record |-> r,
                                     revision |-> call[c].revision]]
    BY <1>2, <2>1
  <2>3. /\ s \in WorkSteps /\ Agrees(s, r.stage) /\ Shut(r.origin)
        /\ s \notin CheckSteps \cup {"probe"}
    BY <1>3, <1>12 DEF Agrees, Activate
  <2>. QED
    BY <1>5, <1>12, <2>2, <2>3, MovesOn DEF Activate
<1>13. CASE SaveHandoff(c)
  <2>1. r.stage = "ready" /\ Shut(r.origin)
    BY <1>3, <1>13 DEF SaveHandoff, Agrees
  <2>2. Reduce(r.stage, call[c].step) \in {"handoff", "failed"}
    BY <1>1, <1>13, <2>1, Leads DEF SaveHandoff
  <2>3. Reduce(r.stage, call[c].step) \in StageName /\ Follows(r.stage, Reduce(r.stage, call[c].step))
    BY <2>1, <2>2 DEF StageName, Follows
  <2>4. PICK event : event = call[c].step
    OBVIOUS
  <2>5. Checkpoint(c, event, Idle) /\ UNCHANGED <<host, probes, crashes>>
    BY <1>13, <2>4 DEF SaveHandoff
  <2>. QED
    BY <2>1, <2>3, <2>4, <2>5, LastCheckpoint
<1>14. CASE SaveConfirmed(c)
  <2>1. /\ r.stage = "handoff" /\ Shut(r.origin)
        /\ Reduce(r.stage, "successorConfirmed") = "activated"
    BY <1>1, <1>3, <1>14, Leads DEF SaveConfirmed, Agrees
  <2>2. PICK record : record = [r EXCEPT !.stage = "activated"]
    OBVIOUS
  <2>3. /\ record \in Record /\ record.stage = "activated" /\ record.origin = r.origin
    BY <1>1, <2>2, RecordRewritten DEF StageName
  <2>4. PICK x : x = [step |-> "confirmed", attempt |-> a, record |-> r,
                      revision |-> call[c].revision]
    OBVIOUS
  <2>5. x \in Calls
    BY <1>1, <2>4 DEF Calls, Work
  <2>6. SaveThen(c, a, call[c].revision + 1, record, x)
    BY <1>2, <1>14, <2>1, <2>2, <2>4 DEF SaveConfirmed, Checkpoint
  <2>7. Follows(r.stage, record.stage) /\ Shut(record.origin)
    BY <2>1, <2>3 DEF Follows
  <2>8. /\ x.attempt = a /\ Agrees(x.step, x.record.stage) /\ Shut(x.record.origin)
        /\ x.step \notin CheckSteps \cup {"probe"}
        /\ x.revision = call[c].revision /\ x.record = r
    BY <2>1, <2>4 DEF Agrees
  <2>. QED
    BY <1>14, <2>3, <2>5, <2>6, <2>7, <2>8, NextCheckpoint DEF SaveConfirmed
<1>15. CASE ReadConfirmed(c)
  <2>1. CASE call' = [call EXCEPT ![c] = [@ EXCEPT !.step = "open"]]
    <3>1. call' = [call EXCEPT ![c] = [step |-> "open", attempt |-> a, record |-> r,
                                       revision |-> call[c].revision]]
      BY <1>2, <2>1
    <3>2. Agrees("open", r.stage) /\ Shut(r.origin)
      BY <1>3, <1>15 DEF Agrees, ReadConfirmed
    <3>. QED
      BY <1>5, <1>15, <3>1, <3>2, MovesOn DEF ReadConfirmed
  <2>2. CASE call' = [call EXCEPT ![c] = Idle]
    BY <1>5, <1>15, <2>2, GivesUp DEF ReadConfirmed, IInv, Types
  <2>. QED
    BY <1>15, <2>1, <2>2 DEF ReadConfirmed
<1>16. CASE OpenConfirmed(c)
  <2>1. host' \in [epoch : 1..MaxEpoch, mode : {"open", "closed"}] /\ HostMoves
    BY <1>1, <1>16, FencedStep DEF OpenConfirmed, IInv
  <2>. QED
    BY <1>16, <2>1, GivesUp DEF OpenConfirmed, IInv, Types
<1>17. ~ClosePlan(c) /\ ~SavePlan(c) /\ ~FenceClose(c) /\ ~FenceOpen(c)
  BY DEF ClosePlan, SavePlan, FenceClose, FenceOpen
<1>. QED
  BY <1>6, <1>7, <1>8, <1>9, <1>10, <1>11, <1>12, <1>13, <1>14, <1>15, <1>16, <1>17 DEF Step

LEMMA NextKeepsIInv == IInv /\ [Next]_vars => IInv'
<1>. SUFFICES ASSUME IInv, [Next]_vars PROVE IInv'
  OBVIOUS
<1>1. CASE UNCHANGED vars
  BY <1>1 DEF vars, IInv, Types, CallOK, AttemptOK, HistoryOK, HoldsClosed, WorkFits, Shut, Calls,
              Work, Record
<1>2. ASSUME NEW c \in Callers, Begin(c)
      PROVE  IInv'
  BY <1>2, BeginKeepsIInv
<1>3. ASSUME NEW c \in Callers, Step(c)
      PROVE  IInv'
  <2>1. CASE call[c].step \in WorkSteps
    BY <1>3, <2>1, WorkKeepsIInv
  <2>2. CASE call[c].step \notin WorkSteps
    <3>1. ClosePlan(c) \/ SavePlan(c) \/ FenceClose(c) \/ FenceOpen(c)
      BY <1>3, <2>2 DEF Step, WorkSteps, StageSteps, CheckSteps, ProbeSteps, ReadySteps,
           ConfirmSteps, Stage, SaveStaged, CloseForHealthCheck, SaveHealthChecking, Probe,
           SaveHealth, Activate, SaveHandoff, SaveConfirmed, ReadConfirmed, OpenConfirmed
    <3>. QED
      BY <3>1, PlanningKeepsIInv, FencingKeepsIInv
  <2>. QED
    BY <2>1, <2>2
<1>4. ASSUME NEW c \in Callers, Crash(c)
      PROVE  IInv'
  <2>1. /\ host' \in [epoch : 1..MaxEpoch, mode : {"open", "closed"}] /\ HostMoves
        /\ crashes' \in 0..MaxCrashes
    BY <1>4, RuntimeUpdateAssumption DEF Crash, IInv, Types, HostMoves, RuntimeUpdateAssumption
  <2>. QED
    BY <1>4, <2>1, GivesUp DEF Crash
<1>. QED
  BY <1>1, <1>2, <1>3, <1>4 DEF Next

-----------------------------------------------------------------------------
(* The theorems.                                                            *)

\* The inductive invariant holds in every reachable state: of each attempt the
\* journal keeps one history, and each caller's reading of it stays on record.
THEOREM AlwaysIInv == Spec => []IInv
BY InitIInv, NextKeepsIInv, PTL DEF Spec

\* Whoever races, crashes or is overtaken, the checkpoints of an attempt are
\* one history (save_runtime_update), and no caller probes an attempt twice
\* (health_check).
THEOREM JournalIsOneHistory == Spec => []UpdateInvariant
<1>1. IInv => UpdateInvariant
  <2>. SUFFICES ASSUME IInv PROVE UpdateInvariant
    OBVIOUS
  <2>1. TypeOK
    BY DEF IInv, Types, TypeOK
  <2>2. CheckpointsFollow
    <3>1. ASSUME NEW a \in Attempts, NEW i \in 2..Len(journal[a])
          PROVE  Follows(journal[a][i - 1].stage, journal[a][i].stage)
      <4>1. i \in 1..Len(journal[a]) /\ i > 1
        BY <3>1, LenProperties DEF IInv, Types
      <4>. QED
        BY <4>1 DEF IInv, AttemptOK, HistoryOK
    <3>. QED
      BY <3>1 DEF CheckpointsFollow
  <2>3. ProbedOnce
    <3>1. ASSUME NEW a \in Attempts, NEW c \in Callers
          PROVE  probes[a][c] <= 1
      <4>1. probes[a][c] \in Nat
        BY DEF IInv, Types
      <4>2. probes[a][c] # 0 => probes[a][c] = 1
        BY DEF IInv, AttemptOK
      <4>. QED
        BY <4>1, <4>2
    <3>. QED
      BY <3>1 DEF ProbedOnce
  <2>. QED
    BY <2>1, <2>2, <2>3 DEF UpdateInvariant
<1>. QED
  BY <1>1, AlwaysIInv, PTL

\* From the health check to the handover the ingress of the epoch an update
\* was planned in is closed, whatever is cut and whoever else works on the
\* attempt (health_check, activate, open_confirmed).
THEOREM HandoverHoldsIngressClosed == Spec => []UpdateHoldsIngressClosed
<1>1. IInv => UpdateHoldsIngressClosed
  BY LastRead DEF UpdateHoldsIngressClosed, Shut
<1>. QED
  BY <1>1, AlwaysIInv, PTL

\* A step is the step of one caller.
LEMMA OneCallMoves ==
  ASSUME call \in [Callers -> Calls], NEW d \in Callers, Begin(d) \/ Step(d) \/ Crash(d),
         NEW c \in Callers, c # d
  PROVE  call'[c] = call[c]
<1>1. CASE Begin(d) \/ Crash(d)
  BY <1>1 DEF Begin, Crash, BeginRestart, BeginPlan, BeginStage, BeginHealthCheck, BeginActivate,
              BeginConfirm
<1>2. CASE SavePlan(d) \/ SaveStaged(d) \/ SaveHealthChecking(d) \/ SaveHealth(d)
           \/ SaveHandoff(d) \/ SaveConfirmed(d)
  <2>1. PICK x : call' = [call EXCEPT ![d] = x]
    BY <1>2 DEF SavePlan, SaveStaged, SaveHealthChecking, SaveHealth, SaveHandoff, SaveConfirmed,
                Checkpoint, SaveThen
  <2>. QED
    BY <2>1
<1>3. CASE ClosePlan(d) \/ Stage(d) \/ CloseForHealthCheck(d) \/ Probe(d) \/ Activate(d)
  BY <1>3 DEF ClosePlan, Stage, CloseForHealthCheck, Probe, Activate
<1>4. CASE ReadConfirmed(d) \/ OpenConfirmed(d) \/ FenceClose(d) \/ FenceOpen(d)
  BY <1>4 DEF ReadConfirmed, OpenConfirmed, FenceClose, FenceOpen
<1>. QED
  BY <1>1, <1>2, <1>3, <1>4 DEF Step

\* A call of an epoch that is over neither closes nor opens an ingress
\* (require_epoch).
THEOREM OvertakenCallIsHarmless == Spec => OvertakenCallTouchesNothing
<1>1. ASSUME IInv, [Next]_vars, NEW c \in Callers, call[c] # Idle, call'[c] # call[c],
             IF "record" \in DOMAIN call[c] THEN call[c].record.origin # host.epoch
                                            ELSE call[c].epoch # host.epoch
      PROVE  UNCHANGED host
  <2>1. CASE UNCHANGED vars
    BY <2>1 DEF vars
  <2>2. ASSUME NEW d \in Callers, Begin(d) \/ Step(d) \/ Crash(d)
        PROVE  UNCHANGED host
    <3>1. call \in [Callers -> Calls]
      BY <1>1 DEF IInv, Types
    <3>2. d = c
      BY <1>1, <2>2, <3>1, OneCallMoves
    <3>3. "record" \in DOMAIN call[c] <=> call[c] \in Work
      BY <1>1, <3>1 DEF Calls, Work, Idle
    <3>4. CASE call[c] \in Work
      BY <1>1, <2>2, <3>2, <3>3, <3>4 DEF Begin, Step, Crash, BeginRestart, BeginPlan, BeginStage,
         BeginHealthCheck, BeginActivate, BeginConfirm, Known, ClosePlan, SavePlan, Stage,
         SaveStaged, CloseForHealthCheck, SaveHealthChecking, Probe, SaveHealth, Activate,
         SaveHandoff, SaveConfirmed, ReadConfirmed, OpenConfirmed, FenceClose, FenceOpen, Work,
         WorkSteps, StageSteps, CheckSteps, ProbeSteps, ReadySteps, ConfirmSteps, Closed,
         MayClose, MayFence
    <3>5. CASE call[c] \notin Work
      <4>1. call[c].epoch # host.epoch /\ call[c].step \notin {"healthClose", "open"}
        BY <1>1, <3>1, <3>3, <3>5 DEF Calls, Idle
      <4>. QED
        BY <2>2, <3>2, <4>1 DEF Begin, Step, Crash, BeginRestart, BeginPlan, BeginStage,
           BeginHealthCheck, BeginActivate, BeginConfirm, ClosePlan, SavePlan, Stage, SaveStaged,
           CloseForHealthCheck, SaveHealthChecking, Probe, SaveHealth, Activate, SaveHandoff,
           SaveConfirmed, ReadConfirmed, OpenConfirmed, FenceClose, FenceOpen, Closed, MayClose,
           MayFence
    <3>. QED
      BY <3>4, <3>5
  <2>. QED
    BY <1>1, <2>1, <2>2 DEF Next
<1>2. IInv /\ [Next]_vars =>
        [\A c \in Callers :
          /\ call[c] # Idle /\ call'[c] # call[c]
          /\ IF "record" \in DOMAIN call[c] THEN call[c].record.origin # host.epoch
                                            ELSE call[c].epoch # host.epoch
          => UNCHANGED host]_vars
  BY <1>1
<1>. QED
  BY <1>2, AlwaysIInv, PTL DEF Spec, OvertakenCallTouchesNothing
=============================================================================
