--------------------------- MODULE ReviewedPlanProofs ---------------------------
(***************************************************************************)
(* Proofs about ReviewedPlan for every number of runs, turns and epochs, for *)
(* every batch and every bound on the length of plans and prompts.           *)
(***************************************************************************)
EXTENDS ReviewedPlan, SequenceTheorems, FiniteSetTheorems, TLAPS

-----------------------------------------------------------------------------
(* The inductive invariant: the properties and what the pursuit has read.   *)

HostState == [epoch : 1..MaxEpoch, mode : {"open", "closed"}]
Mode == {"plan", "agent"}
Turn == [run : DOMAIN runs, phase : {"active", "completed", "failed"},
         length : Lengths \cup {0}, implements : DOMAIN approvals \cup {0}]
Artifact == [run : DOMAIN runs, revision : Nat \ {0}, turn : DOMAIN turns,
             status : Status, length : Nat \ {0}]
Approval == [artifact : DOMAIN artifacts, child : DOMAIN runs]

Tick == [step : {"idle", "ingest", "save", "implement"}, work : SUBSET Nat, item : Nat,
         revision : Nat]

\* A turn that has come to rest with a plan.
Planned(t) == t \in DOMAIN turns /\ turns[t].phase # "active" /\ HasPlan(t)

\* What the pursuit has read is still so: only it makes revisions.
TickFits(k) ==
    /\ k.step \in {"ingest", "save"} => \A t \in k.work : Planned(t)
    /\ k.step = "save" => Planned(k.item) /\ k.revision = Revision(turns[k.item].run) + 1
    /\ k.step = "implement" => k.work \subseteq DOMAIN approvals

IInv == PlansInvariant /\ Current > 0 /\ tick \in Tick /\ TickFits(tick)

-----------------------------------------------------------------------------
(* Sequences.                                                               *)

\* What Append adds and what it leaves.
LEMMA Appended ==
  ASSUME NEW S, NEW s \in Seq(S), NEW e \in S
  PROVE  /\ Append(s, e) \in Seq(S)
         /\ Len(s) \in Nat /\ Len(Append(s, e)) = Len(s) + 1
         /\ DOMAIN s = 1..Len(s) /\ DOMAIN Append(s, e) = 1..(Len(s) + 1)
         /\ \A i \in DOMAIN s : Append(s, e)[i] = s[i]
         /\ Append(s, e)[Len(s) + 1] = e
BY AppendProperties, LenProperties

\* A function on the first numbers is a sequence.
LEMMA Listed ==
  ASSUME NEW S, NEW n \in Nat, NEW f \in [1..n -> S]
  PROVE  f \in Seq(S) /\ Len(f) = n
<1>1. f \in Seq(S)
  BY SeqDef
<1>2. Len(f) \in Nat /\ 1..Len(f) = 1..n
  BY <1>1, LenProperties
<1>. QED
  BY <1>1, <1>2

\* The rows of each table are numbered, and each is of its type.
LEMMA Rows ==
  ASSUME TypeOK
  PROVE  /\ Len(runs) \in Nat /\ DOMAIN runs = 1..Len(runs) /\ runs \in Seq(Mode)
         /\ Len(turns) \in Nat /\ DOMAIN turns = 1..Len(turns) /\ turns \in Seq(Turn)
         /\ Len(artifacts) \in Nat /\ DOMAIN artifacts = 1..Len(artifacts)
         /\ artifacts \in Seq(Artifact)
         /\ Len(approvals) \in Nat /\ DOMAIN approvals = 1..Len(approvals)
         /\ approvals \in Seq(Approval)
         /\ \A t \in DOMAIN turns : turns[t] \in Turn
         /\ \A i \in DOMAIN artifacts : artifacts[i] \in Artifact
         /\ \A a \in DOMAIN approvals : approvals[a] \in Approval
<1>1. /\ runs \in Seq(Mode) /\ turns \in Seq(Turn) /\ artifacts \in Seq(Artifact)
      /\ approvals \in Seq(Approval)
  BY DEF TypeOK, Turn, Artifact, Approval, Mode
<1>. QED
  BY <1>1, LenProperties, ElementOfSeq

\* Rows on file keep their types when tables grow.
LEMMA Wider ==
  ASSUME TypeOK, DOMAIN runs \subseteq DOMAIN runs', DOMAIN turns \subseteq DOMAIN turns',
         DOMAIN artifacts \subseteq DOMAIN artifacts', DOMAIN approvals \subseteq DOMAIN approvals'
  PROVE  /\ turns \in Seq(Turn') /\ artifacts \in Seq(Artifact') /\ approvals \in Seq(Approval')
         /\ \A x \in Turn : x \in Turn'
         /\ \A x \in Artifact : x \in Artifact'
         /\ \A x \in Approval : x \in Approval'
<1>1. Turn \subseteq Turn' /\ Artifact \subseteq Artifact' /\ Approval \subseteq Approval'
  BY DEF Turn, Artifact, Approval
<1>. QED
  BY <1>1, Rows, SeqMonotonic

-----------------------------------------------------------------------------
(* Revisions of a plan.                                                     *)

\* A plan has finitely many revisions.
LEMMA RevisionsFinite ==
  ASSUME TypeOK, NEW r, NEW i
  PROVE  /\ IsFiniteSet(OfPlan(r)) /\ Revision(r) \in Nat
         /\ IsFiniteSet({j \in OfPlan(r) : j <= i})
         /\ Cardinality({j \in OfPlan(r) : j <= i}) \in Nat
<1>1. IsFiniteSet(1..Len(artifacts)) /\ OfPlan(r) \subseteq 1..Len(artifacts)
  BY Rows, FS_Interval DEF OfPlan
<1>2. IsFiniteSet(OfPlan(r)) /\ IsFiniteSet({j \in OfPlan(r) : j <= i})
  BY <1>1, FS_Subset
<1>. QED
  BY <1>2, FS_CardinalityType DEF Revision

\* The status of a revision is no part of its number.
LEMMA SameRevisions ==
  ASSUME DOMAIN artifacts' = DOMAIN artifacts,
         \A i \in DOMAIN artifacts : artifacts'[i].run = artifacts[i].run
  PROVE  \A r : OfPlan(r)' = OfPlan(r) /\ Revision(r)' = Revision(r)
<1>1. \A r : OfPlan(r)' = OfPlan(r)
  BY DEF OfPlan
<1>. QED
  BY <1>1 DEF Revision

-----------------------------------------------------------------------------
(* Each table, and the steps that write to it.                              *)

LEMMA SamePlans ==
  ASSUME OneIsReviewable, UNCHANGED artifacts
  PROVE  OneIsReviewable'
BY DEF OneIsReviewable, Revision, OfPlan

LEMMA SameApprovals ==
  ASSUME ApprovedOnce, UNCHANGED <<artifacts, approvals>>
  PROVE  ApprovedOnce'
BY DEF ApprovedOnce

LEMMA SameTick ==
  ASSUME NEW k \in Tick, TickFits(k), UNCHANGED <<turns, artifacts, approvals>>
  PROVE  TickFits(k)'
BY DEF TickFits, Planned, HasPlan, Revision, OfPlan

\* What was read stays so while turns that have come to rest do.
LEMMA TickKept ==
  ASSUME NEW k \in Tick, TickFits(k), UNCHANGED artifacts,
         DOMAIN turns \subseteq DOMAIN turns', DOMAIN approvals \subseteq DOMAIN approvals',
         \A t \in DOMAIN turns : turns[t].phase # "active" => turns'[t] = turns[t]
  PROVE  TickFits(k)'
<1>1. \A t : Planned(t) => Planned(t)' /\ turns'[t].run = turns[t].run
  BY DEF Planned, HasPlan
<1>2. k.step = "save" => (k.revision = Revision(turns[k.item].run) + 1)'
  <2>1. SUFFICES ASSUME k.step = "save"
                 PROVE  (k.revision = Revision(turns[k.item].run) + 1)'
    OBVIOUS
  <2>2. PICK r : r = turns[k.item].run
    OBVIOUS
  <2>3. turns'[k.item].run = r /\ k.revision = Revision(r) + 1
    BY <1>1, <2>1, <2>2 DEF TickFits
  <2>4. Revision(r)' = Revision(r)
    BY DEF Revision, OfPlan
  <2>. QED
    BY <2>3, <2>4 DEF Revision, OfPlan
<1>3. /\ k.step \in {"ingest", "save"} => \A t \in k.work : Planned(t)'
      /\ k.step = "save" => Planned(k.item)'
      /\ k.step = "implement" => k.work \subseteq DOMAIN approvals'
  BY <1>1 DEF TickFits
<1>. QED
  BY <1>2, <1>3 DEF TickFits

\* The host moves, and the pursuit reads, goes on or is dropped.
LEMMA HostStep ==
  ASSUME IInv, host' \in HostState, NEW k \in Tick, TickFits(k), tick' = k,
         UNCHANGED <<runs, turns, artifacts, approvals>>
  PROVE  IInv'
<1>1. TypeOK'
  BY DEF IInv, PlansInvariant, TypeOK, HostState, Status
<1>2. OneIsReviewable' /\ ApprovedOnce' /\ ImplementedOnce'
  BY SamePlans, SameApprovals DEF IInv, PlansInvariant, ImplementedOnce
<1>3. TickFits(k)' /\ Tick' = Tick
  BY SameTick DEF Tick
<1>. QED
  BY <1>1, <1>2, <1>3 DEF IInv, PlansInvariant, Current

\* A prompt is one more turn of the current run.
LEMMA PromptStep ==
  ASSUME IInv, NEW a \in DOMAIN approvals \cup {0}, turns' = Prompted(a),
         a # 0 => Prompts(a), NEW k \in Tick, TickFits(k), tick' = k,
         UNCHANGED <<host, runs, artifacts, approvals>>
  PROVE  IInv'
<1>1. PICK e : e = [run |-> Current, phase |-> "active", length |-> 0, implements |-> a]
  OBVIOUS
<1>2. TypeOK /\ Current \in DOMAIN runs
  BY Rows DEF IInv, PlansInvariant, Current
<1>3. e \in Turn /\ turns \in Seq(Turn)
  BY <1>1, <1>2, Rows DEF Turn
<1>4. turns' = Append(turns, e)
  BY <1>1 DEF Prompted
<1>5. /\ turns' \in Seq(Turn) /\ Len(turns) \in Nat
      /\ DOMAIN turns = 1..Len(turns) /\ DOMAIN turns' = 1..(Len(turns) + 1)
      /\ \A t \in DOMAIN turns : turns'[t] = turns[t]
      /\ turns'[Len(turns) + 1] = e
  BY <1>3, <1>4, Appended
<1>6. TypeOK'
  <2>1. turns' \in Seq(Turn') /\ artifacts' \in Seq(Artifact') /\ approvals' \in Seq(Approval')
    BY <1>2, <1>5, Wider DEF Turn
  <2>. QED
    BY <1>2, <2>1 DEF TypeOK, Turn, Artifact, Approval, Status
<1>7. ImplementedOnce'
  <2>1. ASSUME NEW t \in DOMAIN turns', turns'[t].implements # 0
        PROVE  turns'[t].run >= approvals[turns'[t].implements].child
    <3>1. CASE t \in DOMAIN turns
      BY <1>5, <2>1, <3>1 DEF IInv, PlansInvariant, ImplementedOnce
    <3>2. CASE t = Len(turns) + 1
      <4>1. a \in DOMAIN approvals /\ turns'[t].run = Len(runs) /\ turns'[t].implements = a
        BY <1>1, <1>5, <2>1, <3>2 DEF Current
      <4>2. approvals[a].child \in 1..Len(runs)
        BY <1>2, <4>1, Rows DEF Approval
      <4>. QED
        BY <1>2, <4>1, <4>2, Rows
    <3>. QED
      BY <1>5, <3>1, <3>2
  <2>2. ASSUME NEW t \in DOMAIN turns', NEW u \in DOMAIN turns',
               turns'[t].implements = turns'[u].implements, turns'[t].implements # 0
        PROVE  t = u
    <3>1. a # 0 => \A x \in DOMAIN turns : turns[x].implements # a
      BY DEF Prompts
    <3>. QED
      BY <1>1, <1>5, <2>2, <3>1 DEF IInv, PlansInvariant, ImplementedOnce
  <2>. QED
    BY <2>1, <2>2 DEF ImplementedOnce
<1>8. TickFits(k)' /\ Tick' = Tick
  BY <1>5, TickKept DEF Tick
<1>. QED
  BY <1>6, <1>7, <1>8, SamePlans, SameApprovals DEF IInv, PlansInvariant, Current

\* A turn that runs comes to rest.
LEMMA EndStep ==
  ASSUME IInv, NEW t \in DOMAIN turns, NEW phase \in {"completed", "failed"},
         NEW length \in Lengths \cup {0}, EndTurn(t, phase, length)
  PROVE  IInv'
<1>1. TypeOK /\ tick \in Tick /\ TickFits(tick) /\ turns[t] \in Turn
      /\ turns \in Seq(Turn) /\ DOMAIN turns = 1..Len(turns) /\ Len(turns) \in Nat
  BY Rows DEF IInv, PlansInvariant
<1>2. PICK e : e = [turns[t] EXCEPT !.phase = phase, !.length = length]
  OBVIOUS
<1>3. e \in Turn /\ e.run = turns[t].run /\ e.implements = turns[t].implements
  BY <1>1, <1>2 DEF Turn
<1>4. turns' = [turns EXCEPT ![t] = e]
  BY <1>2 DEF EndTurn
<1>5. /\ turns' \in Seq(Turn) /\ DOMAIN turns' = DOMAIN turns
      /\ \A u \in DOMAIN turns : turns'[u] = IF u = t THEN e ELSE turns[u]
  BY <1>1, <1>3, <1>4, ExceptSeq
<1>6. TypeOK'
  <2>1. turns' \in Seq(Turn') /\ artifacts' \in Seq(Artifact') /\ approvals' \in Seq(Approval')
    BY <1>1, <1>5, Wider DEF Turn, EndTurn
  <2>. QED
    BY <1>1, <2>1 DEF TypeOK, Turn, Artifact, Approval, Status, EndTurn
<1>7. ImplementedOnce'
  <2>1. \A u \in DOMAIN turns : turns'[u].implements = turns[u].implements
                                /\ turns'[u].run = turns[u].run
    BY <1>3, <1>5
  <2>. QED
    BY <1>5, <2>1 DEF IInv, PlansInvariant, ImplementedOnce, EndTurn
<1>8. TickFits(tick)'
  <2>1. \A u \in DOMAIN turns : turns[u].phase # "active" => turns'[u] = turns[u]
    BY <1>5 DEF EndTurn
  <2>2. PICK k \in Tick : k = tick
    BY <1>1
  <2>3. TickFits(k)'
    BY <1>1, <1>5, <2>1, <2>2, TickKept DEF EndTurn
  <2>. QED
    BY <2>2, <2>3 DEF EndTurn
<1>. QED
  BY <1>1, <1>6, <1>7, <1>8, SamePlans, SameApprovals DEF IInv, PlansInvariant, EndTurn, Current, Tick

\* Runs and turns with the run behind the current one.
LEMMA SwitchStep ==
  ASSUME IInv, NEW mode \in Mode, Switch(mode)
  PROVE  IInv'
<1>1. TypeOK /\ runs \in Seq(Mode)
  BY Rows DEF IInv, PlansInvariant
<1>2. /\ runs' \in Seq(Mode) /\ Len(runs') = Len(runs) + 1 /\ Len(runs) \in Nat
      /\ DOMAIN runs \subseteq DOMAIN runs'
  BY <1>1, Appended DEF Switch
<1>3. turns' \in Seq(Turn') /\ artifacts' \in Seq(Artifact') /\ approvals' \in Seq(Approval')
  BY <1>1, <1>2, Wider DEF Switch
<1>4. TypeOK'
  BY <1>1, <1>2, <1>3 DEF TypeOK, Turn, Artifact, Approval, Status, Switch, Mode
<1>5. TickFits(tick)'
  BY SameTick DEF Switch, IInv
<1>. QED
  BY <1>2, <1>4, <1>5, SamePlans, SameApprovals
     DEF IInv, PlansInvariant, ImplementedOnce, Switch, Current, Tick

-----------------------------------------------------------------------------
(* Decisions.                                                               *)

\* A revision that waits for its review is decided on: it keeps its number, and
\* no other is touched.
LEMMA DecidedEffect ==
  ASSUME IInv, NEW i \in DOMAIN artifacts, NEW s \in Status \ {"readyForReview"},
         artifacts' = Decided(i, s)
  PROVE  /\ artifacts' \in Seq(Artifact) /\ DOMAIN artifacts' = DOMAIN artifacts
         /\ \A j \in DOMAIN artifacts :
               /\ artifacts'[j].run = artifacts[j].run
               /\ artifacts'[j].revision = artifacts[j].revision
               /\ artifacts'[j].turn = artifacts[j].turn
               /\ artifacts'[j].status = IF j = i THEN s ELSE artifacts[j].status
         /\ OneIsReviewable'
<1>1. /\ TypeOK /\ artifacts \in Seq(Artifact) /\ artifacts[i] \in Artifact
      /\ DOMAIN artifacts = 1..Len(artifacts)
  BY Rows DEF IInv, PlansInvariant
<1>2. PICK e : e = [artifacts[i] EXCEPT !.status = s]
  OBVIOUS
<1>3. /\ e \in Artifact /\ e.run = artifacts[i].run /\ e.revision = artifacts[i].revision
      /\ e.turn = artifacts[i].turn /\ e.status = s
  BY <1>1, <1>2 DEF Artifact
<1>4. artifacts' = [artifacts EXCEPT ![i] = e]
  BY <1>2 DEF Decided
<1>5. /\ artifacts' \in Seq(Artifact) /\ DOMAIN artifacts' = DOMAIN artifacts
      /\ \A j \in DOMAIN artifacts : artifacts'[j] = IF j = i THEN e ELSE artifacts[j]
  BY <1>1, <1>3, <1>4, ExceptSeq
<1>6. \A j \in DOMAIN artifacts :
               /\ artifacts'[j].run = artifacts[j].run
               /\ artifacts'[j].revision = artifacts[j].revision
               /\ artifacts'[j].turn = artifacts[j].turn
               /\ artifacts'[j].status = IF j = i THEN s ELSE artifacts[j].status
  BY <1>3, <1>5
<1>7. \A r : OfPlan(r)' = OfPlan(r)
  BY <1>5, <1>6, SameRevisions
<1>8. OneIsReviewable'
  <2>1. ASSUME NEW j \in DOMAIN artifacts
        PROVE  /\ artifacts'[j].revision
                     = Cardinality({k \in OfPlan(artifacts[j].run)' : k <= j})
               /\ artifacts'[j].status = "readyForReview" =>
                     artifacts'[j].revision = Cardinality(OfPlan(artifacts[j].run)')
               /\ \A k \in DOMAIN artifacts : artifacts'[k].turn = artifacts'[j].turn => k = j
    <3>1. PICK r : r = artifacts[j].run
      OBVIOUS
    <3>2. artifacts'[j].run = r /\ OfPlan(r)' = OfPlan(r)
      BY <1>6, <1>7, <3>1
    <3>3. OfPlan(artifacts[j].run)' = OfPlan(r)
      BY <3>2 DEF OfPlan
    <3>4. /\ artifacts[j].revision = Cardinality({k \in OfPlan(r) : k <= j})
          /\ artifacts[j].status = "readyForReview" => artifacts[j].revision = Cardinality(OfPlan(r))
          /\ \A k \in DOMAIN artifacts : artifacts[k].turn = artifacts[j].turn => k = j
      BY <3>1 DEF IInv, PlansInvariant, OneIsReviewable, Revision
    <3>5. s # "readyForReview"
      OBVIOUS
    <3>. QED
      BY <1>6, <3>3, <3>4, <3>5
  <2>. QED
    BY <1>5, <2>1 DEF OneIsReviewable, Revision
<1>. QED
  BY <1>5, <1>6, <1>8

LEMMA RejectStep ==
  ASSUME IInv, NEW i \in DOMAIN artifacts, Reject(i)
  PROVE  IInv'
<1>1. /\ TypeOK /\ artifacts' \in Seq(Artifact) /\ DOMAIN artifacts' = DOMAIN artifacts
      /\ \A j \in DOMAIN artifacts :
               /\ artifacts'[j].run = artifacts[j].run
               /\ artifacts'[j].status = IF j = i THEN "rejected" ELSE artifacts[j].status
      /\ OneIsReviewable' /\ artifacts[i].status = "readyForReview"
  BY DecidedEffect DEF Reject, IInv, PlansInvariant, Status
<1>2. TypeOK'
  <2>1. turns' \in Seq(Turn') /\ approvals' \in Seq(Approval') /\ artifacts' \in Seq(Artifact')
    BY <1>1, Wider DEF Reject, Artifact
  <2>. QED
    BY <1>1, <2>1 DEF TypeOK, Turn, Artifact, Approval, Status, Reject
<1>3. ApprovedOnce'
  <2>1. ApprovedOnce /\ approvals' = approvals
    BY DEF IInv, PlansInvariant, Reject
  <2>2. \A a \in DOMAIN approvals : approvals[a].artifact \in DOMAIN artifacts
    BY <1>1, Rows DEF Approval
  <2>3. \A j \in DOMAIN artifacts :
           artifacts'[j].status = "approved" <=> artifacts[j].status = "approved"
    BY <1>1
  <2>4. \A j \in DOMAIN artifacts' :
           artifacts'[j].status = "approved" <=> \E a \in DOMAIN approvals' : approvals'[a].artifact = j
    BY <1>1, <2>1, <2>3 DEF ApprovedOnce
  <2>5. \A a, b \in DOMAIN approvals' :
           artifacts'[approvals'[a].artifact].run = artifacts'[approvals'[b].artifact].run => a = b
    BY <1>1, <2>1, <2>2 DEF ApprovedOnce
  <2>6. \A a \in DOMAIN approvals' :
           approvals'[a].child > artifacts'[approvals'[a].artifact].run
    BY <1>1, <2>1, <2>2 DEF ApprovedOnce
  <2>. QED
    BY <2>4, <2>5, <2>6 DEF ApprovedOnce
<1>4. ImplementedOnce'
  BY DEF IInv, PlansInvariant, ImplementedOnce, Reject
<1>5. TickFits(tick)'
  <2>1. \A r : Revision(r)' = Revision(r)
    BY <1>1, SameRevisions
  <2>. QED
    BY <2>1 DEF IInv, TickFits, Reject, Planned, HasPlan
<1>. QED
  BY <1>1, <1>2, <1>3, <1>4, <1>5 DEF IInv, PlansInvariant, Reject, Current, Tick

LEMMA ApproveStep ==
  ASSUME IInv, NEW i \in DOMAIN artifacts, NEW mode \in Mode, Approve(i, mode)
  PROVE  IInv'
<1>1. /\ TypeOK /\ artifacts' \in Seq(Artifact) /\ DOMAIN artifacts' = DOMAIN artifacts
      /\ \A j \in DOMAIN artifacts :
               /\ artifacts'[j].run = artifacts[j].run
               /\ artifacts'[j].status = IF j = i THEN "approved" ELSE artifacts[j].status
      /\ OneIsReviewable' /\ artifacts[i].status = "readyForReview"
  BY DecidedEffect DEF Approve, IInv, PlansInvariant, Status
<1>2. /\ runs' \in Seq(Mode) /\ Len(runs') = Len(runs) + 1 /\ Len(runs) \in Nat
      /\ DOMAIN runs = 1..Len(runs) /\ DOMAIN runs' = 1..(Len(runs) + 1)
  BY <1>1, Rows, Appended DEF Approve
<1>3. PICK e : e = [artifact |-> i, child |-> Len(runs) + 1]
  OBVIOUS
<1>4. approvals' = Append(approvals, e)
  BY <1>2, <1>3 DEF Approve
<1>5. e \in Approval' /\ approvals \in Seq(Approval')
  <2>1. DOMAIN runs \subseteq DOMAIN runs'
    BY <1>2
  <2>2. approvals \in Seq([artifact : DOMAIN artifacts', child : DOMAIN runs'])
    <3>1. approvals \in Seq(Approval)
      BY <1>1, Rows
    <3>2. Approval \subseteq [artifact : DOMAIN artifacts', child : DOMAIN runs']
      BY <1>1, <2>1 DEF Approval
    <3>. QED
      BY <3>1, <3>2, SeqMonotonic
  <2>. QED
    BY <1>1, <1>2, <1>3, <2>2 DEF Approval
<1>6. /\ approvals' \in Seq(Approval') /\ Len(approvals) \in Nat
      /\ DOMAIN approvals = 1..Len(approvals) /\ DOMAIN approvals' = 1..(Len(approvals) + 1)
      /\ \A a \in DOMAIN approvals : approvals'[a] = approvals[a]
      /\ approvals'[Len(approvals) + 1] = e
  BY <1>4, <1>5, Appended
<1>7. TypeOK'
  <2>1. turns' \in Seq(Turn') /\ \A x \in Artifact : x \in Artifact'
    BY <1>1, <1>2, <1>6, Wider DEF Approve
  <2>2. artifacts' \in Seq(Artifact')
    BY <1>1, <2>1, SeqMonotonic
  <2>. QED
    BY <1>1, <1>2, <1>6, <2>1, <2>2 DEF TypeOK, Turn, Artifact, Approval, Status, Approve, Mode
<1>8. \A a \in DOMAIN approvals : /\ approvals[a].artifact \in DOMAIN artifacts
                                  /\ approvals[a].child \in 1..Len(runs)
  BY <1>1, <1>2, Rows DEF Approval
<1>9. artifacts[i].run = Len(runs)
  BY DEF Approve, MayImplement, Current
<1>10. ApprovedOnce'
  <2>1. ASSUME NEW j \in DOMAIN artifacts
        PROVE  artifacts'[j].status = "approved"
                  <=> \E a \in DOMAIN approvals' : approvals'[a].artifact = j
    <3>1. CASE j = i
      BY <1>1, <1>3, <1>6, <3>1
    <3>2. CASE j # i
      <4>1. artifacts[j].status = "approved"
               <=> \E a \in DOMAIN approvals : approvals[a].artifact = j
        BY DEF IInv, PlansInvariant, ApprovedOnce
      <4>2. (\E a \in DOMAIN approvals' : approvals'[a].artifact = j)
               <=> \E a \in DOMAIN approvals : approvals[a].artifact = j
        <5>1. approvals'[Len(approvals) + 1].artifact # j
          BY <1>3, <1>6, <3>2
        <5>2. DOMAIN approvals' = DOMAIN approvals \cup {Len(approvals) + 1}
          BY <1>6
        <5>. QED
          BY <1>6, <5>1, <5>2
      <4>. QED
        BY <1>1, <3>2, <4>1, <4>2
    <3>. QED
      BY <3>1, <3>2
  <2>2. ASSUME NEW a \in DOMAIN approvals
        PROVE  artifacts[approvals[a].artifact].run # artifacts[i].run
    <3>1. approvals[a].child > artifacts[approvals[a].artifact].run
      BY DEF IInv, PlansInvariant, ApprovedOnce
    <3>2. artifacts[approvals[a].artifact].run \in 1..Len(runs)
      BY <1>1, <1>2, <1>8, Rows DEF Artifact
    <3>. QED
      BY <1>2, <1>8, <1>9, <3>1, <3>2
  <2>3. ASSUME NEW a \in DOMAIN approvals', NEW b \in DOMAIN approvals',
               artifacts'[approvals'[a].artifact].run = artifacts'[approvals'[b].artifact].run
        PROVE  a = b
    <3>1. CASE a \in DOMAIN approvals /\ b \in DOMAIN approvals
      BY <1>1, <1>6, <1>8, <2>3, <3>1 DEF IInv, PlansInvariant, ApprovedOnce
    <3>2. CASE a = Len(approvals) + 1 /\ b \in DOMAIN approvals
      BY <1>1, <1>3, <1>6, <1>8, <2>2, <2>3, <3>2
    <3>3. CASE b = Len(approvals) + 1 /\ a \in DOMAIN approvals
      BY <1>1, <1>3, <1>6, <1>8, <2>2, <2>3, <3>3
    <3>. QED
      BY <1>6, <3>1, <3>2, <3>3
  <2>4. ASSUME NEW a \in DOMAIN approvals'
        PROVE  approvals'[a].child > artifacts'[approvals'[a].artifact].run
    <3>1. CASE a \in DOMAIN approvals
      BY <1>1, <1>6, <1>8, <3>1 DEF IInv, PlansInvariant, ApprovedOnce
    <3>2. CASE a = Len(approvals) + 1
      BY <1>1, <1>2, <1>3, <1>6, <1>9, <3>2
    <3>. QED
      BY <1>6, <3>1, <3>2
  <2>. QED
    BY <1>1, <2>1, <2>3, <2>4 DEF ApprovedOnce
<1>11. ImplementedOnce'
  <2>1. \A t \in DOMAIN turns : turns[t].implements \in DOMAIN approvals \cup {0}
    BY <1>1, Rows DEF Turn
  <2>. QED
    BY <1>6, <2>1 DEF IInv, PlansInvariant, ImplementedOnce, Approve
<1>12. TickFits(tick)'
  <2>1. \A r : Revision(r)' = Revision(r)
    BY <1>1, SameRevisions
  <2>. QED
    BY <1>6, <2>1 DEF IInv, TickFits, Approve, Planned, HasPlan
<1>. QED
  BY <1>1, <1>2, <1>7, <1>10, <1>11, <1>12 DEF IInv, PlansInvariant, Approve, Current, Tick

-----------------------------------------------------------------------------
(* The pursuit makes a revision.                                            *)

\* A revision goes behind those of its plan, and takes the place of the one
\* that waited for its review.
LEMMA NewRevision ==
  ASSUME IInv, NEW t \in DOMAIN turns, Planned(t), NEW v, v = Revision(turns[t].run) + 1,
         artifacts' = SavedPlan(t, v), artifacts' # artifacts,
         UNCHANGED <<host, runs, turns, approvals>>
  PROVE  TypeOK' /\ OneIsReviewable' /\ ApprovedOnce'
<1>0. PICK n : n = Len(artifacts)
  OBVIOUS
<1>1. /\ TypeOK /\ artifacts \in Seq(Artifact) /\ n \in Nat /\ DOMAIN artifacts = 1..n
      /\ turns[t] \in Turn /\ \A i \in 1..n : artifacts[i] \in Artifact
  BY <1>0, Rows DEF IInv, PlansInvariant
<1>2. PICK r : r = turns[t].run
  OBVIOUS
<1>3. r \in DOMAIN runs /\ v \in Nat \ {0} /\ v = Revision(r) + 1
  <2>1. Revision(r) \in Nat
    BY <1>1, RevisionsFinite
  <2>. QED
    BY <1>1, <1>2, <2>1 DEF Turn
<1>4. PICK e : e = [run |-> r, revision |-> v, turn |-> t, status |-> "readyForReview",
                    length |-> Smaller(turns[t].length, MaxPlanBytes)]
  OBVIOUS
<1>5. e \in Artifact
  <2>1. turns[t].length \in Nat \ {0} /\ MaxPlanBytes \in Nat \ {0}
    <3>1. turns[t].length \in Lengths \cup {0} /\ turns[t].length > 0
      BY <1>1 DEF Turn, Planned, HasPlan
    <3>2. Lengths \subseteq Nat \ {0} /\ MaxPlanBytes \in Nat \ {0}
      BY ReviewedPlanAssumption DEF ReviewedPlanAssumption
    <3>3. PICK l : l = turns[t].length
      OBVIOUS
    <3>4. l \in Nat \ {0}
      <4>1. l \in Lengths \cup {0} /\ l > 0
        BY <3>1, <3>3
      <4>2. l \in Nat
        BY <3>2, <4>1
      <4>. QED
        BY <4>1, <4>2
    <3>. QED
      BY <3>2, <3>3, <3>4
  <2>. QED
    BY <1>3, <1>4, <2>1 DEF Artifact, Smaller, Status
<1>6. PICK f : f = [i \in DOMAIN artifacts |-> Superseded(artifacts[i], r)]
  OBVIOUS
<1>7. \A i \in 1..n : /\ f[i] \in Artifact /\ f[i].run = artifacts[i].run
                      /\ f[i].revision = artifacts[i].revision /\ f[i].turn = artifacts[i].turn
                      /\ f[i].status = IF artifacts[i].run = r
                                          /\ artifacts[i].status = "readyForReview"
                                       THEN "superseded" ELSE artifacts[i].status
  BY <1>1, <1>6 DEF Superseded, Artifact, Status
<1>8. f \in Seq(Artifact) /\ Len(f) = n
  BY <1>0, <1>1, <1>6, <1>7, Listed
<1>9. /\ artifacts' = Append(f, e)
      /\ \A i \in 1..n : artifacts[i].turn # t
  BY <1>1, <1>2, <1>4, <1>6 DEF SavedPlan
<1>10. /\ artifacts' \in Seq(Artifact) /\ DOMAIN artifacts' = 1..(n + 1)
       /\ \A i \in 1..n : artifacts'[i] = f[i]
       /\ artifacts'[n + 1] = e
  BY <1>5, <1>8, <1>9, Appended
<1>11. TypeOK'
  <2>1. DOMAIN artifacts \subseteq DOMAIN artifacts'
    BY <1>1, <1>10
  <2>2. turns' \in Seq(Turn') /\ approvals' \in Seq(Approval') /\ \A x \in Artifact : x \in Artifact'
    BY <1>1, <2>1, Wider
  <2>3. artifacts' \in Seq(Artifact')
    BY <1>10, <2>2, SeqMonotonic
  <2>. QED
    BY <1>1, <2>2, <2>3 DEF TypeOK, Turn, Artifact, Approval, Status, Mode
<1>12. \A q : OfPlan(q)' = IF q = r THEN OfPlan(q) \cup {n + 1} ELSE OfPlan(q)
  BY <1>1, <1>4, <1>7, <1>10 DEF OfPlan
<1>13. OneIsReviewable'
  <2>1. ASSUME NEW i \in 1..n
        PROVE  /\ artifacts'[i].revision
                     = Cardinality({j \in OfPlan(artifacts[i].run)' : j <= i})
               /\ artifacts'[i].status = "readyForReview" =>
                     artifacts'[i].revision = Cardinality(OfPlan(artifacts[i].run)')
    <3>1. PICK q : q = artifacts[i].run
      OBVIOUS
    <3>2. {j \in OfPlan(q)' : j <= i} = {j \in OfPlan(q) : j <= i}
      BY <1>1, <1>12
    <3>3. /\ artifacts[i].revision = Cardinality({j \in OfPlan(q) : j <= i})
          /\ artifacts[i].status = "readyForReview" => artifacts[i].revision = Cardinality(OfPlan(q))
      BY <1>1, <3>1 DEF IInv, PlansInvariant, OneIsReviewable, Revision
    <3>4. q # r => OfPlan(q)' = OfPlan(q)
      BY <1>12
    <3>5. artifacts'[i].run = q
      BY <1>7, <1>10, <3>1
    <3>6. OfPlan(artifacts[i].run)' = OfPlan(q)'
      BY <3>5 DEF OfPlan
    <3>7. artifacts'[i].revision = artifacts[i].revision
          /\ (artifacts'[i].status = "readyForReview" =>
                 q # r /\ artifacts[i].status = "readyForReview")
      BY <1>7, <1>10, <3>1
    <3>. QED
      BY <3>2, <3>3, <3>4, <3>6, <3>7
  <2>2. /\ artifacts'[n + 1].revision
             = Cardinality({j \in OfPlan(artifacts[n + 1].run)' : j <= n + 1})
        /\ artifacts'[n + 1].revision = Cardinality(OfPlan(artifacts[n + 1].run)')
    <3>1. artifacts'[n + 1].run = r /\ artifacts'[n + 1].revision = v
      BY <1>4, <1>10
    <3>2. OfPlan(artifacts[n + 1].run)' = OfPlan(r)'
      BY <3>1 DEF OfPlan
    <3>3. OfPlan(r)' = OfPlan(r) \cup {n + 1} /\ n + 1 \notin OfPlan(r)
      <4>1. n + 1 \notin OfPlan(r)
        BY <1>1 DEF OfPlan
      <4>. QED
        BY <1>12, <4>1
    <3>4. Cardinality(OfPlan(r)') = Revision(r) + 1
      BY <1>1, <3>3, RevisionsFinite, FS_AddElement DEF Revision
    <3>5. {j \in OfPlan(r)' : j <= n + 1} = OfPlan(r)'
      BY <1>1, <3>3 DEF OfPlan
    <3>. QED
      BY <1>3, <3>1, <3>2, <3>4, <3>5
  <2>3. ASSUME NEW i \in 1..(n + 1), NEW j \in 1..(n + 1), artifacts'[j].turn = artifacts'[i].turn
        PROVE  i = j
    <3>1. CASE i \in 1..n /\ j \in 1..n
      <4>1. \A x, y \in 1..n : artifacts[y].turn = artifacts[x].turn => x = y
        BY <1>1 DEF IInv, PlansInvariant, OneIsReviewable
      <4>2. artifacts'[i].turn = artifacts[i].turn /\ artifacts'[j].turn = artifacts[j].turn
        BY <1>7, <1>10, <3>1
      <4>. QED
        BY <2>3, <3>1, <4>1, <4>2
    <3>2. artifacts'[n + 1].turn = t
      BY <1>4, <1>10
    <3>3. \A k \in 1..n : artifacts'[k].turn # t
      BY <1>7, <1>9, <1>10
    <3>. QED
      BY <1>1, <2>3, <3>1, <3>2, <3>3
  <2>4. \A i \in 1..(n + 1) : i \in 1..n \/ i = n + 1
    BY <1>1
  <2>. QED
    BY <1>10, <2>1, <2>2, <2>3, <2>4 DEF OneIsReviewable, Revision
<1>14. ApprovedOnce'
  <2>1. \A a \in DOMAIN approvals : approvals[a].artifact \in 1..n
    BY <1>1, Rows DEF Approval
  <2>2. ASSUME NEW i \in DOMAIN artifacts'
        PROVE  artifacts'[i].status = "approved"
                  <=> \E a \in DOMAIN approvals : approvals[a].artifact = i
    <3>1. CASE i \in 1..n
      BY <1>1, <1>7, <1>10, <3>1 DEF IInv, PlansInvariant, ApprovedOnce
    <3>2. CASE i = n + 1
      BY <1>1, <1>4, <1>10, <2>1, <3>2
    <3>. QED
      BY <1>1, <1>10, <3>1, <3>2
  <2>3. \A a \in DOMAIN approvals :
           artifacts'[approvals[a].artifact].run = artifacts[approvals[a].artifact].run
    BY <1>7, <1>10, <2>1
  <2>4. /\ \A a, b \in DOMAIN approvals :
              artifacts[approvals[a].artifact].run = artifacts[approvals[b].artifact].run => a = b
        /\ \A a \in DOMAIN approvals : approvals[a].child > artifacts[approvals[a].artifact].run
    BY DEF IInv, PlansInvariant, ApprovedOnce
  <2>. QED
    BY <2>2, <2>3, <2>4 DEF ApprovedOnce
<1>. QED
  BY <1>11, <1>13, <1>14

LEMMA SaveStep ==
  ASSUME IInv, SaveTrustedPlan
  PROVE  IInv'
<1>1. PICK k \in Tick : k = [Idle EXCEPT !.step = "ingest", !.work = tick.work]
  BY DEF IInv, Tick, Idle
<1>2. k.step = "ingest" /\ k.work = tick.work
  BY <1>1 DEF Idle
<1>3. Planned(tick.item) /\ tick.revision = Revision(turns[tick.item].run) + 1
      /\ \A t \in tick.work : Planned(t)
  BY DEF IInv, TickFits, SaveTrustedPlan
<1>4. CASE artifacts' = artifacts
  <2>1. TickFits(k) /\ tick' = k /\ host' \in HostState
    BY <1>1, <1>2, <1>3 DEF TickFits, SaveTrustedPlan, IInv, PlansInvariant, TypeOK, HostState
  <2>. QED
    BY <1>4, <2>1, HostStep DEF SaveTrustedPlan
<1>5. CASE artifacts' # artifacts
  <2>1. PICK t \in DOMAIN turns, v \in Nat : t = tick.item /\ v = tick.revision
    <3>1. tick.item \in DOMAIN turns
      BY <1>3 DEF Planned
    <3>2. tick.revision \in Nat
      BY DEF IInv, Tick
    <3>. QED
      BY <3>1, <3>2
  <2>2. TypeOK' /\ OneIsReviewable' /\ ApprovedOnce'
    BY <1>3, <1>5, <2>1, NewRevision DEF SaveTrustedPlan
  <2>3. TickFits(k)' /\ tick' = k
    BY <1>1, <1>2, <1>3 DEF TickFits, SaveTrustedPlan, Planned, HasPlan
  <2>. QED
    BY <2>2, <2>3 DEF IInv, PlansInvariant, ImplementedOnce, SaveTrustedPlan, Current, Tick
<1>. QED
  BY <1>4, <1>5

-----------------------------------------------------------------------------
(* The pursuit, and all steps.                                              *)

LEMMA PursuitStep ==
  ASSUME IInv, Pursue
  PROVE  IInv'
<1>1. TypeOK /\ tick \in Tick /\ TickFits(tick) /\ host \in HostState
  BY DEF IInv, PlansInvariant, TypeOK, HostState
<1>2. Idle \in Tick /\ TickFits(Idle)
  BY DEF Idle, Tick, TickFits
<1>3. DOMAIN turns \subseteq Nat /\ DOMAIN approvals \subseteq Nat
  BY <1>1, Rows
<1>4. CASE BeginTick
  <2>1. PICK k : k = [Idle EXCEPT !.step = "ingest", !.work = TurnsAwaitingReview]
    OBVIOUS
  <2>2. k.step = "ingest" /\ k.work = TurnsAwaitingReview
    BY <2>1 DEF Idle
  <2>3. \A t \in TurnsAwaitingReview : t \in Nat /\ Planned(t)
    BY <1>3 DEF TurnsAwaitingReview, Oldest, Unreviewed, Planned
  <2>4. k \in Tick /\ TickFits(k)
    BY <2>1, <2>2, <2>3 DEF Tick, Idle, TickFits
  <2>. QED
    BY <1>1, <1>4, <2>1, <2>4, HostStep DEF BeginTick
<1>5. CASE ReadRevision
  <2>1. PICK t \in tick.work :
            tick' = [step |-> "save", work |-> tick.work \ {t}, item |-> t,
                     revision |-> Revision(turns[t].run) + 1]
    BY <1>5 DEF ReadRevision
  <2>2. Planned(t) /\ t \in Nat /\ \A u \in tick.work : Planned(u)
    BY <1>1, <1>5, <2>1 DEF TickFits, ReadRevision, Tick
  <2>3. PICK k : k = [step |-> "save", work |-> tick.work \ {t}, item |-> t,
                      revision |-> Revision(turns[t].run) + 1]
    OBVIOUS
  <2>4. PICK r : r = turns[t].run
    OBVIOUS
  <2>5. Revision(r) + 1 \in Nat
    <3>1. Revision(r) \in Nat
      BY <1>1, RevisionsFinite
    <3>. QED
      BY <3>1
  <2>6. k \in Tick /\ TickFits(k)
    BY <1>1, <2>2, <2>3, <2>4, <2>5 DEF Tick, TickFits
  <2>. QED
    BY <1>1, <1>5, <2>1, <2>3, <2>6, HostStep DEF ReadRevision
<1>6. CASE SaveTrustedPlan
  BY <1>6, SaveStep
<1>7. CASE ReadImplementations
  <2>1. PICK k : k = [Idle EXCEPT !.step = "implement", !.work = ImplementationsAwaitingPrompt]
    OBVIOUS
  <2>2. ImplementationsAwaitingPrompt \subseteq DOMAIN approvals
    BY DEF ImplementationsAwaitingPrompt, Oldest
  <2>3. k \in Tick /\ TickFits(k)
    BY <1>3, <2>1, <2>2 DEF Tick, Idle, TickFits
  <2>. QED
    BY <1>1, <1>7, <2>1, <2>3, HostStep DEF ReadImplementations
<1>8. CASE SaveImplementationPrompt
  <2>1. PICK a \in tick.work :
            IF host.mode = "open"
            THEN /\ turns' = IF Prompts(a) THEN Prompted(a) ELSE turns
                 /\ tick' = [tick EXCEPT !.work = @ \ {a}]
            ELSE turns' = turns /\ tick' = Idle
    BY <1>8 DEF SaveImplementationPrompt
  <2>2. a \in DOMAIN approvals /\ tick.work \subseteq DOMAIN approvals
    BY <1>1, <1>8, <2>1 DEF TickFits, SaveImplementationPrompt
  <2>3. PICK k : k = [tick EXCEPT !.work = @ \ {a}]
    OBVIOUS
  <2>4. k \in Tick /\ TickFits(k)
    BY <1>1, <1>8, <2>2, <2>3 DEF Tick, TickFits, SaveImplementationPrompt
  <2>5. CASE turns' = turns /\ tick' = Idle
    BY <1>1, <1>2, <1>8, <2>5, HostStep DEF SaveImplementationPrompt
  <2>6. CASE turns' = turns /\ tick' = k
    BY <1>1, <1>8, <2>4, <2>6, HostStep DEF SaveImplementationPrompt
  <2>7. CASE Prompts(a) /\ turns' = Prompted(a) /\ tick' = k
    BY <1>8, <2>2, <2>4, <2>7, PromptStep DEF SaveImplementationPrompt
  <2>. QED
    BY <2>1, <2>3, <2>5, <2>6, <2>7
<1>9. CASE EndTick
  BY <1>1, <1>2, <1>9, HostStep DEF EndTick
<1>. QED
  BY <1>4, <1>5, <1>6, <1>7, <1>8, <1>9 DEF Pursue

LEMMA NextKeepsIInv == IInv /\ [Next]_vars => IInv'
<1>. SUFFICES ASSUME IInv, [Next]_vars PROVE IInv'
  OBVIOUS
<1>1. PICK k \in Tick : k = tick /\ TickFits(k)
  BY DEF IInv
<1>2. PICK k0 \in Tick : k0 = Idle /\ TickFits(k0)
  <2>1. Idle \in Tick /\ TickFits(Idle)
    BY DEF Idle, Tick, TickFits
  <2>. QED
    BY <2>1
<1>3. host \in HostState
  BY DEF IInv, PlansInvariant, TypeOK, HostState
<1>4. CASE Clients
  <2>1. CASE Prompt
    BY <1>1, <2>1, PromptStep DEF Prompt
  <2>2. ASSUME NEW t \in DOMAIN turns, NEW length \in Lengths \cup {0},
               EndTurn(t, "completed", length) \/ EndTurn(t, "failed", 0)
        PROVE  IInv'
    BY <2>2, EndStep
  <2>3. ASSUME NEW mode \in Mode, Switch(mode)
        PROVE  IInv'
    BY <2>3, SwitchStep
  <2>4. ASSUME NEW mode \in Mode, NEW i \in DOMAIN artifacts, Approve(i, mode)
        PROVE  IInv'
    BY <2>4, ApproveStep
  <2>5. ASSUME NEW i \in DOMAIN artifacts, Reject(i)
        PROVE  IInv'
    BY <2>5, RejectStep
  <2>6. \A t \in DOMAIN turns : EndTurn(t, "failed", 0) => IInv'
    BY EndStep
  <2>. QED
    BY <1>4, <2>1, <2>2, <2>3, <2>4, <2>5, <2>6 DEF Clients, Mode
<1>5. CASE Pursue
  BY <1>5, PursuitStep
<1>6. CASE CloseIngress
  <2>1. host' \in HostState
    BY <1>3, <1>6 DEF CloseIngress, HostState
  <2>. QED
    BY <1>1, <1>6, <2>1, HostStep DEF CloseIngress
<1>7. CASE Restart
  <2>1. host' \in HostState
    BY <1>3, <1>7, ReviewedPlanAssumption DEF Restart, HostState, ReviewedPlanAssumption
  <2>. QED
    BY <1>2, <1>7, <2>1, HostStep DEF Restart
<1>8. CASE UNCHANGED vars
  BY <1>1, <1>3, <1>8, HostStep DEF vars
<1>. QED
  BY <1>4, <1>5, <1>6, <1>7, <1>8 DEF Next

LEMMA InitIInv == Init => IInv
<1>. SUFFICES ASSUME Init PROVE IInv
  OBVIOUS
<1>1. /\ runs \in Seq(Mode) /\ Len(runs) = 1 /\ turns = <<>> /\ artifacts = <<>>
      /\ approvals = <<>> /\ host \in HostState
  BY ReviewedPlanAssumption DEF Init, Mode, HostState, ReviewedPlanAssumption
<1>2. TypeOK
  BY <1>1, EmptySeq DEF TypeOK, Mode, HostState
<1>3. OneIsReviewable /\ ApprovedOnce /\ ImplementedOnce
  BY <1>1 DEF OneIsReviewable, ApprovedOnce, ImplementedOnce
<1>4. tick \in Tick /\ TickFits(tick)
  BY DEF Init, Idle, Tick, TickFits
<1>. QED
  BY <1>1, <1>2, <1>3, <1>4 DEF IInv, PlansInvariant, Current

-----------------------------------------------------------------------------
(* The theorem.                                                             *)

\* However clients, the pursuit and restarts interleave: of a plan one revision
\* waits for its review at most, it is approved once, in a child run of its
\* own, and implemented by one prompt (save, approve,
\* save_implementation_prompt).
THEOREM PlansAreDecidedOnce == Spec => []PlansInvariant
<1>1. Spec => []IInv
  BY InitIInv, NextKeepsIInv, PTL DEF Spec
<1>2. IInv => PlansInvariant
  BY DEF IInv
<1>. QED
  BY <1>1, <1>2, PTL
=============================================================================
