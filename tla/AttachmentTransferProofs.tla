------------------------ MODULE AttachmentTransferProofs ------------------------
(***************************************************************************)
(* Proofs about AttachmentTransfer for every set of attachments that share  *)
(* content or do not, for every set of commands, connections and lengths,   *)
(* and for every number of restarts and failing writes.                     *)
(***************************************************************************)
EXTENDS AttachmentTransfer, SequenceTheorems, TLAPS

-----------------------------------------------------------------------------
(* The inductive invariant: what a call has read, and what is still so.     *)

Steps == {"claim", "begin", "append", "write", "advance", "digest", "promote", "unlink",
          "publish", "settle", "reject"}

Plain == [step : Steps, command : Commands, current : Row \cup {None}, epoch : 1..MaxEpoch]
Decided == [step : Steps, command : Commands, current : Row \cup {None}, epoch : 1..MaxEpoch,
            prepared : {"promote", "reject"}]
Writing == [step : Steps, command : Commands, current : Row \cup {None}, epoch : 1..MaxEpoch,
            file : Files, written : Nat]
Busy == Plain \cup Decided \cup Writing

EndOf(c) == c.offset + Len(c.bytes)

IsPromoted(a) == blob[KeyOf[a]] # None
IsStaged(a, size) == staging[a].present /\ Len(content[StagingFile(a)]) >= size

\* The row that was read is that of the attachment, or was before it grew.
HeldFits(x) ==
    LET a == x.command.attachment IN
    x.command.kind # "begin" =>
        /\ x.current \in Row
        /\ row[a] # None /\ row[a].received >= x.current.received

\* A chunk that is written goes on behind the bytes that are there.
WriteFits(x) ==
    LET a == x.command.attachment IN
    /\ x \in Writing
    /\ x.file[1] = a
    /\ x.written < Len(x.command.bytes)
    /\ Len(content[x.file]) >= x.command.offset + x.written
    /\ IsPromoted(a) \/ (staging[a].present /\ x.file = StagingFile(a))

\* A commit that will promote: the attachment is staged as a whole.
PromoteFits(a) == IsPromoted(a) \/ IsStaged(a, Length)

\* What the step a call is at relies on.
Relies(x) ==
    LET a == x.command.attachment  c == x.command IN
    /\ HeldFits(x)
    /\ (x.step = "claim" /\ c.kind = "commit" /\ x.current.state = "uploading") =>
           x \in Decided /\ (x.prepared = "promote" => PromoteFits(a))
    /\ x.step = "begin" => c.kind = "begin"
    /\ x.step \in {"append", "write", "advance"} =>
           c.kind = "append" /\ x.current.state = "uploading"
    /\ x.step \in {"digest", "promote", "unlink", "publish"} =>
           c.kind = "commit" /\ x.current.state = "uploading"
    /\ x.step \in {"write", "advance"} => EndOf(c) \in x.current.received..Length
    /\ x.step = "write" => WriteFits(x)
    /\ x.step = "advance" => IsPromoted(a) \/ IsStaged(a, EndOf(c))
    /\ x.step = "promote" => PromoteFits(a)
    /\ x.step \in {"unlink", "publish"} => IsPromoted(a)
    /\ x.step = "settle" => row[a] # None /\ Done(c)

Claimed(x) == x.step \notin {"claim", "digest"} => receipt[x.command] # None

Fits(x) == Claimed(x) /\ Relies(x)

Receipt == [epoch : 1..MaxEpoch, status : {"accepted", "settled", "rejected"}]
Stage == [present : BOOLEAN, number : 0..MaxFiles]

Shapes ==
    /\ row \in [Attachments -> Row \cup {None}]
    /\ receipt \in [Commands -> Receipt \cup {None}]
    /\ staging \in [Attachments -> Stage]
    /\ \A a \in Attachments : staging[a].present => staging[a].number > 0
    /\ content \in [Files -> Seq(Byte)]
    /\ call \in [Callers -> {Idle} \cup Busy]

\* What is behind an address is as long as the content, and an attachment is
\* available only behind its address.
PromotedIsWhole ==
    /\ \A k \in Keys : blob[k] # None => Len(content[blob[k]]) = Length
    /\ \A a \in Attachments : (row[a] # None /\ row[a].state = "available") => IsPromoted(a)

SettledIsKept ==
    \A c \in Commands : receipt[c] # None /\ receipt[c].status = "settled" =>
        row[c.attachment] # None

CallsFit == \A p \in Callers : call[p] # Idle => Fits(call[p])

IInv == TransferInvariant /\ Shapes /\ PromotedIsWhole /\ SettledIsKept /\ CallsFit

-----------------------------------------------------------------------------
(* Calls.                                                                   *)

LEMMA Constants ==
  /\ Length \in Nat \ {0} /\ KeyOf \in [Attachments -> Keys]
  /\ MaxEpoch \in Nat \ {0} /\ MaxFiles \in Nat \ {0} /\ MaxFaults \in Nat
  /\ \A c \in Commands : c.kind \in {"begin", "append", "commit"} /\ c.attachment \in Attachments
  /\ \A c \in Commands : c.kind = "append" =>
         c.offset \in Nat /\ c.bytes \in Seq(Byte) /\ Len(c.bytes) \in Nat /\ EndOf(c) \in Nat
  /\ None \notin Row /\ None \notin Receipt /\ None \notin Files
<1>1. \A c \in Commands : c.kind = "append" =>
          c.offset \in Nat /\ c.bytes \in Seq(Byte) /\ Len(c.bytes) \in Nat
  BY AttachmentTransferAssumption, LenProperties DEF AttachmentTransferAssumption
<1>2. None \notin Row /\ None \notin Receipt /\ None \notin Files
  BY AttachmentTransferAssumption DEF AttachmentTransferAssumption, Row, Receipt, Files
<1>. QED
  BY <1>1, <1>2, AttachmentTransferAssumption DEF AttachmentTransferAssumption, EndOf

\* What a settled command has done, by its kind.
Has(c) ==
    /\ c.kind = "begin" => row[c.attachment] # None
    /\ c.kind = "append" => row[c.attachment].received >= EndOf(c)
    /\ c.kind = "commit" => row[c.attachment].state = "available"

LEMMA DoneHas ==
  ASSUME NEW c \in Commands
  PROVE  (Done(c) <=> Has(c)) /\ (Done(c)' <=> Has(c)')
<1>1. CASE c.kind = "begin"
  BY <1>1 DEF Done, Has, EndOf
<1>2. CASE c.kind = "append"
  BY <1>2 DEF Done, Has, EndOf
<1>3. CASE c.kind = "commit"
  BY <1>3 DEF Done, Has, EndOf
<1>. QED
  BY <1>1, <1>2, <1>3, Constants

\* A call goes to its next step with what it has read.
LEMMA Moved ==
  ASSUME NEW x \in Busy, NEW s \in Steps, NEW y, y = [x EXCEPT !.step = s]
  PROVE  /\ y \in Busy /\ y.step = s /\ y.command = x.command
         /\ y.current = x.current /\ y.epoch = x.epoch
         /\ x \in Decided => y \in Decided /\ y.prepared = x.prepared
         /\ x \in Writing => y \in Writing /\ y.file = x.file /\ y.written = x.written
<1>1. CASE x \in Plain
  BY <1>1 DEF Busy, Plain, Decided, Writing
<1>2. CASE x \in Decided
  BY <1>2 DEF Busy, Plain, Decided, Writing
<1>3. CASE x \in Writing
  BY <1>3 DEF Busy, Plain, Decided, Writing
<1>. QED
  BY <1>1, <1>2, <1>3 DEF Busy

LEMMA CallTypes ==
  ASSUME NEW x \in Busy
  PROVE  /\ x # Idle /\ x.step \in Steps /\ x.command \in Commands /\ x.epoch \in 1..MaxEpoch
         /\ x.current \in Row \cup {None}
<1>1. x.step \in Steps /\ x.command \in Commands /\ x.epoch \in 1..MaxEpoch
      /\ x.current \in Row \cup {None}
  BY DEF Busy, Plain, Decided, Writing
<1>2. x # Idle
  BY <1>1 DEF Idle, Steps
<1>. QED
  BY <1>1, <1>2

LEMMA StagedIsFile ==
  ASSUME Shapes, NEW a \in Attachments, staging[a].present
  PROVE  StagingFile(a) \in Files
<1>1. staging[a].number \in 1..MaxFiles
  BY Constants DEF Shapes, Stage
<1>. QED
  BY <1>1 DEF StagingFile, Files

-----------------------------------------------------------------------------
(* What only grows: rows, files, and what is behind an address.             *)

Grows ==
    /\ \A a \in Attachments : row[a] # None =>
           /\ row'[a] # None /\ row'[a].received >= row[a].received
           /\ row[a].state = "available" => row'[a].state = "available"
    /\ \A c \in Commands : receipt[c] # None => receipt'[c] # None
    /\ \A k \in Keys : blob[k] # None => blob'[k] = blob[k]
    /\ \A f \in Files : Len(content'[f]) >= Len(content[f])
    /\ \A a \in Attachments :
           staging'[a] = staging[a] \/ IsPromoted(a)' \/ ~staging[a].present

\* What a call relies on is still so when the rest of the state grows.
LEMMA ReliesKept ==
  ASSUME IInv, Shapes', Grows, NEW x \in Busy, Relies(x)
  PROVE  Relies(x)'
<1>. DEFINE a == x.command.attachment
<1>1. a \in Attachments /\ KeyOf[a] \in Keys /\ x.command \in Commands
  BY CallTypes, Constants
<1>2. /\ row[a] # None => row[a] \in Row /\ row'[a] \in Row
      /\ staging[a] \in Stage /\ staging'[a] \in Stage
      /\ \A f \in Files : Len(content[f]) \in Nat /\ Len(content'[f]) \in Nat
  BY <1>1, LenProperties DEF IInv, Shapes, Grows
<1>3. IsPromoted(a) => IsPromoted(a)'
  BY <1>1 DEF Grows, IsPromoted
<1>4. staging'[a] = staging[a] \/ IsPromoted(a)' \/ ~staging[a].present
  BY <1>1 DEF Grows
<1>5. staging[a].present => StagingFile(a) \in Files
  BY <1>1, StagedIsFile DEF IInv
<1>6. ASSUME NEW size \in Nat, IsStaged(a, size)
      PROVE  IsPromoted(a)' \/ IsStaged(a, size)'
  BY <1>2, <1>4, <1>5, <1>6 DEF IsStaged, StagingFile, Grows
<1>7. row[a] # None => row'[a] # None /\ row'[a].received >= row[a].received
                       /\ (row[a].state = "available" => row'[a].state = "available")
  BY <1>1 DEF Grows
<1>8. HeldFits(x)'
  <2>1. x.current \in Row => x.current.received \in Nat
    BY Constants DEF Row
  <2>2. row[a] # None => row[a].received \in Nat /\ row'[a].received \in Nat
    BY <1>2, Constants DEF Row
  <2>. QED
    BY <1>7, <2>1, <2>2 DEF Relies, HeldFits
<1>9. x.step = "write" => WriteFits(x)'
  <2>. SUFFICES ASSUME x.step = "write" PROVE WriteFits(x)'
    OBVIOUS
  <2>1. WriteFits(x) /\ x.command.kind = "append"
    BY DEF Relies
  <2>2. x.file \in Files /\ x.written \in Nat /\ x.command.offset \in Nat
    BY <1>1, <2>1, Constants DEF WriteFits, Writing
  <2>3. Len(content'[x.file]) >= x.command.offset + x.written
    BY <1>2, <2>1, <2>2 DEF WriteFits, Grows
  <2>4. IsPromoted(a)' \/ (staging'[a].present /\ x.file = StagingFile(a)')
    BY <1>3, <1>4, <2>1 DEF WriteFits, StagingFile
  <2>. QED
    BY <2>1, <2>3, <2>4 DEF WriteFits, Writing, Row, Files
<1>10. PromoteFits(a) => PromoteFits(a)'
  BY <1>3, <1>6, Constants DEF PromoteFits
<1>11. x.step = "advance" => IsPromoted(a)' \/ IsStaged(a, EndOf(x.command))'
  BY <1>1, <1>3, <1>6, Constants DEF Relies
<1>12. x.step = "settle" => row'[a] # None /\ Done(x.command)'
  <2>. SUFFICES ASSUME x.step = "settle" PROVE row'[a] # None /\ Done(x.command)'
    OBVIOUS
  <2>1. row[a] # None /\ row'[a] # None /\ Done(x.command)
        /\ row[a].received \in Nat /\ row'[a].received \in Nat
    BY <1>2, <1>7, Constants DEF Relies, Row
  <2>2. x.command.kind = "append" => EndOf(x.command) \in Nat
    BY <1>1, Constants
  <2>3. Has(x.command) => Has(x.command)'
    BY <1>7, <2>1, <2>2 DEF Has, EndOf
  <2>. QED
    BY <1>1, <2>1, <2>3, DoneHas
<1>. QED
  BY <1>3, <1>8, <1>9, <1>10, <1>11, <1>12 DEF Relies, Decided, Row, EndOf

LEMMA FitsKept ==
  ASSUME IInv, Shapes', Grows, NEW x \in Busy, Fits(x)
  PROVE  Fits(x)'
<1>1. x.command \in Commands
  BY CallTypes
<1>. QED
  BY <1>1, ReliesKept DEF Fits, Claimed, Grows

\* One call goes on, the others wait.
LEMMA CallStep ==
  ASSUME IInv, Shapes', Grows, NEW p \in Callers, NEW x \in Busy \cup {Idle},
         call' = [call EXCEPT ![p] = x], x # Idle => Fits(x)'
  PROVE  CallsFit'
<1>1. call \in [Callers -> {Idle} \cup Busy]
  BY DEF IInv, Shapes
<1>. SUFFICES ASSUME NEW q \in Callers, call'[q] # Idle
              PROVE  Fits(call[q])'
  BY DEF CallsFit
<1>2. PICK y : y = call'[q]
  OBVIOUS
<1>3. Fits(y)'
  <2>1. CASE q = p
    BY <1>1, <1>2, <2>1
  <2>2. CASE q # p
    BY <1>1, <1>2, <2>2, FitsKept DEF IInv, CallsFit
  <2>. QED
    BY <2>1, <2>2
<1>. QED
  BY <1>2, <1>3 DEF Fits, Claimed, Relies, HeldFits, WriteFits, PromoteFits, IsPromoted, IsStaged, StagingFile,
     Done, EndOf, Decided, Writing, Row, Files

-----------------------------------------------------------------------------
(* The parts of the invariant that a step leaves alone.                     *)

LEMMA HasKept ==
  ASSUME IInv, Shapes', Grows, NEW c \in Commands, row[c.attachment] # None, Has(c)
  PROVE  row'[c.attachment] # None /\ Has(c)'
<1>1. c.attachment \in Attachments
  BY Constants
<1>2. row[c.attachment].received \in Nat /\ row'[c.attachment].received \in Nat
  BY <1>1, Constants DEF IInv, Shapes, Row, Grows
<1>3. c.kind = "append" => EndOf(c) \in Nat
  BY Constants
<1>. QED
  BY <1>1, <1>2, <1>3 DEF Has, EndOf, Grows

LEMMA ReceiptsKept ==
  ASSUME IInv, Shapes', Grows, UNCHANGED receipt
  PROVE  SettledIsDone' /\ SettledIsKept'
<1>1. ASSUME NEW c \in Commands, receipt'[c] # None, receipt'[c].status = "settled"
      PROVE  row'[c.attachment] # None /\ Done(c)'
  <2>1. row[c.attachment] # None /\ Has(c)
    BY <1>1, DoneHas DEF IInv, TransferInvariant, SettledIsDone, SettledIsKept
  <2>. QED
    BY <2>1, HasKept, DoneHas
<1>. QED
  BY <1>1 DEF SettledIsDone, SettledIsKept

LEMMA ProgressKept ==
  ASSUME IInv, Shapes', Grows, UNCHANGED row
  PROVE  ProgressIsStaged'
<1>. SUFFICES ASSUME NEW a \in Attachments, row[a] # None, row[a].received > 0
              PROVE  IsPromoted(a)' \/ IsStaged(a, row[a].received)'
  BY DEF ProgressIsStaged, IsPromoted, IsStaged
<1>1. row[a] \in Row /\ row[a].received \in Nat /\ staging[a] \in Stage /\ KeyOf[a] \in Keys
  BY Constants DEF IInv, Shapes, Row
<1>2. IsPromoted(a) \/ IsStaged(a, row[a].received)
  BY DEF IInv, TransferInvariant, ProgressIsStaged, IsPromoted, IsStaged
<1>3. IsPromoted(a) => IsPromoted(a)'
  BY <1>1 DEF Grows, IsPromoted
<1>4. staging[a].present => StagingFile(a) \in Files
  BY StagedIsFile DEF IInv
<1>5. \A f \in Files : Len(content[f]) \in Nat /\ Len(content'[f]) \in Nat
  BY LenProperties DEF IInv, Shapes
<1>. QED
  BY <1>1, <1>2, <1>3, <1>4, <1>5 DEF Grows, IsStaged, StagingFile

LEMMA WholeKept ==
  ASSUME IInv, TypeOK', Grows, UNCHANGED <<row, blob>>
  PROVE  PromotedIsWhole'
<1>1. \A f \in Files : Len(content[f]) \in Nat /\ Len(content'[f]) \in Nat
  BY LenProperties DEF IInv, TransferInvariant, TypeOK
<1>2. \A k \in Keys : blob[k] # None => blob[k] \in Files
  BY DEF IInv, TransferInvariant, TypeOK
<1>3. ASSUME NEW k \in Keys, blob[k] # None
      PROVE  Len(content'[blob[k]]) = Length
  <2>1. Len(content'[blob[k]]) >= Length /\ Len(content'[blob[k]]) <= Length
    BY <1>2, <1>3 DEF IInv, PromotedIsWhole, Grows, TypeOK
  <2>. QED
    BY <1>1, <1>2, <1>3, <2>1, Constants
<1>. QED
  BY <1>3 DEF IInv, PromotedIsWhole, IsPromoted

\* A step that concerns nothing but its call.
LEMMA OnlyCall ==
  ASSUME IInv, NEW p \in Callers, NEW x \in Busy \cup {Idle}, x # Idle => Fits(x),
         call' = [call EXCEPT ![p] = x], UNCHANGED <<host, row, receipt, disk>>
  PROVE  IInv'
<1>1. Shapes'
  BY DEF IInv, Shapes, disk, StagingFile, Busy, Plain, Decided, Writing, Row, Files, Receipt, Stage
<1>2. TypeOK'
  BY DEF IInv, TransferInvariant, TypeOK, disk, Row, Files
<1>3. \A f \in Files : Len(content[f]) \in Nat
  BY LenProperties DEF IInv, Shapes
<1>4. \A a \in Attachments : row[a] # None => row[a].received \in Nat
  BY Constants DEF IInv, Shapes, Row
<1>5. Grows
  BY <1>3, <1>4 DEF Grows, disk
<1>6. x # Idle => Fits(x)'
  BY <1>1, <1>5, FitsKept
<1>. QED
  BY <1>1, <1>2, <1>5, <1>6, CallStep, ReceiptsKept, ProgressKept, WholeKept
  DEF IInv, TransferInvariant, disk

-----------------------------------------------------------------------------
(* Receipts.                                                                *)

\* A step that writes a receipt, of which a settled one tells the truth.
LEMMA ReceiptStep ==
  ASSUME IInv, NEW p \in Callers, NEW x \in Busy \cup {Idle}, NEW c \in Commands,
         x # Idle => x.command = c /\ Relies(x),
         call' = [call EXCEPT ![p] = x], UNCHANGED <<host, row, disk>>,
         NEW r \in Receipt, receipt' = [receipt EXCEPT ![c] = r],
         r.epoch <= host.epoch,
         r.status = "settled" => row[c.attachment] # None /\ Done(c)
  PROVE  IInv'
<1>1. Shapes'
  BY DEF IInv, Shapes, disk, StagingFile, Busy, Plain, Decided, Writing, Row, Files, Receipt, Stage
<1>2. TypeOK'
  <2>1. host.epoch \in 1..MaxEpoch
    BY DEF IInv, TransferInvariant, TypeOK
  <2>2. r \in [epoch : 1..host.epoch, status : {"accepted", "settled", "rejected"}]
    BY <2>1, Constants DEF Receipt
  <2>3. receipt \in [Commands -> Receipt \cup {None}]
    BY DEF IInv, Shapes
  <2>4. \A d \in Commands : receipt'[d] # None =>
            receipt'[d] \in [epoch : 1..host.epoch, status : {"accepted", "settled", "rejected"}]
    BY <2>2, <2>3 DEF IInv, TransferInvariant, TypeOK
  <2>. QED
    BY <2>4 DEF IInv, TransferInvariant, TypeOK, disk, Row, Files
<1>3. \A f \in Files : Len(content[f]) \in Nat
  BY LenProperties DEF IInv, Shapes
<1>4. \A a \in Attachments : row[a] # None => row[a].received \in Nat
  BY Constants DEF IInv, Shapes, Row
<1>5. Grows /\ receipt'[c] # None
  BY <1>3, <1>4, Constants DEF Grows, disk, IInv, Shapes
<1>6. SettledIsDone' /\ SettledIsKept'
  <2>1. ASSUME NEW d \in Commands, receipt'[d] # None, receipt'[d].status = "settled"
        PROVE  row'[d.attachment] # None /\ Done(d)'
    <3>1. receipt \in [Commands -> Receipt \cup {None}]
      BY DEF IInv, Shapes
    <3>2. row[d.attachment] # None /\ Has(d)
      BY <2>1, <3>1, DoneHas DEF IInv, TransferInvariant, SettledIsDone, SettledIsKept
    <3>. QED
      BY <1>1, <1>5, <3>2, HasKept, DoneHas
  <2>. QED
    BY <2>1 DEF SettledIsDone, SettledIsKept
<1>7. x # Idle => Fits(x)'
  BY <1>1, <1>5, ReliesKept DEF Fits, Claimed
<1>. QED
  BY <1>1, <1>2, <1>5, <1>6, <1>7, CallStep, ProgressKept, WholeKept
  DEF IInv, TransferInvariant, disk

-----------------------------------------------------------------------------
(* The steps of a call.                                                     *)

\* What a call at work has.
LEMMA AtWork ==
  ASSUME IInv, NEW p \in Callers, call[p].step \in Steps
  PROVE  /\ call[p] \in Busy /\ Fits(call[p]) /\ Command(p) \in Commands
         /\ Subject(p) \in Attachments /\ KeyOf[Subject(p)] \in Keys
         /\ row[Subject(p)] \in Row \cup {None} /\ staging[Subject(p)] \in Stage
<1>1. call[p] # Idle
  BY DEF Idle, Steps
<1>2. call[p] \in Busy /\ Fits(call[p])
  BY <1>1 DEF IInv, Shapes, CallsFit
<1>. QED
  BY <1>2, CallTypes, Constants DEF Command, Subject, IInv, Shapes

\* It goes to another step with what it has read.
LEMMA Going ==
  ASSUME IInv, NEW p \in Callers, call[p].step \in Steps, NEW s \in Steps, GoTo(p, s)
  PROVE  \E y \in Busy :
         /\ call' = [call EXCEPT ![p] = y] /\ y.step = s
         /\ y.command = Command(p) /\ y.current = Held(p)
         /\ HeldFits(y)
         /\ call[p].step \notin {"claim", "digest"} => Claimed(y)
         /\ s = "reject" => Relies(y)
<1>1. call[p] \in Busy /\ Fits(call[p])
  BY AtWork
<1>2. PICK y : y = [call[p] EXCEPT !.step = s]
  OBVIOUS
<1>3. /\ y \in Busy /\ y.step = s /\ y.command = call[p].command
      /\ y.current = call[p].current
  BY <1>1, <1>2, Moved
<1>4. call' = [call EXCEPT ![p] = y]
  BY <1>2 DEF GoTo, IInv, Shapes
<1>5. HeldFits(y) /\ (call[p].step \notin {"claim", "digest"} => Claimed(y))
  BY <1>1, <1>3 DEF Fits, Claimed, Relies, HeldFits
<1>. QED
  BY <1>3, <1>4, <1>5 DEF Relies, Command, Held

LEMMA Returned ==
  ASSUME IInv, NEW p \in Callers, Return(p), UNCHANGED <<host, row, receipt, disk>>
  PROVE  IInv'
BY OnlyCall DEF Return

LEMMA BeginStep ==
  ASSUME IInv, NEW p \in Callers, NEW c \in Commands, Begin(p, c)
  PROVE  IInv'
<1>1. c.attachment \in Attachments /\ c.kind \in {"begin", "append", "commit"}
  BY Constants
<1>2. row[c.attachment] \in Row \cup {None} /\ host.epoch \in 1..MaxEpoch
  BY <1>1 DEF IInv, TransferInvariant, Shapes, TypeOK
<1>3. CASE c.kind = "begin"
  <2>1. PICK x : x = [step |-> "claim", command |-> c, current |-> None, epoch |-> host.epoch]
    OBVIOUS
  <2>2. x \in Busy /\ Fits(x)
    BY <1>2, <1>3, <2>1 DEF Busy, Plain, Steps, Fits, Claimed, Relies, HeldFits
  <2>. QED
    BY <1>3, <2>1, <2>2, OnlyCall DEF Begin
<1>4. CASE c.kind # "begin"
  <2>1. PICK s : s = IF c.kind = "commit" /\ row[c.attachment].state = "uploading"
                     THEN "digest" ELSE "claim"
    OBVIOUS
  <2>2. PICK x : x = [step |-> s, command |-> c, current |-> row[c.attachment],
                      epoch |-> row[c.attachment].epoch]
    OBVIOUS
  <2>3. row[c.attachment] \in Row /\ row[c.attachment].epoch \in 1..MaxEpoch
        /\ row[c.attachment].received \in Nat
    BY <1>2, <1>4, Constants DEF Begin, Row
  <2>4. x \in Busy /\ Fits(x)
    BY <1>4, <2>1, <2>2, <2>3, Constants DEF Busy, Plain, Steps, Fits, Claimed, Relies, HeldFits
  <2>. QED
    BY <1>4, <2>1, <2>2, <2>4, OnlyCall DEF Begin
<1>. QED
  BY <1>3, <1>4

LEMMA ClaimStep ==
  ASSUME IInv, NEW p \in Callers, Claim(p)
  PROVE  IInv'
<1>1. call[p].step = "claim" /\ call[p].step \in Steps
  BY DEF Claim, At, Steps
<1>2. /\ call[p] \in Busy /\ Fits(call[p]) /\ Command(p) \in Commands
      /\ Command(p).kind \in {"begin", "append", "commit"}
  BY <1>1, AtWork, Constants
<1>3. CASE Open(call[p].epoch) /\ receipt[Command(p)] \in {None, Accepted(call[p].epoch)}
  <2>1. PICK s : s = IF Held(p) # None /\ Held(p).state = "available" THEN "reject"
                     ELSE IF Command(p).kind = "commit" THEN call[p].prepared
                     ELSE Command(p).kind
    OBVIOUS
  <2>2. Held(p) # None /\ Held(p).state # "available" => Held(p).state = "uploading"
    BY <1>2, CallTypes DEF Held, Row
  <2>3. Command(p).kind # "begin" => Held(p) # None
    BY <1>2, Constants DEF Fits, Claimed, Relies, HeldFits, Held, Command
  <2>4. s = "promote" => Command(p).kind = "commit" /\ Held(p).state = "uploading"
                         /\ PromoteFits(Subject(p))
    BY <1>1, <1>2, <2>1, <2>2, <2>3 DEF Fits, Claimed, Relies, Held, Command, Subject, Decided
  <2>5. s \in {"begin", "append"} => Command(p).kind = s
                                     /\ (s = "append" => Held(p).state = "uploading")
    BY <1>1, <1>2, <2>1, <2>2, <2>3 DEF Fits, Claimed, Relies, Held, Command, Subject, Decided
  <2>6. s \in {"begin", "append", "promote", "reject"}
    BY <1>1, <1>2, <2>1, <2>2, <2>3 DEF Fits, Claimed, Relies, Held, Command, Subject, Decided
  <2>7. GoTo(p, s) /\ s \in Steps
    BY <1>3, <2>1, <2>6 DEF Claim, Steps
  <2>8. PICK y \in Busy :
            /\ call' = [call EXCEPT ![p] = y] /\ y.step = s
            /\ y.command = Command(p) /\ y.current = Held(p) /\ HeldFits(y)
    BY <1>1, <2>7, Going
  <2>9. Relies(y)
    BY <2>4, <2>5, <2>6, <2>8 DEF Fits, Claimed, Relies, Subject
  <2>10. PICK r : r = Accepted(call[p].epoch)
    OBVIOUS
  <2>11. r \in Receipt /\ r.epoch <= host.epoch /\ r.status = "accepted"
         /\ receipt' = [receipt EXCEPT ![Command(p)] = r]
    <3>1. call[p].epoch \in 1..MaxEpoch /\ host.epoch = call[p].epoch
      BY <1>2, <1>3, CallTypes DEF Open
    <3>. QED
      BY <1>3, <2>10, <3>1, Constants DEF Accepted, Receipt, Claim
  <2>. QED
    BY <1>2, <2>8, <2>9, <2>11, ReceiptStep DEF Claim
<1>4. CASE ~(Open(call[p].epoch) /\ receipt[Command(p)] \in {None, Accepted(call[p].epoch)})
  BY <1>4, Returned DEF Claim
<1>. QED
  BY <1>3, <1>4

LEMMA SettleStep ==
  ASSUME IInv, NEW p \in Callers, Settle(p)
  PROVE  IInv'
<1>1. call[p].step \in {"settle", "reject"} /\ call[p].step \in Steps
  BY DEF Settle, Steps
<1>2. call[p] \in Busy /\ Fits(call[p]) /\ Command(p) \in Commands
  BY <1>1, AtWork
<1>3. PICK c : c = Command(p)
  OBVIOUS
<1>4. PICK status : status = IF receipt[c].status # "accepted" THEN receipt[c].status
                             ELSE IF At(p, "settle") THEN "settled" ELSE "rejected"
  OBVIOUS
<1>5. receipt' = [receipt EXCEPT ![c].status = status]
  BY <1>3, <1>4 DEF Settle
<1>6. call' = [call EXCEPT ![p] = Idle] /\ UNCHANGED <<host, row, disk>>
  BY DEF Settle, Return
<1>7. CASE receipt[c] # None
  <2>1. PICK r : r = [receipt[c] EXCEPT !.status = status]
    OBVIOUS
  <2>2. receipt[c] \in Receipt /\ receipt[c].epoch <= host.epoch
    BY <1>2, <1>3, <1>7 DEF IInv, Shapes, TransferInvariant, TypeOK
  <2>3. receipt' = [receipt EXCEPT ![c] = r] /\ r \in Receipt /\ r.epoch <= host.epoch
    BY <1>4, <1>5, <2>1, <2>2 DEF Receipt, IInv, Shapes
  <2>4. r.status = "settled" => row[c.attachment] # None /\ Done(c)
    BY <1>1, <1>2, <1>3, <1>4, <1>7, <2>1, <2>2
    DEF Receipt, At, Command, Fits, Relies, IInv, TransferInvariant, SettledIsDone, SettledIsKept
  <2>. QED
    BY <1>2, <1>3, <1>6, <2>3, <2>4, ReceiptStep
<1>. QED
  BY <1>1, <1>2, <1>3, <1>7 DEF Fits, Claimed, Relies, Command

LEMMA RejectStep ==
  ASSUME IInv, NEW p \in Callers, call[p].step \in Steps \ {"claim", "digest"},
         GoTo(p, "reject"), UNCHANGED <<host, row, receipt, disk>>
  PROVE  IInv'
<1>1. PICK y \in Busy : call' = [call EXCEPT ![p] = y] /\ Claimed(y) /\ Relies(y)
  BY Going DEF Steps
<1>. QED
  BY <1>1, OnlyCall DEF Fits

\* The command has been done.
LEMMA DoneStep ==
  ASSUME IInv, NEW p \in Callers, call[p].step \in Steps \ {"claim", "digest"},
         GoTo(p, "settle"), row[Subject(p)] # None, Done(Command(p)),
         UNCHANGED <<host, row, receipt, disk>>
  PROVE  IInv'
<1>1. PICK y \in Busy :
          /\ call' = [call EXCEPT ![p] = y] /\ y.step = "settle"
          /\ y.command = Command(p) /\ HeldFits(y) /\ Claimed(y)
  BY Going DEF Steps
<1>2. Relies(y)
  BY <1>1 DEF Relies, Subject
<1>. QED
  BY <1>1, <1>2, OnlyCall DEF Fits

\* A row is written, and the command has been done.
LEMMA RowStep ==
  ASSUME IInv, NEW p \in Callers, call[p].step \in Steps \ {"claim", "digest"},
         GoTo(p, "settle"), UNCHANGED <<host, receipt, disk>>,
         NEW a \in Attachments, a = Subject(p), NEW next \in Row,
         row' = [row EXCEPT ![a] = next], next.epoch <= host.epoch,
         row[a] # None => /\ next.received >= row[a].received
                          /\ row[a].state = "available" => next.state = "available",
         next.received > 0 => IsPromoted(a) \/ IsStaged(a, next.received),
         next.state = "available" => IsPromoted(a),
         NEW c \in Commands, c = Command(p), Has(c)'
  PROVE  IInv'
<1>1. PICK y \in Busy :
          /\ call' = [call EXCEPT ![p] = y] /\ y.step = "settle"
          /\ y.command = c /\ HeldFits(y) /\ Claimed(y)
  BY Going DEF Steps
<1>2. c.attachment = a /\ row \in [Attachments -> Row \cup {None}] /\ next # None
  BY Constants DEF IInv, Shapes, Subject
<1>3. row' \in [Attachments -> Row \cup {None}] /\ row'[a] = next
      /\ \A b \in Attachments : b # a => row'[b] = row[b]
  BY <1>2
<1>4. Shapes'
  BY <1>1, <1>3 DEF IInv, Shapes, disk, StagingFile, Busy, Plain, Decided, Writing, Row, Files,
     Receipt, Stage
<1>5. TypeOK'
  BY <1>2, <1>3 DEF IInv, TransferInvariant, TypeOK, disk, Row, Files
<1>6. \A f \in Files : Len(content[f]) \in Nat
  BY LenProperties DEF IInv, Shapes
<1>7. \A b \in Attachments : row[b] # None => row[b].received \in Nat
  BY <1>2, Constants DEF Row
<1>8. Grows
  BY <1>2, <1>3, <1>6, <1>7 DEF Grows, disk
<1>9. Fits(y)'
  <2>1. HeldFits(y)'
    BY <1>1, <1>2, <1>3, <1>7, Constants DEF HeldFits, Row
  <2>2. Done(y.command)' /\ row'[y.command.attachment] # None
    BY <1>1, <1>2, <1>3, DoneHas
  <2>. QED
    BY <1>1, <2>1, <2>2 DEF Fits, Claimed, Relies
<1>10. ProgressIsStaged'
  <2>1. ASSUME NEW b \in Attachments, row'[b] # None, row'[b].received > 0
        PROVE  IsPromoted(b) \/ IsStaged(b, row'[b].received)
    BY <1>3, <2>1 DEF IInv, TransferInvariant, ProgressIsStaged, IsPromoted, IsStaged
  <2>. QED
    BY <2>1 DEF ProgressIsStaged, IsPromoted, IsStaged, StagingFile, disk
<1>11. PromotedIsWhole'
  BY <1>3 DEF IInv, PromotedIsWhole, IsPromoted, disk
<1>. QED
  BY <1>1, <1>4, <1>5, <1>8, <1>9, <1>10, <1>11, CallStep, ReceiptsKept DEF IInv, TransferInvariant

LEMMA ClaimAttachmentStep ==
  ASSUME IInv, NEW p \in Callers, ClaimAttachment(p)
  PROVE  IInv'
<1>1. call[p].step = "begin" /\ call[p].step \in Steps \ {"claim", "digest"}
  BY DEF ClaimAttachment, At, Steps
<1>2. PICK a \in Attachments, c \in Commands : a = Subject(p) /\ c = Command(p)
  BY <1>1, AtWork
<1>3. /\ call[p] \in Busy /\ Fits(call[p]) /\ c.attachment = a
      /\ c.kind = "begin" /\ row[a] \in Row \cup {None} /\ call[p].epoch \in 1..MaxEpoch
  BY <1>1, <1>2, AtWork, CallTypes DEF Fits, Relies, Command, Subject
<1>4. CASE Return(p) /\ row' = row
  BY <1>4, Returned DEF ClaimAttachment
<1>5. CASE Open(call[p].epoch) /\ row[a] = None
  <2>1. PICK next : next = [epoch |-> call[p].epoch, state |-> "uploading", received |-> 0]
    OBVIOUS
  <2>2. next \in Row /\ next.epoch <= host.epoch /\ next.received = 0
        /\ next.state = "uploading"
    BY <1>3, <1>5, <2>1, Constants DEF Row, Open
  <2>3. row' = [row EXCEPT ![a] = next] /\ GoTo(p, "settle")
    BY <1>2, <1>5, <2>1 DEF ClaimAttachment, IInv, Shapes
  <2>4. Has(c)'
    BY <1>3, <2>2, <2>3, Constants DEF Has, IInv, Shapes
  <2>5. row[a] = None /\ ~(next.received > 0) /\ next.state # "available"
        /\ UNCHANGED <<host, receipt, disk>>
    BY <1>5, <2>2 DEF ClaimAttachment
  <2>. QED
    BY <1>1, <1>2, <2>2, <2>3, <2>4, <2>5, RowStep
<1>6. CASE row[a] # None /\ GoTo(p, "settle")
  <2>1. row' = row
    BY <1>2, <1>6 DEF ClaimAttachment, IInv, Shapes
  <2>2. Done(Command(p))
    BY <1>2, <1>3, <1>6, DoneHas DEF Has
  <2>. QED
    BY <1>1, <1>2, <1>6, <2>1, <2>2, DoneStep DEF ClaimAttachment
<1>. QED
  BY <1>2, <1>4, <1>5, <1>6 DEF ClaimAttachment

\* A step that writes files, and no row and no receipt.
LEMMA DiskStep ==
  ASSUME IInv, TypeOK', Shapes', Grows, PromotedIsWhole',
         NEW p \in Callers, NEW x \in Busy \cup {Idle},
         call' = [call EXCEPT ![p] = x], x # Idle => Fits(x)',
         UNCHANGED <<row, receipt>>
  PROVE  IInv'
BY CallStep, ReceiptsKept, ProgressKept DEF IInv, TransferInvariant

\* The staging file was opened for the chunk of p.
StagingOpened(p, a, c, opened, y, file) ==
    /\ opened = IF staging[a].present THEN staging[a]
                ELSE [present |-> TRUE, number |-> staging[a].number + 1]
    /\ opened.present /\ opened.number \in 1..MaxFiles
    /\ file = <<a, opened.number>> /\ file[1] = a
    /\ staging' = [staging EXCEPT ![a] = opened]
    /\ call' = [call EXCEPT ![p] = y]
    /\ y.command = c /\ y.current = Held(p)
    /\ y.step \in {"advance", "reject", "write"}
    /\ y.step = "advance" => Len(content[file]) = EndOf(c)
    /\ y.step = "write" => /\ y \in Writing /\ y.file = file /\ y.written = 0
                          /\ Len(content[file]) = c.offset /\ 0 < Len(c.bytes)

\* A chunk in order opens the staging file, which is made if it is not there.
LEMMA Opening ==
  ASSUME IInv, NEW p \in Callers, OpenStaging(p), InOrder(p),
         NEW a \in Attachments, a = Subject(p), NEW c \in Commands, c = Command(p)
  PROVE  \E opened \in Stage, y \in Busy, file \in Files :
             StagingOpened(p, a, c, opened, y, file)
<1>1. call[p].step = "append" /\ call[p].step \in Steps \ {"claim", "digest"}
  BY DEF OpenStaging, At, Steps
<1>2. /\ call[p] \in Busy /\ c.kind = "append" /\ Held(p) \in Row
      /\ staging[a] \in Stage /\ call[p].epoch \in 1..MaxEpoch
  BY <1>1, AtWork, CallTypes DEF Fits, Relies, HeldFits, Command, Subject, Held
<1>3. c.offset \in Nat /\ Len(c.bytes) \in Nat /\ End(p) = c.offset + Len(c.bytes)
      /\ EndOf(c) = End(p)
  BY <1>2, Constants DEF End, EndOf
<1>4. PICK opened : opened = IF staging[a].present THEN staging[a]
                             ELSE [present |-> TRUE, number |-> staging[a].number + 1]
  OBVIOUS
<1>5. PICK file : file = <<a, opened.number>>
  OBVIOUS
<1>6. PICK y : y =
          IF Len(content[file]) = End(p)
          THEN [call[p] EXCEPT !.step = IF SubSeq(content[file], c.offset + 1, End(p)) = c.bytes
                                        THEN "advance" ELSE "reject"]
          ELSE IF Len(content[file]) # c.offset THEN [call[p] EXCEPT !.step = "reject"]
          ELSE [step |-> "write", command |-> c, current |-> Held(p),
                epoch |-> call[p].epoch, file |-> file, written |-> 0]
  OBVIOUS
<1>7. /\ opened.number <= MaxFiles /\ staging' = [staging EXCEPT ![a] = opened]
      /\ call' = [call EXCEPT ![p] = y]
  BY <1>4, <1>5, <1>6 DEF OpenStaging, IInv, Shapes
<1>8. opened \in Stage /\ opened.present /\ opened.number \in 1..MaxFiles /\ file \in Files
      /\ file[1] = a
  <2>1. staging[a].number \in 0..MaxFiles /\ staging[a].present \in BOOLEAN
        /\ (staging[a].present => staging[a].number > 0) /\ MaxFiles \in Nat
    BY <1>2, Constants DEF Stage, IInv, Shapes
  <2>2. opened.present /\ opened.number \in 1..MaxFiles
    BY <1>4, <1>7, <2>1
  <2>3. opened \in Stage
    BY <1>2, <1>4, <2>2 DEF Stage
  <2>. QED
    BY <1>5, <2>2, <2>3 DEF Files
<1>9. Len(content[file]) \in Nat
  BY <1>8, LenProperties DEF IInv, Shapes
<1>10. /\ y \in Busy /\ y.command = c /\ y.current = Held(p)
       /\ y.step \in {"advance", "reject", "write"}
       /\ y.step = "advance" => Len(content[file]) = EndOf(c)
       /\ y.step = "write" => /\ y \in Writing /\ y.file = file /\ y.written = 0
                             /\ Len(content[file]) = c.offset /\ 0 < Len(c.bytes)
  <2>1. ASSUME NEW s \in {"advance", "reject"}, y = [call[p] EXCEPT !.step = s]
        PROVE  y \in Busy /\ y.command = c /\ y.current = Held(p) /\ y.step = s
    <3>1. s \in Steps
      BY DEF Steps
    <3>. QED
      BY <1>2, <2>1, <3>1, Moved DEF Command, Held
  <2>2. CASE Len(content[file]) = End(p)
    BY <1>3, <1>6, <2>1, <2>2
  <2>3. CASE Len(content[file]) # End(p) /\ Len(content[file]) # c.offset
    BY <1>6, <2>1, <2>3
  <2>4. CASE Len(content[file]) # End(p) /\ Len(content[file]) = c.offset
    <3>1. y = [step |-> "write", command |-> c, current |-> Held(p),
               epoch |-> call[p].epoch, file |-> file, written |-> 0]
      BY <1>6, <2>4
    <3>2. y \in Writing
      BY <1>2, <1>8, <3>1 DEF Writing, Steps
    <3>3. 0 < Len(c.bytes)
      BY <1>3, <2>4
    <3>. QED
      BY <2>4, <3>1, <3>2, <3>3 DEF Busy
  <2>. QED
    BY <2>2, <2>3, <2>4
<1>11. StagingOpened(p, a, c, opened, y, file)
  BY <1>4, <1>5, <1>7, <1>8, <1>10 DEF StagingOpened
<1>. QED
  BY <1>8, <1>10, <1>11

LEMMA OpenStagingStep ==
  ASSUME IInv, NEW p \in Callers, OpenStaging(p)
  PROVE  IInv'
<1>1. call[p].step = "append" /\ call[p].step \in Steps \ {"claim", "digest"}
  BY DEF OpenStaging, At, Steps
<1>2. PICK a \in Attachments, c \in Commands : a = Subject(p) /\ c = Command(p)
  BY <1>1, AtWork
<1>3. /\ c.attachment = a /\ c.kind = "append"
      /\ Held(p) \in Row /\ Held(p).state = "uploading" /\ HeldFits(call[p])
      /\ receipt[c] # None /\ staging[a] \in Stage
  BY <1>1, <1>2, AtWork DEF Fits, Claimed, Relies, HeldFits, Command, Subject, Held, IInv, Shapes
<1>4. c.offset \in Nat /\ Len(c.bytes) \in Nat /\ End(p) = EndOf(c) /\ EndOf(c) \in Nat
  BY <1>2, <1>3, Constants DEF End, EndOf
<1>5. CASE ~InOrder(p)
  BY <1>1, <1>5, RejectStep DEF OpenStaging, disk
<1>6. CASE InOrder(p)
  <2>1. PICK opened \in Stage, y \in Busy, file \in Files :
             StagingOpened(p, a, c, opened, y, file)
    BY <1>2, <1>6, Opening
  <2>2. UNCHANGED <<host, row, receipt, blob, content, faults>>
    BY <1>2, <1>6 DEF OpenStaging
  <2>3. staging'[a] = opened /\ StagingFile(a)' = file
        /\ \A b \in Attachments : b # a => staging'[b] = staging[b]
    BY <2>1 DEF StagingOpened, StagingFile, IInv, Shapes
  <2>4. Len(content[file]) \in Nat
    BY LenProperties DEF IInv, Shapes
  <2>5. EndOf(c) \in Held(p).received..Length
    BY <1>2, <1>3, <1>4, <1>6, Constants DEF InOrder, Row, EndOf
  <2>6. y.step = "write" => WriteFits(y)'
    <3>. SUFFICES ASSUME y.step = "write" PROVE WriteFits(y)'
      OBVIOUS
    <3>1. y.written < Len(c.bytes) /\ Len(content[y.file]) >= c.offset + y.written
      BY <1>4, <2>1 DEF StagingOpened
    <3>. QED
      BY <1>3, <2>1, <2>2, <2>3, <3>1 DEF StagingOpened, WriteFits, Writing, Row, Files
  <2>7. HeldFits(y)'
    BY <1>2, <1>3, <2>1, <2>2 DEF StagingOpened, HeldFits, Row, Held, Command
  <2>8. Fits(y)'
    BY <1>3, <1>4, <2>1, <2>2, <2>3, <2>4, <2>5, <2>6, <2>7 DEF StagingOpened, Fits, Claimed, Relies, IsStaged
  <2>9. Shapes'
    BY <2>1, <2>2, <2>3 DEF StagingOpened, IInv, Shapes, Busy, Plain, Decided, Writing, Row, Files, Receipt, Stage
  <2>10. TypeOK'
    BY <2>2 DEF IInv, TransferInvariant, TypeOK, Row, Files
  <2>11. Grows
    <3>1. \A f \in Files : Len(content[f]) \in Nat
      BY LenProperties DEF IInv, Shapes
    <3>2. \A b \in Attachments : row[b] # None => row[b].received \in Nat
      BY Constants DEF IInv, Shapes, Row
    <3>. QED
      BY <2>1, <2>2, <2>3, <3>1, <3>2 DEF StagingOpened, Grows
  <2>. QED
    BY <2>1, <2>2, <2>8, <2>9, <2>10, <2>11, DiskStep, WholeKept DEF StagingOpened
<1>. QED
  BY <1>5, <1>6

\* A byte is written at its place, and the others stay.
LEMMA WrittenByte ==
  ASSUME NEW bytes \in Seq(Byte), NEW byte \in Byte, NEW position \in 1..(Len(bytes) + 1)
  PROVE  LET w == Written(bytes, position, byte)
         IN /\ w \in Seq(Byte)
            /\ Len(w) = IF Len(bytes) < position THEN position ELSE Len(bytes)
            /\ w[position] = byte
            /\ \A i \in 1..Len(w) : i # position => i \in 1..Len(bytes) /\ w[i] = bytes[i]
<1>1. Len(bytes) \in Nat /\ \A i \in 1..Len(bytes) : bytes[i] \in Byte
  BY LenProperties
<1>2. PICK n : n = IF Len(bytes) < position THEN position ELSE Len(bytes)
  OBVIOUS
<1>3. n \in Nat /\ position \in 1..n /\ \A i \in 1..n : i # position => i \in 1..Len(bytes)
  BY <1>1, <1>2
<1>4. PICK w : w = [i \in 1..n |-> IF i = position THEN byte ELSE bytes[i]]
  OBVIOUS
<1>5. w \in [1..n -> Byte]
  BY <1>1, <1>3, <1>4
<1>6. w \in Seq(Byte) /\ Len(w) = n
  BY <1>3, <1>5
<1>. QED
  BY <1>2, <1>3, <1>4, <1>6 DEF Written

\* A byte of the chunk of p was written.
ByteWritten(p, a, c, y, file, w, written, position) ==
    /\ file = call[p].file /\ written = call[p].written /\ file[1] = a
    /\ content' = [content EXCEPT ![file] = w]
    /\ call' = [call EXCEPT ![p] = y]
    /\ y.command = c /\ y.current = Held(p) /\ y.file = file
    /\ y.written = written + 1 /\ written < Len(c.bytes)
    /\ y.step = IF written + 1 = Len(c.bytes) THEN "advance" ELSE "write"
    /\ position = c.offset + (written + 1) /\ position <= EndOf(c)
    /\ Len(w) = IF Len(content[file]) < position THEN position ELSE Len(content[file])
    /\ w[position] = c.bytes[written + 1]
    /\ \A i \in 1..Len(w) : i # position => i \in 1..Len(content[file])
                                            /\ w[i] = content[file][i]

\* The next byte of a chunk goes behind the bytes of the file or over one.
LEMMA Writes ==
  ASSUME IInv, NEW p \in Callers, WriteByte(p),
         NEW a \in Attachments, a = Subject(p), NEW c \in Commands, c = Command(p)
  PROVE  \E y \in Writing, file \in Files, w \in Seq(Byte), written \in Nat, position \in Nat :
             ByteWritten(p, a, c, y, file, w, written, position)
<1>1. call[p].step = "write" /\ call[p].step \in Steps
  BY DEF WriteByte, At, Steps
<1>2. call[p] \in Writing /\ c.kind = "append" /\ WriteFits(call[p])
  BY <1>1, AtWork DEF Fits, Relies, WriteFits, Command
<1>3. c.offset \in Nat /\ c.bytes \in Seq(Byte) /\ Len(c.bytes) \in Nat
      /\ EndOf(c) = c.offset + Len(c.bytes)
  BY <1>2, Constants DEF EndOf
<1>4. PICK file \in Files, written \in Nat : file = call[p].file /\ written = call[p].written
  BY <1>2 DEF Writing
<1>5. PICK position : position = c.offset + written + 1
  OBVIOUS
<1>6. PICK byte : byte = c.bytes[written + 1]
  OBVIOUS
<1>7. written < Len(c.bytes) /\ Len(content[file]) >= c.offset + written /\ file[1] = a
      /\ content[file] \in Seq(Byte) /\ Len(content[file]) \in Nat
  BY <1>2, <1>4, LenProperties DEF WriteFits, Command, Subject, IInv, Shapes
<1>8. byte \in Byte /\ position \in 1..(Len(content[file]) + 1) /\ position <= EndOf(c)
      /\ position \in Nat /\ position = c.offset + (written + 1)
  <2>1. written + 1 \in 1..Len(c.bytes)
    BY <1>3, <1>4, <1>7
  <2>2. byte \in Byte
    BY <1>3, <1>6, <2>1, ElementOfSeq
  <2>3. position \in Nat /\ position >= 1 /\ position <= Len(content[file]) + 1
    <3>1. PICK n \in Nat : n = Len(content[file])
      BY <1>7
    <3>2. n >= c.offset + written /\ c.offset \in Nat
      BY <1>3, <1>7, <3>1
    <3>3. position \in Nat /\ position >= 1 /\ position <= n + 1
      BY <1>4, <1>5, <3>2
    <3>. QED
      BY <3>1, <3>3
  <2>4. position <= EndOf(c) /\ position = c.offset + (written + 1)
    BY <1>3, <1>4, <1>5, <1>7
  <2>. QED
    BY <1>7, <2>2, <2>3, <2>4
<1>9. PICK w : w = Written(content[file], position, byte)
  OBVIOUS
<1>10. /\ w \in Seq(Byte) /\ w[position] = byte
       /\ Len(w) = IF Len(content[file]) < position THEN position ELSE Len(content[file])
       /\ \A i \in 1..Len(w) : i # position => i \in 1..Len(content[file])
                                               /\ w[i] = content[file][i]
  BY <1>7, <1>8, <1>9, WrittenByte
<1>11. content' = [content EXCEPT ![file] = w]
  BY <1>4, <1>5, <1>6, <1>9 DEF WriteByte
<1>12. PICK s : s = IF written + 1 = Len(c.bytes) THEN "advance" ELSE "write"
  OBVIOUS
<1>13. PICK y : y = [call[p] EXCEPT !.written = written + 1, !.step = s]
  OBVIOUS
<1>14. call' = [call EXCEPT ![p] = y]
  BY <1>4, <1>12, <1>13 DEF WriteByte, WrittenAll, IInv, Shapes
<1>15. y \in Writing /\ y.written = written + 1 /\ y.step = s /\ y.file = file
       /\ y.command = c /\ y.current = Held(p)
  <2>1. s \in Steps /\ written + 1 \in Nat
    BY <1>12 DEF Steps
  <2>2. y \in Writing /\ y.written = written + 1 /\ y.step = s /\ y.file = call[p].file
        /\ y.command = call[p].command /\ y.current = call[p].current
    BY <1>2, <1>13, <2>1 DEF Writing
  <2>. QED
    BY <1>4, <2>2 DEF Command, Held
<1>16. ByteWritten(p, a, c, y, file, w, written, position)
  BY <1>4, <1>6, <1>7, <1>8, <1>10, <1>11, <1>12, <1>14, <1>15 DEF ByteWritten
<1>. QED
  BY <1>4, <1>8, <1>10, <1>15, <1>16

LEMMA WriteByteStep ==
  ASSUME IInv, NEW p \in Callers, WriteByte(p)
  PROVE  IInv'
<1>1. call[p].step = "write" /\ call[p].step \in Steps \ {"claim", "digest"}
  BY DEF WriteByte, At, Steps
<1>2. PICK a \in Attachments, c \in Commands : a = Subject(p) /\ c = Command(p)
  BY <1>1, AtWork
<1>3. /\ c.attachment = a /\ c.kind = "append"
      /\ Held(p) \in Row /\ Held(p).state = "uploading" /\ HeldFits(call[p])
      /\ receipt[c] # None /\ WriteFits(call[p]) /\ EndOf(c) \in Held(p).received..Length
  BY <1>1, <1>2, AtWork DEF Fits, Claimed, Relies, HeldFits, WriteFits, Command, Subject, Held
<1>4. c.offset \in Nat /\ Len(c.bytes) \in Nat /\ EndOf(c) = c.offset + Len(c.bytes)
  BY <1>3, Constants DEF EndOf
<1>5. PICK y \in Writing, file \in Files, w \in Seq(Byte), written \in Nat, position \in Nat :
             ByteWritten(p, a, c, y, file, w, written, position)
  BY <1>2, Writes
<1>6. UNCHANGED <<host, row, receipt, staging, blob, faults>>
  BY DEF WriteByte
<1>7. content'[file] = w /\ \A f \in Files : f # file => content'[f] = content[f]
  BY <1>5 DEF ByteWritten, IInv, Shapes
<1>8. /\ IsPromoted(a) \/ (staging[a].present /\ file = StagingFile(a))
      /\ Len(content[file]) \in Nat
  BY <1>2, <1>3, <1>5, LenProperties DEF ByteWritten, WriteFits, Command, IInv, Shapes
<1>9. Len(w) >= c.offset + (written + 1) /\ Len(w) >= Len(content[file]) /\ Len(w) <= Length
  <2>1. Len(content[file]) <= Length
    BY DEF IInv, TransferInvariant, TypeOK
  <2>2. position <= Length
    BY <1>3, <1>4, <1>5, Constants DEF ByteWritten, Row
  <2>. QED
    BY <1>5, <1>8, <2>1, <2>2 DEF ByteWritten
<1>10. HeldFits(y)'
  BY <1>2, <1>3, <1>5, <1>6 DEF ByteWritten, HeldFits, Row, Held, Command
<1>11. y.step = "write" => WriteFits(y)'
  <2>. SUFFICES ASSUME y.step = "write" PROVE WriteFits(y)'
    OBVIOUS
  <2>1. y.written < Len(c.bytes) /\ Len(content'[file]) >= c.offset + y.written
    BY <1>4, <1>5, <1>7, <1>9 DEF ByteWritten
  <2>. QED
    BY <1>3, <1>5, <1>6, <1>8, <2>1 DEF ByteWritten, WriteFits, Writing, Row, Files, IsPromoted, StagingFile
<1>12. y.step = "advance" => IsPromoted(a)' \/ IsStaged(a, EndOf(c))'
  <2>. SUFFICES ASSUME y.step = "advance" PROVE IsPromoted(a)' \/ IsStaged(a, EndOf(c))'
    OBVIOUS
  <2>1. Len(content'[file]) >= EndOf(c)
    BY <1>4, <1>5, <1>7, <1>9 DEF ByteWritten
  <2>. QED
    BY <1>6, <1>8, <2>1 DEF IsPromoted, IsStaged, StagingFile
<1>13. Fits(y)'
  BY <1>3, <1>5, <1>6, <1>10, <1>11, <1>12 DEF ByteWritten, Fits, Claimed, Relies
<1>14. Shapes'
  <2>1. content' \in [Files -> Seq(Byte)]
    BY <1>5 DEF ByteWritten, IInv, Shapes
  <2>. QED
    BY <1>5, <1>6, <2>1 DEF ByteWritten, IInv, Shapes, Busy, Plain, Decided, Writing, Row, Files, Receipt, Stage
<1>15. TypeOK'
  <2>1. \A f \in Files : content'[f] \in Seq(Byte) /\ Len(content'[f]) <= Length
    BY <1>7, <1>9 DEF IInv, TransferInvariant, TypeOK
  <2>. QED
    BY <1>6, <2>1 DEF IInv, TransferInvariant, TypeOK, Row, Files
<1>16. Grows
  <2>1. \A f \in Files : Len(content[f]) \in Nat
    BY LenProperties DEF IInv, Shapes
  <2>2. \A b \in Attachments : row[b] # None => row[b].received \in Nat
    BY Constants DEF IInv, Shapes, Row
  <2>. QED
    BY <1>6, <1>7, <1>9, <2>1, <2>2 DEF Grows
<1>. QED
  BY <1>5, <1>6, <1>13, <1>14, <1>15, <1>16, DiskStep, WholeKept DEF ByteWritten, Busy

LEMMA AdvanceStep ==
  ASSUME IInv, NEW p \in Callers, Advance(p)
  PROVE  IInv'
<1>1. call[p].step = "advance" /\ call[p].step \in Steps \ {"claim", "digest"}
  BY DEF Advance, At, Steps
<1>2. PICK a \in Attachments, c \in Commands : a = Subject(p) /\ c = Command(p)
  BY <1>1, AtWork
<1>3. /\ c.attachment = a /\ c.kind = "append"
      /\ Held(p) \in Row /\ Held(p).state = "uploading" /\ HeldFits(call[p])
      /\ EndOf(c) \in Held(p).received..Length /\ (IsPromoted(a) \/ IsStaged(a, EndOf(c)))
      /\ row[a] \in Row /\ row[a] # None /\ row[a].received >= Held(p).received
  BY <1>1, <1>2, AtWork DEF Fits, Relies, HeldFits, Command, Subject, Held
<1>4. End(p) = EndOf(c) /\ EndOf(c) \in Nat
  BY <1>2, <1>3, Constants DEF End, EndOf
<1>5. UNCHANGED <<host, receipt, disk>>
  BY DEF Advance
<1>6. CASE End(p) = Held(p).received
  <2>1. Done(Command(p))
    BY <1>2, <1>3, <1>4, <1>6, DoneHas DEF Has
  <2>. QED
    BY <1>1, <1>2, <1>3, <1>6, <2>1, DoneStep DEF Advance
<1>7. CASE GoTo(p, "reject") /\ row' = row
  BY <1>1, <1>5, <1>7, RejectStep
<1>8. CASE row[a] = Held(p) /\ GoTo(p, "settle")
           /\ row' = [row EXCEPT ![a] = [Held(p) EXCEPT !.received = End(p)]]
  <2>1. PICK next : next = [Held(p) EXCEPT !.received = End(p)]
    OBVIOUS
  <2>2. next \in Row /\ next.received = EndOf(c) /\ next.state = "uploading"
        /\ next.epoch = row[a].epoch
    BY <1>3, <1>4, <1>8, <2>1, Constants DEF Row
  <2>3. next.epoch <= host.epoch /\ next.received >= row[a].received
        /\ row[a].state # "available"
    BY <1>3, <1>8, <2>2 DEF IInv, TransferInvariant, TypeOK
  <2>4. row'[a] = next
    BY <1>8, <2>1 DEF IInv, Shapes
  <2>5. Has(c)'
    BY <1>3, <1>4, <2>2, <2>4 DEF Has
  <2>6. IsPromoted(a) \/ IsStaged(a, next.received)
    BY <1>3, <2>2
  <2>7. row' = [row EXCEPT ![a] = next] /\ GoTo(p, "settle") /\ next.state # "available"
    BY <1>8, <2>1, <2>2
  <2>. QED
    BY <1>1, <1>2, <1>5, <2>2, <2>3, <2>5, <2>6, <2>7, RowStep
<1>. QED
  BY <1>2, <1>6, <1>7, <1>8 DEF Advance, Replaced

LEMMA ReadDigestStep ==
  ASSUME IInv, NEW p \in Callers, ReadDigest(p)
  PROVE  IInv'
<1>1. call[p].step = "digest" /\ call[p].step \in Steps
  BY DEF ReadDigest, At, Steps
<1>2. PICK a \in Attachments, c \in Commands : a = Subject(p) /\ c = Command(p)
  BY <1>1, AtWork
<1>3. /\ c.attachment = a /\ c.kind = "commit"
      /\ Held(p) \in Row /\ Held(p).state = "uploading" /\ HeldFits(call[p])
      /\ call[p].epoch \in 1..MaxEpoch
  BY <1>1, <1>2, AtWork, CallTypes DEF Fits, Relies, HeldFits, Command, Subject, Held
<1>4. PICK file : file = IF staging[a].present THEN StagingFile(a) ELSE blob[KeyOf[a]]
  OBVIOUS
<1>5. PICK prepared : prepared = IF file = None THEN "reject" ELSE Prepared(p, content[file])
  OBVIOUS
<1>6. prepared \in {"promote", "reject"} /\ (prepared = "promote" => PromoteFits(a))
  <2>1. Length \in Nat /\ Len(Right) = Length
    BY Constants DEF Right
  <2>2. CASE staging[a].present
    BY <1>4, <1>5, <2>1, <2>2 DEF Prepared, PromoteFits, IsStaged
  <2>3. CASE ~staging[a].present
    BY <1>4, <1>5, <2>3 DEF Prepared, PromoteFits, IsPromoted
  <2>. QED
    BY <2>2, <2>3
<1>7. PICK x : x = [step |-> "claim", command |-> c, current |-> Held(p),
                    epoch |-> call[p].epoch, prepared |-> prepared]
  OBVIOUS
<1>8. x \in Decided
  BY <1>3, <1>6, <1>7 DEF Decided, Steps
<1>9. Fits(x)
  BY <1>2, <1>3, <1>6, <1>7, <1>8 DEF Fits, Claimed, Relies, HeldFits, Command, Held
<1>10. call' = [call EXCEPT ![p] = x] /\ UNCHANGED <<host, row, receipt, disk>>
  BY <1>2, <1>4, <1>5, <1>7 DEF ReadDigest, IInv, Shapes
<1>. QED
  BY <1>8, <1>9, <1>10, OnlyCall DEF Busy

LEMMA PromoteStep ==
  ASSUME IInv, NEW p \in Callers, Promote(p)
  PROVE  IInv'
<1>1. call[p].step = "promote" /\ call[p].step \in Steps \ {"claim", "digest"}
  BY DEF Promote, At, Steps
<1>2. PICK a \in Attachments, c \in Commands : a = Subject(p) /\ c = Command(p)
  BY <1>1, AtWork
<1>3. /\ c.attachment = a /\ c.kind = "commit" /\ Held(p).state = "uploading"
      /\ PromoteFits(a) /\ KeyOf[a] \in Keys
  BY <1>1, <1>2, AtWork DEF Fits, Relies, Command, Subject, Held
<1>4. UNCHANGED <<host, row, receipt, staging, content, faults>>
  BY DEF Promote
<1>5. CASE blob' = blob /\ GoTo(p, "reject")
  BY <1>1, <1>4, <1>5, RejectStep DEF disk
<1>6. ASSUME NEW s \in {"unlink", "publish"}, GoTo(p, s), IsPromoted(a)'
      PROVE  \E y \in Busy : call' = [call EXCEPT ![p] = y] /\ Fits(y)'
  <2>1. PICK y \in Busy :
            /\ call' = [call EXCEPT ![p] = y] /\ y.step = s
            /\ y.command = c /\ y.current = Held(p) /\ HeldFits(y) /\ Claimed(y)
    BY <1>1, <1>2, <1>6, Going DEF Steps
  <2>2. HeldFits(y)' /\ Claimed(y)'
    BY <1>4, <2>1 DEF HeldFits, Claimed, Row
  <2>. QED
    BY <1>3, <1>6, <2>1, <2>2 DEF Fits, Relies
<1>7. CASE IsPromoted(a) /\ ~GoTo(p, "reject")
  <2>1. blob' = blob /\ \E s \in {"unlink", "publish"} : GoTo(p, s)
    BY <1>2, <1>7 DEF Promote, IsPromoted
  <2>2. PICK y \in Busy : call' = [call EXCEPT ![p] = y] /\ Fits(y)'
    BY <1>6, <1>7, <2>1 DEF IsPromoted
  <2>3. Shapes' /\ TypeOK' /\ PromotedIsWhole'
    BY <1>4, <2>1, <2>2 DEF IInv, Shapes, TransferInvariant, TypeOK, PromotedIsWhole, IsPromoted,
       Busy, Plain, Decided, Writing, Row, Files, Receipt, Stage
  <2>4. Grows
    <3>1. \A f \in Files : Len(content[f]) \in Nat
      BY LenProperties DEF IInv, Shapes
    <3>2. \A b \in Attachments : row[b] # None => row[b].received \in Nat
      BY Constants DEF IInv, Shapes, Row
    <3>. QED
      BY <1>4, <2>1, <3>1, <3>2 DEF Grows
  <2>. QED
    BY <1>4, <2>2, <2>3, <2>4, DiskStep
<1>8. CASE ~IsPromoted(a) /\ ~GoTo(p, "reject")
  <2>1. GoTo(p, "unlink") /\ blob' = [blob EXCEPT ![KeyOf[a]] = StagingFile(a)]
        /\ staging[a].present
    BY <1>2, <1>8 DEF Promote, IsPromoted
  <2>2. PICK file \in Files : file = StagingFile(a)
    BY <2>1, StagedIsFile DEF IInv
  <2>3. Len(content[file]) = Length
    <3>1. Len(content[file]) >= Length /\ Len(content[file]) <= Length
      BY <1>3, <1>8, <2>2 DEF PromoteFits, IsStaged, IInv, TransferInvariant, TypeOK
    <3>2. Len(content[file]) \in Nat
      BY LenProperties DEF IInv, Shapes
    <3>. QED
      BY <3>1, <3>2, Constants
  <2>4. blob' = [blob EXCEPT ![KeyOf[a]] = file] /\ blob \in [Keys -> Files \cup {None}]
    BY <2>1, <2>2 DEF IInv, TransferInvariant, TypeOK
  <2>5. blob' \in [Keys -> Files \cup {None}] /\ blob'[KeyOf[a]] = file
        /\ \A k \in Keys : k # KeyOf[a] => blob'[k] = blob[k]
    BY <1>3, <2>4
  <2>6. IsPromoted(a)' /\ \A b \in Attachments : IsPromoted(b) => IsPromoted(b)'
    BY <2>5, Constants DEF IsPromoted
  <2>7. PICK y \in Busy : call' = [call EXCEPT ![p] = y] /\ Fits(y)'
    BY <1>6, <2>1, <2>6
  <2>8. Shapes'
    BY <1>4, <2>7 DEF IInv, Shapes, Busy, Plain, Decided, Writing, Row, Files, Receipt, Stage
  <2>9. TypeOK'
    BY <1>4, <2>5 DEF IInv, TransferInvariant, TypeOK, Row, Files
  <2>10. PromotedIsWhole'
    BY <1>4, <2>3, <2>5, <2>6 DEF IInv, PromotedIsWhole
  <2>11. Grows
    <3>1. \A f \in Files : Len(content[f]) \in Nat
      BY LenProperties DEF IInv, Shapes
    <3>2. \A b \in Attachments : row[b] # None => row[b].received \in Nat
      BY Constants DEF IInv, Shapes, Row
    <3>. QED
      BY <1>4, <1>8, <2>5, <3>1, <3>2 DEF Grows, IsPromoted
  <2>. QED
    BY <1>4, <2>7, <2>8, <2>9, <2>10, <2>11, DiskStep
<1>9. GoTo(p, "reject") => blob' = blob
  <2>1. GoTo(p, "unlink") => ~GoTo(p, "reject")
    <3>1. call \in [Callers -> {Idle} \cup Busy] /\ call[p] \in Busy
      BY <1>1, AtWork DEF IInv, Shapes
    <3>2. [call[p] EXCEPT !.step = "unlink"].step = "unlink"
          /\ [call[p] EXCEPT !.step = "reject"].step = "reject"
      BY <3>1, Moved DEF Steps
    <3>. QED
      BY <3>1, <3>2 DEF GoTo
  <2>. QED
    BY <2>1 DEF Promote
<1>. QED
  BY <1>5, <1>7, <1>8, <1>9

LEMMA UnlinkStep ==
  ASSUME IInv, NEW p \in Callers, Unlink(p)
  PROVE  IInv'
<1>1. call[p].step = "unlink" /\ call[p].step \in Steps \ {"claim", "digest"}
  BY DEF Unlink, At, Steps
<1>2. PICK a \in Attachments, c \in Commands : a = Subject(p) /\ c = Command(p)
  BY <1>1, AtWork
<1>3. /\ c.attachment = a /\ c.kind = "commit" /\ Held(p).state = "uploading"
      /\ IsPromoted(a) /\ staging[a] \in Stage
  BY <1>1, <1>2, AtWork DEF Fits, Relies, Command, Subject, Held
<1>4. UNCHANGED <<host, row, receipt, blob, content, faults>>
      /\ staging' = [staging EXCEPT ![a].present = FALSE]
  BY <1>2 DEF Unlink
<1>5. PICK s \in {"publish", "reject"} : GoTo(p, s)
  BY <1>2 DEF Unlink
<1>6. PICK y \in Busy :
          /\ call' = [call EXCEPT ![p] = y] /\ y.step = s
          /\ y.command = c /\ y.current = Held(p) /\ HeldFits(y) /\ Claimed(y)
  BY <1>1, <1>2, <1>5, Going DEF Steps
<1>7. HeldFits(y)' /\ Claimed(y)' /\ IsPromoted(a)'
  BY <1>3, <1>4, <1>6 DEF HeldFits, Claimed, Row, IsPromoted
<1>8. Fits(y)'
  BY <1>3, <1>6, <1>7 DEF Fits, Relies
<1>9. staging' \in [Attachments -> Stage]
      /\ \A b \in Attachments : staging'[b].present => staging'[b].number > 0
      /\ \A e \in Attachments : e # a => staging'[e] = staging[e]
  BY <1>3, <1>4 DEF IInv, Shapes, Stage
<1>10. Shapes'
  BY <1>4, <1>6, <1>9 DEF IInv, Shapes, Busy, Plain, Decided, Writing, Row, Files, Receipt, Stage
<1>11. TypeOK' /\ PromotedIsWhole'
  BY <1>4 DEF IInv, TransferInvariant, TypeOK, PromotedIsWhole, IsPromoted, Row, Files
<1>12. Grows
  <2>1. \A f \in Files : Len(content[f]) \in Nat
    BY LenProperties DEF IInv, Shapes
  <2>2. \A b \in Attachments : row[b] # None => row[b].received \in Nat
    BY Constants DEF IInv, Shapes, Row
  <2>. QED
    BY <1>4, <1>7, <1>9, <2>1, <2>2 DEF Grows
<1>. QED
  BY <1>4, <1>6, <1>8, <1>10, <1>11, <1>12, DiskStep

LEMMA PublishStep ==
  ASSUME IInv, NEW p \in Callers, Publish(p)
  PROVE  IInv'
<1>1. call[p].step = "publish" /\ call[p].step \in Steps \ {"claim", "digest"}
  BY DEF Publish, At, Steps
<1>2. PICK a \in Attachments, c \in Commands : a = Subject(p) /\ c = Command(p)
  BY <1>1, AtWork
<1>3. /\ c.attachment = a /\ c.kind = "commit" /\ Held(p) \in Row
      /\ IsPromoted(a) /\ row[a] \in Row /\ row[a] # None
  BY <1>1, <1>2, AtWork DEF Fits, Relies, HeldFits, Command, Subject, Held
<1>4. UNCHANGED <<host, receipt, disk>>
  BY DEF Publish
<1>5. CASE GoTo(p, "reject") /\ row' = row
  BY <1>1, <1>4, <1>5, RejectStep
<1>6. CASE row[a] = Held(p) /\ GoTo(p, "settle")
           /\ row' = [row EXCEPT ![a] = [Held(p) EXCEPT !.state = "available"]]
  <2>1. PICK next : next = [Held(p) EXCEPT !.state = "available"]
    OBVIOUS
  <2>2. next \in Row /\ next.received = row[a].received /\ next.state = "available"
        /\ next.epoch = row[a].epoch
    BY <1>3, <1>6, <2>1 DEF Row
  <2>3. next.epoch <= host.epoch /\ next.received >= row[a].received
    BY <1>3, <2>2, Constants DEF IInv, TransferInvariant, TypeOK, Row
  <2>4. row'[a] = next
    BY <1>6, <2>1 DEF IInv, Shapes
  <2>5. Has(c)'
    BY <1>3, <2>2, <2>4 DEF Has
  <2>6. row' = [row EXCEPT ![a] = next] /\ GoTo(p, "settle")
    BY <1>6, <2>1
  <2>. QED
    BY <1>1, <1>2, <1>3, <1>4, <2>2, <2>3, <2>5, <2>6, RowStep
<1>. QED
  BY <1>2, <1>5, <1>6 DEF Publish, Replaced

-----------------------------------------------------------------------------
(* The invariant.                                                           *)

LEMMA InitIInv == Init => IInv
<1>. SUFFICES ASSUME Init PROVE IInv
  OBVIOUS
<1>1. MaxEpoch \in Nat /\ 1 \in 1..MaxEpoch /\ MaxFiles \in Nat /\ Length \in Nat
  BY Constants
<1>2. Shapes
  <2>1. staging \in [Attachments -> Stage] /\ \A a \in Attachments : ~staging[a].present
    BY <1>1 DEF Init, Stage
  <2>2. <<>> \in Seq(Byte)
    OBVIOUS
  <2>. QED
    BY <2>1, <2>2 DEF Init, Shapes
<1>3. TypeOK
  BY <1>1 DEF Init, TypeOK
<1>. QED
  BY <1>2, <1>3 DEF Init, IInv, TransferInvariant, ProgressIsStaged, SettledIsDone, PromotedIsWhole,
     SettledIsKept, CallsFit

\* The daemon fences an epoch, or ends and starts again, or nothing happens.
LEMMA DaemonStep ==
  ASSUME IInv, Quiesce \/ Restart \/ UNCHANGED vars
  PROVE  IInv'
<1>1. UNCHANGED <<row, receipt, staging, blob, content>>
  BY DEF Quiesce, Restart, disk, vars
<1>2. host' \in [epoch : 1..MaxEpoch, mode : {"open", "closed"}] /\ host'.epoch >= host.epoch
      /\ host.epoch \in Nat
  BY Constants DEF Quiesce, Restart, vars, IInv, TransferInvariant, TypeOK
<1>3. TypeOK'
  <2>1. \A a \in Attachments : row[a] # None => row[a] \in Row /\ row[a].epoch <= host'.epoch
    BY <1>2, Constants DEF IInv, TransferInvariant, TypeOK, Row
  <2>2. \A c \in Commands : receipt[c] # None =>
            receipt[c] \in [epoch : 1..host'.epoch, status : {"accepted", "settled", "rejected"}]
    BY <1>2 DEF IInv, TransferInvariant, TypeOK
  <2>. QED
    BY <1>1, <1>2, <2>1, <2>2 DEF IInv, TransferInvariant, TypeOK, Row, Files
<1>4. call' = call \/ call' = [p \in Callers |-> Idle]
  BY DEF Quiesce, Restart, vars
<1>5. Shapes'
  BY <1>1, <1>4 DEF IInv, Shapes, Busy, Plain, Decided, Writing, Row, Files, Receipt, Stage
<1>6. ProgressIsStaged' /\ SettledIsDone' /\ PromotedIsWhole' /\ SettledIsKept'
  <2>1. SettledIsDone'
    <3>1. \A c \in Commands : Has(c) <=> Has(c)'
      BY <1>1 DEF Has
    <3>. QED
      BY <1>1, <3>1, DoneHas DEF IInv, TransferInvariant, SettledIsDone
  <2>. QED
    BY <1>1, <2>1 DEF IInv, TransferInvariant, ProgressIsStaged, StagingFile, PromotedIsWhole,
       IsPromoted, SettledIsKept
<1>7. CallsFit'
  <2>1. CASE call' = call
    <3>1. Grows
      <4>1. \A f \in Files : Len(content[f]) \in Nat
        BY LenProperties DEF IInv, Shapes
      <4>2. \A b \in Attachments : row[b] # None => row[b].received \in Nat
        BY Constants DEF IInv, Shapes, Row
      <4>. QED
        BY <1>1, <4>1, <4>2 DEF Grows
    <3>2. ASSUME NEW p \in Callers PROVE call' = [call EXCEPT ![p] = call[p]]
      BY <2>1 DEF IInv, Shapes
    <3>3. ASSUME NEW p \in Callers, NEW x \in Busy \cup {Idle}, x = call[p], x # Idle
          PROVE  Fits(x)'
      BY <1>5, <3>1, <3>3, FitsKept DEF IInv, CallsFit
    <3>4. \A p \in Callers : call[p] \in Busy \cup {Idle}
      BY DEF IInv, Shapes
    <3>5. ASSUME NEW p \in Callers PROVE CallsFit'
      <4>1. PICK x \in Busy \cup {Idle} : x = call[p]
        BY <3>4
      <4>2. call' = [call EXCEPT ![p] = x] /\ (x # Idle => Fits(x)')
        BY <3>2, <3>3, <4>1
      <4>. QED
        BY <1>5, <3>1, <4>2, CallStep
    <3>. QED
      BY <3>5 DEF CallsFit
  <2>2. CASE call' = [p \in Callers |-> Idle]
    BY <2>2 DEF CallsFit
  <2>. QED
    BY <1>4, <2>1, <2>2
<1>. QED
  BY <1>3, <1>5, <1>6, <1>7 DEF IInv, TransferInvariant

LEMMA StepKeepsIInv ==
  ASSUME IInv, NEW p \in Callers, Step(p)
  PROVE  IInv'
<1>1. CASE Claim(p)              BY <1>1, ClaimStep
<1>2. CASE Settle(p)             BY <1>2, SettleStep
<1>3. CASE ClaimAttachment(p)    BY <1>3, ClaimAttachmentStep
<1>4. CASE OpenStaging(p)        BY <1>4, OpenStagingStep
<1>5. CASE WriteByte(p)          BY <1>5, WriteByteStep
<1>6. CASE FailWrite(p)          BY <1>6, RejectStep DEF FailWrite, At, Steps
<1>7. CASE Advance(p)            BY <1>7, AdvanceStep
<1>8. CASE ReadDigest(p)         BY <1>8, ReadDigestStep
<1>9. CASE Promote(p)            BY <1>9, PromoteStep
<1>10. CASE Unlink(p)            BY <1>10, UnlinkStep
<1>11. CASE Publish(p)           BY <1>11, PublishStep
<1>. QED
  BY <1>1, <1>2, <1>3, <1>4, <1>5, <1>6, <1>7, <1>8, <1>9, <1>10, <1>11 DEF Step

LEMMA NextKeepsIInv == IInv /\ [Next]_vars => IInv'
<1>1. ASSUME IInv, Next PROVE IInv'
  <2>1. CASE Quiesce \/ Restart
    BY <1>1, <2>1, DaemonStep
  <2>2. CASE \E p \in Callers : Step(p)
    BY <1>1, <2>2, StepKeepsIInv
  <2>3. CASE \E p \in Callers : \E c \in Commands : Begin(p, c)
    BY <1>1, <2>3, BeginStep
  <2>. QED
    BY <1>1, <2>1, <2>2, <2>3 DEF Next
<1>2. ASSUME IInv, UNCHANGED vars PROVE IInv'
  BY <1>2, DaemonStep
<1>. QED
  BY <1>1, <1>2

-----------------------------------------------------------------------------
(* What holds for every client.                                             *)

\* Progress is never recorded ahead of the bytes, and a settled receipt tells
\* what was done, whatever clients send, restart after restart.
THEOREM TransferIsConsistent == Spec => []TransferInvariant
<1>1. Spec => []IInv
  BY InitIInv, NextKeepsIInv, PTL DEF Spec
<1>2. IInv => TransferInvariant
  BY DEF IInv
<1>. QED
  BY <1>1, <1>2, PTL

-----------------------------------------------------------------------------
(* What is behind an address, when strays are alone.                        *)

\* A file that was promoted is of an attachment of that address.
Origin ==
    \A k \in Keys : blob[k] # None =>
        \E a \in Attachments, n \in 1..MaxFiles :
            blob[k] = <<a, n>> /\ KeyOf[a] = k /\ n <= staging[a].number

BlobsAreRight == \A k \in Keys : blob[k] # None => content[blob[k]] = Right

\* A promoted file keeps its staging name only until the commit removes it, or
\* for good when a restart came first: then its epoch is over.
Linked ==
    \A a \in Attachments : staging[a].present /\ blob[KeyOf[a]] = StagingFile(a) =>
        /\ row[a] # None
        /\ \/ row[a].epoch < host.epoch
           \/ \E p \in Callers : call[p].step = "unlink" /\ call[p].command.attachment = a

\* A call that found its attachment uploading is of the present epoch.
Uploads(x) ==
    x.command.kind # "begin" /\ x.current.state = "uploading" =>
        row[x.command.attachment] # None /\ row[x.command.attachment].epoch = host.epoch

\* A commit whose digest was right has the content to promote.
WillPromote(x) ==
    \/ x.step = "promote"
    \/ /\ x.step = "claim" /\ x.command.kind = "commit" /\ x.current.state = "uploading"
       /\ x.prepared = "promote"

IsRight(a) == IsPromoted(a) \/ (staging[a].present /\ content[StagingFile(a)] = Right)

\* A stray is written to no file that is behind an address.
Strays(x) == x.step = "write" /\ Stray(x.command)

Careful(x) ==
    /\ Uploads(x)
    /\ WillPromote(x) => IsRight(x.command.attachment)
    /\ Strays(x) => \A k \in Keys : blob[k] # x.file

CallsCareful == \A p \in Callers : call[p] # Idle => Careful(call[p])

VInv == Origin /\ BlobsAreRight /\ Linked /\ CallsCareful

\* The files are left alone, the rows keep their epochs, one call goes on.
LEMMA QuietStep ==
  ASSUME IInv, VInv, UNCHANGED disk, host'.epoch = host.epoch,
         \A a \in Attachments : row[a] # None => row'[a] # None /\ row'[a].epoch = row[a].epoch,
         NEW p \in Callers, NEW x \in Busy \cup {Idle}, call' = [call EXCEPT ![p] = x],
         call[p].step # "unlink", x # Idle => Careful(x)'
  PROVE  VInv'
<1>1. call \in [Callers -> {Idle} \cup Busy]
  BY DEF IInv, Shapes
<1>2. Origin' /\ BlobsAreRight'
  BY DEF VInv, Origin, BlobsAreRight, disk
<1>3. Linked'
  <2>1. ASSUME NEW q \in Callers, call[q].step = "unlink" PROVE call'[q] = call[q]
    BY <1>1, <2>1
  <2>. QED
    BY <2>1 DEF VInv, Linked, StagingFile, disk
<1>4. ASSUME NEW q \in Callers, call'[q] # Idle PROVE Careful(call[q])'
  <2>1. PICK y : y = call'[q]
    OBVIOUS
  <2>2. Careful(y)'
    <3>1. CASE q = p
      BY <1>1, <1>4, <2>1, <3>1
    <3>2. CASE q # p
      <4>1. y = call[q] /\ y \in Busy /\ Careful(y)
        BY <1>1, <1>4, <2>1, <3>2 DEF VInv, CallsCareful
      <4>2. y.command.attachment \in Attachments
        BY <4>1, CallTypes, Constants
      <4>. QED
        BY <4>1, <4>2 DEF Careful, Uploads, WillPromote, IsRight, IsPromoted, StagingFile, Strays, disk
    <3>. QED
      BY <3>1, <3>2
  <2>. QED
    BY <2>1, <2>2 DEF Careful, Uploads, WillPromote, IsRight, IsPromoted, StagingFile, Strays
<1>. QED
  BY <1>2, <1>3, <1>4 DEF VInv, CallsCareful

\* A call that goes to a step other than a write or a promotion.
LEMMA QuietGoing ==
  ASSUME IInv, VInv, UNCHANGED disk, host' = host,
         \A a \in Attachments : row[a] # None => row'[a] # None /\ row'[a].epoch = row[a].epoch,
         NEW p \in Callers, call[p].step \in Steps \ {"unlink"},
         NEW s \in Steps \ {"write", "promote", "claim"}, GoTo(p, s)
  PROVE  VInv'
<1>1. PICK y \in Busy : /\ call' = [call EXCEPT ![p] = y] /\ y.step = s
                        /\ y.command = Command(p) /\ y.current = Held(p)
  BY Going
<1>2. call[p] # Idle /\ Subject(p) \in Attachments
  BY AtWork, CallTypes
<1>3. Uploads(y)'
  BY <1>1, <1>2 DEF VInv, CallsCareful, Careful, Uploads, Command, Held, Subject
<1>4. Careful(y)'
  BY <1>1, <1>3 DEF Careful, WillPromote, Strays
<1>. QED
  BY <1>1, <1>4, QuietStep

LEMMA QuietReturn ==
  ASSUME IInv, VInv, UNCHANGED disk, host' = host, UNCHANGED row,
         NEW p \in Callers, call[p].step # "unlink", Return(p)
  PROVE  VInv'
BY QuietStep DEF Return

LEMMA QuietCalls ==
  ASSUME IInv, VInv, NEW p \in Callers, Settle(p) \/ FailWrite(p) \/ ClaimAttachment(p)
  PROVE  VInv'
<1>1. CASE Settle(p)
  BY <1>1, QuietReturn DEF Settle
<1>2. CASE FailWrite(p)
  <2>1. call[p].step \in Steps \ {"unlink"}
    BY <1>2 DEF FailWrite, At, Steps
  <2>. QED
    BY <1>2, <2>1, QuietGoing DEF FailWrite, Steps
<1>3. CASE ClaimAttachment(p)
  <2>1. call[p].step = "begin" /\ call[p].step \in Steps \ {"unlink"}
    BY <1>3 DEF ClaimAttachment, At, Steps
  <2>2. CASE GoTo(p, "settle")
    <3>1. \A a \in Attachments : row[a] # None => row'[a] # None /\ row'[a].epoch = row[a].epoch
      BY <1>3 DEF ClaimAttachment, IInv, Shapes
    <3>. QED
      BY <1>3, <2>1, <2>2, <3>1, QuietGoing DEF ClaimAttachment, Steps
  <2>3. CASE Return(p) /\ row' = row
    BY <1>3, <2>1, <2>3, QuietReturn DEF ClaimAttachment
  <2>. QED
    BY <1>3, <2>2, <2>3 DEF ClaimAttachment
<1>. QED
  BY <1>1, <1>2, <1>3

\* A row that is replaced keeps its epoch.
LEMMA QuietRows ==
  ASSUME IInv, VInv, NEW p \in Callers, Advance(p) \/ Publish(p)
  PROVE  VInv'
<1>1. call[p].step \in {"advance", "publish"} /\ call[p].step \in Steps \ {"unlink"}
  BY DEF Advance, Publish, At, Steps
<1>2. /\ Held(p) \in Row /\ Subject(p) \in Attachments
      /\ row \in [Attachments -> Row \cup {None}] /\ None \notin Row
  BY <1>1, AtWork, Constants DEF Fits, Relies, HeldFits, Held, IInv, Shapes
<1>3. \A a \in Attachments : row[a] # None => row'[a] # None /\ row'[a].epoch = row[a].epoch
  <2>1. CASE row' = row
    BY <2>1
  <2>2. ASSUME NEW next,
               \/ next = [Held(p) EXCEPT !.state = "available"]
               \/ call[p].step = "advance" /\ next = [Held(p) EXCEPT !.received = End(p)],
               row[Subject(p)] = Held(p), row' = [row EXCEPT ![Subject(p)] = next]
        PROVE  \A a \in Attachments : row[a] # None => row'[a] # None /\ row'[a].epoch = row[a].epoch
    <3>1. next.epoch = Held(p).epoch
      BY <1>2, <2>2 DEF Row
    <3>2. next # None
      <4>1. CASE next = [Held(p) EXCEPT !.state = "available"]
        BY <1>2, <4>1, Constants DEF Row
      <4>2. CASE next = [Held(p) EXCEPT !.received = End(p)] /\ call[p].step = "advance"
        <5>1. End(p) \in 0..Length
          BY <1>1, <1>2, <4>2, AtWork, Constants DEF Fits, Relies, EndOf, End, Command, Held, Row
        <5>. QED
          BY <1>2, <4>2, <5>1, Constants DEF Row
      <4>. QED
        BY <2>2, <4>1, <4>2
    <3>. QED
      BY <1>2, <2>2, <3>1, <3>2
  <2>3. CASE Advance(p)
    BY <2>1, <2>2, <2>3 DEF Advance, Replaced, At
  <2>4. CASE Publish(p)
    BY <2>1, <2>2, <2>4 DEF Publish, Replaced
  <2>. QED
    BY <2>3, <2>4
<1>4. GoTo(p, "settle") \/ GoTo(p, "reject")
  BY DEF Advance, Publish, Replaced
<1>. QED
  BY <1>1, <1>3, <1>4, QuietGoing DEF Advance, Publish, Steps

LEMMA QuietClaims ==
  ASSUME IInv, VInv, NEW p \in Callers, Claim(p)
  PROVE  VInv'
<1>1. call[p].step = "claim" /\ call[p].step \in Steps \ {"unlink"}
  BY DEF Claim, At, Steps
<1>2. CASE Return(p)
  BY <1>1, <1>2, QuietReturn DEF Claim
<1>3. ASSUME ~Return(p) PROVE VInv'
  <2>1. PICK s : s = IF Held(p) # None /\ Held(p).state = "available" THEN "reject"
                     ELSE IF Command(p).kind = "commit" THEN call[p].prepared
                     ELSE Command(p).kind
    OBVIOUS
  <2>2. GoTo(p, s) /\ UNCHANGED <<host, row, disk>>
    BY <1>3, <2>1 DEF Claim
  <2>3. /\ call[p] \in Busy /\ Relies(call[p]) /\ Command(p) \in Commands /\ call[p] # Idle
        /\ Careful(call[p])
    BY <1>1, AtWork, CallTypes DEF Fits, VInv, CallsCareful
  <2>4. Command(p).kind = "commit" /\ s # "reject"
        => Held(p).state = "uploading" /\ call[p].prepared = s /\ s = "promote"
    <3>1. Command(p).kind = "commit" => Held(p) \in Row
      BY <2>3 DEF Relies, HeldFits, Command, Held
    <3>2. Command(p).kind = "commit" /\ Held(p).state = "uploading" => call[p] \in Decided
      BY <1>1, <2>3 DEF Relies, Command, Held
    <3>. QED
      BY <2>1, <3>1, <3>2, Constants DEF Row, Decided
  <2>5. CASE s = "promote" /\ Command(p).kind = "commit"
    <3>1. PICK y \in Busy : /\ call' = [call EXCEPT ![p] = y] /\ y.step = s
                            /\ y.command = Command(p) /\ y.current = Held(p)
      BY <1>1, <2>2, <2>5, Going DEF Steps
    <3>2. IsRight(Subject(p)) /\ Uploads(call[p])
      BY <1>1, <2>3, <2>4, <2>5 DEF Careful, WillPromote, Command, Held, Subject
    <3>3. Uploads(y)' /\ IsRight(y.command.attachment)'
      BY <2>2, <3>1, <3>2
         DEF Uploads, IsRight, IsPromoted, StagingFile, Command, Held, Subject, disk
    <3>4. Careful(y)'
      BY <2>5, <3>1, <3>3 DEF Careful, Strays
    <3>. QED
      BY <1>1, <2>2, <3>1, <3>4, QuietStep
  <2>6. CASE s \in {"begin", "append", "reject"}
    BY <1>1, <2>2, <2>6, QuietGoing DEF Steps
  <2>. QED
    BY <2>1, <2>3, <2>4, <2>5, <2>6, Constants
<1>. QED
  BY <1>2, <1>3

LEMMA QuietReads ==
  ASSUME IInv, VInv, NEW p \in Callers, ReadDigest(p)
  PROVE  VInv'
<1>1. call[p].step = "digest" /\ call[p].step \in Steps
  BY DEF ReadDigest, At, Steps
<1>2. PICK a \in Attachments : a = Subject(p)
  BY <1>1, AtWork
<1>3. /\ call[p] \in Busy /\ call[p] # Idle /\ Careful(call[p]) /\ KeyOf[a] \in Keys
      /\ Held(p) \in Row /\ Command(p) \in Commands /\ call[p].epoch \in 1..MaxEpoch
  BY <1>1, <1>2, AtWork, CallTypes DEF Fits, Relies, HeldFits, Held, VInv, CallsCareful
<1>4. PICK file : file = IF staging[a].present THEN StagingFile(a) ELSE blob[KeyOf[a]]
  OBVIOUS
<1>5. PICK prepared : prepared = IF file = None THEN "reject" ELSE Prepared(p, content[file])
  OBVIOUS
<1>6. prepared \in {"promote", "reject"} /\ (prepared = "promote" => IsRight(a))
  BY <1>4, <1>5 DEF Prepared, IsRight, IsPromoted
<1>7. PICK y : y = [step |-> "claim", command |-> Command(p), current |-> Held(p),
                    epoch |-> call[p].epoch, prepared |-> prepared]
  OBVIOUS
<1>8. call' = [call EXCEPT ![p] = y] /\ UNCHANGED <<host, row, disk>>
  BY <1>2, <1>4, <1>5, <1>7 DEF ReadDigest, IInv, Shapes
<1>9. y \in Busy
  BY <1>3, <1>6, <1>7 DEF Busy, Decided, Steps
<1>10. Uploads(y)' /\ (WillPromote(y) => IsRight(a)')
  BY <1>3, <1>6, <1>7, <1>8
     DEF Careful, Uploads, WillPromote, IsRight, IsPromoted, StagingFile, Command, Held, Subject, disk
<1>11. Careful(y)'
  BY <1>2, <1>7, <1>10 DEF Careful, Strays, WillPromote, IsRight, IsPromoted, StagingFile, Subject, Command
<1>. QED
  BY <1>1, <1>8, <1>9, <1>11, QuietStep

LEMMA QuietBegins ==
  ASSUME IInv, VInv, NEW p \in Callers, NEW c \in Commands, Begin(p, c)
  PROVE  VInv'
<1>1. PICK a \in Attachments : a = c.attachment
  BY Constants
<1>2. call[p].step # "unlink" /\ UNCHANGED <<host, row, disk>>
  BY DEF Begin, Idle
<1>3. host.epoch \in 1..MaxEpoch
  BY DEF IInv, TransferInvariant, TypeOK
<1>4. CASE c.kind = "begin"
  <2>1. PICK y : y = [step |-> "claim", command |-> c, current |-> None, epoch |-> host.epoch]
    OBVIOUS
  <2>2. y \in Busy /\ call' = [call EXCEPT ![p] = y]
    BY <1>3, <1>4, <2>1 DEF Begin, Busy, Plain, Steps
  <2>3. Careful(y)'
    BY <1>4, <2>1 DEF Careful, Uploads, WillPromote, Strays
  <2>. QED
    BY <1>2, <2>2, <2>3, QuietStep
<1>5. CASE c.kind # "begin"
  <2>1. row[a] \in Row /\ (row[a].state = "available" \/ Open(row[a].epoch))
    BY <1>1, <1>5 DEF Begin, IInv, Shapes
  <2>2. PICK y : y = [step |-> IF c.kind = "commit" /\ row[a].state = "uploading"
                               THEN "digest" ELSE "claim",
                      command |-> c, current |-> row[a], epoch |-> row[a].epoch]
    OBVIOUS
  <2>3. y \in Busy /\ call' = [call EXCEPT ![p] = y]
    BY <1>1, <1>5, <2>1, <2>2 DEF Begin, Busy, Plain, Steps, Row
  <2>4. row[a] # None /\ (row[a].state = "uploading" => row[a].epoch = host.epoch)
    BY <2>1, Constants DEF Open
  <2>5. Uploads(y)'
    BY <1>1, <1>2, <2>2, <2>4 DEF Uploads
  <2>6. Careful(y)'
    BY <2>2, <2>5 DEF Careful, WillPromote, Strays
  <2>. QED
    BY <1>2, <2>3, <2>6, QuietStep
<1>. QED
  BY <1>4, <1>5

\* One call goes on, the others stay careful.
LEMMA OthersCareful ==
  ASSUME IInv, VInv, UNCHANGED <<host, row>>,
         NEW p \in Callers, NEW x \in Busy \cup {Idle}, call' = [call EXCEPT ![p] = x],
         x # Idle => Careful(x)',
         \A q \in Callers, y \in Busy : q # p /\ y = call[q] =>
             /\ WillPromote(y) => IsRight(y.command.attachment)'
             /\ Strays(y) => \A k \in Keys : blob'[k] # y.file
  PROVE  CallsCareful'
<1>1. call \in [Callers -> {Idle} \cup Busy]
  BY DEF IInv, Shapes
<1>2. ASSUME NEW q \in Callers, call'[q] # Idle PROVE Careful(call[q])'
  <2>1. PICK y : y = call'[q]
    OBVIOUS
  <2>2. Careful(y)'
    <3>1. CASE q = p
      BY <1>1, <1>2, <2>1, <3>1
    <3>2. CASE q # p
      <4>1. y = call[q] /\ y \in Busy /\ Careful(y)
        BY <1>1, <1>2, <2>1, <3>2 DEF VInv, CallsCareful
      <4>2. Uploads(y)'
        BY <4>1 DEF Careful, Uploads
      <4>3. WillPromote(y) => IsRight(y.command.attachment)'
        BY <3>2, <4>1
      <4>4. Strays(y) => \A k \in Keys : blob'[k] # y.file
        BY <3>2, <4>1
      <4>. QED
        BY <4>2, <4>3, <4>4 DEF Careful, WillPromote, Strays
    <3>. QED
      BY <3>1, <3>2
  <2>. QED
    BY <2>1, <2>2 DEF Careful, Uploads, WillPromote, IsRight, IsPromoted, StagingFile, Strays
<1>. QED
  BY <1>2 DEF CallsCareful

\* A file that is behind an address is not opened for a stray: the attachment
\* would be promoted already, by a call that is still at work on it.
LEMMA OpenStagingCareful ==
  ASSUME IInv, VInv, StraysAlone', NEW p \in Callers, OpenStaging(p)
  PROVE  VInv'
<1>1. call[p].step = "append" /\ call[p].step \in Steps \ {"unlink"}
  BY DEF OpenStaging, At, Steps
<1>2. PICK a \in Attachments, c \in Commands : a = Subject(p) /\ c = Command(p)
  BY <1>1, AtWork
<1>3. /\ c.attachment = a /\ c.kind = "append" /\ Held(p).state = "uploading"
      /\ staging[a] \in Stage /\ Careful(call[p])
  BY <1>1, <1>2, AtWork, CallTypes
  DEF Fits, Relies, Command, Subject, Held, IInv, Shapes, VInv, CallsCareful
<1>4. row[a] # None /\ row[a].epoch = host.epoch
  BY <1>2, <1>3 DEF Careful, Uploads, Command, Subject, Held
<1>5. CASE ~InOrder(p)
  BY <1>1, <1>5, QuietGoing DEF OpenStaging, disk, Steps
<1>6. CASE InOrder(p)
  <2>1. PICK opened \in Stage, y \in Busy, file \in Files :
             StagingOpened(p, a, c, opened, y, file)
    BY <1>2, <1>6, Opening
  <2>2. UNCHANGED <<host, row, receipt, blob, content, faults>>
    BY <1>2, <1>6 DEF OpenStaging
  <2>3. staging'[a] = opened /\ StagingFile(a)' = file /\ opened.number >= staging[a].number
        /\ (staging[a].present => opened = staging[a] /\ file = StagingFile(a))
        /\ (~staging[a].present => opened.number > staging[a].number)
        /\ \A b \in Attachments : b # a => staging'[b] = staging[b]
    BY <1>3, <2>1, Constants DEF StagingOpened, StagingFile, IInv, Shapes, Stage
  <2>4. ASSUME NEW k \in Keys, blob[k] = file
        PROVE  KeyOf[a] = k /\ staging[a].present
    <3>1. PICK b \in Attachments, n \in 1..MaxFiles :
              blob[k] = <<b, n>> /\ KeyOf[b] = k /\ n <= staging[b].number
      BY <2>4, Constants DEF VInv, Origin
    <3>2. b = a /\ n = opened.number
      BY <2>1, <2>4, <3>1 DEF StagingOpened
    <3>. QED
      BY <1>3, <2>1, <2>3, <3>1, <3>2, Constants DEF StagingOpened, Stage
  <2>5. Origin'
    <3>1. \A b \in Attachments : staging'[b].number >= staging[b].number
          /\ staging[b].number \in Nat /\ staging'[b].number \in Nat
      BY <2>1, <2>3, Constants DEF StagingOpened, IInv, Shapes, Stage
    <3>2. ASSUME NEW k \in Keys, blob'[k] # None
          PROVE  \E b \in Attachments, n \in 1..MaxFiles :
                     blob'[k] = <<b, n>> /\ KeyOf[b] = k /\ n <= staging'[b].number
      <4>1. PICK b \in Attachments, n \in 1..MaxFiles :
                blob[k] = <<b, n>> /\ KeyOf[b] = k /\ n <= staging[b].number
        BY <2>2, <3>2 DEF VInv, Origin
      <4>2. n <= staging'[b].number
        BY <3>1, <4>1
      <4>. QED
        BY <2>2, <4>1, <4>2
    <3>. QED
      BY <3>2 DEF Origin
  <2>6. BlobsAreRight'
    BY <2>2 DEF VInv, BlobsAreRight
  <2>7. \A q \in Callers : call[q].step = "unlink" => q # p /\ call'[q] = call[q]
    BY <1>1, <2>1 DEF StagingOpened, IInv, Shapes
  <2>8. Linked'
    <3>. SUFFICES ASSUME NEW b \in Attachments, staging'[b].present,
                         blob'[KeyOf[b]] = StagingFile(b)'
                  PROVE  /\ row'[b] # None
                         /\ \/ row'[b].epoch < host'.epoch
                            \/ \E q \in Callers : call'[q].step = "unlink"
                                                  /\ call'[q].command.attachment = b
      BY DEF Linked
    <3>1. staging[b].present /\ blob[KeyOf[b]] = StagingFile(b)
      <4>1. CASE b = a
        <5>1. KeyOf[a] \in Keys /\ blob[KeyOf[a]] = file
          BY <2>2, <2>3, <4>1, Constants
        <5>. QED
          BY <2>3, <2>4, <4>1, <5>1
      <4>2. CASE b # a
        BY <2>2, <2>3, <4>2 DEF StagingFile
      <4>. QED
        BY <4>1, <4>2
    <3>. QED
      BY <2>2, <2>7, <3>1 DEF VInv, Linked
  <2>9. Strays(y) => \A k \in Keys : blob'[k] # file
    <3>. SUFFICES ASSUME Strays(y), NEW k \in Keys, blob[k] = file PROVE FALSE
      BY <2>2
    <3>1. KeyOf[a] = k /\ staging[a].present /\ file = StagingFile(a)
      BY <2>3, <2>4
    <3>2. PICK q \in Callers : call[q].step = "unlink" /\ call[q].command.attachment = a
      BY <1>4, <3>1 DEF VInv, Linked, IInv, TransferInvariant, TypeOK
    <3>3. q # p /\ call'[q] = call[q] /\ call'[q] # Idle
      BY <2>7, <3>2 DEF Idle
    <3>4. call'[p] = y
      BY <2>1 DEF StagingOpened, IInv, Shapes
    <3>. QED
      BY <1>3, <2>1, <3>2, <3>3, <3>4 DEF StagingOpened, StraysAlone, Strays, At, Command, Subject
  <2>10. Careful(y)'
    BY <1>2, <1>3, <1>4, <2>1, <2>2, <2>9
    DEF StagingOpened, Careful, Uploads, WillPromote, Strays, Command, Held, Subject
  <2>11. ASSUME NEW q \in Callers, NEW z \in Busy, q # p, z = call[q]
         PROVE  /\ WillPromote(z) => IsRight(z.command.attachment)'
                /\ Strays(z) => \A k \in Keys : blob'[k] # z.file
    <3>1. Careful(z) /\ z.command.attachment \in Attachments
      BY <2>11, CallTypes, Constants DEF VInv, CallsCareful
    <3>. QED
      BY <2>2, <2>3, <3>1 DEF Careful, IsRight, IsPromoted, StagingFile
  <2>12. CallsCareful'
    BY <2>1, <2>2, <2>10, <2>11, OthersCareful DEF StagingOpened
  <2>. QED
    BY <2>5, <2>6, <2>8, <2>12 DEF VInv
<1>. QED
  BY <1>5, <1>6

\* As many right bytes as the content has are the content.
LEMMA WholeIsRight ==
  ASSUME NEW bytes \in Seq(Byte), Len(bytes) = Length,
         \A i \in 1..Len(bytes) : bytes[i] = "right"
  PROVE  bytes = Right
<1>1. bytes = [i \in 1..Len(bytes) |-> bytes[i]]
  BY LenProperties
<1>. QED
  BY <1>1 DEF Right

\* A stray goes to no file that is promoted or will be; another byte is what
\* the content has at its place.
LEMMA WriteByteCareful ==
  ASSUME IInv, VInv, StraysAlone, NEW p \in Callers, WriteByte(p)
  PROVE  VInv'
<1>1. call[p].step = "write" /\ call[p].step \in Steps
  BY DEF WriteByte, At, Steps
<1>2. PICK a \in Attachments, c \in Commands : a = Subject(p) /\ c = Command(p)
  BY <1>1, AtWork
<1>3. /\ c.attachment = a /\ c.kind = "append" /\ Careful(call[p]) /\ call[p].command = c
      /\ EndOf(c) \in Held(p).received..Length /\ Held(p) \in Row
  BY <1>1, <1>2, AtWork, CallTypes
  DEF Fits, Relies, HeldFits, Command, Subject, Held, VInv, CallsCareful
<1>4. c.offset \in Nat /\ Len(c.bytes) \in Nat /\ EndOf(c) = c.offset + Len(c.bytes)
  BY <1>3, Constants DEF EndOf
<1>5. PICK y \in Writing, file \in Files, w \in Seq(Byte), written \in Nat, position \in Nat :
             ByteWritten(p, a, c, y, file, w, written, position)
  BY <1>2, Writes
<1>6. UNCHANGED <<host, row, receipt, staging, blob, faults>>
  BY DEF WriteByte
<1>7. content'[file] = w /\ \A f \in Files : f # file => content'[f] = content[f]
  BY <1>5 DEF ByteWritten, IInv, Shapes
<1>8. ASSUME ~Stray(c), content[file] = Right PROVE w = Right
  <2>1. c.bytes[written + 1] = "right"
    <3>1. written + 1 \in 1..Len(c.bytes)
      BY <1>4, <1>5 DEF ByteWritten
    <3>2. c.bytes[written + 1] \in Byte
      BY <1>3, <3>1, Constants, ElementOfSeq
    <3>. QED
      BY <1>3, <1>8, <3>1, <3>2 DEF Stray, Byte
  <2>2. Len(content[file]) = Length
    BY <1>8, Constants DEF Right
  <2>3. position <= Length
    BY <1>3, <1>4, <1>5, Constants DEF ByteWritten, Row
  <2>4. Len(w) = Length
    BY <1>5, <2>2, <2>3, Constants DEF ByteWritten
  <2>5. \A i \in 1..Len(w) : w[i] = "right"
    BY <1>5, <1>8, <2>1, <2>2 DEF ByteWritten, Right
  <2>. QED
    BY <2>4, <2>5, WholeIsRight
<1>9. ASSUME NEW f \in Files, content[f] = Right, f # file \/ ~Stray(c)
      PROVE  content'[f] = Right
  BY <1>7, <1>8, <1>9
<1>10. ASSUME Stray(c), NEW k \in Keys PROVE blob[k] # file
  BY <1>1, <1>3, <1>5, <1>10 DEF ByteWritten, Careful, Strays
<1>11. BlobsAreRight'
  <2>. SUFFICES ASSUME NEW k \in Keys, blob[k] # None PROVE content'[blob[k]] = Right
    BY <1>6 DEF BlobsAreRight
  <2>1. blob[k] \in Files /\ content[blob[k]] = Right
    BY DEF IInv, TransferInvariant, TypeOK, VInv, BlobsAreRight
  <2>. QED
    BY <1>9, <1>10, <2>1
<1>12. Origin'
  BY <1>6 DEF VInv, Origin
<1>13. Linked'
  <2>1. \A q \in Callers : call[q].step = "unlink" => call'[q] = call[q]
    BY <1>1, <1>5 DEF ByteWritten, IInv, Shapes
  <2>. QED
    BY <1>6, <2>1 DEF VInv, Linked, StagingFile
<1>14. Careful(y)'
  BY <1>1, <1>2, <1>3, <1>5, <1>6, <1>10
  DEF ByteWritten, Careful, Uploads, WillPromote, Strays, Command, Held
<1>15. ASSUME NEW q \in Callers, NEW z \in Busy, q # p, z = call[q]
       PROVE  /\ WillPromote(z) => IsRight(z.command.attachment)'
              /\ Strays(z) => \A k \in Keys : blob'[k] # z.file
  <2>1. PICK b \in Attachments : b = z.command.attachment
    BY CallTypes, Constants
  <2>2. Careful(z) /\ call[q] # Idle
    BY <1>15, CallTypes DEF VInv, CallsCareful
  <2>3. WillPromote(z) => IsRight(b)'
    <3>. SUFFICES ASSUME IsRight(b) PROVE IsRight(b)'
      BY <2>1, <2>2 DEF Careful
    <3>1. CASE IsPromoted(b)
      BY <1>6, <3>1 DEF IsRight, IsPromoted
    <3>2. CASE staging[b].present /\ content[StagingFile(b)] = Right
      <4>1. PICK f \in Files : f = StagingFile(b)
        BY <3>2, StagedIsFile DEF IInv
      <4>2. Stray(c) => b # a
        BY <1>1, <1>2, <1>15, <2>1, <2>2 DEF StraysAlone, At, Command, Subject
      <4>3. f[1] = b
        BY <4>1 DEF StagingFile
      <4>4. content'[f] = Right
        BY <1>5, <1>9, <3>2, <4>1, <4>2, <4>3 DEF ByteWritten
      <4>. QED
        BY <1>6, <3>2, <4>1, <4>4 DEF IsRight, StagingFile
    <3>. QED
      BY <3>1, <3>2 DEF IsRight
  <2>. QED
    BY <1>6, <2>1, <2>2, <2>3 DEF Careful, IsRight, IsPromoted, StagingFile
<1>16. CallsCareful'
  BY <1>5, <1>6, <1>14, <1>15, OthersCareful DEF ByteWritten, Busy
<1>. QED
  BY <1>11, <1>12, <1>13, <1>16 DEF VInv

\* A staging file that is promoted has the content: its digest was right, and
\* no stray was written since.
LEMMA PromoteCareful ==
  ASSUME IInv, VInv, StraysAlone, NEW p \in Callers, Promote(p)
  PROVE  VInv'
<1>1. call[p].step = "promote" /\ call[p].step \in Steps \ {"unlink"}
  BY DEF Promote, At, Steps
<1>2. PICK a \in Attachments, c \in Commands : a = Subject(p) /\ c = Command(p)
  BY <1>1, AtWork
<1>3. /\ c.attachment = a /\ c.kind = "commit" /\ Careful(call[p]) /\ KeyOf[a] \in Keys
      /\ row[a] # None /\ call[p] # Idle
  BY <1>1, <1>2, AtWork, CallTypes, Constants
  DEF Fits, Relies, HeldFits, Command, Subject, VInv, CallsCareful
<1>4. UNCHANGED <<host, row, receipt, staging, content, faults>>
  BY DEF Promote
<1>5. CASE blob' = blob
  <2>1. PICK s \in {"reject", "unlink", "publish"} : GoTo(p, s)
    BY <1>2 DEF Promote
  <2>. QED
    BY <1>1, <1>4, <1>5, <2>1, QuietGoing DEF disk, Steps
<1>6. CASE blob' # blob
  <2>1. /\ GoTo(p, "unlink") /\ blob' = [blob EXCEPT ![KeyOf[a]] = StagingFile(a)]
        /\ staging[a].present /\ ~IsPromoted(a)
    BY <1>2, <1>6 DEF Promote, IsPromoted
  <2>2. PICK file \in Files : file = StagingFile(a) /\ file[1] = a
    BY <2>1, StagedIsFile DEF IInv, StagingFile
  <2>3. content[file] = Right
    BY <1>1, <1>2, <1>3, <2>1, <2>2 DEF Careful, WillPromote, IsRight, Subject, Command
  <2>4. blob'[KeyOf[a]] = file /\ \A k \in Keys : k # KeyOf[a] => blob'[k] = blob[k]
    BY <1>3, <2>1, <2>2 DEF IInv, TransferInvariant, TypeOK
  <2>5. PICK y \in Busy : /\ call' = [call EXCEPT ![p] = y] /\ y.step = "unlink"
                          /\ y.command = c /\ y.current = Held(p)
    BY <1>1, <1>2, <2>1, Going DEF Steps
  <2>6. Origin'
    <3>1. ASSUME NEW k \in Keys, blob'[k] # None
          PROVE  \E b \in Attachments, n \in 1..MaxFiles :
                     blob'[k] = <<b, n>> /\ KeyOf[b] = k /\ n <= staging[b].number
      <4>1. CASE k = KeyOf[a]
        <5>1. PICK n : n = staging[a].number
          OBVIOUS
        <5>2. n \in 1..MaxFiles /\ n <= staging[a].number /\ blob'[k] = <<a, n>>
          BY <2>1, <2>2, <2>4, <4>1, <5>1, Constants DEF StagingFile, IInv, Shapes, Stage
        <5>. QED
          BY <4>1, <5>2
      <4>2. CASE k # KeyOf[a]
        BY <2>4, <3>1, <4>2 DEF VInv, Origin
      <4>. QED
        BY <4>1, <4>2
    <3>. QED
      BY <1>4, <3>1 DEF Origin
  <2>7. BlobsAreRight'
    BY <1>4, <2>3, <2>4 DEF VInv, BlobsAreRight
  <2>8. \A q \in Callers : call[q].step = "unlink" => call'[q] = call[q]
    BY <1>1, <2>5 DEF IInv, Shapes
  <2>9. Linked'
    <3>. SUFFICES ASSUME NEW b \in Attachments, staging[b].present,
                         blob'[KeyOf[b]] = StagingFile(b)
                  PROVE  /\ row[b] # None
                         /\ \/ row[b].epoch < host.epoch
                            \/ \E q \in Callers : call'[q].step = "unlink"
                                                  /\ call'[q].command.attachment = b
      BY <1>4 DEF Linked, StagingFile
    <3>1. CASE b = a
      <4>1. call'[p] = y
        BY <2>5 DEF IInv, Shapes
      <4>. QED
        BY <1>3, <2>5, <3>1, <4>1
    <3>2. CASE b # a
      <4>1. KeyOf[b] # KeyOf[a]
        BY <2>2, <2>4, <3>2 DEF StagingFile
      <4>2. blob[KeyOf[b]] = StagingFile(b)
        BY <2>4, <4>1, Constants
      <4>. QED
        BY <2>8, <4>2 DEF VInv, Linked
    <3>. QED
      BY <3>1, <3>2
  <2>10. Careful(y)'
    BY <1>2, <1>3, <1>4, <2>5
    DEF Careful, Uploads, WillPromote, Strays, Command, Held
  <2>11. ASSUME NEW q \in Callers, NEW z \in Busy, q # p, z = call[q]
         PROVE  /\ WillPromote(z) => IsRight(z.command.attachment)'
                /\ Strays(z) => \A k \in Keys : blob'[k] # z.file
    <3>1. PICK b \in Attachments : b = z.command.attachment
      BY CallTypes, Constants
    <3>2. Careful(z) /\ call[q] # Idle /\ Fits(z)
      BY <2>11, CallTypes DEF VInv, CallsCareful, IInv, CallsFit
    <3>3. WillPromote(z) => IsRight(b)'
      <4>1. IsPromoted(b) => IsPromoted(b)'
        BY <2>1, <2>4, Constants DEF IsPromoted
      <4>. QED
        BY <1>4, <3>1, <3>2, <4>1 DEF Careful, IsRight, StagingFile
    <3>4. ASSUME Strays(z), NEW k \in Keys PROVE blob'[k] # z.file
      <4>1. z.file[1] = b
        BY <3>1, <3>2, <3>4 DEF Strays, Fits, Relies, WriteFits
      <4>2. b # a
        BY <1>2, <1>3, <2>11, <3>1, <3>4 DEF Strays, StraysAlone, At, Command, Subject
      <4>. QED
        BY <2>2, <2>4, <3>2, <3>4, <4>1, <4>2 DEF Careful
    <3>. QED
      BY <3>1, <3>3, <3>4 DEF IsRight, IsPromoted, StagingFile
  <2>12. CallsCareful'
    BY <1>4, <2>5, <2>10, <2>11, OthersCareful
  <2>. QED
    BY <2>6, <2>7, <2>9, <2>12 DEF VInv
<1>. QED
  BY <1>5, <1>6

\* The commit removes the staging name of a file that is promoted.
LEMMA UnlinkCareful ==
  ASSUME IInv, VInv, NEW p \in Callers, Unlink(p)
  PROVE  VInv'
<1>1. call[p].step = "unlink" /\ call[p].step \in Steps
  BY DEF Unlink, At, Steps
<1>2. PICK a \in Attachments, c \in Commands : a = Subject(p) /\ c = Command(p)
  BY <1>1, AtWork
<1>3. c.attachment = a /\ IsPromoted(a) /\ Careful(call[p]) /\ staging[a] \in Stage
  BY <1>1, <1>2, AtWork, CallTypes
  DEF Fits, Relies, Command, Subject, VInv, CallsCareful, IInv, Shapes
<1>4. UNCHANGED <<host, row, receipt, blob, content, faults>>
      /\ staging' = [staging EXCEPT ![a].present = FALSE]
  BY <1>2 DEF Unlink
<1>5. /\ \A b \in Attachments : staging'[b].number = staging[b].number
      /\ \A b \in Attachments : b # a => staging'[b] = staging[b]
      /\ staging'[a].present = FALSE
  BY <1>3, <1>4 DEF IInv, Shapes, Stage
<1>6. PICK s \in {"publish", "reject"} : GoTo(p, s)
  BY <1>2 DEF Unlink
<1>7. PICK y \in Busy : /\ call' = [call EXCEPT ![p] = y] /\ y.step = s
                        /\ y.command = c /\ y.current = Held(p)
  BY <1>1, <1>2, <1>6, Going DEF Steps
<1>8. Origin' /\ BlobsAreRight'
  BY <1>4, <1>5 DEF VInv, Origin, BlobsAreRight
<1>9. Linked'
  <2>1. \A q \in Callers : q # p => call'[q] = call[q]
    BY <1>7 DEF IInv, Shapes
  <2>. QED
    BY <1>2, <1>4, <1>5, <2>1 DEF VInv, Linked, StagingFile, Subject, Command
<1>10. Careful(y)'
  BY <1>2, <1>3, <1>4, <1>7 DEF Careful, Uploads, WillPromote, Strays, Command, Held
<1>11. ASSUME NEW q \in Callers, NEW z \in Busy, q # p, z = call[q]
       PROVE  /\ WillPromote(z) => IsRight(z.command.attachment)'
              /\ Strays(z) => \A k \in Keys : blob'[k] # z.file
  <2>1. Careful(z) /\ z.command.attachment \in Attachments
    BY <1>11, CallTypes, Constants DEF VInv, CallsCareful
  <2>. QED
    BY <1>3, <1>4, <1>5, <2>1 DEF Careful, IsRight, IsPromoted, StagingFile
<1>12. CallsCareful'
  BY <1>4, <1>7, <1>10, <1>11, OthersCareful
<1>. QED
  BY <1>8, <1>9, <1>12 DEF VInv

\* A restart ends every call, and its epoch is a later one.
LEMMA DaemonCareful ==
  ASSUME IInv, VInv, Quiesce \/ Restart \/ UNCHANGED vars
  PROVE  VInv'
<1>1. UNCHANGED <<row, disk>>
  BY DEF Quiesce, Restart, vars, disk
<1>2. Origin' /\ BlobsAreRight'
  BY <1>1 DEF VInv, Origin, BlobsAreRight, disk
<1>3. CASE Restart
  <2>1. Linked'
    <3>1. ASSUME NEW a \in Attachments, row[a] # None PROVE row[a].epoch < host'.epoch
      <4>1. row[a].epoch \in Nat /\ host.epoch \in Nat /\ row[a].epoch <= host.epoch
        BY <3>1, Constants DEF IInv, TransferInvariant, TypeOK, Row
      <4>. QED
        BY <1>3, <4>1 DEF Restart
    <3>. QED
      BY <1>1, <3>1 DEF VInv, Linked, StagingFile, disk
  <2>2. CallsCareful'
    BY <1>3 DEF Restart, CallsCareful
  <2>. QED
    BY <1>2, <2>1, <2>2 DEF VInv
<1>4. CASE Quiesce \/ UNCHANGED vars
  <2>1. host'.epoch = host.epoch /\ call' = call
    BY <1>4 DEF Quiesce, vars, IInv, TransferInvariant, TypeOK
  <2>2. Linked'
    BY <1>1, <2>1 DEF VInv, Linked, StagingFile, disk
  <2>3. ASSUME NEW q \in Callers, call'[q] # Idle PROVE Careful(call[q])'
    <3>1. Careful(call[q])
      BY <2>1, <2>3 DEF VInv, CallsCareful
    <3>. QED
      BY <1>1, <2>1, <3>1
      DEF Careful, Uploads, WillPromote, IsRight, IsPromoted, StagingFile, Strays, disk
  <2>. QED
    BY <1>2, <2>2, <2>3 DEF VInv, CallsCareful
<1>. QED
  BY <1>3, <1>4

LEMMA InitVInv == Init => VInv
BY DEF Init, VInv, Origin, BlobsAreRight, Linked, CallsCareful

LEMMA NextKeepsVInv ==
  IInv /\ VInv /\ StraysAlone /\ StraysAlone' /\ [Next]_vars => VInv'
<1>. SUFFICES ASSUME IInv, VInv, StraysAlone, StraysAlone', [Next]_vars PROVE VInv'
  OBVIOUS
<1>1. ASSUME NEW p \in Callers, Step(p) PROVE VInv'
  <2>1. CASE Claim(p)              BY <2>1, QuietClaims
  <2>2. CASE Settle(p) \/ FailWrite(p) \/ ClaimAttachment(p)
    BY <2>2, QuietCalls
  <2>3. CASE OpenStaging(p)        BY <2>3, OpenStagingCareful
  <2>4. CASE WriteByte(p)          BY <2>4, WriteByteCareful
  <2>5. CASE Advance(p) \/ Publish(p)
    BY <2>5, QuietRows
  <2>6. CASE ReadDigest(p)         BY <2>6, QuietReads
  <2>7. CASE Promote(p)            BY <2>7, PromoteCareful
  <2>8. CASE Unlink(p)             BY <2>8, UnlinkCareful
  <2>. QED
    BY <1>1, <2>1, <2>2, <2>3, <2>4, <2>5, <2>6, <2>7, <2>8 DEF Step
<1>2. ASSUME NEW p \in Callers, NEW c \in Commands, Begin(p, c) PROVE VInv'
  BY <1>2, QuietBegins
<1>3. CASE Quiesce \/ Restart \/ UNCHANGED vars
  BY <1>3, DaemonCareful
<1>. QED
  BY <1>1, <1>2, <1>3 DEF Next

\* When a chunk that is not of the announced content is written only while no
\* other call is at work on its attachment, what is available has its whole
\* content behind its address: the digest keeps the rest out.
THEOREM AvailableIsTheContent == Spec /\ []StraysAlone => []AvailableIsVerified
<1>1. IInv /\ VInv => AvailableIsVerified
  <2>. SUFFICES ASSUME IInv, VInv, NEW a \in Attachments, row[a] # None,
                       row[a].state = "available"
                PROVE  blob[KeyOf[a]] # None /\ content[blob[KeyOf[a]]] = Right
    BY DEF AvailableIsVerified
  <2>1. blob[KeyOf[a]] # None /\ KeyOf[a] \in Keys
    BY Constants DEF IInv, PromotedIsWhole, IsPromoted
  <2>. QED
    BY <2>1 DEF VInv, BlobsAreRight
<1>. QED
  BY <1>1, InitIInv, NextKeepsIInv, InitVInv, NextKeepsVInv, PTL DEF Spec

\* Under the same discipline the file behind an address stays that file with
\* the same content, and an available attachment stays as it is.
THEOREM AddressIsImmutable == Spec /\ []StraysAlone => PromotedIsImmutable
<1>1. ASSUME IInv, [Next]_vars, NEW k \in Keys, blob[k] # None
      PROVE  blob'[k] = blob[k]
  <2>1. ASSUME NEW p \in Callers, Promote(p) PROVE blob'[k] = blob[k]
    BY <1>1, <2>1 DEF Promote, IInv, TransferInvariant, TypeOK
  <2>2. CASE UNCHANGED blob
    BY <2>2
  <2>3. (\E p \in Callers : Promote(p)) \/ UNCHANGED blob
    BY <1>1 DEF Next, Step, Begin, Claim, Settle, ClaimAttachment, OpenStaging, WriteByte,
       FailWrite, Advance, ReadDigest, Unlink, Publish, Quiesce, Restart, disk, vars
  <2>. QED
    BY <2>1, <2>2, <2>3
<1>2. ASSUME IInv, VInv, VInv', [Next]_vars, NEW k \in Keys, blob[k] # None
      PROVE  content'[blob[k]] = content[blob[k]]
  <2>1. blob'[k] = blob[k]
    BY <1>1, <1>2
  <2>2. content[blob[k]] = Right /\ content'[blob[k]] = Right
    BY <1>2, <2>1 DEF VInv, BlobsAreRight
  <2>. QED
    BY <2>2
<1>3. ASSUME IInv, [Next]_vars, NEW a \in Attachments, row[a] # None, row[a].state = "available"
      PROVE  row'[a] = row[a]
  <2>1. ASSUME NEW p \in Callers, ClaimAttachment(p) PROVE row'[a] = row[a]
    BY <1>3, <2>1 DEF ClaimAttachment, IInv, Shapes
  <2>2. ASSUME NEW p \in Callers, Advance(p) \/ Publish(p) PROVE row'[a] = row[a]
    <3>1. call[p].step \in {"advance", "publish"} /\ call[p].step \in Steps
      BY <2>2 DEF Advance, Publish, At, Steps
    <3>2. Held(p).state = "uploading"
      BY <3>1, AtWork, <1>3 DEF Fits, Relies, Held
    <3>3. row' = row \/ (row[Subject(p)] = Held(p) /\ \E next : row' = [row EXCEPT ![Subject(p)] = next])
      BY <2>2 DEF Advance, Publish, Replaced
    <3>. QED
      BY <1>3, <3>2, <3>3 DEF IInv, Shapes
  <2>3. CASE UNCHANGED row
    BY <2>3
  <2>4. (\E p \in Callers : ClaimAttachment(p) \/ Advance(p) \/ Publish(p)) \/ UNCHANGED row
    BY <1>3 DEF Next, Step, Begin, Claim, Settle, OpenStaging, WriteByte, FailWrite, ReadDigest,
       Promote, Unlink, Quiesce, Restart, disk, vars
  <2>. QED
    BY <2>1, <2>2, <2>3, <2>4
<1>4. IInv /\ VInv /\ VInv' /\ [Next]_vars =>
         [/\ \A k \in Keys : blob[k] # None => blob'[k] = blob[k] /\ content'[blob[k]] = content[blob[k]]
          /\ \A a \in Attachments : row[a] # None /\ row[a].state = "available" => row'[a] = row[a]]_vars
  BY <1>1, <1>2, <1>3
<1>. QED
  BY <1>4, InitIInv, NextKeepsIInv, InitVInv, NextKeepsVInv, PTL DEF Spec, PromotedIsImmutable

=============================================================================
