------------------------- MODULE AttachmentTransfer -------------------------
(***************************************************************************)
(* The upload of attachments: begin, ordered chunks into a staging file,    *)
(* digest, promotion to a content address, each call a sequence of ledger   *)
(* and file steps that run beside the calls of other connections and may be *)
(* cut by a restart of the daemon, which opens another epoch.               *)
(*                                                                         *)
(* A byte is right or wrong at its offset; the digest of an attachment is   *)
(* that of Length right bytes. A chunk is written byte after byte.          *)
(***************************************************************************)
EXTENDS Naturals, Sequences

CONSTANTS
    Attachments,
    Keys,         \* content addresses
    KeyOf,        \* the content address of each attachment
    Length,       \* bytes of an attachment
    Commands,     \* what clients send, each with a receipt of its own, see Command
    Callers,      \* connections that send
    MaxEpoch,     \* bound: restarts
    MaxFiles,     \* bound: staging files of one attachment
    MaxFaults,    \* bound: chunk writes that fail
    None

Byte == {"right", "wrong"}

ASSUME AttachmentTransferAssumption ==
    /\ Length \in Nat \ {0} /\ KeyOf \in [Attachments -> Keys]
    /\ MaxEpoch \in Nat \ {0} /\ MaxFiles \in Nat \ {0} /\ MaxFaults \in Nat
    /\ \A c \in Commands : c.kind \in {"begin", "append", "commit"} /\ c.attachment \in Attachments
    /\ \A c \in Commands : c.kind = "append" => c.offset \in Nat /\ c.bytes \in Seq(Byte)
    /\ None \notin [epoch : Nat, state : {"uploading", "available"}, received : Nat]
                  \cup [epoch : Nat, status : {"accepted", "settled", "rejected"}]
                  \cup (Attachments \X Nat)

VARIABLES
    host,      \* host_state
    row,       \* attachments: epoch, state and received bytes
    receipt,   \* the receipt of each command
    staging,   \* whether the staging file is there, and how many there were
    blob,      \* the file behind a content address, an attachment and a number
    content,   \* the bytes of each file
    call,      \* what each caller is doing
    faults

vars == <<host, row, receipt, staging, blob, content, call, faults>>
disk == <<staging, blob, content>>

Idle == [step |-> "idle"]
Files == Attachments \X (1..MaxFiles)

Init ==
    /\ host = [epoch |-> 1, mode |-> "open"]
    /\ row = [a \in Attachments |-> None]
    /\ receipt = [c \in Commands |-> None]
    /\ staging = [a \in Attachments |-> [present |-> FALSE, number |-> 0]]
    /\ blob = [k \in Keys |-> None]
    /\ content = [f \in Files |-> <<>>]
    /\ call = [p \in Callers |-> Idle]
    /\ faults = 0

Right == [i \in 1..Length |-> "right"]

(***************************************************************************)
(* A call                                                                   *)
(***************************************************************************)
At(p, step) == call[p].step = step
Command(p) == call[p].command
Subject(p) == Command(p).attachment
Held(p) == call[p].current
StagingFile(a) == <<a, staging[a].number>>

GoTo(p, step) == call' = [call EXCEPT ![p].step = step]

(* The call ends, with an answer or with an error.                          *)
Return(p) == call' = [call EXCEPT ![p] = Idle]

Open(epoch) == host = [epoch |-> epoch, mode |-> "open"]

(* begin, append and commit: what is read before the receipt.               *)
Begin(p, c) ==
    /\ call[p] = Idle
    /\ IF c.kind = "begin"
       THEN call' = [call EXCEPT ![p] = [step |-> "claim", command |-> c, current |-> None,
                                         epoch |-> host.epoch]]
       ELSE /\ row[c.attachment] # None
            /\ \/ row[c.attachment].state = "available"
               \/ Open(row[c.attachment].epoch)
            /\ call' = [call EXCEPT ![p] =
                   [step |-> IF c.kind = "commit" /\ row[c.attachment].state = "uploading"
                             THEN "digest" ELSE "claim",
                    command |-> c, current |-> row[c.attachment],
                    epoch |-> row[c.attachment].epoch]]
    /\ UNCHANGED <<host, row, receipt, disk, faults>>

(***************************************************************************)
(* Receipts                                                                 *)
(***************************************************************************)
Accepted(epoch) == [epoch |-> epoch, status |-> "accepted"]

(* The receipt is accepted, now or by a call before, and the command runs;  *)
(* a settled or rejected one is answered with the state that was read, and  *)
(* one of another epoch is refused.                                         *)
Claim(p) ==
    /\ At(p, "claim")
    /\ IF Open(call[p].epoch) /\ receipt[Command(p)] \in {None, Accepted(call[p].epoch)}
       THEN /\ receipt' = [receipt EXCEPT ![Command(p)] = Accepted(call[p].epoch)]
            /\ GoTo(p, IF Held(p) # None /\ Held(p).state = "available" THEN "reject"
                       ELSE IF Command(p).kind = "commit" THEN call[p].prepared ELSE Command(p).kind)
       ELSE Return(p) /\ UNCHANGED receipt
    /\ UNCHANGED <<host, row, disk, faults>>

(* The first settlement counts; another one is an error of its call.        *)
Settle(p) ==
    /\ call[p].step \in {"settle", "reject"}
    /\ receipt' = [receipt EXCEPT ![Command(p)].status =
           IF @ # "accepted" THEN @ ELSE IF At(p, "settle") THEN "settled" ELSE "rejected"]
    /\ Return(p)
    /\ UNCHANGED <<host, row, disk, faults>>

(***************************************************************************)
(* begin                                                                    *)
(***************************************************************************)
(* claim_attachment; its error leaves the receipt accepted.                 *)
ClaimAttachment(p) ==
    LET a == Subject(p) IN
    /\ At(p, "begin")
    /\ IF Open(call[p].epoch) /\ (row[a] = None \/ row[a].epoch = call[p].epoch)
       THEN /\ row' = [row EXCEPT ![a] =
                  IF @ = None THEN [epoch |-> call[p].epoch, state |-> "uploading", received |-> 0]
                              ELSE @]
            /\ GoTo(p, "settle")
       ELSE row' = row /\ Return(p)
    /\ UNCHANGED <<host, receipt, disk, faults>>

(***************************************************************************)
(* append                                                                   *)
(***************************************************************************)
End(p) == Command(p).offset + Len(Command(p).bytes)

(* accept_chunk, or the chunk that was just received.                       *)
InOrder(p) ==
    \/ End(p) = Held(p).received
    \/ Command(p).offset = Held(p).received /\ Command(p).bytes # <<>> /\ End(p) <= Length

(* The staging file is opened, created if it is not there, and its length   *)
(* compared: the chunk is there already, or it is next.                     *)
OpenStaging(p) ==
    LET a == Subject(p)
        opened == IF staging[a].present THEN staging[a]
                                        ELSE [present |-> TRUE, number |-> staging[a].number + 1]
        file == <<a, opened.number>>
        there == SubSeq(content[file], Command(p).offset + 1, End(p))
    IN /\ At(p, "append")
       /\ IF ~InOrder(p)
          THEN GoTo(p, "reject") /\ staging' = staging
          ELSE /\ opened.number <= MaxFiles
               /\ staging' = [staging EXCEPT ![a] = opened]
               /\ call' = [call EXCEPT ![p] =
                      IF Len(content[file]) = End(p)
                      THEN [@ EXCEPT !.step = IF there = Command(p).bytes THEN "advance" ELSE "reject"]
                      ELSE IF Len(content[file]) # Command(p).offset THEN [@ EXCEPT !.step = "reject"]
                      ELSE [step |-> "write", command |-> Command(p), current |-> Held(p),
                            epoch |-> @.epoch, file |-> file, written |-> 0]]
       /\ UNCHANGED <<host, row, receipt, blob, content, faults>>

(* Mutant of Written: the file is opened for appending.                     *)
WrittenAtEnd(bytes, position, byte) == Append(bytes, byte)

Written(bytes, position, byte) ==
    [i \in 1..(IF Len(bytes) < position THEN position ELSE Len(bytes)) |->
        IF i = position THEN byte ELSE bytes[i]]

(* Mutant of WrittenAll: a short write counts for the chunk.                *)
WrittenAny(p) == TRUE

WrittenAll(p) == call[p].written + 1 = Len(Command(p).bytes)

(* One more byte, at its offset in the file that was opened, whatever       *)
(* became of its name.                                                      *)
WriteByte(p) ==
    LET position == Command(p).offset + call[p].written + 1
        byte == Command(p).bytes[call[p].written + 1]
    IN /\ At(p, "write")
       /\ content' = [content EXCEPT ![call[p].file] = Written(@, position, byte)]
       /\ call' = [call EXCEPT ![p].written = @ + 1,
                               ![p].step = IF WrittenAll(p) THEN "advance" ELSE "write"]
       /\ UNCHANGED <<host, row, receipt, staging, blob, faults>>

FailWrite(p) ==
    /\ At(p, "write") /\ faults < MaxFaults
    /\ faults' = faults + 1
    /\ GoTo(p, "reject")
    /\ UNCHANGED <<host, row, receipt, disk>>

(* Mutant of Replaced: the row is written without a look at what it is now. *)
ReplacedAny(p, next) ==
    /\ row' = [row EXCEPT ![Subject(p)] = next]
    /\ GoTo(p, "settle")

(* replace_attachment: the row is as it was read, and the epoch still open. *)
Replaced(p, next) ==
    IF row[Subject(p)] = Held(p) /\ Open(Held(p).epoch)
    THEN row' = [row EXCEPT ![Subject(p)] = next] /\ GoTo(p, "settle")
    ELSE row' = row /\ GoTo(p, "reject")

(* A chunk that had been received already changes nothing.                  *)
Advance(p) ==
    /\ At(p, "advance")
    /\ IF End(p) = Held(p).received
       THEN GoTo(p, "settle") /\ row' = row
       ELSE Replaced(p, [Held(p) EXCEPT !.received = End(p)])
    /\ UNCHANGED <<host, receipt, disk, faults>>

(***************************************************************************)
(* commit                                                                   *)
(***************************************************************************)
(* Mutant of Prepared: the digest is not compared.                          *)
PreparedBySize(p, bytes) ==
    IF Len(bytes) = Held(p).received /\ Len(bytes) = Length THEN "promote" ELSE "reject"

Prepared(p, bytes) ==
    IF Len(bytes) = Held(p).received /\ bytes = Right THEN "promote" ELSE "reject"

(* The staging file, or the promoted one, is read at once.                  *)
ReadDigest(p) ==
    LET a == Subject(p)
        file == IF staging[a].present THEN StagingFile(a) ELSE blob[KeyOf[a]]
    IN /\ At(p, "digest")
       /\ call' = [call EXCEPT ![p] =
              [step |-> "claim", command |-> Command(p), current |-> Held(p), epoch |-> @.epoch,
               prepared |-> IF file = None THEN "reject" ELSE Prepared(p, content[file])]]
       /\ UNCHANGED <<host, row, receipt, disk, faults>>

(* commit_attachment_blob: a blob that is there is verified, the staging    *)
(* file is linked otherwise; then its old name goes.                        *)
Promote(p) ==
    LET a == Subject(p)  k == KeyOf[a] IN
    /\ At(p, "promote")
    /\ IF blob[k] # None
       THEN /\ GoTo(p, IF content[blob[k]] # Right THEN "reject"
                       ELSE IF staging[a].present THEN "unlink" ELSE "publish")
            /\ blob' = blob
       ELSE IF staging[a].present
       THEN GoTo(p, "unlink") /\ blob' = [blob EXCEPT ![k] = StagingFile(a)]
       ELSE GoTo(p, "reject") /\ blob' = blob
    /\ UNCHANGED <<host, row, receipt, staging, content, faults>>

Unlink(p) ==
    LET a == Subject(p) IN
    /\ At(p, "unlink")
    /\ staging' = [staging EXCEPT ![a].present = FALSE]
    /\ GoTo(p, IF staging[a].present THEN "publish" ELSE "reject")
    /\ UNCHANGED <<host, row, receipt, blob, content, faults>>

Publish(p) ==
    /\ At(p, "publish")
    /\ Replaced(p, [Held(p) EXCEPT !.state = "available"])
    /\ UNCHANGED <<host, receipt, disk, faults>>

(***************************************************************************)
(* The daemon                                                               *)
(***************************************************************************)
Quiesce ==
    /\ host.mode = "open"
    /\ host' = [host EXCEPT !.mode = "closed"]
    /\ UNCHANGED <<row, receipt, disk, call, faults>>

(* Every call is cut, and the next daemon fences the epoch.                 *)
Restart ==
    /\ host.epoch < MaxEpoch
    /\ host' = [epoch |-> host.epoch + 1, mode |-> "open"]
    /\ call' = [p \in Callers |-> Idle]
    /\ UNCHANGED <<row, receipt, disk, faults>>

Step(p) ==
    \/ Claim(p) \/ Settle(p) \/ ClaimAttachment(p) \/ OpenStaging(p) \/ WriteByte(p)
    \/ FailWrite(p) \/ Advance(p) \/ ReadDigest(p) \/ Promote(p) \/ Unlink(p) \/ Publish(p)

Next ==
    \/ Quiesce \/ Restart
    \/ \E p \in Callers : Step(p) \/ \E c \in Commands : Begin(p, c)

Spec == Init /\ [][Next]_vars

(***************************************************************************)
(* Properties                                                               *)
(***************************************************************************)
(* What is asked of clients that send other bytes than the content they     *)
(* announced: while such a chunk is written, no other call is at work on    *)
(* the attachment. The code does not enforce it: bytes written between the  *)
(* digest and the promotion are not verified.                               *)
Stray(c) == c.kind = "append" /\ \E i \in 1..Len(c.bytes) : c.bytes[i] = "wrong"

StraysAlone ==
    \A p, q \in Callers :
        At(p, "write") /\ Stray(Command(p)) /\ q # p /\ call[q] # Idle => Subject(q) # Subject(p)

Row == [epoch : 1..MaxEpoch, state : {"uploading", "available"}, received : 0..Length]

(* Type correctness; no attachment is of an epoch to come.                  *)
TypeOK ==
    /\ host \in [epoch : 1..MaxEpoch, mode : {"open", "closed"}]
    /\ \A a \in Attachments : row[a] # None => row[a] \in Row /\ row[a].epoch <= host.epoch
    /\ \A c \in Commands : receipt[c] # None =>
           receipt[c] \in [epoch : 1..host.epoch, status : {"accepted", "settled", "rejected"}]
    /\ blob \in [Keys -> Files \cup {None}]
    /\ \A f \in Files : content[f] \in Seq(Byte) /\ Len(content[f]) <= Length

(* An attachment that is available has its whole content behind its         *)
(* address: whatever was cut or sent twice, a turn that names it can read   *)
(* what its digest says (commit). As long as strays are alone.              *)
AvailableIsVerified ==
    \A a \in Attachments :
        row[a] # None /\ row[a].state = "available" =>
            blob[KeyOf[a]] # None /\ content[blob[KeyOf[a]]] = Right

(* What the ledger says was received is in the staging file, or was         *)
(* promoted: progress is never recorded ahead of the bytes (append).        *)
ProgressIsStaged ==
    \A a \in Attachments :
        row[a] # None /\ row[a].received > 0 =>
            \/ staging[a].present /\ Len(content[StagingFile(a)]) >= row[a].received
            \/ blob[KeyOf[a]] # None

(* A settled receipt tells what became of its command: the chunk was        *)
(* received, the attachment is available (settle_receipt).                  *)
Done(c) ==
    CASE c.kind = "begin" -> row[c.attachment] # None
      [] c.kind = "append" -> row[c.attachment].received >= c.offset + Len(c.bytes)
      [] c.kind = "commit" -> row[c.attachment].state = "available"

SettledIsDone ==
    \A c \in Commands : receipt[c] # None /\ receipt[c].status = "settled" => Done(c)

(* What holds of the ledger and of the staging files at all times: progress  *)
(* follows the bytes, and receipts follow what was done.                    *)
TransferInvariant == TypeOK /\ ProgressIsStaged /\ SettledIsDone

(* The file behind an address stays that file with the same content, and an *)
(* available attachment stays as it is, as long as strays are alone         *)
(* (commit_attachment_blob, valid_transition).                              *)
PromotedIsImmutable ==
    [][/\ \A k \in Keys : blob[k] # None => blob'[k] = blob[k] /\ content'[blob[k]] = content[blob[k]]
       /\ \A a \in Attachments : row[a] # None /\ row[a].state = "available" => row'[a] = row[a]]_vars
=============================================================================
