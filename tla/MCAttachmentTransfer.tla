------------------------ MODULE MCAttachmentTransfer ------------------------
(* Three small instances of AttachmentTransfer that TLC explores in one     *)
(* run: which one is chosen at the start, and each step stays within it.    *)
EXTENDS AttachmentTransfer, TLC

CONSTANTS a1, a2, p1, p2, k1

VARIABLE instance

SameKey == (a1 :> k1) @@ (a2 :> k1)

Start(a) == [kind |-> "begin", attachment |-> a]
Chunk(a, offset, bytes) == [kind |-> "append", attachment |-> a, offset |-> offset, bytes |-> bytes]
Finish(a) == [kind |-> "commit", attachment |-> a]

(* Connections are alike.                                                   *)
Connections == Permutations({p1, p2})

R == "right"
W == "wrong"

(* Honest clients that cut the content into chunks in two ways.             *)
Honest == {Start(a1), Chunk(a1, 0, <<R>>), Chunk(a1, 1, <<R>>), Chunk(a1, 0, <<R, R>>), Finish(a1)}

(* Two attachments of the same content, without a restart.                  *)
Shared == UNION {{Start(a), Chunk(a, 0, <<R, R>>), Finish(a)} : a \in {a1, a2}}

(* Clients that send wrong bytes, out of order, and chunks that are too     *)
(* long, over a disk that may fail once; strays are alone.                  *)
Careless == {Start(a1), Chunk(a1, 0, <<R, R>>), Chunk(a1, 0, <<W>>), Chunk(a1, 1, <<R>>),
             Chunk(a1, 1, <<R, R>>), Finish(a1)}

Sent == Honest \cup Shared \cup Careless

Busy == {p \in Callers : call[p] # Idle}
Sends(commands) == \A p \in Busy : Command(p) \in commands

Within ==
    CASE instance = "honest" -> Sends(Honest) /\ faults = 0
      [] instance = "shared" -> Sends(Shared) /\ faults = 0 /\ host.epoch = 1
      [] instance = "careless" -> Sends(Careless) /\ StraysAlone

MCInit == Init /\ instance \in {"honest", "shared", "careless"}
MCNext == Next /\ UNCHANGED instance /\ Within'

MCSpec == MCInit /\ [][MCNext]_<<vars, instance>>
=============================================================================
