------------------------- MODULE MCRuntimeActivation -------------------------
(* Two small instances of RuntimeActivation that TLC explores in one run.   *)
EXTENDS RuntimeActivation, TLC

CONSTANTS d1, d2, p1, p2, o1, o2, o3, g1

R(v, t) == [version |-> v, tree |-> t]

(* Two operations of one epoch of a data directory, the second one of a     *)
(* newer release, and one of another data directory over the same store.    *)
ThreeReleases == (o1 :> R(1, 1)) @@ (o2 :> R(2, 2)) @@ (o3 :> R(2, 2)) @@ (g1 :> R(1, 1))
ThreeScopes == (o1 :> [data |-> d1, epoch |-> 2]) @@ (o2 :> [data |-> d1, epoch |-> 2])
               @@ (o3 :> [data |-> d2, epoch |-> 2])

Repairs == {0, 2}

Asked(o) == operation[o] # "none" \/ \E p \in Processes : call[p] # Idle /\ call[p].generation = o
UntrackedCalls == {p \in Processes : call[p] # Idle /\ call[p].kind = "untracked"}

(* One data directory: its epoch is overtaken, and two faults.              *)
OneDirectory ==
    /\ ~Asked(o3) /\ host[d2].epoch = 1 /\ owner[d2] = "free"
    /\ \A p \in UntrackedCalls : call[p].data = d1 /\ call[p].epoch = 0

(* Two data directories share the store; one fault.                         *)
TwoDirectories ==
    /\ ~Asked(o2) /\ faults <= 1
    /\ \A d \in Dirs : host[d].epoch <= 2

MCSpec == Init /\ [][Next /\ (OneDirectory \/ TwoDirectories)']_vars
=============================================================================
