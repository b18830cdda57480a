------------------------- MODULE MCLifecycleCadence -------------------------
(* Small instances of LifecycleCadence for TLC.                             *)
EXTENDS LifecycleCadence, TLC

CONSTANTS claude, codex, p1, p2, p3

TwoHosts == (p1 :> claude) @@ (p2 :> claude) @@ (p3 :> codex)

(* At most one of p2 and p3 is sent.                                        *)
Within == request[p2] = "none" \/ request[p3] = "none"

MCSpec == Init /\ [][Next /\ Within']_vars /\ Fairness
=============================================================================
