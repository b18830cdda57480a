--------------------------- MODULE MCRuntimeUpdate ---------------------------
(* Small instances of RuntimeUpdate for TLC.                                *)
EXTENDS RuntimeUpdate

CONSTANTS u1, u2, c1, c2

Good == [expired |-> FALSE, revoked |-> FALSE, protocol |-> TRUE, schema |-> TRUE,
         app |-> TRUE, selected |-> TRUE, forward |-> FALSE]

Offered == {Good, [Good EXCEPT !.schema = FALSE], [Good EXCEPT !.selected = FALSE],
            [Good EXCEPT !.revoked = TRUE]}

(* Either two callers work on the first attempt and one call is cut, or one *)
(* caller works on both attempts and two are.                               *)
Untouched(a) == journal[a] = <<>> /\ \A c \in Callers : "attempt" \in DOMAIN call[c] => call[c].attempt # a

Within == (Untouched(u2) /\ crashes <= 1) \/ call[c2] = Idle

MCSpec == Init /\ [][Next /\ Within']_vars /\ Fairness
=============================================================================
