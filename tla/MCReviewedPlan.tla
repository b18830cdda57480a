---------------------------- MODULE MCReviewedPlan ----------------------------
(* Two small instances of ReviewedPlan that TLC explores in one run.        *)
EXTENDS ReviewedPlan

(* A plan that fits a prompt exactly, and one that is cut to its own limit  *)
(* and fits no more.                                                        *)
Exact == 3
Long == 5
MCLengths == {Exact, Long}

(* Two prompts of clients over three runs, or three over two runs. Pursuit  *)
(* and restarts are never cut: they add neither.                            *)
Within == Len(runs) <= 2 \/ Cardinality({t \in DOMAIN turns : turns[t].implements = 0}) <= 2

MCSpec == Init /\ [][Next /\ Within']_vars /\ Fairness
=============================================================================
