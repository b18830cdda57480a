------------------------- MODULE MCPromptAdmission -------------------------
(* Three small instances of PromptAdmission that TLC explores in one run:   *)
(* which one is chosen at the start, and each step stays within its bounds. *)
EXTENDS PromptAdmission

CONSTANTS p1, p2

VARIABLE instance

WokenOnce(p) == \A k \in 2..MaxWakes : At(<<p, k>>, "none")

(* Two prompts, one of them queued, share one download that is not refused   *)
(* to them and not cancelled for both.                                      *)
Shared ==
    /\ bound.background = 0 /\ bound.restarts = 0 /\ open /\ ~switched
    /\ \A p \in Prompts : WokenOnce(p)
    /\ \A t \in Tasks : At(t, "fail") => task[t].job # 0
    /\ \A t \in Tasks : At(t, "leaving") => task[t].reason = "none"
    /\ \A j \in Jobs : job[j].stop # "cancel"

(* One prompt, and two of these: a download that a client starts, a client   *)
(* that stops the run, a restart, before which the ingress may be closed.   *)
Alone == row[p2] = "none" /\ WokenOnce(p1)
         /\ bound.background + bound.cancels + bound.restarts + (IF open THEN 0 ELSE 1) <= 2

(* One prompt whose request is sent twice, and a download that is cancelled. *)
Again == row[p2] = "none" /\ bound.background = 0 /\ bound.restarts = 0 /\ open /\ ~switched
         /\ bound.cancels = 0

Within == CASE instance = "shared" -> Shared
            [] instance = "alone" -> Alone
            [] instance = "again" -> Again

MCInit == Init /\ instance \in {"shared", "alone", "again"}
MCNext == Next /\ UNCHANGED instance /\ Within'

MCSpec == /\ MCInit /\ [][MCNext]_<<vars, instance>>
          /\ Fairness
=============================================================================
