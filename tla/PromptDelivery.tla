---------------------------- MODULE PromptDelivery ----------------------------
(***************************************************************************)
(* What the prompt ledger promises about each prompt it accepted, without  *)
(* rows, owners, epochs or steers: the provider is handed a prompt at most *)
(* once, the prompt gets one outcome, and a daemon that dies while handing *)
(* it over can only leave the delivery uncertain, never repeat it.         *)
(***************************************************************************)
CONSTANTS
    Messages,   \* prompts
    Ends        \* the outcomes a turn can have

VARIABLES
    delivery,   \* where each prompt is
    outcome     \* "open", or how its turn ended

vars == <<delivery, outcome>>

\* A prompt is orphaned when its daemon stopped between offering it to the
\* provider and hearing how it ended.
Places == {"unsent", "queued", "offered", "running", "orphaned", "over", "uncertain"}

TypeOK ==
    /\ delivery \in [Messages -> Places]
    /\ outcome \in [Messages -> {"open"} \cup Ends]

Init ==
    /\ delivery = [m \in Messages |-> "unsent"]
    /\ outcome = [m \in Messages |-> "open"]

\* Prompt m goes from one place to another and its turn stays open.
Moves(m, from, to) ==
    /\ delivery[m] = from
    /\ delivery' = [delivery EXCEPT ![m] = to]
    /\ UNCHANGED outcome

Accept(m)   == Moves(m, "unsent", "queued")
Offer(m)    == Moves(m, "queued", "offered")
TakeBack(m) == Moves(m, "offered", "queued")
Run(m)      == Moves(m, "offered", "running")

\* The prompts of S leave at once, each with an outcome of its own.
End(S, from, to) ==
    /\ S # {}
    /\ \A m \in S : delivery[m] \in from
    /\ \E o \in [S -> Ends] :
        outcome' = [m \in Messages |-> IF m \in S THEN o[m] ELSE outcome[m]]
    /\ delivery' = [m \in Messages |-> IF m \in S THEN to ELSE delivery[m]]

\* Consumed by the provider, finished, or never sent at all.
Finish(m)   == End({m}, {"offered", "running"}, "over")
Withdraw(S) == End(S, {"queued"}, "over")
Lose(S)     == End(S, {"offered", "orphaned"}, "uncertain")

\* The daemon is replaced: what it had in the provider's hands has no owner.
Restart ==
    /\ delivery' = [m \in Messages |->
            IF delivery[m] \in {"offered", "running"} THEN "orphaned" ELSE delivery[m]]
    /\ UNCHANGED outcome

Next ==
    \/ \E m \in Messages :
        Accept(m) \/ Offer(m) \/ TakeBack(m) \/ Run(m) \/ Finish(m)
    \/ \E S \in SUBSET Messages : Withdraw(S) \/ Lose(S)
    \/ Restart

Spec == Init /\ [][Next]_vars
=============================================================================
