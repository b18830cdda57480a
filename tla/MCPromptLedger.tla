--------------------------- MODULE MCPromptLedger ---------------------------
(* Small instances of PromptLedger for TLC.                                 *)
EXTENDS PromptLedger, TLC

CONSTANTS c1, r1, r2, claude

OneConversation == {c1}
NoRuns == {}
OneRun == {r1}
TwoRuns == {r1, r2}

MCConvOf == [r \in Runs |-> c1]
MCProviderOf == [r \in Runs |-> claude]
MCFirstRun == [c \in Conversations |-> r1]

Symmetry == Permutations(Messages \ Continuations) \cup Permutations(Coordinators)

(* Two prompts, either of which may be with a provider at a restart: two    *)
(* queued ones, or a sent one and the continuation of a goal that ends.     *)
Saved == {m \in Messages : row[m].state # "absent"}

TwoQueued == goalActive /\ \A m \in Saved : row[m].kind = "queue"
SentAndContinued ==
    /\ \A m \in Saved : row[m].kind = "send"
    /\ \A m, n \in Saved \ Continuations : m = n

DispatchedTogether == TwoQueued \/ SentAndContinued

(* Three queued prompts of one coordinator in one epoch, before its ingress *)
(* closes, any of which may be steered into the turn of another; or two     *)
(* sent prompts, installs and switches, two coordinators and a restart.     *)
Steered ==
    /\ host = [epoch |-> 1, ingress |-> "open", idle |-> FALSE] /\ created = {r1}
    /\ \A m \in Saved : /\ row[m].kind = "queue" /\ install[m] = NoInstall
                        /\ "failed" \in {turn[m].phase, turn[m].terminal} => row[m].state = "unprovable"
    /\ Cardinality({row[m].owner : m \in Messages} \ {None}) <= 1

Installed ==
    /\ \A m \in Saved : row[m].kind = "send"
    /\ Cardinality(Saved) <= 2

SteeredOrInstalled == Steered \/ Installed
=============================================================================
