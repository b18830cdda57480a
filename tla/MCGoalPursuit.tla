--------------------------- MODULE MCGoalPursuit ---------------------------
(* Three small instances of GoalPursuit that TLC explores in one run: which *)
(* one is chosen at the start, and each step stays within its bounds.       *)
EXTENDS GoalPursuit

CONSTANTS u1, u2

VARIABLE instance

Asks(c, commands) == call[c].op \in commands \cup {"none"}
OneGoal == Len(goals) <= 1 /\ (goals # <<>> => \A c \in Clients : call[c].op # "set")
NoLimitHit == \A o \in Ordinals : turns[o].failure = "none"
NeverHeld == \A o \in Ordinals : ~turns[o].held
NeverRefused == tick.step # "block"

(* One goal and up to four turns: batches fill, limits are reached.         *)
Limits ==
    /\ Asks(u1, {"set", "resume"}) /\ Asks(u2, {})
    /\ OneGoal /\ NoLimitHit /\ NeverRefused /\ restarts = 0
    /\ NeverHeld

(* Two clients and the model command two goals around one turn.             *)
Races ==
    /\ Asks(u2, {"set", "resume"})
    /\ Len(turns) <= 1 /\ restarts = 0 /\ NeverHeld
    /\ \A o \in Ordinals : turns[o].phase = "completed" => turns[o].worked

(* One client, up to two turns and a restart: a tick is never cut short.    *)
Restarts ==
    /\ Asks(u1, {"set", "pause", "resume"}) /\ Asks(u2, {})
    /\ OneGoal /\ Len(turns) <= 2 /\ NoLimitHit

Within ==
    CASE instance = "limits" -> Limits
      [] instance = "races" -> Races
      [] instance = "restarts" -> Restarts

MCInit == Init /\ instance \in {"limits", "races", "restarts"}
MCNext == Next /\ UNCHANGED instance /\ Within'

MCSpec == MCInit /\ [][MCNext]_<<vars, instance>> /\ WF_vars(Pursue) /\ WF_vars(Admission)
=============================================================================
