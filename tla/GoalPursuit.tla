---------------------------- MODULE GoalPursuit ----------------------------
(***************************************************************************)
(* The durable goal of one conversation and the half-second tick that       *)
(* pursues it. The tick reads the active goal, then the turns behind it,    *)
(* writes what they cost, and decides; each read and each write is a step   *)
(* of its own, and between any two of them users command the goal, the      *)
(* model reports on it, prompts are sent and turns start and end.           *)
(*                                                                         *)
(* Every goal write compares the whole stored record with the one that was  *)
(* read, so a client's several reads behave as one read at the last of      *)
(* them. Objectives, notes and clocks are left out. A turn is named by its  *)
(* ordinal in the conversation.                                             *)
(***************************************************************************)
EXTENDS Naturals, Sequences, FiniteSets, FiniteSetsExt

CONSTANTS
    Clients,      \* callers of the goal service
    Commands,     \* the operations they use
    Ends,         \* how the provider ends a turn
    Admissions,   \* how admission answers a wake: "accepted", "refused"
    Budget,       \* the token budget of every goal
    IdleLimit,    \* MAX_CONTINUATIONS_WITHOUT_PROGRESS, 3 in the code
    Batch,        \* MAX_GOAL_TURN_OBSERVATIONS, 64 in the code
    MaxGoals, MaxTurns, MaxRevision, MaxRestarts  \* bounds

ASSUME GoalPursuitAssumption ==
    /\ Commands \subseteq {"set", "pause", "resume", "clear", "report", "stop"}
    /\ Ends \subseteq {"worked", "idled", "failed", "limited", "interrupted"}
    /\ Admissions \subseteq {"accepted", "refused"}
    /\ {Budget, IdleLimit, Batch} \subseteq Nat \ {0}
    /\ {MaxGoals, MaxTurns, MaxRevision, MaxRestarts} \subseteq Nat

VARIABLES
    goals,     \* conversation_goals, in creation order
    turns,     \* the conversation's turns, by ordinal
    woken,     \* GoalPursuitService.woken, in memory
    admitting, \* continuations the admission of this process is working on
    tick,      \* where the tick is, with what it has read
    call,      \* what each client has read of the goal it is about to write
    since,     \* ghost: turns there were when the goal was set or resumed
    restarts

vars == <<goals, turns, woken, admitting, tick, call, since, restarts>>

GoalIds == 1..Len(goals)
Ordinals == 1..Len(turns)
Statuses == {"active", "paused", "blocked", "usageLimited", "budgetLimited",
             "complete", "cleared"}
Finished == {"complete", "cleared"}
Resumable == {"paused", "blocked", "usageLimited", "budgetLimited"}
GoalRecord == [status : Statuses, revision : Nat, accounted : Nat, tokens : Nat, idle : Nat]

Turn == [continues : Nat, after : Nat,
         phase : {"open", "completed", "failed", "cancelled", "interrupted"},
         dispatch : {"awaiting", "pending", "inFlight", "unprovable", "settled"},
         held : BOOLEAN, tokens : Nat, worked : BOOLEAN, failure : {"none", "limit", "other"}]

Current == Len(goals)                       \* the newest goal of the conversation
Open(t) == t.phase = "open"
OpenOrdinals == {o \in Ordinals : Open(turns[o])}

NoCall == [op |-> "none"]
Idle == [step |-> "idle"]

Init ==
    /\ goals = <<>> /\ turns = <<>> /\ since = <<>>
    /\ woken = {} /\ admitting = {}
    /\ tick = Idle
    /\ call = [c \in Clients |-> NoCall]
    /\ restarts = 0

(***************************************************************************)
(* Records of a goal                                                        *)
(***************************************************************************)
Transition(g, status) == [g EXCEPT !.revision = @ + 1, !.status = status]

(* The turns before the first open one: all that may be charged.            *)
SettledPrefix(from) ==
    Max({n \in from..Len(turns) : \A o \in from+1..n : ~Open(turns[o])} \cup {from})

(* Mutant of SettledRun: settled turns behind an open one are counted too.  *)
SettledAnywhere(seen) == Cardinality({i \in 1..Len(seen) : ~Open(seen[i])})

SettledRun(seen) == Max({n \in 0..Len(seen) : \A i \in 1..n : ~Open(seen[i])})

FailureEndsGoal(t) == t.phase = "failed" /\ t.dispatch # "unprovable"

(* Mutant of AccountedThrough: the last turn charged is read again.         *)
AccountedBeforeLast(g, run) == g.accounted + run - 1

AccountedThrough(g, run) == g.accounted + run

(* What the first turns of those read cost together.                        *)
Costs(seen) ==
    LET cost[n \in 0..Len(seen)] == IF n = 0 THEN 0 ELSE cost[n - 1] + seen[n].tokens IN cost

(* What accounted_goal makes of the turns read: every settled one is passed, *)
(* those up to the first failure are charged, and the idle count starts     *)
(* again behind the last completed turn that was not an idle continuation.  *)
AccountedGoal(g, id, seen) ==
    LET run      == SettledRun(seen)
        failures == {i \in 1..run : FailureEndsGoal(seen[i])}
        last     == IF g.status # "active" THEN 0
                    ELSE IF failures = {} THEN run ELSE Min(failures)
        charged  == 1..last
        idlers   == {i \in charged : /\ seen[i].phase = "completed"
                                     /\ seen[i].continues = id /\ ~seen[i].worked}
        progress == {i \in charged \ idlers : seen[i].phase = "completed"}
        ended    == IF charged \cap failures = {} THEN g.status
                    ELSE IF seen[Min(failures)].failure = "limit" THEN "usageLimited"
                    ELSE "blocked"
    IN  IF run = 0 THEN g
        ELSE [status    |-> ended,
              revision  |-> g.revision + 1,
              accounted |-> AccountedThrough(g, run),
              tokens    |-> g.tokens + Costs(seen)[last],
              idle      |-> IF progress = {} THEN g.idle + Cardinality(idlers)
                            ELSE Cardinality({i \in idlers : i > Max(progress)})]

BudgetExhausted(g) == g.tokens >= Budget
(* Mutant of IdleExhausted: one idle continuation too many.                 *)
IdleExceeded(g) == g.idle > IdleLimit

IdleExhausted(g) == g.idle >= IdleLimit

(***************************************************************************)
(* Goal writes: one transaction each                                        *)
(***************************************************************************)
(* Mutant of Unchanged: the stored record is overwritten unseen.            *)
AnyRecord(id, read) == TRUE

Unchanged(id, read) == goals[id] = read      \* the stored record is the one read

ReplaceGoal(id, read, next) ==
    goals' = IF Unchanged(id, read) THEN [goals EXCEPT ![id] = next] ELSE goals

(***************************************************************************)
(* Clients                                                                  *)
(***************************************************************************)
TurnInFlight(g) ==
    \E o \in g.accounted+1..Len(turns) : Open(turns[o]) /\ turns[o].dispatch = "inFlight"

Allowed(op, id, g) ==
    CASE op = "pause"  -> id = Current /\ g.status = "active"
      [] op = "resume" -> id = Current /\ g.status \in Resumable /\ ~BudgetExhausted(g)
      [] op = "clear"  -> id = Current /\ g.status # "cleared"
      [] op = "stop"   -> id = Current /\ g.status = "active"
      [] op = "report" -> g.status = "active" /\ TurnInFlight(g)

(* A command that is not allowed answers a rejection and writes nothing.    *)
ReadGoal(c, op, id) ==
    /\ call[c] = NoCall
    /\ op \in Commands \ {"set"}
    /\ goals[id].revision < MaxRevision
    /\ Allowed(op, id, goals[id])
    /\ call' = [call EXCEPT ![c] = [op |-> op, goal |-> id, read |-> goals[id],
                                    prefix |-> SettledPrefix(goals[id].accounted)]]
    /\ UNCHANGED <<goals, turns, woken, admitting, tick, since, restarts>>

Commanded(op, g, prefix, outcome) ==
    CASE op \in {"pause", "stop"} -> Transition(g, "paused")
      [] op = "clear"  -> Transition(g, "cleared")
      [] op = "report" -> Transition(g, outcome)
      [] op = "resume" -> [Transition(g, "active") EXCEPT !.idle = 0, !.accounted = prefix]

WriteGoal(c, outcome) ==
    LET op == call[c].op  id == call[c].goal  read == call[c].read IN
    /\ op \notin {"none", "set"}
    /\ op # "report" => outcome = "complete"      \* used by report alone
    /\ ReplaceGoal(id, read, Commanded(op, read, call[c].prefix, outcome))
    /\ since' = IF op = "resume" /\ Unchanged(id, read)
                THEN [since EXCEPT ![id] = Len(turns)] ELSE since
    /\ call' = [call EXCEPT ![c] = NoCall]
    /\ UNCHANGED <<turns, woken, admitting, tick, restarts>>

ReadForSet(c) ==
    /\ call[c] = NoCall
    /\ "set" \in Commands
    /\ Current < MaxGoals
    /\ call' = [call EXCEPT ![c] = [op |-> "set", goal |-> Current,
                                    read |-> IF Current = 0 THEN <<>> ELSE goals[Current],
                                    prefix |-> SettledPrefix(0)]]
    /\ UNCHANGED <<goals, turns, woken, admitting, tick, since, restarts>>

NewGoal(prefix) ==
    [status |-> "active", revision |-> 1, accounted |-> prefix, tokens |-> 0, idle |-> 0]

SameCurrent(c) ==
    /\ call[c].goal = Current
    /\ Current # 0 => Unchanged(Current, call[c].read)

(* Mutants of Replaced: a stopped goal is left; an unknown status.          *)
ReplacedIfActive(g) == IF g.status # "active" THEN g ELSE Transition(g, "cleared")
ReplacedByName(g) == Transition(g, "replaced")

Replaced(g) == IF g.status \in Finished THEN g ELSE Transition(g, "cleared")

(* The new goal and the end of the one it replaces are one transaction.     *)
SetGoal(c) ==
    /\ call[c].op = "set"
    /\ IF SameCurrent(c)
       THEN /\ goals' = Append([id \in GoalIds |-> IF id = Current THEN Replaced(goals[id])
                                                   ELSE goals[id]],
                               NewGoal(call[c].prefix))
            /\ since' = Append(since, Len(turns))
       ELSE UNCHANGED <<goals, since>>
    /\ call' = [call EXCEPT ![c] = NoCall]
    /\ UNCHANGED <<turns, woken, admitting, tick, restarts>>

(***************************************************************************)
(* The tick: one goal, as one conversation has one active goal              *)
(***************************************************************************)
BeginTick(id) ==
    /\ tick = Idle
    /\ goals[id].status = "active"
    /\ tick' = [step |-> "observe", goal |-> id, read |-> goals[id]]
    /\ UNCHANGED <<goals, turns, woken, admitting, call, since, restarts>>

Observe ==
    /\ tick.step = "observe"
    /\ LET from == tick.read.accounted IN
       tick' = [step |-> "account", goal |-> tick.goal, read |-> tick.read,
                seen |-> SubSeq(turns, from + 1, Min({Len(turns), from + Batch}))]
    /\ UNCHANGED <<goals, turns, woken, admitting, call, since, restarts>>

(* A record that changed since it was read ends the goal's turn of the tick. *)
Account ==
    /\ tick.step = "account"
    /\ LET next == AccountedGoal(tick.read, tick.goal, tick.seen) IN
       /\ ReplaceGoal(tick.goal, tick.read, next)
       /\ tick' = IF next = tick.read \/ Unchanged(tick.goal, tick.read)
                  THEN [tick EXCEPT !.step = "decide", !.read = next]
                  ELSE Idle
    /\ UNCHANGED <<turns, woken, admitting, call, since, restarts>>

(* Mutant of BatchIsFull: the turns behind a full batch are forgotten.      *)
BatchIsEverything == FALSE

BatchIsFull == Len(tick.seen) = Batch /\ \A i \in 1..Batch : ~Open(tick.seen[i])

HasOpen == SettledRun(tick.seen) < Len(tick.seen)
FirstOpen == tick.seen[SettledRun(tick.seen) + 1]
FirstOpenOrdinal == tick.read.accounted + 1      \* what is settled is accounted

(* Mutant of StepOfGoal: a spent budget only waits.                         *)
StepOfGoalWaits(g) ==
    IF BudgetExhausted(g) THEN "stop" ELSE IF IdleExhausted(g) THEN "blocked" ELSE "admit"

StepOfGoal(g) ==
    IF BudgetExhausted(g) THEN "budgetLimited"
    ELSE IF IdleExhausted(g) THEN "blocked" ELSE "admit"

(* next_pursuit_step, with "stop" for a full batch of settled turns         *)
PursuitStep ==
    IF BatchIsFull \/ tick.read.status # "active" THEN "stop"
    ELSE IF HasOpen
         THEN IF FirstOpen.continues # tick.goal THEN "stop"
              ELSE IF FirstOpen.held THEN "blocked"
              ELSE IF FirstOpen.dispatch = "awaiting" /\ FirstOpenOrdinal \notin woken
                   THEN "rewake"
              ELSE "stop"
    ELSE StepOfGoal(tick.read)

Stop ==
    /\ tick.step = "decide"
    /\ PursuitStep = "stop"
    /\ tick' = Idle
    /\ UNCHANGED <<goals, turns, woken, admitting, call, since, restarts>>

Settle ==
    /\ tick.step = "decide"
    /\ PursuitStep \in {"blocked", "budgetLimited"}
    /\ ReplaceGoal(tick.goal, tick.read, Transition(tick.read, PursuitStep))
    /\ tick' = Idle
    /\ UNCHANGED <<turns, woken, admitting, call, since, restarts>>

Rewake ==
    /\ tick.step = "decide"
    /\ PursuitStep = "rewake"
    /\ tick' = [step |-> "wake", goal |-> tick.goal, read |-> tick.read,
                ordinal |-> FirstOpenOrdinal]
    /\ UNCHANGED <<goals, turns, woken, admitting, call, since, restarts>>

(* The request id names the goal and what it is accounted through: a second  *)
(* save of the same continuation answers the first one's row.               *)
SavedBefore == {o \in Ordinals : /\ turns[o].continues = tick.goal
                                 /\ turns[o].after = tick.read.accounted}

NewTurn(continues, after, dispatch) ==
    [continues |-> continues, after |-> after, phase |-> "open", dispatch |-> dispatch,
     held |-> FALSE, tokens |-> 0, worked |-> FALSE, failure |-> "none"]

Admit ==
    /\ tick.step = "decide"
    /\ PursuitStep = "admit"
    /\ LET wake(o) == [step |-> "wake", goal |-> tick.goal, read |-> tick.read, ordinal |-> o] IN
       IF SavedBefore # {}
       THEN /\ \E o \in SavedBefore : tick' = wake(o)
            /\ UNCHANGED turns
       ELSE /\ Len(turns) < MaxTurns
            /\ turns' = Append(turns, NewTurn(tick.goal, tick.read.accounted, "awaiting"))
            /\ tick' = wake(Len(turns) + 1)
    /\ UNCHANGED <<goals, woken, admitting, call, since, restarts>>

(* The wake is remembered before admission is asked.                        *)
Wake(answer) ==
    /\ tick.step = "wake"
    /\ answer \in Admissions
    /\ woken' = woken \cup {tick.ordinal}
    /\ IF answer = "accepted"
       THEN /\ admitting' = admitting \cup {tick.ordinal}
            /\ tick' = Idle
       ELSE /\ tick' = [step |-> "block", goal |-> tick.goal, read |-> tick.read]
            /\ UNCHANGED admitting
    /\ UNCHANGED <<goals, turns, call, since, restarts>>

Block ==
    /\ tick.step = "block"
    /\ ReplaceGoal(tick.goal, tick.read, Transition(tick.read, "blocked"))
    /\ tick' = Idle
    /\ UNCHANGED <<turns, woken, admitting, call, since, restarts>>

(***************************************************************************)
(* The rest of the daemon, as far as the pursuit sees it                    *)
(***************************************************************************)
UserPrompt ==
    /\ Len(turns) < MaxTurns
    /\ turns' = Append(turns, NewTurn(0, 0, "pending"))
    /\ UNCHANGED <<goals, woken, admitting, tick, call, since, restarts>>

(* Admission gives the prompt to the dispatchers, or holds it for a download *)
(* or an installation.                                                      *)
Release(o) ==
    /\ o \in admitting
    /\ admitting' = admitting \ {o}
    /\ turns' = IF turns[o].dispatch = "awaiting"
                THEN [turns EXCEPT ![o].dispatch = "pending", ![o].held = FALSE] ELSE turns
    /\ UNCHANGED <<goals, woken, tick, call, since, restarts>>

Hold(o) ==
    /\ o \in admitting
    /\ admitting' = admitting \ {o}
    /\ turns' = IF turns[o].dispatch = "awaiting" THEN [turns EXCEPT ![o].held = TRUE] ELSE turns
    /\ UNCHANGED <<goals, woken, tick, call, since, restarts>>

ReleaseHeld(o) ==
    /\ turns[o].held
    /\ turns' = [turns EXCEPT ![o].dispatch = "pending", ![o].held = FALSE]
    /\ UNCHANGED <<goals, woken, admitting, tick, call, since, restarts>>

CancelHeld(o) ==
    /\ turns[o].held
    /\ turns' = [turns EXCEPT ![o].dispatch = "settled", ![o].phase = "cancelled",
                              ![o].held = FALSE]
    /\ UNCHANGED <<goals, woken, admitting, tick, call, since, restarts>>

NextPending(o) ==
    /\ turns[o].dispatch = "pending"
    /\ \A p \in Ordinals : turns[p].dispatch = "pending" => o <= p
    /\ \A p \in Ordinals : turns[p].dispatch # "inFlight"

Inactive(o) == turns[o].continues # 0 /\ goals[turns[o].continues].status # "active"

Dispatch(o) ==
    /\ NextPending(o)
    /\ turns' = IF Inactive(o)
                THEN [turns EXCEPT ![o].dispatch = "settled", ![o].phase = "cancelled"]
                ELSE [turns EXCEPT ![o].dispatch = "inFlight"]
    /\ UNCHANGED <<goals, woken, admitting, tick, call, since, restarts>>

Ended(t, end) ==
    LET phase == CASE end \in {"worked", "idled"} -> "completed"
                   [] end \in {"failed", "limited"} -> "failed"
                   [] end = "interrupted" -> "interrupted"
    IN  [t EXCEPT !.dispatch = "settled", !.phase = phase, !.tokens = 1,
                  !.worked = (end = "worked"),
                  !.failure = CASE end = "limited" -> "limit"
                                [] end = "failed" -> "other"
                                [] OTHER -> "none"]

Finish(o, end) ==
    /\ turns[o].dispatch = "inFlight"
    /\ turns' = [turns EXCEPT ![o] = Ended(@, end)]
    /\ UNCHANGED <<goals, woken, admitting, tick, call, since, restarts>>

(* A turn the dead daemon may have sent fails as unprovable, one it had only *)
(* claimed is pending again. Held recovery admits every awaiting prompt     *)
(* anew before the pursuit starts; what the process remembered is gone.      *)
Recovered(t, sent) ==
    IF t.dispatch # "inFlight" THEN t
    ELSE IF sent THEN [t EXCEPT !.dispatch = "unprovable", !.phase = "failed"]
    ELSE [t EXCEPT !.dispatch = "pending"]

Restart(sent) ==
    /\ restarts < MaxRestarts
    /\ restarts' = restarts + 1
    /\ turns' = [o \in Ordinals |-> Recovered(turns[o], sent)]
    /\ woken' = {}
    /\ admitting' = {o \in Ordinals : turns[o].dispatch = "awaiting"}
    /\ tick' = Idle
    /\ call' = [c \in Clients |-> NoCall]
    /\ UNCHANGED <<goals, since>>

Pursue == \/ \E id \in GoalIds : BeginTick(id)
          \/ Observe \/ Account \/ Stop \/ Settle \/ Rewake \/ Admit
          \/ \E answer \in Admissions : Wake(answer)
          \/ Block

Command == \E c \in Clients :
    \/ ReadForSet(c) \/ SetGoal(c)
    \/ \E op \in Commands \ {"set"}, id \in GoalIds : ReadGoal(c, op, id)
    \/ \E outcome \in {"complete", "blocked"} : WriteGoal(c, outcome)

Admission == \E o \in Ordinals : Release(o) \/ Hold(o)

Next == \/ Pursue \/ Command \/ Admission \/ UserPrompt
        \/ \E o \in Ordinals : \/ ReleaseHeld(o) \/ CancelHeld(o) \/ Dispatch(o)
                               \/ \E end \in Ends : Finish(o, end)
        \/ \E sent \in BOOLEAN : Restart(sent)

Spec == Init /\ [][Next]_vars

(* The tick runs every half second while the daemon lives, and admission is *)
(* a task that ends. Nothing obliges clients, providers or restarts.        *)
FairSpec == Spec /\ WF_vars(Pursue) /\ WF_vars(Admission)

(***************************************************************************)
(* Properties                                                               *)
(***************************************************************************)
(* goal_ledger.rs: goals, turns and the tick hold values of their types.    *)
TypeOK ==
    /\ goals \in Seq(GoalRecord)
    /\ turns \in Seq(Turn)
    /\ since \in [GoalIds -> Nat]
    /\ woken \subseteq Ordinals /\ admitting \subseteq Ordinals
    /\ tick.step \in {"idle", "observe", "account", "decide", "wake", "block"}
    /\ tick # Idle => tick.goal \in GoalIds /\ tick.read \in GoalRecord
    /\ restarts \in 0..MaxRestarts

(* goals.rs set and goal_ledger.rs create_goal: however sets, resumes and   *)
(* ticks interleave, a conversation never has two active goals.             *)
OneActiveGoal ==
    \A a, b \in GoalIds : goals[a].status = "active" /\ goals[b].status = "active" => a = b

(* goal_pursuit.rs: one goal never has two unfinished continuations, though  *)
(* the tick decides on turns it read before and sees at most Batch of them. *)
OneOpenContinuation ==
    \A o, p \in OpenOrdinals :
        turns[o].continues = turns[p].continues /\ turns[o].continues # 0 => o = p

(* What holds of the ledger and of the tick at all times: a conversation has *)
(* one active goal, and a goal one unfinished continuation.                 *)
PursuitInvariant == TypeOK /\ OneActiveGoal /\ OneOpenContinuation

(* accounted_goal and settled_prefix: no goal is accounted past a turn that  *)
(* has not ended, whose cost would then never be charged.                    *)
AccountedPrefixIsSettled ==
    \A id \in GoalIds : /\ goals[id].accounted <= Len(turns)
                        /\ \A o \in 1..goals[id].accounted : ~Open(turns[o])

(* accounted_goal: a goal never pays more than the turns behind it cost, so  *)
(* no turn is charged to it twice, whatever pauses, resumes and restarts.    *)
NoTurnChargedTwice ==
    \A id \in GoalIds : goals[id].tokens <= Costs(turns)[goals[id].accounted]

(* The accounts of a goal are sound, whatever settles in whatever order:     *)
(* nothing open is behind them, and nothing is charged twice.               *)
AccountsAreSound == AccountedPrefixIsSettled /\ NoTurnChargedTwice

(* goal_ledger.rs replace_goal: a goal that a user paused, that was cleared  *)
(* or that finished becomes active again only by a resume of the very record *)
(* that is stored, never by a tick or a report that began before.            *)
StoppedStaysStopped ==
    [][\A id \in GoalIds :
        goals[id].status # "active" /\ goals'[id].status = "active"
        => \E c \in Clients : /\ call[c].op = "resume" /\ call[c].goal = id
                              /\ call[c].read = goals[id] /\ call'[c] = NoCall]_vars

IdleContinuation(o, id) ==
    turns[o].continues = id /\ turns[o].phase = "completed" /\ ~turns[o].worked

(* next_pursuit_step: since it was set or resumed, a goal is never continued *)
(* again behind IdleLimit idle continuations in a row, nor once its budget   *)
(* is spent.                                                                *)
PursuitRespectsLimits ==
    [][\A o \in DOMAIN turns' \ Ordinals : LET id == turns'[o].continues IN
        id # 0 =>
        /\ ~BudgetExhausted(goals[id])
        /\ ~ \A p \in o - IdleLimit..o - 1 : p > since[id] /\ IdleContinuation(p, id)]_vars

(* An active goal with room for a turn, and no turn anywhere but continuations *)
(* that nobody admits and that the tick has not tried to wake yet: it does   *)
(* so once in its life, even if the admission refuses (wake).                *)
Stalled ==
    /\ Len(turns) < MaxTurns
    /\ \E id \in GoalIds : goals[id].status = "active"
    /\ \A o \in OpenOrdinals : /\ turns[o].dispatch = "awaiting" /\ ~turns[o].held
                             /\ o \notin admitting \cup woken

(* goal_pursuit.rs tick: an active goal is worked on: the tick continues it, *)
(* wakes its continuation or ends it.                                       *)
ActiveGoalIsWorkedOn == Stalled ~> ~Stalled
=============================================================================
