-------------------------- MODULE GoalPursuitProofs --------------------------
(***************************************************************************)
(* Proofs about GoalPursuit for any number of goals, turns, clients and     *)
(* restarts, and for every budget, idle limit and batch.                    *)
(***************************************************************************)
EXTENDS GoalPursuit, WellFoundedInduction, SequenceTheorems, FiniteSetTheorems, TLAPS

-----------------------------------------------------------------------------
(* The inductive invariant.                                                 *)

Operations == {"pause", "resume", "clear", "report", "stop"}

GoalCall == [op : Operations, goal : Nat, read : GoalRecord, prefix : Nat]
SetCall == [op : {"set"}, goal : Nat, read : GoalRecord \cup {<<>>}, prefix : Nat]

Reading == [step : {"observe", "block"}, goal : Nat, read : GoalRecord]
Seeing == [step : {"account", "decide"}, goal : Nat, read : GoalRecord, seen : Seq(Turn)]
Waking == [step : {"wake"}, goal : Nat, read : GoalRecord, ordinal : Nat]

Shapes ==
    /\ goals \in Seq(GoalRecord) /\ turns \in Seq(Turn)
    /\ since \in Seq(Nat) /\ Len(since) = Len(goals)
    /\ woken \subseteq Ordinals /\ admitting \subseteq Ordinals
    /\ tick \in {Idle} \cup Reading \cup Seeing \cup Waking
    /\ call \in [Clients -> {NoCall} \cup GoalCall \cup SetCall]
    /\ restarts \in 0..MaxRestarts

\* The first n turns have ended.
Prefix(n) == n <= Len(turns) /\ \A o \in 1..n : ~Open(turns[o])

\* The phase of a turn follows its dispatch, and only a prompt that awaits is held.
TurnsAgree ==
    \A o \in Ordinals :
        /\ Open(turns[o]) <=> turns[o].dispatch \in {"awaiting", "pending", "inFlight"}
        /\ turns[o].held => turns[o].dispatch = "awaiting"

\* At most one unfinished continuation, of whatever goal.
OnePursued ==
    \A o, p \in OpenOrdinals : turns[o].continues # 0 /\ turns[p].continues # 0 => o = p

\* The idle count of an active goal is not behind the idle continuations that
\* end what it accounts for.
Counted(g, id) ==
    g.status = "active" =>
        \A k \in 1..g.accounted :
            (\A p \in g.accounted - k + 1..g.accounted : p > since[id] /\ IdleContinuation(p, id))
            => k <= g.idle

GoalsAgree ==
    \A id \in GoalIds :
        /\ Prefix(goals[id].accounted)
        /\ goals[id].tokens <= Costs(turns)[goals[id].accounted]
        /\ Counted(goals[id], id)
        /\ id # Current => goals[id].status \in Finished

\* What a client has read.
CallFits(x) ==
    /\ x.goal <= Len(goals) /\ Prefix(x.prefix)
    /\ x.op # "set" => x.goal > 0
    /\ x.op \in {"pause", "stop", "report"} => x.read.status = "active"
    /\ x.op = "resume" => x.read.status \in Resumable /\ x.read.accounted <= x.prefix

CallsAgree == \A c \in Clients : call[c] # NoCall => CallFits(call[c])

\* The turns behind b were read up to the end, or up to a full batch: what
\* came later are prompts of the user.
Looked(b) ==
    /\ b + Len(tick.seen) <= Len(turns) /\ Len(tick.seen) <= Batch
    /\ Len(tick.seen) < Batch =>
           \A o \in Ordinals : o > b + Len(tick.seen) => turns[o].continues = 0

\* What the tick has read.
TickAgrees ==
    tick # Idle =>
        /\ tick.goal \in GoalIds
        /\ Prefix(tick.read.accounted)
        /\ tick.read.tokens = goals[tick.goal].tokens
        /\ Counted(tick.read, tick.goal)
        /\ tick.step # "decide" => tick.read.status = "active"
        /\ tick.step = "account" =>
               /\ Looked(tick.read.accounted)
               /\ \A i \in 1..Len(tick.seen) : ~Open(tick.seen[i]) =>
                      turns[tick.read.accounted + i] = tick.seen[i]
        /\ tick.step = "decide" =>
               \E b \in 0..tick.read.accounted :
                   tick.read.accounted = b + SettledRun(tick.seen) /\ Looked(b)
        /\ tick.step = "wake" => tick.ordinal \in Ordinals

IInv == /\ Shapes /\ TurnsAgree /\ OnePursued /\ GoalsAgree /\ CallsAgree /\ TickAgrees

-----------------------------------------------------------------------------
(* Numbers and what turns cost. Induction goes through the least element of *)
(* a set of numbers.                                                        *)

LEMMA Least ==
  ASSUME NEW S, S \subseteq Nat, S # {}
  PROVE  \E m \in S : \A n \in S : m <= n
<1>1. PICK m \in S : \A n \in S : ~(<<n, m>> \in OpToRel(<, Nat))
  BY NatLessThanWellFounded, WFMin
<1>2. ASSUME NEW n \in S, n < m PROVE FALSE
  <2>1. <<n, m>> \in OpToRel(<, Nat)
    BY <1>2 DEF OpToRel
  <2>. QED
    BY <1>1, <2>1
<1>. QED
  BY <1>2

LEMMA Induction ==
  ASSUME NEW S, S \subseteq Nat, 0 \in S, \A n \in S : n + 1 \in S
  PROVE  S = Nat
<1>1. SUFFICES ASSUME Nat \ S # {} PROVE FALSE
  OBVIOUS
<1>2. PICK m \in Nat \ S : \A n \in Nat \ S : m <= n
  <2>1. Nat \ S \subseteq Nat
    OBVIOUS
  <2>. QED
    BY <1>1, <2>1, Least
<1>3. m # 0 /\ m - 1 \in Nat
  BY <1>2
<1>4. m - 1 \in S
  BY <1>2, <1>3
<1>5. (m - 1) + 1 \in S
  BY <1>4
<1>. QED
  BY <1>2, <1>5

LEMMA MinType ==
  ASSUME NEW S, S \subseteq Nat, S # {}
  PROVE  Min(S) \in S /\ \A n \in S : Min(S) <= n
BY Least DEF Min

LEMMA MaxType ==
  ASSUME NEW S, S \subseteq Nat, S # {}, NEW b \in Nat, \A n \in S : n <= b
  PROVE  Max(S) \in S /\ \A n \in S : Max(S) >= n
<1>1. PICK m \in {c \in Nat : \A n \in S : n <= c} :
          \A c \in {c \in Nat : \A n \in S : n <= c} : m <= c
  <2>1. PICK T : T = {c \in Nat : \A n \in S : n <= c}
    OBVIOUS
  <2>2. T \subseteq Nat /\ T # {}
    BY <2>1
  <2>. QED
    BY <2>1, <2>2, Least
<1>2. m \in S
  <2>1. ASSUME m \notin S PROVE FALSE
    <3>1. PICK n \in S : TRUE
      OBVIOUS
    <3>2. m - 1 \in Nat /\ \A k \in S : k <= m - 1
      BY <1>1, <2>1, <3>1
    <3>. QED
      BY <1>1, <3>2
  <2>. QED
    BY <2>1
<1>. QED
  BY <1>1, <1>2 DEF Max

LEMMA TurnsOfSeq ==
  ASSUME NEW s \in Seq(Turn)
  PROVE  Len(s) \in Nat /\ \A i \in 1..Len(s) : s[i] \in Turn /\ s[i].tokens \in Nat
<1>1. Len(s) \in Nat /\ \A i \in 1..Len(s) : s[i] \in Turn
  BY LenProperties
<1>2. \A t \in Turn : t.tokens \in Nat
  BY DEF Turn
<1>. QED
  BY <1>1, <1>2

\* The functions that the definition of Costs asks for, up to n.
Summing(s, n) == {f \in [0..n -> Nat] :
    f = [i \in 0..n |-> IF i = 0 THEN 0 ELSE f[i - 1] + s[i].tokens]}

\* There is one, so that Costs sums.
LEMMA CostsType ==
  ASSUME NEW s \in Seq(Turn)
  PROVE  /\ Costs(s) \in [0..Len(s) -> Nat]
         /\ Costs(s)[0] = 0
         /\ \A i \in 1..Len(s) : Costs(s)[i] = Costs(s)[i - 1] + s[i].tokens
<1>1. PICK N : N = {n \in Nat : n <= Len(s) => Summing(s, n) # {}}
  OBVIOUS
<1>2. 0 \in N
  <2>1. PICK f : f = [i \in 0..0 |-> 0]
    OBVIOUS
  <2>2. f \in Summing(s, 0)
    BY <2>1 DEF Summing
  <2>. QED
    BY <1>1, <2>2
<1>3. ASSUME NEW n \in N PROVE n + 1 \in N
  <2>1. SUFFICES ASSUME n + 1 <= Len(s) PROVE Summing(s, n + 1) # {}
    BY <1>1
  <2>2. PICK f : f \in Summing(s, n)
    BY <1>1, <2>1
  <2>3. PICK g : g = [i \in 0..n + 1 |-> IF i <= n THEN f[i] ELSE f[n] + s[n + 1].tokens]
    OBVIOUS
  <2>4. s[n + 1].tokens \in Nat
    BY <1>1, <2>1, TurnsOfSeq
  <2>5. g \in [0..n + 1 -> Nat]
    BY <1>1, <2>2, <2>3, <2>4 DEF Summing
  <2>6. ASSUME NEW i \in 0..n + 1 PROVE g[i] = IF i = 0 THEN 0 ELSE g[i - 1] + s[i].tokens
    <3>1. CASE i <= n
      BY <1>1, <2>2, <2>3, <3>1 DEF Summing
    <3>2. CASE i = n + 1
      BY <1>1, <2>2, <2>3, <3>2 DEF Summing
    <3>. QED
      BY <1>1, <3>1, <3>2
  <2>7. g = [i \in 0..n + 1 |-> IF i = 0 THEN 0 ELSE g[i - 1] + s[i].tokens]
    BY <2>5, <2>6
  <2>. QED
    BY <2>5, <2>7 DEF Summing
<1>4. N = Nat
  <2>1. N \subseteq Nat
    BY <1>1
  <2>. QED
    BY <1>2, <1>3, <2>1, Induction
<1>5. Len(s) \in Nat /\ Summing(s, Len(s)) # {}
  BY <1>1, <1>4, LenProperties
<1>6. PICK f \in [0..Len(s) -> Nat] : f = [i \in 0..Len(s) |-> IF i = 0 THEN 0 ELSE f[i - 1] + s[i].tokens]
  BY <1>5 DEF Summing
<1>7. Costs(s) = [i \in 0..Len(s) |-> IF i = 0 THEN 0 ELSE Costs(s)[i - 1] + s[i].tokens]
  BY <1>6 DEF Costs
<1>8. PICK M : M = {n \in Nat : n <= Len(s) => Costs(s)[n] \in Nat}
  OBVIOUS
<1>9. 0 \in M
  BY <1>5, <1>7, <1>8
<1>10. ASSUME NEW n \in M PROVE n + 1 \in M
  <2>1. SUFFICES ASSUME n + 1 <= Len(s) PROVE Costs(s)[n + 1] \in Nat
    BY <1>8
  <2>2. Costs(s)[n + 1] = Costs(s)[n] + s[n + 1].tokens
    BY <1>5, <1>7, <1>8, <2>1
  <2>3. s[n + 1].tokens \in Nat /\ Costs(s)[n] \in Nat
    BY <1>8, <2>1, TurnsOfSeq
  <2>. QED
    BY <2>2, <2>3
<1>11. M = Nat
  <2>1. M \subseteq Nat
    BY <1>8
  <2>. QED
    BY <1>9, <1>10, <2>1, Induction
<1>12. \A n \in 0..Len(s) : Costs(s)[n] \in Nat
  BY <1>5, <1>8, <1>11
<1>13. PICK C, L : C = Costs(s) /\ L = Len(s)
  OBVIOUS
<1>14. C = [i \in 0..L |-> IF i = 0 THEN 0 ELSE C[i - 1] + s[i].tokens] /\ L \in Nat
  BY <1>5, <1>7, <1>13
<1>15. C \in [0..L -> Nat]
  BY <1>12, <1>13, <1>14
<1>16. C[0] = 0 /\ \A i \in 1..L : C[i] = C[i - 1] + s[i].tokens
  BY <1>14
<1>. QED
  BY <1>13, <1>15, <1>16

\* Turns that cost the same cost the same together.
LEMMA CostsAgree ==
  ASSUME NEW s \in Seq(Turn), NEW t \in Seq(Turn), NEW n \in 0..Len(s), n <= Len(t),
         \A i \in 1..n : s[i].tokens = t[i].tokens
  PROVE  Costs(s)[n] = Costs(t)[n]
<1>1. PICK C, D, k, l : C = Costs(s) /\ D = Costs(t) /\ k = Len(s) /\ l = Len(t)
  OBVIOUS
<1>2. /\ k \in Nat /\ l \in Nat /\ n \in 0..k /\ n <= l /\ C[0] = 0 /\ D[0] = 0
      /\ \A i \in 1..n : C[i] = C[i - 1] + s[i].tokens /\ D[i] = D[i - 1] + t[i].tokens
  <2>1. k \in Nat /\ l \in Nat /\ n \in 0..k /\ n <= l
    BY <1>1, TurnsOfSeq
  <2>2. C[0] = 0 /\ \A i \in 1..k : C[i] = C[i - 1] + s[i].tokens
    BY <1>1, CostsType
  <2>3. D[0] = 0 /\ \A i \in 1..l : D[i] = D[i - 1] + t[i].tokens
    BY <1>1, CostsType
  <2>. QED
    BY <2>1, <2>2, <2>3
<1>3. PICK N : N = {m \in Nat : m <= n => C[m] = D[m]}
  OBVIOUS
<1>4. N \subseteq Nat /\ 0 \in N
  BY <1>2, <1>3
<1>5. ASSUME NEW m \in N PROVE m + 1 \in N
  <2>1. SUFFICES ASSUME m + 1 <= n PROVE C[m + 1] = D[m + 1]
    BY <1>3
  <2>2. m + 1 \in 1..n /\ C[m] = D[m] /\ (m + 1) - 1 = m
    BY <1>2, <1>3, <2>1
  <2>. QED
    BY <1>2, <2>2
<1>6. N = Nat
  BY <1>4, <1>5, Induction
<1>. QED
  BY <1>1, <1>2, <1>3, <1>6

\* The turns behind the first b cost what they add.
LEMMA CostsOfBatch ==
  ASSUME NEW s \in Seq(Turn), NEW t \in Seq(Turn), NEW b \in 0..Len(s), NEW n \in 0..Len(t),
         b + n <= Len(s), \A i \in 1..n : t[i] = s[b + i]
  PROVE  Costs(s)[b + n] = Costs(s)[b] + Costs(t)[n]
<1>1. PICK C, D, k, l : C = Costs(s) /\ D = Costs(t) /\ k = Len(s) /\ l = Len(t)
  OBVIOUS
<1>2. k \in Nat /\ l \in Nat /\ b \in 0..k /\ n \in 0..l /\ b + n <= k
  BY <1>1, TurnsOfSeq
<1>3. C \in [0..k -> Nat] /\ \A i \in 1..k : C[i] = C[i - 1] + s[i].tokens
  BY <1>1, CostsType
<1>4. D \in [0..l -> Nat] /\ D[0] = 0 /\ \A i \in 1..l : D[i] = D[i - 1] + t[i].tokens
  BY <1>1, CostsType
<1>5. \A i \in 1..l : t[i].tokens \in Nat
  BY <1>1, TurnsOfSeq
<1>6. PICK N : N = {m \in Nat : m <= n => C[b + m] = C[b] + D[m]}
  OBVIOUS
<1>7. 0 \in N
  <2>1. b + 0 = b /\ C[b] \in Nat
    BY <1>2, <1>3
  <2>. QED
    BY <1>4, <1>6, <2>1
<1>8. ASSUME NEW m \in N PROVE m + 1 \in N
  <2>1. SUFFICES ASSUME m + 1 <= n PROVE C[b + (m + 1)] = C[b] + D[m + 1]
    BY <1>6
  <2>2. m \in Nat /\ C[b + m] = C[b] + D[m]
    BY <1>2, <1>6, <2>1
  <2>3. /\ m + 1 \in 1..n /\ m + 1 \in 1..l /\ b + (m + 1) \in 1..k /\ m \in 0..l
        /\ (m + 1) - 1 = m /\ (b + (m + 1)) - 1 = b + m
    BY <1>2, <2>1, <2>2
  <2>4. D[m + 1] = D[m] + t[m + 1].tokens
    BY <1>4, <2>3
  <2>5. C[b + (m + 1)] = C[b + m] + s[b + (m + 1)].tokens
    BY <1>3, <2>3
  <2>6. s[b + (m + 1)] = t[m + 1]
    BY <2>3
  <2>7. C[b] \in Nat /\ D[m] \in Nat /\ t[m + 1].tokens \in Nat
    BY <1>2, <1>3, <1>4, <1>5, <2>3
  <2>. QED
    BY <2>2, <2>4, <2>5, <2>6, <2>7
<1>9. N = Nat
  BY <1>6, <1>7, <1>8, Induction
<1>10. C[b + n] = C[b] + D[n]
  <2>1. n \in Nat /\ n \in N
    BY <1>2, <1>9
  <2>. QED
    BY <1>6, <2>1
<1>. QED
  BY <1>1, <1>10

LEMMA CostsGrow ==
  ASSUME NEW s \in Seq(Turn), NEW n \in 0..Len(s), NEW m \in 0..n
  PROVE  Costs(s)[m] <= Costs(s)[n]
<1>1. /\ SubSeq(s, m + 1, n) \in Seq(Turn) /\ Len(SubSeq(s, m + 1, n)) = n - m
      /\ \A i \in 1..n - m : SubSeq(s, m + 1, n)[i] = s[m + i]
  <2>1. Len(s) \in Nat /\ \A i \in m + 1..n : s[i] \in Turn
    BY LenProperties
  <2>2. m + 1 \in Int /\ n \in Int
    BY <2>1
  <2>3. /\ SubSeq(s, m + 1, n) \in Seq(Turn)
        /\ Len(SubSeq(s, m + 1, n)) = IF m + 1 <= n THEN n - (m + 1) + 1 ELSE 0
        /\ \A i \in 1..n - (m + 1) + 1 : SubSeq(s, m + 1, n)[i] = s[m + 1 + i - 1]
    BY <2>1, <2>2, SubSeqProperties
  <2>. QED
    BY <2>1, <2>3
<1>2. PICK t : t = SubSeq(s, m + 1, n)
  OBVIOUS
<1>3. PICK d \in Nat : d = n - m
  BY TurnsOfSeq
<1>4. /\ t \in Seq(Turn) /\ d \in 0..Len(t) /\ m + d = n /\ m \in 0..Len(s) /\ m + d <= Len(s)
      /\ \A i \in 1..d : t[i] = s[m + i]
  BY <1>1, <1>2, <1>3, TurnsOfSeq
<1>5. Costs(s)[m + d] = Costs(s)[m] + Costs(t)[d]
  BY <1>4, CostsOfBatch
<1>6. Costs(s)[m] \in Nat /\ Costs(t)[d] \in Nat
  BY <1>4, CostsType
<1>7. PICK x, y : x = Costs(s)[m] /\ y = Costs(t)[d]
  OBVIOUS
<1>8. Costs(s)[n] = x + y /\ x \in Nat /\ y \in Nat
  BY <1>4, <1>5, <1>6, <1>7
<1>9. x <= Costs(s)[n]
  BY <1>8
<1>. QED
  BY <1>7, <1>9

-----------------------------------------------------------------------------
(* What the operators of the goal return.                                   *)

LEMMA Constants ==
  /\ Budget \in Nat \ {0} /\ IdleLimit \in Nat \ {0} /\ Batch \in Nat \ {0}
  /\ MaxGoals \in Nat /\ MaxTurns \in Nat /\ MaxRevision \in Nat /\ MaxRestarts \in Nat
  /\ Commands \subseteq {"set", "pause", "resume", "clear", "report", "stop"}
  /\ Ends \subseteq {"worked", "idled", "failed", "limited", "interrupted"}
BY GoalPursuitAssumption DEF GoalPursuitAssumption

\* A function on the first n numbers is a sequence.
LEMMA SeqOf ==
  ASSUME NEW n \in Nat, NEW S, NEW f \in [1..n -> S]
  PROVE  f \in Seq(S) /\ Len(f) = n
<1>1. f \in Seq(S)
  BY SeqDef
<1>2. PICK l \in Nat : l = Len(f) /\ 1..l = 1..n
  BY <1>1, LenProperties
<1>3. l <= n /\ n <= l
  <2>1. (l > 0 => l \in 1..l) /\ (n > 0 => n \in 1..n)
    OBVIOUS
  <2>2. (l > 0 => l \in 1..n) /\ (n > 0 => n \in 1..l)
    BY <1>2, <2>1
  <2>. QED
    BY <2>2
<1>. QED
  BY <1>1, <1>2, <1>3

LEMMA SettledRunType ==
  ASSUME NEW seen \in Seq(Turn)
  PROVE  /\ SettledRun(seen) \in 0..Len(seen)
         /\ \A i \in 1..SettledRun(seen) : ~Open(seen[i])
<1>1. PICK k \in Nat : k = Len(seen)
  BY TurnsOfSeq
<1>2. PICK S : S = {n \in 0..k : \A i \in 1..n : ~Open(seen[i])}
  OBVIOUS
<1>3. S \subseteq Nat /\ 0 \in S /\ \A n \in S : n <= k
  BY <1>1, <1>2
<1>4. S # {}
  BY <1>3
<1>5. Max(S) \in S
  BY <1>1, <1>3, <1>4, MaxType
<1>6. SettledRun(seen) = Max(S)
  BY <1>1, <1>2 DEF SettledRun
<1>. QED
  BY <1>1, <1>2, <1>5, <1>6

\* What a resume or a new goal is accounted through: turns that have ended.
LEMMA SettledPrefixType ==
  ASSUME turns \in Seq(Turn), NEW from \in Nat, Prefix(from)
  PROVE  SettledPrefix(from) \in Nat /\ from <= SettledPrefix(from) /\ Prefix(SettledPrefix(from))
<1>1. PICK k \in Nat : k = Len(turns)
  BY TurnsOfSeq
<1>2. from <= k /\ \A o \in 1..from : ~Open(turns[o])
  BY <1>1 DEF Prefix
<1>3. PICK S : S = {n \in from..k : \A o \in from + 1..n : ~Open(turns[o])} \cup {from}
  OBVIOUS
<1>4. S \subseteq Nat /\ from \in S /\ \A n \in S : n <= k
  BY <1>1, <1>2, <1>3
<1>5. S # {}
  BY <1>4
<1>6. PICK m : m = Max(S)
  OBVIOUS
<1>7. m \in S
  BY <1>1, <1>4, <1>5, <1>6, MaxType
<1>8. SettledPrefix(from) = m
  BY <1>1, <1>3, <1>6 DEF SettledPrefix
<1>9. m \in from..k /\ \A o \in from + 1..m : ~Open(turns[o])
  BY <1>1, <1>2, <1>3, <1>7
<1>10. Prefix(m)
  BY <1>1, <1>2, <1>9 DEF Prefix
<1>. QED
  BY <1>8, <1>9, <1>10

Idler(t, id) == t.continues = id /\ t.phase = "completed" /\ ~t.worked

\* What one accounting does to an active goal.
LEMMA AccountedGoalIs ==
  ASSUME NEW g \in GoalRecord, g.status = "active", NEW id, NEW seen \in Seq(Turn),
         NEW n, n = SettledRun(seen), NEW r, r = AccountedGoal(g, id, seen)
  PROVE  /\ n \in 0..Len(seen) /\ r \in GoalRecord /\ r.accounted = g.accounted + n
         /\ n = 0 => r = g
         /\ Costs(seen)[n] \in Nat /\ r.tokens <= g.tokens + Costs(seen)[n]
         /\ r.status = "active" =>
                \A k \in 1..n : (\A i \in n - k + 1..n : Idler(seen[i], id)) =>
                    k <= r.idle /\ (k = n => g.idle + n <= r.idle)
<1>1. n \in 0..Len(seen) /\ n \in Nat /\ Len(seen) \in Nat /\ Costs(seen)[n] \in Nat
  BY SettledRunType, TurnsOfSeq, CostsType
<1>2. g.accounted \in Nat /\ g.tokens \in Nat /\ g.idle \in Nat /\ g.revision \in Nat
  BY DEF GoalRecord
<1>3. CASE n = 0
  <2>1. r = g
    BY <1>3 DEF AccountedGoal
  <2>. QED
    BY <1>1, <1>2, <1>3, <2>1
<1>4. CASE n # 0
  <2>1. PICK F : F = {i \in 1..n : FailureEndsGoal(seen[i])}
    OBVIOUS
  <2>2. F \subseteq 1..n /\ (F # {} => Min(F) \in F)
    <3>1. F \subseteq 1..n /\ F \subseteq Nat
      BY <1>1, <2>1
    <3>. QED
      BY <3>1, MinType
  <2>3. PICK last \in 1..n : last = IF F = {} THEN n ELSE Min(F)
    <3>1. CASE F = {}
      <4>1. n \in 1..n
        BY <1>1, <1>4
      <4>. QED
        BY <3>1, <4>1
    <3>2. CASE F # {}
      <4>1. Min(F) \in 1..n
        BY <2>2, <3>2
      <4>. QED
        BY <3>2, <4>1
    <3>. QED
      BY <3>1, <3>2
  <2>4. PICK I : I = {i \in 1..last : /\ seen[i].phase = "completed"
                                      /\ seen[i].continues = id /\ ~seen[i].worked}
    OBVIOUS
  <2>5. PICK P : P = {i \in (1..last) \ I : seen[i].phase = "completed"}
    OBVIOUS
  <2>6. PICK ended : ended = IF (1..last) \cap F = {} THEN "active"
                             ELSE IF seen[Min(F)].failure = "limit" THEN "usageLimited" ELSE "blocked"
    OBVIOUS
  <2>7. PICK idle : idle = IF P = {} THEN g.idle + Cardinality(I)
                           ELSE Cardinality({i \in I : i > Max(P)})
    OBVIOUS
  <2>8. r = [status |-> ended, revision |-> g.revision + 1, accounted |-> g.accounted + n,
             tokens |-> g.tokens + Costs(seen)[last], idle |-> idle]
    BY <1>4, <2>1, <2>3, <2>4, <2>5, <2>6, <2>7 DEF AccountedGoal, AccountedThrough
  <2>9. IsFiniteSet(I) /\ \A T \in SUBSET I : /\ IsFiniteSet(T) /\ Cardinality(T) \in Nat
                                              /\ Cardinality(T) <= Cardinality(I)
    <3>1. IsFiniteSet(1..last)
      BY <1>1, FS_Interval
    <3>2. I \subseteq 1..last
      BY <2>4
    <3>3. IsFiniteSet(I)
      BY <3>1, <3>2, FS_Subset
    <3>. QED
      BY <3>3, FS_Subset, FS_CardinalityType
  <2>10. idle \in Nat
    <3>1. Cardinality(I) \in Nat /\ {i \in I : i > Max(P)} \subseteq I
      BY <2>9
    <3>2. Cardinality({i \in I : i > Max(P)}) \in Nat
      BY <2>9, <3>1
    <3>. QED
      BY <1>2, <2>7, <3>1, <3>2
  <2>11. Costs(seen)[last] \in Nat /\ Costs(seen)[last] <= Costs(seen)[n]
    <3>1. last \in 0..Len(seen) /\ last \in 0..n
      BY <1>1
    <3>. QED
      BY <1>1, <3>1, CostsType, CostsGrow
  <2>12. ended \in Statuses
    BY <2>6 DEF Statuses
  <2>13. r \in GoalRecord
    <3>1. /\ g.revision + 1 \in Nat /\ g.accounted + n \in Nat
          /\ g.tokens + Costs(seen)[last] \in Nat
      BY <1>1, <1>2, <2>11
    <3>. QED
      BY <2>8, <2>10, <2>12, <3>1 DEF GoalRecord
  <2>14. ASSUME r.status = "active", NEW k \in 1..n, \A i \in n - k + 1..n : Idler(seen[i], id)
         PROVE  k <= r.idle /\ (k = n => g.idle + n <= r.idle)
    <3>1. F = {} /\ last = n
      <4>1. ended = "active"
        BY <2>8, <2>14
      <4>2. (1..last) \cap F = {}
        BY <2>6, <4>1
      <4>3. ASSUME F # {} PROVE FALSE
        <5>1. last \in F
          BY <2>2, <2>3, <4>3
        <5>2. last \in 1..last
          BY <1>1
        <5>. QED
          BY <4>2, <5>1, <5>2
      <4>. QED
        BY <2>3, <4>3
    <3>2. PICK K : K = n - k + 1..n
      OBVIOUS
    <3>3. K \subseteq I
      BY <1>1, <2>4, <2>14, <3>1, <3>2 DEF Idler
    <3>4. IsFiniteSet(K) /\ Cardinality(K) = k
      BY <1>1, <3>2, FS_Interval
    <3>5. CASE P = {}
      <4>1. k <= Cardinality(I) /\ Cardinality(I) \in Nat
        BY <2>9, <3>3, <3>4
      <4>. QED
        BY <1>1, <1>2, <2>7, <2>8, <3>5, <4>1
    <3>6. CASE P # {}
      <4>1. P \subseteq Nat /\ \A i \in P : i <= n
        BY <1>1, <2>5
      <4>2. PICK m \in P : m = Max(P)
        BY <1>1, <3>6, <4>1, MaxType
      <4>3. m \in 1..n /\ m \notin K
        BY <2>5, <3>1, <3>3, <4>2
      <4>4. m < n - k + 1
        BY <1>1, <3>2, <4>3
      <4>5. PICK T : T = {i \in I : i > m}
        OBVIOUS
      <4>6. K \subseteq T /\ T \subseteq I
        BY <1>1, <3>2, <3>3, <4>3, <4>4, <4>5
      <4>7. k <= Cardinality(T)
        BY <2>9, <3>4, <4>6, FS_Subset
      <4>8. r.idle = Cardinality(T)
        BY <2>7, <2>8, <3>6, <4>2, <4>5
      <4>. QED
        BY <1>1, <4>3, <4>4, <4>7, <4>8
    <3>. QED
      BY <3>5, <3>6
  <2>. QED
    BY <1>1, <1>2, <1>4, <2>8, <2>11, <2>13, <2>14
<1>. QED
  BY <1>3, <1>4

-----------------------------------------------------------------------------
(* What a step may do to the turns: those that have ended stay, others keep *)
(* the goal they continue, and new ones come behind them.                   *)

TurnsMove ==
    /\ turns' \in Seq(Turn) /\ Len(turns) <= Len(turns')
    /\ \A o \in Ordinals : /\ ~Open(turns[o]) => turns'[o] = turns[o]
                           /\ turns'[o].continues = turns[o].continues

NewAreUsers == \A o \in Len(turns) + 1..Len(turns') : turns'[o].continues = 0

LEMMA TurnsStay ==
  ASSUME IInv, UNCHANGED turns
  PROVE  TurnsMove /\ NewAreUsers /\ TurnsAgree' /\ OnePursued' /\ Ordinals' = Ordinals
<1>1. turns \in Seq(Turn) /\ Len(turns) \in Nat
  BY TurnsOfSeq DEF IInv, Shapes
<1>2. Len(turns) + 1..Len(turns) = {}
  BY <1>1
<1>3. TurnsMove
  BY <1>1 DEF TurnsMove
<1>4. NewAreUsers
  BY <1>2 DEF NewAreUsers
<1>5. TurnsAgree' /\ OnePursued' /\ Ordinals' = Ordinals
  BY DEF IInv, TurnsAgree, OnePursued, Ordinals, OpenOrdinals
<1>. QED
  BY <1>3, <1>4, <1>5

\* What is behind a settled prefix is the same after the step.
LEMMA PrefixStays ==
  ASSUME IInv, TurnsMove, NEW n \in Nat, Prefix(n)
  PROVE  /\ Prefix(n)' /\ Costs(turns')[n] = Costs(turns)[n] /\ n <= Len(turns)
         /\ \A p \in 1..n : turns'[p] = turns[p]
<1>1. PICK k \in Nat, l \in Nat : k = Len(turns) /\ l = Len(turns') /\ k <= l
  BY TurnsOfSeq DEF TurnsMove, IInv, Shapes
<1>2. \A p \in 1..n : turns'[p] = turns[p] /\ ~Open(turns[p])
  BY <1>1 DEF TurnsMove, Prefix, Ordinals
<1>3. n <= k
  BY <1>1 DEF Prefix
<1>4. Prefix(n)'
  BY <1>1, <1>2, <1>3 DEF Prefix
<1>5. Costs(turns')[n] = Costs(turns)[n]
  <2>1. PICK s, t : s = turns /\ t = turns'
    OBVIOUS
  <2>2. s \in Seq(Turn) /\ t \in Seq(Turn)
    BY <2>1 DEF IInv, Shapes, TurnsMove
  <2>3. n \in 0..Len(s) /\ n <= Len(t) /\ \A i \in 1..n : s[i].tokens = t[i].tokens
    BY <1>1, <1>2, <1>3, <2>1
  <2>4. Costs(s)[n] = Costs(t)[n]
    BY <2>2, <2>3, CostsAgree
  <2>. QED
    BY <2>1, <2>4
<1>. QED
  BY <1>1, <1>2, <1>3, <1>4, <1>5

\* Since is set to the number of turns or stays.
SinceMoves(id) == since'[id] = since[id] \/ since'[id] = Len(turns)

LEMMA CountedStays ==
  ASSUME IInv, TurnsMove, NEW g \in GoalRecord, NEW id \in GoalIds, Prefix(g.accounted),
         Counted(g, id), SinceMoves(id)
  PROVE  Counted(g, id)'
<1>1. g.accounted \in Nat /\ g.accounted <= Len(turns)
  BY DEF GoalRecord, Prefix
<1>2. \A p \in 1..g.accounted : turns'[p] = turns[p]
  BY <1>1, PrefixStays
<1>3. SUFFICES ASSUME g.status = "active", NEW k \in 1..g.accounted,
                      \A p \in g.accounted - k + 1..g.accounted :
                          p > since'[id] /\ IdleContinuation(p, id)'
               PROVE  k <= g.idle
  BY DEF Counted
<1>4. since'[id] = since[id]
  <2>1. g.accounted \in g.accounted - k + 1..g.accounted
    BY <1>1
  <2>2. g.accounted > since'[id]
    BY <1>3, <2>1
  <2>3. Len(turns) \in Nat
    BY TurnsOfSeq DEF IInv, Shapes
  <2>. QED
    BY <1>1, <2>2, <2>3 DEF SinceMoves
<1>5. \A p \in g.accounted - k + 1..g.accounted : p > since[id] /\ IdleContinuation(p, id)
  BY <1>1, <1>2, <1>3, <1>4 DEF IdleContinuation
<1>. QED
  BY <1>3, <1>5 DEF Counted

LEMMA TypesOfGoals ==
  ASSUME IInv
  PROVE  /\ Len(goals) \in Nat /\ Current = Len(goals) /\ goals \in [GoalIds -> GoalRecord]
         /\ \A id \in GoalIds : /\ goals[id] \in GoalRecord /\ goals[id].accounted \in Nat
                                /\ goals[id].tokens \in Nat /\ goals[id].idle \in Nat
                                /\ goals[id].revision \in Nat /\ goals[id].status \in Statuses
<1>1. Len(goals) \in Nat /\ goals \in [GoalIds -> GoalRecord]
  BY LenProperties DEF IInv, Shapes, GoalIds
<1>. QED
  BY <1>1 DEF GoalRecord, Current

\* One goal as it was.
LEMMA GoalStays ==
  ASSUME IInv, TurnsMove, NEW id \in GoalIds, goals'[id] = goals[id], SinceMoves(id)
  PROVE  /\ Prefix(goals[id].accounted)' /\ goals[id].tokens <= Costs(turns')[goals[id].accounted]
         /\ Counted(goals[id], id)'
<1>1. PICK g \in GoalRecord : g = goals[id]
  BY TypesOfGoals
<1>2. g.accounted \in Nat /\ Prefix(g.accounted) /\ g.tokens <= Costs(turns)[g.accounted]
      /\ Counted(g, id)
  BY <1>1, TypesOfGoals DEF IInv, GoalsAgree
<1>3. Prefix(g.accounted)' /\ Costs(turns')[g.accounted] = Costs(turns)[g.accounted]
  BY <1>2, PrefixStays
<1>4. Counted(g, id)'
  BY <1>2, CountedStays
<1>5. Counted(goals[id], id)' /\ Prefix(goals[id].accounted)'
  BY <1>1, <1>3, <1>4 DEF Counted
<1>. QED
  BY <1>1, <1>2, <1>3, <1>5

-----------------------------------------------------------------------------
(* What clients and the tick have read, over a step of somebody else.       *)

GoalsOnlyGrow ==
    /\ goals' \in Seq(GoalRecord) /\ Len(goals) <= Len(goals')

Calls == GoalCall \cup SetCall

LEMMA TypesOfCalls ==
  /\ \A x \in Calls : x.prefix \in Nat /\ x.goal \in Nat /\ x # NoCall
  /\ \A x \in GoalCall : x.op \in Operations /\ x.read \in GoalRecord /\ x.op # "set" /\ x.op # "none"
  /\ \A x \in SetCall : x.op = "set"
  /\ NoCall.op = "none"
<1>1. \A x \in Calls : x.prefix \in Nat /\ x.goal \in Nat
  BY DEF Calls, GoalCall, SetCall
<1>2. NoCall.op = "none" /\ \A x \in Calls : x.op \in Operations \cup {"set"}
  BY DEF Calls, GoalCall, SetCall, NoCall
<1>3. \A x \in Calls : x # NoCall
  BY <1>2 DEF Operations
<1>. QED
  BY <1>1, <1>2, <1>3 DEF GoalCall, SetCall, Operations

LEMMA CallStays ==
  ASSUME IInv, TurnsMove, GoalsOnlyGrow, NEW x \in Calls, CallFits(x)
  PROVE  CallFits(x)'
<1>1. x.prefix \in Nat /\ x.goal \in Nat /\ Prefix(x.prefix) /\ x.goal <= Len(goals)
  BY TypesOfCalls DEF CallFits
<1>2. Prefix(x.prefix)'
  BY <1>1, PrefixStays
<1>3. Len(goals) \in Nat /\ Len(goals') \in Nat
  BY LenProperties DEF IInv, Shapes, GoalsOnlyGrow
<1>4. x.goal <= Len(goals')
  BY <1>1, <1>3 DEF GoalsOnlyGrow
<1>. QED
  BY <1>2, <1>4 DEF CallFits

\* Nobody but one client, if anybody, reads or is done.
LEMMA CallsStep ==
  ASSUME IInv, TurnsMove, GoalsOnlyGrow,
         \/ UNCHANGED call
         \/ \E c \in Clients, x \in {NoCall} \cup Calls :
                (x # NoCall => CallFits(x)) /\ call' = [call EXCEPT ![c] = x]
  PROVE  CallsAgree' /\ call' \in [Clients -> {NoCall} \cup GoalCall \cup SetCall]
<1>1. call \in [Clients -> {NoCall} \cup Calls]
  BY DEF IInv, Shapes, Calls
<1>2. call' \in [Clients -> {NoCall} \cup Calls]
  BY <1>1
<1>3. ASSUME NEW c \in Clients, call'[c] # NoCall PROVE CallFits(call[c])'
  <2>1. PICK x : x = call'[c]
    OBVIOUS
  <2>2. x \in Calls
    BY <1>2, <1>3, <2>1
  <2>3. CallFits(x)
    BY <1>1, <1>3, <2>1 DEF IInv, CallsAgree
  <2>4. CallFits(x)'
    BY <2>2, <2>3, CallStays
  <2>. QED
    BY <2>1, <2>4 DEF CallFits
<1>. QED
  BY <1>2, <1>3 DEF CallsAgree, Calls

LEMMA TypesOfTick ==
  ASSUME IInv, tick # Idle
  PROVE  /\ tick.goal \in GoalIds /\ tick.read \in GoalRecord
         /\ tick.step \in {"observe", "account", "decide", "wake", "block"}
         /\ tick.step \in {"observe", "block"} => tick \in Reading
         /\ tick.step \in {"account", "decide"} => tick \in Seeing /\ tick.seen \in Seq(Turn)
         /\ tick.step = "wake" => tick \in Waking
<1>1. tick \in Reading \cup Seeing \cup Waking
  BY DEF IInv, Shapes
<1>2. /\ tick \in Reading => tick.read \in GoalRecord /\ tick.step \in {"observe", "block"}
      /\ tick \in Seeing => tick.read \in GoalRecord /\ tick.step \in {"account", "decide"}
                            /\ tick.seen \in Seq(Turn)
      /\ tick \in Waking => tick.read \in GoalRecord /\ tick.step = "wake"
  BY DEF Reading, Seeing, Waking
<1>3. tick.goal \in GoalIds
  BY DEF IInv, TickAgrees
<1>. QED
  BY <1>1, <1>2, <1>3

LEMMA TickStays ==
  ASSUME IInv, TurnsMove, NewAreUsers, GoalsOnlyGrow, UNCHANGED tick,
         \A id \in GoalIds : goals'[id].tokens = goals[id].tokens /\ SinceMoves(id)
  PROVE  TickAgrees'
<1>1. CASE tick = Idle
  BY <1>1 DEF TickAgrees
<1>2. CASE tick # Idle
  <2>1. PICK id \in GoalIds, g \in GoalRecord : id = tick.goal /\ g = tick.read
    BY <1>2, TypesOfTick
  <2>2. Prefix(g.accounted) /\ Counted(g, id) /\ g.tokens = goals[id].tokens /\ g.accounted \in Nat
    BY <1>2, <2>1 DEF IInv, TickAgrees, GoalRecord
  <2>3. Prefix(g.accounted)' /\ Counted(g, id)' /\ \A p \in 1..g.accounted : turns'[p] = turns[p]
    BY <2>2, PrefixStays, CountedStays
  <2>4. id \in GoalIds'
    <3>1. Len(goals) \in Nat /\ Len(goals') \in Nat /\ Len(goals) <= Len(goals')
      BY LenProperties DEF IInv, Shapes, GoalsOnlyGrow
    <3>. QED
      BY <3>1 DEF GoalIds
  <2>5. PICK k \in Nat, l \in Nat : k = Len(turns) /\ l = Len(turns') /\ k <= l
    BY TurnsOfSeq DEF TurnsMove, IInv, Shapes
  <2>6. ASSUME tick.step \in {"account", "decide"}, NEW b \in Nat, Looked(b) PROVE Looked(b)'
    <3>1. PICK n \in Nat : n = Len(tick.seen)
      BY <1>2, <2>6, TypesOfTick, TurnsOfSeq
    <3>2. b + n <= k /\ n <= Batch /\ (n < Batch => \A o \in 1..k : o > b + n => turns[o].continues = 0)
      BY <2>5, <2>6, <3>1 DEF Looked, Ordinals
    <3>3. \A o \in 1..l : turns'[o].continues = IF o <= k THEN turns[o].continues ELSE 0
      BY <2>5 DEF TurnsMove, NewAreUsers, Ordinals
    <3>4. b + n <= l
      BY <2>5, <3>2
    <3>5. ASSUME n < Batch, NEW o \in 1..l, o > b + n PROVE turns'[o].continues = 0
      BY <2>5, <3>2, <3>3, <3>5
    <3>. QED
      BY <2>5, <3>1, <3>2, <3>4, <3>5 DEF Looked, Ordinals
  <2>7. tick.step = "account" =>
            /\ Looked(g.accounted)'
            /\ \A i \in 1..Len(tick.seen) : ~Open(tick.seen[i]) =>
                   turns'[g.accounted + i] = tick.seen[i]
    <3>1. SUFFICES ASSUME tick.step = "account" PROVE
            /\ Looked(g.accounted)'
            /\ \A i \in 1..Len(tick.seen) : ~Open(tick.seen[i]) =>
                   turns'[g.accounted + i] = tick.seen[i]
      OBVIOUS
    <3>2. /\ Looked(g.accounted)
          /\ \A i \in 1..Len(tick.seen) : ~Open(tick.seen[i]) =>
                   turns[g.accounted + i] = tick.seen[i]
      BY <1>2, <2>1, <3>1 DEF IInv, TickAgrees
    <3>3. PICK n \in Nat : n = Len(tick.seen)
      BY <1>2, <3>1, TypesOfTick, TurnsOfSeq
    <3>4. g.accounted + n <= k
      BY <2>5, <3>2, <3>3 DEF Looked
    <3>5. ASSUME NEW i \in 1..n, ~Open(tick.seen[i]) PROVE turns'[g.accounted + i] = tick.seen[i]
      <4>1. g.accounted + i \in 1..k
        BY <2>2, <2>5, <3>4
      <4>2. turns[g.accounted + i] = tick.seen[i]
        BY <3>2, <3>3, <3>5
      <4>. QED
        BY <2>5, <3>5, <4>1, <4>2 DEF TurnsMove, Ordinals
    <3>6. Looked(g.accounted)'
      BY <2>2, <2>6, <3>1, <3>2
    <3>. QED
      BY <3>3, <3>5, <3>6
  <2>8. tick.step = "decide" =>
            \E b \in 0..g.accounted : g.accounted = b + SettledRun(tick.seen) /\ Looked(b)'
    <3>1. SUFFICES ASSUME tick.step = "decide" PROVE
            \E b \in 0..g.accounted : g.accounted = b + SettledRun(tick.seen) /\ Looked(b)'
      OBVIOUS
    <3>2. PICK b \in 0..g.accounted : g.accounted = b + SettledRun(tick.seen) /\ Looked(b)
      BY <1>2, <2>1, <3>1 DEF IInv, TickAgrees
    <3>3. b \in Nat
      BY <2>2
    <3>4. Looked(b)'
      BY <2>6, <3>1, <3>2, <3>3
    <3>. QED
      BY <3>2, <3>4
  <2>9. tick.step # "decide" => g.status = "active"
    BY <1>2, <2>1 DEF IInv, TickAgrees
  <2>10. tick.step = "wake" => tick.ordinal \in Ordinals'
    BY <1>2, <2>5 DEF IInv, TickAgrees, Ordinals
  <2>11. g.tokens = goals'[id].tokens
    BY <2>1, <2>2
  <2>12. Prefix(tick.read.accounted)' /\ Counted(tick.read, tick.goal)'
    BY <2>1, <2>3 DEF Prefix, Counted
  <2>. QED
    BY <1>2, <2>1, <2>4, <2>7, <2>8, <2>9, <2>10, <2>11, <2>12 DEF TickAgrees, Looked
<1>. QED
  BY <1>1, <1>2

-----------------------------------------------------------------------------
(* The rest of the daemon: turns move, goals and what was read of them stay. *)

LEMMA PursuedStays ==
  ASSUME IInv, TurnsMove, NewAreUsers
  PROVE  OnePursued'
<1>1. PICK k \in Nat, l \in Nat : k = Len(turns) /\ l = Len(turns') /\ k <= l
  BY TurnsOfSeq DEF TurnsMove, IInv, Shapes
<1>2. ASSUME NEW o \in 1..l, Open(turns'[o]), turns'[o].continues # 0
      PROVE  o \in OpenOrdinals /\ turns[o].continues # 0
  <2>1. o <= k
    BY <1>1, <1>2 DEF NewAreUsers
  <2>. QED
    BY <1>1, <1>2, <2>1 DEF TurnsMove, OpenOrdinals, Ordinals
<1>3. ASSUME NEW o \in 1..l, NEW p \in 1..l, Open(turns'[o]), Open(turns'[p]),
             turns'[o].continues # 0, turns'[p].continues # 0
      PROVE  o = p
  BY <1>2, <1>3 DEF IInv, OnePursued
<1>. QED
  BY <1>1, <1>3 DEF OnePursued, OpenOrdinals, Ordinals

LEMMA GoalsStay ==
  ASSUME IInv, TurnsMove, UNCHANGED <<goals, since>>
  PROVE  GoalsAgree' /\ GoalsOnlyGrow
<1>1. GoalIds' = GoalIds /\ Current' = Current /\ GoalsOnlyGrow
  BY LenProperties DEF IInv, Shapes, GoalIds, Current, GoalsOnlyGrow
<1>2. ASSUME NEW id \in GoalIds
      PROVE  /\ Prefix(goals[id].accounted)' /\ goals'[id].tokens <= Costs(turns')[goals'[id].accounted]
             /\ Counted(goals[id], id)' /\ (id # Current' => goals'[id].status \in Finished)
  BY <1>1, GoalStays DEF IInv, GoalsAgree, SinceMoves
<1>. QED
  BY <1>1, <1>2 DEF GoalsAgree

LEMMA QuietStep ==
  ASSUME IInv, TurnsMove, NewAreUsers, TurnsAgree', UNCHANGED <<goals, tick, call, since, restarts>>,
         woken' \subseteq Ordinals', admitting' \subseteq Ordinals'
  PROVE  IInv'
<1>1. GoalsAgree' /\ GoalsOnlyGrow
  BY GoalsStay
<1>2. CallsAgree' /\ call' \in [Clients -> {NoCall} \cup GoalCall \cup SetCall]
  BY <1>1, CallsStep
<1>3. TickAgrees'
  BY <1>1, TickStays DEF SinceMoves
<1>4. OnePursued'
  BY PursuedStays
<1>5. Shapes'
  BY <1>2 DEF IInv, Shapes, TurnsMove
<1>. QED
  BY <1>1, <1>2, <1>3, <1>4, <1>5 DEF IInv

LEMMA TypesOfTurns ==
  ASSUME IInv
  PROVE  /\ Len(turns) \in Nat /\ turns \in [Ordinals -> Turn]
         /\ \A o \in Ordinals :
                /\ turns[o] \in Turn
                /\ Open(turns[o]) <=> turns[o].dispatch \in {"awaiting", "pending", "inFlight"}
                /\ turns[o].held => turns[o].dispatch = "awaiting"
<1>1. Len(turns) \in Nat /\ turns \in [Ordinals -> Turn]
  BY LenProperties DEF IInv, Shapes, Ordinals
<1>. QED
  BY <1>1 DEF IInv, TurnsAgree

\* A turn that agrees with its dispatch.
Agrees(t) ==
    /\ Open(t) <=> t.dispatch \in {"awaiting", "pending", "inFlight"}
    /\ t.held => t.dispatch = "awaiting"

\* One unfinished turn becomes t.
LEMMA OneTurn ==
  ASSUME IInv, NEW o \in Ordinals, NEW t \in Turn, Open(turns[o]),
         t.continues = turns[o].continues, Agrees(t), turns' = [turns EXCEPT ![o] = t]
  PROVE  TurnsMove /\ NewAreUsers /\ TurnsAgree' /\ Ordinals' = Ordinals
<1>1. PICK k \in Nat : k = Len(turns)
  BY TypesOfTurns
<1>2. /\ turns' \in Seq(Turn) /\ Len(turns') = k
      /\ \A p \in 1..k : turns'[p] = IF p = o THEN t ELSE turns[p]
  BY <1>1, ExceptSeq DEF IInv, Shapes, Ordinals
<1>3. Ordinals' = 1..k /\ Ordinals = 1..k
  BY <1>1, <1>2 DEF Ordinals
<1>4. TurnsMove
  BY <1>1, <1>2, <1>3 DEF TurnsMove
<1>5. NewAreUsers
  BY <1>1, <1>2 DEF NewAreUsers
<1>6. TurnsAgree'
  BY <1>2, <1>3, TypesOfTurns DEF TurnsAgree, Agrees
<1>. QED
  BY <1>3, <1>4, <1>5, <1>6

\* A new turn behind the others.
LEMMA NewTurnType ==
  ASSUME NEW id \in Nat, NEW after \in Nat, NEW dispatch \in {"awaiting", "pending"}
  PROVE  /\ NewTurn(id, after, dispatch) \in Turn /\ Agrees(NewTurn(id, after, dispatch))
         /\ Open(NewTurn(id, after, dispatch)) /\ NewTurn(id, after, dispatch).continues = id
BY DEF NewTurn, Turn, Agrees, Open

LEMMA Appended ==
  ASSUME IInv, NEW t \in Turn, Agrees(t), turns' = Append(turns, t)
  PROVE  /\ TurnsMove /\ TurnsAgree' /\ Ordinals \subseteq Ordinals'
         /\ Len(turns') = Len(turns) + 1 /\ turns'[Len(turns) + 1] = t
         /\ \A o \in Ordinals : turns'[o] = turns[o]
<1>1. PICK k \in Nat : k = Len(turns)
  BY TypesOfTurns
<1>2. /\ turns' \in Seq(Turn) /\ Len(turns') = k + 1 /\ turns'[k + 1] = t
      /\ \A p \in 1..k : turns'[p] = turns[p]
  BY <1>1, AppendProperties DEF IInv, Shapes
<1>3. Ordinals' = 1..k + 1 /\ Ordinals = 1..k
  BY <1>1, <1>2 DEF Ordinals
<1>4. TurnsMove
  BY <1>1, <1>2, <1>3 DEF TurnsMove
<1>5. TurnsAgree'
  BY <1>2, <1>3, TypesOfTurns DEF TurnsAgree, Agrees
<1>. QED
  BY <1>1, <1>2, <1>3, <1>4, <1>5

LEMMA UserPromptStep ==
  ASSUME IInv, UserPrompt
  PROVE  IInv'
<1>1. PICK t \in Turn : t = NewTurn(0, 0, "pending") /\ Agrees(t) /\ t.continues = 0
  BY NewTurnType
<1>2. turns' = Append(turns, t) /\ UNCHANGED <<goals, woken, admitting, tick, call, since, restarts>>
  BY <1>1 DEF UserPrompt
<1>3. /\ TurnsMove /\ TurnsAgree' /\ Ordinals \subseteq Ordinals'
      /\ Len(turns') = Len(turns) + 1 /\ turns'[Len(turns) + 1] = t
  BY <1>1, <1>2, Appended
<1>4. NewAreUsers
  BY <1>1, <1>3, TypesOfTurns DEF NewAreUsers
<1>5. woken' \subseteq Ordinals' /\ admitting' \subseteq Ordinals'
  BY <1>2, <1>3 DEF IInv, Shapes
<1>. QED
  BY <1>2, <1>3, <1>4, <1>5, QuietStep

\* A step that does nothing but move one unfinished turn, and perhaps ends an admission.
LEMMA OneTurnStep ==
  ASSUME IInv, NEW o \in Ordinals, NEW t \in Turn, Open(turns[o]),
         t.continues = turns[o].continues, Agrees(t), turns' = [turns EXCEPT ![o] = t],
         admitting' \subseteq admitting, UNCHANGED <<goals, woken, tick, call, since, restarts>>
  PROVE  IInv'
<1>1. TurnsMove /\ NewAreUsers /\ TurnsAgree' /\ Ordinals' = Ordinals
  BY OneTurn
<1>2. woken' \subseteq Ordinals' /\ admitting' \subseteq Ordinals'
  BY <1>1 DEF IInv, Shapes
<1>. QED
  BY <1>1, <1>2, QuietStep

LEMMA ReleaseStep ==
  ASSUME IInv, NEW o \in Ordinals, Release(o) \/ Hold(o)
  PROVE  IInv'
<1>1. admitting' \subseteq admitting /\ UNCHANGED <<goals, woken, tick, call, since, restarts>>
  BY DEF Release, Hold
<1>2. CASE turns[o].dispatch = "awaiting"
  <2>1. PICK u \in Turn : u = turns[o] /\ Open(u)
    BY <1>2, TypesOfTurns
  <2>2. CASE Release(o)
    <3>1. PICK t : t = [u EXCEPT !.dispatch = "pending", !.held = FALSE]
      OBVIOUS
    <3>2. t \in Turn /\ t.continues = u.continues /\ Agrees(t)
      BY <2>1, <3>1 DEF Turn, Agrees, Open
    <3>3. turns' = [turns EXCEPT ![o] = t]
      BY <1>2, <2>1, <2>2, <3>1, TypesOfTurns DEF Release
    <3>. QED
      BY <1>1, <2>1, <3>2, <3>3, OneTurnStep
  <2>3. CASE Hold(o)
    <3>1. PICK t : t = [u EXCEPT !.held = TRUE]
      OBVIOUS
    <3>2. t \in Turn /\ t.continues = u.continues /\ Agrees(t)
      BY <1>2, <2>1, <3>1 DEF Turn, Agrees, Open
    <3>3. turns' = [turns EXCEPT ![o] = t]
      BY <1>2, <2>1, <2>3, <3>1, TypesOfTurns DEF Hold
    <3>. QED
      BY <1>1, <2>1, <3>2, <3>3, OneTurnStep
  <2>. QED
    BY <2>2, <2>3
<1>3. CASE turns[o].dispatch # "awaiting"
  <2>1. turns' = turns
    BY <1>3 DEF Release, Hold
  <2>2. TurnsMove /\ NewAreUsers /\ TurnsAgree' /\ Ordinals' = Ordinals
    BY <2>1, TurnsStay
  <2>3. woken' \subseteq Ordinals' /\ admitting' \subseteq Ordinals'
    BY <1>1, <2>2 DEF IInv, Shapes
  <2>. QED
    BY <1>1, <2>2, <2>3, QuietStep
<1>. QED
  BY <1>2, <1>3

LEMMA HeldStep ==
  ASSUME IInv, NEW o \in Ordinals, ReleaseHeld(o) \/ CancelHeld(o)
  PROVE  IInv'
<1>1. admitting' \subseteq admitting /\ UNCHANGED <<goals, woken, tick, call, since, restarts>>
      /\ turns[o].held
  BY DEF ReleaseHeld, CancelHeld
<1>2. PICK u \in Turn : u = turns[o] /\ Open(u)
  BY <1>1, TypesOfTurns
<1>3. CASE ReleaseHeld(o)
  <2>1. PICK t : t = [u EXCEPT !.dispatch = "pending", !.held = FALSE]
    OBVIOUS
  <2>2. t \in Turn /\ t.continues = u.continues /\ Agrees(t)
    BY <1>2, <2>1 DEF Turn, Agrees, Open
  <2>3. turns' = [turns EXCEPT ![o] = t]
    BY <1>2, <1>3, <2>1, TypesOfTurns DEF ReleaseHeld
  <2>. QED
    BY <1>1, <1>2, <2>2, <2>3, OneTurnStep
<1>4. CASE CancelHeld(o)
  <2>1. PICK t : t = [u EXCEPT !.dispatch = "settled", !.phase = "cancelled", !.held = FALSE]
    OBVIOUS
  <2>2. t \in Turn /\ t.continues = u.continues /\ Agrees(t)
    BY <1>2, <2>1 DEF Turn, Agrees, Open
  <2>3. turns' = [turns EXCEPT ![o] = t]
    BY <1>2, <1>4, <2>1, TypesOfTurns DEF CancelHeld
  <2>. QED
    BY <1>1, <1>2, <2>2, <2>3, OneTurnStep
<1>. QED
  BY <1>3, <1>4

LEMMA DispatchStep ==
  ASSUME IInv, NEW o \in Ordinals, Dispatch(o)
  PROVE  IInv'
<1>1. admitting' \subseteq admitting /\ UNCHANGED <<goals, woken, tick, call, since, restarts>>
      /\ turns[o].dispatch = "pending"
  BY DEF Dispatch, NextPending
<1>2. PICK u \in Turn : u = turns[o] /\ Open(u) /\ ~u.held
  BY <1>1, TypesOfTurns
<1>3. CASE Inactive(o)
  <2>1. PICK t : t = [u EXCEPT !.dispatch = "settled", !.phase = "cancelled"]
    OBVIOUS
  <2>2. t \in Turn /\ t.continues = u.continues /\ Agrees(t)
    BY <1>2, <2>1 DEF Turn, Agrees, Open
  <2>3. turns' = [turns EXCEPT ![o] = t]
    BY <1>2, <1>3, <2>1, TypesOfTurns DEF Dispatch
  <2>. QED
    BY <1>1, <1>2, <2>2, <2>3, OneTurnStep
<1>4. CASE ~Inactive(o)
  <2>1. PICK t : t = [u EXCEPT !.dispatch = "inFlight"]
    OBVIOUS
  <2>2. t \in Turn /\ t.continues = u.continues /\ Agrees(t)
    BY <1>2, <2>1 DEF Turn, Agrees, Open
  <2>3. turns' = [turns EXCEPT ![o] = t]
    BY <1>2, <1>4, <2>1, TypesOfTurns DEF Dispatch
  <2>. QED
    BY <1>1, <1>2, <2>2, <2>3, OneTurnStep
<1>. QED
  BY <1>3, <1>4

LEMMA FinishStep ==
  ASSUME IInv, NEW o \in Ordinals, NEW end \in Ends, Finish(o, end)
  PROVE  IInv'
<1>1. admitting' \subseteq admitting /\ UNCHANGED <<goals, woken, tick, call, since, restarts>>
      /\ turns[o].dispatch = "inFlight"
  BY DEF Finish
<1>2. PICK u \in Turn : u = turns[o] /\ Open(u) /\ ~u.held
  BY <1>1, TypesOfTurns
<1>3. PICK t : t = Ended(u, end)
  OBVIOUS
<1>4. end \in {"worked", "idled", "failed", "limited", "interrupted"}
  BY Constants
<1>5. t \in Turn /\ t.continues = u.continues /\ Agrees(t)
  <2>1. PICK phase : phase = CASE end \in {"worked", "idled"} -> "completed"
                               [] end \in {"failed", "limited"} -> "failed"
                               [] end = "interrupted" -> "interrupted"
    OBVIOUS
  <2>2. PICK failure : failure = CASE end = "limited" -> "limit"
                                   [] end = "failed" -> "other"
                                   [] OTHER -> "none"
    OBVIOUS
  <2>3. phase \in {"completed", "failed", "interrupted"} /\ failure \in {"limit", "other", "none"}
    BY <1>4, <2>1, <2>2
  <2>4. t = [u EXCEPT !.dispatch = "settled", !.phase = phase, !.tokens = 1,
                      !.worked = (end = "worked"), !.failure = failure]
    BY <1>3, <2>1, <2>2 DEF Ended
  <2>. QED
    BY <1>2, <2>3, <2>4 DEF Turn, Agrees, Open
<1>6. turns' = [turns EXCEPT ![o] = t]
  BY <1>2, <1>3 DEF Finish
<1>. QED
  BY <1>1, <1>2, <1>5, <1>6, OneTurnStep

-----------------------------------------------------------------------------
(* Reads of clients, and the steps of the tick that write no goal.          *)

LEMMA RestartStep ==
  ASSUME IInv, NEW sent \in BOOLEAN, Restart(sent)
  PROVE  IInv'
<1>1. PICK k \in Nat : k = Len(turns) /\ Ordinals = 1..k
  BY TypesOfTurns DEF Ordinals
<1>2. /\ turns' = [o \in 1..k |-> Recovered(turns[o], sent)]
      /\ woken' = {} /\ admitting' = {o \in 1..k : turns[o].dispatch = "awaiting"}
      /\ tick' = Idle /\ call' = [c \in Clients |-> NoCall] /\ UNCHANGED <<goals, since>>
      /\ restarts' = restarts + 1 /\ restarts < MaxRestarts
  BY <1>1 DEF Restart
<1>3. ASSUME NEW o \in 1..k
      PROVE  /\ Recovered(turns[o], sent) \in Turn /\ Agrees(Recovered(turns[o], sent))
             /\ Recovered(turns[o], sent).continues = turns[o].continues
             /\ ~Open(turns[o]) => Recovered(turns[o], sent) = turns[o]
  <2>1. PICK u \in Turn : u = turns[o] /\ Agrees(u)
    BY <1>1, <1>3, TypesOfTurns DEF Agrees
  <2>2. CASE u.dispatch # "inFlight"
    BY <2>1, <2>2 DEF Recovered
  <2>3. CASE u.dispatch = "inFlight" /\ sent
    <3>1. PICK t : t = [u EXCEPT !.dispatch = "unprovable", !.phase = "failed"]
      OBVIOUS
    <3>2. t = Recovered(turns[o], sent)
      BY <2>1, <2>3, <3>1 DEF Recovered
    <3>3. t \in Turn /\ Agrees(t) /\ t.continues = u.continues /\ Open(u)
      BY <2>1, <2>3, <3>1 DEF Turn, Agrees, Open
    <3>. QED
      BY <2>1, <3>2, <3>3
  <2>4. CASE u.dispatch = "inFlight" /\ ~sent
    <3>1. PICK t : t = [u EXCEPT !.dispatch = "pending"]
      OBVIOUS
    <3>2. t = Recovered(turns[o], sent)
      BY <2>1, <2>4, <3>1 DEF Recovered
    <3>3. t \in Turn /\ Agrees(t) /\ t.continues = u.continues /\ Open(u)
      BY <2>1, <2>4, <3>1 DEF Turn, Agrees, Open
    <3>. QED
      BY <2>1, <3>2, <3>3
  <2>. QED
    BY <2>2, <2>3, <2>4
<1>4. turns' \in [1..k -> Turn]
  BY <1>2, <1>3
<1>5. turns' \in Seq(Turn) /\ Len(turns') = k
  BY <1>4, SeqOf
<1>6. Ordinals' = 1..k /\ \A o \in 1..k : turns'[o] = Recovered(turns[o], sent)
  BY <1>2, <1>5 DEF Ordinals
<1>7. TurnsMove /\ NewAreUsers
  BY <1>1, <1>3, <1>5, <1>6 DEF TurnsMove, NewAreUsers
<1>8. TurnsAgree'
  BY <1>3, <1>6 DEF TurnsAgree, Agrees
<1>9. OnePursued' /\ GoalsAgree'
  BY <1>2, <1>7, PursuedStays, GoalsStay
<1>10. CallsAgree' /\ TickAgrees'
  BY <1>2 DEF CallsAgree, TickAgrees
<1>11. Shapes'
  BY <1>2, <1>5, <1>6, Constants DEF IInv, Shapes
<1>. QED
  BY <1>8, <1>9, <1>10, <1>11 DEF IInv

LEMMA ReadStep ==
  ASSUME IInv, NEW c \in Clients, NEW x \in {NoCall} \cup Calls, x # NoCall => CallFits(x),
         call' = [call EXCEPT ![c] = x],
         UNCHANGED <<goals, turns, woken, admitting, tick, since, restarts>>
  PROVE  IInv'
<1>1. TurnsMove /\ NewAreUsers /\ TurnsAgree' /\ OnePursued' /\ Ordinals' = Ordinals
  BY TurnsStay
<1>2. GoalsAgree' /\ GoalsOnlyGrow
  BY <1>1, GoalsStay
<1>3. CallsAgree' /\ call' \in [Clients -> {NoCall} \cup GoalCall \cup SetCall]
  BY <1>1, <1>2, CallsStep
<1>4. TickAgrees'
  BY <1>1, <1>2, TickStays DEF SinceMoves
<1>5. Shapes'
  BY <1>1, <1>3 DEF IInv, Shapes
<1>. QED
  BY <1>1, <1>2, <1>3, <1>4, <1>5 DEF IInv

LEMMA ReadGoalStep ==
  ASSUME IInv, NEW c \in Clients, NEW op \in Commands \ {"set"}, NEW id \in GoalIds,
         ReadGoal(c, op, id)
  PROVE  IInv'
<1>1. PICK g \in GoalRecord : g = goals[id] /\ g.accounted \in Nat /\ Prefix(g.accounted)
  BY TypesOfGoals DEF IInv, GoalsAgree
<1>2. PICK m \in Nat : m = SettledPrefix(g.accounted) /\ g.accounted <= m /\ Prefix(m)
  BY <1>1, SettledPrefixType DEF IInv, Shapes
<1>3. PICK x : x = [op |-> op, goal |-> id, read |-> g, prefix |-> m]
  OBVIOUS
<1>4. op \in Operations /\ id \in Nat /\ id > 0 /\ id <= Len(goals)
  BY Constants, TypesOfGoals DEF Operations, GoalIds
<1>5. x \in Calls
  BY <1>3, <1>4 DEF Calls, GoalCall
<1>6. /\ op \in {"pause", "stop", "report"} => g.status = "active"
      /\ op = "resume" => g.status \in Resumable
  BY <1>1, <1>4 DEF ReadGoal, Allowed
<1>7. CallFits(x)
  BY <1>2, <1>3, <1>4, <1>6 DEF CallFits
<1>8. call' = [call EXCEPT ![c] = x]
      /\ UNCHANGED <<goals, turns, woken, admitting, tick, since, restarts>>
  BY <1>1, <1>2, <1>3 DEF ReadGoal
<1>. QED
  BY <1>5, <1>7, <1>8, ReadStep

LEMMA ReadForSetStep ==
  ASSUME IInv, NEW c \in Clients, ReadForSet(c)
  PROVE  IInv'
<1>1. Prefix(0)
  BY TypesOfTurns DEF Prefix
<1>2. PICK m \in Nat : m = SettledPrefix(0) /\ Prefix(m)
  BY <1>1, SettledPrefixType DEF IInv, Shapes
<1>3. PICK read \in GoalRecord \cup {<<>>} : read = IF Current = 0 THEN <<>> ELSE goals[Current]
  <2>1. Current # 0 => Current \in GoalIds
    BY TypesOfGoals DEF GoalIds
  <2>. QED
    BY <2>1, TypesOfGoals
<1>4. PICK x : x = [op |-> "set", goal |-> Current, read |-> read, prefix |-> m]
  OBVIOUS
<1>5. x \in Calls
  BY <1>4, TypesOfGoals DEF Calls, SetCall
<1>6. CallFits(x)
  BY <1>2, <1>4, TypesOfGoals DEF CallFits
<1>7. call' = [call EXCEPT ![c] = x]
      /\ UNCHANGED <<goals, turns, woken, admitting, tick, since, restarts>>
  BY <1>2, <1>3, <1>4 DEF ReadForSet
<1>. QED
  BY <1>5, <1>6, <1>7, ReadStep

\* The tick moves on and writes no goal.
LEMMA TickStep ==
  ASSUME IInv, TurnsMove, TurnsAgree', OnePursued', UNCHANGED <<goals, call, since, restarts>>,
         woken' \subseteq Ordinals', admitting' \subseteq Ordinals',
         tick' \in {Idle} \cup Reading \cup Seeing \cup Waking, TickAgrees'
  PROVE  IInv'
<1>1. GoalsAgree' /\ GoalsOnlyGrow
  BY GoalsStay
<1>2. CallsAgree' /\ call' \in [Clients -> {NoCall} \cup GoalCall \cup SetCall]
  BY <1>1, CallsStep
<1>3. Shapes'
  BY <1>2 DEF IInv, Shapes, TurnsMove
<1>. QED
  BY <1>1, <1>2, <1>3 DEF IInv

\* What the tick has read of the goal, when only turns moved.
ReadFits(g, id) ==
    g \in GoalRecord /\ id \in GoalIds /\ Prefix(g.accounted) /\ g.tokens = goals[id].tokens
    /\ Counted(g, id)

LEMMA ReadFitsNow ==
  ASSUME IInv, tick # Idle
  PROVE  /\ ReadFits(tick.read, tick.goal)
         /\ tick.step # "decide" => tick.read.status = "active"
BY TypesOfTick DEF IInv, TickAgrees, ReadFits

LEMMA ReadFitsStays ==
  ASSUME IInv, TurnsMove, UNCHANGED <<goals, since>>, NEW g, NEW id, ReadFits(g, id)
  PROVE  /\ g \in GoalRecord /\ id \in Nat /\ id \in GoalIds' /\ Prefix(g.accounted)'
         /\ g.tokens = goals'[id].tokens /\ Counted(g, id)' /\ g.accounted \in Nat
<1>1. g \in GoalRecord /\ id \in GoalIds /\ g.accounted \in Nat /\ Prefix(g.accounted) /\ Counted(g, id)
  BY DEF ReadFits, GoalRecord
<1>2. Prefix(g.accounted)' /\ Counted(g, id)'
  BY <1>1, PrefixStays, CountedStays DEF SinceMoves
<1>3. id \in Nat /\ id \in GoalIds'
  BY <1>1, TypesOfGoals DEF GoalIds
<1>4. g.tokens = goals'[id].tokens
  BY DEF ReadFits
<1>. QED
  BY <1>1, <1>2, <1>3, <1>4

LEMMA BeginTickStep ==
  ASSUME IInv, NEW id \in GoalIds, BeginTick(id)
  PROVE  IInv'
<1>1. TurnsMove /\ NewAreUsers /\ TurnsAgree' /\ OnePursued' /\ Ordinals' = Ordinals
  BY TurnsStay DEF BeginTick
<1>2. PICK g : g = goals[id] /\ g.status = "active" /\ ReadFits(g, id)
  BY TypesOfGoals DEF BeginTick, IInv, GoalsAgree, ReadFits
<1>3. PICK x : x = [step |-> "observe", goal |-> id, read |-> g] /\ tick' = x
  BY <1>2 DEF BeginTick
<1>4. UNCHANGED <<goals, turns, woken, admitting, call, since, restarts>>
  BY DEF BeginTick
<1>5. /\ g \in GoalRecord /\ id \in Nat /\ id \in GoalIds' /\ Prefix(g.accounted)'
      /\ g.tokens = goals'[id].tokens /\ Counted(g, id)'
  BY <1>1, <1>2, <1>4, ReadFitsStays
<1>6. TickAgrees'
  BY <1>2, <1>3, <1>5 DEF TickAgrees
<1>7. tick' \in {Idle} \cup Reading \cup Seeing \cup Waking
  BY <1>3, <1>5 DEF Reading
<1>8. woken' \subseteq Ordinals' /\ admitting' \subseteq Ordinals'
  BY <1>1, <1>4 DEF IInv, Shapes
<1>. QED
  BY <1>1, <1>4, <1>6, <1>7, <1>8, TickStep

LEMMA StopStep ==
  ASSUME IInv, Stop
  PROVE  IInv'
<1>1. TurnsMove /\ NewAreUsers /\ TurnsAgree' /\ OnePursued' /\ Ordinals' = Ordinals
  BY TurnsStay DEF Stop
<1>2. tick' = Idle /\ UNCHANGED <<goals, turns, woken, admitting, call, since, restarts>>
  BY DEF Stop
<1>3. TickAgrees'
  BY <1>2 DEF TickAgrees
<1>4. woken' \subseteq Ordinals' /\ admitting' \subseteq Ordinals'
  BY <1>1, <1>2 DEF IInv, Shapes
<1>. QED
  BY <1>1, <1>2, <1>3, <1>4, TickStep

LEMMA ObserveStep ==
  ASSUME IInv, Observe
  PROVE  IInv'
<1>1. TurnsMove /\ NewAreUsers /\ TurnsAgree' /\ OnePursued' /\ Ordinals' = Ordinals
  BY TurnsStay DEF Observe
<1>2. UNCHANGED <<goals, turns, woken, admitting, call, since, restarts>> /\ tick.step = "observe"
  BY DEF Observe
<1>3. tick # Idle
  BY <1>2 DEF Idle
<1>4. PICK g, id : g = tick.read /\ id = tick.goal /\ ReadFits(g, id) /\ g.status = "active"
  BY <1>2, <1>3, ReadFitsNow
<1>5. /\ g \in GoalRecord /\ id \in Nat /\ id \in GoalIds' /\ Prefix(g.accounted)'
      /\ g.tokens = goals'[id].tokens /\ Counted(g, id)' /\ g.accounted \in Nat
  BY <1>1, <1>2, <1>4, ReadFitsStays
<1>6. PICK k \in Nat : k = Len(turns) /\ Ordinals = 1..k
  BY TypesOfTurns DEF Ordinals
<1>7. PICK n \in Nat : n = Min({k, g.accounted + Batch})
  <2>1. {k, g.accounted + Batch} \subseteq Nat
    BY <1>5, <1>6, Constants
  <2>. QED
    BY <2>1, MinType
<1>8. g.accounted <= n /\ n <= k /\ n - g.accounted <= Batch /\ (n < g.accounted + Batch => n = k)
  <2>1. g.accounted <= k
    BY <1>4, <1>6 DEF ReadFits, Prefix
  <2>2. {k, g.accounted + Batch} \subseteq Nat
    BY <1>5, <1>6, Constants
  <2>3. n \in {k, g.accounted + Batch} /\ n <= k /\ n <= g.accounted + Batch
    BY <1>7, <2>2, MinType
  <2>. QED
    BY <1>5, <1>6, <2>1, <2>3, Constants
<1>9. PICK seen : seen = SubSeq(turns, g.accounted + 1, n)
  OBVIOUS
<1>10. /\ seen \in Seq(Turn) /\ Len(seen) = n - g.accounted
       /\ \A i \in 1..n - g.accounted : seen[i] = turns[g.accounted + i]
  <2>1. \A i \in g.accounted + 1..n : turns[i] \in Turn
    BY <1>5, <1>6, <1>8, TypesOfTurns
  <2>2. g.accounted + 1 \in Int /\ n \in Int
    BY <1>5
  <2>3. /\ seen \in Seq(Turn)
        /\ Len(seen) = IF g.accounted + 1 <= n THEN n - (g.accounted + 1) + 1 ELSE 0
        /\ \A i \in 1..n - (g.accounted + 1) + 1 : seen[i] = turns[g.accounted + 1 + i - 1]
    BY <1>9, <2>1, <2>2, SubSeqProperties
  <2>. QED
    BY <1>5, <1>8, <2>3
<1>11. PICK x : /\ x = [step |-> "account", goal |-> id, read |-> g, seen |-> seen]
                /\ tick' = x
  BY <1>4, <1>6, <1>7, <1>9 DEF Observe
<1>12. Looked(g.accounted)'
  <2>1. Len(x.seen) = n - g.accounted
    BY <1>10, <1>11
  <2>2. g.accounted + (n - g.accounted) = n
    BY <1>5
  <2>3. n - g.accounted < Batch => n = k
    BY <1>5, <1>6, <1>8, Constants
  <2>4. \A o \in 1..k : ~(o > k)
    BY <1>6
  <2>. QED
    BY <1>1, <1>2, <1>6, <1>8, <1>11, <2>1, <2>2, <2>3, <2>4 DEF Looked
<1>13. TickAgrees'
  BY <1>2, <1>4, <1>5, <1>10, <1>11, <1>12 DEF TickAgrees
<1>14. tick' \in {Idle} \cup Reading \cup Seeing \cup Waking
  BY <1>5, <1>10, <1>11 DEF Seeing
<1>15. woken' \subseteq Ordinals' /\ admitting' \subseteq Ordinals'
  BY <1>1, <1>2 DEF IInv, Shapes
<1>. QED
  BY <1>1, <1>2, <1>13, <1>14, <1>15, TickStep

LEMMA NothingOpenBefore ==
  ASSUME IInv, tick.step = "decide", PursuitStep = "admit"
  PROVE  /\ \A o \in Ordinals : o > tick.read.accounted => turns[o].continues = 0
         /\ tick.read.status = "active" /\ ~BudgetExhausted(tick.read) /\ ~IdleExhausted(tick.read)
<1>1. tick # Idle
  BY DEF Idle
<1>2. tick.seen \in Seq(Turn) /\ tick.read \in GoalRecord
  BY <1>1, TypesOfTick
<1>3. PICK n \in Nat, r \in Nat : n = Len(tick.seen) /\ r = SettledRun(tick.seen) /\ r <= n
  BY <1>2, TurnsOfSeq, SettledRunType
<1>4. ~BatchIsFull /\ ~HasOpen /\ tick.read.status = "active" /\ StepOfGoal(tick.read) = "admit"
  BY DEF PursuitStep
<1>5. r = n
  BY <1>3, <1>4 DEF HasOpen
<1>6. PICK b \in 0..tick.read.accounted : tick.read.accounted = b + r /\ Looked(b)
  BY <1>1, <1>3 DEF IInv, TickAgrees
<1>7. n < Batch
  <2>1. SUFFICES ASSUME n >= Batch PROVE FALSE
    BY <1>3, Constants
  <2>2. \A i \in 1..n : ~Open(tick.seen[i])
    BY <1>2, <1>3, <1>5, SettledRunType
  <2>3. n # Batch
    BY <1>3, <1>4, <2>2 DEF BatchIsFull
  <2>4. n <= Batch
    BY <1>3, <1>6 DEF Looked
  <2>. QED
    BY <1>3, <2>1, <2>3, <2>4, Constants
<1>8. \A o \in Ordinals : o > tick.read.accounted => turns[o].continues = 0
  BY <1>3, <1>5, <1>6, <1>7 DEF Looked
<1>9. ~BudgetExhausted(tick.read) /\ ~IdleExhausted(tick.read)
  BY <1>4 DEF StepOfGoal
<1>. QED
  BY <1>4, <1>8, <1>9

\* The tick takes an unfinished continuation, or one it saved before, to be woken.
LEMMA ToWake ==
  ASSUME IInv, TurnsMove, TurnsAgree', OnePursued', UNCHANGED <<goals, woken, admitting, call, since, restarts>>,
         Ordinals \subseteq Ordinals', tick # Idle, tick.read.status = "active", NEW o \in Ordinals',
         tick' = [step |-> "wake", goal |-> tick.goal, read |-> tick.read, ordinal |-> o]
  PROVE  IInv'
<1>1. PICK g, id : g = tick.read /\ id = tick.goal /\ ReadFits(g, id) /\ g.status = "active"
  BY ReadFitsNow
<1>2. /\ g \in GoalRecord /\ id \in Nat /\ id \in GoalIds' /\ Prefix(g.accounted)'
      /\ g.tokens = goals'[id].tokens /\ Counted(g, id)'
  BY <1>1, ReadFitsStays
<1>3. PICK x : x = [step |-> "wake", goal |-> id, read |-> g, ordinal |-> o] /\ tick' = x
  BY <1>1
<1>4. TickAgrees'
  BY <1>1, <1>2, <1>3 DEF TickAgrees
<1>5. o \in Nat
  BY LenProperties DEF TurnsMove, Ordinals
<1>6. tick' \in {Idle} \cup Reading \cup Seeing \cup Waking
  BY <1>2, <1>3, <1>5 DEF Waking
<1>7. woken' \subseteq Ordinals' /\ admitting' \subseteq Ordinals'
  BY DEF IInv, Shapes
<1>. QED
  BY <1>4, <1>6, <1>7, TickStep

LEMMA RewakeStep ==
  ASSUME IInv, Rewake
  PROVE  IInv'
<1>1. TurnsMove /\ NewAreUsers /\ TurnsAgree' /\ OnePursued' /\ Ordinals' = Ordinals
  BY TurnsStay DEF Rewake
<1>2. UNCHANGED <<goals, turns, woken, admitting, call, since, restarts>> /\ tick.step = "decide"
      /\ PursuitStep = "rewake"
  BY DEF Rewake
<1>3. tick # Idle
  BY <1>2 DEF Idle
<1>4. tick.read.status = "active" /\ HasOpen
  BY <1>2 DEF PursuitStep, StepOfGoal
<1>5. FirstOpenOrdinal \in Ordinals
  <2>1. PICK n \in Nat, r \in Nat : n = Len(tick.seen) /\ r = SettledRun(tick.seen) /\ r <= n
    BY <1>2, <1>3, TypesOfTick, TurnsOfSeq, SettledRunType
  <2>2. PICK a \in Nat : a = tick.read.accounted
    BY <1>3, TypesOfTick DEF GoalRecord
  <2>3. PICK b \in 0..a : a = b + r /\ Looked(b)
    BY <1>2, <1>3, <2>1, <2>2 DEF IInv, TickAgrees
  <2>4. r < n /\ b + n <= Len(turns)
    BY <1>4, <2>1, <2>3 DEF HasOpen, Looked
  <2>5. a + 1 \in 1..Len(turns)
    BY <2>1, <2>2, <2>3, <2>4, TypesOfTurns
  <2>. QED
    BY <2>2, <2>5 DEF FirstOpenOrdinal, Ordinals
<1>6. tick' = [step |-> "wake", goal |-> tick.goal, read |-> tick.read, ordinal |-> FirstOpenOrdinal]
  BY DEF Rewake
<1>7. FirstOpenOrdinal \in Ordinals' /\ Ordinals \subseteq Ordinals'
  BY <1>1, <1>5
<1>. QED
  BY <1>1, <1>2, <1>3, <1>4, <1>6, <1>7, ToWake

LEMMA AdmitStep ==
  ASSUME IInv, Admit
  PROVE  IInv'
<1>1. UNCHANGED <<goals, woken, admitting, call, since, restarts>> /\ tick.step = "decide"
      /\ PursuitStep = "admit"
  BY DEF Admit
<1>2. tick # Idle
  BY <1>1 DEF Idle
<1>3. tick.read.status = "active" /\ \A o \in Ordinals : o > tick.read.accounted => turns[o].continues = 0
  BY <1>1, NothingOpenBefore
<1>4. CASE SavedBefore # {}
  <2>1. PICK o \in SavedBefore :
            tick' = [step |-> "wake", goal |-> tick.goal, read |-> tick.read, ordinal |-> o]
    BY <1>4 DEF Admit
  <2>2. TurnsMove /\ NewAreUsers /\ TurnsAgree' /\ OnePursued' /\ Ordinals' = Ordinals
    BY <1>4, TurnsStay DEF Admit
  <2>3. o \in Ordinals' /\ Ordinals \subseteq Ordinals'
    BY <2>2 DEF SavedBefore
  <2>. QED
    BY <1>1, <1>2, <1>3, <2>1, <2>2, <2>3, ToWake
<1>5. CASE SavedBefore = {}
  <2>1. PICK a \in Nat, id \in Nat : a = tick.read.accounted /\ id = tick.goal
    BY <1>2, TypesOfTick, TypesOfGoals DEF GoalRecord, GoalIds
  <2>2. PICK t \in Turn : t = NewTurn(id, a, "awaiting") /\ Agrees(t)
    BY NewTurnType
  <2>3. turns' = Append(turns, t)
        /\ tick' = [step |-> "wake", goal |-> tick.goal, read |-> tick.read, ordinal |-> Len(turns) + 1]
    BY <1>5, <2>1, <2>2 DEF Admit
  <2>4. /\ TurnsMove /\ TurnsAgree' /\ Ordinals \subseteq Ordinals'
        /\ Len(turns') = Len(turns) + 1 /\ turns'[Len(turns) + 1] = t
        /\ \A o \in Ordinals : turns'[o] = turns[o]
    BY <2>2, <2>3, Appended
  <2>5. PICK k \in Nat : k = Len(turns) /\ Ordinals = 1..k /\ Ordinals' = 1..(k + 1)
    BY <2>4, TypesOfTurns DEF Ordinals
  <2>6. ASSUME NEW o \in 1..k, Open(turns[o]) PROVE turns[o].continues = 0
    <3>1. CASE o > a
      BY <1>3, <2>1, <2>5, <3>1
    <3>2. CASE o <= a
      <4>1. Prefix(a) /\ o \in 1..a
        BY <1>2, <2>1, <3>2, ReadFitsNow DEF ReadFits
      <4>. QED
        BY <2>6, <4>1 DEF Prefix
    <3>. QED
      BY <2>1, <3>1, <3>2
  <2>7. ASSUME NEW o \in 1..(k + 1), Open(turns'[o]), turns'[o].continues # 0 PROVE o = k + 1
    <3>1. SUFFICES ASSUME o \in 1..k PROVE FALSE
      BY <2>5
    <3>. QED
      BY <2>4, <2>5, <2>6, <2>7, <3>1
  <2>8. OnePursued'
    BY <2>5, <2>7 DEF OnePursued, OpenOrdinals
  <2>9. Len(turns) + 1 \in Ordinals'
    BY <2>5
  <2>. QED
    BY <1>1, <1>2, <1>3, <2>3, <2>4, <2>8, <2>9, ToWake
<1>. QED
  BY <1>4, <1>5

LEMMA WakeStep ==
  ASSUME IInv, NEW answer \in Admissions, Wake(answer)
  PROVE  IInv'
<1>1. TurnsMove /\ NewAreUsers /\ TurnsAgree' /\ OnePursued' /\ Ordinals' = Ordinals
  BY TurnsStay DEF Wake
<1>2. UNCHANGED <<goals, turns, call, since, restarts>> /\ tick.step = "wake"
  BY DEF Wake
<1>3. tick # Idle
  BY <1>2 DEF Idle
<1>4. tick.ordinal \in Ordinals
  BY <1>2, <1>3 DEF IInv, TickAgrees
<1>5. woken' \subseteq Ordinals' /\ admitting' \subseteq Ordinals'
  BY <1>1, <1>4 DEF Wake, IInv, Shapes
<1>6. PICK g, id : g = tick.read /\ id = tick.goal /\ ReadFits(g, id) /\ g.status = "active"
  BY <1>2, <1>3, ReadFitsNow
<1>7. /\ g \in GoalRecord /\ id \in Nat /\ id \in GoalIds' /\ Prefix(g.accounted)'
      /\ g.tokens = goals'[id].tokens /\ Counted(g, id)'
  BY <1>1, <1>2, <1>6, ReadFitsStays
<1>8. CASE tick' = Idle
  <2>1. TickAgrees'
    BY <1>8 DEF TickAgrees
  <2>. QED
    BY <1>1, <1>2, <1>5, <1>8, <2>1, TickStep
<1>9. CASE tick' = [step |-> "block", goal |-> tick.goal, read |-> tick.read]
  <2>1. PICK x : x = [step |-> "block", goal |-> id, read |-> g] /\ tick' = x
    BY <1>6, <1>9
  <2>2. TickAgrees'
    BY <1>6, <1>7, <2>1 DEF TickAgrees
  <2>3. tick' \in {Idle} \cup Reading \cup Seeing \cup Waking
    BY <1>7, <2>1 DEF Reading
  <2>. QED
    BY <1>1, <1>2, <1>5, <2>2, <2>3, TickStep
<1>. QED
  BY <1>8, <1>9 DEF Wake

-----------------------------------------------------------------------------
(* The writes of a goal.                                                    *)

\* One goal is replaced by g, which agrees with the turns.
LEMMA OneGoal ==
  ASSUME IInv, UNCHANGED turns, NEW id \in GoalIds, NEW g \in GoalRecord,
         goals' = [goals EXCEPT ![id] = g],
         Prefix(g.accounted), g.tokens <= Costs(turns)[g.accounted],
         id # Current => g.status \in Finished,
         since' \in Seq(Nat), Len(since') = Len(since), SinceMoves(id),
         \A k \in GoalIds : k # id => since'[k] = since[k], Counted(g, id)'
  PROVE  /\ GoalsAgree' /\ GoalsOnlyGrow /\ Len(goals') = Len(goals) /\ GoalIds' = GoalIds
         /\ goals'[id] = g /\ \A k \in GoalIds : k # id => goals'[k] = goals[k]
         /\ \A k \in GoalIds : SinceMoves(k)
<1>1. PICK n \in Nat : n = Len(goals) /\ GoalIds = 1..n /\ Current = n
  BY TypesOfGoals DEF GoalIds
<1>2. /\ goals' \in Seq(GoalRecord) /\ Len(goals') = n
      /\ \A k \in 1..n : goals'[k] = IF k = id THEN g ELSE goals[k]
  BY <1>1, ExceptSeq DEF IInv, Shapes
<1>3. GoalIds' = 1..n /\ Current' = n /\ GoalsOnlyGrow
  BY <1>1, <1>2 DEF GoalIds, Current, GoalsOnlyGrow
<1>4. \A k \in 1..n : SinceMoves(k)
  BY <1>1 DEF SinceMoves
<1>5. TurnsMove
  BY TurnsStay
<1>6. ASSUME NEW k \in 1..n, k # id
      PROVE  /\ Prefix(goals[k].accounted)' /\ goals'[k].tokens <= Costs(turns')[goals'[k].accounted]
             /\ Counted(goals[k], k)' /\ (k # Current' => goals'[k].status \in Finished)
  <2>1. goals'[k] = goals[k] /\ SinceMoves(k) /\ k \in GoalIds
    BY <1>1, <1>2, <1>4, <1>6
  <2>2. /\ Prefix(goals[k].accounted)' /\ goals[k].tokens <= Costs(turns')[goals[k].accounted]
        /\ Counted(goals[k], k)'
    BY <1>5, <2>1, GoalStays
  <2>. QED
    BY <1>1, <1>3, <2>1, <2>2 DEF IInv, GoalsAgree
<1>7. /\ Prefix(goals[id].accounted)' /\ goals'[id].tokens <= Costs(turns')[goals'[id].accounted]
      /\ Counted(goals[id], id)' /\ (id # Current' => goals'[id].status \in Finished)
  <2>1. goals'[id] = g
    BY <1>1, <1>2
  <2>2. Prefix(g.accounted)'
    BY DEF Prefix
  <2>. QED
    BY <1>1, <1>3, <2>1, <2>2 DEF Prefix, Counted
<1>8. GoalsAgree'
  BY <1>3, <1>6, <1>7 DEF GoalsAgree
<1>. QED
  BY <1>1, <1>2, <1>3, <1>4, <1>8

\* A transition writes the status and counts the revision.
LEMMA TransitionIs ==
  ASSUME NEW r \in GoalRecord, NEW s \in Statuses
  PROVE  /\ Transition(r, s) \in GoalRecord /\ Transition(r, s).status = s
         /\ Transition(r, s).accounted = r.accounted /\ Transition(r, s).tokens = r.tokens
         /\ Transition(r, s).idle = r.idle /\ Transition(r, s) # r
<1>1. PICK v \in Nat : v = r.revision + 1 /\ v # r.revision
  BY DEF GoalRecord
<1>2. PICK t : t = [r EXCEPT !.revision = v, !.status = s]
  OBVIOUS
<1>3. t \in GoalRecord
  BY <1>2 DEF GoalRecord
<1>4. t.status = s /\ t.accounted = r.accounted /\ t.tokens = r.tokens /\ t.idle = r.idle
  BY <1>2 DEF GoalRecord
<1>5. t # r
  BY <1>1, <1>2 DEF GoalRecord
<1>6. Transition(r, s) = t
  BY <1>1, <1>2 DEF Transition
<1>. QED
  BY <1>3, <1>4, <1>5, <1>6

Resumed(t, m) == [t EXCEPT !.idle = 0, !.accounted = m]

LEMMA ResumedIs ==
  ASSUME NEW t \in GoalRecord, NEW m \in Nat
  PROVE  /\ Resumed(t, m) \in GoalRecord /\ Resumed(t, m).accounted = m
         /\ Resumed(t, m).tokens = t.tokens /\ Resumed(t, m).status = t.status
         /\ Resumed(t, m).idle = 0
<1>1. PICK z \in Nat : z = 0
  OBVIOUS
<1>2. PICK g : g = [t EXCEPT !.idle = z, !.accounted = m]
  OBVIOUS
<1>3. g \in GoalRecord
  BY <1>2 DEF GoalRecord
<1>4. g.accounted = m /\ g.tokens = t.tokens /\ g.status = t.status /\ g.idle = z
  BY <1>2 DEF GoalRecord
<1>5. Resumed(t, m) = g
  BY <1>1, <1>2 DEF Resumed
<1>. QED
  BY <1>1, <1>3, <1>4, <1>5

\* What a command makes of the goal it read, when nobody wrote it since.
LEMMA CommandedFits ==
  ASSUME IInv, UNCHANGED turns, NEW x \in GoalCall, CallFits(x), NEW id \in GoalIds, id = x.goal,
         goals[id] = x.read, NEW outcome \in {"complete", "blocked"},
         x.op # "report" => outcome = "complete",
         x.op = "resume" => since'[id] = Len(turns),
         NEW g, g = Commanded(x.op, x.read, x.prefix, outcome)
  PROVE  /\ g \in GoalRecord /\ Prefix(g.accounted) /\ g.tokens = goals[id].tokens
         /\ g.tokens <= Costs(turns)[g.accounted] /\ Counted(g, id)'
         /\ id # Current => g.status \in Finished
<1>1. PICK r \in GoalRecord, m \in Nat : r = x.read /\ m = x.prefix
  BY DEF GoalCall
<1>2. /\ r.accounted \in Nat /\ r.tokens \in Nat /\ r.idle \in Nat /\ r.revision \in Nat
      /\ Prefix(r.accounted) /\ r.tokens <= Costs(turns)[r.accounted]
      /\ id # Current => r.status \in Finished
  BY <1>1, TypesOfGoals DEF IInv, GoalsAgree
<1>3. x.op \in Operations
  BY DEF GoalCall
<1>4. CASE x.op \in {"pause", "stop", "clear", "report"}
  <2>1. PICK s : /\ s = IF x.op \in {"pause", "stop"} THEN "paused"
                        ELSE IF x.op = "clear" THEN "cleared" ELSE outcome
                 /\ s \in Statuses /\ s # "active"
    BY DEF Statuses
  <2>2. g = Transition(r, s)
    BY <1>1, <1>4, <2>1 DEF Commanded
  <2>4. g \in GoalRecord /\ g.accounted = r.accounted /\ g.tokens = r.tokens /\ g.status = s
    BY <2>1, <2>2, TransitionIs
  <2>5. Counted(g, id)'
    BY <2>1, <2>4 DEF Counted
  <2>6. id # Current => g.status \in Finished
    <3>1. CASE x.op = "clear"
      BY <2>1, <2>4, <3>1 DEF Finished
    <3>2. CASE x.op # "clear"
      <4>1. r.status = "active"
        BY <1>1, <1>4, <3>2 DEF CallFits
      <4>. QED
        BY <1>2, <4>1 DEF Finished
    <3>. QED
      BY <3>1, <3>2
  <2>. QED
    BY <1>1, <1>2, <2>4, <2>5, <2>6
<1>5. CASE x.op = "resume"
  <2>1. g = [Transition(r, "active") EXCEPT !.idle = 0, !.accounted = m]
    BY <1>1, <1>5 DEF Commanded
  <2>2. PICK t \in GoalRecord : t = Transition(r, "active") /\ t.tokens = r.tokens /\ t.status = "active"
    <3>1. "active" \in Statuses
      BY DEF Statuses
    <3>. QED
      BY <3>1, TransitionIs
  <2>3. g = Resumed(t, m)
    BY <2>1, <2>2 DEF Resumed
  <2>4. g \in GoalRecord /\ g.accounted = m /\ g.tokens = r.tokens /\ g.status = "active" /\ g.idle = 0
    BY <2>2, <2>3, ResumedIs
  <2>5. Prefix(m) /\ r.accounted <= m /\ r.status \in Resumable
    BY <1>1, <1>5 DEF CallFits
  <2>6. r.tokens <= Costs(turns)[m]
    <3>1. PICK k \in Nat : k = Len(turns) /\ m <= k
      BY <2>5, TypesOfTurns DEF Prefix
    <3>2. turns \in Seq(Turn) /\ m \in 0..Len(turns) /\ r.accounted \in 0..m /\ r.accounted \in 0..Len(turns)
      BY <1>2, <2>5, <3>1 DEF IInv, Shapes
    <3>3. Costs(turns)[r.accounted] <= Costs(turns)[m]
      BY <3>2, CostsGrow
    <3>4. Costs(turns)[r.accounted] \in Nat /\ Costs(turns)[m] \in Nat
      BY <3>2, CostsType
    <3>. QED
      BY <1>2, <3>3, <3>4
  <2>7. Counted(g, id)'
    <3>1. SUFFICES ASSUME NEW k \in 1..m, \A p \in m - k + 1..m : p > since'[id] PROVE FALSE
      BY <2>4 DEF Counted
    <3>2. m \in m - k + 1..m /\ m <= Len(turns) /\ Len(turns) \in Nat
      BY <2>5, TypesOfTurns DEF Prefix
    <3>. QED
      BY <1>5, <3>1, <3>2
  <2>8. id = Current
    BY <1>2, <2>5 DEF Resumable, Finished
  <2>. QED
    BY <1>1, <2>4, <2>5, <2>6, <2>7, <2>8
<1>. QED
  BY <1>3, <1>4, <1>5 DEF Operations

LEMMA WriteGoalStep ==
  ASSUME IInv, NEW c \in Clients, NEW outcome \in {"complete", "blocked"}, WriteGoal(c, outcome)
  PROVE  IInv'
<1>1. UNCHANGED <<turns, woken, admitting, tick, restarts>> /\ call' = [call EXCEPT ![c] = NoCall]
      /\ call[c].op \notin {"none", "set"} /\ (call[c].op # "report" => outcome = "complete")
  BY DEF WriteGoal
<1>2. PICK x \in GoalCall : x = call[c] /\ CallFits(x) /\ x.goal \in Nat /\ x.op # "set"
  <2>1. call[c] \in {NoCall} \cup GoalCall \cup SetCall
    BY DEF IInv, Shapes
  <2>2. call[c] \in GoalCall
    BY <1>1, <2>1, TypesOfCalls
  <2>3. call[c] # NoCall /\ call[c].goal \in Nat /\ call[c].op # "set"
    BY <2>2, TypesOfCalls DEF Calls
  <2>. QED
    BY <2>2, <2>3 DEF IInv, CallsAgree
<1>3. PICK id \in GoalIds : id = x.goal
  BY <1>2, TypesOfGoals DEF CallFits, GoalIds
<1>4. TurnsMove /\ NewAreUsers /\ TurnsAgree' /\ OnePursued' /\ Ordinals' = Ordinals
  BY <1>1, TurnsStay
<1>5. CASE ~Unchanged(id, x.read)
  <2>1. UNCHANGED <<goals, since>>
    BY <1>2, <1>3, <1>5 DEF WriteGoal, ReplaceGoal
  <2>2. NoCall \in {NoCall} \cup Calls
    OBVIOUS
  <2>. QED
    BY <1>1, <2>1, <2>2, ReadStep
<1>6. CASE Unchanged(id, x.read)
  <2>1. goals[id] = x.read
    BY <1>6 DEF Unchanged
  <2>2. since' = IF x.op = "resume" THEN [since EXCEPT ![id] = Len(turns)] ELSE since
    BY <1>2, <1>3, <1>6 DEF WriteGoal
  <2>3. PICK n \in Nat : n = Len(goals) /\ n = Len(since) /\ GoalIds = 1..n /\ since \in Seq(Nat)
    BY TypesOfGoals DEF IInv, Shapes, GoalIds
  <2>4. /\ since' \in Seq(Nat) /\ Len(since') = Len(since)
        /\ \A k \in GoalIds : k # id => since'[k] = since[k]
        /\ SinceMoves(id) /\ (x.op = "resume" => since'[id] = Len(turns))
    <3>1. CASE x.op = "resume"
      <4>1. id \in 1..Len(since) /\ Len(turns) \in Nat
        BY <2>3, TypesOfTurns
      <4>2. since' = [since EXCEPT ![id] = Len(turns)]
        BY <2>2, <3>1
      <4>3. /\ since' \in Seq(Nat) /\ Len(since') = Len(since)
            /\ \A k \in 1..Len(since) : since'[k] = IF k = id THEN Len(turns) ELSE since[k]
        BY <2>3, <4>1, <4>2, ExceptSeq
      <4>. QED
        BY <2>3, <4>1, <4>3 DEF SinceMoves
    <3>2. CASE x.op # "resume"
      BY <2>2, <2>3, <3>2 DEF SinceMoves
    <3>. QED
      BY <3>1, <3>2
  <2>5. PICK g : g = Commanded(x.op, x.read, x.prefix, outcome)
    OBVIOUS
  <2>6. x.op # "report" => outcome = "complete"
    BY <1>1, <1>2
  <2>7. /\ g \in GoalRecord /\ Prefix(g.accounted) /\ g.tokens = goals[id].tokens
        /\ g.tokens <= Costs(turns)[g.accounted] /\ Counted(g, id)'
        /\ id # Current => g.status \in Finished
    BY <1>1, <1>2, <1>3, <2>1, <2>4, <2>5, <2>6, CommandedFits
  <2>8. goals' = [goals EXCEPT ![id] = g]
    BY <1>2, <1>3, <1>6, <2>5 DEF WriteGoal, ReplaceGoal
  <2>9. /\ GoalsAgree' /\ GoalsOnlyGrow /\ Len(goals') = Len(goals) /\ GoalIds' = GoalIds
        /\ goals'[id] = g /\ \A k \in GoalIds : k # id => goals'[k] = goals[k]
        /\ \A k \in GoalIds : SinceMoves(k)
    BY <1>1, <2>4, <2>7, <2>8, OneGoal
  <2>10. CallsAgree' /\ call' \in [Clients -> {NoCall} \cup GoalCall \cup SetCall]
    BY <1>1, <1>4, <2>9, CallsStep
  <2>11. \A k \in GoalIds : goals'[k].tokens = goals[k].tokens
    BY <2>7, <2>9
  <2>12. TickAgrees'
    BY <1>1, <1>4, <2>9, <2>11, TickStays
  <2>13. Shapes'
    BY <1>1, <1>4, <2>3, <2>4, <2>9, <2>10 DEF IInv, Shapes, GoalsOnlyGrow, TurnsMove
  <2>. QED
    BY <1>4, <2>9, <2>10, <2>12, <2>13 DEF IInv
<1>. QED
  BY <1>5, <1>6

LEMMA ReplacedIs ==
  ASSUME NEW r \in GoalRecord
  PROVE  /\ Replaced(r) \in GoalRecord /\ Replaced(r).status \in Finished
         /\ Replaced(r).accounted = r.accounted /\ Replaced(r).tokens = r.tokens
<1>1. "cleared" \in Statuses /\ "cleared" \in Finished
  BY DEF Statuses, Finished
<1>2. CASE r.status \in Finished
  BY <1>2 DEF Replaced
<1>3. CASE r.status \notin Finished
  <2>1. Replaced(r) = Transition(r, "cleared")
    BY <1>3 DEF Replaced
  <2>. QED
    BY <1>1, <2>1, TransitionIs
<1>. QED
  BY <1>2, <1>3

LEMMA SetGoalStep ==
  ASSUME IInv, NEW c \in Clients, SetGoal(c)
  PROVE  IInv'
<1>1. UNCHANGED <<turns, woken, admitting, tick, restarts>> /\ call' = [call EXCEPT ![c] = NoCall]
      /\ call[c].op = "set"
  BY DEF SetGoal
<1>2. PICK m \in Nat : m = call[c].prefix /\ Prefix(m)
  <2>1. call[c] \in {NoCall} \cup GoalCall \cup SetCall
    BY DEF IInv, Shapes
  <2>2. call[c] \in Calls
    BY <1>1, <2>1, TypesOfCalls DEF Calls
  <2>3. call[c].prefix \in Nat /\ CallFits(call[c])
    BY <2>2, TypesOfCalls DEF IInv, CallsAgree
  <2>. QED
    BY <2>3 DEF CallFits
<1>3. TurnsMove /\ NewAreUsers /\ TurnsAgree' /\ OnePursued' /\ Ordinals' = Ordinals
  BY <1>1, TurnsStay
<1>4. CASE ~SameCurrent(c)
  <2>1. UNCHANGED <<goals, since>>
    BY <1>4 DEF SetGoal
  <2>2. NoCall \in {NoCall} \cup Calls
    OBVIOUS
  <2>. QED
    BY <1>1, <2>1, <2>2, ReadStep
<1>5. CASE SameCurrent(c)
  <2>1. PICK n \in Nat : n = Len(goals) /\ n = Len(since) /\ GoalIds = 1..n /\ n = Current
    BY TypesOfGoals DEF IInv, Shapes, GoalIds
  <2>2. PICK h : h = [k \in 1..n |-> IF k = n THEN Replaced(goals[k]) ELSE goals[k]]
    OBVIOUS
  <2>3. ASSUME NEW k \in 1..n
        PROVE  /\ h[k] \in GoalRecord /\ h[k].accounted = goals[k].accounted
               /\ h[k].tokens = goals[k].tokens
               /\ k # n => h[k] = goals[k]
               /\ h[k].status \in Finished
    <3>1. goals[k] \in GoalRecord
      BY <2>1, TypesOfGoals
    <3>2. CASE k = n
      BY <2>2, <3>1, <3>2, ReplacedIs
    <3>3. CASE k # n
      BY <2>1, <2>2, <3>1, <3>3 DEF IInv, GoalsAgree
    <3>. QED
      BY <3>2, <3>3
  <2>4. h \in Seq(GoalRecord) /\ Len(h) = n
    <3>1. h \in [1..n -> GoalRecord]
      BY <2>2, <2>3
    <3>. QED
      BY <3>1, SeqOf
  <2>5. PICK g \in GoalRecord : g = NewGoal(m) /\ g.accounted = m /\ g.tokens = 0
    <3>1. PICK g : g = [status |-> "active", revision |-> 1, accounted |-> m, tokens |-> 0, idle |-> 0]
      OBVIOUS
    <3>2. g \in GoalRecord /\ g.accounted = m /\ g.tokens = 0
      BY <3>1 DEF GoalRecord, Statuses
    <3>. QED
      BY <3>1, <3>2 DEF NewGoal
  <2>6. goals' = Append(h, g) /\ since' = Append(since, Len(turns))
    BY <1>2, <1>5, <2>1, <2>2, <2>5 DEF SetGoal
  <2>7. /\ goals' \in Seq(GoalRecord) /\ Len(goals') = n + 1
        /\ \A k \in 1..n : goals'[k] = h[k]
        /\ goals'[n + 1] = g
    BY <2>4, <2>5, <2>6, AppendProperties
  <2>8. /\ since' \in Seq(Nat) /\ Len(since') = n + 1
        /\ \A k \in 1..n : since'[k] = since[k]
        /\ since'[n + 1] = Len(turns)
    <3>1. PICK l \in Nat : l = Len(turns)
      BY TypesOfTurns
    <3>2. since \in Seq(Nat) /\ since' = Append(since, l)
      BY <2>6, <3>1 DEF IInv, Shapes
    <3>3. /\ since' \in Seq(Nat) /\ Len(since') = Len(since) + 1 /\ since'[Len(since) + 1] = l
          /\ \A k \in 1..Len(since) : since'[k] = since[k]
      BY <3>2, AppendProperties
    <3>. QED
      BY <2>1, <3>1, <3>3
  <2>9. GoalIds' = 1..(n + 1) /\ Current' = n + 1 /\ GoalsOnlyGrow
    BY <2>1, <2>7 DEF GoalIds, Current, GoalsOnlyGrow
  <2>10. \A k \in 1..n : SinceMoves(k) /\ goals'[k].tokens = goals[k].tokens
    BY <2>3, <2>7, <2>8 DEF SinceMoves
  <2>11. ASSUME NEW k \in 1..n
         PROVE  /\ Prefix(goals[k].accounted)'
                /\ goals'[k].tokens <= Costs(turns')[goals'[k].accounted]
                /\ Counted(goals[k], k)' /\ goals'[k].status \in Finished
    <3>1. PICK r : r = goals'[k] /\ r.accounted = goals[k].accounted /\ r.tokens = goals[k].tokens
                   /\ r.status \in Finished
      BY <2>3, <2>7
    <3>2. Prefix(goals[k].accounted) /\ goals[k].tokens <= Costs(turns)[goals[k].accounted]
      BY <2>1 DEF IInv, GoalsAgree
    <3>3. Counted(goals[k], k)'
      BY <3>1 DEF Counted, Finished
    <3>4. Prefix(goals[k].accounted)'
      BY <1>1, <3>1, <3>2 DEF Prefix
    <3>. QED
      BY <1>1, <3>1, <3>2, <3>3, <3>4
  <2>12. /\ Prefix(goals[n + 1].accounted)'
         /\ goals'[n + 1].tokens <= Costs(turns')[goals'[n + 1].accounted]
         /\ Counted(goals[n + 1], n + 1)'
    <3>1. Prefix(goals[n + 1].accounted)'
      BY <1>1, <1>2, <2>5, <2>7 DEF Prefix
    <3>2. PICK l \in Nat : l = Len(turns) /\ m <= l
      BY <1>2, TypesOfTurns DEF Prefix
    <3>3. Costs(turns)[m] \in Nat
      <4>1. m \in 0..Len(turns) /\ turns \in Seq(Turn)
        BY <3>2 DEF IInv, Shapes
      <4>. QED
        BY <4>1, CostsType
    <3>4. Counted(goals[n + 1], n + 1)'
      <4>1. SUFFICES ASSUME NEW k \in 1..m, \A p \in m - k + 1..m : p > since'[n + 1] PROVE FALSE
        BY <2>5, <2>7 DEF Counted
      <4>2. m \in m - k + 1..m
        OBVIOUS
      <4>. QED
        BY <2>8, <3>2, <4>1, <4>2
    <3>. QED
      BY <1>1, <2>5, <2>7, <3>1, <3>3, <3>4
  <2>13. GoalsAgree'
    <3>1. \A k \in 1..(n + 1) : k \in 1..n \/ k = n + 1
      BY <2>1
    <3>. QED
      BY <2>9, <2>11, <2>12, <3>1 DEF GoalsAgree
  <2>14. CallsAgree' /\ call' \in [Clients -> {NoCall} \cup GoalCall \cup SetCall]
    BY <1>1, <1>3, <2>9, CallsStep
  <2>15. TickAgrees'
    BY <1>1, <1>3, <2>1, <2>9, <2>10, TickStays
  <2>16. Shapes'
    BY <1>1, <1>3, <2>7, <2>8, <2>14 DEF IInv, Shapes, TurnsMove
  <2>. QED
    BY <1>3, <2>13, <2>14, <2>15, <2>16 DEF IInv
<1>. QED
  BY <1>4, <1>5

-----------------------------------------------------------------------------
(* The writes of the tick.                                                  *)

LEMMA GoalTickStep ==
  ASSUME IInv, UNCHANGED <<turns, woken, admitting, call, since, restarts>>,
         NEW id \in GoalIds, NEW g \in GoalRecord, goals' = [goals EXCEPT ![id] = g],
         Prefix(g.accounted), g.tokens <= Costs(turns)[g.accounted],
         id # Current => g.status \in Finished, Counted(g, id)',
         tick' \in {Idle} \cup Reading \cup Seeing \cup Waking, TickAgrees'
  PROVE  IInv'
<1>1. TurnsMove /\ NewAreUsers /\ TurnsAgree' /\ OnePursued' /\ Ordinals' = Ordinals
  BY TurnsStay
<1>2. since' \in Seq(Nat) /\ Len(since') = Len(since) /\ SinceMoves(id)
      /\ \A k \in GoalIds : k # id => since'[k] = since[k]
  BY DEF IInv, Shapes, SinceMoves
<1>3. /\ GoalsAgree' /\ GoalsOnlyGrow /\ Len(goals') = Len(goals)
  BY <1>2, OneGoal
<1>4. CallsAgree' /\ call' \in [Clients -> {NoCall} \cup GoalCall \cup SetCall]
  BY <1>1, <1>3, CallsStep
<1>5. Shapes'
  BY <1>1, <1>2, <1>3, <1>4 DEF IInv, Shapes, GoalsOnlyGrow, TurnsMove
<1>. QED
  BY <1>1, <1>3, <1>4, <1>5 DEF IInv

\* What accounting makes of the goal the tick read, against the turns as they are.
LEMMA AccountedFits ==
  ASSUME IInv, tick.step = "account",
         NEW next, next = AccountedGoal(tick.read, tick.goal, tick.seen)
  PROVE  /\ next \in GoalRecord /\ Prefix(next.accounted) /\ Counted(next, tick.goal)
         /\ goals[tick.goal] = tick.read => next.tokens <= Costs(turns)[next.accounted]
         /\ tick.read.accounted \in 0..next.accounted
         /\ next.accounted = tick.read.accounted + SettledRun(tick.seen)
<1>1. tick # Idle
  BY DEF Idle
<1>2. PICK g \in GoalRecord, id \in GoalIds, seen \in Seq(Turn) :
          g = tick.read /\ id = tick.goal /\ seen = tick.seen
  BY <1>1, TypesOfTick
<1>3. /\ g.status = "active" /\ Prefix(g.accounted) /\ Counted(g, id) /\ Looked(g.accounted)
      /\ \A i \in 1..Len(seen) : ~Open(seen[i]) => turns[g.accounted + i] = seen[i]
  BY <1>1, <1>2 DEF IInv, TickAgrees
<1>4. PICK n : n = SettledRun(seen)
  OBVIOUS
<1>5. /\ n \in 0..Len(seen) /\ next \in GoalRecord /\ next.accounted = g.accounted + n
      /\ n = 0 => next = g
      /\ Costs(seen)[n] \in Nat /\ next.tokens <= g.tokens + Costs(seen)[n]
      /\ next.status = "active" =>
             \A k \in 1..n : (\A i \in n - k + 1..n : Idler(seen[i], id)) =>
                 k <= next.idle /\ (k = n => g.idle + n <= next.idle)
  BY <1>2, <1>3, <1>4, AccountedGoalIs
<1>6. PICK a \in Nat, l \in Nat : a = g.accounted /\ l = Len(turns) /\ n \in Nat /\ a + n <= l /\ a <= l
  <2>1. PICK a \in Nat, l \in Nat, m \in Nat : a = g.accounted /\ l = Len(turns) /\ m = Len(seen)
    BY TypesOfTurns, TurnsOfSeq DEF GoalRecord
  <2>2. a + m <= l
    BY <1>2, <1>3, <2>1 DEF Looked
  <2>3. n \in 0..m
    BY <1>5, <2>1
  <2>4. n \in Nat /\ a + n <= l /\ a <= l
    BY <2>1, <2>2, <2>3
  <2>. QED
    BY <2>1, <2>4
<1>7. \A i \in 1..n : ~Open(seen[i]) /\ turns[a + i] = seen[i]
  <2>1. \A i \in 1..n : ~Open(seen[i])
    BY <1>4, SettledRunType
  <2>2. 1..n \subseteq 1..Len(seen)
    BY <1>5, <1>6, TurnsOfSeq
  <2>. QED
    BY <1>3, <1>6, <2>1, <2>2
<1>8. Prefix(a + n)
  <2>1. ASSUME NEW o \in 1..a + n PROVE ~Open(turns[o])
    <3>1. CASE o <= a
      BY <1>3, <1>6, <3>1 DEF Prefix
    <3>2. CASE o > a
      <4>1. o - a \in 1..n /\ a + (o - a) = o
        BY <1>6, <3>2
      <4>. QED
        BY <1>7, <4>1
    <3>. QED
      BY <1>6, <3>1, <3>2
  <2>. QED
    BY <1>6, <2>1 DEF Prefix
<1>9. ASSUME goals[id] = g PROVE next.tokens <= Costs(turns)[a + n]
  <2>1. g.tokens <= Costs(turns)[a] /\ g.tokens \in Nat /\ next.tokens \in Nat
    BY <1>5, <1>6, <1>9 DEF IInv, GoalsAgree, GoalRecord
  <2>2. turns \in Seq(Turn) /\ a \in 0..Len(turns) /\ n \in 0..Len(seen) /\ a + n <= Len(turns)
    BY <1>5, <1>6 DEF IInv, Shapes
  <2>3. \A i \in 1..n : seen[i] = turns[a + i]
    BY <1>7
  <2>4. Costs(turns)[a + n] = Costs(turns)[a] + Costs(seen)[n]
    BY <2>2, <2>3, CostsOfBatch
  <2>5. Costs(turns)[a] \in Nat
    BY <2>2, CostsType
  <2>6. PICK u \in Nat, w \in Nat : u = Costs(turns)[a] /\ w = Costs(seen)[n]
    BY <1>5, <2>5
  <2>7. Costs(turns)[a + n] = u + w /\ g.tokens <= u /\ next.tokens <= g.tokens + w
    BY <1>5, <2>1, <2>4, <2>6
  <2>8. next.tokens <= u + w
    BY <2>1, <2>7
  <2>. QED
    BY <2>7, <2>8
<1>10. Counted(next, id)
  <2>1. CASE n = 0
    BY <1>3, <1>5, <2>1
  <2>2. CASE n # 0
    <3>1. SUFFICES ASSUME next.status = "active", NEW k \in 1..a + n,
                          \A p \in a + n - k + 1..a + n : p > since[id] /\ IdleContinuation(p, id)
                   PROVE  k <= next.idle
      BY <1>5, <1>6 DEF Counted
    <3>2. \A i \in 1..n : n - k + 1 <= i => Idler(seen[i], id)
      <4>1. SUFFICES ASSUME NEW i \in 1..n, n - k + 1 <= i PROVE Idler(seen[i], id)
        OBVIOUS
      <4>2. a + i \in a + n - k + 1..a + n
        BY <1>6, <4>1
      <4>3. IdleContinuation(a + i, id)
        BY <3>1, <4>2
      <4>. QED
        BY <1>7, <4>3 DEF IdleContinuation, Idler
    <3>3. next.idle \in Nat /\ g.idle \in Nat
      BY <1>5 DEF GoalRecord
    <3>4. CASE k <= n
      <4>1. k \in 1..n /\ \A i \in n - k + 1..n : i \in 1..n /\ n - k + 1 <= i
        BY <1>6, <3>4
      <4>. QED
        BY <1>5, <3>1, <3>2, <4>1
    <3>5. CASE k > n
      <4>1. n \in 1..n /\ \A i \in n - n + 1..n : i \in 1..n /\ n - k + 1 <= i
        BY <1>6, <2>2, <3>5
      <4>2. g.idle + n <= next.idle
        BY <1>5, <3>1, <3>2, <4>1
      <4>3. PICK j \in 1..a : j = k - n
        BY <1>6, <3>5
      <4>4. \A p \in a - j + 1..a : p \in a + n - k + 1..a + n
        BY <1>6, <4>3
      <4>5. j <= g.idle
        BY <1>3, <1>6, <3>1, <4>4 DEF Counted
      <4>. QED
        BY <1>6, <3>3, <4>2, <4>3, <4>5
    <3>. QED
      BY <1>6, <3>4, <3>5
  <2>. QED
    BY <2>1, <2>2
<1>11. /\ next \in GoalRecord /\ Prefix(next.accounted) /\ Counted(next, id)
       /\ goals[id] = g => next.tokens <= Costs(turns)[next.accounted]
       /\ a \in 0..next.accounted /\ next.accounted = a + n
  BY <1>5, <1>6, <1>8, <1>9, <1>10
<1>. QED
  BY <1>2, <1>4, <1>6, <1>11

LEMMA AccountStep ==
  ASSUME IInv, Account
  PROVE  IInv'
<1>1. UNCHANGED <<turns, woken, admitting, call, since, restarts>> /\ tick.step = "account"
  BY DEF Account
<1>2. tick # Idle
  BY <1>1 DEF Idle
<1>3. PICK g \in GoalRecord, id \in GoalIds, seen \in Seq(Turn) :
          g = tick.read /\ id = tick.goal /\ seen = tick.seen
  BY <1>1, <1>2, TypesOfTick
<1>4. /\ g.status = "active" /\ Looked(g.accounted) /\ g.accounted \in Nat
      /\ g.tokens = goals[id].tokens
  BY <1>1, <1>2, <1>3 DEF IInv, TickAgrees, GoalRecord
<1>5. PICK next : next = AccountedGoal(g, id, seen)
  OBVIOUS
<1>6. /\ next \in GoalRecord /\ Prefix(next.accounted) /\ Counted(next, id)
      /\ goals[id] = g => next.tokens <= Costs(turns)[next.accounted]
      /\ g.accounted \in 0..next.accounted
      /\ next.accounted = g.accounted + SettledRun(seen)
  BY <1>1, <1>3, <1>5, AccountedFits
<1>7. TurnsMove /\ NewAreUsers /\ TurnsAgree' /\ OnePursued' /\ Ordinals' = Ordinals
  BY <1>1, TurnsStay
<1>8. goals' = IF goals[id] = g THEN [goals EXCEPT ![id] = next] ELSE goals
  BY <1>3, <1>5 DEF Account, ReplaceGoal, Unchanged
<1>9. tick' = IF next = g \/ goals[id] = g THEN [tick EXCEPT !.step = "decide", !.read = next] ELSE Idle
  BY <1>3, <1>5 DEF Account, Unchanged
<1>10. PICK x : x = [step |-> "decide", goal |-> id, read |-> next, seen |-> seen]
  OBVIOUS
<1>11. [tick EXCEPT !.step = "decide", !.read = next] = x
  <2>1. tick \in Seeing
    BY <1>1, <1>2, TypesOfTick
  <2>2. tick = [step |-> "account", goal |-> id, read |-> g, seen |-> seen]
    BY <1>1, <1>3, <2>1 DEF Seeing
  <2>3. PICK y, d : y = tick /\ d = "decide"
    OBVIOUS
  <2>4. y = [step |-> "account", goal |-> id, read |-> g, seen |-> seen]
    BY <2>2, <2>3
  <2>5. [y EXCEPT !.step = d, !.read = next]
        = [step |-> d, goal |-> id, read |-> next, seen |-> seen]
    <3>1. PICK z : z = [y EXCEPT !.step = d]
      OBVIOUS
    <3>2. z = [step |-> d, goal |-> id, read |-> g, seen |-> seen]
      BY <2>4, <3>1
    <3>3. [z EXCEPT !.read = next] = [step |-> d, goal |-> id, read |-> next, seen |-> seen]
      BY <3>2
    <3>. QED
      BY <3>1, <3>3
  <2>. QED
    BY <1>10, <2>3, <2>5
<1>12. x \in Seeing
  BY <1>3, <1>6, <1>10, TypesOfGoals DEF Seeing, GoalIds
<1>13. Prefix(next.accounted)' /\ Counted(next, id)'
  BY <1>1, <1>6 DEF Prefix, Counted, IdleContinuation
<1>14. ASSUME tick' = x, id \in GoalIds', next.tokens = goals'[id].tokens PROVE TickAgrees'
  <2>1. Looked(g.accounted)'
    <3>1. x.seen = seen
      BY <1>10
    <3>. QED
      BY <1>1, <1>3, <1>4, <1>7, <1>14, <3>1 DEF Looked
  <2>2. /\ x.goal = id /\ x.read = next /\ x.seen = seen /\ x.step = "decide"
    BY <1>10
  <2>3. \E b \in 0..next.accounted : next.accounted = b + SettledRun(seen) /\ Looked(b)'
    BY <1>6, <2>1
  <2>. QED
    BY <1>13, <1>14, <2>2, <2>3 DEF TickAgrees
<1>15. CASE goals[id] = g
  <2>1. goals' = [goals EXCEPT ![id] = next] /\ tick' = x
    BY <1>8, <1>9, <1>11, <1>15
  <2>2. id # Current => next.status \in Finished
    BY <1>3, <1>4, <1>15 DEF IInv, GoalsAgree, Finished
  <2>3. id \in GoalIds' /\ goals'[id] = next
    <3>1. PICK n \in Nat : n = Len(goals) /\ GoalIds = 1..n
      BY TypesOfGoals DEF GoalIds
    <3>2. Len(goals') = n /\ \A k \in 1..n : goals'[k] = IF k = id THEN next ELSE goals[k]
      BY <1>6, <2>1, <3>1, ExceptSeq DEF IInv, Shapes
    <3>. QED
      BY <3>1, <3>2 DEF GoalIds
  <2>4. TickAgrees'
    BY <1>14, <2>1, <2>3
  <2>. QED
    BY <1>1, <1>6, <1>12, <1>13, <1>15, <2>1, <2>2, <2>4, GoalTickStep
<1>16. CASE goals[id] # g /\ next = g
  <2>1. UNCHANGED goals /\ tick' = x
    BY <1>8, <1>9, <1>11, <1>16
  <2>2. TickAgrees'
    BY <1>4, <1>14, <1>16, <2>1 DEF GoalIds
  <2>3. woken' \subseteq Ordinals' /\ admitting' \subseteq Ordinals'
    BY <1>1, <1>7 DEF IInv, Shapes
  <2>. QED
    BY <1>1, <1>7, <1>12, <2>1, <2>2, <2>3, TickStep
<1>17. CASE goals[id] # g /\ next # g
  <2>1. UNCHANGED goals /\ tick' = Idle
    BY <1>8, <1>9, <1>17
  <2>2. TickAgrees'
    BY <2>1 DEF TickAgrees
  <2>3. woken' \subseteq Ordinals' /\ admitting' \subseteq Ordinals'
    BY <1>1, <1>7 DEF IInv, Shapes
  <2>. QED
    BY <1>1, <1>7, <2>1, <2>2, <2>3, TickStep
<1>. QED
  BY <1>15, <1>16, <1>17

\* The tick ends a goal, or finds that another has written it.
LEMMA EndGoalStep ==
  ASSUME IInv, tick # Idle, tick.read.status = "active", NEW s \in {"blocked", "budgetLimited"},
         ReplaceGoal(tick.goal, tick.read, Transition(tick.read, s)), tick' = Idle,
         UNCHANGED <<turns, woken, admitting, call, since, restarts>>
  PROVE  IInv'
<1>1. PICK g \in GoalRecord, id \in GoalIds :
          g = tick.read /\ id = tick.goal /\ g.status = "active"
  BY TypesOfTick
<1>2. PICK next : next = Transition(g, s)
  OBVIOUS
<1>3. next \in GoalRecord /\ next.status = s /\ next.accounted = g.accounted /\ next.tokens = g.tokens
  <2>1. s \in Statuses
    BY DEF Statuses
  <2>. QED
    BY <1>2, <2>1, TransitionIs
<1>4. goals' = IF goals[id] = g THEN [goals EXCEPT ![id] = next] ELSE goals
  BY <1>1, <1>2 DEF ReplaceGoal, Unchanged
<1>5. TickAgrees' /\ tick' \in {Idle} \cup Reading \cup Seeing \cup Waking
  BY DEF TickAgrees
<1>6. TurnsMove /\ NewAreUsers /\ TurnsAgree' /\ OnePursued' /\ Ordinals' = Ordinals
  BY TurnsStay
<1>7. CASE goals[id] = g
  <2>1. Prefix(next.accounted) /\ next.tokens <= Costs(turns)[next.accounted] /\ id = Current
    BY <1>1, <1>3, <1>7 DEF IInv, GoalsAgree, Finished
  <2>2. Counted(next, id)'
    BY <1>3 DEF Counted
  <2>. QED
    BY <1>3, <1>4, <1>5, <1>7, <2>1, <2>2, GoalTickStep
<1>8. CASE goals[id] # g
  <2>1. UNCHANGED goals
    BY <1>4, <1>8
  <2>2. woken' \subseteq Ordinals' /\ admitting' \subseteq Ordinals'
    BY <1>6 DEF IInv, Shapes
  <2>. QED
    BY <1>5, <1>6, <2>1, <2>2, TickStep
<1>. QED
  BY <1>7, <1>8

LEMMA SettleStep ==
  ASSUME IInv, Settle
  PROVE  IInv'
<1>1. PICK s \in {"blocked", "budgetLimited"} :
          s = PursuitStep /\ ReplaceGoal(tick.goal, tick.read, Transition(tick.read, s))
  BY DEF Settle
<1>2. tick.step = "decide" /\ tick' = Idle
      /\ UNCHANGED <<turns, woken, admitting, call, since, restarts>>
  BY DEF Settle
<1>3. tick # Idle
  BY <1>2 DEF Idle
<1>4. tick.read.status = "active"
  BY <1>1 DEF PursuitStep
<1>. QED
  BY <1>1, <1>2, <1>3, <1>4, EndGoalStep

LEMMA BlockStep ==
  ASSUME IInv, Block
  PROVE  IInv'
<1>1. PICK s \in {"blocked", "budgetLimited"} :
          s = "blocked" /\ ReplaceGoal(tick.goal, tick.read, Transition(tick.read, s))
  BY DEF Block
<1>2. tick.step = "block" /\ tick' = Idle
      /\ UNCHANGED <<turns, woken, admitting, call, since, restarts>>
  BY DEF Block
<1>3. tick # Idle
  BY <1>2 DEF Idle
<1>4. tick.read.status = "active"
  BY <1>2, <1>3, ReadFitsNow
<1>. QED
  BY <1>1, <1>2, <1>3, <1>4, EndGoalStep

-----------------------------------------------------------------------------
(* The invariant holds.                                                     *)

LEMMA InitIInv == Init => IInv
<1>1. SUFFICES ASSUME Init PROVE IInv
  OBVIOUS
<1>2. /\ goals = <<>> /\ turns = <<>> /\ since = <<>> /\ woken = {} /\ admitting = {}
      /\ tick = Idle /\ call = [c \in Clients |-> NoCall] /\ restarts = 0
  BY <1>1 DEF Init
<1>3. Len(goals) = 0 /\ Len(turns) = 0 /\ Len(since) = 0 /\ GoalIds = {} /\ Ordinals = {}
  BY <1>2 DEF GoalIds, Ordinals
<1>4. Shapes
  BY <1>2, <1>3, Constants DEF Shapes
<1>5. TurnsAgree /\ OnePursued /\ GoalsAgree /\ CallsAgree /\ TickAgrees
  BY <1>2, <1>3 DEF TurnsAgree, OnePursued, OpenOrdinals, GoalsAgree, CallsAgree, TickAgrees
<1>. QED
  BY <1>4, <1>5 DEF IInv

LEMMA StutterStep == IInv /\ UNCHANGED vars => IInv'
BY DEF vars, IInv, Shapes, TurnsAgree, OnePursued, GoalsAgree, CallsAgree, TickAgrees, Prefix,
       Counted, IdleContinuation, CallFits, Looked, Ordinals, OpenOrdinals, GoalIds, Current

LEMMA NextKeepsIInv == IInv /\ [Next]_vars => IInv'
<1>1. SUFFICES ASSUME IInv, Next PROVE IInv'
  BY StutterStep
<1>2. CASE Pursue
  <2>1. ASSUME NEW id \in GoalIds, BeginTick(id) PROVE IInv'
    BY <1>1, <2>1, BeginTickStep
  <2>2. CASE Observe
    BY <1>1, <2>2, ObserveStep
  <2>3. CASE Account
    BY <1>1, <2>3, AccountStep
  <2>4. CASE Stop
    BY <1>1, <2>4, StopStep
  <2>5. CASE Settle
    BY <1>1, <2>5, SettleStep
  <2>6. CASE Rewake
    BY <1>1, <2>6, RewakeStep
  <2>7. CASE Admit
    BY <1>1, <2>7, AdmitStep
  <2>8. ASSUME NEW answer \in Admissions, Wake(answer) PROVE IInv'
    BY <1>1, <2>8, WakeStep
  <2>9. CASE Block
    BY <1>1, <2>9, BlockStep
  <2>. QED
    BY <1>2, <2>1, <2>2, <2>3, <2>4, <2>5, <2>6, <2>7, <2>8, <2>9 DEF Pursue
<1>3. ASSUME NEW c \in Clients,
             \/ ReadForSet(c) \/ SetGoal(c)
             \/ \E op \in Commands \ {"set"}, id \in GoalIds : ReadGoal(c, op, id)
             \/ \E outcome \in {"complete", "blocked"} : WriteGoal(c, outcome)
      PROVE IInv'
  <2>1. CASE ReadForSet(c)
    BY <1>1, <2>1, ReadForSetStep
  <2>2. CASE SetGoal(c)
    BY <1>1, <2>2, SetGoalStep
  <2>3. ASSUME NEW op \in Commands \ {"set"}, NEW id \in GoalIds, ReadGoal(c, op, id) PROVE IInv'
    BY <1>1, <2>3, ReadGoalStep
  <2>4. ASSUME NEW outcome \in {"complete", "blocked"}, WriteGoal(c, outcome) PROVE IInv'
    BY <1>1, <2>4, WriteGoalStep
  <2>. QED
    BY <1>3, <2>1, <2>2, <2>3, <2>4
<1>4. ASSUME NEW o \in Ordinals, Release(o) \/ Hold(o) PROVE IInv'
  BY <1>1, <1>4, ReleaseStep
<1>5. ASSUME NEW o \in Ordinals,
             ReleaseHeld(o) \/ CancelHeld(o) \/ Dispatch(o) \/ \E end \in Ends : Finish(o, end)
      PROVE IInv'
  <2>1. CASE ReleaseHeld(o) \/ CancelHeld(o)
    BY <1>1, <2>1, HeldStep
  <2>2. CASE Dispatch(o)
    BY <1>1, <2>2, DispatchStep
  <2>3. ASSUME NEW end \in Ends, Finish(o, end) PROVE IInv'
    BY <1>1, <2>3, FinishStep
  <2>. QED
    BY <1>5, <2>1, <2>2, <2>3
<1>6. ASSUME NEW sent \in BOOLEAN, Restart(sent) PROVE IInv'
  BY <1>1, <1>6, RestartStep
<1>7. CASE UserPrompt
  BY <1>1, <1>7, UserPromptStep
<1>. QED
  BY <1>1, <1>2, <1>3, <1>4, <1>5, <1>6, <1>7 DEF Next, Command, Admission

LEMMA IInvHolds == Spec => []IInv
<1>. QED
  BY InitIInv, NextKeepsIInv, PTL DEF Spec

-----------------------------------------------------------------------------
(* What the runs check, for every value of the constants.                   *)

(* goals.rs set and goal_pursuit.rs tick: whatever clients, ticks and       *)
(* restarts interleave, a conversation has at most one active goal and a    *)
(* goal at most one unfinished continuation.                                *)
THEOREM OnePursuit == Spec => []PursuitInvariant
<1>1. ASSUME IInv PROVE PursuitInvariant
  <2>1. TypeOK
    <3>1. since \in [GoalIds -> Nat]
      <4>1. since \in Seq(Nat) /\ Len(since) = Len(goals)
        BY <1>1 DEF IInv, Shapes
      <4>. QED
        BY <4>1, LenProperties DEF GoalIds
    <3>2. tick.step \in {"idle", "observe", "account", "decide", "wake", "block"}
      BY <1>1, TypesOfTick DEF Idle
    <3>3. tick # Idle => tick.goal \in GoalIds /\ tick.read \in GoalRecord
      BY <1>1, TypesOfTick
    <3>. QED
      BY <1>1, <3>1, <3>2, <3>3 DEF TypeOK, IInv, Shapes
  <2>2. OneActiveGoal
    <3>1. \A id \in GoalIds : goals[id].status = "active" => id = Current
      BY <1>1 DEF IInv, GoalsAgree, Finished
    <3>. QED
      BY <3>1 DEF OneActiveGoal
  <2>3. OneOpenContinuation
    BY <1>1 DEF IInv, OnePursued, OneOpenContinuation
  <2>. QED
    BY <2>1, <2>2, <2>3 DEF PursuitInvariant
<1>. QED
  BY <1>1, IInvHolds, PTL

(* goal_pursuit.rs accounted_goal: no goal is accounted past an unfinished  *)
(* turn, and none pays more than the turns it is accounted through cost.    *)
THEOREM AccountsHold == Spec => []AccountsAreSound
<1>1. ASSUME IInv PROVE AccountsAreSound
  BY <1>1 DEF IInv, GoalsAgree, Prefix, AccountsAreSound, AccountedPrefixIsSettled, NoTurnChargedTwice
<1>. QED
  BY <1>1, IInvHolds, PTL

\* A goal that a step makes active was resumed.
LEMMA MadeActive ==
  ASSUME IInv, Next, NEW k \in GoalIds, goals[k].status # "active", goals'[k].status = "active"
  PROVE  \E c \in Clients : /\ call[c].op = "resume" /\ call[c].goal = k
                            /\ call[c].read = goals[k] /\ call'[c] = NoCall
<1>1. ASSUME UNCHANGED goals PROVE FALSE
  BY <1>1
<1>2. goals \in [GoalIds -> GoalRecord]
  BY TypesOfGoals
\* The tick writes only what was active.
<1>3. ASSUME tick # Idle, tick.read.status = "active", NEW g, ReplaceGoal(tick.goal, tick.read, g)
      PROVE FALSE
  <2>1. PICK id \in GoalIds : id = tick.goal
    BY <1>3, TypesOfTick
  <2>2. goals' = IF goals[id] = tick.read THEN [goals EXCEPT ![id] = g] ELSE goals
    BY <1>3, <2>1 DEF ReplaceGoal, Unchanged
  <2>3. goals[id] = tick.read /\ k # id
    BY <1>1, <1>3, <2>2
  <2>4. goals'[k] = goals[k]
    BY <1>2, <2>2, <2>3
  <2>. QED
    BY <2>4
<1>4. ASSUME Account \/ Settle \/ Block PROVE FALSE
  <2>1. tick # Idle
    BY <1>4 DEF Account, Settle, Block, Idle
  <2>2. tick.read.status = "active"
    BY <1>4, <2>1, ReadFitsNow DEF Account, Settle, Block, PursuitStep
  <2>3. \E g : ReplaceGoal(tick.goal, tick.read, g)
    BY <1>4 DEF Account, Settle, Block
  <2>. QED
    BY <1>3, <2>1, <2>2, <2>3
<1>5. ASSUME NEW c \in Clients, SetGoal(c) PROVE FALSE
  <2>1. PICK n \in Nat : n = Len(goals) /\ GoalIds = 1..n /\ n = Current
    BY TypesOfGoals DEF GoalIds
  <2>2. PICK h : h = [id \in 1..n |-> IF id = n THEN Replaced(goals[id]) ELSE goals[id]]
    OBVIOUS
  <2>3. \A id \in 1..n : h[id] \in GoalRecord /\ h[id].status \in Finished \cup {goals[id].status}
    <3>1. \A id \in 1..n : goals[id] \in GoalRecord
      BY <2>1, TypesOfGoals
    <3>. QED
      BY <2>2, <3>1, ReplacedIs
  <2>4. h \in Seq(GoalRecord) /\ Len(h) = n
    <3>1. h \in [1..n -> GoalRecord]
      BY <2>2, <2>3
    <3>. QED
      BY <3>1, SeqOf
  <2>5. PICK m \in Nat : m = call[c].prefix
    <3>1. call[c] \in {NoCall} \cup GoalCall \cup SetCall
      BY DEF IInv, Shapes
    <3>2. call[c] \in Calls
      BY <1>5, <3>1, TypesOfCalls DEF SetGoal, Calls
    <3>. QED
      BY <3>2, TypesOfCalls
  <2>6. PICK g \in GoalRecord : g = NewGoal(m)
    <3>1. PICK g : g = [status |-> "active", revision |-> 1, accounted |-> m, tokens |-> 0, idle |-> 0]
      OBVIOUS
    <3>2. g \in GoalRecord
      BY <3>1 DEF GoalRecord, Statuses
    <3>. QED
      BY <3>1, <3>2 DEF NewGoal
  <2>7. goals' = Append(h, g)
    BY <1>1, <1>5, <2>1, <2>2, <2>5, <2>6 DEF SetGoal
  <2>8. goals'[k] = h[k]
    BY <2>1, <2>4, <2>7, AppendProperties
  <2>9. h[k].status # "active"
    BY <2>1, <2>3 DEF Finished
  <2>. QED
    BY <2>8, <2>9
<1>6. ASSUME NEW c \in Clients, NEW outcome \in {"complete", "blocked"}, WriteGoal(c, outcome)
      PROVE  /\ call[c].op = "resume" /\ call[c].goal = k
             /\ call[c].read = goals[k] /\ call'[c] = NoCall
  <2>1. call[c] \in GoalCall /\ CallFits(call[c])
    <3>1. call[c] \in {NoCall} \cup GoalCall \cup SetCall
      BY DEF IInv, Shapes
    <3>2. call[c] \in GoalCall
      BY <1>6, <3>1, TypesOfCalls DEF WriteGoal
    <3>3. call[c] # NoCall
      BY <3>2, TypesOfCalls DEF Calls
    <3>. QED
      BY <3>2, <3>3 DEF IInv, CallsAgree
  <2>2. PICK x \in GoalCall, id \in GoalIds, r \in GoalRecord :
            x = call[c] /\ id = x.goal /\ r = x.read /\ x.op \in Operations
    <3>1. call[c].goal \in Nat /\ call[c].op # "set"
      BY <2>1, TypesOfCalls DEF Calls
    <3>2. call[c].goal \in GoalIds
      BY <2>1, <3>1, TypesOfGoals DEF CallFits, GoalIds
    <3>. QED
      BY <2>1, <3>2, TypesOfCalls
  <2>3. PICK g : g = Commanded(x.op, r, x.prefix, outcome)
    OBVIOUS
  <2>4. goals' = IF goals[id] = r THEN [goals EXCEPT ![id] = g] ELSE goals
    BY <1>6, <2>2, <2>3 DEF WriteGoal, ReplaceGoal, Unchanged
  <2>5. goals[id] = r /\ k = id /\ goals'[k] = g
    <3>1. goals[id] = r
      BY <1>1, <2>4
    <3>2. CASE k # id
      BY <1>2, <2>4, <3>1, <3>2
    <3>3. CASE k = id
      BY <1>2, <2>4, <3>1, <3>3
    <3>. QED
      BY <3>1, <3>2, <3>3
  <2>6. x.op = "resume"
    <3>1. SUFFICES ASSUME x.op \in {"pause", "stop", "clear", "report"} PROVE FALSE
      BY <2>2 DEF Operations
    <3>2. PICK s \in Statuses : g = Transition(r, s) /\ s # "active"
      <4>1. {"paused", "cleared", "complete", "blocked"} \subseteq Statuses
        BY DEF Statuses
      <4>. QED
        BY <2>3, <3>1, <4>1 DEF Commanded
    <3>3. g.status = s
      BY <3>2, TransitionIs
    <3>. QED
      BY <2>5, <3>2, <3>3
  <2>7. call' = [call EXCEPT ![c] = NoCall] /\ call \in [Clients -> {NoCall} \cup GoalCall \cup SetCall]
    BY <1>6 DEF WriteGoal, IInv, Shapes
  <2>8. call'[c] = NoCall
    BY <2>7
  <2>. QED
    BY <2>2, <2>5, <2>6, <2>8
<1>7. CASE Pursue
  <2>1. ASSUME NEW id \in GoalIds, BeginTick(id) PROVE FALSE
    BY <1>1, <2>1 DEF BeginTick
  <2>2. ASSUME Observe \/ Stop \/ Rewake \/ Admit PROVE FALSE
    BY <1>1, <2>2 DEF Observe, Stop, Rewake, Admit
  <2>3. ASSUME NEW answer \in Admissions, Wake(answer) PROVE FALSE
    BY <1>1, <2>3 DEF Wake
  <2>. QED
    BY <1>4, <1>7, <2>1, <2>2, <2>3 DEF Pursue
<1>8. CASE Command
  <2>1. ASSUME NEW c \in Clients, ReadForSet(c) PROVE FALSE
    BY <1>1, <2>1 DEF ReadForSet
  <2>2. ASSUME NEW c \in Clients, NEW op \in Commands \ {"set"}, NEW id \in GoalIds, ReadGoal(c, op, id)
        PROVE FALSE
    BY <1>1, <2>2 DEF ReadGoal
  <2>. QED
    BY <1>5, <1>6, <1>8, <2>1, <2>2 DEF Command
<1>9. ASSUME NEW o \in Ordinals, Release(o) \/ Hold(o) \/ ReleaseHeld(o) \/ CancelHeld(o) \/ Dispatch(o)
      PROVE FALSE
  BY <1>1, <1>9 DEF Release, Hold, ReleaseHeld, CancelHeld, Dispatch
<1>10. ASSUME NEW o \in Ordinals, NEW end \in Ends, Finish(o, end) PROVE FALSE
  BY <1>1, <1>10 DEF Finish
<1>11. ASSUME UserPrompt \/ \E sent \in BOOLEAN : Restart(sent) PROVE FALSE
  BY <1>1, <1>11 DEF UserPrompt, Restart
<1>. QED
  BY <1>7, <1>8, <1>9, <1>10, <1>11 DEF Next, Admission

(* goal_ledger.rs replace_goal: no tick and no report that began before     *)
(* makes a stopped goal active; a resume of the stored record alone does.   *)
THEOREM StoppedStays == Spec => StoppedStaysStopped
<1>1. ASSUME IInv, [Next]_vars
      PROVE  \A id \in GoalIds :
                goals[id].status # "active" /\ goals'[id].status = "active"
                => \E c \in Clients : /\ call[c].op = "resume" /\ call[c].goal = id
                                      /\ call[c].read = goals[id] /\ call'[c] = NoCall
  <2>1. CASE UNCHANGED vars
    BY <2>1 DEF vars
  <2>2. CASE Next
    BY <1>1, <2>2, MadeActive
  <2>. QED
    BY <1>1, <2>1, <2>2
<1>. QED
  BY <1>1, IInvHolds, PTL DEF Spec, StoppedStaysStopped

\* Only a user and the tick send prompts.
LEMMA OnlyPrompts ==
  ASSUME IInv, Next, ~UserPrompt, ~Admit
  PROVE  DOMAIN turns' = Ordinals
<1>1. DOMAIN turns = Ordinals
  BY TypesOfTurns
<1>2. CASE Pursue
  <2>1. ASSUME NEW id \in GoalIds, BeginTick(id) PROVE UNCHANGED turns
    BY <2>1 DEF BeginTick
  <2>2. ASSUME Observe \/ Stop \/ Rewake \/ Account \/ Settle \/ Block PROVE UNCHANGED turns
    BY <2>2 DEF Observe, Stop, Rewake, Account, Settle, Block
  <2>3. ASSUME NEW answer \in Admissions, Wake(answer) PROVE UNCHANGED turns
    BY <2>3 DEF Wake
  <2>. QED
    BY <1>1, <1>2, <2>1, <2>2, <2>3 DEF Pursue
<1>3. CASE Command
  <2>1. UNCHANGED turns
    BY <1>3 DEF Command, ReadForSet, SetGoal, ReadGoal, WriteGoal
  <2>. QED
    BY <1>1, <2>1
<1>4. ASSUME NEW o \in Ordinals, Release(o) \/ Hold(o) PROVE DOMAIN turns' = Ordinals
  BY <1>1, <1>4 DEF Release, Hold
<1>5. ASSUME NEW o \in Ordinals, ReleaseHeld(o) \/ CancelHeld(o) PROVE DOMAIN turns' = Ordinals
  BY <1>1, <1>5 DEF ReleaseHeld, CancelHeld
<1>6. ASSUME NEW o \in Ordinals, Dispatch(o) PROVE DOMAIN turns' = Ordinals
  BY <1>1, <1>6 DEF Dispatch
<1>7. ASSUME NEW o \in Ordinals, NEW end \in Ends, Finish(o, end) PROVE DOMAIN turns' = Ordinals
  BY <1>1, <1>7 DEF Finish
<1>8. ASSUME NEW sent \in BOOLEAN, Restart(sent) PROVE DOMAIN turns' = Ordinals
  BY <1>8 DEF Restart
<1>. QED
  BY <1>2, <1>3, <1>4, <1>5, <1>6, <1>7, <1>8 DEF Next, Admission

\* What a continuation that the tick sends is sent in spite of.
LEMMA Continued ==
  ASSUME IInv, Next, NEW o \in DOMAIN turns' \ Ordinals,
         NEW id, id = turns'[o].continues, id # 0
  PROVE  /\ ~BudgetExhausted(goals[id])
         /\ ~ \A p \in o - IdleLimit..o - 1 : p > since[id] /\ IdleContinuation(p, id)
<1>1. PICK l \in Nat : l = Len(turns) /\ Ordinals = 1..l /\ turns \in Seq(Turn)
  BY TypesOfTurns DEF Ordinals, IInv, Shapes
<1>2. ASSUME NEW t \in Turn, turns' = Append(turns, t) PROVE o = l + 1 /\ turns'[o] = t
  <2>1. turns' \in Seq(Turn) /\ Len(turns') = l + 1 /\ turns'[l + 1] = t
    BY <1>1, <1>2, AppendProperties
  <2>2. DOMAIN turns' = 1..(l + 1)
    BY <2>1, LenProperties
  <2>. QED
    BY <1>1, <2>1, <2>2
<1>3. ~UserPrompt
  <2>1. ASSUME UserPrompt PROVE FALSE
    <3>1. PICK z \in Nat, t \in Turn : z = 0 /\ t = NewTurn(z, z, "pending") /\ t.continues = z
      BY NewTurnType
    <3>2. turns' = Append(turns, t)
      BY <2>1, <3>1 DEF UserPrompt
    <3>3. turns'[o] = t
      BY <1>2, <3>2
    <3>. QED
      BY <3>1, <3>3
  <2>. QED
    BY <2>1
<1>4. Admit /\ SavedBefore = {} /\ tick.step = "decide" /\ PursuitStep = "admit"
  <2>1. Admit
    BY <1>3, OnlyPrompts
  <2>2. SavedBefore = {}
    BY <1>1, <2>1, TypesOfTurns DEF Admit
  <2>. QED
    BY <2>1, <2>2 DEF Admit
<1>5. tick # Idle
  BY <1>4 DEF Idle
<1>6. PICK r \in GoalRecord, g \in Nat, a \in Nat :
          /\ r = tick.read /\ g = tick.goal /\ a = r.accounted /\ r.idle \in Nat
          /\ g \in GoalIds
  BY <1>5, TypesOfTick, TypesOfGoals DEF GoalRecord, GoalIds
<1>7. PICK t \in Turn : t = NewTurn(g, a, "awaiting") /\ t.continues = g
  BY NewTurnType
<1>8. turns' = Append(turns, t)
  BY <1>4, <1>6, <1>7 DEF Admit
<1>9. o = l + 1 /\ id = g
  BY <1>2, <1>7, <1>8
<1>10. /\ Prefix(a) /\ Counted(r, id) /\ r.tokens = goals[id].tokens
       /\ r.status = "active" /\ ~BudgetExhausted(r) /\ ~IdleExhausted(r)
       /\ \A p \in Ordinals : p > a => turns[p].continues = 0
  BY <1>4, <1>5, <1>6, <1>9, ReadFitsNow, NothingOpenBefore DEF ReadFits
<1>11. ~BudgetExhausted(goals[id])
  BY <1>10 DEF BudgetExhausted
<1>12. ASSUME \A p \in o - IdleLimit..o - 1 : p > since[id] /\ IdleContinuation(p, id) PROVE FALSE
  <2>1. since[id] \in Nat
    <3>1. since \in Seq(Nat) /\ id \in 1..Len(since)
      BY <1>6, <1>9 DEF IInv, Shapes, GoalIds
    <3>. QED
      BY <3>1, LenProperties
  <2>2. IdleLimit \in Nat /\ IdleLimit >= 1
    BY Constants
  <2>3. o - IdleLimit >= 1
    <3>1. o - IdleLimit \in o - IdleLimit..o - 1
      BY <1>9, <2>2
    <3>2. o - IdleLimit > since[id]
      BY <1>12, <3>1
    <3>. QED
      BY <1>9, <2>1, <2>2, <3>2
  <2>4. l \in o - IdleLimit..o - 1 /\ l \in 1..l
    BY <1>9, <2>2, <2>3
  <2>5. turns[l].continues = id
    BY <1>12, <2>4 DEF IdleContinuation
  <2>6. a = l
    <3>1. a <= l
      BY <1>1, <1>10 DEF Prefix
    <3>2. ~(l > a)
      BY <1>1, <1>10, <2>4, <2>5
    <3>. QED
      BY <3>1, <3>2
  <2>7. IdleLimit \in 1..a
    BY <1>9, <2>2, <2>3, <2>6
  <2>8. \A p \in a - IdleLimit + 1..a : p > since[id] /\ IdleContinuation(p, id)
    <3>1. \A p \in a - IdleLimit + 1..a : p \in o - IdleLimit..o - 1
      BY <1>9, <2>2, <2>6
    <3>. QED
      BY <1>12, <3>1
  <2>9. IdleLimit <= r.idle
    BY <1>6, <1>10, <2>7, <2>8 DEF Counted
  <2>. QED
    BY <1>6, <1>10, <2>2, <2>9 DEF IdleExhausted
<1>. QED
  BY <1>11, <1>12

(* goal_pursuit.rs next_pursuit_step: a goal is not continued once its      *)
(* budget is spent, nor behind IdleLimit idle continuations in a row.       *)
THEOREM LimitsHold == Spec => PursuitRespectsLimits
<1>1. ASSUME IInv, [Next]_vars
      PROVE  \A o \in DOMAIN turns' \ Ordinals : LET id == turns'[o].continues IN
                id # 0 =>
                /\ ~BudgetExhausted(goals[id])
                /\ ~ \A p \in o - IdleLimit..o - 1 : p > since[id] /\ IdleContinuation(p, id)
  <2>1. CASE UNCHANGED vars
    <3>1. DOMAIN turns' = Ordinals
      BY <1>1, <2>1, TypesOfTurns DEF vars
    <3>. QED
      BY <3>1
  <2>2. CASE Next
    BY <1>1, <2>2, Continued
  <2>. QED
    BY <1>1, <2>1, <2>2
<1>. QED
  BY <1>1, IInvHolds, PTL DEF Spec, PursuitRespectsLimits
=============================================================================
