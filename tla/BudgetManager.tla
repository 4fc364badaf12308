----------------------------- MODULE BudgetManager -----------------------------
(***************************************************************************)
(* The planning of tokens over the rounds of one debate: BudgetManager,    *)
(* as _run_locked drives it (a plan per round, one agent after the other,  *)
(* the checks that end the loop, the tie-breaker at the end, a resumed     *)
(* execution), next to the BudgetGate that admits or refuses each call, by *)
(* its cache and, if there is one, by the ledger of the run in Mongo, which *)
(* survives the execution.                                                 *)
(*                                                                         *)
(* Abstracted: the order of the agents and which of them are contested     *)
(* (any subset), the convergence score behind the mode, the tokens a call  *)
(* uses (what it was given and a deviation), what the gate does inside     *)
(* (module BudgetGate: here a call is reserved and settled at once, or is  *)
(* in flight when its execution dies), and files (module DebateRun).       *)
(***************************************************************************)
EXTENDS Integers, FiniteSets, Functions

CONSTANTS
  Agents,       \* the analysts of the debate
  Total,        \* config.total_token_budget
  NumRounds,    \* config.num_rounds
  MinViable,    \* min_viable_allocation
  Deviations,   \* by how many tokens a call may miss what it was given
  MaxResumes    \* bound: executions that die and are resumed

ASSUME ConstantsAssumption ==
  /\ IsFiniteSet(Agents) /\ Agents # {}
  /\ Total \in Nat /\ Deviations \subseteq Int /\ MaxResumes \in Nat
  /\ NumRounds \in Nat \ {0} /\ MinViable \in Nat \ {0}

VARIABLES
  phase,            \* "between" rounds, "asking" agents, "final" (the loop is
                    \* over), "resolved" by a tie-breaker, "done"; "down": the
                    \* tie-breaker's call failed; "refused": the replay was
  round,            \* round_num
  used,             \* _tokens_used_total
  reserveUsed,      \* _reserve_used
  roundsAllocated,  \* _rounds_allocated
  share,            \* the plan of the round
  contested,        \* the agents the plan prefers
  waiting,          \* agents of the round that were not asked yet
  gate,             \* BudgetGate.remaining
  store,            \* whether a BudgetStore is wired in, and its remaining
  saved,            \* tokens in the ledger entries of the saved rounds
  \* History variables:
  excess,           \* tokens used beyond the shares, by this execution
  untracked,        \* tokens of a tie-breaker that no tracker holds
  strays,           \* tokens the store was charged for earlier executions
                    \* over and above those the replays count, and for replays
  resumes

plan == <<share, contested>>
vars == <<phase, round, used, reserveUsed, roundsAllocated, plan, waiting,
          gate, store, saved, excess, untracked, strays, resumes>>
-----------------------------------------------------------------------------
NumAgents == Cardinality(Agents)

\* The 10% of DEFAULT_RESERVE_FRACTION, and the rest.
reserve_pool == Total \div 10
spendable_budget == Total - reserve_pool

remaining_budget == spendable_budget - used
remaining_reserve == reserve_pool - reserveUsed

AtLeast(x, y) == IF x < y THEN y ELSE x
AtMost(x, y)  == IF x < y THEN x ELSE y
\* The tokens of a call that was given x.
Usages(x) == {AtLeast(x + d, 0) : d \in Deviations}
\* max(x - y, 0)
Beyond(x, y) == AtLeast(x - y, 0)

TypeOK ==
  /\ phase \in {"between", "asking", "final", "resolved", "done", "down",
                "refused"}
  /\ round \in 1..NumRounds + 1
  /\ used \in Nat
  /\ reserveUsed \in 0..reserve_pool
  /\ roundsAllocated \in 0..NumRounds
  /\ share \in [Agents -> Nat]
  /\ contested \in SUBSET Agents
  /\ waiting \in SUBSET Agents
  /\ gate \in Int
  /\ store \in [wired: BOOLEAN, left: Int]
  /\ saved \in Nat
  /\ excess \in Nat
  /\ untracked \in Nat
  /\ strays \in Nat
  /\ resumes \in 0..MaxResumes

Init ==
  /\ phase = "between"
  /\ round = 1
  /\ used = 0
  /\ reserveUsed = 0
  /\ roundsAllocated = 0
  /\ share = [a \in Agents |-> 0]
  /\ contested = {}
  /\ waiting = {}
  /\ gate = Total
  /\ \E w \in BOOLEAN : store = [wired |-> w, left |-> Total]
  /\ saved = 0
  /\ excess = 0
  /\ untracked = 0
  /\ strays = 0
  /\ resumes = 0
-----------------------------------------------------------------------------
(* allocate()                                                               *)

floor_total == MinViable * NumAgents

remaining_rounds == AtLeast(NumRounds - roundsAllocated, 1)

baseline_per_agent ==
  AtLeast(remaining_budget \div (NumAgents * remaining_rounds), MinViable)

round_budget ==
  AtMost(AtLeast(baseline_per_agent * NumAgents, floor_total), remaining_budget)

EvenShare == [a \in Agents |-> round_budget \div NumAgents]

\* round_budget / (2.5 * contested + others), rounded down.
BaseShare(C) == (2 * round_budget) \div (5 * Cardinality(C)
                                         + 2 * (NumAgents - Cardinality(C)))

\* The floor for everyone, and what is left to the contested agents.
FloorShare(C) ==
  LET bonus == Beyond(round_budget, floor_total) \div Cardinality(C)
  IN  [a \in Agents |-> IF a \in C THEN MinViable + bonus ELSE MinViable]

\* 2.5 times the base share for the contested agents.
WeightedShare(C) ==
  [a \in Agents |-> IF a \in C THEN (5 * BaseShare(C)) \div 2 ELSE BaseShare(C)]

\* Mutant of ExploitShare: the test of the floor is missing.
ExploitUnfloored(C) == WeightedShare(C)

\* _exploit_allocation: the weights, unless they starve the others.
ExploitShare(C) ==
  IF BaseShare(C) < MinViable THEN FloorShare(C) ELSE WeightedShare(C)

\* The test that raises BudgetExhaustedError when it fails.
Viable == remaining_budget >= floor_total

\* A round is planned: the exploit mode prefers contested agents, if there
\* are both kinds; every other mode splits evenly (C empty).
Allocate(C) ==
  /\ phase = "between"
  /\ round <= NumRounds
  /\ Viable
  /\ C # Agents
  /\ roundsAllocated' = roundsAllocated + 1
  /\ share' = IF C = {} THEN EvenShare ELSE ExploitShare(C)
  /\ contested' = C
  /\ waiting' = Agents
  /\ phase' = "asking"
  /\ UNCHANGED <<round, used, reserveUsed, gate, store, saved, excess, untracked,
                 strays, resumes>>

\* The loop ends: no round is left, or BudgetExhaustedError breaks it.
EndLoop ==
  /\ phase = "between"
  /\ round > NumRounds \/ ~Viable
  /\ phase' = "final"
  /\ UNCHANGED <<round, used, reserveUsed, roundsAllocated, plan, waiting,
                 gate, store, saved, excess, untracked, strays, resumes>>
-----------------------------------------------------------------------------
(* The agents of a round.                                                   *)

\* What the gate can still admit: its cache, and what the store has left.
Room == IF store.wired /\ store.left < gate THEN store.left ELSE gate

\* The two tests of BudgetGate._reserve().
GateAdmits(m) == m <= Room

\* The ledger in Mongo after n more tokens were taken.
Debited(n) == IF store.wired THEN [store EXCEPT !.left = @ - n] ELSE store

\* Mutant of Used: a call beyond its share is not recorded.
UsedWithinShare(a, u) == IF u > share[a] THEN used ELSE used + u

\* record_actual_usage().
Used(a, u) == used + u

\* An agent answers, or is excluded with the tokens of its failed attempts.
Ask(a, u) ==
  /\ phase = "asking"
  /\ a \in waiting
  /\ GateAdmits(share[a])
  /\ used' = Used(a, u)
  /\ gate' = gate - u
  /\ store' = Debited(u)
  /\ excess' = excess + Beyond(u, share[a])
  /\ waiting' = waiting \ {a}
  /\ UNCHANGED <<phase, round, reserveUsed, roundsAllocated, plan, saved,
                 untracked, strays, resumes>>

\* The gate refuses: the agents after this one are not asked either.
RefuseAsk(a) ==
  /\ phase = "asking"
  /\ a \in waiting
  /\ ~GateAdmits(share[a])
  /\ waiting' = {}
  /\ UNCHANGED <<phase, round, used, reserveUsed, roundsAllocated, plan, gate,
                 store, saved, excess, untracked, strays, resumes>>

\* The round is recorded and saved; the check after it ends the loop if the
\* budget is overdrawn and another round would follow.
EndRound ==
  /\ phase = "asking"
  /\ waiting = {}
  /\ saved' = used
  /\ round' = round + 1
  /\ phase' = IF remaining_budget < 0 /\ round < NumRounds
              THEN "final" ELSE "between"
  /\ UNCHANGED <<used, reserveUsed, roundsAllocated, plan, waiting, gate,
                 store, excess, untracked, strays, resumes>>
-----------------------------------------------------------------------------
(* The tie-breaker, with the whole reserve as its max_tokens.               *)

\* The test of draw_from_reserve(), after the tokens were used.
ReserveCovers(u) == u <= remaining_reserve

\* Its call was admitted and used u tokens.
TieBreakerCalled(u) ==
  /\ phase = "final"
  /\ round > 1
  /\ GateAdmits(remaining_reserve)
  /\ gate' = gate - u
  /\ store' = Debited(u)
  /\ excess' = excess + Beyond(u, remaining_reserve)
  /\ UNCHANGED <<round, used, roundsAllocated, plan, waiting, saved, strays,
                 resumes>>

\* It answers within the reserve, from which its tokens are drawn.
TieBreak(u) ==
  /\ TieBreakerCalled(u)
  /\ ReserveCovers(u)
  /\ reserveUsed' = reserveUsed + u
  /\ phase' = "resolved"
  /\ UNCHANGED untracked

\* It answers beyond the reserve: its tokens are in no tracker of
\* BudgetManager and flag_unresolved decides.
TieBreakOverrun(u) ==
  /\ TieBreakerCalled(u)
  /\ ~ReserveCovers(u)
  /\ untracked' = untracked + u
  /\ phase' = "resolved"
  /\ UNCHANGED reserveUsed

\* It has no valid answer: LLMValidationError ends the execution.
TieBreakFails(u) ==
  /\ TieBreakerCalled(u)
  /\ untracked' = untracked + u
  /\ phase' = "down"
  /\ UNCHANGED reserveUsed

\* The end: the tie-breaker decided, or none is called for, or the gate
\* refuses it.
Conclude ==
  /\ phase \in {"final", "resolved"}
  /\ phase' = "done"
  /\ UNCHANGED <<round, used, reserveUsed, roundsAllocated, plan, waiting,
                 gate, store, saved, excess, untracked, strays, resumes>>
-----------------------------------------------------------------------------
(* The execution dies, or its tie-breaker failed, and another one, with new *)
(* trackers and a new gate, goes on after the last saved round.             *)

\* Mutant of ReplayedUsage: only the gate is charged for the saved rounds.
ReplayedToGateOnly == 0

\* _tokens_used_total after the replay of the saved ledger entries.
ReplayedUsage == saved

\* What the new gate reserves for them: already_spent, capped by its Total.
ReplayAmount == AtMost(saved, Total)

\* The gate is new, so only a store can refuse them.
ReplayAdmitted(n) ==
  store.wired /\ ReplayAmount > 0 => ReplayAmount <= store.left - n

\* What the call in flight had reserved when the execution died, if any.
Abandoned ==
  {0} \cup {m \in {share[a] : a \in waiting} : phase = "asking" /\ GateAdmits(m)}
      \cup {m \in {remaining_reserve} :
              phase = "final" /\ round > 1 /\ GateAdmits(m)}

\* What the store was charged by the execution that died and its successor
\* does not know of.
Forgotten(n) == used - saved + reserveUsed + untracked + n

Restart ==
  /\ phase # "done"
  /\ round > 1
  /\ resumes < MaxResumes
  /\ resumes' = resumes + 1
  /\ used' = ReplayedUsage
  /\ reserveUsed' = 0
  /\ untracked' = 0
  /\ roundsAllocated' = 0
  /\ waiting' = {}
  /\ excess' = Beyond(saved, spendable_budget)
  /\ UNCHANGED <<round, plan, saved>>

\* The replay is reserved, in the store a second time.
Resume(n) ==
  /\ Restart
  /\ ReplayAdmitted(n)
  /\ phase' = "between"
  /\ gate' = Total - ReplayAmount
  /\ store' = Debited(n + ReplayAmount)
  /\ strays' = IF store.wired THEN strays + Forgotten(n) + ReplayAmount
               ELSE strays

\* The store has too little for that: BudgetExhaustedError ends the new
\* execution, before any round.
RefuseResume(n) ==
  /\ Restart
  /\ ~ReplayAdmitted(n)
  /\ phase' = "refused"
  /\ gate' = Total
  /\ store' = Debited(n)
  /\ strays' = strays + Forgotten(n)

Next ==
  \/ \E C \in SUBSET Agents : Allocate(C)
  \/ EndLoop
  \/ \E a \in Agents :
       \/ \E u \in Usages(share[a]) : Ask(a, u)
       \/ RefuseAsk(a)
  \/ EndRound
  \/ \E u \in Usages(remaining_reserve) :
       TieBreak(u) \/ TieBreakOverrun(u) \/ TieBreakFails(u)
  \/ Conclude
  \/ \E n \in Abandoned : Resume(n) \/ RefuseResume(n)

Spec == Init /\ [][Next]_vars
-----------------------------------------------------------------------------
Planned == SumFunctionOnSet(share, waiting)

\* The plan of a round is funded, in every mode: with what was used, the
\* shares of the agents still to be asked stay within the spendable budget,
\* but for the tokens used beyond the shares ("the round's total allocation
\* still respects the recomputed per-round baseline", allocate()).
PlanIsFunded ==
  phase = "asking" => used + Planned <= spendable_budget + excess

\* Nobody is set up to fail: whatever the preference for contested agents
\* costs the others, each share of a plan is viable (_exploit_allocation).
NobodyStarves == phase = "asking" => \A a \in Agents : share[a] >= MinViable

\* A contested agent never gets less than one that is not ("never below 1x",
\* _exploit_allocation).
ContestedFirst ==
  phase = "asking" =>
    \A a \in contested, b \in Agents \ contested : share[a] >= share[b]

\* A plan can be carried out, whatever came before it: it is funded, it gives
\* everyone enough to answer, and it puts the contested agents first.
PlanIsSound == TypeOK /\ PlanIsFunded /\ NobodyStarves /\ ContestedFirst

\* The planner counts on no tokens the gate would refuse, but for those it
\* cannot know of: the gate has room for every agent of the plan, and for the
\* tie-breaker, up to the tokens calls used beyond their shares and, with a
\* store, those it was charged for other executions and for replays.  So in
\* the first execution, and in every one without a store, no agent that keeps
\* its share makes the gate refuse another ("the two start in sync",
\* _run_locked); a resumed one with a store has lost that room.
PlanFitsGate ==
  /\ phase = "asking" => Planned <= Room + excess + strays
  /\ phase = "final" => remaining_reserve <= Room + excess + strays
  /\ ~store.wired \/ resumes = 0 => strays = 0

\* No token of an execution goes unaccounted, over all its calls: what the gate
\* has lost is what the two trackers hold and what no tracker holds (a gate
\* that started with an exhausted budget begins at 0 instead), and so is what
\* the store has lost, with the strays.  Tokens are in no tracker only if a
\* tie-breaker overran the reserve or failed, and then all it used are.
TrackersExplainGate ==
  /\ \/ Total - gate = used + reserveUsed + untracked
     \/ resumes > 0 /\ used >= Total /\ 0 - gate = reserveUsed + untracked
     \/ phase = "refused"
  /\ store.wired =>
       Total - store.left = used + reserveUsed + untracked + strays
  /\ untracked > 0 =>
       /\ reserveUsed = 0
       /\ phase = "down" \/ untracked > reserve_pool
=============================================================================
