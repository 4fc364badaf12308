------------------------------ MODULE BudgetGate ------------------------------
(***************************************************************************)
(* The token budget of ONE run: BudgetGate objects (one per execution of   *)
(* the run), the atomic ledger document BudgetStore keeps for it in Mongo, *)
(* and what the orchestrator does to both when a run is resumed.           *)
(*                                                                         *)
(* A call goes through the gate in the steps its awaits separate: the      *)
(* gate's asyncio.Lock, initialize(), reserve(), the LLM call, and the     *)
(* release() or debit_overrun() that settles it.  A run that is cancelled  *)
(* or whose process dies takes its gate with it; a resumed run gets a new  *)
(* gate and charges it, by a call of _reserve() of its own (a replay),     *)
(* what the saved rounds spent.  The tie-breaker's call, after the rounds, *)
(* goes through the same gate and is in no ledger entry.                   *)
(***************************************************************************)
EXTENDS Integers, FiniteSets, Functions

CONSTANTS
  Gates,        \* executions of the run, each with a gate of its own
  Calls,        \* LLM calls, and the replays below
  Replays,      \* the calls of _reserve() made by resumed executions
  TieBreaks,    \* the calls of a tie-breaker
  GateOf,       \* the gate a call goes through
  NoCall,       \* an asyncio.Lock nobody owns
  Total,        \* config.total_token_budget
  Amounts,      \* the max_tokens calls ask for
  Usages,       \* the tokens an LLM call reports when it ends
  MaxInterrupts \* bound: executions cut by a cancel or a crash

ASSUME ConstantsAssumption ==
  /\ IsFiniteSet(Calls) /\ Replays \subseteq Calls
  /\ TieBreaks \subseteq Calls \ Replays
  /\ GateOf \in [Calls -> Gates]
  /\ NoCall \notin Calls
  /\ Total \in Nat
  /\ Amounts \subseteq Nat \ {0} /\ Usages \subseteq Nat
  /\ MaxInterrupts \in Nat

VARIABLES
  status,      \* per gate: where its execution stands
  cache,       \* per gate: BudgetGate._remaining
  gateLock,    \* per gate: the call that holds BudgetGate._lock
  ledger,      \* per gate: tokens in the budget ledger of the execution
  untold,      \* per gate: tokens its tie-breakers used (a history variable)
  store,       \* whether a BudgetStore is wired in (fixed from the start), and
               \* the run's document in debate_budgets
  saved,       \* tokens in the ledger entries of the rounds saved so far
  checkpoint,  \* a checkpoint was written: the run can be resumed
  pc,          \* per call: where it stands
  amount,      \* per call: its max_tokens
  used,        \* per call: the tokens the LLM reported
  interrupts

gateVars == <<status, cache, gateLock, ledger, untold>>
callVars == <<pc, amount, used>>
diskVars == <<saved, checkpoint>>
vars == <<gateVars, store, diskVars, callVars, interrupts>>
-----------------------------------------------------------------------------
Locations == {"idle", "waiting", "initializing", "asking", "granted",
              "calling", "answered", "crediting", "done", "refused", "lost"}

\* Calls past their first step and not at their end.
InFlight == {"waiting", "initializing", "asking", "granted", "calling",
             "answered", "crediting"}
\* Calls inside "async with self._lock", at an await.
InLock   == {"initializing", "asking", "granted", "crediting"}
\* Calls whose whole max_tokens may be spent, or lost, for all anyone knows.
Reserved == {"granted", "calling", "lost"}

Debates  == Calls \ Replays
CallsOf(g) == {c \in Calls : GateOf[c] = g}
\* No call is on its way through gate g.
Quiet(g) == \A c \in CallsOf(g) : pc[c] \notin InFlight
\* The statuses of an execution that calls the LLM.
Live == {"up", "concluding"}
Surplus(c) == amount[c] - used[c]

TypeOK ==
  /\ status \in [Gates -> {"off", "replaying", "up", "concluding", "down",
                           "refused"}]
  /\ cache \in [Gates -> Int]
  /\ gateLock \in [Gates -> Calls \cup {NoCall}]
  /\ ledger \in [Gates -> Nat]
  /\ untold \in [Gates -> Nat]
  /\ store \in [wired: BOOLEAN, exists: BOOLEAN, remaining: Int]
  /\ saved \in Nat
  /\ checkpoint \in BOOLEAN
  /\ pc \in [Calls -> Locations]
  /\ amount \in [Calls -> Nat]
  /\ used \in [Calls -> Nat]
  /\ interrupts \in 0..MaxInterrupts

\* One execution starts the run; the others can only resume it.
OneStarted ==
  \E first \in Gates :
    status = [g \in Gates |-> IF g = first THEN "up" ELSE "off"]

Init ==
  /\ OneStarted
  /\ cache = [g \in Gates |-> Total]
  /\ gateLock = [g \in Gates |-> NoCall]
  /\ ledger = [g \in Gates |-> 0]
  /\ untold = [g \in Gates |-> 0]
  /\ \E w \in BOOLEAN :
       store = [wired |-> w, exists |-> FALSE, remaining |-> Total]
  /\ saved = 0
  /\ checkpoint = FALSE
  /\ pc = [c \in Calls |-> "idle"]
  /\ amount = [c \in Calls |-> 0]
  /\ used = [c \in Calls |-> 0]
  /\ interrupts = 0
-----------------------------------------------------------------------------
(* _reserve()                                                               *)

\* An agent of a running execution asks the gate for a call.
Request(c, m) ==
  /\ c \in Debates \ TieBreaks
  /\ pc[c] = "idle"
  /\ status[GateOf[c]] = "up"
  /\ pc' = [pc EXCEPT ![c] = "waiting"]
  /\ amount' = [amount EXCEPT ![c] = m]
  /\ UNCHANGED <<gateVars, store, diskVars, used, interrupts>>

\* A tie-breaker does, after the last round: no agent is asked any more.
RequestTieBreak(c, m) ==
  /\ c \in TieBreaks
  /\ pc[c] = "idle"
  /\ status[GateOf[c]] \in Live
  /\ checkpoint
  /\ Quiet(GateOf[c])
  /\ status' = [status EXCEPT ![GateOf[c]] = "concluding"]
  /\ pc' = [pc EXCEPT ![c] = "waiting"]
  /\ amount' = [amount EXCEPT ![c] = m]
  /\ UNCHANGED <<cache, gateLock, ledger, untold, store, diskVars, used,
                 interrupts>>

\* Mutant of LockIsFree: the gate's own lock is not waited for.
LockIgnored(c) == pc[c] \in InFlight

\* "async with self._lock" can be entered by call c.
LockIsFree(c) == gateLock[GateOf[c]] = NoCall

\* Mutant of Unlock: the lock outlives its block.
KeepLock(c) == pc[c] \in InLock /\ gateLock' = gateLock

\* The end of "async with self._lock".
Unlock(c) == gateLock' = [gateLock EXCEPT ![GateOf[c]] = NoCall]

\* Not enough in the local cache: BudgetExhaustedError, nothing is charged.
RefuseLocally(c) ==
  /\ pc[c] = "waiting"
  /\ LockIsFree(c)
  /\ amount[c] > cache[GateOf[c]]
  /\ pc' = [pc EXCEPT ![c] = "refused"]
  /\ UNCHANGED <<gateVars, store, diskVars, amount, used, interrupts>>

\* Enough in the cache, and a store to ask: the lock is kept over its awaits.
EnterStore(c) ==
  /\ pc[c] = "waiting"
  /\ LockIsFree(c)
  /\ store.wired
  /\ amount[c] <= cache[GateOf[c]]
  /\ gateLock' = [gateLock EXCEPT ![GateOf[c]] = c]
  /\ pc' = [pc EXCEPT ![c] = "initializing"]
  /\ UNCHANGED <<status, cache, ledger, untold, store, diskVars, amount, used,
                 interrupts>>

\* Mutant of Ledgered: the document is set, not set on insert.
LedgerReset == [wired |-> store.wired, exists |-> TRUE, remaining |-> Total]

\* The document after BudgetStore.initialize(): $setOnInsert.
Ledgered == IF store.exists THEN store
            ELSE [wired |-> store.wired, exists |-> TRUE, remaining |-> Total]

Initialize(c) ==
  /\ pc[c] = "initializing"
  /\ store' = Ledgered
  /\ pc' = [pc EXCEPT ![c] = "asking"]
  /\ UNCHANGED <<gateVars, diskVars, amount, used, interrupts>>

\* Mutant of StoreHasRoom: any positive rest will do.
StoreHasSome(m) == store.remaining > 0

\* The filter of BudgetStore.reserve().
StoreHasRoom(m) == store.remaining >= m

\* BudgetStore.reserve(): the filter and the $inc are one step.
Reserve(c) ==
  /\ pc[c] = "asking"
  /\ StoreHasRoom(amount[c])
  /\ store' = [store EXCEPT !.remaining = @ - amount[c]]
  /\ pc' = [pc EXCEPT ![c] = "granted"]
  /\ UNCHANGED <<gateVars, diskVars, amount, used, interrupts>>

\* The store has less than the cache believes: BudgetExhaustedError.  The
\* orchestrator's loop survives it; a replay is outside the loop and ends
\* the resumed run.
RefusedByStore(c) ==
  /\ pc[c] = "asking"
  /\ ~StoreHasRoom(amount[c])
  /\ pc' = [pc EXCEPT ![c] = "refused"]
  /\ Unlock(c)
  /\ status' = IF c \in Replays
               THEN [status EXCEPT ![GateOf[c]] = "refused"] ELSE status
  /\ UNCHANGED <<cache, ledger, untold, store, diskVars, amount, used,
                 interrupts>>

\* The local cache is charged and the lock given back; a replay has done
\* its work, any other call goes on to the LLM.
Charge(c) ==
  /\ cache' = [cache EXCEPT ![GateOf[c]] = @ - amount[c]]
  /\ pc' = [pc EXCEPT ![c] = IF c \in Replays THEN "done" ELSE "calling"]
  /\ status' = IF c \in Replays
               THEN [status EXCEPT ![GateOf[c]] = "up"] ELSE status

Deduct(c) ==
  /\ pc[c] = "granted"
  /\ Charge(c)
  /\ Unlock(c)
  /\ UNCHANGED <<ledger, untold, store, diskVars, amount, used, interrupts>>

\* Without a store the whole of _reserve() is one step.
ReserveLocally(c) ==
  /\ pc[c] = "waiting"
  /\ LockIsFree(c)
  /\ ~store.wired
  /\ amount[c] <= cache[GateOf[c]]
  /\ Charge(c)
  /\ UNCHANGED <<gateLock, ledger, untold, store, diskVars, amount, used,
                 interrupts>>
-----------------------------------------------------------------------------
(* The LLM call and its settlement: one path for a result, for an           *)
(* LLMValidationError (which carries its tokens) and for any other error    *)
(* (taken as zero tokens): release() what is left, debit_overrun() what is  *)
(* beyond the reservation.                                                  *)

\* The call's tokens enter the ledger of its execution; a tie-breaker's are
\* only drawn from the reserve (draw_from_reserve).
Record(c) ==
  IF c \in TieBreaks
  THEN untold' = [untold EXCEPT ![GateOf[c]] = @ + used'[c]] /\ ledger' = ledger
  ELSE ledger' = [ledger EXCEPT ![GateOf[c]] = @ + used'[c]] /\ untold' = untold

\* The LLM call used exactly what it reserved: nothing to settle.
AnswerExact(c) ==
  /\ pc[c] = "calling"
  /\ amount[c] \in Usages
  /\ used' = [used EXCEPT ![c] = amount[c]]
  /\ pc' = [pc EXCEPT ![c] = "done"]
  /\ Record(c)
  /\ UNCHANGED <<status, cache, gateLock, store, diskVars, amount, interrupts>>

Answer(c, u) ==
  /\ pc[c] = "calling"
  /\ u # amount[c]
  /\ used' = [used EXCEPT ![c] = u]
  /\ pc' = [pc EXCEPT ![c] = "answered"]
  /\ UNCHANGED <<gateVars, store, diskVars, amount, interrupts>>

\* Mutant of Correction: an overrun is absorbed instead of debited.
CorrectionUpward(c) == IF Surplus(c) > 0 THEN Surplus(c) ELSE 0

\* What _release() adds to, or _debit_overrun() takes from, both tiers.
Correction(c) == Surplus(c)

\* The cache is corrected first, under the lock.
Credit(c) ==
  /\ pc[c] = "answered"
  /\ LockIsFree(c)
  /\ store.wired
  /\ cache' = [cache EXCEPT ![GateOf[c]] = @ + Correction(c)]
  /\ gateLock' = [gateLock EXCEPT ![GateOf[c]] = c]
  /\ pc' = [pc EXCEPT ![c] = "crediting"]
  /\ UNCHANGED <<status, ledger, untold, store, diskVars, amount, used,
                 interrupts>>

\* Then the store, by an unconditional $inc.
CreditStore(c) ==
  /\ pc[c] = "crediting"
  /\ store' = [store EXCEPT !.remaining = @ + Correction(c)]
  /\ Unlock(c)
  /\ pc' = [pc EXCEPT ![c] = "done"]
  /\ UNCHANGED <<used>>
  /\ Record(c)
  /\ UNCHANGED <<status, cache, diskVars, amount, interrupts>>

CreditLocally(c) ==
  /\ pc[c] = "answered"
  /\ LockIsFree(c)
  /\ ~store.wired
  /\ cache' = [cache EXCEPT ![GateOf[c]] = @ + Correction(c)]
  /\ pc' = [pc EXCEPT ![c] = "done"]
  /\ UNCHANGED <<used>>
  /\ Record(c)
  /\ UNCHANGED <<status, gateLock, store, diskVars, amount, interrupts>>
-----------------------------------------------------------------------------
(* Rounds, interruptions and resumption.                                    *)

\* Between rounds: the ledger entries reach the disk with the checkpoint.
SaveRound(g) ==
  /\ status[g] = "up"
  /\ Quiet(g)
  /\ ~checkpoint \/ saved # ledger[g]
  /\ saved' = ledger[g]
  /\ checkpoint' = TRUE
  /\ UNCHANGED <<gateVars, store, callVars, interrupts>>

\* The execution ends inside a call: the streaming client left and the task
\* is cancelled (CancelledError is no Exception: nothing is released), an
\* await on Mongo raised, or the process died.  Nobody settles the call.
Interrupt(g) ==
  /\ interrupts < MaxInterrupts
  /\ status[g] \in Live \cup {"replaying"}
  /\ interrupts' = interrupts + 1
  /\ status' = [status EXCEPT ![g] = "down"]
  /\ gateLock' = [gateLock EXCEPT ![g] = NoCall]
  /\ pc' = [c \in Calls |->
              IF c \in CallsOf(g) /\ pc[c] \in InFlight
              THEN IF pc[c] \in {"waiting", "initializing", "asking"}
                   THEN "refused" ELSE "lost"
              ELSE pc[c]]
  /\ UNCHANGED <<cache, ledger, untold, store, diskVars, amount, used>>

\* already_spent, capped by what the new gate has.
ReplayAmount(g) == IF saved < Total THEN saved ELSE Total

\* A resumed execution: a new gate and a new ledger filled from the trace.
ResumeNew(g) ==
  /\ checkpoint
  /\ status[g] \in {"off", "down"}
  /\ cache' = [cache EXCEPT ![g] = Total]
  /\ ledger' = [ledger EXCEPT ![g] = saved]
  /\ untold' = [untold EXCEPT ![g] = 0]

\* Nothing was spent: no replay ("if already_spent").
ResumeUnspent(g) ==
  /\ ResumeNew(g)
  /\ ReplayAmount(g) = 0
  /\ status' = [status EXCEPT ![g] = "up"]
  /\ UNCHANGED <<gateLock, store, diskVars, callVars, interrupts>>

\* Otherwise r, a call of _reserve(), comes before any LLM call.
ResumeSpent(g, r) ==
  /\ ResumeNew(g)
  /\ ReplayAmount(g) > 0
  /\ pc[r] = "idle"
  /\ GateOf[r] = g
  /\ status' = [status EXCEPT ![g] = "replaying"]
  /\ pc' = [pc EXCEPT ![r] = "waiting"]
  /\ amount' = [amount EXCEPT ![r] = ReplayAmount(g)]
  /\ UNCHANGED <<gateLock, store, diskVars, used, interrupts>>

\* The steps a call takes by itself once it was made.
Step(c) ==
  \/ RefuseLocally(c) \/ EnterStore(c) \/ Initialize(c) \/ Reserve(c)
  \/ RefusedByStore(c) \/ Deduct(c) \/ ReserveLocally(c)
  \/ AnswerExact(c) \/ (\E u \in Usages : Answer(c, u))
  \/ Credit(c) \/ CreditStore(c) \/ CreditLocally(c)

Next ==
  \/ \E c \in Calls :
       Step(c) \/ \E m \in Amounts : Request(c, m) \/ RequestTieBreak(c, m)
  \/ \E g \in Gates : \/ SaveRound(g) \/ Interrupt(g) \/ ResumeUnspent(g)
                      \/ \E r \in Replays : ResumeSpent(g, r)

Spec == Init /\ [][Next]_vars

\* Awaits end: the store answers, and an LLM call has a timeout.
Fairness == \A c \in Calls : WF_vars(Step(c))
FairSpec == Spec /\ Fairness
-----------------------------------------------------------------------------
\* What the provider may have spent within the reservations of call c.
Commitment(c) ==
  IF pc[c] \in Reserved THEN amount[c]
  ELSE IF pc[c] \in {"answered", "crediting", "done"} /\ c \in Debates
       THEN IF used[c] < amount[c] THEN used[c] ELSE amount[c]
       ELSE 0

\* Only one execution of the run was ever started.
SoleExecution ==
  /\ interrupts = 0
  /\ \A g, h \in Gates : status[g] # "off" /\ status[h] # "off" => g = h

\* With a store, over all executions of the run, whatever is interrupted and
\* resumed, the tokens spent and those of the calls in flight stay within the
\* budget; only the part of a call beyond its own max_tokens is not covered
\* ("two debates [...] touching the same run_id's budget can never both
\* succeed past what's really left", the module comment of budget_gate.py).
\* Without one, the gate alone keeps its own execution within it.
CommittedWithinBudget ==
  store.wired \/ SoleExecution =>
    SumFunction([c \in Debates |-> Commitment(c)]) <= Total

\* Whenever nobody is inside the gate's lock, the gate's cache and the Mongo
\* ledger are equal, with calls in flight too ("this field and debate_budgets.
\* remaining always agree", orchestrator.py): true as long as there was only
\* one execution.
GateMirrorsStore ==
  SoleExecution =>
    \A g \in Gates :
      status[g] \in Live /\ gateLock[g] = NoCall /\ store.exists =>
        store.remaining = cache[g]

\* Between calls the gate and the budget ledger of the execution agree: the
\* cache is what the recorded tokens leave, in a resumed execution too (where
\* an exhausted budget is shown as 0), less what a tie-breaker used, which the
\* gate alone knows of.
LedgerExplainsGate ==
  \A g \in Gates :
    status[g] \in Live /\ Quiet(g) =>
      \/ cache[g] = Total - ledger[g] - untold[g]
      \/ cache[g] = 0 /\ ledger[g] >= Total

\* No caller waits for ever at the gate: its lock is always given back, and
\* each call ends settled, refused or with its execution.
EveryCallEnds ==
  \A c \in Calls : pc[c] = "waiting" ~> pc[c] \in {"done", "refused", "lost"}
-----------------------------------------------------------------------------
(* What the repository says and the code does not do.                       *)

\* A resumed run goes on: its replay is not refused ("if the debate is
\* incomplete, continues from checkpoint.last_completed_round + 1",
\* DebateOrchestrator.run).
ResumeIsAdmitted == \A g \in Gates : status[g] # "refused"
-----------------------------------------------------------------------------
(* The promise the gate and the store keep together.                        *)

Cell == INSTANCE BudgetCell WITH
          left <- IF store.exists THEN store.remaining ELSE Total,
          held <- [c \in Calls |->
                     IF store.wired /\ pc[c] \in {"granted", "calling",
                                                 "answered", "crediting"}
                     THEN amount[c] ELSE 0]

\* Through all the awaits, the lock, the cache and the interruptions, the
\* ledger moves only as one atomic budget does: each reservation is admitted
\* in one step against what is left, and settled at most once.  (Without a
\* store there is no ledger, and the cell is at rest.)
ImplementsCell == Cell!Spec
=============================================================================
