--------------------------- MODULE BudgetGateProofs ---------------------------
(***************************************************************************)
(* Proofs about BudgetGate, for any number of executions and calls, any    *)
(* budget and any max_tokens: admission, the implementation of BudgetCell, *)
(* the cache and the ledger.  Then about StructuredCall, what one admitted *)
(* call may spend: the ceiling on a sequence, and where tokens are lost.   *)
(***************************************************************************)
EXTENDS BudgetGate, StructuredCall, FoldFacts, TLAPS

USE DEF Live

\* An agent or a tie-breaker asks for a call.
Asks(c, m) == Request(c, m) \/ RequestTieBreak(c, m)

LEMMA VarsUnchanged ==
  ASSUME UNCHANGED vars
  PROVE  UNCHANGED <<status, cache, gateLock, ledger, untold, store, saved, checkpoint,
                     pc, amount, used, interrupts>>
BY DEF vars, gateVars, diskVars, callVars

LEMMA InitTyped == Init => TypeOK
<1> SUFFICES ASSUME Init PROVE TypeOK
  OBVIOUS
<1> USE ConstantsAssumption
<1>1. status \in [Gates -> {"off", "replaying", "up", "concluding", "down",
                            "refused"}]
  BY DEF Init, OneStarted
<1>2. /\ cache \in [Gates -> Int]
      /\ gateLock \in [Gates -> Calls \cup {NoCall}]
      /\ ledger \in [Gates -> Nat] /\ untold \in [Gates -> Nat]
  BY DEF Init
<1>3. store \in [wired: BOOLEAN, exists: BOOLEAN, remaining: Int]
  BY DEF Init
<1>4. pc \in [Calls -> Locations] /\ amount \in [Calls -> Nat]
      /\ used \in [Calls -> Nat]
  BY DEF Init, Locations
<1>5. saved \in Nat /\ interrupts \in 0..MaxInterrupts
  BY DEF Init
<1>6. checkpoint \in BOOLEAN
  BY DEF Init
<1> QED
  BY <1>1, <1>2, <1>3, <1>4, <1>5, <1>6, Zenon DEF TypeOK

\* Type correctness of the gate, the Mongo ledger and the resumption, the
\* reservation path of budget_gate.py among them.
THEOREM TypeCorrect == Spec => []TypeOK
<1> USE ConstantsAssumption
<1>1. Init => TypeOK
  BY InitTyped
<1>2. TypeOK /\ [Next]_vars => TypeOK'
  <2> SUFFICES ASSUME TypeOK, [Next]_vars PROVE TypeOK'
    OBVIOUS
  <2> USE DEF TypeOK, Locations, gateVars, diskVars, callVars, LockIsFree,
              Unlock, CallsOf, Debates
  <2>1. ASSUME NEW c \in Calls, RefuseLocally(c) PROVE TypeOK'
    BY <2>1 DEF RefuseLocally
  <2>2. ASSUME NEW c \in Calls, EnterStore(c) PROVE TypeOK'
    BY <2>2 DEF EnterStore
  <2>3. ASSUME NEW c \in Calls, Initialize(c) PROVE TypeOK'
    BY <2>3 DEF Initialize, Ledgered
  <2>4. ASSUME NEW c \in Calls, Reserve(c) PROVE TypeOK'
    BY <2>4 DEF Reserve
  <2>5. ASSUME NEW c \in Calls, RefusedByStore(c) PROVE TypeOK'
    BY <2>5 DEF RefusedByStore
  <2>6. ASSUME NEW c \in Calls, Deduct(c) PROVE TypeOK'
    BY <2>6 DEF Deduct, Charge
  <2>7. ASSUME NEW c \in Calls, ReserveLocally(c) PROVE TypeOK'
    BY <2>7 DEF ReserveLocally, Charge
  <2>8. ASSUME NEW c \in Calls, AnswerExact(c) PROVE TypeOK'
    BY <2>8 DEF AnswerExact, Record
  <2>9. ASSUME NEW c \in Calls, Credit(c) PROVE TypeOK'
    BY <2>9 DEF Credit, Correction, Surplus
  <2>10. ASSUME NEW c \in Calls, CreditStore(c) PROVE TypeOK'
    BY <2>10 DEF CreditStore, Correction, Surplus, Record
  <2>11. ASSUME NEW c \in Calls, CreditLocally(c) PROVE TypeOK'
    BY <2>11 DEF CreditLocally, Correction, Surplus, Record
  <2>12. ASSUME NEW c \in Calls, NEW u \in Usages, Answer(c, u) PROVE TypeOK'
    BY <2>12 DEF Answer
  <2>13. ASSUME NEW c \in Calls, NEW m \in Amounts, Asks(c, m)
         PROVE TypeOK'
    BY <2>13 DEF Asks, Request, RequestTieBreak
  <2>14. ASSUME NEW g \in Gates, SaveRound(g) PROVE TypeOK'
    BY <2>14 DEF SaveRound
  <2>15. ASSUME NEW g \in Gates, Interrupt(g) PROVE TypeOK'
    BY <2>15 DEF Interrupt
  <2>16. ASSUME NEW g \in Gates, ResumeUnspent(g) PROVE TypeOK'
    BY <2>16 DEF ResumeUnspent, ResumeNew
  <2>17. ASSUME NEW g \in Gates, NEW r \in Replays, ResumeSpent(g, r)
         PROVE TypeOK'
    BY <2>17 DEF ResumeSpent, ResumeNew, ReplayAmount
  <2>18. CASE UNCHANGED vars
    BY <2>18, VarsUnchanged
  <2> QED
    BY <2>1, <2>2, <2>3, <2>4, <2>5, <2>6, <2>7, <2>8, <2>9, <2>10, <2>11, <2>12, <2>13, <2>14, <2>15, <2>16, <2>17, <2>18
    DEF Next, Asks, Step
<1> QED
  BY <1>1, <1>2, PTL DEF Spec

-----------------------------------------------------------------------------
(* The gate and the store implement the atomic budget cell.                 *)

\* The inductive invariant of the simulation: calls past their first step
\* ask for something, with a store calls past initialize() have a ledger
\* document, without one none is inside the gate's lock at an await, and
\* what is being settled is a usage the LLM reported.
CellInv ==
  /\ TypeOK
  /\ \A c \in Calls :
       /\ pc[c] \in InFlight => amount[c] > 0
       /\ store.wired
          /\ pc[c] \in {"asking", "granted", "calling", "answered", "crediting"}
            => store.exists
       /\ ~store.wired => pc[c] \notin InLock
       /\ pc[c] \in {"answered", "crediting"} => used[c] \in Usages

LEMMA CellInvInit == Init => CellInv
BY InitTyped DEF Init, CellInv, InFlight, InLock

LEMMA CellInvNext ==
  ASSUME CellInv, TypeOK', [Next]_vars
  PROVE  CellInv'
<1> USE ConstantsAssumption DEF CellInv, TypeOK, Locations, InFlight, InLock, gateVars,
        diskVars, callVars, LockIsFree, Unlock, CallsOf, Debates
<1>1. ASSUME NEW c \in Calls, RefuseLocally(c) PROVE CellInv'
  BY <1>1 DEF RefuseLocally
<1>2. ASSUME NEW c \in Calls, EnterStore(c) PROVE CellInv'
  BY <1>2 DEF EnterStore
<1>3. ASSUME NEW c \in Calls, Initialize(c) PROVE CellInv'
  BY <1>3 DEF Initialize, Ledgered
<1>4. ASSUME NEW c \in Calls, Reserve(c) PROVE CellInv'
  BY <1>4 DEF Reserve
<1>5. ASSUME NEW c \in Calls, RefusedByStore(c) PROVE CellInv'
  BY <1>5 DEF RefusedByStore
<1>6. ASSUME NEW c \in Calls, Deduct(c) PROVE CellInv'
  BY <1>6 DEF Deduct, Charge
<1>7. ASSUME NEW c \in Calls, ReserveLocally(c) PROVE CellInv'
  BY <1>7 DEF ReserveLocally, Charge
<1>8. ASSUME NEW c \in Calls, AnswerExact(c) PROVE CellInv'
  BY <1>8 DEF AnswerExact, Record
<1>9. ASSUME NEW c \in Calls, Credit(c) PROVE CellInv'
  BY <1>9 DEF Credit
<1>10. ASSUME NEW c \in Calls, CreditStore(c) PROVE CellInv'
  BY <1>10 DEF CreditStore, Record
<1>11. ASSUME NEW c \in Calls, CreditLocally(c) PROVE CellInv'
  BY <1>11 DEF CreditLocally, Record
<1>12. ASSUME NEW c \in Calls, NEW u \in Usages, Answer(c, u) PROVE CellInv'
  BY <1>12 DEF Answer
<1>13. ASSUME NEW c \in Calls, NEW m \in Amounts, Asks(c, m) PROVE CellInv'
  BY <1>13 DEF Asks, Request, RequestTieBreak
<1>14. ASSUME NEW g \in Gates, SaveRound(g) PROVE CellInv'
  BY <1>14 DEF SaveRound
<1>15. ASSUME NEW g \in Gates, Interrupt(g) PROVE CellInv'
  BY <1>15 DEF Interrupt
<1>16. ASSUME NEW g \in Gates, ResumeUnspent(g) PROVE CellInv'
  BY <1>16 DEF ResumeUnspent, ResumeNew
<1>17. ASSUME NEW g \in Gates, NEW r \in Replays, ResumeSpent(g, r)
       PROVE CellInv'
  BY <1>17 DEF ResumeSpent, ResumeNew, ReplayAmount
<1>18. CASE UNCHANGED vars
  BY <1>18, VarsUnchanged
<1> QED
  BY <1>1, <1>2, <1>3, <1>4, <1>5, <1>6, <1>7, <1>8, <1>9, <1>10, <1>11, <1>12, <1>13, <1>14, <1>15, <1>16, <1>17, <1>18 DEF Next, Asks, Step

\* The mapping of BudgetGate's INSTANCE of BudgetCell, by name.
left == IF store.exists THEN store.remaining ELSE Total
Holding == {"granted", "calling", "answered", "crediting"}
held == [c \in Calls |-> IF store.wired /\ pc[c] \in Holding
                         THEN amount[c] ELSE 0]

LEMMA CellInitMapped == Init => Cell!Init
BY ConstantsAssumption DEF Init, Cell!Init

LEMMA StutterMapped ==
  ASSUME left' = left, held' = held
  PROVE  UNCHANGED Cell!vars
BY DEF left, held, Holding, Cell!vars

LEMMA ForfeitMapped ==
  ASSUME left' = left, NEW S \in SUBSET Calls,
         held' = [c \in Calls |-> IF c \in S THEN 0 ELSE held[c]]
  PROVE  Cell!Next
BY DEF left, held, Holding, Cell!Next, Cell!Forfeit

LEMMA AdmitMapped ==
  ASSUME NEW c \in Calls, held[c] = 0, NEW m \in 1..left,
         left' = left - m, held' = [held EXCEPT ![c] = m]
  PROVE  Cell!Next
BY DEF left, held, Holding, Cell!Next, Cell!Admit

LEMMA SettleMapped ==
  ASSUME NEW c \in Calls, held[c] > 0, NEW u \in Usages,
         left' = left + held[c] - u, held' = [held EXCEPT ![c] = 0]
  PROVE  Cell!Next
BY DEF left, held, Holding, Cell!Next, Cell!Settle

\* Without a store the document is never touched.
LEMMA StoreAtRest ==
  ASSUME CellInv, ~store.wired, [Next]_vars
  PROVE  store' = store
<1> USE DEF CellInv, InLock
<1>1. ASSUME NEW c \in Calls, Step(c) PROVE store' = store
  BY <1>1 DEF Step, RefuseLocally, EnterStore, Initialize, Reserve,
     RefusedByStore, Deduct, ReserveLocally, AnswerExact, Answer, Credit,
     CreditStore, CreditLocally
<1>2. ASSUME NEW c \in Calls, NEW m \in Amounts, Asks(c, m)
      PROVE  store' = store
  BY <1>2 DEF Asks, Request, RequestTieBreak
<1>3. ASSUME NEW g \in Gates,
             SaveRound(g) \/ Interrupt(g) \/ ResumeUnspent(g)
      PROVE  store' = store
  BY <1>3 DEF SaveRound, Interrupt, ResumeUnspent
<1>4. ASSUME NEW g \in Gates, NEW r \in Replays, ResumeSpent(g, r)
      PROVE  store' = store
  BY <1>4 DEF ResumeSpent
<1>5. CASE UNCHANGED vars
  BY <1>5 DEF vars
<1> QED
  BY <1>1, <1>2, <1>3, <1>4, <1>5 DEF Next, Asks

LEMMA UnwiredMapped ==
  ASSUME CellInv, ~store.wired, [Next]_vars
  PROVE  UNCHANGED Cell!vars
<1>1. store' = store
  BY StoreAtRest
<1>2. left' = left
  BY <1>1 DEF left
<1>3. held' = held
  BY <1>1 DEF held
<1> QED
  BY <1>2, <1>3, StutterMapped

LEMMA WiredMapped ==
  ASSUME store.wired, CellInv, CellInv', [Next]_vars
  PROVE  [Cell!Next]_(Cell!vars)
<1> USE ConstantsAssumption DEF CellInv, TypeOK, Locations, InFlight, gateVars,
        diskVars, callVars, Unlock, CallsOf, Debates, Holding
<1>1. ASSUME NEW c \in Calls, RefuseLocally(c) PROVE UNCHANGED Cell!vars
  <2>1. left' = left
    BY <1>1 DEF RefuseLocally, left
  <2>2. held' = held
    BY <1>1 DEF RefuseLocally, held
  <2> QED
    BY <2>1, <2>2, StutterMapped
<1>2. ASSUME NEW c \in Calls, EnterStore(c) PROVE UNCHANGED Cell!vars
  <2>1. left' = left
    BY <1>2 DEF EnterStore, left
  <2>2. held' = held
    BY <1>2 DEF EnterStore, held
  <2> QED
    BY <2>1, <2>2, StutterMapped
<1>3. ASSUME NEW c \in Calls, Initialize(c) PROVE UNCHANGED Cell!vars
  <2>1. left' = left
    BY <1>3 DEF Initialize, left, Ledgered
  <2>2. store'.wired = store.wired
    BY <1>3 DEF Initialize, Ledgered
  <2>3. \A d \in Calls : pc'[d] \in Holding <=> pc[d] \in Holding
    BY <1>3 DEF Initialize
  <2>4. held' = held
    BY <1>3, <2>2, <2>3 DEF Initialize, held
  <2> QED
    BY <2>1, <2>4, StutterMapped
<1>4. ASSUME NEW c \in Calls, RefusedByStore(c) PROVE UNCHANGED Cell!vars
  <2>1. left' = left
    BY <1>4 DEF RefusedByStore, left
  <2>2. held' = held
    BY <1>4 DEF RefusedByStore, held
  <2> QED
    BY <2>1, <2>2, StutterMapped
<1>5. ASSUME NEW c \in Calls, Credit(c) PROVE UNCHANGED Cell!vars
  <2>1. left' = left
    BY <1>5 DEF Credit, left
  <2>2. held' = held
    BY <1>5 DEF Credit, held
  <2> QED
    BY <2>1, <2>2, StutterMapped
<1>6. ASSUME NEW c \in Calls, Reserve(c) PROVE Cell!Next
  <2>1. held[c] = 0
    BY <1>6 DEF Reserve, held
  <2>2. amount[c] \in 1..left
    BY <1>6 DEF Reserve, StoreHasRoom, left
  <2>3. left' = left - amount[c]
    BY <1>6 DEF Reserve, left
  <2>4. held' = [held EXCEPT ![c] = amount[c]]
    BY <1>6 DEF Reserve, held
  <2> QED
    BY <2>1, <2>2, <2>3, <2>4, AdmitMapped
<1>7. ASSUME NEW c \in Calls, Deduct(c) PROVE [Cell!Next]_(Cell!vars)
  <2>1. left' = left
    BY <1>7 DEF Deduct, left
  <2>2. CASE c \in Replays
    <3>1. held' = [d \in Calls |-> IF d \in {c} THEN 0 ELSE held[d]]
      BY <1>7, <2>2 DEF Deduct, Charge, held
    <3>2. {c} \in SUBSET Calls
      OBVIOUS
    <3> QED
      BY <2>1, <3>1, <3>2, ForfeitMapped
  <2>3. CASE c \notin Replays
    <3>1. held' = held
      BY <1>7, <2>3 DEF Deduct, Charge, held
    <3> QED
      BY <2>1, <3>1, StutterMapped
  <2> QED
    BY <2>2, <2>3
<1>8. ASSUME NEW c \in Calls, ReserveLocally(c) \/ CreditLocally(c)
      PROVE FALSE
  BY <1>8 DEF ReserveLocally, CreditLocally
<1>9. ASSUME NEW c \in Calls, AnswerExact(c) PROVE Cell!Next
  <2>1. held[c] = amount[c] /\ held[c] > 0 /\ amount[c] \in Usages
    BY <1>9 DEF AnswerExact, held
  <2>2. left' = left + held[c] - amount[c]
    BY <1>9, <2>1 DEF AnswerExact, left
  <2>3. held' = [held EXCEPT ![c] = 0]
    BY <1>9 DEF AnswerExact, held
  <2> QED
    BY <2>1, <2>2, <2>3, SettleMapped
<1>10. ASSUME NEW c \in Calls, NEW u \in Usages, Answer(c, u)
       PROVE UNCHANGED Cell!vars
  <2>1. left' = left
    BY <1>10 DEF Answer, left
  <2>2. held' = held
    BY <1>10 DEF Answer, held
  <2> QED
    BY <2>1, <2>2, StutterMapped
<1>11. ASSUME NEW c \in Calls, CreditStore(c) PROVE Cell!Next
  <2>1. held[c] = amount[c] /\ held[c] > 0 /\ used[c] \in Usages
    BY <1>11 DEF CreditStore, held
  <2>2. left' = left + held[c] - used[c]
    BY <1>11, <2>1 DEF CreditStore, left, Correction, Surplus
  <2>3. held' = [held EXCEPT ![c] = 0]
    BY <1>11 DEF CreditStore, held
  <2> QED
    BY <2>1, <2>2, <2>3, SettleMapped
<1>12. ASSUME NEW c \in Calls, NEW m \in Amounts, Asks(c, m)
       PROVE UNCHANGED Cell!vars
  <2>1. left' = left
    BY <1>12 DEF Asks, Request, RequestTieBreak, left
  <2>2. held' = held
    BY <1>12 DEF Asks, Request, RequestTieBreak, held
  <2> QED
    BY <2>1, <2>2, StutterMapped
<1>13. ASSUME NEW g \in Gates, SaveRound(g) \/ ResumeUnspent(g)
       PROVE UNCHANGED Cell!vars
  <2>1. left' = left
    BY <1>13 DEF SaveRound, ResumeUnspent, left
  <2>2. held' = held
    BY <1>13 DEF SaveRound, ResumeUnspent, held
  <2> QED
    BY <2>1, <2>2, StutterMapped
<1>14. ASSUME NEW g \in Gates, Interrupt(g) PROVE Cell!Next
  <2> DEFINE S == {c \in Calls : c \in CallsOf(g) /\ pc[c] \in InFlight}
  <2>1. left' = left
    BY <1>14 DEF Interrupt, left
  <2>2. held' = [c \in Calls |-> IF c \in S THEN 0 ELSE held[c]]
    BY <1>14 DEF Interrupt, held
  <2>3. S \in SUBSET Calls
    OBVIOUS
  <2> HIDE DEF S
  <2> QED
    BY <2>1, <2>2, <2>3, ForfeitMapped
<1>15. ASSUME NEW g \in Gates, NEW r \in Replays, ResumeSpent(g, r)
       PROVE UNCHANGED Cell!vars
  <2>1. left' = left
    BY <1>15 DEF ResumeSpent, left
  <2>2. held' = held
    BY <1>15 DEF ResumeSpent, held
  <2> QED
    BY <2>1, <2>2, StutterMapped
<1>16. CASE UNCHANGED vars
  <2>1. left' = left /\ held' = held
    BY <1>16, VarsUnchanged DEF left, held
  <2> QED
    BY <2>1, StutterMapped
<1> QED
  BY <1>1, <1>2, <1>3, <1>4, <1>5, <1>6, <1>7, <1>8, <1>9, <1>10, <1>11,
     <1>12, <1>13, <1>14, <1>15, <1>16 DEF Next, Asks, Step

LEMMA StepMapped ==
  ASSUME CellInv, CellInv', [Next]_vars
  PROVE  [Cell!Next]_(Cell!vars)
BY UnwiredMapped, WiredMapped

\* The gate's reserve-call-settle protocol implements
\* one atomic budget: whatever the interleaving of calls and executions, the
\* ledger admits a reservation only against what is left and settles it once.
THEOREM GateImplementsCell == Spec => ImplementsCell
<1>1. TypeOK' /\ CellInv /\ [Next]_vars => CellInv'
  BY CellInvNext
<1>2. CellInv /\ CellInv' /\ [Next]_vars => [Cell!Next]_(Cell!vars)
  BY StepMapped
<1> QED
  BY <1>1, <1>2, CellInvInit, CellInitMapped, TypeCorrect, PTL
  DEF Spec, ImplementsCell, Cell!Spec

-----------------------------------------------------------------------------
(* The gate's cache mirrors the Mongo ledger.                               *)

\* Inductive while there is one execution: who is inside the gate's lock, and by
\* how much cache and ledger differ while that call is between its two updates.
\* Nothing went through the gates of executions that were never started.
MirrorInv ==
  /\ TypeOK
  /\ \E g \in Gates : status[g] \in Live
  /\ \A g \in Gates : status[g] \in Live \cup {"off"}
  /\ \A r \in Replays : pc[r] = "idle"
  /\ \A c \in Calls : status[GateOf[c]] = "off" => pc[c] = "idle"
  /\ \A c \in Calls : pc[c] \in InLock <=> gateLock[GateOf[c]] = c
  /\ \A c \in Calls : pc[c] \in {"asking", "granted", "calling", "answered",
                                "crediting"} => store.exists
  /\ ~store.exists => \A g \in Gates : cache[g] = Total
  /\ store.exists =>
       \A g \in Gates : status[g] \in Live =>
         /\ gateLock[g] = NoCall => store.remaining = cache[g]
         /\ \A c \in Calls : gateLock[g] = c =>
              /\ pc[c] \in {"initializing", "asking"} =>
                   store.remaining = cache[g]
              /\ pc[c] = "granted" => store.remaining = cache[g] - amount[c]
              /\ pc[c] = "crediting" =>
                   store.remaining = cache[g] - Correction(c)

LEMMA MirrorInit == Init => MirrorInv
<1> SUFFICES ASSUME Init PROVE MirrorInv
  OBVIOUS
<1> USE ConstantsAssumption
<1>1. TypeOK
  BY InitTyped
<1>2. /\ \E g \in Gates : status[g] \in Live
      /\ \A g \in Gates : status[g] \in Live \cup {"off"}
  BY DEF Init, OneStarted
<1>3. /\ \A c \in Calls : pc[c] = "idle" /\ gateLock[GateOf[c]] # c
      /\ \A g \in Gates : cache[g] = Total
  BY DEF Init
<1>4. ~store.exists
  BY DEF Init
<1> QED
  BY <1>1, <1>2, <1>3, <1>4 DEF MirrorInv, InLock

LEMMA MirrorNext ==
  ASSUME store.wired, SoleExecution, SoleExecution', MirrorInv, TypeOK',
         [Next]_vars
  PROVE  MirrorInv'
<1> USE ConstantsAssumption DEF SoleExecution, MirrorInv, TypeOK, Locations,
        InLock, gateVars, diskVars, callVars, Unlock, LockIsFree,
        Correction, Surplus
<1>1. ASSUME NEW c \in Calls, RefuseLocally(c) PROVE MirrorInv'
  BY <1>1 DEF RefuseLocally
<1>2. ASSUME NEW c \in Calls, EnterStore(c) PROVE MirrorInv'
  BY <1>2 DEF EnterStore
<1>3. ASSUME NEW c \in Calls, Initialize(c) PROVE MirrorInv'
  BY <1>3 DEF Initialize, Ledgered
<1>4. ASSUME NEW c \in Calls, Reserve(c) PROVE MirrorInv'
  BY <1>4 DEF Reserve
<1>5. ASSUME NEW c \in Calls, RefusedByStore(c) PROVE MirrorInv'
  <2>1. c \notin Replays
    BY <1>5 DEF RefusedByStore
  <2> QED
    BY <1>5, <2>1 DEF RefusedByStore
<1>6. ASSUME NEW c \in Calls, Deduct(c) PROVE MirrorInv'
  BY <1>6 DEF Deduct, Charge
<1>7. ASSUME NEW c \in Calls, AnswerExact(c) PROVE MirrorInv'
  BY <1>7 DEF AnswerExact, Record
<1>8. ASSUME NEW c \in Calls, Credit(c) PROVE MirrorInv'
  BY <1>8 DEF Credit
<1>9. ASSUME NEW c \in Calls, CreditStore(c) PROVE MirrorInv'
  BY <1>9 DEF CreditStore, Record
<1>10. ASSUME NEW c \in Calls, ReserveLocally(c) \/ CreditLocally(c)
       PROVE FALSE
  BY <1>10 DEF ReserveLocally, CreditLocally
<1>11. ASSUME NEW c \in Calls, NEW u \in Usages, Answer(c, u) PROVE MirrorInv'
  BY <1>11 DEF Answer
<1>12. ASSUME NEW c \in Calls, NEW m \in Amounts, Asks(c, m)
       PROVE MirrorInv'
  BY <1>12 DEF Asks, Request, RequestTieBreak, Debates
<1>13. ASSUME NEW g \in Gates, SaveRound(g) PROVE MirrorInv'
  BY <1>13 DEF SaveRound
<1>14. ASSUME NEW g \in Gates, NEW r \in Replays,
              Interrupt(g) \/ ResumeUnspent(g) \/ ResumeSpent(g, r)
       PROVE FALSE
  BY <1>14 DEF Interrupt, ResumeUnspent, ResumeSpent, ResumeNew
<1>15. ASSUME NEW g \in Gates, Interrupt(g) \/ ResumeUnspent(g) PROVE FALSE
  BY <1>15 DEF Interrupt, ResumeUnspent, ResumeNew
<1>16. CASE UNCHANGED vars
  BY <1>16, VarsUnchanged
<1> QED
  BY <1>1, <1>2, <1>3, <1>4, <1>5, <1>6, <1>7, <1>8, <1>9, <1>10, <1>11, <1>12, <1>13, <1>14, <1>15, <1>16 DEF Next, Asks, Step

\* An execution that was started stays started, and interruptions are only
\* counted up.
LEMMA SoleBefore ==
  ASSUME TypeOK, TypeOK', [Next]_vars, SoleExecution'
  PROVE  SoleExecution
<1> USE ConstantsAssumption DEF TypeOK, gateVars, diskVars, callVars
<1>1. \A g \in Gates : status[g] # "off" => status'[g] # "off"
  <2>1. ASSUME NEW h \in Gates, Interrupt(h) \/ SaveRound(h) \/ ResumeUnspent(h)
        PROVE  \A g \in Gates : status[g] # "off" => status'[g] # "off"
    BY <2>1 DEF Interrupt, SaveRound, ResumeUnspent
  <2>2. ASSUME NEW h \in Gates, NEW r \in Replays, ResumeSpent(h, r)
        PROVE  \A g \in Gates : status[g] # "off" => status'[g] # "off"
    BY <2>2 DEF ResumeSpent
  <2>3. ASSUME NEW c \in Calls, NEW m \in Amounts, Asks(c, m)
        PROVE  \A g \in Gates : status[g] # "off" => status'[g] # "off"
    BY <2>3 DEF Asks, Request, RequestTieBreak
  <2>4. ASSUME NEW c \in Calls, Step(c)
        PROVE  \A g \in Gates : status[g] # "off" => status'[g] # "off"
    BY <2>4 DEF Step, RefuseLocally, EnterStore, Initialize, Reserve,
       RefusedByStore, Deduct, Charge, ReserveLocally, AnswerExact, Answer,
       Credit, CreditStore, CreditLocally
  <2>5. CASE UNCHANGED vars
    BY <2>5 DEF vars
  <2> QED
    BY <2>1, <2>2, <2>3, <2>4, <2>5 DEF Next, Asks
<1>2. interrupts' = 0 => interrupts = 0
  <2>1. ASSUME NEW g \in Gates, Interrupt(g) PROVE interrupts' # 0
    BY <2>1 DEF Interrupt
  <2>2. ASSUME NEW g \in Gates, SaveRound(g) \/ ResumeUnspent(g)
        PROVE  interrupts' = interrupts
    BY <2>2 DEF SaveRound, ResumeUnspent, ResumeNew
  <2>3. ASSUME NEW g \in Gates, NEW r \in Replays, ResumeSpent(g, r)
        PROVE  interrupts' = interrupts
    BY <2>3 DEF ResumeSpent, ResumeNew
  <2>4. ASSUME NEW c \in Calls, NEW m \in Amounts, Asks(c, m)
        PROVE  interrupts' = interrupts
    BY <2>4 DEF Asks, Request, RequestTieBreak
  <2>5. ASSUME NEW c \in Calls, Step(c) PROVE interrupts' = interrupts
    BY <2>5 DEF Step, RefuseLocally, EnterStore, Initialize, Reserve,
       RefusedByStore, Deduct, ReserveLocally, AnswerExact, Answer, Credit,
       CreditStore, CreditLocally
  <2>6. CASE UNCHANGED vars
    BY <2>6 DEF vars
  <2> QED
    BY <2>1, <2>2, <2>3, <2>4, <2>5, <2>6 DEF Next, Asks
<1> QED
  BY <1>1, <1>2 DEF SoleExecution

\* Whether a store is wired in never changes.
LEMMA WiredForGood ==
  ASSUME TypeOK, [Next]_vars
  PROVE  store'.wired = store.wired
<1> USE DEF TypeOK
<1>1. ASSUME NEW c \in Calls, Step(c) PROVE store'.wired = store.wired
  BY <1>1 DEF Step, RefuseLocally, EnterStore, Initialize, Ledgered, Reserve,
     RefusedByStore, Deduct, ReserveLocally, AnswerExact, Answer, Credit,
     CreditStore, CreditLocally
<1>2. ASSUME NEW c \in Calls, NEW m \in Amounts, Asks(c, m)
      PROVE  store'.wired = store.wired
  BY <1>2 DEF Asks, Request, RequestTieBreak
<1>3. ASSUME NEW g \in Gates,
             SaveRound(g) \/ Interrupt(g) \/ ResumeUnspent(g)
      PROVE  store'.wired = store.wired
  BY <1>3 DEF SaveRound, Interrupt, ResumeUnspent
<1>4. ASSUME NEW g \in Gates, NEW r \in Replays, ResumeSpent(g, r)
      PROVE  store'.wired = store.wired
  BY <1>4 DEF ResumeSpent
<1>5. CASE UNCHANGED vars
  BY <1>5 DEF vars
<1> QED
  BY <1>1, <1>2, <1>3, <1>4, <1>5 DEF Next, Asks

\* With a store: as long as only one execution was ever started, its gate and
\* the ledger are as MirrorInv says.  Without one there is no ledger.
Mirrored ==
  IF store.wired THEN SoleExecution => MirrorInv ELSE ~store.exists

LEMMA MirroredNext ==
  ASSUME TypeOK, TypeOK', CellInv, Mirrored, [Next]_vars
  PROVE  Mirrored'
<1>1. CASE store.wired
  <2>1. store'.wired
    BY <1>1, WiredForGood
  <2>2. SUFFICES ASSUME SoleExecution' PROVE MirrorInv'
    BY <2>1 DEF Mirrored
  <2>3. SoleExecution
    BY <2>2, SoleBefore
  <2> QED
    BY <1>1, <2>2, <2>3, MirrorNext DEF Mirrored
<1>2. CASE ~store.wired
  BY <1>2, StoreAtRest DEF Mirrored
<1> QED
  BY <1>1, <1>2

\* As long as there is one execution, "gate.remaining and debate_budgets.
\* remaining always agree": whenever the gate's lock is free, with any number
\* of calls waiting, running or about to be settled.
THEOREM GateMirrorsStoreHolds == Spec => []GateMirrorsStore
<1>1. Init => Mirrored
  <2>1. Init => ~store.exists
    BY DEF Init
  <2> QED
    BY <2>1, MirrorInit DEF Mirrored
<1>2. TypeOK /\ TypeOK' /\ CellInv /\ Mirrored /\ [Next]_vars => Mirrored'
  BY MirroredNext
<1>3. Mirrored => GateMirrorsStore
  BY DEF Mirrored, MirrorInv, GateMirrorsStore
<1>4. TypeOK' /\ CellInv /\ [Next]_vars => CellInv'
  BY CellInvNext
<1> QED
  BY <1>1, <1>2, <1>3, <1>4, CellInvInit, TypeCorrect, PTL DEF Spec

-----------------------------------------------------------------------------
(* Admission: what the calls may have spent stays within the budget.        *)

\* What call c has taken of the budget, its overrun left out.  Unlike its commitment it
\* does not grow when an interruption leaves the call unsettled.
Owed(c) ==
  IF pc[c] \in {"granted", "calling", "answered", "crediting", "lost"} THEN amount[c]
  ELSE IF pc[c] = "done" THEN (IF used[c] < amount[c] THEN used[c] ELSE amount[c])
  ELSE 0

TotalOwed == SumFunctionOnSet([c \in Debates |-> Owed(c)], Debates)

\* The budget covers what is owed, and so does what is left of it.
Covers(rest) == TotalOwed <= Total /\ rest + TotalOwed <= Total

\* A replay is over as soon as it is charged.
ReplaysEnd == \A r \in Replays : pc[r] \notin {"calling", "answered", "crediting"}

\* The one execution without a store.
SoleCovered ==
  /\ \E g \in Gates : status[g] \in Live
  /\ \A g \in Gates : status[g] \in Live \cup {"off"}
  /\ \A r \in Replays : pc[r] = "idle"
  /\ \A c \in Calls : status[GateOf[c]] = "off" => pc[c] = "idle"
  /\ \A g \in Gates : status[g] \in Live => Covers(cache[g])

Covered == IF store.wired THEN Covers(left) ELSE SoleExecution => SoleCovered

BudgetInv == CellInv /\ ReplaysEnd /\ Covered

LEMMA DebatesFinite == IsFiniteSet(Debates) /\ Debates \subseteq Calls
BY ConstantsAssumption, FS_Subset DEF Debates

LEMMA OwedTyped == TypeOK => \A c \in Debates : Owed(c) \in Nat
BY DebatesFinite DEF TypeOK, Owed

LEMMA TotalOwedTyped == TypeOK => TotalOwed \in Int
<1> SUFFICES ASSUME TypeOK PROVE TotalOwed \in Int
  OBVIOUS
<1> DEFINE owed == [c \in Debates |-> Owed(c)]
<1>1. \A c \in Debates : owed[c] \in Int
  BY OwedTyped
<1>2. SumFunctionOnSet(owed, Debates) \in Int
  <2> HIDE DEF owed
  <2> QED
    BY <1>1, DebatesFinite, SumTyped
<1> QED
  BY <1>2 DEF TotalOwed

LEMMA OwedUnchanged ==
  ASSUME \A c \in Debates : Owed(c)' = Owed(c)
  PROVE  TotalOwed' = TotalOwed
<1>1. [c \in Debates |-> Owed(c)'] = [c \in Debates |-> Owed(c)]
  OBVIOUS
<1> QED
  BY <1>1 DEF TotalOwed, Debates

LEMMA OwedChanges ==
  ASSUME TypeOK, TypeOK', NEW c \in Debates, \A d \in Debates \ {c} : Owed(d)' = Owed(d)
  PROVE  TotalOwed' = TotalOwed + Owed(c)' - Owed(c)
<1> DEFINE before == [d \in Debates |-> Owed(d)]
           after == [d \in Debates |-> Owed(d)']
<1>1. \A d \in Debates : Owed(d) \in Int /\ Owed(d)' \in Int
  <2>1. \A d \in Debates : Owed(d)' \in Nat
    <3> SUFFICES ASSUME NEW d \in Debates PROVE Owed(d)' \in Nat
      OBVIOUS
    <3>1. d \in Calls
      BY DebatesFinite
    <3>2. amount'[d] \in Nat /\ used'[d] \in Nat
      BY <3>1 DEF TypeOK
    <3> QED
      BY <3>2 DEF Owed
  <2> QED
    BY <2>1, OwedTyped
<1>2. SumFunctionOnSet(after, Debates) = SumFunctionOnSet(before, Debates) + after[c] - before[c]
  <2>1. Summands(before, Debates) /\ Summands(after, Debates)
    BY <1>1 DEF Summands
  <2>2. AgreeOn(before, after, Debates \ {c})
    BY DEF AgreeOn
  <2>3. IsFiniteSet(Debates)
    BY DebatesFinite
  <2> HIDE DEF before, after
  <2> QED
    BY <2>1, <2>2, <2>3, SumChanges
<1>3. before[c] = Owed(c) /\ after[c] = Owed(c)'
  OBVIOUS
<1>4. TotalOwed = SumFunctionOnSet(before, Debates)
  BY DEF TotalOwed
<1>5. TotalOwed' = SumFunctionOnSet(after, Debates)
  BY DEF TotalOwed, Debates
<1> HIDE DEF before, after
<1> QED
  BY <1>2, <1>3, <1>4, <1>5

\* The steps that leave what is owed alone: all but an admission and a settlement.
LEMMA OwedAtRest ==
  ASSUME CellInv, ReplaysEnd, [Next]_vars
  PROVE  \/ TotalOwed' = TotalOwed
         \/ \E c \in Debates : Reserve(c) \/ ReserveLocally(c) \/ CreditStore(c)
                               \/ CreditLocally(c)
<1> USE ConstantsAssumption, DebatesFinite DEF CellInv, TypeOK, Owed, ReplaysEnd
<1> SUFFICES ASSUME ~\E c \in Debates : Reserve(c) \/ ReserveLocally(c) \/ CreditStore(c)
                                        \/ CreditLocally(c)
             PROVE  \A d \in Debates : Owed(d)' = Owed(d)
  BY OwedUnchanged
<1> SUFFICES ASSUME NEW d \in Debates PROVE Owed(d)' = Owed(d)
  OBVIOUS
<1>0. d \in Calls /\ d \notin Replays
  BY DEF Debates
<1>1. ASSUME NEW c \in Calls, RefuseLocally(c) PROVE Owed(d)' = Owed(d)
  BY <1>0, <1>1 DEF RefuseLocally
<1>2. ASSUME NEW c \in Calls, EnterStore(c) PROVE Owed(d)' = Owed(d)
  BY <1>0, <1>2 DEF EnterStore
<1>3. ASSUME NEW c \in Calls, Initialize(c) PROVE Owed(d)' = Owed(d)
  BY <1>0, <1>3 DEF Initialize
<1>4. ASSUME NEW c \in Calls, Reserve(c) \/ ReserveLocally(c) \/ CreditStore(c)
                              \/ CreditLocally(c)
      PROVE  Owed(d)' = Owed(d)
  <2>1. c \in Replays
    BY <1>4 DEF Debates
  <2> QED
    BY <1>0, <1>4, <2>1 DEF Reserve, ReserveLocally, Charge, CreditStore, CreditLocally
<1>5. ASSUME NEW c \in Calls, RefusedByStore(c) PROVE Owed(d)' = Owed(d)
  BY <1>0, <1>5 DEF RefusedByStore
<1>6. ASSUME NEW c \in Calls, Deduct(c) PROVE Owed(d)' = Owed(d)
  BY <1>0, <1>6 DEF Deduct, Charge
<1>7. ASSUME NEW c \in Calls, AnswerExact(c) PROVE Owed(d)' = Owed(d)
  BY <1>0, <1>7 DEF AnswerExact
<1>8. ASSUME NEW c \in Calls, NEW u \in Usages, Answer(c, u) PROVE Owed(d)' = Owed(d)
  BY <1>0, <1>8 DEF Answer
<1>9. ASSUME NEW c \in Calls, Credit(c) PROVE Owed(d)' = Owed(d)
  BY <1>0, <1>9 DEF Credit
<1>10. ASSUME NEW c \in Calls, NEW m \in Amounts, Asks(c, m) PROVE Owed(d)' = Owed(d)
  BY <1>0, <1>10 DEF Asks, Request, RequestTieBreak
<1>11. ASSUME NEW g \in Gates, SaveRound(g) \/ ResumeUnspent(g) PROVE Owed(d)' = Owed(d)
  BY <1>0, <1>11 DEF SaveRound, ResumeUnspent, callVars
<1>12. ASSUME NEW g \in Gates, Interrupt(g) PROVE Owed(d)' = Owed(d)
  BY <1>0, <1>12 DEF Interrupt, InFlight
<1>13. ASSUME NEW g \in Gates, NEW r \in Replays, ResumeSpent(g, r)
       PROVE  Owed(d)' = Owed(d)
  BY <1>0, <1>13 DEF ResumeSpent
<1>14. CASE UNCHANGED vars
  BY <1>14, VarsUnchanged
<1> QED
  BY <1>1, <1>2, <1>3, <1>4, <1>5, <1>6, <1>7, <1>8, <1>9, <1>10, <1>11, <1>12,
     <1>13, <1>14 DEF Next, Asks, Step

\* An admission adds what was asked for.
LEMMA OwedOfAdmission ==
  ASSUME TypeOK, TypeOK', NEW c \in Debates, Reserve(c) \/ ReserveLocally(c)
  PROVE  TotalOwed' = TotalOwed + amount[c]
<1>1. c \in Calls /\ c \notin Replays
  BY DebatesFinite DEF Debates
<1>2. Owed(c) = 0 /\ Owed(c)' = amount[c]
  BY <1>1 DEF Reserve, ReserveLocally, Charge, Owed, TypeOK
<1>3. \A d \in Debates \ {c} : Owed(d)' = Owed(d)
  BY <1>1, DebatesFinite DEF Reserve, ReserveLocally, Charge, Owed, TypeOK
<1>4. amount[c] \in Nat /\ TotalOwed \in Int
  BY <1>1, TotalOwedTyped DEF TypeOK
<1>5. TotalOwed' = TotalOwed + Owed(c)' - Owed(c)
  BY <1>3, OwedChanges
<1> QED
  BY <1>2, <1>4, <1>5

\* A settlement takes away what was not used, and no overrun counts.
LEMMA OwedOfSettlement ==
  ASSUME TypeOK, TypeOK', NEW c \in Debates, CreditStore(c) \/ CreditLocally(c)
  PROVE  /\ TotalOwed' <= TotalOwed
         /\ TotalOwed' + Surplus(c) <= TotalOwed
<1>1. c \in Calls
  BY DebatesFinite
<1>2. Owed(c) = amount[c] /\ Owed(c)' = IF used[c] < amount[c] THEN used[c] ELSE amount[c]
  BY <1>1 DEF CreditStore, CreditLocally, Owed, TypeOK
<1>3. \A d \in Debates \ {c} : Owed(d)' = Owed(d)
  BY <1>1, DebatesFinite DEF CreditStore, CreditLocally, Owed, TypeOK
<1>4. amount[c] \in Nat /\ used[c] \in Nat /\ TotalOwed \in Int
  BY <1>1, TotalOwedTyped DEF TypeOK
<1>5. TotalOwed' = TotalOwed + Owed(c)' - Owed(c)
  BY <1>3, OwedChanges
<1> QED
  BY <1>2, <1>4, <1>5 DEF Surplus

LEMMA ReplaysEndNext ==
  ASSUME CellInv, ReplaysEnd, [Next]_vars
  PROVE  ReplaysEnd'
<1> USE ConstantsAssumption DEF CellInv, TypeOK, ReplaysEnd
<1>1. ASSUME NEW c \in Calls, Step(c) PROVE ReplaysEnd'
  BY <1>1 DEF Step, RefuseLocally, EnterStore, Initialize, Reserve, RefusedByStore, Deduct,
     Charge, ReserveLocally, AnswerExact, Answer, Credit, CreditStore, CreditLocally
<1>2. ASSUME NEW c \in Calls, NEW m \in Amounts, Asks(c, m) PROVE ReplaysEnd'
  BY <1>2 DEF Asks, Request, RequestTieBreak
<1>3. ASSUME NEW g \in Gates, SaveRound(g) \/ ResumeUnspent(g) PROVE ReplaysEnd'
  BY <1>3 DEF SaveRound, ResumeUnspent, callVars
<1>4. ASSUME NEW g \in Gates, Interrupt(g) PROVE ReplaysEnd'
  BY <1>4 DEF Interrupt
<1>5. ASSUME NEW g \in Gates, NEW r \in Replays, ResumeSpent(g, r) PROVE ReplaysEnd'
  BY <1>5 DEF ResumeSpent
<1>6. CASE UNCHANGED vars
  BY <1>6, VarsUnchanged
<1> QED
  BY <1>1, <1>2, <1>3, <1>4, <1>5, <1>6 DEF Next, Asks

\* With a store, the rest in the ledger only grows by what a settlement gives back.
LEMMA LeftShrinks ==
  ASSUME store.wired, CellInv, ReplaysEnd, [Next]_vars,
         ~\E c \in Debates : CreditStore(c)
  PROVE  left' <= left
<1> USE ConstantsAssumption DEF CellInv, TypeOK, left
<1>1. ASSUME NEW c \in Calls, Initialize(c) PROVE left' <= left
  BY <1>1 DEF Initialize, Ledgered
<1>2. ASSUME NEW c \in Calls, Reserve(c) PROVE left' <= left
  BY <1>2 DEF Reserve
<1>3. ASSUME NEW c \in Calls, CreditStore(c) PROVE left' <= left
  BY <1>3 DEF CreditStore, ReplaysEnd, Debates
<1>4. ASSUME NEW c \in Calls,
             \/ RefuseLocally(c) \/ EnterStore(c) \/ RefusedByStore(c) \/ Deduct(c)
             \/ ReserveLocally(c) \/ AnswerExact(c) \/ (\E u \in Usages : Answer(c, u))
             \/ Credit(c) \/ CreditLocally(c) \/ \E m \in Amounts : Asks(c, m)
      PROVE  left' <= left
  BY <1>4 DEF RefuseLocally, EnterStore, RefusedByStore, Deduct, ReserveLocally,
     AnswerExact, Answer, Credit, CreditLocally, Asks, Request, RequestTieBreak
<1>5. ASSUME NEW g \in Gates, \/ SaveRound(g) \/ Interrupt(g) \/ ResumeUnspent(g)
                              \/ \E r \in Replays : ResumeSpent(g, r)
      PROVE  left' <= left
  BY <1>5 DEF SaveRound, Interrupt, ResumeUnspent, ResumeSpent
<1>6. CASE UNCHANGED vars
  BY <1>6, VarsUnchanged
<1> QED
  BY <1>1, <1>2, <1>3, <1>4, <1>5, <1>6 DEF Next, Asks, Step

LEMMA WiredCovered ==
  ASSUME store.wired, CellInv, TypeOK', ReplaysEnd, Covers(left), [Next]_vars
  PROVE  Covers(left)'
<1>0. TotalOwed \in Int /\ left \in Int /\ left' \in Int /\ Total \in Nat
  BY TotalOwedTyped, ConstantsAssumption DEF CellInv, TypeOK, left
<1>1. CASE \E c \in Debates : Reserve(c)
  <2>1. PICK c \in Debates : Reserve(c)
    BY <1>1
  <2>2. c \in Calls
    BY DebatesFinite
  <2>3. TotalOwed' = TotalOwed + amount[c]
    BY <2>1, OwedOfAdmission DEF CellInv
  <2>4. amount[c] <= left /\ left' = left - amount[c] /\ amount[c] \in Nat
    BY <2>1, <2>2 DEF Reserve, StoreHasRoom, left, CellInv, TypeOK
  <2> QED
    BY <1>0, <2>3, <2>4 DEF Covers
<1>2. CASE \E c \in Debates : CreditStore(c)
  <2>1. PICK c \in Debates : CreditStore(c)
    BY <1>2
  <2>2. c \in Calls
    BY DebatesFinite
  <2>3. TotalOwed' <= TotalOwed /\ TotalOwed' + Surplus(c) <= TotalOwed
    BY <2>1, OwedOfSettlement DEF CellInv
  <2>4. left' = left + Surplus(c) /\ Surplus(c) \in Int
    BY <2>1, <2>2 DEF CreditStore, Correction, Surplus, left, CellInv, TypeOK
  <2>5. TotalOwed' \in Int
    <3>1. (TypeOK => TotalOwed \in Int)'
      BY TotalOwedTyped, PTL
    <3> QED
      BY <3>1
  <2> QED
    BY <1>0, <2>3, <2>4, <2>5 DEF Covers
<1>3. CASE ~\E c \in Debates : Reserve(c) \/ CreditStore(c)
  <2>1. \A c \in Debates : ~ReserveLocally(c) /\ ~CreditLocally(c)
    BY DEF ReserveLocally, CreditLocally
  <2>2. TotalOwed' = TotalOwed
    BY <1>3, <2>1, OwedAtRest
  <2>3. left' <= left
    BY <1>3, LeftShrinks
  <2>4. left + TotalOwed <= Total => left' + TotalOwed <= Total
    <3>1. left' \in Int
      BY <1>0
    <3>2. left \in Int /\ TotalOwed \in Int /\ Total \in Int
      BY <1>0
    <3>3. \A a, b, t, n \in Int : a <= b /\ b + t <= n => a + t <= n
      OBVIOUS
    <3> QED
      BY <2>3, <3>1, <3>2, <3>3
  <2> QED
    BY <2>2, <2>4 DEF Covers
<1> QED
  BY <1>1, <1>2, <1>3

\* Gate g is used, or is not, as before.
StatusKept(g) ==
  /\ status'[g] \in Live <=> status[g] \in Live
  /\ status'[g] = "off" <=> status[g] = "off"

\* Without a store and with one execution, no other gate is used.
LEMMA SoleAtRest ==
  ASSUME ~store.wired, CellInv, TypeOK', SoleCovered, SoleExecution', [Next]_vars
  PROVE  /\ \A g \in Gates : StatusKept(g)
         /\ \A r \in Replays : pc'[r] = "idle"
         /\ \A c \in Calls : pc[c] # pc'[c] => status[GateOf[c]] \in Live
<1> USE ConstantsAssumption DEF CellInv, TypeOK, InLock, SoleCovered, gateVars, callVars,
        StatusKept
<1>1. ASSUME NEW c \in Calls, Step(c)
      PROVE /\ status' = status /\ status[GateOf[c]] \in Live
            /\ c \notin Replays /\ \A d \in Calls \ {c} : pc'[d] = pc[d]
  <2>1. c \notin Replays /\ pc[c] # "idle"
    BY <1>1 DEF Step, RefuseLocally, EnterStore, Initialize, Reserve, RefusedByStore, Deduct,
       ReserveLocally, AnswerExact, Answer, Credit, CreditStore, CreditLocally
  <2>2. status' = status /\ \A d \in Calls \ {c} : pc'[d] = pc[d]
    BY <1>1, <2>1 DEF Step, RefuseLocally, EnterStore, Initialize, Reserve, RefusedByStore,
       Deduct, Charge, ReserveLocally, AnswerExact, Answer, Credit, CreditStore,
       CreditLocally
  <2> QED
    BY <2>1, <2>2
<1>2. ASSUME NEW c \in Calls, NEW m \in Amounts, Asks(c, m)
      PROVE /\ \A g \in Gates : StatusKept(g)
            /\ status[GateOf[c]] \in Live
            /\ c \notin Replays /\ \A d \in Calls \ {c} : pc'[d] = pc[d]
  BY <1>2 DEF Asks, Request, RequestTieBreak, Debates
<1>3. ASSUME NEW g \in Gates, SaveRound(g) PROVE status' = status /\ pc' = pc
  BY <1>3 DEF SaveRound
<1>4. ASSUME NEW g \in Gates, Interrupt(g) PROVE FALSE
  BY <1>4 DEF Interrupt, SoleExecution
<1>5. ASSUME NEW g \in Gates, ResumeUnspent(g) \/ \E r \in Replays : ResumeSpent(g, r)
      PROVE  FALSE
  BY <1>5 DEF ResumeUnspent, ResumeSpent, ResumeNew, SoleExecution
<1>6. CASE UNCHANGED vars
  BY <1>6, VarsUnchanged
<1> QED
  BY <1>1, <1>2, <1>3, <1>4, <1>5, <1>6 DEF Next, Asks

LEMMA CacheAtRest ==
  ASSUME ~store.wired, CellInv, TypeOK', SoleCovered, SoleExecution', [Next]_vars,
         ~\E c \in Debates : ReserveLocally(c) \/ CreditLocally(c)
  PROVE  cache' = cache
<1> USE ConstantsAssumption DEF CellInv, InLock, SoleCovered, gateVars, callVars
<1>1. ASSUME NEW c \in Calls, Step(c) PROVE cache' = cache
  <2>1. c \in Debates
    BY <1>1 DEF Debates, Step, RefuseLocally, EnterStore, Initialize, Reserve, RefusedByStore,
       Deduct, ReserveLocally, AnswerExact, Answer, Credit, CreditStore, CreditLocally
  <2> QED
    BY <1>1, <2>1 DEF Step, RefuseLocally, EnterStore, Initialize, Reserve, RefusedByStore,
       Deduct, AnswerExact, Answer, Credit, CreditStore
<1>2. ASSUME NEW c \in Calls, NEW m \in Amounts, Asks(c, m) PROVE cache' = cache
  BY <1>2 DEF Asks, Request, RequestTieBreak
<1>3. ASSUME NEW g \in Gates, SaveRound(g) \/ Interrupt(g) PROVE cache' = cache
  BY <1>3 DEF SaveRound, Interrupt
<1>4. ASSUME NEW g \in Gates, ResumeUnspent(g) \/ \E r \in Replays : ResumeSpent(g, r)
      PROVE  FALSE
  BY <1>4 DEF ResumeUnspent, ResumeSpent, ResumeNew, SoleExecution, TypeOK
<1>5. CASE UNCHANGED vars
  BY <1>5, VarsUnchanged
<1> QED
  BY <1>1, <1>2, <1>3, <1>4, <1>5 DEF Next, Asks

LEMMA UnwiredCovered ==
  ASSUME ~store.wired, CellInv, TypeOK', ReplaysEnd, SoleCovered, SoleExecution',
         [Next]_vars
  PROVE  SoleCovered'
<1>0. TotalOwed \in Int /\ Total \in Nat
  BY TotalOwedTyped, ConstantsAssumption DEF CellInv
<1>1. /\ \A g \in Gates : StatusKept(g)
      /\ \A r \in Replays : pc'[r] = "idle"
      /\ \A c \in Calls : pc[c] # pc'[c] => status[GateOf[c]] \in Live
  BY SoleAtRest
<1>2. SUFFICES ASSUME NEW g \in Gates, status[g] \in Live PROVE Covers(cache[g])'
  BY <1>1, ConstantsAssumption DEF SoleCovered, TypeOK, CellInv, StatusKept
<1>3. Covers(cache[g]) /\ cache[g] \in Int
  BY <1>2 DEF SoleCovered, CellInv, TypeOK
<1>4. \A h \in Gates : status[h] # "off" => h = g
  BY <1>1, <1>2 DEF SoleExecution, StatusKept
<1>5. CASE \E c \in Debates : ReserveLocally(c)
  <2>1. PICK c \in Debates : ReserveLocally(c)
    BY <1>5
  <2>2. c \in Calls /\ c \notin Replays
    BY DebatesFinite DEF Debates
  <2>3. GateOf[c] = g
    BY <1>4, <2>1, <2>2, ConstantsAssumption DEF ReserveLocally, SoleCovered
  <2>4. TotalOwed' = TotalOwed + amount[c]
    BY <2>1, OwedOfAdmission DEF CellInv
  <2>5. amount[c] <= cache[g] /\ cache'[g] = cache[g] - amount[c] /\ amount[c] \in Nat
    BY <2>1, <2>2, <2>3 DEF ReserveLocally, Charge, CellInv, TypeOK
  <2> QED
    BY <1>0, <1>3, <2>4, <2>5 DEF Covers
<1>6. CASE \E c \in Debates : CreditLocally(c)
  <2>1. PICK c \in Debates : CreditLocally(c)
    BY <1>6
  <2>2. c \in Calls
    BY DebatesFinite
  <2>3. GateOf[c] = g
    BY <1>4, <2>1, <2>2, ConstantsAssumption DEF CreditLocally, SoleCovered
  <2>4. TotalOwed' <= TotalOwed /\ TotalOwed' + Surplus(c) <= TotalOwed
    BY <2>1, OwedOfSettlement DEF CellInv
  <2>5. cache'[g] = cache[g] + Surplus(c) /\ Surplus(c) \in Int
    BY <2>1, <2>2, <2>3 DEF CreditLocally, Correction, Surplus, CellInv, TypeOK
  <2>6. TotalOwed' \in Int
    <3>1. (TypeOK => TotalOwed \in Int)'
      BY TotalOwedTyped, PTL
    <3> QED
      BY <3>1
  <2> QED
    BY <1>0, <1>3, <2>4, <2>5, <2>6 DEF Covers
<1>7. CASE ~\E c \in Debates : ReserveLocally(c) \/ CreditLocally(c)
  <2>1. \A c \in Debates : ~Reserve(c) /\ ~CreditStore(c)
    BY DebatesFinite DEF Reserve, CreditStore, CellInv, InLock
  <2>2. TotalOwed' = TotalOwed
    BY <1>7, <2>1, OwedAtRest
  <2>3. cache' = cache
    BY <1>7, CacheAtRest
  <2> QED
    BY <1>3, <2>2, <2>3 DEF Covers
<1> QED
  BY <1>5, <1>6, <1>7

\* Nobody owes anything at the start.
LEMMA NothingOwed == Init => TotalOwed = 0
<1> SUFFICES ASSUME Init PROVE TotalOwed = 0
  OBVIOUS
<1> DEFINE owed == [c \in Debates |-> Owed(c)]
<1>1. \A c \in Debates : owed[c] = 0
  BY DebatesFinite DEF Init, Owed
<1>2. SumFunctionOnSet(owed, Debates) = 0
  <2> HIDE DEF owed
  <2> QED
    BY <1>1, DebatesFinite, SumOfZeros
<1> QED
  BY <1>2 DEF TotalOwed

LEMMA BudgetInvInit == Init => BudgetInv
<1> SUFFICES ASSUME Init PROVE BudgetInv
  OBVIOUS
<1>1. CellInv /\ TotalOwed = 0
  BY CellInvInit, NothingOwed
<1>2. ReplaysEnd
  BY ConstantsAssumption DEF Init, ReplaysEnd
<1>3. \A g \in Gates : Covers(cache[g])
  BY <1>1, ConstantsAssumption DEF Init, Covers
<1>4. store.wired => Covers(left)
  BY <1>1, ConstantsAssumption DEF Init, Covers, left
<1>5. SoleCovered
  BY <1>3, ConstantsAssumption DEF Init, OneStarted, SoleCovered
<1> QED
  BY <1>1, <1>2, <1>4, <1>5 DEF BudgetInv, Covered

LEMMA BudgetInvNext ==
  ASSUME BudgetInv, TypeOK', [Next]_vars
  PROVE  BudgetInv'
<1> USE DEF BudgetInv
<1>1. CellInv'
  BY CellInvNext
<1>2. ReplaysEnd'
  BY ReplaysEndNext
<1>3. store'.wired = store.wired
  BY WiredForGood DEF CellInv
<1>4. ASSUME store.wired PROVE Covered'
  <2>1. Covers(left)'
    BY <1>4, WiredCovered DEF Covered
  <2> QED
    BY <1>3, <1>4, <2>1 DEF Covered
<1>5. ASSUME ~store.wired PROVE Covered'
  <2>1. SUFFICES ASSUME SoleExecution' PROVE SoleCovered'
    BY <1>3, <1>5 DEF Covered
  <2>2. SoleExecution
    BY <2>1, SoleBefore DEF CellInv
  <2> QED
    BY <1>5, <2>1, <2>2, UnwiredCovered DEF Covered
<1> QED
  BY <1>1, <1>2, <1>4, <1>5

LEMMA CommitmentOwed ==
  ASSUME TypeOK
  PROVE  /\ SumFunction([c \in Debates |-> Commitment(c)]) <= TotalOwed
         /\ SumFunction([c \in Debates |-> Commitment(c)]) \in Int
<1> DEFINE owed == [c \in Debates |-> Owed(c)]
           committed == [c \in Debates |-> Commitment(c)]
<1>1. \A c \in Debates : owed[c] \in Int /\ committed[c] \in Int /\ committed[c] <= owed[c]
  <2> SUFFICES ASSUME NEW c \in Debates
               PROVE  Owed(c) \in Int /\ Commitment(c) \in Int /\ Commitment(c) <= Owed(c)
    OBVIOUS
  <2>1. amount[c] \in Nat /\ used[c] \in Nat
    BY DebatesFinite DEF TypeOK
  <2> QED
    BY <2>1 DEF Owed, Commitment, Reserved
<1>2. /\ SumFunctionOnSet(committed, Debates) <= SumFunctionOnSet(owed, Debates)
      /\ SumFunctionOnSet(committed, Debates) \in Int
  <2> HIDE DEF owed, committed
  <2> QED
    BY <1>1, DebatesFinite, SumMonotone, SumTyped
<1> QED
  BY <1>2 DEF TotalOwed, SumFunction

\* With a store, whatever the interleaving of calls and executions, and whatever is
\* interrupted and resumed, the admissions of budget_store.py stay within the budget; without
\* one, the cache of budget_gate.py alone keeps its own execution within it.
THEOREM CommittedWithinBudgetHolds == Spec => []CommittedWithinBudget
<1>1. BudgetInv /\ TypeOK' /\ [Next]_vars => BudgetInv'
  BY BudgetInvNext
<1>2. BudgetInv => CommittedWithinBudget
  <2> SUFFICES ASSUME BudgetInv, store.wired \/ SoleExecution
               PROVE  SumFunction([c \in Debates |-> Commitment(c)]) <= Total
    BY DEF CommittedWithinBudget
  <2>1. TypeOK
    BY DEF BudgetInv, CellInv
  <2>2. TotalOwed <= Total
    BY DEF BudgetInv, Covered, SoleCovered, Covers
  <2>3. /\ SumFunction([c \in Debates |-> Commitment(c)]) <= TotalOwed
        /\ SumFunction([c \in Debates |-> Commitment(c)]) \in Int
    BY <2>1, CommitmentOwed
  <2> QED
    BY <2>1, <2>2, <2>3, TotalOwedTyped, ConstantsAssumption
<1> QED
  BY <1>1, <1>2, BudgetInvInit, TypeCorrect, PTL DEF Spec

-----------------------------------------------------------------------------
(* The gate's cache is what the ledger of its execution leaves.             *)

\* What a call in flight has taken from its gate's cache and the ledger does not show yet.
Taken(c) ==
  IF pc[c] \in {"calling", "answered"} THEN amount[c]
  ELSE IF pc[c] = "crediting" THEN used[c] ELSE 0

InHand(g) == SumFunctionOnSet([c \in CallsOf(g) |-> Taken(c)], CallsOf(g))

Open(g) == cache[g] + InHand(g) = Total - ledger[g] - untold[g]

\* A resumed execution with nothing left: no call of it gets anywhere.
Spent(g) ==
  /\ cache[g] = 0 /\ ledger[g] >= Total
  /\ \A c \in CallsOf(g) : pc[c] \in InFlight => pc[c] = "waiting"

Running(g) ==
  /\ Open(g) \/ Spent(g)
  /\ \A r \in CallsOf(g) : r \in Replays => pc[r] \notin InFlight

\* The one replay, before it is charged.
Replaying(g) ==
  /\ cache[g] = Total /\ untold[g] = 0
  /\ \E r \in CallsOf(g) :
       /\ r \in Replays
       /\ pc[r] \in {"waiting", "initializing", "asking", "granted"}
       /\ amount[r] = IF ledger[g] < Total THEN ledger[g] ELSE Total
       /\ \A c \in CallsOf(g) \ {r} : pc[c] \notin InFlight

Explained(g) ==
  /\ status[g] \in Live => Running(g)
  /\ status[g] = "replaying" => Replaying(g)
  /\ status[g] \in {"off", "down", "refused"} => Quiet(g)

ExplainInv == CellInv /\ \A g \in Gates : Explained(g)

LEMMA CallsOfFinite == \A g \in Gates : IsFiniteSet(CallsOf(g)) /\ CallsOf(g) \subseteq Calls
BY ConstantsAssumption, FS_Subset DEF CallsOf

LEMMA TakenTyped == TypeOK => \A c \in Calls : Taken(c) \in Nat
BY DEF TypeOK, Taken

LEMMA TakenTypedNext == TypeOK' => \A c \in Calls : Taken(c)' \in Nat
BY DEF TypeOK, Taken

LEMMA InHandTyped == ASSUME TypeOK, NEW g \in Gates PROVE InHand(g) \in Int
<1> DEFINE taken == [c \in CallsOf(g) |-> Taken(c)]
<1>1. \A c \in CallsOf(g) : taken[c] \in Int
  BY TakenTyped, CallsOfFinite
<1>2. SumFunctionOnSet(taken, CallsOf(g)) \in Int
  <2> HIDE DEF taken
  <2> QED
    BY <1>1, CallsOfFinite, SumTyped
<1> QED
  BY <1>2 DEF InHand

LEMMA InHandOfQuiet == ASSUME NEW g \in Gates, Quiet(g) PROVE InHand(g) = 0
<1> DEFINE taken == [c \in CallsOf(g) |-> Taken(c)]
<1>1. \A c \in CallsOf(g) : taken[c] = 0
  BY DEF Quiet, InFlight, Taken
<1>2. SumFunctionOnSet(taken, CallsOf(g)) = 0
  <2> HIDE DEF taken
  <2> QED
    BY <1>1, CallsOfFinite, SumOfZeros
<1> QED
  BY <1>2 DEF InHand

LEMMA QuietNext == ASSUME NEW g \in Gates, Quiet(g)' PROVE InHand(g)' = 0
<1>1. (Quiet(g) => InHand(g) = 0)'
  BY InHandOfQuiet, PTL
<1> QED
  BY <1>1

LEMMA InHandUnchanged ==
  ASSUME NEW g \in Gates, \A c \in CallsOf(g) : Taken(c)' = Taken(c)
  PROVE  InHand(g)' = InHand(g)
<1>1. [c \in CallsOf(g) |-> Taken(c)'] = [c \in CallsOf(g) |-> Taken(c)]
  OBVIOUS
<1> QED
  BY <1>1 DEF InHand, CallsOf

LEMMA InHandChanges ==
  ASSUME TypeOK, TypeOK', NEW g \in Gates, NEW c \in CallsOf(g),
         \A d \in CallsOf(g) \ {c} : Taken(d)' = Taken(d)
  PROVE  InHand(g)' = InHand(g) + Taken(c)' - Taken(c)
<1> DEFINE before == [d \in CallsOf(g) |-> Taken(d)]
           after == [d \in CallsOf(g) |-> Taken(d)']
<1>1. \A d \in CallsOf(g) : Taken(d) \in Int /\ Taken(d)' \in Int
  BY TakenTyped, TakenTypedNext, CallsOfFinite
<1>2. SumFunctionOnSet(after, CallsOf(g)) = SumFunctionOnSet(before, CallsOf(g)) + after[c] - before[c]
  <2>1. Summands(before, CallsOf(g)) /\ Summands(after, CallsOf(g))
    BY <1>1 DEF Summands
  <2>2. AgreeOn(before, after, CallsOf(g) \ {c})
    BY DEF AgreeOn
  <2>3. IsFiniteSet(CallsOf(g))
    BY CallsOfFinite
  <2> HIDE DEF before, after
  <2> QED
    BY <2>1, <2>2, <2>3, SumChanges
<1>3. before[c] = Taken(c) /\ after[c] = Taken(c)'
  OBVIOUS
<1>4. InHand(g) = SumFunctionOnSet(before, CallsOf(g))
  BY DEF InHand
<1>5. InHand(g)' = SumFunctionOnSet(after, CallsOf(g))
  BY DEF InHand, CallsOf
<1> HIDE DEF before, after
<1> QED
  BY <1>2, <1>3, <1>4, <1>5

\* A gate that a step leaves alone.
LEMMA ElsewhereExplained ==
  ASSUME NEW g \in Gates, Explained(g),
         status'[g] = status[g], cache'[g] = cache[g], ledger'[g] = ledger[g], untold'[g] = untold[g],
         \A c \in CallsOf(g) : pc'[c] = pc[c] /\ amount'[c] = amount[c] /\ used'[c] = used[c]
  PROVE  Explained(g)'
<1>1. \A c \in CallsOf(g) : Taken(c)' = Taken(c)
  BY DEF Taken
<1>2. InHand(g)' = InHand(g)
  BY <1>1, InHandUnchanged
<1>3. CallsOf(g)' = CallsOf(g)
  BY DEF CallsOf
<1> QED
  BY <1>2, <1>3 DEF Explained, Running, Open, Spent, Replaying, Quiet

\* A step of a call of a running gate: what it moves from the cache it has in hand or
\* records, and with nothing left it goes nowhere.
LEMMA StepRunning ==
  ASSUME TypeOK, TypeOK', NEW g \in Gates, NEW c \in CallsOf(g), c \notin Replays,
         Running(g),
         \A d \in CallsOf(g) \ {c} :
           pc'[d] = pc[d] /\ amount'[d] = amount[d] /\ used'[d] = used[d],
         cache'[g] + Taken(c)' + ledger'[g] + untold'[g]
           = cache[g] + Taken(c) + ledger[g] + untold[g],
         Spent(g) => /\ cache'[g] = cache[g] /\ ledger'[g] = ledger[g]
                     /\ pc'[c] \in InFlight => pc'[c] = "waiting"
  PROVE  Running(g)'
<1>1. InHand(g)' = InHand(g) + Taken(c)' - Taken(c)
  <2>1. \A d \in CallsOf(g) \ {c} : Taken(d)' = Taken(d)
    BY DEF Taken
  <2> QED
    BY <2>1, InHandChanges
<1>2. CallsOf(g)' = CallsOf(g)
  BY DEF CallsOf
<1>3. ASSUME Open(g) PROVE Open(g)'
  <2>1. /\ InHand(g) \in Int /\ Taken(c) \in Int /\ cache[g] \in Int
        /\ ledger[g] \in Int /\ untold[g] \in Int /\ Total \in Int
    BY InHandTyped, TakenTyped, CallsOfFinite, ConstantsAssumption DEF TypeOK
  <2>2. /\ Taken(c)' \in Int /\ cache'[g] \in Int /\ ledger'[g] \in Int
        /\ untold'[g] \in Int
    BY TakenTypedNext, CallsOfFinite DEF TypeOK
  <2>3. cache[g] + InHand(g) = Total - ledger[g] - untold[g]
    BY <1>3 DEF Open
  <2>4. cache'[g] + InHand(g)' = Total - ledger'[g] - untold'[g]
    BY <1>1, <2>1, <2>2, <2>3
  <2> QED
    BY <2>4 DEF Open
<1>4. ASSUME Spent(g) PROVE Spent(g)'
  BY <1>2, <1>4 DEF Spent
<1>5. \A r \in CallsOf(g) : r \in Replays => pc'[r] \notin InFlight
  BY DEF Running
<1> QED
  BY <1>2, <1>3, <1>4, <1>5 DEF Running

LEMMA InCallsOf ==
  /\ \A c \in Calls : GateOf[c] \in Gates /\ c \in CallsOf(GateOf[c])
  /\ \A g \in Gates : \A d \in CallsOf(g) : d \in Calls /\ GateOf[d] = g
BY ConstantsAssumption DEF CallsOf

\* The steps of a call that is no replay, by the action taken.
LEMMA CallRunning ==
  ASSUME CellInv, TypeOK', NEW c \in Calls, c \notin Replays, Running(GateOf[c]),
         Step(c) \/ \E m \in Amounts : Asks(c, m)
  PROVE  Running(GateOf[c])'
<1> DEFINE g == GateOf[c]
<1>0. TypeOK /\ g \in Gates /\ c \in CallsOf(g) /\ CallsOf(g) \subseteq Calls
  BY InCallsOf, CallsOfFinite DEF CellInv
<1>a. /\ cache[g] \in Int /\ ledger[g] \in Int /\ untold[g] \in Int /\ amount[c] \in Nat /\ used[c] \in Nat
  BY <1>0 DEF TypeOK
<1> DEFINE Moved == /\ \A d \in CallsOf(g) \ {c} :
                         /\ pc'[d] = pc[d] /\ amount'[d] = amount[d]
                         /\ used'[d] = used[d]
                    /\ cache'[g] + Taken(c)' + ledger'[g] + untold'[g]
                         = cache[g] + Taken(c) + ledger[g] + untold[g]
                    /\ Spent(g) => /\ cache'[g] = cache[g] /\ ledger'[g] = ledger[g]
                                   /\ pc'[c] \in InFlight => pc'[c] = "waiting"
<1>b. Spent(g) => cache[g] = 0 /\ (pc[c] \in InFlight => pc[c] = "waiting")
  BY <1>0 DEF Spent
<1>c. pc[c] \in InFlight => amount[c] > 0
  BY DEF CellInv
<1> SUFFICES Moved
  BY <1>0, StepRunning
<1> USE <1>0, <1>a, <1>b, <1>c DEF TypeOK, Taken, InFlight
<1>1. ASSUME RefuseLocally(c) PROVE Moved
  BY <1>1 DEF RefuseLocally, gateVars
<1>2. ASSUME EnterStore(c) PROVE Moved
  BY <1>2 DEF EnterStore
<1>3. ASSUME Initialize(c) PROVE Moved
  BY <1>3 DEF Initialize, gateVars
<1>4. ASSUME Reserve(c) PROVE Moved
  BY <1>4 DEF Reserve, gateVars
<1>5. ASSUME RefusedByStore(c) PROVE Moved
  BY <1>5 DEF RefusedByStore
<1>6. ASSUME Deduct(c) PROVE Moved
  BY <1>6 DEF Deduct, Charge
<1>7. ASSUME ReserveLocally(c) PROVE Moved
  BY <1>7 DEF ReserveLocally, Charge
<1>8. ASSUME AnswerExact(c) PROVE Moved
  BY <1>8 DEF AnswerExact, Record
<1>9. ASSUME NEW u \in Usages, Answer(c, u) PROVE Moved
  BY <1>9 DEF Answer, gateVars
<1>10. ASSUME Credit(c) PROVE Moved
  BY <1>10 DEF Credit, Correction, Surplus
<1>11. ASSUME CreditStore(c) PROVE Moved
  BY <1>11 DEF CreditStore, Record
<1>12. ASSUME CreditLocally(c) PROVE Moved
  BY <1>12 DEF CreditLocally, Correction, Surplus, Record
<1>13. ASSUME NEW m \in Amounts, Asks(c, m) PROVE Moved
  BY <1>13 DEF Asks, Request, RequestTieBreak, gateVars
<1> QED
  BY <1>1, <1>2, <1>3, <1>4, <1>5, <1>6, <1>7, <1>8, <1>9, <1>10, <1>11, <1>12,
     <1>13 DEF Step

\* A replay is on its way, and charging it leaves what the saved rounds left.
LEMMA ReplayStep ==
  ASSUME CellInv, TypeOK', NEW r \in Calls, r \in Replays, status[GateOf[r]] = "replaying",
         Replaying(GateOf[r]), Step(r)
  PROVE  Explained(GateOf[r])'
<1> DEFINE g == GateOf[r]
<1>0. TypeOK /\ g \in Gates /\ r \in CallsOf(g) /\ CallsOf(g) \subseteq Calls
  BY InCallsOf, CallsOfFinite DEF CellInv
<1>1. pc[r] \in InFlight
  BY DEF Step, RefuseLocally, EnterStore, Initialize, Reserve, RefusedByStore, Deduct,
     ReserveLocally, AnswerExact, Answer, Credit, CreditStore, CreditLocally, InFlight
<1>2. /\ cache[g] = Total /\ untold[g] = 0
      /\ pc[r] \in {"waiting", "initializing", "asking", "granted"}
      /\ amount[r] = IF ledger[g] < Total THEN ledger[g] ELSE Total
      /\ \A c \in CallsOf(g) \ {r} : pc[c] \notin InFlight
  BY <1>0, <1>1 DEF Replaying
<1>3. CallsOf(g)' = CallsOf(g)
  BY DEF CallsOf
<1>4. Total \in Nat /\ ledger[g] \in Nat /\ amount[r] <= Total
  BY <1>0, <1>2, ConstantsAssumption DEF TypeOK
<1>5. \A c \in CallsOf(g) \ {r} : pc'[c] = pc[c]
  BY <1>0 DEF Step, RefuseLocally, EnterStore, Initialize, Reserve, RefusedByStore, Deduct,
     Charge, ReserveLocally, AnswerExact, Answer, Credit, CreditStore, CreditLocally, TypeOK
<1>6. CASE EnterStore(r) \/ Initialize(r) \/ Reserve(r)
  <2>1. /\ status'[g] = "replaying" /\ cache'[g] = cache[g] /\ ledger'[g] = ledger[g]
        /\ untold'[g] = untold[g]
        /\ amount'[r] = amount[r] /\ pc'[r] \in {"initializing", "asking", "granted"}
    BY <1>0, <1>6 DEF EnterStore, Initialize, Reserve, gateVars, TypeOK
  <2>2. Replaying(g)'
    BY <1>0, <1>2, <1>3, <1>5, <2>1 DEF Replaying
  <2> QED
    BY <2>1, <2>2 DEF Explained
<1>7. CASE RefusedByStore(r)
  <2>1. status'[g] = "refused" /\ pc'[r] \notin InFlight
    BY <1>0, <1>7 DEF RefusedByStore, TypeOK, InFlight
  <2>2. Quiet(g)'
    BY <1>2, <1>3, <1>5, <2>1 DEF Quiet
  <2> QED
    BY <2>1, <2>2 DEF Explained
<1>8. CASE Deduct(r) \/ ReserveLocally(r)
  <2>1. /\ status'[g] = "up" /\ cache'[g] = Total - amount[r] /\ ledger'[g] = ledger[g]
        /\ untold'[g] = untold[g] /\ pc'[r] \notin InFlight
    BY <1>0, <1>2, <1>8 DEF Deduct, ReserveLocally, Charge, TypeOK, InFlight
  <2>2. Quiet(g)'
    BY <1>2, <1>3, <1>5, <2>1 DEF Quiet
  <2>3. InHand(g)' = 0
    BY <1>0, <2>2, QuietNext
  <2>4. Open(g)' \/ Spent(g)'
    BY <1>2, <1>3, <1>4, <2>1, <2>2, <2>3 DEF Open, Spent, Quiet
  <2> QED
    BY <2>1, <2>2, <2>4 DEF Explained, Running, Quiet
<1>9. CASE RefuseLocally(r)
  BY <1>0, <1>2, <1>4, <1>9 DEF RefuseLocally
<1> QED
  BY <1>2, <1>6, <1>7, <1>8, <1>9 DEF Step, AnswerExact, Answer, Credit, CreditStore,
     CreditLocally

\* A call that moves belongs to an execution that runs, or is its replay.
LEMMA CallExplained ==
  ASSUME CellInv, TypeOK', NEW c \in Calls, Explained(GateOf[c]),
         Step(c) \/ \E m \in Amounts : Asks(c, m)
  PROVE  Explained(GateOf[c])'
<1> DEFINE g == GateOf[c]
<1>0. TypeOK /\ g \in Gates /\ c \in CallsOf(g)
  BY InCallsOf DEF CellInv
<1>1. \/ pc[c] \in InFlight
      \/ status[g] \in Live /\ c \notin Replays
  <2>1. ASSUME Step(c) PROVE pc[c] \in InFlight
    BY <2>1 DEF Step, RefuseLocally, EnterStore, Initialize, Reserve, RefusedByStore,
       Deduct, ReserveLocally, AnswerExact, Answer, Credit, CreditStore, CreditLocally,
       InFlight
  <2>2. ASSUME NEW m \in Amounts, Asks(c, m) PROVE status[g] \in Live /\ c \notin Replays
    BY <2>2, ConstantsAssumption DEF Asks, Request, RequestTieBreak, Debates
  <2> QED
    BY <2>1, <2>2
<1>2. status[g] \in Live \cup {"replaying"}
  BY <1>0, <1>1 DEF Explained, Quiet, TypeOK
<1>3. CASE status[g] \in Live
  <2>1. Running(g) /\ c \notin Replays
    BY <1>0, <1>1, <1>3 DEF Explained, Running
  <2>2. Running(g)'
    BY <2>1, CallRunning
  <2>3. status'[g] \in Live
    BY <1>0, <1>3, <2>1 DEF TypeOK, Step, RefuseLocally, EnterStore, Initialize, Reserve, RefusedByStore,
       Deduct, Charge, ReserveLocally, AnswerExact, Answer, Credit, CreditStore,
       CreditLocally, Asks, Request, RequestTieBreak, gateVars
  <2> QED
    BY <2>2, <2>3 DEF Explained
<1>4. CASE status[g] = "replaying"
  <2>1. Replaying(g) /\ c \in Replays
    BY <1>0, <1>1, <1>4 DEF Explained, Replaying
  <2>2. Step(c)
    BY <2>1, ConstantsAssumption DEF Asks, Request, RequestTieBreak, Debates
  <2> QED
    BY <1>4, <2>1, <2>2, ReplayStep
<1> QED
  BY <1>2, <1>3, <1>4

\* What a step of a call leaves alone.
LEMMA CallElsewhere ==
  ASSUME TypeOK, NEW c \in Calls, Step(c) \/ \E m \in Amounts : Asks(c, m),
         NEW g \in Gates, g # GateOf[c]
  PROVE  /\ status'[g] = status[g] /\ cache'[g] = cache[g] /\ ledger'[g] = ledger[g]
         /\ untold'[g] = untold[g]
         /\ \A d \in CallsOf(g) :
              pc'[d] = pc[d] /\ amount'[d] = amount[d] /\ used'[d] = used[d]
<1> SUFFICES /\ status'[g] = status[g] /\ cache'[g] = cache[g] /\ ledger'[g] = ledger[g]
             /\ untold'[g] = untold[g]
             /\ \A d \in Calls \ {c} :
                  pc'[d] = pc[d] /\ amount'[d] = amount[d] /\ used'[d] = used[d]
  BY InCallsOf
<1> QED
  BY DEF TypeOK, gateVars, Step, RefuseLocally, EnterStore, Initialize, Reserve,
     RefusedByStore, Deduct, Charge, ReserveLocally, AnswerExact, Record, Answer, Credit,
     CreditStore, CreditLocally, Asks, Request, RequestTieBreak

\* A new execution, with or without something to replay.
LEMMA ResumeExplained ==
  ASSUME CellInv, TypeOK', NEW g \in Gates, Explained(g),
         ResumeUnspent(g) \/ \E r \in Replays : ResumeSpent(g, r)
  PROVE  Explained(g)'
<1>0. TypeOK /\ CallsOf(g) \subseteq Calls /\ CallsOf(g)' = CallsOf(g)
  BY CallsOfFinite DEF CellInv, CallsOf
<1>1. Quiet(g)
  BY DEF ResumeUnspent, ResumeSpent, ResumeNew, Explained
<1>2. cache'[g] = Total /\ ledger'[g] = saved /\ untold'[g] = 0 /\ saved \in Nat /\ Total \in Nat
  BY <1>0, ConstantsAssumption DEF ResumeUnspent, ResumeSpent, ResumeNew, TypeOK
<1>3. CASE ResumeUnspent(g)
  <2>1. status'[g] = "up" /\ pc' = pc
    BY <1>0, <1>3 DEF ResumeUnspent, callVars, TypeOK
  <2>2. Quiet(g)'
    BY <1>0, <1>1, <2>1 DEF Quiet
  <2>3. InHand(g)' = 0
    BY <2>2, QuietNext
  <2>4. saved = 0 \/ Total = 0
    BY <1>2, <1>3 DEF ResumeUnspent, ReplayAmount
  <2>5. Open(g)' \/ Spent(g)'
    BY <1>2, <2>2, <2>3, <2>4 DEF Open, Spent, Quiet
  <2> QED
    BY <2>1, <2>2, <2>5 DEF Explained, Running, Quiet
<1>4. CASE \E r \in Replays : ResumeSpent(g, r)
  <2>1. PICK r \in Replays : ResumeSpent(g, r)
    BY <1>4
  <2>2. r \in CallsOf(g)
    BY <2>1, ConstantsAssumption DEF ResumeSpent, CallsOf
  <2>3. /\ status'[g] = "replaying" /\ pc'[r] = "waiting"
        /\ amount'[r] = IF saved < Total THEN saved ELSE Total
        /\ \A c \in CallsOf(g) \ {r} : pc'[c] = pc[c]
    BY <1>0, <2>1, <2>2 DEF ResumeSpent, ReplayAmount, TypeOK
  <2>4. Replaying(g)'
    BY <1>0, <1>1, <1>2, <2>2, <2>3 DEF Replaying, Quiet
  <2> QED
    BY <2>3, <2>4 DEF Explained
<1> QED
  BY <1>3, <1>4

LEMMA ResumeElsewhere ==
  ASSUME TypeOK, NEW h \in Gates, Interrupt(h) \/ ResumeUnspent(h)
                                  \/ \E r \in Replays : ResumeSpent(h, r),
         NEW g \in Gates, g # h
  PROVE  /\ status'[g] = status[g] /\ cache'[g] = cache[g] /\ ledger'[g] = ledger[g]
         /\ untold'[g] = untold[g]
         /\ \A d \in CallsOf(g) :
              pc'[d] = pc[d] /\ amount'[d] = amount[d] /\ used'[d] = used[d]
BY InCallsOf DEF TypeOK, callVars, Interrupt, ResumeUnspent, ResumeSpent, ResumeNew

LEMMA InterruptExplained ==
  ASSUME CellInv, NEW g \in Gates, Interrupt(g)
  PROVE  Explained(g)'
<1>1. status'[g] = "down" /\ \A c \in CallsOf(g) : pc'[c] \notin InFlight
  BY CallsOfFinite DEF Interrupt, CellInv, TypeOK, InFlight
<1>2. CallsOf(g)' = CallsOf(g)
  BY DEF CallsOf
<1> QED
  BY <1>1, <1>2 DEF Explained, Quiet

LEMMA ExplainInvNext ==
  ASSUME ExplainInv, TypeOK', [Next]_vars
  PROVE  ExplainInv'
<1>1. CellInv'
  BY CellInvNext DEF ExplainInv
<1>2. SUFFICES ASSUME NEW g \in Gates PROVE Explained(g)'
  BY <1>1 DEF ExplainInv
<1>3. CellInv /\ TypeOK /\ Explained(g)
  BY DEF ExplainInv, CellInv
<1>4. ASSUME NEW c \in Calls, Step(c) \/ \E m \in Amounts : Asks(c, m)
      PROVE  Explained(g)'
  BY <1>3, <1>4, CallExplained, CallElsewhere, ElsewhereExplained
<1>5. ASSUME NEW h \in Gates, SaveRound(h) PROVE Explained(g)'
  BY <1>3, <1>5, ElsewhereExplained DEF SaveRound, gateVars, callVars
<1>6. ASSUME NEW h \in Gates, Interrupt(h) PROVE Explained(g)'
  BY <1>3, <1>6, InterruptExplained, ResumeElsewhere, ElsewhereExplained
<1>7. ASSUME NEW h \in Gates, ResumeUnspent(h) \/ \E r \in Replays : ResumeSpent(h, r)
      PROVE  Explained(g)'
  BY <1>3, <1>7, ResumeExplained, ResumeElsewhere, ElsewhereExplained
<1>8. CASE UNCHANGED vars
  BY <1>3, <1>8, VarsUnchanged, ElsewhereExplained
<1> QED
  BY <1>4, <1>5, <1>6, <1>7, <1>8 DEF Next, Asks

LEMMA ExplainInvInit == Init => ExplainInv
<1> SUFFICES ASSUME Init PROVE ExplainInv
  OBVIOUS
<1>1. CellInv
  BY CellInvInit
<1>2. SUFFICES ASSUME NEW g \in Gates PROVE Explained(g)
  BY <1>1 DEF ExplainInv
<1>3. Quiet(g)
  BY CallsOfFinite DEF Init, Quiet, InFlight
<1>4. InHand(g) = 0
  BY <1>3, InHandOfQuiet
<1>5. Running(g)
  BY <1>3, <1>4, ConstantsAssumption DEF Init, Running, Open, Quiet
<1>6. status[g] \in {"up", "off"}
  BY DEF Init, OneStarted
<1> QED
  BY <1>3, <1>5, <1>6 DEF Explained

\* Between calls, in a resumed execution too, _remaining of budget_gate.py and the budget
\* ledger that orchestrator.py keeps and restores tell the same story.
THEOREM LedgerExplainsGateHolds == Spec => []LedgerExplainsGate
<1>1. ExplainInv /\ TypeOK' /\ [Next]_vars => ExplainInv'
  BY ExplainInvNext
<1>2. ExplainInv => LedgerExplainsGate
  <2> SUFFICES ASSUME ExplainInv, NEW g \in Gates, status[g] \in Live, Quiet(g)
               PROVE  \/ cache[g] = Total - ledger[g] - untold[g]
                      \/ cache[g] = 0 /\ ledger[g] >= Total
    BY DEF LedgerExplainsGate
  <2>1. Open(g) \/ Spent(g)
    BY DEF ExplainInv, Explained, Running
  <2>2. InHand(g) = 0
    BY InHandOfQuiet
  <2>3. cache[g] \in Int
    BY DEF ExplainInv, CellInv, TypeOK
  <2>4. ledger[g] \in Int /\ untold[g] \in Int /\ Total \in Int
    BY ConstantsAssumption DEF ExplainInv, CellInv, TypeOK
  <2> QED
    BY <2>1, <2>2, <2>3, <2>4 DEF Open, Spent
<1> QED
  BY <1>1, <1>2, ExplainInvInit, TypeCorrect, PTL DEF Spec

-----------------------------------------------------------------------------
(* StructuredCall: what one call spends.                                    *)

\* The least attempt the loop allows never has a negative cap, and a cap and
\* what is already spent never add up to more than the ceiling.
LEMMA CapBounds ==
  ASSUME CallTypeOK
  PROVE  /\ effective_max_tokens \in Nat
         /\ retry_budget \in Nat
         /\ AttemptCap \in Int
         /\ AttemptCap <= effective_max_tokens
         /\ spent + AttemptCap <= retry_budget
BY CallAssumption
DEF CallTypeOK, effective_max_tokens, retry_budget, AttemptCap,
    RETRY_BUDGET_MULTIPLIER

\* What the steps of an attempt have in common.
LEMMA AttemptTyped ==
  ASSUME CallTypeOK, MayAttempt
  PROVE  /\ attempt + 1 \in 0..MaxRetries
         /\ \A u \in 0..effective_max_tokens + PromptTokens :
              spent + u \in Nat /\ billed + u \in Nat
<1>1. effective_max_tokens \in Nat
  BY CapBounds
<1>2. \A u \in 0..effective_max_tokens + PromptTokens : u \in Nat
  BY <1>1, CallAssumption
<1> QED
  BY <1>2, CallAssumption DEF CallTypeOK, MayAttempt

\* The tokens of the current sequence are those the provider billed, as long
\* as the call has had only one sequence; and the ceiling.
OneSequence ==
  retried = 0 /\ provider = "primary" /\ phase # "raised" => billed = spent

Told ==
  /\ phase \in {"attempt", "backoff"} => reported = 0
  /\ phase \in {"returned", "invalid"} => reported = spent

AccountInv == CallTypeOK /\ SequenceBounded /\ OneSequence /\ Told

\* The initial state satisfies the invariant.
LEMMA AccountInit == CallInit => AccountInv
<1> SUFFICES ASSUME CallInit PROVE AccountInv
  OBVIOUS
<1>1. CallTypeOK
  BY CallAssumption DEF CallInit, CallTypeOK, Ended
<1>2. SequenceBounded
  BY <1>1, CapBounds, CallAssumption DEF CallInit, SequenceBounded
<1>3. OneSequence /\ Told
  BY DEF CallInit, OneSequence, Told
<1> QED
  BY <1>1, <1>2, <1>3 DEF AccountInv

\* Every step keeps it.
LEMMA AccountStep == AccountInv /\ [CallNext]_attemptVars => AccountInv'
<1> SUFFICES ASSUME AccountInv, [CallNext]_attemptVars PROVE AccountInv'
  OBVIOUS
<1> USE DEF AccountInv
<1>c. /\ effective_max_tokens \in Nat /\ effective_max_tokens' = effective_max_tokens
      /\ retry_budget \in Nat /\ retry_budget' = retry_budget
  BY CapBounds DEF effective_max_tokens, retry_budget, RETRY_BUDGET_MULTIPLIER
<1>1. ASSUME NEW u \in 0..effective_max_tokens + PromptTokens,
             Billed(u), spent' = spent + u
      PROVE  SequenceBounded'
  <2>1. u \in Nat /\ u <= AttemptCap + PromptTokens
    BY <1>1, <1>c, CallAssumption DEF Billed
  <2>2. AttemptCap \in Int /\ spent + AttemptCap <= retry_budget
    BY CapBounds
  <2>3. spent + u <= retry_budget + PromptTokens
    BY <2>1, <2>2, <1>c, CallAssumption DEF CallTypeOK
  <2> QED
    BY <2>3, <1>1, <1>c DEF SequenceBounded
<1>2. ASSUME NEW u \in 0..effective_max_tokens + PromptTokens, Valid(u)
      PROVE  AccountInv'
  <2>1. SequenceBounded'
    BY <1>1, <1>2 DEF Valid
  <2>2. CallTypeOK'
    BY <1>2, AttemptTyped DEF Valid, Billed, CallTypeOK, Ended
  <2>3. OneSequence' /\ Told'
    BY <1>2, <1>c, CallAssumption
    DEF Valid, Billed, MayAttempt, OneSequence, Told, CallTypeOK
  <2> QED
    BY <2>1, <2>2, <2>3
<1>3. ASSUME NEW u \in 0..effective_max_tokens + PromptTokens, Invalid(u)
      PROVE  AccountInv'
  <2>1. SequenceBounded'
    BY <1>1, <1>3 DEF Invalid, CountInvalid
  <2>2. CallTypeOK'
    BY <1>3, AttemptTyped DEF Invalid, CountInvalid, Billed, CallTypeOK, Ended
  <2>3. OneSequence' /\ Told'
    BY <1>3, <1>c, CallAssumption
    DEF Invalid, CountInvalid, Billed, MayAttempt, OneSequence, Told, CallTypeOK
  <2> QED
    BY <2>1, <2>2, <2>3
<1>4. ASSUME NEW u \in 0..effective_max_tokens + PromptTokens, OtherError(u)
      PROVE  AccountInv'
  <2>1. CallTypeOK'
    BY <1>4, AttemptTyped DEF OtherError, Billed, CallTypeOK, Ended
  <2> QED
    BY <2>1, <1>4, <1>c
    DEF OtherError, SequenceBounded, OneSequence, Told
<1>5. ASSUME NEW kind \in {"transient", "permanent"}, TransportError(kind)
      PROVE  AccountInv'
  <2>1. CallTypeOK'
    BY <1>5, AttemptTyped DEF TransportError, CallTypeOK, Ended
  <2> QED
    BY <2>1, <1>5, <1>c
    DEF TransportError, SequenceBounded, OneSequence, Told
<1>6. CASE Backoff
  BY <1>6, <1>c, CallAssumption
  DEF Backoff, GivesUp, OneMore, NewSequence, CallTypeOK, Ended, SequenceBounded,
      OneSequence, Told
<1>7. CASE Wake
  BY <1>7, <1>c DEF Wake, CallTypeOK, Ended, SequenceBounded, OneSequence, Told
<1>8. CASE FallBack
  BY <1>8, <1>c, CallAssumption
  DEF FallBack, GivesUp, NewSequence, CallTypeOK, Ended, SequenceBounded,
      OneSequence, Told
<1>9. CASE Fail
  BY <1>9, <1>c
  DEF Fail, GivesUp, CallTypeOK, Ended, SequenceBounded, OneSequence, Told
<1>10. CASE UNCHANGED attemptVars
  BY <1>10, <1>c DEF attemptVars, CallTypeOK, Ended, SequenceBounded, OneSequence, Told
<1> QED
  BY <1>2, <1>3, <1>4, <1>5, <1>6, <1>7, <1>8, <1>9, <1>10 DEF CallNext

\* The variables keep their types.
THEOREM CallTypeCorrect == CallSpec => []CallTypeOK
<1>1. AccountInv => CallTypeOK
  BY DEF AccountInv
<1> QED
  BY <1>1, AccountInit, AccountStep, PTL DEF CallSpec

\* However many attempts a sequence makes, it costs at most twice the
\* allocation and one prompt (the ceiling of call_structured).
THEOREM SequenceBoundedHolds == CallSpec => []SequenceBounded
<1>1. AccountInv => SequenceBounded
  BY DEF AccountInv
<1> QED
  BY <1>1, AccountInit, AccountStep, PTL DEF CallSpec

\* Tokens the caller is not told of were spent by an earlier sequence
\* (LLMClient.call returns the tokens of its last call_structured).
THEOREM LossNeedsSequencesHolds == CallSpec => []LossNeedsSequences
<1>1. AccountInv => LossNeedsSequences
  BY CallAssumption
  DEF AccountInv, CallTypeOK, OneSequence, Told, LossNeedsSequences
<1> QED
  BY <1>1, AccountInit, AccountStep, PTL DEF CallSpec
=============================================================================
