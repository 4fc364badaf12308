------------------------------- MODULE Synthesis -------------------------------
(***************************************************************************)
(* From the outputs of the final round to the committee's memo: detect()   *)
(* of disagreement.py, synthesize() and its three conflict resolution      *)
(* strategies, with the failures of the tie-breaker.  A failed synthesis   *)
(* is repeated by a resumption, whose trace has all rounds already.        *)
(*                                                                         *)
(* Agents are numbered in the order in which they spoke: ties are broken   *)
(* by it.  Abstracted: the text of summaries, risks and appendices, and    *)
(* the contested factors, which no decision depends on.                    *)
(***************************************************************************)
EXTENDS Integers, FiniteSets, Functions

CONSTANTS
  NumAgents,
  Stances,       \* Stance; Buy, Sell and Pass are those the code names
  Buy, Sell, Pass,
  Confidences    \* the confidences that occur

ASSUME ConstantsAssumption ==
  /\ NumAgents \in Nat
  /\ {Buy, Sell, Pass} \subseteq Stances
  /\ Buy # Sell /\ Buy # Pass /\ Sell # Pass
  /\ Confidences \subseteq 0..100

VARIABLES
  outputs,   \* final_round.agent_outputs: who was not excluded, and said what
  strategy,  \* config.conflict_resolution_strategy
  phase,
  involved,  \* agents_involved of the final round's record; {}: no record
  memo       \* SynthesisMemo, the last one built

vars == <<outputs, strategy, phase, involved, memo>>
-----------------------------------------------------------------------------
Agents == 1..NumAgents
TieBreaker == 0
Strategies == {"flag_unresolved", "confidence_weighted", "tie_breaker"}

Output == [stance: Stances, confidence: Confidences, echo: BOOLEAN]
Outputs == UNION {[D -> Output] : D \in SUBSET Agents}

\* real: somebody holds the recommendation (has_real_winner); view: who is
\* in dissenting_view; appendix: whether dissent_appendix is set.
Memo == [recommendation: Stances, confidence: 0..100, real: BOOLEAN,
         supporting: SUBSET (Agents \cup {TieBreaker}),
         dissenting: SUBSET Agents, view: SUBSET Agents,
         echoed: SUBSET Agents, appendix: BOOLEAN]
NoMemo == [recommendation |-> Pass, confidence |-> 0, real |-> FALSE,
           supporting |-> {}, dissenting |-> {}, view |-> {}, echoed |-> {},
           appendix |-> FALSE]

TypeOK ==
  /\ outputs \in Outputs
  /\ strategy \in Strategies
  /\ phase \in {"detecting", "resolving", "failed", "done"}
  /\ involved \in SUBSET Agents
  /\ memo \in Memo

Init ==
  /\ outputs \in Outputs
  /\ strategy \in Strategies
  /\ phase = "detecting"
  /\ involved = {}
  /\ memo = NoMemo
-----------------------------------------------------------------------------
Spoke == DOMAIN outputs
Echoed == {a \in Spoke : outputs[a].echo}
Holders(S, s) == {a \in S : outputs[a].stance = s}
Against(S, s) == {a \in S : outputs[a].stance # s}

\* The stance of greatest weight among those of S, the first one voiced in a
\* tie (Counter.most_common; max over a dict).
Leading(S, weight) ==
  LET leaders == {a \in S : \A b \in S :
                    weight[outputs[b].stance] <= weight[outputs[a].stance]}
  IN  outputs[CHOOSE a \in leaders : \A b \in leaders : a <= b].stance

Voices(S) == [s \in Stances |-> Cardinality(Holders(S, s))]
Majority(S) == Leading(S, Voices(S))

Total(S) == SumFunctionOnSet([a \in S |-> outputs[a].confidence], S)

\* round(n / d): to the even neighbour in the middle.
Rounded(n, d) ==
  LET q == n \div d
      r == n % d
  IN  IF 2 * r < d \/ (2 * r = d /\ q % 2 = 0) THEN q ELSE q + 1
-----------------------------------------------------------------------------
(* detect()                                                                 *)

\* Mutant of HIGH_CONFIDENCE_THRESHOLD: one beyond the boundary.
BeyondThreshold == 71

HIGH_CONFIDENCE_THRESHOLD == 70

Confident(s) ==
  {a \in Holders(Spoke, s) : outputs[a].confidence >= HIGH_CONFIDENCE_THRESHOLD}

HighConfidenceConflict ==
  IF Confident(Buy) # {} /\ Confident(Sell) # {}
  THEN Confident(Buy) \cup Confident(Sell)
  ELSE {}

\* Three quarters of those who were not excluded.
HasMajority ==
  4 * Voices(Spoke)[Majority(Spoke)] >= 3 * Cardinality(Spoke)

Detect ==
  /\ phase = "detecting"
  /\ phase' = "resolving"
  /\ involved' = IF Spoke = {} THEN {}
                 ELSE IF HighConfidenceConflict # {} THEN HighConfidenceConflict
                 ELSE IF HasMajority THEN {} ELSE Spoke
  /\ UNCHANGED <<outputs, strategy, memo>>
-----------------------------------------------------------------------------
(* synthesize()                                                             *)

\* Mutant of Voting: echoes vote like everybody else.
VotingAll == Spoke

\* Who has a vote in a consensus: those who are no echo, if there are any.
Voting == IF Spoke = Echoed THEN Spoke ELSE Spoke \ Echoed

Done(m) ==
  /\ phase' = "done"
  /\ memo' = m
  /\ UNCHANGED <<outputs, strategy, involved>>

\* _clean_consensus_memo() without any output.
NoOutput ==
  /\ phase = "resolving"
  /\ Spoke = {}
  /\ Done([NoMemo EXCEPT !.appendix = TRUE])

\* _clean_consensus_memo(): the dissent it names is that of the voters.
Consensus ==
  /\ phase = "resolving"
  /\ Spoke # {}
  /\ involved = {}
  /\ LET winner == Majority(Voting)
         supporting == Holders(Voting, winner)
         against == Against(Voting, winner)
     IN  Done([recommendation |-> winner,
               confidence |-> Rounded(Total(supporting), Cardinality(supporting)),
               real |-> TRUE, supporting |-> supporting,
               dissenting |-> against, view |-> against, echoed |-> Echoed,
               appendix |-> FALSE])

\* Mutant of Losers: all who were involved, as in FlagUnresolvedStrategy.
LosersAll(s) == {a \in involved : s \in Stances}

\* The involved agents that do not hold the winning stance.
Losers(s) == Against(involved, s)

\* _build_dissenting_view() of a resolved disagreement.
DissentingView(s) == Against(Spoke, s)

Resolved(winner, confidence, allies) ==
  [recommendation |-> winner, confidence |-> confidence, real |-> TRUE,
   supporting |-> Holders(involved, winner) \cup allies,
   dissenting |-> Losers(winner), view |-> DissentingView(winner),
   echoed |-> {}, appendix |-> Losers(winner) # {}]

\* FlagUnresolvedStrategy: no winner, a placeholder as recommendation.
Flagged ==
  [recommendation |-> Pass, confidence |-> 50, real |-> FALSE,
   supporting |-> {}, dissenting |-> involved, view |-> {}, echoed |-> {},
   appendix |-> TRUE]

FlagUnresolved ==
  /\ phase = "resolving"
  /\ involved # {}
  /\ strategy = "flag_unresolved"
  /\ Done(Flagged)

\* ConfidenceWeightedStrategy.
Weights == [s \in Stances |-> Total(Holders(involved, s))]

WeighConfidence ==
  /\ phase = "resolving"
  /\ involved # {}
  /\ strategy = "confidence_weighted"
  /\ LET winner == Leading(involved, Weights)
         share  == IF Total(involved) = 0 THEN 50
                   ELSE Rounded(100 * Weights[winner], Total(involved))
     IN  Done(Resolved(winner, share, {}))

\* TieBreakerStrategy: one more agent decides, whatever it says.
BreakTie(s, c) ==
  /\ phase = "resolving"
  /\ involved # {}
  /\ strategy = "tie_breaker"
  /\ Done(Resolved(s, c, {TieBreaker}))

\* BudgetExhaustedError: the gate refuses it, or it overran the reserve.
Unaffordable ==
  /\ phase = "resolving"
  /\ involved # {}
  /\ strategy = "tie_breaker"
  /\ Done(Flagged)

\* Any other exception of its call leaves synthesize() and _run_locked.
TieBreakerFails ==
  /\ phase = "resolving"
  /\ involved # {}
  /\ strategy = "tie_breaker"
  /\ phase' = "failed"
  /\ UNCHANGED <<outputs, strategy, involved, memo>>

\* A resumption finds all rounds in the trace, the record with them.
ResumeSynthesis ==
  /\ phase = "failed"
  /\ phase' = "resolving"
  /\ UNCHANGED <<outputs, strategy, involved, memo>>

Next ==
  \/ Detect
  \/ NoOutput \/ Consensus
  \/ FlagUnresolved \/ WeighConfidence
  \/ \E s \in Stances, c \in Confidences : BreakTie(s, c)
  \/ Unaffordable \/ TieBreakerFails \/ ResumeSynthesis

Spec == Init /\ [][Next]_vars
-----------------------------------------------------------------------------
\* No disagreement disappears from a memo: an agent whose stance is not the
\* recommended one is named in the dissenting view, or listed as an echo, or,
\* if there is no winner, nobody is said to agree ("an echoed agent's presence
\* in the round is still visible in the memo, not erased", SynthesisMemo).
NoDissentErased ==
  phase = "done" =>
    IF memo.real
    THEN Against(Spoke, memo.recommendation) \subseteq memo.view \cup memo.echoed
    ELSE memo.supporting = {} /\ memo.appendix

\* A confident Buy against a confident Sell is in the memo as dissent on
\* every path, whatever the majority is, whoever is an echo, whoever breaks
\* the tie ("a confident direct conflict is never something to average away",
\* disagreement.py).
ConfidentConflictShows ==
  phase = "done" =>
    \A a, b \in Spoke :
      /\ outputs[a].stance = Buy /\ outputs[a].confidence >= 70
      /\ outputs[b].stance = Sell /\ outputs[b].confidence >= 70
      => memo.appendix /\ memo.dissenting \cap {a, b} # {}

\* Dissent can be read off every memo: all of it, and a confident conflict
\* as such.
DissentShows == NoDissentErased /\ ConfidentConflictShows

\* In a consensus (no disagreement on record) in which somebody has something
\* new to say, the recommendation is that of a plurality of the voters, and
\* its supporters are the voters that hold it: no echo chooses or supports
\* ("down-weighted out of the vote entirely", _clean_consensus_memo).
ConsensusIsVoted ==
  phase = "done" /\ involved = {} /\ Spoke # Echoed =>
    LET voters == Spoke \ Echoed
    IN  /\ memo.supporting = Holders(voters, memo.recommendation)
        /\ memo.supporting # {}
        /\ \A a \in voters : Cardinality(Holders(voters, outputs[a].stance))
                               <= Cardinality(memo.supporting)

\* A recorded disagreement that confidence weighs is decided by all who are
\* involved, the echoes among them with their whole confidence (their
\* classification is "only consulted on the clean-consensus path",
\* synthesize()).  Supporters are the involved that hold the winner, and no
\* stance has more confidence behind it.
ConflictIsWeighed ==
  phase = "done" /\ involved # {} /\ strategy = "confidence_weighted" =>
    /\ memo.supporting = Holders(involved, memo.recommendation)
    /\ memo.supporting # {}
    /\ \A a \in involved :
         Total(Holders(involved, outputs[a].stance)) <= Total(memo.supporting)

\* A memo is made of the outputs it is about, and its recommendation carried
\* by those who decide on its path: the voters of a consensus, the involved
\* of a conflict.
RecommendationIsCarried == TypeOK /\ ConsensusIsVoted /\ ConflictIsWeighed

\* The memo's two accounts of dissent agree: whoever lost the conflict is in
\* the dissenting view, and nobody supports and dissents at once.
DissentAccountsAgree ==
  phase = "done" /\ memo.real =>
    /\ memo.dissenting \subseteq memo.view
    /\ memo.supporting \cap memo.view = {}
-----------------------------------------------------------------------------
(* What the repository says and the code does not do.                       *)

\* "Structured, named view of every final-round agent whose stance differs
\* from `recommendation`" (SynthesisMemo.dissenting_view).
DissentIsNamed ==
  phase = "done" /\ memo.real =>
    memo.view = Against(Spoke, memo.recommendation)
=============================================================================
