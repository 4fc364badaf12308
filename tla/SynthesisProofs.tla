---------------------------- MODULE SynthesisProofs ----------------------------
(***************************************************************************)
(* What a memo says of dissent, for every committee and every confidence:  *)
(* no opposing stance is left out, and the two accounts of dissent agree,  *)
(* on every path through synthesize().  And who carries the recommendation: *)
(* the voters of a consensus, the involved of a weighed conflict.          *)
(***************************************************************************)
EXTENDS Synthesis, FoldFacts, TLAPS

\* What the three properties ask of a memo m of the present outputs.
NamesDissent(m) ==
  IF m.real
  THEN Against(Spoke, m.recommendation) \subseteq m.view \cup m.echoed
  ELSE m.supporting = {} /\ m.appendix

AgreesOnDissent(m) ==
  m.real => m.dissenting \subseteq m.view /\ m.supporting \cap m.view = {}

ShowsConflict(m) ==
  \A a \in Confident(Buy), b \in Confident(Sell) :
    m.appendix /\ m.dissenting \cap {a, b} # {}

FairMemo(m) == NamesDissent(m) /\ AgreesOnDissent(m) /\ ShowsConflict(m)

\* The inductive invariant: after detect(), the record of the final round is
\* about agents that spoke and holds every confident conflict; a memo is fair.
Facts ==
  /\ 0 \notin Spoke
  /\ involved \subseteq Spoke
  /\ phase # "detecting" =>
       \A a \in Confident(Buy), b \in Confident(Sell) : {a, b} \subseteq involved
  /\ phase = "done" => FairMemo(memo)

LEMMA FactsInit == Init => Facts
BY DEF Init, Facts, Outputs, Agents, Spoke

\* A step that only writes a memo keeps the invariant if the memo is fair.
LEMMA DoneFacts ==
  ASSUME Facts, phase = "resolving", NEW m, Done(m), FairMemo(m)
  PROVE  Facts'
BY DEF Facts, Done, FairMemo, NamesDissent, AgreesOnDissent, ShowsConflict,
   Confident, Holders, Against, Spoke

LEMMA DetectFacts == Facts /\ Detect => Facts'
<1> SUFFICES ASSUME Facts, Detect PROVE Facts'
  OBVIOUS
<1>1. outputs' = outputs /\ phase' = "resolving" /\ 0 \notin Spoke
  BY DEF Detect, Facts
<1>2. involved' \subseteq Spoke
  BY DEF Detect, HighConfidenceConflict, Confident, Holders
<1>3. \A a \in Confident(Buy), b \in Confident(Sell) : {a, b} \subseteq involved'
  <2> SUFFICES ASSUME NEW a \in Confident(Buy), NEW b \in Confident(Sell)
               PROVE  {a, b} \subseteq involved'
    OBVIOUS
  <2>1. {a, b} \subseteq HighConfidenceConflict
    BY DEF HighConfidenceConflict
  <2>2. Spoke # {}
    BY DEF Confident, Holders
  <2> QED
    BY <2>1, <2>2 DEF Detect
<1> QED
  BY <1>1, <1>2, <1>3 DEF Facts, Confident, Holders, Spoke

\* No output, or no record: there is no conflict to show.
LEMMA ConsensusFacts == Facts /\ (NoOutput \/ Consensus) => Facts'
<1> SUFFICES ASSUME Facts, NoOutput \/ Consensus PROVE Facts'
  OBVIOUS
<1>1. CASE NoOutput
  <2> DEFINE m == [NoMemo EXCEPT !.appendix = TRUE]
  <2>1. FairMemo(m)
    BY <1>1 DEF NoOutput, NoMemo, FairMemo, NamesDissent, AgreesOnDissent,
       ShowsConflict, Confident, Holders
  <2> QED
    BY <1>1, <2>1, DoneFacts DEF NoOutput
<1>2. CASE Consensus
  <2>1. PICK winner, confidence :
          Done([recommendation |-> winner, confidence |-> confidence,
                real |-> TRUE, supporting |-> Holders(Voting, winner),
                dissenting |-> Against(Voting, winner),
                view |-> Against(Voting, winner), echoed |-> Echoed,
                appendix |-> FALSE])
    BY <1>2 DEF Consensus
  <2> DEFINE m == [recommendation |-> winner, confidence |-> confidence,
                   real |-> TRUE, supporting |-> Holders(Voting, winner),
                   dissenting |-> Against(Voting, winner),
                   view |-> Against(Voting, winner), echoed |-> Echoed,
                   appendix |-> FALSE]
  <2>2. NamesDissent(m)
    BY DEF NamesDissent, Against, Voting
  <2>3. AgreesOnDissent(m)
    BY DEF AgreesOnDissent, Against, Holders
  <2>4. ShowsConflict(m)
    BY <1>2 DEF ShowsConflict, Facts, Consensus
  <2> QED
    BY <1>2, <2>1, <2>2, <2>3, <2>4, DoneFacts DEF Consensus, FairMemo
<1> QED
  BY <1>1, <1>2

\* What a strategy writes that has a winner, whoever wins, whoever helped.
LEMMA ResolvedFacts ==
  ASSUME Facts, phase = "resolving",
         NEW winner, NEW confidence, NEW allies \in SUBSET {TieBreaker},
         Done(Resolved(winner, confidence, allies))
  PROVE  Facts'
<1> DEFINE m == Resolved(winner, confidence, allies)
<1>1. NamesDissent(m)
  BY DEF NamesDissent, Resolved, DissentingView
<1>2. AgreesOnDissent(m)
  BY DEF AgreesOnDissent, Resolved, DissentingView, Losers, Holders, Against,
     Facts, TieBreaker
<1>3. ShowsConflict(m)
  <2> SUFFICES ASSUME NEW a \in Confident(Buy), NEW b \in Confident(Sell)
               PROVE  Losers(winner) \cap {a, b} # {}
    BY DEF ShowsConflict, Resolved
  <2>1. outputs[a].stance = Buy /\ outputs[b].stance = Sell
    BY DEF Confident, Holders
  <2> QED
    BY <2>1, ConstantsAssumption DEF Facts, Losers, Against
<1> QED
  BY <1>1, <1>2, <1>3, DoneFacts DEF FairMemo

\* What flag_unresolved and an unaffordable tie-breaker write: no winner.
LEMMA FlaggedFacts ==
  ASSUME Facts, phase = "resolving", Done(Flagged)
  PROVE  Facts'
<1>1. FairMemo(Flagged)
  BY DEF FairMemo, NamesDissent, AgreesOnDissent, ShowsConflict, Flagged, Facts
<1> QED
  BY <1>1, DoneFacts

LEMMA FactsNext == Facts /\ [Next]_vars => Facts'
<1> SUFFICES ASSUME Facts, [Next]_vars PROVE Facts'
  OBVIOUS
<1>1. CASE Detect
  BY <1>1, DetectFacts
<1>2. CASE NoOutput \/ Consensus
  BY <1>2, ConsensusFacts
<1>3. CASE FlagUnresolved \/ Unaffordable
  BY <1>3, FlaggedFacts DEF FlagUnresolved, Unaffordable
<1>4. CASE WeighConfidence
  <2>1. PICK winner, share : Done(Resolved(winner, share, {}))
    BY <1>4 DEF WeighConfidence
  <2> QED
    BY <1>4, <2>1, ResolvedFacts DEF WeighConfidence
<1>5. CASE \E s \in Stances, c \in Confidences : BreakTie(s, c)
  BY <1>5, ResolvedFacts DEF BreakTie
<1>6. CASE TieBreakerFails \/ ResumeSynthesis \/ UNCHANGED vars
  BY <1>6 DEF TieBreakerFails, ResumeSynthesis, vars, Facts, FairMemo,
     NamesDissent, AgreesOnDissent, ShowsConflict, Confident, Holders, Against,
     Spoke
<1> QED
  BY <1>1, <1>2, <1>3, <1>4, <1>5, <1>6 DEF Next

LEMMA FactsHold == Spec => []Facts
BY FactsInit, FactsNext, PTL DEF Spec

\* No disagreement disappears from a memo, whatever the committee said,
\* whichever strategy resolves it and however often its tie-breaker fails.
THEOREM NoDissentErasedHolds == Spec => []NoDissentErased
<1>1. Facts => NoDissentErased
  BY DEF Facts, FairMemo, NamesDissent, NoDissentErased
<1> QED
  BY <1>1, FactsHold, PTL

\* Who lost the conflict is in the dissenting view, and nobody in that view
\* is said to support the recommendation.
THEOREM DissentAccountsAgreeHolds == Spec => []DissentAccountsAgree
<1>1. Facts => DissentAccountsAgree
  BY DEF Facts, FairMemo, AgreesOnDissent, DissentAccountsAgree
<1> QED
  BY <1>1, FactsHold, PTL

\* A confident Buy against a confident Sell shows as dissent in the memo.
THEOREM ConfidentConflictShowsHolds == Spec => []ConfidentConflictShows
<1>1. Facts => ConfidentConflictShows
  BY DEF Facts, FairMemo, ShowsConflict, ConfidentConflictShows, Confident,
     Holders, HIGH_CONFIDENCE_THRESHOLD
<1> QED
  BY <1>1, FactsHold, PTL

\* All dissent can be read off every memo, a confident conflict as such.
THEOREM DissentShowsHolds == Spec => []DissentShows
BY NoDissentErasedHolds, ConfidentConflictShowsHolds, PTL DEF DissentShows

-----------------------------------------------------------------------------
\* Types, and who decides.

\* A quotient of at most 100 rounds to at most 100.
LEMMA RoundedTyped ==
  ASSUME NEW n \in Nat, NEW d \in Nat \ {0}, n <= 100 * d
  PROVE  Rounded(n, d) \in 0..100
<1> DEFINE q == n \div d
           r == n % d
<1>1. q \in Int /\ d * q <= n /\ n < d * q + d
  BY Quotient
<1>2. r \in 0..d - 1 /\ r = n - d * q
  OBVIOUS
<1> HIDE DEF q, r
<1>3. q >= 0
  <2>1. ASSUME q <= -1 PROVE FALSE
    <3>1. d * q <= d * (-1)
      BY <1>1, <2>1
    <3> QED
      BY <1>1, <3>1
  <2> QED
    BY <1>1, <2>1
<1>4. q <= 100
  <2>1. ASSUME q >= 101 PROVE FALSE
    <3>1. d * 101 <= d * q
      BY <1>1, <2>1
    <3> QED
      BY <1>1, <3>1
  <2> QED
    BY <1>1, <2>1
<1>5. q = 100 => r = 0
  BY <1>1, <1>2
<1>6. Rounded(n, d) = IF 2 * r < d \/ (2 * r = d /\ q % 2 = 0) THEN q ELSE q + 1
  BY DEF Rounded, q, r
<1>7. CASE q = 100
  BY <1>5, <1>6, <1>7
<1>8. CASE q # 100
  BY <1>1, <1>3, <1>4, <1>6, <1>8
<1> QED
  BY <1>7, <1>8

LEMMA SpokeFacts ==
  ASSUME outputs \in Outputs
  PROVE  /\ Spoke \subseteq Agents /\ IsFiniteSet(Spoke)
         /\ \A a \in Spoke : /\ a \in Nat /\ outputs[a].stance \in Stances
                             /\ outputs[a].confidence \in 0..100
<1>1. PICK D \in SUBSET Agents : outputs \in [D -> Output]
  BY DEF Outputs
<1>2. IsFiniteSet(Agents) /\ Agents \subseteq Nat
  BY ConstantsAssumption, FS_Interval DEF Agents
<1>3. Spoke = D /\ IsFiniteSet(Spoke)
  BY <1>1, <1>2, FS_Subset DEF Spoke
<1> QED
  BY <1>1, <1>2, <1>3, ConstantsAssumption DEF Output

\* What somebody of S said leads, and nothing that was said in S outweighs it:
\* the choices in Leading have a result.
LEMMA LeadingIsVoiced ==
  ASSUME outputs \in Outputs, NEW S \in SUBSET Spoke, S # {},
         NEW weight, \A s \in Stances : weight[s] \in Int
  PROVE  \E a \in S : /\ Leading(S, weight) = outputs[a].stance
                      /\ \A b \in S : weight[outputs[b].stance]
                                        <= weight[Leading(S, weight)]
<1> DEFINE f == [a \in S |-> weight[outputs[a].stance]]
           leaders == {a \in S : \A b \in S :
                         weight[outputs[b].stance] <= weight[outputs[a].stance]}
<1>0. IsFiniteSet(S) /\ \A a \in S : a \in Nat /\ f[a] \in Int
  BY SpokeFacts, FS_Subset
<1>1. \E a \in S : \A b \in S : f[b] <= f[a]
  <2> HIDE DEF f
  <2> QED
    BY <1>0, HasGreatest
<1>2. leaders # {} /\ leaders \in SUBSET S
  BY <1>1
<1>3. \E a \in leaders : \A b \in leaders : a <= b
  <2> HIDE DEF leaders
  <2>1. IsFiniteSet(leaders) /\ leaders \in SUBSET Int
    BY <1>0, <1>2, FS_Subset
  <2> QED
    BY <1>2, <2>1, HasBounds
<1>4. PICK first \in leaders :
        first = CHOOSE a \in leaders : \A b \in leaders : a <= b
  BY <1>3
<1>5. Leading(S, weight) = outputs[CHOOSE a \in leaders : \A b \in leaders : a <= b].stance
  BY DEF Leading
<1>6. first \in S /\ \A b \in S : weight[outputs[b].stance]
                                    <= weight[outputs[first].stance]
  BY <1>4
<1> HIDE DEF leaders
<1> QED
  BY <1>4, <1>5, <1>6

LEMMA MajorityIsVoiced ==
  ASSUME outputs \in Outputs, NEW S \in SUBSET Spoke, S # {}
  PROVE  \E a \in S : /\ Majority(S) = outputs[a].stance
                      /\ \A b \in S : Voices(S)[outputs[b].stance]
                                        <= Voices(S)[Majority(S)]
<1>1. \A s \in Stances : Voices(S)[s] \in Int
  <2> SUFFICES ASSUME NEW s \in Stances PROVE Cardinality(Holders(S, s)) \in Nat
    BY DEF Voices
  <2>1. Holders(S, s) \in SUBSET Spoke
    BY DEF Holders
  <2> QED
    BY <2>1, SpokeFacts, FS_Subset, FS_CardinalityType
<1> QED
  BY <1>1, LeadingIsVoiced DEF Majority

\* A total of confidences is one of natural numbers of at most 100, and no
\* less than a part of it.
LEMMA TotalFacts ==
  ASSUME outputs \in Outputs, NEW S \in SUBSET Spoke, NEW R \in SUBSET S
  PROVE  /\ Total(S) \in Nat /\ Total(R) \in Nat /\ Total(R) <= Total(S)
         /\ Total(S) <= 100 * Cardinality(S)
<1> DEFINE f == [a \in S |-> outputs[a].confidence]
           g == [a \in R |-> outputs[a].confidence]
<1>1. IsFiniteSet(S) /\ IsFiniteSet(R)
  BY SpokeFacts, FS_Subset
<1>2. \A a \in S : f[a] \in Nat /\ f[a] \in Int /\ f[a] <= 100
  BY SpokeFacts
<1>3. \A a \in R : f[a] \in Int /\ g[a] = f[a]
  BY <1>2
<1>4. Total(S) = SumFunctionOnSet(f, S) /\ Total(R) = SumFunctionOnSet(g, R)
  BY DEF Total
<1> HIDE DEF f, g
<1>5. SumFunctionOnSet(g, R) = SumFunctionOnSet(f, R)
  BY <1>1, <1>3, SumSame
<1>6. /\ SumFunctionOnSet(f, R) \in Nat
      /\ SumFunctionOnSet(f, R) <= SumFunctionOnSet(f, S)
  BY <1>1, <1>2, SumOfPart
<1>7. SumFunctionOnSet(f, S) \in Nat
  BY <1>1, <1>2, SumOfPart, S \in SUBSET S
<1>8. SumFunctionOnSet(f, S) <= 100 * Cardinality(S)
  BY <1>1, <1>2, SumBounded
<1> QED
  BY <1>4, <1>5, <1>6, <1>7, <1>8

DecideInv == Facts /\ RecommendationIsCarried

\* What the invariant asks of a memo m of a conflict that was weighed.
Weighed(m) ==
  /\ m.supporting = Holders(involved, m.recommendation)
  /\ m.supporting # {}
  /\ \A a \in involved :
       Total(Holders(involved, outputs[a].stance)) <= Total(m.supporting)

\* A memo that a conflict resolution writes: only weighing it asks something of
\* the supporters.
LEMMA DoneDecides ==
  ASSUME DecideInv, involved # {}, NEW m \in Memo, Done(m),
         strategy = "confidence_weighted" => Weighed(m)
  PROVE  RecommendationIsCarried'
<1>1. outputs' = outputs /\ involved' = involved /\ strategy' = strategy /\ memo' = m
  BY DEF Done
<1>2. TypeOK' /\ ConsensusIsVoted'
  BY <1>1 DEF DecideInv, RecommendationIsCarried, TypeOK, Done, ConsensusIsVoted
<1>3. ConflictIsWeighed'
  BY <1>1 DEF ConflictIsWeighed, Weighed, Holders, Total
<1> QED
  BY <1>2, <1>3 DEF RecommendationIsCarried

LEMMA ResolvedTyped ==
  ASSUME DecideInv, NEW winner \in Stances, NEW confidence \in 0..100,
         NEW allies \in SUBSET {TieBreaker}
  PROVE  Resolved(winner, confidence, allies) \in Memo
<1>1. involved \subseteq Agents /\ Spoke \subseteq Agents
  BY SpokeFacts DEF DecideInv, RecommendationIsCarried, TypeOK
<1>2. Holders(involved, winner) \subseteq Agents /\ Losers(winner) \subseteq Agents
      /\ DissentingView(winner) \subseteq Agents
  BY <1>1 DEF Holders, Losers, Against, DissentingView
<1> QED
  BY <1>2 DEF Resolved, Memo

LEMMA FlaggedTyped == DecideInv => Flagged \in Memo
BY ConstantsAssumption DEF DecideInv, RecommendationIsCarried, TypeOK, Flagged, Memo

\* A consensus is that of the voters, and they hold it.
LEMMA ConsensusDecides ==
  ASSUME DecideInv, Consensus
  PROVE  RecommendationIsCarried'
<1> DEFINE winner == Majority(Voting)
           supporting == Holders(Voting, winner)
           against == Against(Voting, winner)
           confidence == Rounded(Total(supporting), Cardinality(supporting))
           m == [recommendation |-> winner, confidence |-> confidence,
                 real |-> TRUE, supporting |-> supporting,
                 dissenting |-> against, view |-> against, echoed |-> Echoed,
                 appendix |-> FALSE]
<1>1. outputs \in Outputs /\ strategy \in Strategies /\ involved \in SUBSET Agents
  BY DEF DecideInv, RecommendationIsCarried, TypeOK
<1>2. Done(m) /\ Spoke # {}
  BY DEF Consensus
<1>3. Voting \in SUBSET Spoke /\ Voting # {} /\ Echoed \subseteq Spoke
  BY <1>2 DEF Voting, Echoed
<1>4. PICK a \in Voting : /\ winner = outputs[a].stance
                          /\ \A b \in Voting : Voices(Voting)[outputs[b].stance]
                                                 <= Voices(Voting)[winner]
  <2> HIDE DEF winner
  <2> QED
    BY <1>1, <1>3, MajorityIsVoiced DEF winner
<1>5. winner \in Stances /\ a \in supporting /\ supporting \in SUBSET Voting
      /\ against \in SUBSET Voting
  BY <1>1, <1>3, <1>4, SpokeFacts DEF Holders, Against
<1>6. confidence \in 0..100
  <2> HIDE DEF winner, supporting
  <2>1. supporting \in SUBSET Spoke /\ supporting # {}
    BY <1>3, <1>5
  <2>2. IsFiniteSet(supporting)
    BY <1>1, <2>1, SpokeFacts, FS_Subset
  <2>3. Cardinality(supporting) \in Nat \ {0}
    BY <2>1, <2>2, FS_CardinalityType, FS_EmptySet
  <2>4. Total(supporting) \in Nat /\ Total(supporting) <= 100 * Cardinality(supporting)
    BY <1>1, <2>1, TotalFacts
  <2> QED
    BY <2>3, <2>4, RoundedTyped
<1>7. m \in Memo
  <2>1. Spoke \subseteq Agents
    BY <1>1, SpokeFacts
  <2> HIDE DEF winner, supporting, against, confidence
  <2> QED
    BY <2>1, <1>3, <1>5, <1>6 DEF Memo
<1>8. \A b \in Voting : Cardinality(Holders(Voting, outputs[b].stance))
                          <= Cardinality(supporting)
  <2>1. \A b \in Voting : outputs[b].stance \in Stances
    BY <1>1, <1>3, SpokeFacts
  <2> HIDE DEF winner
  <2> QED
    BY <1>4, <1>5, <2>1 DEF Voices
<1>9. supporting # {} /\ supporting = Holders(Voting, winner)
  BY <1>5
<1>10. m.supporting = supporting /\ m.recommendation = winner
  OBVIOUS
<1> HIDE DEF m, supporting, winner
<1>11. TypeOK'
  BY <1>1, <1>2, <1>7 DEF Done, TypeOK
<1>12. ConsensusIsVoted'
  <2>1. /\ memo' = m /\ outputs' = outputs /\ Spoke' = Spoke /\ Echoed' = Echoed
        /\ involved' = involved
    BY <1>2 DEF Done, Spoke, Echoed
  <2>2. ASSUME Spoke # Echoed
        PROVE  /\ supporting = Holders(Spoke \ Echoed, winner)
               /\ \A b \in Spoke \ Echoed :
                    Cardinality(Holders(Spoke \ Echoed, outputs[b].stance))
                      <= Cardinality(supporting)
    BY <1>8, <1>9, <2>2 DEF Voting
  <2> QED
    BY <1>9, <1>10, <2>1, <2>2 DEF ConsensusIsVoted, Holders
<1>13. ConflictIsWeighed'
  BY <1>2 DEF Consensus, Done, ConflictIsWeighed
<1> QED
  BY <1>11, <1>12, <1>13 DEF RecommendationIsCarried

\* The winner of a weighing has a share of all that was involved, and no
\* stance has a greater one.
LEMMA WeighedDecides ==
  ASSUME DecideInv, WeighConfidence
  PROVE  RecommendationIsCarried'
<1> DEFINE winner == Leading(involved, Weights)
           share == IF Total(involved) = 0 THEN 50
                    ELSE Rounded(100 * Weights[winner], Total(involved))
<1>1. outputs \in Outputs /\ involved \in SUBSET Spoke /\ involved # {}
  BY DEF DecideInv, RecommendationIsCarried, TypeOK, Facts, WeighConfidence
<1>2. \A s \in Stances : /\ Weights[s] \in Nat
                         /\ Weights[s] <= Total(involved)
                         /\ Total(involved) \in Nat
  <2> SUFFICES ASSUME NEW s \in Stances
               PROVE  /\ Total(Holders(involved, s)) \in Nat
                      /\ Total(Holders(involved, s)) <= Total(involved)
                      /\ Total(involved) \in Nat
    BY DEF Weights
  <2>1. Holders(involved, s) \in SUBSET involved
    BY DEF Holders
  <2> QED
    BY <1>1, <2>1, TotalFacts
<1>3. PICK a \in involved : /\ winner = outputs[a].stance /\ winner \in Stances
                            /\ \A b \in involved : Weights[outputs[b].stance]
                                                     <= Weights[winner]
  <2>1. \A s \in Stances : Weights[s] \in Int
    BY <1>2
  <2>2. PICK a \in involved : /\ winner = outputs[a].stance
                              /\ \A b \in involved : Weights[outputs[b].stance]
                                                       <= Weights[winner]
    BY <1>1, <2>1, LeadingIsVoiced
  <2> QED
    BY <1>1, <2>2, SpokeFacts
<1>4. share \in 0..100
  <2> HIDE DEF winner
  <2>1. /\ Weights[winner] \in Nat /\ Total(involved) \in Nat
        /\ Weights[winner] <= Total(involved)
    BY <1>2, <1>3
  <2>2. CASE Total(involved) # 0
    BY <2>1, <2>2, RoundedTyped
  <2> QED
    BY <2>2
<1>5. Done(Resolved(winner, share, {}))
  BY DEF WeighConfidence
<1> HIDE DEF winner, share
<1>6. Resolved(winner, share, {}) \in Memo
  BY <1>3, <1>4, ResolvedTyped
<1>7. Weighed(Resolved(winner, share, {}))
  <2>1. /\ Resolved(winner, share, {}).supporting = Holders(involved, winner)
        /\ Resolved(winner, share, {}).recommendation = winner
    BY DEF Resolved
  <2>2. a \in Holders(involved, winner)
    BY <1>3 DEF Holders
  <2>3. \A b \in involved : outputs[b].stance \in Stances
    BY <1>1, SpokeFacts
  <2>4. \A b \in involved : Total(Holders(involved, outputs[b].stance))
                              <= Total(Holders(involved, winner))
    BY <1>3, <2>3 DEF Weights
  <2> QED
    BY <2>1, <2>2, <2>4 DEF Weighed
<1> QED
  BY <1>1, <1>5, <1>6, <1>7, DoneDecides

LEMMA DetectDecides ==
  ASSUME DecideInv, Detect
  PROVE  RecommendationIsCarried'
<1>1. outputs \in Outputs /\ Spoke \subseteq Agents
  BY SpokeFacts DEF DecideInv, RecommendationIsCarried, TypeOK
<1>2. involved' \in SUBSET Agents
  BY <1>1 DEF Detect, HighConfidenceConflict, Confident, Holders
<1> QED
  BY <1>1, <1>2 DEF DecideInv, RecommendationIsCarried, TypeOK, Detect,
     ConsensusIsVoted, ConflictIsWeighed

LEMMA NoOutputDecides ==
  ASSUME DecideInv, NoOutput
  PROVE  RecommendationIsCarried'
<1> DEFINE m == [NoMemo EXCEPT !.appendix = TRUE]
<1>1. Done(m) /\ Spoke = {}
  BY DEF NoOutput
<1>2. m \in Memo
  <2>1. \A n \in Memo : [n EXCEPT !.appendix = TRUE] \in Memo
    BY DEF Memo
  <2>2. NoMemo \in Memo
    BY ConstantsAssumption DEF NoMemo, Memo
  <2> QED
    BY <2>1, <2>2
<1>3. Spoke' = {} /\ Echoed' = {} /\ involved' = {}
  <2>1. involved = {}
    BY <1>1 DEF DecideInv, Facts
  <2> QED
    BY <1>1, <2>1 DEF Done, Spoke, Echoed
<1> HIDE DEF m
<1>4. TypeOK'
  BY <1>1, <1>2 DEF DecideInv, RecommendationIsCarried, TypeOK, Done
<1> QED
  BY <1>3, <1>4 DEF RecommendationIsCarried, ConsensusIsVoted, ConflictIsWeighed

LEMMA DecideInvInit == Init => DecideInv
<1> SUFFICES ASSUME Init PROVE DecideInv
  OBVIOUS
<1>1. NoMemo \in Memo
  BY ConstantsAssumption DEF NoMemo, Memo
<1> QED
  BY <1>1, FactsInit DEF Init, DecideInv, RecommendationIsCarried, TypeOK,
     ConsensusIsVoted, ConflictIsWeighed

LEMMA DecideInvNext == DecideInv /\ [Next]_vars => DecideInv'
<1> SUFFICES ASSUME DecideInv, [Next]_vars PROVE DecideInv'
  OBVIOUS
<1>0. Facts'
  BY FactsNext DEF DecideInv
<1>1. CASE Detect
  BY <1>0, <1>1, DetectDecides DEF DecideInv
<1>2. CASE NoOutput
  BY <1>0, <1>2, NoOutputDecides DEF DecideInv
<1>3. CASE Consensus
  BY <1>0, <1>3, ConsensusDecides DEF DecideInv
<1>4. CASE FlagUnresolved \/ Unaffordable
  <2>1. involved # {} /\ strategy # "confidence_weighted" /\ Done(Flagged)
    BY <1>4 DEF FlagUnresolved, Unaffordable
  <2> QED
    BY <1>0, <2>1, FlaggedTyped, DoneDecides DEF DecideInv
<1>5. CASE WeighConfidence
  BY <1>0, <1>5, WeighedDecides DEF DecideInv
<1>6. CASE \E s \in Stances, c \in Confidences : BreakTie(s, c)
  <2>1. PICK s \in Stances, c \in Confidences : BreakTie(s, c)
    BY <1>6
  <2>2. /\ c \in 0..100 /\ involved # {} /\ strategy # "confidence_weighted"
        /\ Done(Resolved(s, c, {TieBreaker}))
    BY <2>1, ConstantsAssumption DEF BreakTie
  <2>3. Resolved(s, c, {TieBreaker}) \in Memo
    BY <2>2, ResolvedTyped
  <2> QED
    BY <1>0, <2>2, <2>3, DoneDecides DEF DecideInv
<1>7. CASE TieBreakerFails \/ ResumeSynthesis \/ UNCHANGED vars
  <2>1. CASE TieBreakerFails \/ ResumeSynthesis
    BY <1>0, <2>1 DEF TieBreakerFails, ResumeSynthesis, DecideInv, TypeOK,
       RecommendationIsCarried, ConsensusIsVoted, ConflictIsWeighed
  <2>2. CASE UNCHANGED vars
    <3>1. /\ outputs' = outputs /\ strategy' = strategy /\ phase' = phase
          /\ involved' = involved /\ memo' = memo
          /\ TypeOK /\ ConsensusIsVoted /\ ConflictIsWeighed
      BY <2>2 DEF vars, DecideInv, RecommendationIsCarried
    <3>2. TypeOK'
      BY <3>1 DEF TypeOK
    <3>3. ConsensusIsVoted'
      BY <3>1 DEF ConsensusIsVoted, Spoke, Echoed, Holders
    <3>4. ConflictIsWeighed'
      BY <3>1 DEF ConflictIsWeighed, Holders, Total
    <3> QED
      BY <1>0, <3>2, <3>3, <3>4 DEF DecideInv, RecommendationIsCarried
  <2> QED
    BY <1>7, <2>1, <2>2
<1> QED
  BY <1>1, <1>2, <1>3, <1>4, <1>5, <1>6, <1>7 DEF Next

\* A memo is well formed and its confidence a percentage; a consensus in which
\* somebody has something new to say is carried by a plurality of those who
\* are no echo; a weighed conflict by the greatest confidence of all who are
\* involved, echoes with them.  For every committee and every confidence.
THEOREM RecommendationIsCarriedHolds == Spec => []RecommendationIsCarried
<1>1. DecideInv => RecommendationIsCarried
  BY DEF DecideInv
<1> QED
  BY <1>1, DecideInvInit, DecideInvNext, PTL DEF Spec
=============================================================================
