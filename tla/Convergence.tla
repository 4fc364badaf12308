------------------------------ MODULE Convergence ------------------------------
(***************************************************************************)
(* How a debate decides between exploring and exploiting: each round's     *)
(* outputs are classified against all that was said before, scored, and    *)
(* scored again at the start of the next round, whose mode they decide     *)
(* (ExploreExploitController, convergence_classifier.py and the parts of   *)
(* _run_locked around them), by an execution or by one that resumes it.    *)
(*                                                                         *)
(* Abstracted: outputs are a stance and a set of evidence; the overlap of  *)
(* key factors and the spread of confidences are chosen with the outputs.  *)
(* Of all rounds but the last, only the evidence matters (older, heard).   *)
(* A debate may stop after any round.                                      *)
(***************************************************************************)
EXTENDS Integers, Sequences, FiniteSets

CONSTANTS
  NumAgents, NumRounds,
  Stances,
  Evidences,    \* the sets of evidence that occur in an output, normalized
  Figures,      \* <<factor overlap, confidence spread>> that occur, in percent
  Low, High,    \* low_threshold and high_threshold, in percent
  MaxResumes    \* bound: resumptions

ASSUME ConstantsAssumption ==
  /\ NumAgents \in Nat /\ NumRounds \in Nat /\ MaxResumes \in Nat
  /\ Low \in 0..100 /\ High \in Low..100
  /\ Figures \subseteq (0..100) \X (0..100)

VARIABLES
  round,       \* round_num
  phase,       \* where _run_locked stands: "between", "running", "saved"
  latest,      \* prior_round_outputs
  heard,       \* the evidence in all_prior_outputs, per stance
  mode,        \* of the running round
  rotation,    \* _explore_rotation_index
  directive,   \* the agent that has one for the coming round; 0: nobody
  trace,       \* the saved rounds: all but the last, the last, its record
  checkpoint,  \* last_completed_round; 0: none
  resumes,     \* bounded
  urged        \* history: the target per rotation; 0 if somebody was excluded

memory == <<round, phase, latest, heard, mode, rotation, directive>>
vars == <<memory, trace, checkpoint, resumes, urged>>
-----------------------------------------------------------------------------
Agents == 1..NumAgents
Modes == {"explore", "balanced", "exploit"}
Claims == [stance: Stances, evidence: Evidences]

\* A round's outputs (of the agents not excluded) and its two figures.
Rounds == UNION {[claims: [D -> Claims], figures: Figures] : D \in SUBSET Agents}
NoRound == [claims |-> <<>>, figures |-> <<0, 0>>]

Bodies == [Stances -> SUBSET UNION Evidences]   \* prior_evidence_by_stance
Nothing == [s \in Stances |-> {}]
NoTrace == [older |-> Nothing, last |-> NoRound, mode |-> "explore", echoes |-> {}]

TypeOK ==
  /\ round \in 1..NumRounds + 1
  /\ phase \in {"between", "running", "saved"}
  /\ latest \in Rounds \cup {NoRound}
  /\ heard \in Bodies
  /\ mode \in Modes
  /\ rotation \in 0..NumRounds
  /\ directive \in 0..NumAgents
  /\ trace \in [older: Bodies, last: Rounds \cup {NoRound}, mode: Modes,
                echoes: SUBSET Agents]
  /\ checkpoint \in 0..NumRounds
  /\ resumes \in 0..MaxResumes
  /\ urged \in Seq(0..NumAgents) /\ Len(urged) = rotation

Init ==
  /\ round = 1
  /\ phase = "between"
  /\ latest = NoRound
  /\ heard = Nothing
  /\ mode = "explore"
  /\ rotation = 0
  /\ directive = 0
  /\ trace = NoTrace
  /\ checkpoint = 0
  /\ resumes = 0
  /\ urged = <<>>
-----------------------------------------------------------------------------
Spoke(r) == DOMAIN r.claims
Holders(r, S, s) == {a \in S : r.claims[a].stance = s}

\* all_prior_outputs + a round's outputs.
Fold(body, r) ==
  [s \in Stances |->
     body[s] \cup UNION {r.claims[a].evidence : a \in Holders(r, Spoke(r), s)}]

\* classify_round(): who repeats a stance and adds nothing to its evidence.
Echoes(r, body) ==
  {a \in Spoke(r) : LET prior == body[r.claims[a].stance]
                    IN  prior # {} /\ r.claims[a].evidence \subseteq prior}

\* Mutant of Scored: echoes are outputs like any other.
ScoredAll(r, body) == Spoke(r)

Scored(r, body) == Spoke(r) \ Echoes(r, body)

\* The count of Counter.most_common(1), 0 for no output.
MajorityCount(r, S) ==
  CHOOSE n \in 0..Cardinality(S) :
    /\ \A s \in Stances : Cardinality(Holders(r, S, s)) <= n
    /\ n = 0 \/ \E s \in Stances : Cardinality(Holders(r, S, s)) = n

\* _factor_overlap() and _confidence_spread(): 0 for fewer than two outputs.
Overlap(r, S) == IF Cardinality(S) < 2 THEN 0 ELSE r.figures[1]
Spread(r) == IF Cardinality(Spoke(r)) < 2 THEN 0 ELSE r.figures[2]

\* score() and decide_mode(): half agreement, 0.3 overlap, 0.2 even
\* confidence, as a multiple of 1/(10000 * Scale).
Mode(r, body) ==
  LET S     == Scored(r, body)
      Scale == IF S = {} THEN 1 ELSE Cardinality(S)
      Score == 5000 * MajorityCount(r, S)
                 + Scale * (30 * Overlap(r, S) + 20 * (100 - Spread(r)))
  IN  IF Score < 100 * Low * Scale THEN "explore"
      ELSE IF Score > 100 * High * Scale THEN "exploit" ELSE "balanced"

\* Mutant of Target: the rotation stands still.
TargetFirst(r, i) == CHOOSE a \in Spoke(r) : \A b \in Spoke(r) : a <= b

\* agent_ids[i % len(agent_ids)]
Target(r, i) ==
  CHOOSE a \in Spoke(r) :
    Cardinality({b \in Spoke(r) : b < a}) = i % Cardinality(Spoke(r))
-----------------------------------------------------------------------------
MoreRounds == round <= NumRounds

\* Mutant of HeardNow: only the last round is remembered.
HeardLast == Fold(Nothing, latest)

HeardNow == Fold(heard, latest)

\* The round before is scored for its mode, then added to what was heard.
StartRound ==
  /\ phase = "between"
  /\ MoreRounds
  /\ mode' = IF round = 1 THEN "explore" ELSE Mode(latest, heard)
  /\ heard' = HeardNow
  /\ phase' = "running"
  /\ UNCHANGED <<round, latest, rotation, directive, trace, checkpoint, resumes, urged>>

\* Its outputs are scored for the record, and saved.
FinishRound(r) ==
  /\ phase = "running"
  /\ trace' = [older  |-> Fold(trace.older, trace.last),
               last   |-> r,
               mode   |-> Mode(r, heard),
               echoes |-> Echoes(r, heard)]
  /\ phase' = "saved"
  /\ UNCHANGED <<round, latest, heard, mode, rotation, directive, checkpoint, resumes, urged>>

Urges == mode = "explore" /\ Spoke(trace.last) # {}

\* save_checkpoint(), then build_directives() with the mode of this round.
SaveCheckpoint ==
  /\ phase = "saved"
  /\ checkpoint' = round
  /\ latest' = trace.last
  /\ directive' = IF Urges THEN Target(trace.last, rotation) ELSE 0
  /\ rotation' = IF Urges THEN rotation + 1 ELSE rotation
  /\ urged' = IF ~Urges THEN urged
              ELSE Append(urged, IF Spoke(trace.last) = Agents THEN directive' ELSE 0)
  /\ round' = round + 1
  /\ phase' = "between"
  /\ UNCHANGED <<heard, mode, trace, resumes>>

\* Mutant of Replayed: the last round is folded with the others.
ReplayedAll(t) == Fold(t.older, t.last)

\* all_prior_outputs of a resumed execution: all rounds but the last.
Replayed(t) == t.older

\* A crash at any step, and a resumption: of nothing without a checkpoint;
\* else after the checkpoint, even if the trace has one round more.
Resume ==
  /\ resumes < MaxResumes
  /\ resumes' = resumes + 1
  /\ trace' = IF checkpoint = 0 THEN NoTrace ELSE trace
  /\ round' = checkpoint + 1
  /\ latest' = trace'.last
  /\ heard' = Replayed(trace')
  /\ phase' = "between"
  /\ rotation' = 0
  /\ directive' = 0
  /\ urged' = <<>>
  /\ UNCHANGED <<mode, checkpoint>>

Next ==
  \/ StartRound
  \/ \E r \in Rounds : FinishRound(r)
  \/ SaveCheckpoint
  \/ Resume

Spec == Init /\ [][Next]_vars
-----------------------------------------------------------------------------
\* A round runs in the mode that the trace records as selected by the round
\* before it: scoring twice, with memories built in different ways, by
\* different processes, gives one answer ("mode is decided from the
\* *previous* round's computed convergence signal", _run_locked).
ModeFollowsRecord == phase = "running" /\ round > 1 => mode = trace.mode

\* An echo is one of anything said in any earlier saved round, however many
\* rounds and crashes ago ("an echo of something said two rounds ago is still
\* caught", classify_round): what is heard misses nothing of the trace.
NothingForgotten == trace.echoes = Echoes(trace.last, trace.older)

\* Echoes bring no exploitation about: it needs two agents that agreed and
\* are no echoes, and a round of nothing but echoes is followed by
\* exploration ("must not be able to manufacture a high convergence score",
\* score()).
ModeIsEarned ==
  phase = "running" /\ round > 1 =>
    LET fresh == Spoke(trace.last) \ trace.echoes
    IN  /\ mode = "exploit" =>
             \E a, b \in fresh :
               a # b /\ trace.last.claims[a].stance = trace.last.claims[b].stance
        /\ fresh = {} => mode = "explore"

\* The course of a debate, its types included.
CourseIsEarned == TypeOK /\ ModeIsEarned

\* While nobody is excluded, an agent is urged to argue against the majority
\* again only after all the others ("rotating round-robin by fixed registry
\* order", build_directives), however explore and other rounds alternate.
DirectivesRotate ==
  \A i, j \in DOMAIN urged :
    i < j /\ j < i + NumAgents /\ urged[i] # 0 => urged[i] # urged[j]
=============================================================================
