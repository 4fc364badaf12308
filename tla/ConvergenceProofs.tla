--------------------------- MODULE ConvergenceProofs ---------------------------
(***************************************************************************)
(* An execution's memory of the debate and the saved trace agree, for any  *)
(* committee, any number of rounds and of resumptions.  So a round is      *)
(* scored alike by whoever scores it, and what is heard is never less than *)
(* what was said.  Exploitation is earned by agreement, and the directives *)
(* rotate over the whole committee.                                        *)
(***************************************************************************)
EXTENDS Convergence, FoldFacts, TLAPS

\* What an execution remembers, as a part of the trace: prior_round_outputs
\* is folded into all_prior_outputs only when the next round starts, and a
\* resumption leaves it apart in the same way.
MemoryIsTrace ==
  /\ phase = "between" => latest = trace.last /\ heard = trace.older
  /\ phase = "running" => heard = Fold(trace.older, trace.last)
  /\ phase = "saved" => heard = trace.older

\* There is a record of a round in the trace.
Recorded == phase = "saved" \/ round > 1 \/ checkpoint # 0

\* The record is the score of the last round against those before it.
RecordIsScore == Recorded => trace.mode = Mode(trace.last, trace.older)

RunningMode == phase = "running" /\ round > 1 => mode = trace.mode

MemoryInv ==
  /\ phase \in {"between", "running", "saved"}
  /\ MemoryIsTrace
  /\ RecordIsScore
  /\ RunningMode
  /\ NothingForgotten

LEMMA MemoryInit == Init => MemoryInv
BY DEF Init, MemoryInv, MemoryIsTrace, RecordIsScore, Recorded, RunningMode,
   NothingForgotten, NoTrace, NoRound, Echoes, Spoke

LEMMA MemoryNext == MemoryInv /\ [Next]_vars => MemoryInv'
<1> SUFFICES ASSUME MemoryInv, [Next]_vars PROVE MemoryInv'
  OBVIOUS
<1> USE DEF MemoryInv, MemoryIsTrace, RecordIsScore, Recorded, RunningMode,
        NothingForgotten
<1>1. CASE StartRound
  BY <1>1 DEF StartRound, HeardNow
<1>2. ASSUME NEW r \in Rounds, FinishRound(r) PROVE MemoryInv'
  <2>1. /\ trace'.last = r /\ trace'.older = heard
        /\ trace'.mode = Mode(r, heard) /\ trace'.echoes = Echoes(r, heard)
        /\ phase' = "saved" /\ heard' = heard
    BY <1>2 DEF FinishRound
  <2> QED
    BY <2>1
<1>3. CASE SaveCheckpoint
  BY <1>3 DEF SaveCheckpoint
<1>4. CASE Resume
  <2>1. CASE checkpoint = 0
    <3>1. trace' = NoTrace /\ round' = 1 /\ checkpoint' = 0 /\ phase' = "between"
      BY <1>4, <2>1 DEF Resume
    <3>2. NothingForgotten'
      BY <3>1 DEF NoTrace, NoRound, Echoes, Spoke
    <3> QED
      BY <1>4, <3>1, <3>2 DEF Resume, Replayed
  <2>2. CASE checkpoint # 0
    BY <1>4, <2>2 DEF Resume, Replayed
  <2> QED
    BY <2>1, <2>2
<1>5. CASE UNCHANGED vars
  BY <1>5 DEF vars, memory
<1> QED
  BY <1>1, <1>2, <1>3, <1>4, <1>5 DEF Next

LEMMA MemoryHolds == Spec => []MemoryInv
BY MemoryInit, MemoryNext, PTL DEF Spec

\* Every round runs in the mode its predecessor's record selected, however
\* often and wherever the debate crashed.
THEOREM ModeFollowsRecordHolds == Spec => []ModeFollowsRecord
<1>1. MemoryInv => ModeFollowsRecord
  BY DEF MemoryInv, RunningMode, ModeFollowsRecord
<1> QED
  BY <1>1, MemoryHolds, PTL

\* The echoes in the record of a round are those of all that earlier saved
\* rounds said.
THEOREM NothingForgottenHolds == Spec => []NothingForgotten
<1>1. MemoryInv => NothingForgotten
  BY DEF MemoryInv
<1> QED
  BY <1>1, MemoryHolds, PTL

-----------------------------------------------------------------------------
\* What is in a round.

SomeRound == Rounds \cup {NoRound}

LEMMA RoundFacts ==
  ASSUME NEW r \in SomeRound
  PROVE  /\ Spoke(r) \in SUBSET Agents /\ IsFiniteSet(Spoke(r))
         /\ Spoke(r) \subseteq Nat
         /\ \A a \in Spoke(r) : r.claims[a] \in Claims
         /\ r.figures[1] \in 0..100 /\ r.figures[2] \in 0..100
<1>0. IsFiniteSet(Agents) /\ Agents \subseteq Nat
  BY ConstantsAssumption, FS_Interval DEF Agents
<1>1. CASE r = NoRound
  <2>1. r.claims = <<>> /\ r.figures = <<0, 0>>
    BY <1>1 DEF NoRound
  <2>2. Spoke(r) = {}
    BY <2>1 DEF Spoke
  <2> QED
    BY <2>1, <2>2, FS_EmptySet
<1>2. CASE r \in Rounds
  <2>1. PICK D \in SUBSET Agents : r \in [claims: [D -> Claims], figures: Figures]
    BY <1>2 DEF Rounds
  <2>2. Spoke(r) = D /\ r.claims \in [D -> Claims] /\ r.figures \in Figures
    BY <2>1 DEF Spoke
  <2>3. r.figures \in (0..100) \X (0..100)
    BY <2>2, ConstantsAssumption
  <2>4. IsFiniteSet(D)
    BY <1>0, FS_Subset
  <2> QED
    BY <1>0, <2>2, <2>3, <2>4
<1> QED
  BY <1>1, <1>2 DEF SomeRound

LEMMA FoldTyped ==
  ASSUME NEW body \in Bodies, NEW r \in SomeRound
  PROVE  Fold(body, r) \in Bodies
<1> SUFFICES ASSUME NEW s \in Stances, NEW a \in Holders(r, Spoke(r), s)
             PROVE  r.claims[a].evidence \subseteq UNION Evidences
  BY DEF Fold, Bodies
<1>1. r.claims[a] \in Claims
  BY RoundFacts DEF Holders
<1> QED
  BY <1>1 DEF Claims

-----------------------------------------------------------------------------
\* The target of a rotation.

\* Among finitely many numbers, each count of smaller ones below their number
\* is somebody's.
LEMMA EveryRank ==
  ASSUME NEW S \in SUBSET Nat, IsFiniteSet(S), NEW k \in Nat, k < Cardinality(S)
  PROVE  \E a \in S : Cardinality({b \in S : b < a}) = k
<1> DEFINE Below(T, a) == {b \in T : b < a}
           Good == {T \in SUBSET S :
                      k < Cardinality(T) => \E a \in T : Cardinality(Below(T, a)) = k}
<1>1. ASSUME NEW T \in SUBSET S, \A x \in T : T \ {x} \in Good PROVE T \in Good
  <2>1. SUFFICES ASSUME k < Cardinality(T)
                 PROVE  \E a \in T : Cardinality(Below(T, a)) = k
    OBVIOUS
  <2>2. IsFiniteSet(T) /\ Cardinality(T) \in Nat /\ T # {} /\ T \in SUBSET Int
    <3>0. T \in SUBSET S /\ S \in SUBSET Nat
      OBVIOUS
    <3>1. IsFiniteSet(T) /\ T \in SUBSET Int
      <4> HIDE DEF Good
      <4>1. T \in SUBSET Int
        BY <3>0
      <4>2. IsFiniteSet(T)
        BY <3>0, FS_Subset
      <4> QED
        BY <4>1, <4>2
    <3>2. Cardinality(T) \in Nat
      BY <3>1, FS_CardinalityType
    <3>3. T # {}
      BY <2>1, <3>2, FS_EmptySet
    <3> QED
      BY <3>1, <3>2, <3>3
  <2>3. PICK m \in T : \A b \in T : b <= m
    BY <2>2, HasBounds
  <2>4. Cardinality(T \ {m}) = Cardinality(T) - 1
    BY <2>2, FS_RemoveElement
  <2>5. CASE k = Cardinality(T) - 1
    <3>1. Below(T, m) = T \ {m}
      <4>1. ASSUME NEW b \in T PROVE b < m <=> b # m
        <5>1. b \in Int /\ m \in Int /\ b <= m
          BY <2>2, <2>3
        <5> QED
          BY <5>1
      <4> QED
        BY <4>1
    <3> QED
      BY <2>4, <2>5, <3>1
  <2>6. CASE k # Cardinality(T) - 1
    <3>1. PICK a \in T \ {m} : Cardinality(Below(T \ {m}, a)) = k
      <4>1. k < Cardinality(T \ {m})
        <5>1. Cardinality(T) \in Int /\ k < Cardinality(T)
          BY <2>1, <2>2
        <5> QED
          BY <5>1, <2>4, <2>6
      <4>2. T \ {m} \in Good
        BY <1>1
      <4> QED
        BY <4>1, <4>2
    <3>2. Below(T \ {m}, a) = Below(T, a)
      BY <2>2, <2>3, <3>1
    <3> QED
      BY <3>1, <3>2
  <2> QED
    BY <2>5, <2>6
<1>2. S \in Good
  <2> HIDE DEF Good
  <2> QED
    BY <1>1, SubsetInduction
<1> QED
  BY <1>2

LEMMA TargetTyped ==
  ASSUME NEW r \in SomeRound, NEW i \in Nat, Spoke(r) # {}
  PROVE  Target(r, i) \in 0..NumAgents
<1> DEFINE S == Spoke(r)
           n == Cardinality(S)
           k == i % n
<1>1. S \in SUBSET Agents /\ IsFiniteSet(S) /\ S \subseteq Nat
  BY RoundFacts
<1>2. n \in Nat \ {0}
  BY <1>1, FS_CardinalityType, FS_EmptySet
<1>3. k \in Nat /\ k < n
  <2> HIDE DEF n
  <2> QED
    BY <1>2
<1>4. \E a \in S : Cardinality({b \in S : b < a}) = k
  <2> HIDE DEF S, k
  <2> QED
    BY <1>1, <1>3, EveryRank
<1>5. Target(r, i) \in S
  BY <1>4 DEF Target
<1> QED
  BY <1>1, <1>5, ConstantsAssumption DEF Agents

\* If nobody is excluded, the target counts through the agents.
LEMMA TargetOfAll ==
  ASSUME NEW r, Spoke(r) = Agents, Agents # {}, NEW i \in Nat
  PROVE  Target(r, i) = (i % NumAgents) + 1
<1>1. NumAgents \in Nat \ {0} /\ Agents = 1..NumAgents
  BY ConstantsAssumption DEF Agents
<1>2. \A a \in Agents : Cardinality({b \in Agents : b < a}) = a - 1
  <2> SUFFICES ASSUME NEW a \in Agents
               PROVE  Cardinality({b \in Agents : b < a}) = a - 1
    OBVIOUS
  <2>1. a \in 1..NumAgents /\ {b \in Agents : b < a} = 1..(a - 1)
    BY <1>1
  <2>2. Cardinality(1..(a - 1)) = a - 1
    BY <1>1, <2>1, FS_Interval
  <2> QED
    BY <2>1, <2>2
<1>3. Cardinality(Agents) = NumAgents
  BY <1>1, FS_Interval
<1> DEFINE k == i % NumAgents
<1>4. k \in 0..NumAgents - 1
  BY <1>1
<1> HIDE DEF k
<1>5. k + 1 \in Agents
  BY <1>1, <1>4
<1>6. (CHOOSE a \in Agents : Cardinality({b \in Agents : b < a}) = k) = k + 1
  <2>1. ASSUME NEW a \in Agents
        PROVE  Cardinality({b \in Agents : b < a}) = k <=> a = k + 1
    <3>1. Cardinality({b \in Agents : b < a}) = a - 1
      BY <1>2
    <3>2. a \in Int /\ k \in Int
      BY <1>1, <1>4
    <3> QED
      BY <3>1, <3>2
  <2> QED
    BY <1>5, <2>1
<1> QED
  BY <1>3, <1>6 DEF Target, k

\* Numbers less than n apart leave different remainders.
LEMMA RemaindersDiffer ==
  ASSUME NEW n \in Nat \ {0}, NEW i \in Nat, NEW j \in Nat, i < j, j < i + n
  PROVE  i % n # j % n
<1>1. SUFFICES ASSUME i % n = j % n PROVE FALSE
  OBVIOUS
<1> DEFINE p == i \div n
           q == j \div n
<1>2. p \in Int /\ q \in Int /\ i % n = i - n * p /\ j % n = j - n * q
  OBVIOUS
<1> HIDE DEF p, q
<1>3. j - i = n * (q - p)
  BY <1>1, <1>2
<1>4. CASE q - p <= 0
  <2>1. n * (q - p) <= n * 0
    BY <1>2, <1>4
  <2> QED
    BY <1>3, <2>1
<1>5. CASE q - p >= 1
  <2>1. n * 1 <= n * (q - p)
    BY <1>2, <1>5
  <2> QED
    BY <1>3, <2>1
<1> QED
  BY <1>2, <1>4, <1>5

-----------------------------------------------------------------------------
\* The score, and what it takes to exploit.

LEMMA MajorityCountFacts ==
  ASSUME NEW r, NEW S, IsFiniteSet(S)
  PROVE  /\ MajorityCount(r, S) \in 0..Cardinality(S)
         /\ \/ MajorityCount(r, S) = 0
            \/ \E s \in Stances : Cardinality(Holders(r, S, s)) = MajorityCount(r, S)
<1> DEFINE Count(s) == Cardinality(Holders(r, S, s))
           counts == {Count(s) : s \in Stances}
           Fits(n) == /\ \A s \in Stances : Count(s) <= n
                      /\ n = 0 \/ \E s \in Stances : Count(s) = n
<1>1. Cardinality(S) \in Nat
  BY FS_CardinalityType
<1>2. \A s \in Stances : Count(s) \in 0..Cardinality(S)
  <2> SUFFICES ASSUME NEW s \in Stances PROVE Count(s) \in 0..Cardinality(S)
    OBVIOUS
  <2>1. Holders(r, S, s) \in SUBSET S
    BY DEF Holders
  <2>2. IsFiniteSet(Holders(r, S, s)) /\ Count(s) <= Cardinality(S)
    BY <2>1, FS_Subset
  <2>3. Count(s) \in Nat
    BY <2>2, FS_CardinalityType
  <2> QED
    BY <1>1, <2>2, <2>3
<1>3. \E n \in 0..Cardinality(S) : Fits(n)
  <2>1. CASE Stances = {}
    BY <1>1, <2>1
  <2>2. CASE Stances # {}
    <3>1. counts # {} /\ counts \in SUBSET (0..Cardinality(S))
      BY <1>2, <2>2
    <3>2. counts \in SUBSET Int /\ IsFiniteSet(counts)
      <4> HIDE DEF counts
      <4> DEFINE D == 0..Cardinality(S)
      <4>1. IsFiniteSet(D) /\ D \in SUBSET Int /\ counts \in SUBSET D
        BY <3>1, <1>1, FS_Interval
      <4> HIDE DEF D
      <4>2. IsFiniteSet(counts)
        BY <4>1, FS_Subset
      <4> QED
        BY <4>1, <4>2
    <3>3. PICK n \in counts : \A c \in counts : c <= n
      <4> HIDE DEF counts
      <4> QED
        BY <3>1, <3>2, HasBounds
    <3>4. Fits(n) /\ n \in 0..Cardinality(S)
      BY <3>1, <3>3
    <3> QED
      BY <3>4
  <2> QED
    BY <2>1, <2>2
<1>4. MajorityCount(r, S) = CHOOSE n \in 0..Cardinality(S) : Fits(n)
  BY DEF MajorityCount
<1>5. MajorityCount(r, S) \in 0..Cardinality(S) /\ Fits(MajorityCount(r, S))
  <2> HIDE DEF Fits
  <2> QED
    BY <1>3, <1>4
<1> QED
  BY <1>5

\* A majority of two or more is two that agree.
LEMMA TwoAgree ==
  ASSUME NEW r, NEW S, IsFiniteSet(S), MajorityCount(r, S) >= 2
  PROVE  \E a, b \in S : a # b /\ r.claims[a].stance = r.claims[b].stance
<1>1. PICK s \in Stances : Cardinality(Holders(r, S, s)) = MajorityCount(r, S)
  BY MajorityCountFacts
<1> DEFINE H == Holders(r, S, s)
<1>2. H \in SUBSET S /\ IsFiniteSet(H)
  BY FS_Subset DEF Holders
<1>3. Cardinality(H) \in Nat /\ Cardinality(H) >= 2
  BY <1>1, <1>2, FS_CardinalityType
<1>4. H # {}
  BY <1>3, FS_EmptySet
<1>5. PICK a \in H : TRUE
  BY <1>4
<1>6. Cardinality(H \ {a}) = Cardinality(H) - 1 /\ IsFiniteSet(H \ {a})
  BY <1>2, FS_RemoveElement
<1>7. H \ {a} # {}
  BY <1>3, <1>6, FS_EmptySet
<1>8. PICK b \in H \ {a} : TRUE
  BY <1>7
<1> QED
  BY <1>5, <1>8 DEF Holders

\* Thresholds that agreement alone can pass: without two agents of one stance a score is
\* at most 75, and that of echoes alone at most 20.  The defaults are 40 and 75.
Demanding == Low > 20 /\ High >= 75

\* The score of n outputs, mc of them of one stance.
Points(mc, n, ov, sp) == 5000 * mc + n * (30 * ov + 20 * (100 - sp))

\* Without two that agree, the score stays below the high threshold.
LEMMA ScoreOfNoMajority ==
  ASSUME Demanding, NEW mc \in 0..1, NEW n \in Nat \ {0},
         NEW ov \in 0..100, NEW sp \in 0..100, n = 1 => ov = 0
  PROVE  Points(mc, n, ov, sp) <= 100 * High * n
<1> DEFINE w == 30 * ov + 20 * (100 - sp)
<1>0. Points(mc, n, ov, sp) = 5000 * mc + n * w
  BY DEF Points
<1>1. w \in Int /\ w <= 5000 /\ (n = 1 => w <= 2000)
  OBVIOUS
<1>2. High \in Int /\ 7500 <= 100 * High
  BY ConstantsAssumption DEF Demanding
<1> HIDE DEF w
<1>3. n * w <= n * 5000
  BY <1>1
<1>4. n * 7500 <= n * (100 * High)
  BY <1>2
<1>5. n * (100 * High) = 100 * High * n
  BY <1>2
<1>6. CASE n = 1
  BY <1>0, <1>1, <1>2, <1>4, <1>5, <1>6
<1>7. CASE n >= 2
  <2>1. 5000 * mc <= 5000 /\ n * 5000 + 5000 <= n * 7500
    BY <1>7
  <2> QED
    BY <1>0, <1>1, <1>2, <1>3, <1>4, <1>5, <2>1
<1>8. n = 1 \/ n >= 2
  OBVIOUS
<1> QED
  BY <1>6, <1>7, <1>8

LEMMA ModeEarned ==
  ASSUME Demanding, NEW r \in SomeRound, NEW body
  PROVE  /\ Mode(r, body) = "exploit" =>
              \E a, b \in Scored(r, body) :
                a # b /\ r.claims[a].stance = r.claims[b].stance
         /\ Scored(r, body) = {} => Mode(r, body) = "explore"
<1> DEFINE S == Scored(r, body)
           n == IF S = {} THEN 1 ELSE Cardinality(S)
           mc == MajorityCount(r, S)
           ov == Overlap(r, S)
           sp == Spread(r)
           score == Points(mc, n, ov, sp)
<1>1. Mode(r, body) = IF score < 100 * Low * n THEN "explore"
                      ELSE IF score > 100 * High * n THEN "exploit" ELSE "balanced"
  BY DEF Mode, Points
<1>2. IsFiniteSet(S)
  BY RoundFacts, FS_Subset DEF Scored
<1> HIDE DEF S
<1>3. Cardinality(S) \in Nat /\ (S = {} <=> Cardinality(S) = 0)
  BY <1>2, FS_CardinalityType, FS_EmptySet
<1>4. n \in Nat \ {0} /\ (S # {} => n = Cardinality(S)) /\ (S = {} => n = 1)
  BY <1>3
<1>5. mc \in 0..Cardinality(S)
  BY <1>2, MajorityCountFacts
<1>6. ov \in 0..100 /\ (Cardinality(S) < 2 => ov = 0)
  BY RoundFacts DEF Overlap
<1>7. sp \in 0..100
  BY RoundFacts DEF Spread
<1>8. mc >= 2 => \E a, b \in S : a # b /\ r.claims[a].stance = r.claims[b].stance
  BY <1>2, TwoAgree
<1> HIDE DEF n, mc, ov, sp
<1>9. ASSUME mc < 2 PROVE Mode(r, body) # "exploit"
  <2>1. mc \in 0..1 /\ (n = 1 => ov = 0)
    BY <1>3, <1>4, <1>5, <1>6, <1>9
  <2>2. score <= 100 * High * n
    BY <1>4, <1>6, <1>7, <2>1, ScoreOfNoMajority
  <2>3. score \in Int /\ 100 * High * n \in Int
    BY <1>4, <1>6, <1>7, <2>1, ConstantsAssumption DEF Points
  <2> HIDE DEF score
  <2> QED
    BY <1>1, <2>2, <2>3
<1>10. ASSUME S = {} PROVE Mode(r, body) = "explore"
  <2>1. n = 1 /\ mc = 0 /\ ov = 0
    BY <1>3, <1>4, <1>5, <1>6, <1>10
  <2>2. score < 100 * Low * n
    BY <1>7, <2>1, ConstantsAssumption DEF Demanding, Points
  <2> HIDE DEF score
  <2> QED
    BY <1>1, <2>2
<1>11. mc \in Int
  BY <1>3, <1>5
<1> QED
  BY <1>8, <1>9, <1>10, <1>11 DEF S

-----------------------------------------------------------------------------
\* The course of a debate.

\* A directive goes to the agent whose turn it is.
Rotates == \A k \in 1..rotation : urged[k] \in {0, ((k - 1) % NumAgents) + 1}

CourseInv ==
  /\ TypeOK
  /\ MemoryInv
  /\ rotation < round
  /\ phase # "between" => round <= NumRounds
  /\ Rotates

LEMMA ModeTyped == \A r, body : Mode(r, body) \in Modes
BY DEF Mode, Modes

LEMMA NothingTyped == Nothing \in Bodies
BY DEF Nothing, Bodies

LEMMA EchoesTyped == \A r \in SomeRound : \A body : Echoes(r, body) \subseteq Agents
BY RoundFacts DEF Echoes

LEMMA CourseInvInit == Init => CourseInv
<1> SUFFICES ASSUME Init PROVE CourseInv
  OBVIOUS
<1>1. NoTrace \in [older: Bodies, last: SomeRound, mode: Modes, echoes: SUBSET Agents]
  BY NothingTyped DEF NoTrace, SomeRound, Modes
<1>2. TypeOK
  BY <1>1, NothingTyped, ConstantsAssumption DEF Init, TypeOK, SomeRound, Modes
<1>3. Rotates
  BY DEF Init, Rotates
<1> QED
  BY <1>2, <1>3, MemoryInit DEF Init, CourseInv

LEMMA CourseOfStart ==
  ASSUME CourseInv, StartRound, MemoryInv'
  PROVE  CourseInv'
<1>1. /\ phase' = "running" /\ round <= NumRounds
      /\ heard' = Fold(heard, latest)
      /\ mode' = IF round = 1 THEN "explore" ELSE Mode(latest, heard)
      /\ UNCHANGED <<round, latest, rotation, directive, trace, checkpoint, resumes, urged>>
  BY DEF StartRound, MoreRounds, HeardNow
<1>2. heard' \in Bodies
  BY <1>1, FoldTyped DEF CourseInv, TypeOK, SomeRound
<1>3. mode' \in Modes
  BY <1>1, ModeTyped DEF Modes
<1>4. TypeOK'
  BY <1>1, <1>2, <1>3 DEF CourseInv, TypeOK
<1> QED
  BY <1>1, <1>4 DEF CourseInv, Rotates

LEMMA CourseOfFinish ==
  ASSUME CourseInv, NEW r \in Rounds, FinishRound(r), MemoryInv'
  PROVE  CourseInv'
<1>1. /\ phase = "running" /\ phase' = "saved"
      /\ trace' = [older |-> Fold(trace.older, trace.last), last |-> r,
                   mode |-> Mode(r, heard), echoes |-> Echoes(r, heard)]
      /\ UNCHANGED <<round, latest, heard, mode, rotation, directive, checkpoint,
                     resumes, urged>>
  BY DEF FinishRound
<1>2. trace' \in [older: Bodies, last: SomeRound, mode: Modes, echoes: SUBSET Agents]
  <2>1. trace.older \in Bodies /\ trace.last \in SomeRound
    BY DEF CourseInv, TypeOK, SomeRound
  <2>2. Fold(trace.older, trace.last) \in Bodies
    BY <2>1, FoldTyped
  <2>3. r \in SomeRound
    BY DEF SomeRound
  <2> QED
    BY <1>1, <2>2, <2>3, ModeTyped, EchoesTyped
<1>3. TypeOK'
  BY <1>1, <1>2 DEF CourseInv, TypeOK, SomeRound
<1> QED
  BY <1>1, <1>3 DEF CourseInv, Rotates

LEMMA CourseOfCheckpoint ==
  ASSUME CourseInv, SaveCheckpoint, MemoryInv'
  PROVE  CourseInv'
<1> DEFINE last == trace.last
           entry == IF Spoke(last) = Agents THEN directive' ELSE 0
<1>1. /\ phase = "saved" /\ checkpoint' = round /\ latest' = last
      /\ directive' = IF Urges THEN Target(last, rotation) ELSE 0
      /\ rotation' = IF Urges THEN rotation + 1 ELSE rotation
      /\ urged' = IF ~Urges THEN urged ELSE Append(urged, entry)
      /\ round' = round + 1 /\ phase' = "between"
      /\ UNCHANGED <<heard, mode, trace, resumes>>
  BY DEF SaveCheckpoint
<1>2. /\ round \in 1..NumRounds /\ rotation \in Nat /\ rotation < round
      /\ rotation < NumRounds /\ NumRounds \in Nat /\ last \in SomeRound
      /\ urged \in Seq(0..NumAgents) /\ Len(urged) = rotation /\ NumAgents \in Nat
  BY <1>1, ConstantsAssumption DEF CourseInv, TypeOK, SomeRound
<1>3. directive' \in 0..NumAgents
  BY <1>1, <1>2, TargetTyped DEF Urges
<1>4. entry \in 0..NumAgents
  BY <1>2, <1>3
<1>5. /\ rotation' \in 0..NumRounds /\ rotation' < round'
      /\ urged' \in Seq(0..NumAgents) /\ Len(urged') = rotation'
  <2> HIDE DEF entry
  <2>1. CASE Urges
    BY <1>1, <1>2, <1>4, <2>1
  <2>2. CASE ~Urges
    BY <1>1, <1>2, <2>2
  <2> QED
    BY <2>1, <2>2
<1>6. TypeOK'
  BY <1>1, <1>2, <1>3, <1>5 DEF CourseInv, TypeOK, SomeRound
<1>7. Rotates'
  <2>1. CASE ~Urges
    BY <1>1, <2>1 DEF CourseInv, Rotates
  <2>2. CASE Urges
    <3>1. /\ rotation' = rotation + 1 /\ urged' = Append(urged, entry)
          /\ directive' = Target(last, rotation) /\ Spoke(last) # {}
      BY <1>1, <2>2 DEF Urges
    <3>2. entry \in {0, (rotation % NumAgents) + 1}
      <4>1. CASE Spoke(last) = Agents
        BY <1>2, <3>1, <4>1, TargetOfAll
      <4> QED
        BY <4>1
    <3>3. ASSUME NEW k \in 1..rotation + 1
          PROVE  urged'[k] \in {0, ((k - 1) % NumAgents) + 1}
      <4> HIDE DEF entry
      <4>1. CASE k = rotation + 1
        <5>1. urged'[k] = entry /\ k - 1 = rotation
          BY <1>2, <1>4, <3>1, <4>1
        <5> QED
          BY <3>2, <5>1
      <4>2. CASE k # rotation + 1
        <5>1. k \in 1..rotation /\ urged'[k] = urged[k]
          BY <1>2, <1>4, <3>1, <4>2
        <5> QED
          BY <5>1 DEF CourseInv, Rotates
      <4> QED
        BY <4>1, <4>2
    <3> QED
      BY <3>1, <3>3 DEF Rotates
  <2> QED
    BY <2>1, <2>2
<1> QED
  BY <1>1, <1>5, <1>6, <1>7 DEF CourseInv

LEMMA CourseOfResume ==
  ASSUME CourseInv, Resume, MemoryInv'
  PROVE  CourseInv'
<1>1. /\ resumes < MaxResumes /\ resumes' = resumes + 1
      /\ trace' = IF checkpoint = 0 THEN NoTrace ELSE trace
      /\ round' = checkpoint + 1 /\ latest' = trace'.last /\ heard' = trace'.older
      /\ phase' = "between" /\ rotation' = 0 /\ directive' = 0 /\ urged' = <<>>
      /\ UNCHANGED <<mode, checkpoint>>
  BY DEF Resume, Replayed
<1>2. trace' \in [older: Bodies, last: SomeRound, mode: Modes, echoes: SUBSET Agents]
  BY <1>1, NothingTyped DEF CourseInv, TypeOK, NoTrace, SomeRound, Modes
<1>3. TypeOK'
  <2>1. round' \in 1..NumRounds + 1 /\ resumes' \in 0..MaxResumes
    BY <1>1, ConstantsAssumption DEF CourseInv, TypeOK
  <2>2. latest' \in SomeRound /\ heard' \in Bodies
    BY <1>1, <1>2
  <2>3. mode' \in Modes /\ checkpoint' \in 0..NumRounds
    BY <1>1 DEF CourseInv, TypeOK
  <2> QED
    BY <1>1, <1>2, <2>1, <2>2, <2>3, ConstantsAssumption DEF TypeOK, SomeRound
<1>4. rotation' < round' /\ Rotates'
  BY <1>1, ConstantsAssumption DEF CourseInv, TypeOK, Rotates
<1> QED
  BY <1>1, <1>3, <1>4 DEF CourseInv

LEMMA CourseInvNext == CourseInv /\ [Next]_vars => CourseInv'
<1> SUFFICES ASSUME CourseInv, [Next]_vars PROVE CourseInv'
  OBVIOUS
<1>0. MemoryInv'
  BY MemoryNext DEF CourseInv
<1>1. CASE StartRound
  BY <1>0, <1>1, CourseOfStart
<1>2. CASE \E r \in Rounds : FinishRound(r)
  BY <1>0, <1>2, CourseOfFinish
<1>3. CASE SaveCheckpoint
  BY <1>0, <1>3, CourseOfCheckpoint
<1>4. CASE Resume
  BY <1>0, <1>4, CourseOfResume
<1>5. CASE UNCHANGED vars
  BY <1>0, <1>5 DEF vars, memory, CourseInv, TypeOK, Rotates
<1> QED
  BY <1>1, <1>2, <1>3, <1>4, <1>5 DEF Next

LEMMA CourseHolds == Spec => []CourseInv
BY CourseInvInit, CourseInvNext, PTL DEF Spec

\* No exploitation without two agents that agree and have something new to say,
\* and exploration after a round without any, whatever was said, whenever the
\* debate crashed, for thresholds that are demanding.
THEOREM CourseIsEarnedHolds == Demanding => (Spec => []CourseIsEarned)
<1> SUFFICES ASSUME Demanding PROVE Spec => []CourseIsEarned
  OBVIOUS
<1>1. CourseInv => CourseIsEarned
  <2> SUFFICES ASSUME CourseInv, phase = "running", round > 1
               PROVE  LET fresh == Spoke(trace.last) \ trace.echoes
                      IN  /\ mode = "exploit" =>
                               \E a, b \in fresh :
                                 /\ a # b
                                 /\ trace.last.claims[a].stance = trace.last.claims[b].stance
                          /\ fresh = {} => mode = "explore"
    BY DEF CourseInv, CourseIsEarned, ModeIsEarned
  <2>1. trace.last \in SomeRound
    BY DEF CourseInv, TypeOK, SomeRound
  <2>2. /\ mode = Mode(trace.last, trace.older)
        /\ trace.echoes = Echoes(trace.last, trace.older)
    BY DEF CourseInv, MemoryInv, RunningMode, RecordIsScore, Recorded, NothingForgotten
  <2> QED
    BY <2>1, <2>2, ModeEarned DEF Scored
<1> QED
  BY <1>1, CourseHolds, PTL

\* As long as nobody is excluded, nobody is urged again before all the others.
THEOREM DirectivesRotateHolds == Spec => []DirectivesRotate
<1>1. CourseInv => DirectivesRotate
  <2> SUFFICES ASSUME CourseInv, NEW i \in DOMAIN urged, NEW j \in DOMAIN urged,
                      i < j, j < i + NumAgents, urged[i] # 0
               PROVE  urged[i] # urged[j]
    BY DEF DirectivesRotate
  <2>1. /\ DOMAIN urged = 1..rotation /\ rotation \in Nat
    BY ConstantsAssumption DEF CourseInv, TypeOK
  <2>2. i \in 1..rotation /\ j \in 1..rotation /\ NumAgents \in Nat \ {0}
    BY <2>1, ConstantsAssumption
  <2>3. urged[i] = ((i - 1) % NumAgents) + 1 /\ urged[j] \in {0, ((j - 1) % NumAgents) + 1}
    BY <2>2 DEF CourseInv, Rotates
  <2>4. (i - 1) % NumAgents # (j - 1) % NumAgents
    <3>1. i - 1 \in Nat /\ j - 1 \in Nat /\ i - 1 < j - 1 /\ j - 1 < i - 1 + NumAgents
      BY <2>1, <2>2
    <3> QED
      BY <2>2, <3>1, RemaindersDiffer
  <2>5. (i - 1) % NumAgents \in Nat /\ (j - 1) % NumAgents \in Nat
    BY <2>1, <2>2
  <2> QED
    BY <2>3, <2>4, <2>5
<1> QED
  BY <1>1, CourseHolds, PTL
=============================================================================
