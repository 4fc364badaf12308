---------------------------- MODULE DebateRunProofs ----------------------------
(***************************************************************************)
(* What crashes and resumptions cannot do to the files of a debate, for    *)
(* any number of rounds, crashes and late resume calls: no checkpoint      *)
(* counts a round that is not saved, no saved trace has a hole, Mongo's    *)
(* final copy is the trace, a completed debate is written again only by    *)
(* the call that the code lets start it over, and a crash costs at most    *)
(* one round that is run again.                                            *)
(***************************************************************************)
EXTENDS DebateRun, FoldFacts, TLAPS

Saving == {"saveRound", "pushRound", "saveCheckpoint"}
\* Not in the middle of saving a round, and not past the trace's end.
Between == {"replaying", "round", "saveFinal"}

\* The ledger.

LEMMA TokensTyped ==
  ASSUME NEW s \in Seq(Records)
  PROVE  Tokens(s) \in Nat
<1> DEFINE t == [i \in DOMAIN s |-> s[i].tokens]
           S == DOMAIN s
<1>1. \A i \in S : s[i] \in Records
  OBVIOUS
<1>2. \A i \in S : t[i] \in Nat
  BY <1>1 DEF Records
<1>3. IsFiniteSet(S)
  <2>1. S = 1..Len(s) /\ Len(s) \in Nat
    OBVIOUS
  <2> QED
    BY <2>1, FS_Interval
<1>4. Tokens(s) = SumFunctionOnSet(t, S)
  BY DEF Tokens, SumFunction
<1> HIDE DEF t, S
<1> QED
  BY <1>2, <1>3, <1>4, SumOfPart

LEMMA ChargedTyped ==
  ASSUME NEW u \in Nat, ledger \in [wired: BOOLEAN, left: Int]
  PROVE  Charged(u) \in [wired: BOOLEAN, left: Int]
BY DEF Charged

LEMMA AmountTyped ==
  ASSUME NEW s \in Seq(Records)
  PROVE  ReplayAmount(s) \in Nat
BY TokensTyped, ConstantsAssumption DEF ReplayAmount

LEMMA UsableTyped == {0} \cup Usable \subseteq Nat
BY ConstantsAssumption DEF Usable

\* Numbers of the saved rounds.

LEMMA NumbersEmpty == Numbers(<< >>) = {}
BY DEF Numbers

LEMMA NumbersRange ==
  ASSUME NEW s \in Seq(Records)
  PROVE  Numbers(s) \subseteq 1..NumRounds
<1>1. \A i \in DOMAIN s : s[i] \in Records
  OBVIOUS
<1>2. \A i \in DOMAIN s : s[i].round \in 1..NumRounds
  BY <1>1 DEF Records
<1> QED
  BY <1>2, Zenon DEF Numbers

LEMMA NumbersAppend ==
  ASSUME NEW s \in Seq(Records), NEW r \in Records
  PROVE  Numbers(Append(s, r)) = Numbers(s) \cup {r.round}
<1>1. DOMAIN Append(s, r) = DOMAIN s \cup {Len(s) + 1}
  OBVIOUS
<1>2. \A i \in DOMAIN s : Append(s, r)[i] = s[i]
  OBVIOUS
<1>3. Append(s, r)[Len(s) + 1] = r
  OBVIOUS
<1> QED
  BY <1>1, <1>2, <1>3, Zenon DEF Numbers

\* A sequence of records with no hole.
NoHole(s) == \A n \in Numbers(s) : 1..n \subseteq Numbers(s)

LEMMA NoHoleAppend ==
  ASSUME NEW s \in Seq(Records), NEW r \in Records,
         NoHole(s), 1..(r.round - 1) \subseteq Numbers(s)
  PROVE  NoHole(Append(s, r)) /\ 1..r.round \subseteq Numbers(Append(s, r))
<1>1. Numbers(Append(s, r)) = Numbers(s) \cup {r.round}
  BY NumbersAppend
<1>2. 1..r.round \subseteq Numbers(s) \cup {r.round}
  BY DEF Records
<1> QED
  BY <1>1, <1>2 DEF NoHole

-----------------------------------------------------------------------------
\* The part of the invariant that holds whatever happened.
Positioned ==
  /\ at \in Saving => mem # << >> /\ next <= NumRounds
  /\ waiting > 0 => file.state # "none"
  /\ ~born => /\ at = "none" /\ waiting = 0
              /\ mem = << >> /\ next = 1
              /\ file.state = "none" /\ checkpoint.state = "none"

\* What an execution has in memory covers what it and its predecessors saved.
MemoryCovers ==
  /\ at # "none" => NoHole(mem)
  /\ at \in Between => 1..(next - 1) \subseteq Numbers(mem)
  /\ at \in Saving => 1..next \subseteq Numbers(mem)
  /\ at \in Saving \cup Between /\ checkpoint.state = "written"
       => 1..checkpoint.last \subseteq Numbers(mem)

\* What the files are at each of its steps.
FilesFollow ==
  /\ at \in {"pushRound", "saveCheckpoint"} =>
       file.state = "open" /\ file.rounds = mem
  /\ at \in {"replaceFinal", "saveComplete"} =>
       file.state = "ended" /\ file.rounds = mem
  /\ file.state = "ended" => at \in {"none", "replaceFinal", "saveComplete"}
  /\ mongo.ended => file.state = "ended" /\ mongo.rounds = file.rounds
  /\ checkpoint.state = "written" /\ file.state = "open" =>
       1..checkpoint.last \subseteq Numbers(file.rounds)
  /\ file.state # "torn" => NoHole(file.rounds)

\* The second part holds unless a late resume call started a completed
\* debate over.
Sound == restarted \/ (MemoryCovers /\ FilesFollow)

RunInv == TypeOK /\ Positioned /\ Sound

LEMMA RunInit == Init => RunInv
<1> SUFFICES ASSUME Init PROVE RunInv
  OBVIOUS
<1>1. << >> \in Seq(Records) /\ FALSE \in BOOLEAN
  OBVIOUS
<1>2. mongo \in [ended: BOOLEAN, rounds: Seq(Records)]
  BY <1>1, Zenon DEF Init
<1>3. TypeOK
  <2>1. /\ file \in [state: {"none", "open", "ended", "torn"}, rounds: Seq(Records)]
        /\ checkpoint \in [state: {"none", "written", "torn"}, last: Nat]
        /\ mem \in Seq(Records) /\ ran \in [1..NumRounds -> Nat]
    BY <1>1 DEF Init
  <2>2. restarted \in BOOLEAN /\ born \in BOOLEAN
    BY <1>1, Zenon DEF Init
  <2>3. /\ next \in Nat \ {0} /\ next <= NumRounds + 1
        /\ waiting \in 0..checks /\ checks \in 0..MaxChecks
        /\ crashes \in 0..MaxCrashes
    BY ConstantsAssumption DEF Init
  <2>4. at \in {"none", "replaying", "round", "saveRound", "pushRound",
                "saveCheckpoint", "saveFinal", "replaceFinal", "saveComplete"}
    BY DEF Init
  <2>5. ledger \in [wired: BOOLEAN, left: Int]
    <3>1. PICK w \in BOOLEAN : ledger = [wired |-> w, left |-> Total]
      BY DEF Init
    <3> QED
      BY <3>1, ConstantsAssumption
  <2> QED
    BY <1>2, <2>1, <2>2, <2>3, <2>4, <2>5 DEF TypeOK
<1>4. Positioned
  BY DEF Init, Positioned, Saving
<1>5. MemoryCovers /\ FilesFollow
  BY NumbersEmpty DEF Init, MemoryCovers, FilesFollow, Saving, Between, NoHole
<1> QED
  BY <1>3, <1>4, <1>5 DEF RunInv, Sound

-----------------------------------------------------------------------------
\* Entering.

LEMMA EnterType ==
  ASSUME RunInv, Enter, restarted' \in BOOLEAN, restarted => restarted',
         waiting' \in 0..checks, checks' = checks,
         file.state = "open" \/ restarted'
  PROVE  TypeOK'
<1> USE DEF RunInv
<1>1. /\ at' \in {"replaying", "round"} /\ file' = file
      /\ checkpoint' = checkpoint /\ mongo' = mongo /\ ledger' = ledger
      /\ born' = born /\ ran' = ran /\ crashes' = crashes
  BY DEF Enter, disk
<1>2. mem' \in Seq(Records) /\ next' \in Nat \ {0}
  <2>1. CASE file.state = "open" /\ checkpoint.state = "written"
    <3>1. file.rounds \in Seq(Records) /\ checkpoint.last \in Nat
      BY DEF TypeOK
    <3>2. mem' = file.rounds /\ next' = checkpoint.last + 1
      BY <2>1 DEF Enter, FirstRound
    <3> QED
      BY <3>1, <3>2
  <2>2. CASE ~(file.state = "open" /\ checkpoint.state = "written")
    <3>1. mem' = << >> /\ next' = 1
      BY <2>2 DEF Enter
    <3> QED
      BY <3>1
  <2> QED
    BY <2>1, <2>2
<1>3. restarted' \/ next' <= NumRounds + 1
  <2> SUFFICES ASSUME ~restarted' PROVE next' <= NumRounds + 1
    OBVIOUS
  <2>1. CASE checkpoint.state = "written"
    <3>1. 1..checkpoint.last \subseteq Numbers(file.rounds)
      BY <2>1 DEF Sound, FilesFollow
    <3>2. Numbers(file.rounds) \subseteq 1..NumRounds
      BY NumbersRange DEF TypeOK
    <3>3. checkpoint.last \in Nat
      BY DEF TypeOK
    <3>4. checkpoint.last <= NumRounds
      <4>1. CASE checkpoint.last = 0
        BY <4>1, ConstantsAssumption
      <4>2. CASE checkpoint.last # 0
        <5>1. checkpoint.last \in 1..checkpoint.last
          BY <3>3, <4>2
        <5> QED
          BY <5>1, <3>1, <3>2, ConstantsAssumption
      <4> QED
        BY <4>1, <4>2
    <3> QED
      BY <3>3, <3>4, <2>1, ConstantsAssumption DEF Enter, FirstRound
  <2>2. CASE checkpoint.state # "written"
    BY <2>2, ConstantsAssumption DEF Enter
  <2> QED
    BY <2>1, <2>2
<1> QED
  BY <1>1, <1>2, <1>3 DEF TypeOK

LEMMA EnterSound ==
  ASSUME RunInv, Enter, restarted => restarted',
         file.state = "open" \/ restarted'
  PROVE  Sound'
<1> SUFFICES ASSUME ~restarted' PROVE MemoryCovers' /\ FilesFollow'
  BY DEF Sound
<1> USE DEF RunInv
<1>1. MemoryCovers /\ FilesFollow /\ file.state = "open"
  BY DEF Sound
<1>2. /\ at' \in {"replaying", "round"} /\ file' = file
      /\ checkpoint' = checkpoint /\ mongo' = mongo
  BY DEF Enter, disk
<1>3. CASE checkpoint.state = "written"
  <2>1. mem' = file.rounds /\ next' = checkpoint.last + 1
    BY <1>1, <1>3 DEF Enter, FirstRound
  <2>2. next' - 1 = checkpoint.last
    BY <2>1 DEF TypeOK
  <2> QED
    BY <1>1, <1>2, <1>3, <2>1, <2>2 DEF MemoryCovers, FilesFollow, Saving, Between
<1>4. CASE checkpoint.state # "written"
  <2>1. mem' = << >> /\ next' = 1
    BY <1>1, <1>4 DEF Enter
  <2>2. 1..(next' - 1) = {}
    BY <2>1
  <2> QED
    BY <1>1, <1>2, <1>4, <2>1, <2>2, NumbersEmpty
    DEF MemoryCovers, FilesFollow, Saving, Between, NoHole
<1> QED
  BY <1>3, <1>4

LEMMA EnterKeeps == RunInv /\ (Resume \/ EnterLate) => RunInv'
<1> SUFFICES ASSUME RunInv, Resume \/ EnterLate PROVE RunInv'
  OBVIOUS
<1>1. Enter
  BY DEF Resume, EnterLate
<1>2. /\ restarted' \in BOOLEAN /\ (restarted => restarted')
      /\ waiting' \in 0..checks /\ checks' = checks /\ waiting' <= waiting
      /\ waiting \in Nat
  <2>1. restarted \in BOOLEAN /\ waiting \in 0..checks /\ checks \in Nat
    BY ConstantsAssumption DEF RunInv, TypeOK
  <2>2. CASE Resume
    BY <2>1, <2>2 DEF Resume, calls
  <2>3. CASE EnterLate
    <3>1. restarted' \in BOOLEAN /\ (restarted => restarted')
      BY <2>1, <2>3 DEF EnterLate
    <3>2. waiting' = waiting - 1 /\ waiting > 0 /\ checks' = checks
      BY <2>3 DEF EnterLate
    <3> QED
      BY <2>1, <3>1, <3>2
  <2> QED
    BY <2>2, <2>3
<1>3. file.state = "open" \/ restarted'
  BY <1>1 DEF Resume, Resumable, EnterLate, RunInv, TypeOK, Positioned, Enter
<1>4. TypeOK'
  BY <1>1, <1>2, <1>3, EnterType
<1>5. Sound'
  BY <1>1, <1>2, <1>3, EnterSound
<1>6. born
  BY DEF Resume, Resumable, EnterLate, RunInv, Positioned, TypeOK
<1>7. Positioned'
  BY <1>1, <1>2, <1>6 DEF Positioned, Enter, disk, Saving, RunInv
<1> QED
  BY <1>4, <1>5, <1>7 DEF RunInv

LEMMA CallsKeep == RunInv /\ (StartFresh \/ Check \/ TurnAway) => RunInv'
<1> SUFFICES ASSUME RunInv, StartFresh \/ Check \/ TurnAway PROVE RunInv'
  OBVIOUS
<1> USE DEF RunInv
<1>1. CASE StartFresh
  <2>1. /\ at' = "round" /\ born' = TRUE /\ mem = << >> /\ next = 1
        /\ UNCHANGED <<mem, next, file, checkpoint, mongo, ledger, waiting,
                       checks, restarted, ran, crashes>>
        /\ at = "none" /\ file.state = "none" /\ checkpoint.state = "none"
    BY <1>1 DEF StartFresh, Positioned, disk, calls
  <2>2. TypeOK'
    BY <2>1 DEF TypeOK
  <2>3. Positioned'
    BY <2>1 DEF Positioned, Saving
  <2>4. 1..(next' - 1) = {}
    BY <2>1
  <2>5. Sound'
    BY <2>1, <2>4, NumbersEmpty DEF Sound, MemoryCovers, FilesFollow, Saving, Between, NoHole
  <2> QED
    BY <2>2, <2>3, <2>5
<1>2. CASE Check \/ TurnAway
  <2>1. /\ UNCHANGED <<at, mem, next, file, checkpoint, mongo, ledger, born,
                       restarted, ran, crashes>>
        /\ waiting' \in 0..checks' /\ checks' \in 0..MaxChecks
        /\ waiting' > 0 => file.state # "none"
        /\ file.state # "none" \/ waiting > 0
    BY <1>2, ConstantsAssumption
    DEF Check, TurnAway, Resumable, Positioned, TypeOK, disk, calls
  <2>2. TypeOK'
    BY <2>1 DEF TypeOK
  <2>3. Positioned'
    BY <2>1 DEF Positioned
  <2>4. Sound'
    BY <2>1 DEF Sound, MemoryCovers, FilesFollow
  <2> QED
    BY <2>2, <2>3, <2>4
<1> QED
  BY <1>1, <1>2

-----------------------------------------------------------------------------
\* The round loop.

LEMMA ReplayKeeps == RunInv /\ (Replay \/ RefuseReplay) => RunInv'
<1> SUFFICES ASSUME RunInv, Replay \/ RefuseReplay PROVE RunInv'
  OBVIOUS
<1> USE DEF RunInv
<1>1. /\ at = "replaying" /\ at' \in {"round", "none"}
      /\ UNCHANGED <<mem, next, file, checkpoint, mongo, waiting, checks,
                     restarted, born, ran, crashes>>
  BY DEF Replay, RefuseReplay, disk, calls
<1>2. ledger' \in [wired: BOOLEAN, left: Int]
  <2>1. ledger \in [wired: BOOLEAN, left: Int] /\ ReplayAmount(mem) \in Nat
    BY AmountTyped DEF TypeOK
  <2>2. ledger' = ledger \/ ledger' = Charged(ReplayAmount(mem))
    BY DEF Replay, RefuseReplay
  <2> QED
    BY <2>1, <2>2, ChargedTyped
<1>3. TypeOK'
  BY <1>1, <1>2 DEF TypeOK
<1>4. Positioned'
  BY <1>1 DEF Positioned, Saving
<1>5. Sound'
  BY <1>1 DEF Sound, MemoryCovers, FilesFollow, Saving, Between
<1> QED
  BY <1>3, <1>4, <1>5

LEMMA RunRoundKeeps == ASSUME NEW u, RunInv, RunRound(u) PROVE RunInv'
<1> USE DEF RunInv
<1> DEFINE r == [round |-> next, nth |-> ran'[next], tokens |-> u]
<1>1. /\ at = "round" /\ at' = "saveRound" /\ next <= NumRounds
      /\ mem' = Append(mem, r)
      /\ UNCHANGED <<next, file, checkpoint, mongo, waiting, checks, restarted,
                     born, crashes>>
  BY DEF RunRound, disk, calls
<1>2. next \in 1..NumRounds /\ ran' \in [1..NumRounds -> Nat] /\ u \in Nat
  BY UsableTyped, ConstantsAssumption DEF RunRound, TypeOK
<1>ledger. ledger' \in [wired: BOOLEAN, left: Int]
  BY <1>2, ChargedTyped DEF RunRound, TypeOK
<1>3. r \in Records
  BY <1>2 DEF Records
<1>4. mem \in Seq(Records)
  BY DEF TypeOK
<1> HIDE DEF r
<1>5. mem' \in Seq(Records) /\ mem' # << >>
  BY <1>1, <1>3, <1>4
<1>6. TypeOK'
  BY <1>1, <1>2, <1>5, <1>ledger DEF TypeOK
<1>7. Positioned'
  BY <1>1, <1>5 DEF Positioned, Saving
<1>8. Sound'
  <2> SUFFICES ASSUME ~restarted PROVE MemoryCovers' /\ FilesFollow'
    BY <1>1 DEF Sound
  <2>1. NoHole(mem) /\ 1..(next - 1) \subseteq Numbers(mem)
    BY <1>1 DEF Sound, MemoryCovers, Between
  <2>2. r.round = next
    BY DEF r
  <2>3. NoHole(mem') /\ 1..next \subseteq Numbers(mem')
    BY <1>1, <1>3, <1>4, <2>1, <2>2, NoHoleAppend
  <2>4. Numbers(mem) \subseteq Numbers(mem')
    BY <1>1, <1>3, <1>4, NumbersAppend
  <2>5. MemoryCovers'
    BY <1>1, <2>3, <2>4 DEF Sound, MemoryCovers, Saving, Between
  <2>6. FilesFollow'
    BY <1>1 DEF Sound, FilesFollow
  <2> QED
    BY <2>5, <2>6
<1> QED
  BY <1>6, <1>7, <1>8

LEMMA SaveRoundKeeps == RunInv /\ SaveRound => RunInv'
<1> SUFFICES ASSUME RunInv, SaveRound PROVE RunInv'
  OBVIOUS
<1> USE DEF RunInv
<1>1. /\ at = "saveRound" /\ at' = "pushRound"
      /\ file' = [state |-> "open", rounds |-> mem]
      /\ UNCHANGED <<mem, next, checkpoint, mongo, ledger, waiting, checks,
                     restarted, born, ran, crashes>>
  BY DEF SaveRound, calls
<1>2. TypeOK'
  BY <1>1 DEF TypeOK
<1>3. Positioned'
  BY <1>1 DEF Positioned, Saving
<1>4. Sound'
  BY <1>1 DEF Sound, MemoryCovers, FilesFollow, Saving, Between
<1> QED
  BY <1>2, <1>3, <1>4

LEMMA PushRoundKeeps == RunInv /\ PushRound => RunInv'
<1> SUFFICES ASSUME RunInv, PushRound PROVE RunInv'
  OBVIOUS
<1> USE DEF RunInv
<1>1. /\ at = "pushRound" /\ at' = "saveCheckpoint"
      /\ UNCHANGED <<mem, next, file, checkpoint, ledger, waiting, checks,
                     restarted, born, ran, crashes>>
  BY DEF PushRound, calls
<1>2. mem # << >> /\ mem \in Seq(Records)
  BY <1>1 DEF Positioned, Saving, TypeOK
<1>3. mem[Len(mem)] \in Records
  BY <1>2
<1>4. /\ mongo' \in [ended: BOOLEAN, rounds: Seq(Records)]
      /\ mongo'.ended = mongo.ended
  <2>1. mongo \in [ended: BOOLEAN, rounds: Seq(Records)]
    BY DEF TypeOK
  <2>2. CASE mongo' = mongo
    BY <2>1, <2>2
  <2>3. CASE mongo' = [mongo EXCEPT !.rounds = Append(@, mem[Len(mem)])]
    <3>1. Append(mongo.rounds, mem[Len(mem)]) \in Seq(Records)
      BY <1>3, <2>1
    <3> QED
      BY <2>1, <2>3, <3>1, Zenon
  <2> QED
    BY <2>2, <2>3 DEF PushRound
<1>5. TypeOK'
  BY <1>1, <1>4 DEF TypeOK
<1>6. Positioned'
  BY <1>1 DEF Positioned, Saving
<1>7. Sound'
  BY <1>1, <1>4 DEF Sound, MemoryCovers, FilesFollow, Saving, Between
<1> QED
  BY <1>5, <1>6, <1>7

LEMMA SaveCheckpointKeeps == RunInv /\ SaveCheckpoint => RunInv'
<1> SUFFICES ASSUME RunInv, SaveCheckpoint PROVE RunInv'
  OBVIOUS
<1> USE DEF RunInv
<1>1. /\ at = "saveCheckpoint" /\ at' = "round" /\ next' = next + 1
      /\ checkpoint' = [state |-> "written", last |-> next]
      /\ UNCHANGED <<mem, file, mongo, ledger, waiting, checks, restarted, born,
                     ran, crashes>>
  BY DEF SaveCheckpoint, LastCompleted, calls
<1>2. next \in Nat \ {0} /\ next <= NumRounds /\ born
  BY <1>1 DEF TypeOK, Positioned, Saving
<1>3. TypeOK'
  BY <1>1, <1>2, ConstantsAssumption DEF TypeOK
<1>4. Positioned'
  BY <1>1, <1>2 DEF Positioned, Saving
<1>5. next' - 1 = next
  BY <1>1, <1>2
<1>6. Sound'
  BY <1>1, <1>5 DEF Sound, MemoryCovers, FilesFollow, Saving, Between
<1> QED
  BY <1>3, <1>4, <1>6

-----------------------------------------------------------------------------
\* The end of a debate.

LEMMA EndKeeps ==
  ASSUME NEW u, RunInv, EndLoop(u) \/ SaveFinal \/ ReplaceFinal \/ SaveComplete
  PROVE  RunInv'
<1> USE DEF RunInv, calls, disk
<1>1. CASE EndLoop(u)
  <2>0. ledger' \in [wired: BOOLEAN, left: Int]
    BY <1>1, UsableTyped, ChargedTyped DEF EndLoop, TypeOK
  <2>1. TypeOK' /\ Positioned'
    BY <1>1, <2>0 DEF EndLoop, TypeOK, Positioned, Saving
  <2>2. Sound'
    BY <1>1 DEF EndLoop, Sound, MemoryCovers, FilesFollow, Saving, Between
  <2> QED
    BY <2>1, <2>2
<1>2. CASE SaveFinal
  <2>1. TypeOK' /\ Positioned'
    BY <1>2 DEF SaveFinal, TypeOK, Positioned, Saving
  <2>2. Sound'
    BY <1>2 DEF SaveFinal, Sound, MemoryCovers, FilesFollow, Saving, Between
  <2> QED
    BY <2>1, <2>2
<1>3. CASE ReplaceFinal
  <2> mongo' \in [ended: BOOLEAN, rounds: Seq(Records)]
    <3>1. mongo \in [ended: BOOLEAN, rounds: Seq(Records)] /\ mem \in Seq(Records)
      BY DEF TypeOK
    <3>2. [ended |-> TRUE, rounds |-> mem] \in [ended: BOOLEAN, rounds: Seq(Records)]
      BY <3>1, Zenon
    <3> QED
      BY <1>3, <3>1, <3>2 DEF ReplaceFinal, Replaced
  <2>1. TypeOK' /\ Positioned'
    BY <1>3 DEF ReplaceFinal, TypeOK, Positioned, Saving
  <2>2. Sound'
    BY <1>3 DEF ReplaceFinal, Replaced, Sound, MemoryCovers, FilesFollow, Saving, Between
  <2> QED
    BY <2>1, <2>2
<1>4. CASE SaveComplete
  <2>1. TypeOK' /\ Positioned'
    BY <1>4 DEF SaveComplete, TypeOK, Positioned, Saving
  <2>2. Sound'
    BY <1>4 DEF SaveComplete, Sound, MemoryCovers, FilesFollow, Saving, Between
  <2> QED
    BY <2>1, <2>2
<1> QED
  BY <1>1, <1>2, <1>3, <1>4

\* A crash, wherever the execution stands.
LEMMA CrashKeeps ==
  RunInv /\ (Crash \/ CrashInTrace \/ CrashInCheckpoint) => RunInv'
<1> SUFFICES ASSUME RunInv, Crash \/ CrashInTrace \/ CrashInCheckpoint
             PROVE  RunInv'
  OBVIOUS
<1> USE DEF RunInv, calls, disk
<1>1. /\ at # "none" /\ at' = "none" /\ crashes' \in 0..MaxCrashes
      /\ UNCHANGED <<mem, next, mongo, waiting, checks, restarted, born, ran>>
  BY ConstantsAssumption DEF Crash, CrashInTrace, CrashInCheckpoint, TypeOK
<1>2. \/ file' = file
      \/ /\ at \in {"saveRound", "saveFinal"}
         /\ file'.state = "torn" /\ file'.rounds = file.rounds
  BY DEF Crash, CrashInTrace, CrashInCheckpoint, TypeOK
<1>3. checkpoint' = checkpoint \/ checkpoint'.state = "torn"
  BY DEF Crash, CrashInTrace, CrashInCheckpoint, TypeOK
<1>4. /\ file' \in [state: {"none", "open", "ended", "torn"}, rounds: Seq(Records)]
      /\ checkpoint' \in [state: {"none", "written", "torn"}, last: Nat]
  BY DEF Crash, CrashInTrace, CrashInCheckpoint, TypeOK
<1>ledger. ledger' \in [wired: BOOLEAN, left: Int]
  <2>1. Unrecorded \subseteq Nat
    BY UsableTyped, AmountTyped DEF Unrecorded, TypeOK
  <2>2. CASE Crash
    <3>1. PICK u \in Unrecorded : ledger' = Charged(u)
      BY <2>2 DEF Crash
    <3> QED
      BY <2>1, <3>1, ChargedTyped DEF TypeOK
  <2>3. CASE CrashInTrace \/ CrashInCheckpoint
    BY <2>3 DEF CrashInTrace, CrashInCheckpoint, TypeOK
  <2> QED
    BY <2>2, <2>3
<1>5. TypeOK'
  BY <1>1, <1>4, <1>ledger DEF TypeOK
<1>6. Positioned'
  BY <1>1, <1>2 DEF Positioned, Saving
<1>7. Sound'
  BY <1>1, <1>2, <1>3 DEF Sound, MemoryCovers, FilesFollow, Saving, Between
<1> QED
  BY <1>5, <1>6, <1>7

LEMMA RunNext == RunInv /\ [Next]_vars => RunInv'
<1> SUFFICES ASSUME RunInv, [Next]_vars PROVE RunInv'
  OBVIOUS
<1>1. CASE StartFresh \/ Check \/ TurnAway
  BY <1>1, CallsKeep
<1>2. CASE Resume \/ EnterLate
  BY <1>2, EnterKeeps
<1>3. CASE Step
  BY <1>3, ReplayKeeps, RunRoundKeeps, SaveRoundKeeps, PushRoundKeeps,
     SaveCheckpointKeeps, EndKeeps DEF Step
<1>4. CASE Crash \/ CrashInTrace \/ CrashInCheckpoint
  BY <1>4, CrashKeeps
<1>5. CASE UNCHANGED vars
  BY <1>5 DEF vars, disk, calls, RunInv, TypeOK, Positioned, Sound,
     MemoryCovers, FilesFollow
<1> QED
  BY <1>1, <1>2, <1>3, <1>4, <1>5 DEF Next

LEMMA RunHolds == Spec => []RunInv
BY RunInit, RunNext, PTL DEF Spec

-----------------------------------------------------------------------------
\* What a resumption reads makes sense: the checkpoint counts saved rounds
\* only, and the trace has no hole, after any crashes and resumptions.
THEOREM FilesConsistentHolds == Spec => []FilesConsistent
<1>1. RunInv => FilesConsistent
  BY DEF RunInv, Sound, FilesFollow, NoHole, FilesConsistent,
     CheckpointedRoundsSaved, NoRoundMissing
<1> QED
  BY <1>1, RunHolds, PTL

\* Mongo's copy of a completed debate is the JSON trace, if its last write
\* worked, whatever was lost or pushed twice before.
THEOREM MongoMatchesTraceHolds == Spec => []MongoMatchesTrace
<1>1. RunInv => MongoMatchesTrace
  BY DEF RunInv, Sound, FilesFollow, MongoMatchesTrace
<1> QED
  BY <1>1, RunHolds, PTL

\* Only a call that the code lets start a completed debate over writes its
\* trace again.
THEOREM CompletedIsFinalHolds == Spec => CompletedIsFinal
<1> DEFINE Kept == file.state = "ended" /\ file' # file => restarted
<1>1. RunInv /\ [Next]_vars => [Kept]_vars
  <2> SUFFICES ASSUME RunInv, Next, file.state = "ended", file' # file
               PROVE  restarted
    OBVIOUS
  <2>1. at \in {"saveRound", "saveFinal"}
    BY DEF Next, Step, StartFresh, Resume, Check, EnterLate, TurnAway, Enter,
       Replay, RefuseReplay, RunRound, SaveRound, PushRound, SaveCheckpoint, EndLoop, SaveFinal,
       ReplaceFinal, SaveComplete, Crash, CrashInTrace, CrashInCheckpoint, disk
  <2> QED
    BY <2>1 DEF RunInv, Sound, FilesFollow
<1> QED
  BY <1>1, RunHolds, PTL DEF Spec, CompletedIsFinal

-----------------------------------------------------------------------------
\* Rounds run again.

Again(f) == [n \in 1..NumRounds |-> IF f[n] = 0 THEN 0 ELSE f[n] - 1]
Reruns == SumFunction(Again(ran))

LEMMA RerunsTyped ==
  ASSUME NEW f \in [1..NumRounds -> Nat]
  PROVE  /\ SumFunction(Again(f)) = SumFunctionOnSet(Again(f), 1..NumRounds)
         /\ SumFunction(Again(f)) \in Int
         /\ IsFiniteSet(1..NumRounds)
         /\ Summands(Again(f), 1..NumRounds)
<1>1. DOMAIN Again(f) = 1..NumRounds
  BY DEF Again
<1>2. SumFunction(Again(f)) = SumFunctionOnSet(Again(f), 1..NumRounds)
  BY <1>1 DEF SumFunction
<1>3. IsFiniteSet(1..NumRounds)
  BY FS_Interval, ConstantsAssumption
<1>4. \A n \in 1..NumRounds : Again(f)[n] \in Int
  BY DEF Again
<1>5. SumFunctionOnSet(Again(f), 1..NumRounds) \in Int
  <2> DEFINE g == Again(f)
  <2> HIDE DEF g
  <2>1. \A n \in 1..NumRounds : g[n] \in Int
    BY <1>4 DEF g
  <2>2. SumFunctionOnSet(g, 1..NumRounds) \in Int
    BY <1>3, <2>1, SumTyped
  <2> QED
    BY <2>2 DEF g
<1> QED
  BY <1>2, <1>3, <1>4, <1>5 DEF Summands

LEMMA RerunsOfNone ==
  ASSUME NEW f \in [1..NumRounds -> Nat], \A n \in 1..NumRounds : f[n] = 0
  PROVE  SumFunction(Again(f)) = 0
<1> DEFINE g == Again(f)
           S == 1..NumRounds
<1>1. SumFunction(g) = SumFunctionOnSet(g, S) /\ IsFiniteSet(S)
  BY RerunsTyped
<1>2. \A n \in S : g[n] = 0
  BY DEF Again
<1> HIDE DEF g, S
<1>3. SumFunctionOnSet(g, S) = 0
  BY <1>1, <1>2, SumOfZeros
<1> QED
  BY <1>1, <1>3 DEF g

\* Running a round counts if it was run before.
LEMMA RerunsChange ==
  ASSUME NEW f \in [1..NumRounds -> Nat], NEW a \in 1..NumRounds
  PROVE  SumFunction(Again([f EXCEPT ![a] = @ + 1]))
           = SumFunction(Again(f)) + (IF f[a] = 0 THEN 0 ELSE 1)
<1> DEFINE h == [f EXCEPT ![a] = @ + 1]
           F == Again(f)
           G == Again(h)
           S == 1..NumRounds
<1>1. h \in [1..NumRounds -> Nat]
  OBVIOUS
<1>2. /\ SumFunction(F) = SumFunctionOnSet(F, S) /\ SumFunction(F) \in Int
      /\ IsFiniteSet(S) /\ Summands(F, S)
  BY RerunsTyped
<1>3. SumFunction(G) = SumFunctionOnSet(G, S) /\ Summands(G, S)
  <2> HIDE DEF h
  <2> QED
    BY <1>1, RerunsTyped
<1>4. AgreeOn(F, G, S \ {a})
  BY DEF AgreeOn, Again
<1>5. G[a] - F[a] = (IF f[a] = 0 THEN 0 ELSE 1) /\ G[a] \in Int /\ F[a] \in Int
  BY DEF Again
<1>6. a \in S
  OBVIOUS
<1>7. SumFunctionOnSet(G, S) = SumFunctionOnSet(F, S) + G[a] - F[a]
  <2> HIDE DEF F, G, S
  <2> QED
    BY <1>2, <1>3, <1>4, <1>6, SumChanges
<1> QED
  <2> HIDE DEF F, G, S, h
  <2>1. SumFunction(G) = SumFunction(F) + (G[a] - F[a])
    BY <1>2, <1>3, <1>5, <1>7
  <2> QED
    BY <1>2, <1>5, <2>1 DEF F, G, h

-----------------------------------------------------------------------------
\* The rounds that the checkpoint counts, and whether a resumption would continue after
\* them.
Completed == IF checkpoint.state = "written" THEN checkpoint.last ELSE 0
Continues == file.state \in {"none", "open"} /\ checkpoint.state # "torn"

\* No round after the next was ever run; and if the next one was, a crash came after it
\* that no other rerun is owed to.
Paid ==
  /\ Reruns <= crashes
  /\ Continues =>
       /\ \A n \in 1..NumRounds : n > Completed + 1 => ran[n] = 0
       /\ \A n \in 1..NumRounds :
            at \notin Saving /\ n = Completed + 1 /\ ran[n] > 0 => Reruns + 1 <= crashes
  /\ at \in Saving \cup Between => Continues /\ next = Completed + 1

RerunInv == restarted \/ Paid

LEMMA RerunInit == Init => RerunInv
<1> SUFFICES ASSUME Init PROVE Paid
  BY DEF RerunInv
<1>1. /\ ran = [n \in 1..NumRounds |-> 0] /\ crashes = 0 /\ at = "none"
  BY DEF Init
<1>2. ran \in [1..NumRounds -> Nat] /\ \A n \in 1..NumRounds : ran[n] = 0
  BY <1>1
<1>3. Reruns = 0
  BY <1>2, RerunsOfNone DEF Reruns
<1> QED
  BY <1>1, <1>2, <1>3 DEF Paid, Saving, Between

LEMMA RerunNext == RunInv /\ RunInv' /\ RerunInv /\ [Next]_vars => RerunInv'
<1> SUFFICES ASSUME RunInv, RunInv', RerunInv, [Next]_vars, ~restarted'
             PROVE  Paid'
  BY DEF RerunInv
<1>0. /\ crashes \in Nat /\ ran \in [1..NumRounds -> Nat] /\ Reruns \in Int
      /\ next \in Nat /\ checkpoint.last \in Nat /\ Completed \in Nat
  BY RerunsTyped DEF RunInv, TypeOK, Reruns, Completed
<1>1. ~restarted /\ Paid
  <2>1. CASE EnterLate
    BY <2>1, Zenon DEF EnterLate, RerunInv
  <2>2. CASE restarted' = restarted
    BY <2>2, Zenon DEF RerunInv
  <2>3. CASE StartFresh \/ Resume \/ Check \/ TurnAway \/ Crash \/ CrashInTrace
             \/ CrashInCheckpoint \/ UNCHANGED vars
    BY <2>2, <2>3 DEF vars, calls, StartFresh, Resume, Check, TurnAway, Crash, CrashInTrace,
                      CrashInCheckpoint
  <2>4. CASE Step
    BY <2>2, <2>4 DEF Step, calls, Replay, RefuseReplay, RunRound, SaveRound, PushRound, SaveCheckpoint, EndLoop,
                      SaveFinal, ReplaceFinal, SaveComplete
  <2> QED
    BY <2>1, <2>3, <2>4 DEF Next
<1>2. ran' = ran => Reruns' = Reruns
  BY DEF Reruns
<1>3. checkpoint' = checkpoint => Completed' = Completed
  BY DEF Completed
<1>4. CASE Check \/ TurnAway \/ UNCHANGED vars
  BY <1>1, <1>2, <1>3, <1>4 DEF Check, TurnAway, vars, disk, Paid, Continues
<1>5. CASE StartFresh
  <2>1. /\ checkpoint.state = "none" /\ next = 1 /\ at' = "round" /\ at = "none"
        /\ file.state = "none" /\ UNCHANGED <<next, file, checkpoint, ran, crashes>>
    BY <1>5 DEF StartFresh, RunInv, Positioned, disk
  <2>2. Continues' /\ next' = Completed' + 1
    BY <2>1 DEF Continues, Completed
  <2> QED
    BY <1>1, <1>2, <1>3, <2>1, <2>2 DEF Paid, Continues, Saving, Between
<1>6. CASE Resume \/ EnterLate
  <2>1. /\ Enter /\ file.state = "open" /\ at = "none"
    BY <1>6 DEF Resume, Resumable, EnterLate, Enter, RunInv, Positioned, TypeOK
  <2>2. /\ at' \in {"replaying", "round"}
        /\ UNCHANGED <<file, checkpoint, ran, crashes>>
        /\ checkpoint.state \in {"none", "written"}
        /\ next' = Completed + 1
    BY <2>1 DEF Enter, disk, FirstRound, Completed, RunInv, TypeOK
  <2>3. Continues' /\ Continues
    BY <2>1, <2>2 DEF Continues
  <2> QED
    BY <1>1, <1>2, <1>3, <2>1, <2>2, <2>3 DEF Paid, Saving, Between
<1>replay. CASE Replay \/ RefuseReplay
  <2>1. /\ at = "replaying" /\ at' \in {"none", "round"}
        /\ UNCHANGED <<next, file, checkpoint, ran, crashes>>
    BY <1>replay DEF Replay, RefuseReplay, disk
  <2> QED
    BY <1>1, <1>2, <1>3, <2>1 DEF Paid, Continues, Saving, Between
<1>7. CASE \E u \in {0} \cup Usages : RunRound(u)
  <2>1. /\ at = "round" /\ at' = "saveRound" /\ next \in 1..NumRounds
        /\ ran' = [ran EXCEPT ![next] = @ + 1]
        /\ UNCHANGED <<next, file, checkpoint, crashes>>
    BY <1>0, <1>7, ConstantsAssumption DEF RunRound, disk, RunInv, TypeOK
  <2>2. Continues /\ next = Completed + 1
    BY <1>1, <2>1 DEF Paid, Between
  <2>3. Continues' /\ next' = Completed' + 1 /\ Completed' = Completed
    BY <2>1, <2>2, <1>3 DEF Continues
  <2>4. Reruns' = Reruns + (IF ran[next] = 0 THEN 0 ELSE 1)
    BY <1>0, <2>1, RerunsChange DEF Reruns
  <2>5. ran[next] # 0 => Reruns + 1 <= crashes
    BY <1>0, <1>1, <2>1, <2>2 DEF Paid, Saving, Between
  <2>6. Reruns' <= crashes'
    <3>1. CASE ran[next] = 0
      BY <1>0, <1>1, <2>1, <2>4, <3>1 DEF Paid
    <3>2. CASE ran[next] # 0
      BY <1>0, <2>1, <2>4, <2>5, <3>2
    <3> QED
      BY <3>1, <3>2
  <2>7. \A n \in 1..NumRounds : n > Completed + 1 => ran'[n] = 0
    BY <1>0, <1>1, <2>1, <2>2 DEF Paid
  <2> QED
    BY <2>1, <2>3, <2>6, <2>7 DEF Paid, Saving, Between
<1>8. CASE SaveRound \/ PushRound
  <2>1. /\ at \in Saving /\ at' \in Saving /\ UNCHANGED <<next, checkpoint, ran, crashes>>
        /\ file' = file \/ file'.state = "open"
    BY <1>8 DEF SaveRound, PushRound, Saving
  <2>2. Continues /\ Continues'
    BY <1>1, <2>1 DEF Paid, Continues
  <2> QED
    BY <1>1, <1>2, <1>3, <2>1, <2>2 DEF Paid
<1>9. CASE SaveCheckpoint
  <2>1. /\ at = "saveCheckpoint" /\ at' = "round" /\ next' = next + 1
        /\ checkpoint' = [state |-> "written", last |-> next]
        /\ UNCHANGED <<file, ran, crashes>>
    BY <1>9 DEF SaveCheckpoint, LastCompleted
  <2>2. Continues /\ next = Completed + 1
    BY <1>1, <2>1 DEF Paid, Saving, Between
  <2>3. Completed' = next /\ Continues'
    BY <2>1, <2>2 DEF Completed, Continues
  <2>4. \A n \in 1..NumRounds : n >= next + 1 => ran[n] = 0
    BY <1>0, <1>1, <2>2 DEF Paid
  <2> QED
    BY <1>0, <1>1, <1>2, <2>1, <2>2, <2>3, <2>4 DEF Paid, Saving, Between
<1>10. CASE \E u \in {0} \cup Usages : EndLoop(u)
  <2>1. /\ at = "round" /\ at' = "saveFinal"
        /\ UNCHANGED <<next, file, checkpoint, ran, crashes>>
    BY <1>10 DEF EndLoop, disk
  <2> QED
    BY <1>1, <1>2, <1>3, <2>1 DEF Paid, Continues, Saving, Between
<1>11. CASE SaveFinal \/ ReplaceFinal \/ SaveComplete
  <2>1. /\ at' \in {"replaceFinal", "saveComplete", "none"} /\ UNCHANGED <<ran, crashes>>
        /\ file'.state = "ended"
    BY <1>1, <1>11 DEF SaveFinal, ReplaceFinal, SaveComplete, RunInv, Sound, FilesFollow
  <2> QED
    BY <1>1, <1>2, <2>1 DEF Paid, Continues, Saving, Between
<1>12. CASE Crash \/ CrashInTrace \/ CrashInCheckpoint
  <2>1. /\ at' = "none" /\ UNCHANGED ran /\ crashes' = crashes + 1
        /\ Continues' => Continues /\ checkpoint' = checkpoint
    BY <1>12 DEF Crash, CrashInTrace, CrashInCheckpoint, Continues, disk, RunInv, TypeOK
  <2>2. Reruns' + 1 <= crashes'
    BY <1>0, <1>1, <1>2, <2>1 DEF Paid
  <2> QED
    BY <1>0, <1>1, <1>2, <1>3, <2>1, <2>2 DEF Paid, Saving, Between
<1> QED
  BY <1>4, <1>5, <1>6, <1>7, <1>8, <1>9, <1>10, <1>11, <1>12, <1>replay
  DEF Next, Step

\* However many crashes and resumptions, and wherever they come, a crash has at most one
\* round run again.
THEOREM OneRerunPerCrashHolds == Spec => []OneRerunPerCrash
<1>1. RerunInv => OneRerunPerCrash
  BY DEF RerunInv, Paid, Reruns, Again, OneRerunPerCrash
<1> QED
  BY <1>1, RerunInit, RerunNext, RunHolds, PTL DEF Spec
=============================================================================
