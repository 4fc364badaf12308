------------------------------ MODULE DebateRun ------------------------------
(***************************************************************************)
(* One debate and what survives it: the round loop of _run_locked with the *)
(* order of its writes (the JSON trace, Mongo's copy, the checkpoint), and *)
(* the calls that resume it, which first charge the budget ledger in Mongo *)
(* with what the saved rounds spent.  One execution at a time is what      *)
(* RunLock establishes under its conditions; this module takes it for      *)
(* granted and asks what crashes do to the files between them.             *)
(*                                                                         *)
(* Abstracted: what agents say in a round (a round is its number, the      *)
(* occasion on which it was run and its tokens), the reservations of the   *)
(* calls in it (module BudgetGate: here a round is charged what it used),  *)
(* Mongo's copy of the checkpoint (never read), and the events, metrics    *)
(* and messages sent on the way.                                           *)
(***************************************************************************)
EXTENDS Integers, Sequences, Functions

CONSTANTS
  NumRounds,    \* config.num_rounds
  Total,        \* config.total_token_budget
  Usages,       \* the tokens a round may use
  TornWrites,   \* whether a crash may leave half a file (write_text)
  MongoFails,   \* whether Mongo writes may fail and be swallowed
  MaxCrashes,   \* bound: executions that die
  MaxChecks     \* bound: resume calls that enter the lock some time after
                \* their check (a stream, or another process)

ASSUME ConstantsAssumption ==
  /\ NumRounds \in Nat \ {0}
  /\ Total \in Nat /\ Usages \subseteq Nat
  /\ TornWrites \in BOOLEAN /\ MongoFails \in BOOLEAN
  /\ MaxCrashes \in Nat /\ MaxChecks \in Nat

VARIABLES
  at,          \* where the execution stands; "none": nothing executes
  mem,         \* its DebateTrace.rounds
  next,        \* its round_num
  file,        \* <run_id>.json
  checkpoint,  \* <run_id>.checkpoint.json
  mongo,       \* the document in debate_traces
  ledger,      \* whether a BudgetStore is wired in (fixed from the start),
               \* and what debate_budgets has left
  waiting,     \* resume calls that passed their check
  checks,      \* how many ever did
  restarted,   \* one of them found the debate completed and started it over
  born,        \* the debate was started
  ran,         \* per round: how often its agents were run to the end
  crashes

disk == <<file, checkpoint, mongo>>
calls == <<waiting, checks, restarted>>
vars == <<at, mem, next, disk, ledger, calls, born, ran, crashes>>
-----------------------------------------------------------------------------
Records == [round: 1..NumRounds, nth: Nat, tokens: Nat]

TypeOK ==
  /\ at \in {"none", "replaying", "round", "saveRound", "pushRound",
             "saveCheckpoint", "saveFinal", "replaceFinal", "saveComplete"}
  /\ mem \in Seq(Records)
  /\ next \in Nat \ {0}
  /\ restarted \/ next <= NumRounds + 1
  /\ file \in [state: {"none", "open", "ended", "torn"}, rounds: Seq(Records)]
  /\ checkpoint \in [state: {"none", "written", "torn"}, last: Nat]
  /\ mongo \in [ended: BOOLEAN, rounds: Seq(Records)]
  /\ ledger \in [wired: BOOLEAN, left: Int]
  /\ waiting \in 0..checks
  /\ checks \in 0..MaxChecks
  /\ restarted \in BOOLEAN
  /\ born \in BOOLEAN
  /\ ran \in [1..NumRounds -> Nat]
  /\ crashes \in 0..MaxCrashes

Init ==
  /\ at = "none"
  /\ mem = << >>
  /\ next = 1
  /\ file = [state |-> "none", rounds |-> << >>]
  /\ checkpoint = [state |-> "none", last |-> 0]
  /\ mongo = [ended |-> FALSE, rounds |-> << >>]
  /\ \E w \in BOOLEAN : ledger = [wired |-> w, left |-> Total]
  /\ waiting = 0
  /\ checks = 0
  /\ restarted = FALSE
  /\ born = FALSE
  /\ ran = [n \in 1..NumRounds |-> 0]
  /\ crashes = 0
-----------------------------------------------------------------------------
(* The budget ledger, and what the trace says was spent.                    *)

Tokens(s) == SumFunction([i \in DOMAIN s |-> s[i].tokens])

\* A ledger that is wired in is charged; without one there is none.
Charged(u) == IF ledger.wired THEN [ledger EXCEPT !.left = @ - u] ELSE ledger

\* The tokens calls may use: with nothing left in the ledger each is refused.
Usable == IF ledger.wired /\ ledger.left <= 0 THEN {0} ELSE Usages

\* already_spent, capped by what a new gate has.
ReplayAmount(s) == IF Tokens(s) < Total THEN Tokens(s) ELSE Total

\* BudgetStore.reserve() would not admit the replay of the rounds s.
Unaffordable(s) == ledger.wired /\ ReplayAmount(s) > ledger.left
-----------------------------------------------------------------------------
(* Entering: a new debate, or the resumption of one.                        *)

StartFresh ==
  /\ ~born
  /\ born' = TRUE
  /\ at' = "round"
  /\ UNCHANGED <<mem, next, disk, ledger, calls, ran, crashes>>


\* Mutant of Resumable: the test of ended_at is forgotten.
ResumableIfAny == file.state \in {"open", "ended"}

\* _load_resumable_trace and the CLI's resume: a trace that is not ended.
Resumable == file.state = "open"

\* Mutant of FirstRound: the last completed round is run once more.
LastRound == checkpoint.last

\* start_round of a resumed execution.
FirstRound == checkpoint.last + 1

\* _run_locked: continue after the checkpoint, or start over under the same
\* run_id if the trace is ended or no checkpoint was ever written.  A file
\* that does not parse raises instead.  Tokens of saved rounds are replayed
\* into the gate before anything else.
Enter ==
  /\ at = "none"
  /\ file.state # "torn"
  /\ checkpoint.state # "torn"
  /\ IF file.state = "open" /\ checkpoint.state = "written"
     THEN mem' = file.rounds /\ next' = FirstRound
     ELSE mem' = << >> /\ next' = 1
  /\ at' = IF Tokens(mem') > 0 THEN "replaying" ELSE "round"
  /\ UNCHANGED <<disk, ledger, born, ran, crashes>>

\* Check and entry without an await in between that lets others run: one
\* process, no streaming.
Resume ==
  /\ Resumable
  /\ Enter
  /\ UNCHANGED calls

\* Otherwise the check and the entry are two steps.
Check ==
  /\ Resumable
  /\ checks < MaxChecks
  /\ checks' = checks + 1
  /\ waiting' = waiting + 1
  /\ UNCHANGED <<restarted, at, mem, next, disk, ledger, born, ran,
                 crashes>>

EnterLate ==
  /\ waiting > 0
  /\ waiting' = waiting - 1
  /\ restarted' = (restarted \/ file.state = "ended")
  /\ UNCHANGED checks
  /\ Enter

\* 409: another execution holds the lock.  Or a file does not parse.
TurnAway ==
  /\ waiting > 0
  /\ \/ at # "none"
     \/ file.state = "torn"
     \/ checkpoint.state = "torn"
  /\ waiting' = waiting - 1
  /\ UNCHANGED <<checks, restarted, at, mem, next, disk, ledger, born, ran,
                 crashes>>

\* The replay: the ledger that survived the earlier execution is charged for
\* the same rounds once more.
Replay ==
  /\ at = "replaying"
  /\ ~Unaffordable(mem)
  /\ ledger' = Charged(ReplayAmount(mem))
  /\ at' = "round"
  /\ UNCHANGED <<mem, next, disk, calls, born, ran, crashes>>

\* Or it has too little left: BudgetExhaustedError leaves _run_locked before
\* the first round, and the files stay as they are.
RefuseReplay ==
  /\ at = "replaying"
  /\ Unaffordable(mem)
  /\ at' = "none"
  /\ UNCHANGED <<mem, next, disk, ledger, calls, born, ran, crashes>>
-----------------------------------------------------------------------------
(* The round loop.                                                          *)

\* A round's agents were run, with or without exclusions, and its record is
\* appended to the trace in memory.
RunRound(u) ==
  /\ at = "round"
  /\ next <= NumRounds
  /\ u \in Usable
  /\ ledger' = Charged(u)
  /\ ran' = [ran EXCEPT ![next] = @ + 1]
  /\ mem' = Append(mem, [round |-> next, nth |-> ran'[next], tokens |-> u])
  /\ at' = "saveRound"
  /\ UNCHANGED <<next, disk, calls, born, crashes>>

\* JsonStore.save_round: the whole file, from memory.
SaveRound ==
  /\ at = "saveRound"
  /\ file' = [state |-> "open", rounds |-> mem]
  /\ at' = "pushRound"
  /\ UNCHANGED <<mem, next, checkpoint, mongo, ledger, calls, born, ran, crashes>>

\* MongoStore.save_round: the new record alone, by $push.
PushRound ==
  /\ at = "pushRound"
  /\ \/ mongo' = [mongo EXCEPT !.rounds = Append(@, mem[Len(mem)])]
     \/ MongoFails /\ mongo' = mongo
  /\ at' = "saveCheckpoint"
  /\ UNCHANGED <<mem, next, file, checkpoint, ledger, calls, born, ran, crashes>>

\* Mutant of LastCompleted: one round ahead.
LastCompletedNext == next + 1

\* last_completed_round.
LastCompleted == next

SaveCheckpoint ==
  /\ at = "saveCheckpoint"
  /\ checkpoint' = [state |-> "written", last |-> LastCompleted]
  /\ next' = next + 1
  /\ at' = "round"
  /\ UNCHANGED <<mem, file, mongo, ledger, calls, born, ran, crashes>>

\* The loop is over, or a budget check breaks it (allocate() raises before
\* the round, or the budget is negative after one), and a memo is written;
\* what a tie-breaker uses for it is in no record.
EndLoop(u) ==
  /\ at = "round"
  /\ u \in {0} \cup Usable
  /\ ledger' = Charged(u)
  /\ at' = "saveFinal"
  /\ UNCHANGED <<mem, next, disk, calls, born, ran, crashes>>

SaveFinal ==
  /\ at = "saveFinal"
  /\ file' = [state |-> "ended", rounds |-> mem]
  /\ at' = "replaceFinal"
  /\ UNCHANGED <<mem, next, checkpoint, mongo, ledger, calls, born, ran, crashes>>

\* Mutant of Replaced: only the end is set, the pushed rounds stay.
EndedOnly == [mongo EXCEPT !.ended = TRUE]

\* MongoStore.save_final: the whole document, by replace_one.
Replaced == [ended |-> TRUE, rounds |-> mem]

ReplaceFinal ==
  /\ at = "replaceFinal"
  /\ \/ mongo' = Replaced
     \/ MongoFails /\ mongo' = mongo
  /\ at' = "saveComplete"
  /\ UNCHANGED <<mem, next, file, checkpoint, ledger, calls, born, ran, crashes>>

SaveComplete ==
  /\ at = "saveComplete"
  /\ checkpoint' = [state |-> "written", last |-> Len(mem)]
  /\ at' = "none"
  /\ UNCHANGED <<mem, next, file, mongo, ledger, calls, born, ran, crashes>>
-----------------------------------------------------------------------------
\* What an execution that is cut may have taken from the ledger, with
\* nothing in the files to show for it.
Unrecorded ==
  {0} \cup IF at = "round" THEN Usable
          ELSE IF at = "replaying" /\ ~Unaffordable(mem)
               THEN {ReplayAmount(mem)} ELSE {}

\* The execution ends wherever it stands: the process dies, the task is
\* cancelled, or an exception leaves _run_locked.
Crash ==
  /\ at # "none"
  /\ crashes < MaxCrashes
  /\ crashes' = crashes + 1
  /\ at' = "none"
  /\ \E u \in Unrecorded : ledger' = Charged(u)
  /\ UNCHANGED <<mem, next, disk, calls, born, ran>>

\* The same inside write_text, after the file was truncated.
CrashInTrace ==
  /\ TornWrites
  /\ at \in {"saveRound", "saveFinal"}
  /\ crashes < MaxCrashes
  /\ crashes' = crashes + 1
  /\ at' = "none"
  /\ file' = [file EXCEPT !.state = "torn"]
  /\ UNCHANGED <<mem, next, checkpoint, mongo, ledger, calls, born, ran>>

CrashInCheckpoint ==
  /\ TornWrites
  /\ at \in {"saveCheckpoint", "saveComplete"}
  /\ crashes < MaxCrashes
  /\ crashes' = crashes + 1
  /\ at' = "none"
  /\ checkpoint' = [checkpoint EXCEPT !.state = "torn"]
  /\ UNCHANGED <<mem, next, file, mongo, ledger, calls, born, ran>>

Step ==
  \/ Replay \/ RefuseReplay
  \/ \E u \in {0} \cup Usages : RunRound(u) \/ EndLoop(u)
  \/ SaveRound \/ PushRound \/ SaveCheckpoint
  \/ SaveFinal \/ ReplaceFinal \/ SaveComplete

Next ==
  \/ StartFresh \/ Resume \/ Check \/ EnterLate \/ TurnAway
  \/ Step
  \/ Crash \/ CrashInTrace \/ CrashInCheckpoint

Spec == Init /\ [][Next]_vars

\* An execution proceeds (its awaits end), and somebody resumes a debate
\* that was interrupted.
FairSpec == Spec /\ WF_vars(Step) /\ WF_vars(Resume)
-----------------------------------------------------------------------------
Numbers(s) == {s[i].round : i \in DOMAIN s}

\* Every round a checkpoint counts as completed is in the trace that a
\* resumption would read: it never skips a round (save_round comes before
\* save_checkpoint in _run_locked), unless a completed debate was started over.
CheckpointedRoundsSaved ==
  ~restarted /\ checkpoint.state = "written" /\ file.state = "open" =>
    1..checkpoint.last \subseteq Numbers(file.rounds)

\* A saved trace has no hole: with round n it has every round before n,
\* whatever crashed and was resumed.
NoRoundMissing ==
  ~restarted /\ file.state # "torn" =>
    \A n \in Numbers(file.rounds) : 1..n \subseteq Numbers(file.rounds)

\* What a resumption reads makes sense, after any crashes: the files are of
\* their types, and agree with each other and with the rounds that were run.
FilesConsistent == TypeOK /\ CheckpointedRoundsSaved /\ NoRoundMissing

\* A crash has at most one round run again: "so a crash doesn't re-spend
\* tokens on work that already finished" (DebateOrchestrator.run).
OneRerunPerCrash ==
  ~restarted =>
    SumFunction([n \in 1..NumRounds |-> IF ran[n] = 0 THEN 0 ELSE ran[n] - 1])
      <= crashes

\* When an execution has ended and its last Mongo write worked, Mongo has
\* the rounds of the JSON trace, whatever was pushed twice or not at all on
\* the way (the replace_one of save_final).
MongoMatchesTrace ==
  ~restarted /\ at = "none" /\ mongo.ended /\ file.state = "ended" =>
    mongo.rounds = file.rounds

\* A completed debate is written again only by a resume request that was
\* checked while it was not completed: one made later is refused, and so is
\* one that enters at once (_load_resumable_trace, and the CLI's resume).
CompletedIsFinal ==
  [][file.state = "ended" /\ file' # file => restarted]_vars

\* An interrupted debate whose ledger has less left than its saved rounds
\* used: every resumption is refused at its replay.
Stranded ==
  /\ at \in {"none", "replaying"}
  /\ file.state = "open" /\ checkpoint.state = "written"
  /\ Unaffordable(file.rounds)

=============================================================================
