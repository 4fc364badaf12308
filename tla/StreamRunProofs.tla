--------------------------- MODULE StreamRunProofs ---------------------------
(***************************************************************************)
(* Theorems about StreamRun, for any debates, committees and numbers of    *)
(* rounds: what gauges, metrics, subscribers and viewers are told, and     *)
(* that the frames on their way make up what a viewer does not know yet.   *)
(***************************************************************************)
EXTENDS StreamRun, FoldFacts, TLAPS

-----------------------------------------------------------------------------
\* Where a task is suspended, its round and agent are in range, and the trace has the
\* rounds before.

Position(d) ==
  /\ at[d] = "asking" => /\ round[d] \in Rounds /\ turn[d] \in Agents
                         /\ disk[d].rounds = round[d] - 1
  /\ at[d] = "saving" => round[d] \in Rounds /\ disk[d].rounds = round[d]
  /\ at[d] \in {"savingFinal", "releasing", "over"} => disk[d].ended

Positioned == \A d \in Debates : Position(d)

TypeInv == TypeOK /\ Positioned

USE TelemetryAssumption, StreamAssumption

LEMMA FramesTyped ==
  /\ \A r \in Rounds, a \in Agents : /\ Frame("agent_reasoning_start", r, a) \in Frames
                                     /\ Frame("agent_reasoning_end", r, a) \in Frames
  /\ \A r \in Rounds : /\ Frame("round_start", r, 0) \in Frames
                       /\ Frame("convergence_computed", r, 0) \in Frames
  /\ Frame("done", 0, 0) \in Frames
  /\ Frame("error", 0, 0) \in Frames
BY DEF Frame, Frames, Terminal

\* The viewer keeps its type, whatever frame it folds.
Views == [status : {"idle", "running", "done", "error", "stopped"}, round : 0..NumRounds,
          reasoning : SUBSET (Rounds \X Agents), scored : 0..NumRounds]

LEMMA ApplyTyped == \A v \in Views, f \in Frames : Apply(v, f) \in Views
<1>1. SUFFICES ASSUME NEW v \in Views, NEW f \in Frames PROVE Apply(v, f) \in Views
  OBVIOUS
<1>2. /\ f.event \in {"agent_reasoning_start", "agent_reasoning_end"} =>
            <<f.round, f.agent>> \in Rounds \X Agents
      /\ f.round \in 0..NumRounds
  BY DEF Frames, Terminal, Rounds
<1>3. /\ Apply(v, f).status \in {"idle", "running", "done", "error", "stopped"}
      /\ Apply(v, f).round \in 0..NumRounds
      /\ Apply(v, f).scored \in 0..NumRounds
  BY <1>2 DEF Apply, Views, Terminal
<1>4. Apply(v, f).reasoning \in SUBSET (Rounds \X Agents)
  BY <1>2 DEF Apply, Views
<1>5. QED BY <1>3, <1>4 DEF Apply, Views

-----------------------------------------------------------------------------
\* The continuations keep the types.

LEMMA EmitTyped ==
  ASSUME StreamTypeOK, NEW d \in Debates, NEW frames \in Seq(Frames), Emit(d, frames)
  PROVE  queue' \in [Debates -> Seq(Frames)]
<1>1. queue \in [Debates -> Seq(Frames)]
  BY DEF StreamTypeOK
<1>2. queue[d] \o frames \in Seq(Frames)
  BY <1>1
<1>3. CASE d \in Streamed
  BY <1>1, <1>2, <1>3 DEF Emit
<1>4. CASE d \notin Streamed
  BY <1>1, <1>4 DEF Emit
<1>5. QED BY <1>3, <1>4

LEMMA GaugeTyped ==
  ASSUME NEW g \in Gauges, NEW a \in Agents
  PROVE  Activated(g, a) \in Gauges /\ Rested(g, a) \in Gauges
BY DEF Activated, Rested, Gauges

\* The variables that continuations leave to the action.
Rest == /\ UNCHANGED <<heard, gen, view>>
        /\ active' \in Debates \cup {NoDebate}
        /\ tracker' \in [Debates -> {"idle", "logging", "disabled"}]
        /\ runs' \in [Debates -> [state : {"none", "running", "finished"},
                                  metrics : SUBSET (Debates \X Rounds)]]

LEMMA AskTyped ==
  ASSUME TypeInv, NEW d \in Debates, NEW r \in Rounds, NEW a \in Agents,
         NEW said \in Seq(Frames), NEW g \in Gauges,
         disk[d].rounds = r - 1, Ask(d, r, a, said, g), Rest
  PROVE  TypeInv'
<1>1. Append(said, Frame("agent_reasoning_start", r, a)) \in Seq(Frames)
  BY FramesTyped
<1>2. said \o <<Frame("agent_reasoning_start", r, a)>> \in Seq(Frames)
  BY FramesTyped
<1>3. queue' \in [Debates -> Seq(Frames)]
  BY <1>2, EmitTyped DEF Ask, TypeInv, TypeOK
<1>4. Activated(g, a) \in Gauges
  BY GaugeTyped
<1>5. TaskTypeOK'
  BY DEF TypeInv, TypeOK, TaskTypeOK, Ask, Rest, Places, Ended, Rounds, Agents
<1>6. StreamTypeOK'
  BY <1>3 DEF TypeInv, TypeOK, StreamTypeOK, Rest
<1>7. TelemetryTypeOK'
  BY <1>4 DEF TypeInv, TypeOK, TelemetryTypeOK, Rest, Ask, Gauges
<1>8. Positioned'
  BY DEF TypeInv, TypeOK, TaskTypeOK, Positioned, Position, Ask
<1>9. QED BY <1>5, <1>6, <1>7, <1>8 DEF TypeInv, TypeOK

LEMMA ConcludeTyped ==
  ASSUME TypeInv, NEW d \in Debates, NEW r \in Rounds,
         NEW said \in Seq(Frames), Conclude(d, r, said), Rest
  PROVE  TypeInv'
<1>1. queue' \in [Debates -> Seq(Frames)]
  BY EmitTyped DEF Conclude, TypeInv, TypeOK
<1>2. TaskTypeOK'
  BY DEF TypeInv, TypeOK, TaskTypeOK, Conclude, Rest, Places, Ended, Rounds
<1>3. StreamTypeOK'
  BY <1>1 DEF TypeInv, TypeOK, StreamTypeOK, Rest
<1>4. TelemetryTypeOK'
  BY DEF TypeInv, TypeOK, TelemetryTypeOK, Rest, Conclude
<1>5. Positioned'
  BY DEF TypeInv, TypeOK, TaskTypeOK, Positioned, Position, Conclude
<1>6. QED BY <1>2, <1>3, <1>4, <1>5 DEF TypeInv, TypeOK

LEMMA EnterRoundTyped ==
  ASSUME TypeInv, NEW d \in Debates, NEW r \in Rounds, disk[d].rounds = r - 1,
         EnterRound(d, r), Rest
  PROVE  TypeInv'
<1>1. <<Frame("round_start", r, 0)>> \in Seq(Frames)
  BY FramesTyped
<1>2. gauge[d] \in Gauges /\ 1 \in Agents
  BY DEF TypeInv, TypeOK, TelemetryTypeOK, Gauges, Agents
<1>3. CASE Ask(d, r, 1, <<Frame("round_start", r, 0)>>, gauge[d])
  BY <1>1, <1>2, <1>3, AskTyped
<1>4. CASE Conclude(d, r, <<Frame("round_start", r, 0)>>)
  BY <1>1, <1>4, ConcludeTyped
<1>5. QED BY <1>3, <1>4 DEF EnterRound

LEMMA EndRoundTyped ==
  ASSUME TypeInv, NEW d \in Debates, at[d] = "asking",
         NEW said \in Seq(Frames), NEW g \in Gauges, EndRound(d, said, g), Rest
  PROVE  TypeInv'
<1> DEFINE closing == Append(said, Frame("convergence_computed", round[d], 0))
<1>1. round[d] \in Rounds
  BY DEF TypeInv, Positioned, Position
<1>2. closing \in Seq(Frames) /\ closing \o <<Frame("error", 0, 0)>> \in Seq(Frames)
  BY <1>1, FramesTyped
<1>3. queue' \in [Debates -> Seq(Frames)]
  BY <1>2, EmitTyped DEF EndRound, Fail, TypeInv, TypeOK
<1>4. TaskTypeOK' /\ Positioned'
  <2>1. CASE at' = [at EXCEPT ![d] = "saving"] /\ disk' = [disk EXCEPT ![d].rounds = round[d]]
    <3>1. disk[d] \in [rounds : 0..NumRounds, ended : BOOLEAN]
      BY DEF TypeInv, TypeOK, TaskTypeOK
    <3>2. [disk[d] EXCEPT !.rounds = round[d]] \in [rounds : 0..NumRounds, ended : BOOLEAN]
      BY <1>1, <3>1 DEF Rounds
    <3>3. TaskTypeOK'
      <4>1. disk' \in [Debates -> [rounds : 0..NumRounds, ended : BOOLEAN]]
        BY <2>1, <3>2 DEF TypeInv, TypeOK, TaskTypeOK
      <4>2. at' \in [Debates -> Places]
        BY <2>1 DEF TypeInv, TypeOK, TaskTypeOK, Places
      <4>3. UNCHANGED <<round, turn, heard>>
        BY DEF EndRound, Rest
      <4>4. QED BY <4>1, <4>2, <4>3 DEF TypeInv, TypeOK, TaskTypeOK
    <3>4. Positioned'
      BY <1>1, <2>1, <3>1, <3>3 DEF TypeInv, TypeOK, TaskTypeOK, Positioned, Position, EndRound
    <3>5. QED BY <3>3, <3>4
  <2>2. CASE (\E p \in {"failed", "unwinding"} : at' = [at EXCEPT ![d] = p]) /\ UNCHANGED disk
    BY <2>2 DEF TypeInv, TypeOK, TaskTypeOK, Positioned, Position, EndRound, Rest,
                Places, Ended
  <2>3. QED BY <2>1, <2>2 DEF EndRound, Fail
<1>5. StreamTypeOK'
  BY <1>3 DEF TypeInv, TypeOK, StreamTypeOK, Rest
<1>6. TelemetryTypeOK'
  <2>1. gauge' = [gauge EXCEPT ![d] = g] /\ score' = score \cup {d}
    BY DEF EndRound, Fail
  <2>2. gauge' \in [Debates -> Gauges] /\ score' \in SUBSET Debates
    BY <2>1 DEF TypeInv, TypeOK, TelemetryTypeOK, Gauges
  <2>3. left' \in [Debates -> SUBSET Agents]
    BY DEF EndRound, TypeInv, TypeOK, TelemetryTypeOK
  <2>4. QED BY <2>2, <2>3 DEF TelemetryTypeOK, Rest
<1>7. QED BY <1>4, <1>5, <1>6 DEF TypeInv, TypeOK

-----------------------------------------------------------------------------
\* What Telemetry does to the MLflow variables.

MlflowTyped ==
  /\ active \in Debates \cup {NoDebate}
  /\ tracker \in [Debates -> {"idle", "logging", "disabled"}]
  /\ runs \in [Debates -> [state : {"none", "running", "finished"},
                           metrics : SUBSET (Debates \X Rounds)]]

LEMMA StartRunTyped ==
  ASSUME MlflowTyped, NEW d \in Debates, StartRun(d)
  PROVE  MlflowTyped'
<1>1. CASE StartFails(d)
  BY <1>1 DEF MlflowTyped, StartFails
<1>2. CASE StartSucceeds(d)
  BY <1>2 DEF MlflowTyped, StartSucceeds
<1>3. QED BY <1>1, <1>2 DEF StartRun

LEMMA LogRoundTyped ==
  ASSUME MlflowTyped, NEW d \in Debates, NEW r \in Rounds, LogRound(d, r)
  PROVE  MlflowTyped'
<1>1. CASE LogMetric(d, r)
  <2>1. \A x \in Debates : [runs[x] EXCEPT !.metrics = @ \cup {<<d, r>>}]
                             \in [state : {"none", "running", "finished"},
                                  metrics : SUBSET (Debates \X Rounds)]
    BY DEF MlflowTyped
  <2>2. QED BY <1>1, <2>1 DEF MlflowTyped, LogMetric, LogRound
<1>2. CASE UNCHANGED runs
  BY <1>2 DEF MlflowTyped, LogRound
<1>3. QED BY <1>1, <1>2 DEF LogRound

LEMMA EndRunTyped ==
  ASSUME MlflowTyped, NEW d \in Debates, EndRun(d)
  PROVE  MlflowTyped'
<1>1. \A x \in Debates : [runs[x] EXCEPT !.state = "finished"]
                           \in [state : {"none", "running", "finished"},
                                metrics : SUBSET (Debates \X Rounds)]
  BY DEF MlflowTyped
<1>2. CASE tracker[d] = "logging"
  BY <1>1, <1>2 DEF MlflowTyped, EndRun
<1>3. CASE tracker[d] # "logging"
  BY <1>3 DEF MlflowTyped, EndRun
<1>4. QED BY <1>2, <1>3

-----------------------------------------------------------------------------
LEMMA InitTyped == Init => TypeInv
<1>1. SUFFICES ASSUME Init PROVE TypeInv
  OBVIOUS
<1>2. /\ at = [d \in Debates |-> "absent"]
      /\ round = [d \in Debates |-> 0] /\ turn = [d \in Debates |-> 0]
      /\ heard = [d \in Debates |-> 0]
  BY <1>1 DEF Init
<1> DEFINE Pasts == [rounds : 0..NumRounds, gauge : Gauges, scored : BOOLEAN]
<1>0. PICK past \in [Debates -> Pasts] :
        /\ disk = [d \in Debates |-> [rounds |-> past[d].rounds, ended |-> FALSE]]
        /\ TelemetryInit([d \in Debates |-> past[d].gauge], {d \in Debates : past[d].scored})
  <2>1. PICK past \in [Debates -> UNION {Past[d] : d \in Debates}] :
          /\ \A d \in Debates : past[d] \in Past[d]
          /\ disk = [d \in Debates |-> [rounds |-> past[d].rounds, ended |-> FALSE]]
          /\ TelemetryInit([d \in Debates |-> past[d].gauge], {d \in Debates : past[d].scored})
    BY <1>1 DEF Init
  <2>2. \A d \in Debates : past[d] \in Pasts
    BY <2>1
  <2>3. past \in [Debates -> Pasts]
    <3> HIDE DEF Pasts
    <3> QED
      BY <2>1, <2>2
  <2> QED
    BY <2>1, <2>3
<1>3. disk \in [Debates -> [rounds : 0..NumRounds, ended : BOOLEAN]]
  <2>1. \A d \in Debates : [rounds |-> past[d].rounds, ended |-> FALSE]
                             \in [rounds : 0..NumRounds, ended : BOOLEAN]
    OBVIOUS
  <2>2. QED BY <1>0, <2>1
<1>4. TaskTypeOK
  <2>1. "absent" \in Places /\ 0 \in 0..NumRounds /\ 0 \in 0..MaxAgents /\ 0 \in 0..NumRounds + 1
    BY DEF Places
  <2>2. QED BY <1>2, <1>3, <2>1 DEF TaskTypeOK
<1>5. Positioned
  BY <1>2 DEF Positioned, Position
<1>6. StreamTypeOK
  <2>1. <<>> \in Seq(Frames)
    OBVIOUS
  <2>2. NoView \in Views
    BY DEF NoView, Views
  <2>3. /\ queue = [d \in Debates |-> <<>>]
        /\ gen = [d \in Debates |-> "absent"]
        /\ view = [d \in Debates |-> NoView]
    BY <1>1 DEF Init
  <2>4. QED BY <2>1, <2>2, <2>3 DEF StreamTypeOK, Views
<1>7. TelemetryTypeOK
  <2>1. [state |-> "none", metrics |-> {}] \in [state : {"none", "running", "finished"},
                                               metrics : SUBSET (Debates \X Rounds)]
    OBVIOUS
  <2>2. /\ gauge = [d \in Debates |-> past[d].gauge]
        /\ score = {d \in Debates : past[d].scored}
        /\ left = [d \in Debates |-> Active(d)] /\ active = NoDebate
        /\ tracker = [d \in Debates |-> "idle"]
        /\ runs = [d \in Debates |-> [state |-> "none", metrics |-> {}]]
    BY <1>0 DEF TelemetryInit
  <2>3. \A d \in Debates : past[d].gauge \in Gauges /\ Active(d) \in SUBSET Agents
    BY DEF Active
  <2> HIDE DEF Pasts
  <2>4. QED BY <2>1, <2>2, <2>3 DEF TelemetryTypeOK
<1>8. QED BY <1>3, <1>4, <1>5, <1>6, <1>7 DEF TypeInv, TypeOK

LEMMA OpenedTyped ==
  ASSUME StreamTypeOK, NEW d \in Debates, NEW g \in {"open", "closed"},
         NEW status \in {"running", "error"}, Opened(d, g, status), UNCHANGED queue
  PROVE  StreamTypeOK'
<1>1. view \in [Debates -> Views]
  BY DEF StreamTypeOK, Views
<1>2. [view[d] EXCEPT !.status = status] \in Views
  BY <1>1 DEF Views
<1>3. view' \in [Debates -> Views]
  BY <1>1, <1>2 DEF Opened
<1>4. gen' \in [Debates -> {"absent", "open", "closed"}]
  BY DEF Opened, StreamTypeOK
<1>5. QED BY <1>3, <1>4 DEF StreamTypeOK, Views

\* Every action keeps the types.
LEMMA NextTyped == TypeInv /\ [Next]_vars => TypeInv'
<1> SUFFICES ASSUME TypeInv, [Next]_vars PROVE TypeInv'
  OBVIOUS
<1>1. CASE UNCHANGED vars
  BY <1>1 DEF vars, taskVars, streamVars, telemetryVars, TypeInv, TypeOK, TaskTypeOK, StreamTypeOK,
              TelemetryTypeOK, Positioned, Position
<1>2. ASSUME NEW d \in Debates, Build(d) \/ BuildFails(d)
      PROVE  TypeInv'
  <2>1. TaskTypeOK' /\ Positioned'
    BY <1>2 DEF Build, BuildFails, TypeInv, TypeOK, TaskTypeOK, Positioned, Position, Places, Ended
  <2>2. StreamTypeOK'
    BY <1>2, OpenedTyped DEF Build, BuildFails, TypeInv, TypeOK
  <2>3. TelemetryTypeOK'
    BY <1>2 DEF Build, BuildFails, TypeInv, TypeOK, TelemetryTypeOK, telemetryVars
  <2>4. QED BY <2>1, <2>2, <2>3 DEF TypeInv, TypeOK
<1>3. ASSUME NEW d \in Debates, Begin(d)
      PROVE  TypeInv'
  <2>1. MlflowTyped
    BY DEF TypeInv, TypeOK, TelemetryTypeOK, MlflowTyped
  <2>2. Rest
    BY <1>3, <2>1, StartRunTyped DEF Begin, MlflowTyped, Rest
  <2>3. CASE RoundsLeft(disk[d].rounds)
    <3>1. disk[d].rounds + 1 \in Rounds /\ disk[d].rounds = (disk[d].rounds + 1) - 1
      BY <2>3 DEF TypeInv, TypeOK, TaskTypeOK, RoundsLeft, Rounds
    <3>2. EnterRound(d, disk[d].rounds + 1)
      BY <1>3, <2>3 DEF Begin
    <3>3. QED BY <2>2, <3>1, <3>2, EnterRoundTyped
  <2>4. CASE ~RoundsLeft(disk[d].rounds)
    <3>1. NumRounds \in Rounds /\ <<>> \in Seq(Frames)
      BY DEF Rounds
    <3>2. Conclude(d, NumRounds, <<>>)
      BY <1>3, <2>4 DEF Begin
    <3>3. QED BY <2>2, <3>1, <3>2, ConcludeTyped
  <2>5. QED BY <2>3, <2>4
<1>4. ASSUME NEW d \in Debates, Answer(d) \/ Refuse(d)
      PROVE  TypeInv'
  <2>1. /\ at[d] = "asking" /\ round[d] \in Rounds /\ turn[d] \in Agents
        /\ disk[d].rounds = round[d] - 1
    BY <1>4 DEF Answer, Refuse, TypeInv, Positioned, Position
  <2>2. Rest
    BY <1>4 DEF Answer, Refuse, Rest, TypeInv, TypeOK, TelemetryTypeOK
  <2>3. <<AgentEnd(d)>> \in Seq(Frames)
    BY <2>1, FramesTyped DEF AgentEnd
  <2>4. Rested(gauge[d], turn[d]) \in Gauges
    BY <2>1, GaugeTyped DEF TypeInv, TypeOK, TelemetryTypeOK, Gauges
  <2>5. CASE Answer(d) /\ turn[d] < Team[d]
    <3>1. turn[d] + 1 \in Agents
      BY <2>1, <2>5 DEF Agents
    <3>2. Ask(d, round[d], turn[d] + 1, <<AgentEnd(d)>>, Rested(gauge[d], turn[d]))
      BY <2>5 DEF Answer
    <3>3. QED BY <2>1, <2>2, <2>3, <2>4, <3>1, <3>2, AskTyped
  <2>6. CASE EndRound(d, <<AgentEnd(d)>>, Rested(gauge[d], turn[d]))
    BY <2>1, <2>2, <2>3, <2>4, <2>6, EndRoundTyped
  <2>7. QED BY <1>4, <2>5, <2>6 DEF Answer, Refuse, RefusalFrames
<1>5. ASSUME NEW d \in Debates, Publish(d)
      PROVE  TypeInv'
  BY <1>5 DEF Publish, TypeInv, TypeOK, TaskTypeOK, StreamTypeOK, TelemetryTypeOK, Positioned,
              Position, taskVars, streamVars, telemetryVars
<1>6. ASSUME NEW d \in Debates, Continue(d)
      PROVE  TypeInv'
  <2>1. at[d] = "saving" /\ round[d] \in Rounds /\ disk[d].rounds = round[d]
    BY <1>6 DEF Continue, TypeInv, Positioned, Position
  <2>2. MlflowTyped
    BY DEF TypeInv, TypeOK, TelemetryTypeOK, MlflowTyped
  <2>3. Rest
    BY <1>6, <2>1, <2>2, LogRoundTyped DEF Continue, MlflowTyped, Rest
  <2>4. <<>> \in Seq(Frames)
    OBVIOUS
  <2>5. CASE Conclude(d, round[d], <<>>)
    BY <2>1, <2>3, <2>4, <2>5, ConcludeTyped
  <2>6. CASE RoundsLeft(round[d]) /\ EnterRound(d, round[d] + 1)
    <3>1. round[d] + 1 \in Rounds /\ disk[d].rounds = (round[d] + 1) - 1
      BY <2>1, <2>6 DEF RoundsLeft, Rounds
    <3>2. QED BY <2>3, <2>6, <3>1, EnterRoundTyped
  <2>7. QED BY <1>6, <2>5, <2>6 DEF Continue
<1>7. ASSUME NEW d \in Debates, SaveFinal(d)
      PROVE  TypeInv'
  <2>1. disk[d] \in [rounds : 0..NumRounds, ended : BOOLEAN]
    BY DEF TypeInv, TypeOK, TaskTypeOK
  <2>2. /\ [disk[d] EXCEPT !.ended = TRUE] \in [rounds : 0..NumRounds, ended : BOOLEAN]
        /\ [disk[d] EXCEPT !.ended = TRUE].ended = TRUE
    BY <2>1
  <2>3. TaskTypeOK'
    BY <1>7, <2>2 DEF SaveFinal, TypeInv, TypeOK, TaskTypeOK, Places
  <2>4. Positioned'
    BY <1>7, <2>2 DEF SaveFinal, TypeInv, TypeOK, TaskTypeOK, Positioned, Position
  <2>5. QED BY <1>7, <2>3, <2>4 DEF SaveFinal, TypeInv, TypeOK, StreamTypeOK, TelemetryTypeOK,
                                    streamVars, telemetryVars
<1>8. ASSUME NEW d \in Debates, Finish(d)
      PROVE  TypeInv'
  <2>1. <<Frame("done", 0, 0)>> \in Seq(Frames)
    BY FramesTyped
  <2>2. StreamTypeOK'
    BY <1>8, <2>1, EmitTyped DEF Finish, Complete, TypeInv, TypeOK, StreamTypeOK
  <2>3. MlflowTyped'
    BY <1>8, EndRunTyped DEF Finish, MlflowTyped, TypeInv, TypeOK, TelemetryTypeOK
  <2>4. TelemetryTypeOK'
    <3>1. gauge \in [Debates -> Gauges]
      BY DEF TypeInv, TypeOK, TelemetryTypeOK
    <3>2. Cleared(gauge[d], Team[d]) \in Gauges
      BY <3>1 DEF Cleared, Gauges
    <3>3. gauge' \in [Debates -> Gauges]
      BY <1>8, <3>1, <3>2 DEF Finish, ClearGauges
    <3>4. score' \in SUBSET Debates /\ left' \in [Debates -> SUBSET Agents]
      BY <1>8 DEF Finish, ClearGauges, TypeInv, TypeOK, TelemetryTypeOK
    <3>5. QED BY <2>3, <3>3, <3>4 DEF MlflowTyped, TelemetryTypeOK
  <2>5. TaskTypeOK' /\ Positioned'
    BY <1>8 DEF Finish, Complete, TypeInv, TypeOK, TaskTypeOK, Positioned, Position, Places, Ended
  <2>6. QED BY <2>2, <2>4, <2>5 DEF TypeInv, TypeOK
<1>14. ASSUME NEW d \in Debates, Deliver(d) \/ Unwind(d)
       PROVE  TypeInv'
  <2>1. <<Frame("done", 0, 0)>> \in Seq(Frames) /\ <<Frame("error", 0, 0)>> \in Seq(Frames)
    BY FramesTyped
  <2>2. StreamTypeOK'
    BY <1>14, <2>1, EmitTyped DEF Deliver, Unwind, Complete, TypeInv, TypeOK, StreamTypeOK
  <2>3. TaskTypeOK' /\ Positioned'
    BY <1>14 DEF Deliver, Unwind, Complete, TypeInv, TypeOK, TaskTypeOK, Positioned, Position,
                 Places, Ended
  <2>4. QED BY <1>14, <2>2, <2>3 DEF Deliver, Unwind, TypeInv, TypeOK, TelemetryTypeOK, telemetryVars
<1>9. ASSUME NEW d \in Debates, Raise(d)
      PROVE  TypeInv'
  <2>1. <<>> \o <<Frame("error", 0, 0)>> \in Seq(Frames) /\ <<>> \in Seq(Frames)
    BY FramesTyped
  <2>2. StreamTypeOK'
    BY <1>9, <2>1, EmitTyped DEF Raise, Fail, TypeInv, TypeOK, StreamTypeOK
  <2>3. TelemetryTypeOK'
    BY <1>9 DEF Raise, Fail, TypeInv, TypeOK, TelemetryTypeOK
  <2>4. /\ \E p \in {"failed", "unwinding"} : at' = [at EXCEPT ![d] = p]
        /\ UNCHANGED <<round, turn, disk, heard>>
    BY <1>9 DEF Raise, Fail
  <2>6. TaskTypeOK' /\ Positioned'
    BY <2>4 DEF TypeInv, TypeOK, TaskTypeOK, Positioned, Position, Places, Ended
  <2>5. QED BY <2>2, <2>3, <2>6 DEF TypeInv, TypeOK
<1>10. ASSUME NEW d \in Debates, Show(d)
       PROVE  TypeInv'
  <2>1. /\ view \in [Debates -> Views]
        /\ queue \in [Debates -> Seq(Frames)]
    BY DEF TypeInv, TypeOK, StreamTypeOK, Views
  <2>2. Head(queue[d]) \in Frames /\ Tail(queue[d]) \in Seq(Frames)
    BY <1>10, <2>1 DEF Show
  <2>3. Apply(view[d], Head(queue[d])) \in Views
    BY <2>1, <2>2, ApplyTyped
  <2>4. view' \in [Debates -> Views] /\ queue' \in [Debates -> Seq(Frames)]
    BY <1>10, <2>1, <2>2, <2>3 DEF Show
  <2>5. gen' \in [Debates -> {"absent", "open", "closed"}]
    BY <1>10 DEF Show, TypeInv, TypeOK, StreamTypeOK
  <2>6. StreamTypeOK'
    BY <2>4, <2>5 DEF StreamTypeOK, Views
  <2>7. TaskTypeOK' /\ Positioned'
    BY <1>10 DEF Show, Stopped, TypeInv, TypeOK, TaskTypeOK, Positioned, Position, Places, Ended
  <2>8. QED BY <1>10, <2>6, <2>7 DEF Show, TypeInv, TypeOK, TelemetryTypeOK, telemetryVars
<1>11. ASSUME NEW d \in Debates, Leave(d)
       PROVE  TypeInv'
  <2>1. [NoView EXCEPT !.status = "stopped"] \in Views
    BY DEF NoView, Views
  <2>2. StreamTypeOK'
    BY <1>11, <2>1 DEF Leave, TypeInv, TypeOK, StreamTypeOK, Views
  <2>3. QED BY <1>11, <2>2 DEF Leave, TypeInv, TypeOK, TaskTypeOK, TelemetryTypeOK, Positioned,
                               Position, taskVars, telemetryVars
<1>12. ASSUME NEW d \in Debates, Close(d)
       PROVE  TypeInv'
  <2>1. StreamTypeOK'
    BY <1>12 DEF Close, TypeInv, TypeOK, StreamTypeOK
  <2>2. TaskTypeOK' /\ Positioned'
    BY <1>12 DEF Close, Stopped, TypeInv, TypeOK, TaskTypeOK, Positioned, Position, Places, Ended
  <2>3. QED BY <1>12, <2>1, <2>2 DEF Close, TypeInv, TypeOK, TelemetryTypeOK, telemetryVars
<1>13. QED BY <1>1, <1>2, <1>3, <1>4, <1>5, <1>6, <1>7, <1>8, <1>9, <1>10, <1>11, <1>12,
              <1>14 DEF Next

LEMMA TypeInvHolds == Spec => []TypeInv
BY InitTyped, NextTyped, PTL DEF Spec

\* The variables keep their types: no frame, round or agent out of range is ever put
\* in a queue, shown, or logged.
THEOREM TypeCorrect == Spec => []TypeOK
<1>1. TypeInv => TypeOK
  BY DEF TypeInv
<1>2. QED BY <1>1, TypeInvHolds, PTL

-----------------------------------------------------------------------------
\* The gauges.

LEMMA ActiveSets ==
  ASSUME NEW g \in Gauges, NEW a \in Agents, NEW L
  PROVE  /\ {x \in Agents : g[x] = "active"} = L =>
              {x \in Agents : Activated(g, a)[x] = "active"} = {a} \cup (L \ {a})
         /\ {x \in Agents : g[x] = "active"} = {a} \cup L /\ a \notin L =>
              {x \in Agents : Rested(g, a)[x] = "active"} = L
BY DEF Gauges, Activated, Rested

\* What GaugesTell says of one debate; and that the agent it asks is none of those left.
GaugeTells(d) ==
  /\ at[d] = "asking" => Active(d) = {turn[d]} \cup left[d] /\ turn[d] \notin left[d]
  /\ at[d] \in {"absent", "built", "saving", "concluding", "savingFinal"} => Active(d) = left[d]
  /\ at[d] \in {"unwinding", "failed", "cut"} => Active(d) \subseteq {turn[d]} \cup left[d]
  /\ at[d] \in {"releasing", "over"} =>
       /\ \A a \in 1..Team[d] : gauge[d][a] = "none"
       /\ Active(d) \subseteq left[d]
       /\ d \notin score

LEMMA AskTells ==
  ASSUME TypeInv, TypeInv', \A x \in Debates : GaugeTells(x),
         NEW d \in Debates, NEW r, NEW a \in Agents, NEW said, NEW g \in Gauges,
         {x \in Agents : g[x] = "active"} = left[d], Ask(d, r, a, said, g)
  PROVE  \A x \in Debates : GaugeTells(x)'
<1>1. gauge' = [gauge EXCEPT ![d] = Activated(g, a)] /\ at' = [at EXCEPT ![d] = "asking"]
      /\ turn' = [turn EXCEPT ![d] = a] /\ score' = score
      /\ left' = [left EXCEPT ![d] = left[d] \ {a}]
  BY DEF Ask
<1>2. /\ gauge'[d] = Activated(g, a) /\ at'[d] = "asking" /\ turn'[d] = a
      /\ left'[d] = left[d] \ {a}
  BY <1>1 DEF TypeInv, TypeOK, TaskTypeOK, TelemetryTypeOK
<1>3. Active(d)' = {a} \cup (left[d] \ {a})
  BY <1>2, ActiveSets DEF Active
<1>4. GaugeTells(d)'
  BY <1>2, <1>3 DEF GaugeTells
<1>5. ASSUME NEW x \in Debates, x # d PROVE GaugeTells(x)'
  BY <1>1, <1>5 DEF GaugeTells, Active, TypeInv, TypeOK, TaskTypeOK, TelemetryTypeOK
<1>6. QED BY <1>4, <1>5

LEMMA ConcludeTells ==
  ASSUME TypeInv, \A x \in Debates : GaugeTells(x),
         NEW d \in Debates, NEW r, NEW said,
         Active(d) = left[d], Conclude(d, r, said)
  PROVE  \A x \in Debates : GaugeTells(x)'
BY DEF Conclude, GaugeTells, Active, TypeInv, TypeOK, TaskTypeOK

LEMMA EnterRoundTells ==
  ASSUME TypeInv, TypeInv', \A x \in Debates : GaugeTells(x),
         NEW d \in Debates, NEW r, Active(d) = left[d], EnterRound(d, r)
  PROVE  \A x \in Debates : GaugeTells(x)'
<1>1. gauge[d] \in Gauges /\ 1 \in Agents
  BY DEF TypeInv, TypeOK, TelemetryTypeOK, Gauges, Agents
<1>2. {x \in Agents : gauge[d][x] = "active"} = left[d]
  BY DEF Active
<1>3. CASE Ask(d, r, 1, <<Frame("round_start", r, 0)>>, gauge[d])
  BY <1>1, <1>2, <1>3, AskTells
<1>4. CASE Conclude(d, r, <<Frame("round_start", r, 0)>>)
  BY <1>4, ConcludeTells
<1>5. QED BY <1>3, <1>4 DEF EnterRound

LEMMA EndRoundTells ==
  ASSUME TypeInv, \A x \in Debates : GaugeTells(x),
         NEW d \in Debates, NEW said, NEW g \in Gauges,
         at[d] = "asking", {x \in Agents : g[x] = "active"} = left[d], EndRound(d, said, g)
  PROVE  \A x \in Debates : GaugeTells(x)'
<1>1. /\ gauge' = [gauge EXCEPT ![d] = g] /\ score' = score \cup {d} /\ turn' = turn /\ left' = left
      /\ \E p \in {"saving", "failed", "unwinding"} : at' = [at EXCEPT ![d] = p]
  BY DEF EndRound, Fail
<1>2. gauge'[d] = g /\ at'[d] \in {"saving", "failed", "unwinding"}
  BY <1>1 DEF TypeInv, TypeOK, TaskTypeOK, TelemetryTypeOK
<1>3. GaugeTells(d)'
  BY <1>1, <1>2 DEF GaugeTells, Active
<1>4. ASSUME NEW x \in Debates, x # d PROVE GaugeTells(x)'
  BY <1>1, <1>4 DEF GaugeTells, Active, TypeInv, TypeOK, TaskTypeOK, TelemetryTypeOK
<1>5. QED BY <1>3, <1>4

LEMMA GaugeTellsHolds == Spec => [](\A d \in Debates : GaugeTells(d))
<1>1. ASSUME Init PROVE \A d \in Debates : GaugeTells(d)
  <2>1. at = [d \in Debates |-> "absent"] /\ left = [d \in Debates |-> Active(d)]
    BY <1>1 DEF Init, TelemetryInit
  <2>2. QED BY <2>1 DEF GaugeTells
<1>2. /\ TypeInv /\ TypeInv' /\ (\A d \in Debates : GaugeTells(d)) /\ [Next]_vars
      => (\A d \in Debates : GaugeTells(d))'
  <2> SUFFICES ASSUME TypeInv, TypeInv', \A x \in Debates : GaugeTells(x), [Next]_vars
               PROVE  \A x \in Debates : GaugeTells(x)'
    OBVIOUS
  <2>1. CASE UNCHANGED vars
    BY <2>1 DEF vars, taskVars, telemetryVars, GaugeTells, Active
  <2>2. ASSUME NEW d \in Debates, Build(d) \/ BuildFails(d) \/ Publish(d) \/ SaveFinal(d) \/ Leave(d)
        PROVE  \A x \in Debates : GaugeTells(x)'
    BY <2>2 DEF Build, BuildFails, Publish, SaveFinal, Leave, GaugeTells, Active, taskVars,
                telemetryVars, TypeInv, TypeOK, TaskTypeOK
  <2>3. ASSUME NEW d \in Debates, Begin(d)
        PROVE  \A x \in Debates : GaugeTells(x)'
    <3>1. Active(d) = left[d]
      BY <2>3 DEF Begin, GaugeTells
    <3>2. QED BY <2>3, <3>1, EnterRoundTells, ConcludeTells DEF Begin
  <2>4. ASSUME NEW d \in Debates, Answer(d) \/ Refuse(d)
        PROVE  \A x \in Debates : GaugeTells(x)'
    <3>1. at[d] = "asking" /\ turn[d] \in Agents /\ gauge[d] \in Gauges
      BY <2>4 DEF Answer, Refuse, TypeInv, TypeOK, TelemetryTypeOK, Positioned, Position, Gauges
    <3>2. /\ Rested(gauge[d], turn[d]) \in Gauges
          /\ {x \in Agents : Rested(gauge[d], turn[d])[x] = "active"} = left[d]
      <4>1. Active(d) = {turn[d]} \cup left[d] /\ turn[d] \notin left[d]
        BY <3>1 DEF GaugeTells
      <4>2. {x \in Agents : gauge[d][x] = "active"} = {turn[d]} \cup left[d]
        BY <4>1 DEF Active
      <4>3. Rested(gauge[d], turn[d]) \in Gauges
        BY <3>1, GaugeTyped
      <4> QED
        BY <3>1, <4>1, <4>2, <4>3, ActiveSets
    <3>3. CASE Answer(d) /\ turn[d] < Team[d]
      <4>1. turn[d] + 1 \in Agents
        BY <3>1, <3>3 DEF Agents
      <4>2. Ask(d, round[d], turn[d] + 1, <<AgentEnd(d)>>, Rested(gauge[d], turn[d]))
        BY <3>3 DEF Answer
      <4>3. QED BY <3>2, <4>1, <4>2, AskTells
    <3>4. CASE EndRound(d, <<AgentEnd(d)>>, Rested(gauge[d], turn[d]))
      BY <3>1, <3>2, <3>4, EndRoundTells
    <3>5. QED BY <2>4, <3>3, <3>4 DEF Answer, Refuse, RefusalFrames
  <2>5. ASSUME NEW d \in Debates, Continue(d)
        PROVE  \A x \in Debates : GaugeTells(x)'
    <3>1. Active(d) = left[d]
      BY <2>5 DEF Continue, GaugeTells
    <3>2. QED BY <2>5, <3>1, EnterRoundTells, ConcludeTells DEF Continue
  <2>6. ASSUME NEW d \in Debates, Finish(d)
        PROVE  \A x \in Debates : GaugeTells(x)'
    <3>1. /\ gauge' = [gauge EXCEPT ![d] = Cleared(gauge[d], Team[d])]
          /\ score' = score \ {d} /\ left' = left /\ turn' = turn
          /\ \E p \in {"over", "releasing"} : at' = [at EXCEPT ![d] = p]
      BY <2>6 DEF Finish, Complete, ClearGauges, TypeInv, TypeOK, TelemetryTypeOK
    <3>2. gauge'[d] = Cleared(gauge[d], Team[d]) /\ at'[d] \in {"over", "releasing"}
      BY <3>1 DEF TypeInv, TypeOK, TaskTypeOK, TelemetryTypeOK
    <3>3. Active(d) = left[d] /\ Team[d] \in Agents
      BY <2>6 DEF Finish, GaugeTells
    <3>4. GaugeTells(d)'
      BY <3>1, <3>2, <3>3 DEF GaugeTells, Active, Cleared, Agents
    <3>5. ASSUME NEW x \in Debates, x # d PROVE GaugeTells(x)'
      BY <3>1, <3>5 DEF GaugeTells, Active, TypeInv, TypeOK, TaskTypeOK, TelemetryTypeOK
    <3>6. QED BY <3>4, <3>5
  <2>7. ASSUME NEW d \in Debates, Raise(d)
        PROVE  \A x \in Debates : GaugeTells(x)'
    BY <2>7 DEF Raise, Fail, GaugeTells, Active, TypeInv, TypeOK, TaskTypeOK, TelemetryTypeOK
  <2>10. ASSUME NEW d \in Debates, Deliver(d) \/ Unwind(d)
         PROVE  \A x \in Debates : GaugeTells(x)'
    BY <2>10 DEF Deliver, Unwind, Complete, GaugeTells, Active, telemetryVars, TypeInv, TypeOK,
                 TaskTypeOK
  <2>8. ASSUME NEW d \in Debates, Show(d) \/ Close(d)
        PROVE  \A x \in Debates : GaugeTells(x)'
    <3>1. /\ gauge' = gauge /\ score' = score /\ turn' = turn /\ left' = left
          /\ at' = at \/ at' = Stopped(d)
      BY <2>8 DEF Show, Close, telemetryVars
    <3>2. \A x \in Debates : at'[x] = at[x] \/ at'[x] = "cut"
      BY <3>1 DEF Stopped, TypeInv, TypeOK, TaskTypeOK
    <3>3. \A x \in Debates : Active(x) \subseteq {turn[x]} \cup left[x]
      BY DEF GaugeTells, TypeInv, TypeOK, TaskTypeOK, Places, Ended
    <3>4. QED BY <3>1, <3>2, <3>3 DEF GaugeTells, Active
  <2>9. QED BY <2>1, <2>2, <2>3, <2>4, <2>5, <2>6, <2>7, <2>8, <2>10 DEF Next
<1>3. QED BY <1>1, <1>2, TypeInvHolds, PTL DEF Spec

\* The gauges show the agent that is asked, and besides it only what an earlier execution
\* left of agents this one has not come to: whatever was left, whatever the committee, and
\* whatever other debates of the process do.
THEOREM GaugesTellHolds == Spec => []GaugesTell
<1>1. (\A d \in Debates : GaugeTells(d)) => GaugesTell
  BY DEF GaugeTells, GaugesTell
<1>2. QED BY <1>1, GaugeTellsHolds, PTL

-----------------------------------------------------------------------------
\* What a step never undoes: saved rounds, the final trace, and the end of a task.

LEMMA OnlyForward ==
  ASSUME TypeInv, [Next]_vars
  PROVE  \A x \in Debates : /\ disk[x].rounds <= disk'[x].rounds
                            /\ disk[x].ended => disk'[x].ended
                            /\ at[x] \in Ended => at'[x] = at[x]
<1>1. CASE UNCHANGED vars
  BY <1>1 DEF vars, taskVars, TypeInv, TypeOK, TaskTypeOK
<1>2. CASE UNCHANGED disk /\ \E d \in Debates : at[d] \notin Ended /\ \E p : at' = [at EXCEPT ![d] = p]
  BY <1>2 DEF TypeInv, TypeOK, TaskTypeOK
<1>3. ASSUME NEW d \in Debates, NEW said, NEW g, at[d] = "asking", EndRound(d, said, g)
      PROVE  \A x \in Debates : /\ disk[x].rounds <= disk'[x].rounds
                                /\ disk[x].ended => disk'[x].ended
                                /\ at[x] \in Ended => at'[x] = at[x]
  <2>1. disk[d].rounds = round[d] - 1 /\ round[d] \in Nat
    BY <1>3 DEF TypeInv, TypeOK, TaskTypeOK, Positioned, Position, Rounds
  <2>2. [disk[d] EXCEPT !.rounds = round[d]].rounds = round[d]
        /\ [disk[d] EXCEPT !.rounds = round[d]].ended = disk[d].ended
    BY DEF TypeInv, TypeOK, TaskTypeOK
  <2>3. disk' = [disk EXCEPT ![d] = [disk[d] EXCEPT !.rounds = round[d]]] \/ UNCHANGED disk
    BY <1>3 DEF EndRound, Fail, TypeInv, TypeOK, TaskTypeOK
  <2>4. \A x \in Debates : disk[x].rounds <= disk'[x].rounds /\ disk[x].ended => disk'[x].ended
    BY <2>1, <2>2, <2>3 DEF TypeInv, TypeOK, TaskTypeOK
  <2>5. \A x \in Debates : disk[x].rounds <= disk'[x].rounds
    BY <2>1, <2>2, <2>3 DEF TypeInv, TypeOK, TaskTypeOK
  <2>6. \A x \in Debates : at[x] \in Ended => at'[x] = at[x]
    BY <1>3 DEF EndRound, Fail, Ended, TypeInv, TypeOK, TaskTypeOK
  <2>7. QED BY <2>4, <2>5, <2>6
<1>4. ASSUME NEW d \in Debates, SaveFinal(d)
      PROVE  \A x \in Debates : /\ disk[x].rounds <= disk'[x].rounds
                                /\ disk[x].ended => disk'[x].ended
                                /\ at[x] \in Ended => at'[x] = at[x]
  <2>1. disk' = [disk EXCEPT ![d] = [disk[d] EXCEPT !.ended = TRUE]]
    BY <1>4 DEF SaveFinal, TypeInv, TypeOK, TaskTypeOK
  <2>2. [disk[d] EXCEPT !.ended = TRUE].rounds = disk[d].rounds
        /\ [disk[d] EXCEPT !.ended = TRUE].ended = TRUE
    BY DEF TypeInv, TypeOK, TaskTypeOK
  <2>3. QED BY <1>4, <2>1, <2>2 DEF SaveFinal, Ended, TypeInv, TypeOK, TaskTypeOK
<1>5. ASSUME NEW d \in Debates, Show(d) \/ Close(d)
      PROVE  \A x \in Debates : /\ disk[x].rounds <= disk'[x].rounds
                                /\ disk[x].ended => disk'[x].ended
                                /\ at[x] \in Ended => at'[x] = at[x]
  BY <1>5 DEF Show, Close, Stopped, TypeInv, TypeOK, TaskTypeOK
<1>6. ASSUME NEW d \in Debates, Publish(d) \/ Leave(d)
      PROVE  UNCHANGED <<at, disk>>
  BY <1>6 DEF Publish, Leave, taskVars
<1>7. CASE UNCHANGED <<at, disk>>
  BY <1>7 DEF TypeInv, TypeOK, TaskTypeOK
<1>8. ASSUME NEW d \in Debates,
             Build(d) \/ BuildFails(d) \/ Begin(d) \/ Continue(d) \/ Finish(d) \/ Raise(d)
                \/ Deliver(d) \/ Unwind(d) \/ (Answer(d) /\ turn[d] < Team[d])
      PROVE  UNCHANGED disk /\ at[d] \notin Ended /\ \E p : at' = [at EXCEPT ![d] = p]
  BY <1>8 DEF Build, BuildFails, Begin, Continue, Finish, Complete, Raise, Deliver, Unwind, Answer,
              EnterRound, Conclude, Ask, Fail, Ended
<1>9. ASSUME NEW d \in Debates, Refuse(d) \/ (Answer(d) /\ ~(turn[d] < Team[d]))
      PROVE  at[d] = "asking" /\ \E said, g : EndRound(d, said, g)
  BY <1>9 DEF Refuse, Answer
<1>10. QED BY <1>1, <1>2, <1>3, <1>4, <1>5, <1>6, <1>7, <1>8, <1>9 DEF Next

-----------------------------------------------------------------------------
\* The end of a stream.

ClosedIsEnded == \A d \in Debates : gen[d] = "closed" => at[d] \in Ended

LEMMA ClosedIsEndedHolds == Spec => []ClosedIsEnded
<1>1. Init => ClosedIsEnded
  BY DEF Init, ClosedIsEnded
<1>2. TypeInv /\ ClosedIsEnded /\ [Next]_vars => ClosedIsEnded'
  <2> SUFFICES ASSUME TypeInv, ClosedIsEnded, [Next]_vars PROVE ClosedIsEnded'
    OBVIOUS
  <2>1. \A x \in Debates : at[x] \in Ended => at'[x] = at[x]
    BY OnlyForward
  <2>2. CASE UNCHANGED gen
    BY <2>1, <2>2 DEF ClosedIsEnded
  <2>3. ASSUME NEW d \in Debates, Build(d) \/ BuildFails(d)
        PROVE  ClosedIsEnded'
    <3>1. /\ at[d] = "absent" /\ at[d] \notin Ended
          /\ \/ gen' = gen
             \/ gen' = [gen EXCEPT ![d] = "open"]
             \/ gen' = [gen EXCEPT ![d] = "closed"] /\ at' = [at EXCEPT ![d] = "failed"]
      BY <2>3 DEF Build, BuildFails, Opened, Ended
    <3>2. gen'[d] = "closed" => at'[d] \in Ended
      BY <3>1 DEF ClosedIsEnded, Ended, TypeInv, TypeOK, TaskTypeOK, StreamTypeOK
    <3>3. \A x \in Debates : x # d => gen'[x] = gen[x]
      BY <3>1 DEF TypeInv, TypeOK, StreamTypeOK
    <3>4. QED BY <2>1, <3>2, <3>3 DEF ClosedIsEnded
  <2>4. ASSUME NEW d \in Debates, Show(d) \/ Close(d)
        PROVE  ClosedIsEnded'
    BY <2>1, <2>4 DEF Show, Close, Stopped, ClosedIsEnded, Ended, TypeInv, TypeOK, TaskTypeOK,
                      StreamTypeOK
  <2>5. ASSUME NEW d \in Debates,
               Begin(d) \/ Answer(d) \/ Refuse(d) \/ Publish(d) \/ Continue(d) \/ SaveFinal(d)
                  \/ Finish(d) \/ Deliver(d) \/ Raise(d) \/ Unwind(d) \/ Leave(d)
        PROVE  UNCHANGED gen
    BY <2>5 DEF Begin, Answer, Refuse, Publish, Continue, SaveFinal, Finish, Deliver, Raise, Unwind,
                Leave, streamVars
  <2>6. CASE UNCHANGED vars
    BY <2>2, <2>6 DEF vars, streamVars
  <2>7. QED BY <2>2, <2>3, <2>4, <2>5, <2>6 DEF Next
<1>3. QED BY <1>1, <1>2, TypeInvHolds, PTL DEF Spec

\* Once the generator of a stream has ended, its debate takes no further step and writes
\* nothing, however the stream ended.
THEOREM StopsWithStreamHolds == Spec => StopsWithStream
<1>1. TypeInv /\ ClosedIsEnded /\ [Next]_vars =>
        [\A d \in Streamed : gen[d] = "closed" => /\ at'[d] = at[d]
                                                  /\ at[d] \in Ended
                                                  /\ disk'[d] = disk[d]]_vars
  <2> SUFFICES ASSUME TypeInv, ClosedIsEnded, [Next]_vars, NEW d \in Streamed, gen[d] = "closed"
               PROVE  at'[d] = at[d] /\ at[d] \in Ended /\ disk'[d] = disk[d]
    OBVIOUS
  <2>1. d \in Debates /\ at[d] \in Ended /\ at'[d] = at[d]
    BY OnlyForward DEF ClosedIsEnded
  <2>2. disk'[d] = disk[d]
    <3>1. ASSUME NEW x \in Debates, Answer(x) \/ Refuse(x) \/ SaveFinal(x)
          PROVE  disk'[d] = disk[d]
      BY <2>1, <3>1 DEF Answer, Refuse, SaveFinal, Ask, EndRound, Fail, Ended, TypeInv, TypeOK,
                        TaskTypeOK
    <3>2. ASSUME NEW x \in Debates,
                 Build(x) \/ BuildFails(x) \/ Begin(x) \/ Publish(x) \/ Continue(x) \/ Finish(x)
                    \/ Deliver(x) \/ Raise(x) \/ Unwind(x) \/ Show(x) \/ Leave(x) \/ Close(x)
          PROVE  UNCHANGED disk
      BY <3>2 DEF Build, BuildFails, Begin, Publish, Continue, Finish, Deliver, Raise, Unwind, Show,
                  Leave, Close, EnterRound, Ask, Conclude, taskVars
    <3>3. QED BY <3>1, <3>2 DEF Next, vars, taskVars
  <2>3. QED BY <2>1, <2>2
<1>2. QED BY <1>1, TypeInvHolds, ClosedIsEndedHolds, PTL DEF Spec, StopsWithStream

-----------------------------------------------------------------------------
\* MLflow.

\* A tracker that logs owns the one run that is active in the process.
OwnRun == \A d \in Debates : tracker[d] = "logging" => active = d

HomeInv == MetricsStayHome /\ OwnRun

LEMMA HomeKept ==
  ASSUME TypeInv, HomeInv, [Next]_vars, UNCHANGED <<active, tracker, runs>>
  PROVE  HomeInv'
<1>1. \A d \in Debates : disk[d].rounds <= disk'[d].rounds /\ (disk[d].ended => disk'[d].ended)
  BY OnlyForward
<1>2. MetricsStayHome'
  <2> SUFFICES ASSUME NEW d \in Debates
               PROVE  /\ \A m \in runs[d].metrics : m[1] = d /\ m[2] <= disk'[d].rounds
                      /\ runs[d].state = "finished" => disk'[d].ended
    BY DEF MetricsStayHome
  <2>1. ASSUME NEW m \in runs[d].metrics
        PROVE  m[1] = d /\ m[2] <= disk'[d].rounds
    <3>1. m \in Debates \X Rounds /\ m[1] = d /\ m[2] <= disk[d].rounds
      BY <2>1 DEF HomeInv, MetricsStayHome, TypeInv, TypeOK, TelemetryTypeOK
    <3>2. m[2] \in Nat /\ disk[d].rounds \in Nat /\ disk'[d].rounds \in Nat
      <4>1. TypeInv'
        BY NextTyped
      <4>2. QED BY <3>1, <4>1 DEF TypeInv, TypeOK, TaskTypeOK, Rounds
    <3>3. QED BY <1>1, <3>1, <3>2
  <2>2. runs[d].state = "finished" => disk'[d].ended
    BY <1>1 DEF HomeInv, MetricsStayHome
  <2>3. QED BY <2>1, <2>2
<1>3. QED BY <1>2 DEF HomeInv, OwnRun

\* Where a step creates a run, logs to one, or ends one, the trace stays.
LEMMA HomeChanged ==
  ASSUME TypeInv, HomeInv, NEW d \in Debates, UNCHANGED disk,
         \/ at[d] = "built" /\ StartRun(d)
         \/ at[d] = "saving" /\ LogRound(d, round[d])
         \/ at[d] = "savingFinal" /\ EndRun(d)
  PROVE  HomeInv'
<1>1. /\ runs \in [Debates -> [state : {"none", "running", "finished"},
                               metrics : SUBSET (Debates \X Rounds)]]
      /\ tracker \in [Debates -> {"idle", "logging", "disabled"}]
  BY DEF TypeInv, TypeOK, TelemetryTypeOK
<1>2. \A x \in Debates : /\ \A m \in runs[x].metrics : m[1] = x /\ m[2] <= disk[x].rounds
                         /\ runs[x].state = "finished" => disk[x].ended
                         /\ tracker[x] = "logging" => active = x
  BY DEF HomeInv, MetricsStayHome, OwnRun
<1>3. ASSUME at[d] = "built", StartRun(d)
      PROVE  HomeInv'
  <2>1. \A x \in Debates : runs'[x].metrics = runs[x].metrics
                           /\ (runs'[x].state = "finished" => runs[x].state = "finished")
    <3>1. CASE UNCHANGED runs
      BY <1>1, <1>2, <1>3, <3>1
    <3>2. CASE runs' = [runs EXCEPT ![d].state = "running"]
      <4>1. /\ [runs[d] EXCEPT !.state = "running"].metrics = runs[d].metrics
            /\ [runs[d] EXCEPT !.state = "running"].state = "running"
        BY <1>1
      <4>2. QED BY <1>1, <3>2, <4>1
    <3>3. QED BY <1>3, <3>1, <3>2 DEF StartRun, StartFails, StartSucceeds
  <2>2. OwnRun'
    BY <1>1, <1>2, <1>3 DEF StartRun, StartFails, StartSucceeds, OwnRun, TypeInv, TypeOK,
                            TelemetryTypeOK, TelemetryAssumption
  <2>3. QED BY <1>2, <2>1, <2>2 DEF HomeInv, MetricsStayHome
<1>4. ASSUME at[d] = "saving", LogRound(d, round[d])
      PROVE  HomeInv'
  <2>1. disk[d].rounds = round[d] /\ round[d] \in Nat
    BY <1>4 DEF TypeInv, Positioned, Position, Rounds
  <2>2. OwnRun'
    BY <1>2, <1>4 DEF LogRound, OwnRun
  <2>3. \A x \in Debates : runs'[x].state = runs[x].state
                           /\ \A m \in runs'[x].metrics : m \in runs[x].metrics
                                                          \/ (x = d /\ m = <<d, round[d]>>)
    <3>1. CASE UNCHANGED runs
      BY <3>1
    <3>2. CASE tracker[d] = "logging" /\ LogMetric(d, round[d])
      <4>1. active = d
        BY <1>2, <3>2
      <4>2. /\ [runs[d] EXCEPT !.metrics = @ \cup {<<d, round[d]>>}].state = runs[d].state
            /\ [runs[d] EXCEPT !.metrics = @ \cup {<<d, round[d]>>}].metrics
                 = runs[d].metrics \cup {<<d, round[d]>>}
        BY <1>1
      <4>3. QED BY <1>1, <3>2, <4>1, <4>2 DEF LogMetric
    <3>3. QED BY <1>4, <3>1, <3>2 DEF LogRound
  <2>4. \A x \in Debates : runs[x].state = "finished" => disk[x].ended
    BY <1>2
  <2>5. \A x \in Debates : \A m \in runs'[x].metrics : m[1] = x /\ m[2] <= disk'[x].rounds
    BY <1>2, <2>1, <2>3
  <2>6. QED BY <2>2, <2>3, <2>4, <2>5 DEF HomeInv, MetricsStayHome
<1>5. ASSUME at[d] = "savingFinal", EndRun(d)
      PROVE  HomeInv'
  <2>1. OwnRun'
    BY <1>1, <1>2, <1>5 DEF EndRun, OwnRun
  <2>2. \A x \in Debates : runs'[x].metrics = runs[x].metrics
                           /\ (runs'[x].state = "finished" => x = d \/ runs[x].state = "finished")
    <3>1. CASE UNCHANGED runs
      BY <3>1
    <3>2. CASE /\ tracker[d] = "logging"
               /\ runs' = [x \in Debates |->
                             IF x = active THEN [runs[x] EXCEPT !.state = "finished"] ELSE runs[x]]
      <4>1. active = d
        BY <1>2, <3>2
      <4>2. [runs[d] EXCEPT !.state = "finished"].metrics = runs[d].metrics
        BY <1>1
      <4>3. QED BY <3>2, <4>1, <4>2
    <3>3. QED BY <1>5, <3>1, <3>2 DEF EndRun
  <2>3. \A x \in Debates : runs'[x].state = "finished" => disk[x].ended
    BY <1>2, <1>5, <2>2 DEF TypeInv, Positioned, Position
  <2>4. QED BY <1>2, <2>1, <2>2, <2>3 DEF HomeInv, MetricsStayHome
<1>6. QED BY <1>3, <1>4, <1>5

\* However many debates share the process-wide active run, and wherever they fail or are
\* cut, the metrics of a debate go to its own run or nowhere.
THEOREM MetricsStayHomeHolds == Spec => []MetricsStayHome
<1>1. ASSUME Init PROVE HomeInv
  <2>1. /\ tracker = [d \in Debates |-> "idle"]
        /\ runs = [d \in Debates |-> [state |-> "none", metrics |-> {}]]
    BY <1>1 DEF Init, TelemetryInit
  <2>2. QED BY <2>1 DEF HomeInv, MetricsStayHome, OwnRun
<1>2. TypeInv /\ HomeInv /\ [Next]_vars => HomeInv'
  <2> SUFFICES ASSUME TypeInv, HomeInv, [Next]_vars PROVE HomeInv'
    OBVIOUS
  <2>1. CASE UNCHANGED <<active, tracker, runs>>
    BY <2>1, HomeKept
  <2>2. ASSUME NEW d \in Debates, Begin(d)
        PROVE  HomeInv'
    <3>1. at[d] = "built" /\ StartRun(d) /\ UNCHANGED disk
      BY <2>2 DEF Begin, EnterRound, Ask, Conclude
    <3>2. QED BY <3>1, HomeChanged
  <2>3. ASSUME NEW d \in Debates, Continue(d)
        PROVE  HomeInv'
    <3>1. at[d] = "saving" /\ LogRound(d, round[d]) /\ UNCHANGED disk
      BY <2>3 DEF Continue, EnterRound, Ask, Conclude
    <3>2. QED BY <3>1, HomeChanged
  <2>4. ASSUME NEW d \in Debates, Finish(d)
        PROVE  HomeInv'
    <3>1. at[d] = "savingFinal" /\ EndRun(d) /\ UNCHANGED disk
      BY <2>4 DEF Finish
    <3>2. QED BY <3>1, HomeChanged
  <2>5. ASSUME NEW d \in Debates,
               Build(d) \/ BuildFails(d) \/ Answer(d) \/ Refuse(d) \/ Publish(d) \/ SaveFinal(d)
                 \/ Deliver(d) \/ Raise(d) \/ Unwind(d) \/ Show(d) \/ Leave(d) \/ Close(d)
        PROVE  UNCHANGED <<active, tracker, runs>>
    BY <2>5 DEF Build, BuildFails, Answer, Refuse, Publish, SaveFinal, Deliver, Raise, Unwind, Show,
                Leave, Close, telemetryVars
  <2>6. CASE UNCHANGED vars
    BY <2>1, <2>6 DEF vars, telemetryVars
  <2>7. QED BY <2>1, <2>2, <2>3, <2>4, <2>5, <2>6 DEF Next
<1>3. HomeInv => MetricsStayHome
  BY DEF HomeInv
<1>4. QED BY <1>1, <1>2, <1>3, TypeInvHolds, PTL DEF Spec

-----------------------------------------------------------------------------
\* The frame that says the debate is done.

Quiet(q) == \A i \in 1..Len(q) : q[i].event # "done"

LEMMA QuietAppended ==
  \A p, q \in Seq(Frames) :
    Quiet(p) /\ Quiet(q) => p \o q \in Seq(Frames) /\ Quiet(p \o q)
<1>1. SUFFICES ASSUME NEW p \in Seq(Frames), NEW q \in Seq(Frames), Quiet(p), Quiet(q)
               PROVE  p \o q \in Seq(Frames) /\ Quiet(p \o q)
  OBVIOUS
<1>2. p \o q \in Seq(Frames) /\ Len(p \o q) = Len(p) + Len(q)
  BY <1>1
<1>3. ASSUME NEW i \in 1..Len(p \o q) PROVE (p \o q)[i].event # "done"
  <2>1. CASE i <= Len(p)
    <3>1. (p \o q)[i] = p[i] /\ i \in 1..Len(p)
      BY <1>1, <2>1
    <3>2. QED BY <1>1, <3>1 DEF Quiet
  <2>2. CASE i > Len(p)
    <3>1. (p \o q)[i] = q[i - Len(p)] /\ i - Len(p) \in 1..Len(q)
      BY <1>1, <1>2, <2>2
    <3>2. QED BY <1>1, <3>1 DEF Quiet
  <2>3. QED BY <1>1, <1>3, <2>1, <2>2
<1>4. QED BY <1>2, <1>3 DEF Quiet

LEMMA QuietFrames ==
  ASSUME NEW kind \in {"agent_reasoning_start", "agent_reasoning_end", "round_start",
                       "convergence_computed", "error"},
         NEW r, NEW a
  PROVE  Quiet(<<Frame(kind, r, a)>>)
BY DEF Quiet, Frame

\* A step that puts no such frame leaves every queue without one.
QueuesQuiet == \A x \in Debates : Quiet(queue[x]) => Quiet(queue'[x])

LEMMA EmitQuiet ==
  ASSUME TypeInv, NEW d \in Debates, NEW frames \in Seq(Frames), Quiet(frames), Emit(d, frames)
  PROVE  QueuesQuiet
<1>1. queue \in [Debates -> Seq(Frames)]
  BY DEF TypeInv, TypeOK, StreamTypeOK
<1>2. Quiet(queue[d]) => Quiet(queue[d] \o frames)
  BY <1>1, QuietAppended
<1>3. CASE d \in Streamed
  BY <1>1, <1>2, <1>3 DEF Emit, QueuesQuiet
<1>4. CASE d \notin Streamed
  BY <1>4 DEF Emit, QueuesQuiet
<1>5. QED BY <1>3, <1>4

LEMMA AskQuiet ==
  ASSUME TypeInv, NEW d \in Debates, NEW r \in Rounds, NEW a \in Agents,
         NEW said \in Seq(Frames), Quiet(said), NEW g, Ask(d, r, a, said, g)
  PROVE  QueuesQuiet
<1> DEFINE start == <<Frame("agent_reasoning_start", r, a)>>
<1>1. start \in Seq(Frames)
  BY FramesTyped
<1>2. Quiet(start)
  BY QuietFrames
<1>3. said \o start \in Seq(Frames) /\ Quiet(said \o start)
  <2> HIDE DEF start
  <2>1. QED BY <1>1, <1>2, QuietAppended
<1>4. Emit(d, said \o start)
  BY DEF Ask
<1>5. QED BY <1>3, <1>4, EmitQuiet

LEMMA EnterRoundQuiet ==
  ASSUME TypeInv, NEW d \in Debates, NEW r \in Rounds, EnterRound(d, r)
  PROVE  QueuesQuiet
<1>1. /\ <<Frame("round_start", r, 0)>> \in Seq(Frames)
      /\ Quiet(<<Frame("round_start", r, 0)>>)
      /\ 1 \in Agents
  BY FramesTyped, QuietFrames DEF Agents
<1>2. CASE Ask(d, r, 1, <<Frame("round_start", r, 0)>>, gauge[d])
  BY <1>1, <1>2, AskQuiet
<1>3. CASE Conclude(d, r, <<Frame("round_start", r, 0)>>)
  BY <1>1, <1>3, EmitQuiet DEF Conclude
<1>4. QED BY <1>2, <1>3 DEF EnterRound

LEMMA EndRoundQuiet ==
  ASSUME TypeInv, NEW d \in Debates, round[d] \in Rounds, turn[d] \in Agents, NEW g,
         EndRound(d, <<AgentEnd(d)>>, g)
  PROVE  QueuesQuiet
<1> DEFINE said == <<AgentEnd(d)>>
           computed == <<Frame("convergence_computed", round[d], 0)>>
           error == <<Frame("error", 0, 0)>>
<1>1. said \in Seq(Frames) /\ computed \in Seq(Frames) /\ error \in Seq(Frames)
  BY FramesTyped DEF AgentEnd
<1>2. Quiet(said) /\ Quiet(computed) /\ Quiet(error)
  BY QuietFrames DEF AgentEnd
<1>3. said \o computed \in Seq(Frames) /\ Quiet(said \o computed)
  <2> HIDE DEF said, computed, error
  <2>1. QED BY <1>1, <1>2, QuietAppended
<1>4. /\ (said \o computed) \o error \in Seq(Frames)
      /\ Quiet((said \o computed) \o error)
  <2> HIDE DEF said, computed, error
  <2>1. QED BY <1>1, <1>2, <1>3, QuietAppended
<1>5. Append(said, Frame("convergence_computed", round[d], 0)) = said \o computed
  BY <1>1
<1>6. Emit(d, said \o computed) \/ Emit(d, (said \o computed) \o error)
  BY <1>5 DEF EndRound, Fail
<1>7. QED BY <1>3, <1>4, <1>6, EmitQuiet

\* Only the step that completes a debate says so.
LEMMA DoneIsLast ==
  ASSUME TypeInv, [Next]_vars
  PROVE  \A x \in Debates : Quiet(queue[x]) => Quiet(queue'[x]) \/ at'[x] = "over"
<1>1. CASE QueuesQuiet
  BY <1>1 DEF QueuesQuiet
<1>2. <<>> \in Seq(Frames) /\ Quiet(<<>>)
  BY DEF Quiet
<1>3. CASE UNCHANGED queue
  BY <1>3
<1>4. ASSUME NEW d \in Debates, Begin(d) PROVE QueuesQuiet
  <2>1. CASE RoundsLeft(disk[d].rounds) /\ EnterRound(d, disk[d].rounds + 1)
    <3>1. disk[d].rounds + 1 \in Rounds
      BY <2>1 DEF TypeInv, TypeOK, TaskTypeOK, RoundsLeft, Rounds
    <3>2. QED BY <2>1, <3>1, EnterRoundQuiet
  <2>2. CASE Conclude(d, NumRounds, <<>>)
    BY <1>2, <2>2, EmitQuiet DEF Conclude
  <2>3. QED BY <1>4, <2>1, <2>2 DEF Begin
<1>5. ASSUME NEW d \in Debates, Continue(d) PROVE QueuesQuiet
  <2>1. CASE RoundsLeft(round[d]) /\ EnterRound(d, round[d] + 1)
    <3>1. round[d] + 1 \in Rounds
      BY <1>5, <2>1 DEF TypeInv, TypeOK, TaskTypeOK, RoundsLeft, Rounds
    <3>2. QED BY <2>1, <3>1, EnterRoundQuiet
  <2>2. CASE Conclude(d, round[d], <<>>)
    BY <1>2, <2>2, EmitQuiet DEF Conclude
  <2>3. QED BY <1>5, <2>1, <2>2 DEF Continue
<1>6. ASSUME NEW d \in Debates, Answer(d) \/ Refuse(d) PROVE QueuesQuiet
  <2>1. at[d] = "asking" /\ round[d] \in Rounds /\ turn[d] \in Agents
    BY <1>6 DEF Answer, Refuse, TypeInv, Positioned, Position
  <2>2. <<AgentEnd(d)>> \in Seq(Frames) /\ Quiet(<<AgentEnd(d)>>)
    BY <2>1, FramesTyped, QuietFrames DEF AgentEnd
  <2>3. CASE Answer(d) /\ turn[d] < Team[d]
    <3>1. turn[d] + 1 \in Agents
      BY <2>1, <2>3 DEF Agents
    <3>2. Ask(d, round[d], turn[d] + 1, <<AgentEnd(d)>>, Rested(gauge[d], turn[d]))
      BY <2>3 DEF Answer
    <3>3. QED BY <2>1, <2>2, <3>1, <3>2, AskQuiet
  <2>4. CASE EndRound(d, <<AgentEnd(d)>>, Rested(gauge[d], turn[d]))
    BY <2>1, <2>4, EndRoundQuiet
  <2>5. QED BY <1>6, <2>3, <2>4 DEF Answer, Refuse, RefusalFrames
<1>7. ASSUME NEW d \in Debates, Finish(d) \/ Deliver(d)
      PROVE  \A x \in Debates : queue'[x] = queue[x] \/ at'[x] = "over"
  BY <1>7 DEF Finish, Deliver, Complete, Emit, TypeInv, TypeOK, TaskTypeOK, StreamTypeOK
<1>8. ASSUME NEW d \in Debates, Raise(d) \/ Unwind(d) PROVE QueuesQuiet
  <2>1. <<Frame("error", 0, 0)>> \in Seq(Frames) /\ Quiet(<<Frame("error", 0, 0)>>)
    BY FramesTyped, QuietFrames
  <2>2. /\ <<>> \o <<Frame("error", 0, 0)>> = <<Frame("error", 0, 0)>>
        /\ Emit(d, <<>> \o <<Frame("error", 0, 0)>>) \/ Emit(d, <<>>)
             \/ Emit(d, <<Frame("error", 0, 0)>>)
    BY <1>8, <2>1 DEF Raise, Unwind, Fail
  <2>3. QED BY <1>2, <2>1, <2>2, EmitQuiet
<1>9. ASSUME NEW d \in Debates, Show(d) PROVE QueuesQuiet
  <2>1. queue \in [Debates -> Seq(Frames)] /\ queue[d] # <<>>
        /\ queue' = [queue EXCEPT ![d] = Tail(queue[d])]
    BY <1>9 DEF Show, TypeInv, TypeOK, StreamTypeOK
  <2>2. Quiet(queue[d]) => Quiet(Tail(queue[d]))
    BY <2>1 DEF Quiet
  <2>3. QED BY <2>1, <2>2 DEF QueuesQuiet
<1>10. ASSUME NEW d \in Debates, Close(d) PROVE QueuesQuiet
  BY <1>2, <1>10 DEF Close, QueuesQuiet, TypeInv, TypeOK, StreamTypeOK
<1>11. ASSUME NEW d \in Debates, Build(d) \/ BuildFails(d) \/ Publish(d) \/ SaveFinal(d) \/ Leave(d)
       PROVE  UNCHANGED queue
  BY <1>11 DEF Build, BuildFails, Publish, SaveFinal, Leave, streamVars
<1>12. CASE UNCHANGED vars
  BY <1>3, <1>12 DEF vars, streamVars
<1>13. QED BY <1>1, <1>3, <1>4, <1>5, <1>6, <1>7, <1>8, <1>9, <1>10, <1>11, <1>12 DEF Next

QueuedOnlySaved == \A d \in Debates : Quiet(queue[d]) \/ disk[d].ended

\* What a viewer or a subscriber is told of is saved, with any number of frames still on
\* their way, and after any failure.
THEOREM ToldOnlySavedHolds == Spec => []ToldOnlySaved
<1>1. ASSUME Init PROVE QueuedOnlySaved /\ ToldOnlySaved
  <2>1. /\ queue = [d \in Debates |-> <<>>] /\ heard = [d \in Debates |-> 0]
        /\ view = [d \in Debates |-> NoView]
    BY <1>1 DEF Init
  <2>2. QED BY <2>1 DEF QueuedOnlySaved, ToldOnlySaved, Quiet, NoView, Rounds
<1>2. TypeInv /\ TypeInv' /\ QueuedOnlySaved /\ ToldOnlySaved /\ [Next]_vars
        => QueuedOnlySaved' /\ ToldOnlySaved'
  <2> SUFFICES ASSUME TypeInv, TypeInv', QueuedOnlySaved, ToldOnlySaved, [Next]_vars
               PROVE  QueuedOnlySaved' /\ ToldOnlySaved'
    OBVIOUS
  <2>1. \A x \in Debates : /\ disk[x].rounds <= disk'[x].rounds
                           /\ disk[x].ended => disk'[x].ended
                           /\ disk[x].rounds \in Nat /\ disk'[x].rounds \in Nat
    BY OnlyForward DEF TypeInv, TypeOK, TaskTypeOK
  <2>2. QueuedOnlySaved'
    <3>1. \A x \in Debates : at'[x] = "over" => disk'[x].ended
      BY DEF TypeInv, Positioned, Position
    <3>2. QED BY <2>1, <3>1, DoneIsLast DEF QueuedOnlySaved
  <2>3. \A x \in Debates : view'[x].status = "done" => disk'[x].ended
    <3>1. CASE UNCHANGED view
      BY <2>1, <3>1 DEF ToldOnlySaved
    <3>2. ASSUME NEW d \in Debates, Build(d) \/ BuildFails(d) \/ Leave(d)
          PROVE  \A x \in Debates : view'[x].status = "done" => view[x].status = "done"
      <4>1. /\ [NoView EXCEPT !.status = "stopped"].status = "stopped"
            /\ [view[d] EXCEPT !.status = "running"].status = "running"
            /\ [view[d] EXCEPT !.status = "error"].status = "error"
        BY DEF NoView, TypeInv, TypeOK, StreamTypeOK
      <4>2. \/ UNCHANGED view
            \/ view' = [view EXCEPT ![d] = [view[d] EXCEPT !.status = "running"]]
            \/ view' = [view EXCEPT ![d] = [view[d] EXCEPT !.status = "error"]]
            \/ view' = [view EXCEPT ![d] = [NoView EXCEPT !.status = "stopped"]]
        BY <3>2 DEF Build, BuildFails, Leave, Opened, TypeInv, TypeOK, StreamTypeOK
      <4>3. QED BY <4>1, <4>2 DEF TypeInv, TypeOK, StreamTypeOK
    <3>3. ASSUME NEW d \in Debates, Show(d)
          PROVE  \A x \in Debates : view'[x].status = "done" => disk'[x].ended
      <4>1. /\ queue[d] \in Seq(Frames) /\ queue[d] # <<>>
            /\ view' = [view EXCEPT ![d] = Apply(view[d], Head(queue[d]))]
        BY <3>3 DEF Show, TypeInv, TypeOK, StreamTypeOK
      <4>2. Apply(view[d], Head(queue[d])).status = "done" =>
              view[d].status = "done" \/ ~Quiet(queue[d])
        BY <4>1 DEF Apply, Terminal, Quiet
      <4>3. view'[d] = Apply(view[d], Head(queue[d]))
            /\ \A x \in Debates : x # d => view'[x] = view[x]
        BY <4>1 DEF TypeInv, TypeOK, StreamTypeOK
      <4>4. QED BY <2>1, <4>2, <4>3 DEF QueuedOnlySaved, ToldOnlySaved
    <3>4. ASSUME NEW d \in Debates,
                 Begin(d) \/ Answer(d) \/ Refuse(d) \/ Publish(d) \/ Continue(d) \/ SaveFinal(d)
                   \/ Finish(d) \/ Deliver(d) \/ Raise(d) \/ Unwind(d) \/ Close(d)
          PROVE  UNCHANGED view
      BY <3>4 DEF Begin, Answer, Refuse, Publish, Continue, SaveFinal, Finish, Deliver, Raise, Unwind,
                  Close, streamVars
    <3>5. CASE UNCHANGED vars
      BY <3>1, <3>5 DEF vars, streamVars
    <3>6. QED BY <2>1, <3>1, <3>2, <3>3, <3>4, <3>5 DEF Next, ToldOnlySaved
  <2>4. \A x \in Debates : /\ heard'[x] = NumRounds + 1 => disk'[x].ended
                           /\ heard'[x] \in Rounds => heard'[x] <= disk'[x].rounds
    <3>1. CASE UNCHANGED heard
      BY <2>1, <3>1 DEF ToldOnlySaved, Rounds
    <3>2. ASSUME NEW d \in Debates, Publish(d)
          PROVE  \A x \in Debates : /\ heard'[x] = NumRounds + 1 => disk'[x].ended
                                    /\ heard'[x] \in Rounds => heard'[x] <= disk'[x].rounds
      <4>1. /\ at[d] = "saving" => heard'[d] = round[d] /\ round[d] = disk[d].rounds
                                   /\ round[d] \in Rounds
            /\ at[d] # "saving" => heard'[d] = NumRounds + 1 /\ disk[d].ended
            /\ \A x \in Debates : x # d => heard'[x] = heard[x]
        BY <3>2 DEF Publish, TypeInv, TypeOK, TaskTypeOK, Positioned, Position
      <4>2. QED BY <2>1, <4>1 DEF ToldOnlySaved, Rounds
    <3>3. ASSUME NEW d \in Debates,
                 Build(d) \/ BuildFails(d) \/ Begin(d) \/ Answer(d) \/ Refuse(d) \/ Continue(d)
                   \/ SaveFinal(d) \/ Finish(d) \/ Deliver(d) \/ Raise(d) \/ Unwind(d)
                   \/ Show(d) \/ Leave(d) \/ Close(d)
          PROVE  UNCHANGED heard
      BY <3>3 DEF Build, BuildFails, Begin, Answer, Refuse, Continue, SaveFinal, Finish, Deliver,
                  Raise, Unwind, Show, Leave, Close
    <3>4. CASE UNCHANGED vars
      BY <3>1, <3>4 DEF vars
    <3>5. QED BY <3>1, <3>2, <3>3, <3>4 DEF Next
  <2>5. QED BY <2>2, <2>3, <2>4 DEF ToldOnlySaved
<1>3. QED BY <1>1, <1>2, TypeInvHolds, PTL DEF Spec

-----------------------------------------------------------------------------
\* What the viewer will show: the fold over the queue, unfolded.

LEMMA MaxIn ==
  ASSUME NEW S \in SUBSET Nat, IsFiniteSet(S), S # {}
  PROVE  Max(S) \in S /\ \A y \in S : y <= Max(S)
<1>1. \E x \in S : \A y \in S : y <= x
  BY HasBounds
<1>2. \A x, y \in S : y <= x <=> x >= y
  OBVIOUS
<1> QED
  BY <1>1, <1>2 DEF Max

Rec(h, v, q, T) == h[T] = IF T = {} THEN v ELSE Apply(h[T \ {Max(T)}], q[Max(T)])
IsFold(h, v, q, D) == /\ h = [T \in SUBSET D |-> h[T]]
                      /\ \A T \in SUBSET D : Rec(h, v, q, T)

LEMMA FoldExists ==
  ASSUME NEW D \in SUBSET Nat, IsFiniteSet(D), NEW v, NEW q
  PROVE  \E h : IsFold(h, v, q, D)
<1> DEFINE Map(h) == h = [T \in SUBSET D |-> h[T]]
           Upto(h, n) == \A T \in SUBSET D : Cardinality(T) <= n => Rec(h, v, q, T)
           Good == {n \in Nat : \E h : Map(h) /\ Upto(h, n)}
<1>0. \A T \in SUBSET D : IsFiniteSet(T) /\ Cardinality(T) \in Nat
  BY FS_Subset, FS_CardinalityType
<1>1. 0 \in Good
  <2> DEFINE base == [T \in SUBSET D |-> v]
  <2>1. \A T \in SUBSET D : Cardinality(T) <= 0 => T = {}
    BY <1>0, FS_EmptySet
  <2>2. Map(base) /\ Upto(base, 0)
    BY <2>1 DEF Rec
  <2>3. \E h : Map(h) /\ Upto(h, 0)
    <3> HIDE DEF Map, Upto, base
    <3> QED
      BY <2>2
  <2> QED
    BY <2>3
<1>2. ASSUME NEW n \in Nat, n \in Good PROVE n + 1 \in Good
  <2>1. PICK h : Map(h) /\ Upto(h, n)
    BY <1>2
  <2> DEFINE next == [T \in SUBSET D |-> IF T = {} THEN v ELSE Apply(h[T \ {Max(T)}], q[Max(T)])]
  <2>2. Map(next)
    OBVIOUS
  <2>3. ASSUME NEW T \in SUBSET D, Cardinality(T) <= n + 1 PROVE Rec(next, v, q, T)
    <3>1. CASE T = {}
      BY <3>1 DEF Rec
    <3>2. CASE T # {}
      <4> DEFINE R == T \ {Max(T)}
      <4>1. Max(T) \in T /\ R \in SUBSET D
        BY <1>0, <3>2, MaxIn
      <4>2. Cardinality(R) <= n
        BY <4>1, <1>0, <2>3, FS_RemoveElement
      <4>3. Rec(h, v, q, R)
        BY <4>1, <4>2, <2>1
      <4>4. next[R] = h[R]
        BY <4>1, <4>3 DEF Rec
      <4>5. next[T] = Apply(h[R], q[Max(T)])
        BY <3>2
      <4> QED
        <5> HIDE DEF next, R
        <5>1. next[T] = Apply(next[R], q[Max(T)])
          BY <4>4, <4>5
        <5> QED
          BY <5>1, <3>2 DEF Rec, R
    <3> QED
      BY <3>1, <3>2
  <2>4. \E s : Map(s) /\ Upto(s, n + 1)
    <3>1. Upto(next, n + 1)
      BY <2>3
    <3> HIDE DEF Map, Upto, next
    <3> QED
      BY <2>2, <3>1
  <2>5. n + 1 \in Nat
    OBVIOUS
  <2> QED
    <3> HIDE DEF Map, Upto
    <3> QED
      BY <2>4, <2>5
<1>3. Cardinality(D) \in Good
  <2> HIDE DEF Good
  <2> QED
    BY <1>0, <1>1, <1>2, NumberInduction
<1>4. PICK h : Map(h) /\ Upto(h, Cardinality(D))
  BY <1>3
<1>5. \A T \in SUBSET D : Cardinality(T) <= Cardinality(D)
  BY FS_Subset
<1> QED
  BY <1>4, <1>5 DEF IsFold

\* The shown states, from what is shown now to what is shown when the queue is read.
Unfolds(g, v, q) == g[0] = v /\ \A k \in 1..Len(q) : g[k] = Apply(g[k - 1], q[k])

LEMMA FoldUnfolds ==
  ASSUME NEW v, NEW q \in Seq(Frames), NEW g, Unfolds(g, v, q)
  PROVE  FoldLeft(Apply, v, q) = g[Len(q)]
<1> DEFINE D == 1..Len(q)
           Solution(h) == h = [T \in SUBSET D |-> IF T = {} THEN v ELSE Apply(h[T \ {Max(T)}], q[Max(T)])]
           iter == CHOOSE h : Solution(h)
<1>0. DOMAIN q = D /\ Len(q) \in Nat /\ D \in SUBSET Nat /\ IsFiniteSet(D)
  BY FS_Interval
<1>1. FoldLeft(Apply, v, q) = iter[D]
  BY <1>0 DEF FoldLeft, MapThenFoldSet
<1>2. Solution(iter)
  <2>1. PICK h : IsFold(h, v, q, D)
    <3> HIDE DEF D
    <3> QED
      BY <1>0, FoldExists
  <2>2. \A T \in SUBSET D : h[T] = IF T = {} THEN v ELSE Apply(h[T \ {Max(T)}], q[Max(T)])
    BY <2>1 DEF Rec, IsFold
  <2>3. Solution(h)
    <3> HIDE DEF D
    <3> QED
      BY <2>1, <2>2 DEF IsFold
  <2> HIDE DEF Solution
  <2> QED
    BY <2>3
<1>3. \A T \in SUBSET D : iter[T] = IF T = {} THEN v ELSE Apply(iter[T \ {Max(T)}], q[Max(T)])
  <2> HIDE DEF iter, D
  <2> QED
    BY <1>2, Zenon
<1> HIDE DEF iter, Solution
<1> DEFINE Good == {k \in Nat : k <= Len(q) => iter[1..k] = g[k]}
<1>4. 0 \in Good
  <2>1. 1..0 = {} /\ {} \in SUBSET D
    OBVIOUS
  <2>2. iter[{}] = v
    BY <1>3, <2>1
  <2> QED
    BY <2>1, <2>2 DEF Unfolds
<1>5. ASSUME NEW k \in Nat, k \in Good PROVE k + 1 \in Good
  <2>1. SUFFICES ASSUME k + 1 <= Len(q) PROVE iter[1..(k+1)] = g[k+1]
    OBVIOUS
  <2>2. 1..(k+1) \in SUBSET D /\ 1..(k+1) # {} /\ IsFiniteSet(1..(k+1)) /\ 1..(k+1) \in SUBSET Nat
    <3>1. IsFiniteSet(1..(k+1))
      BY FS_Interval, k + 1 \in Int, 1 \in Int
    <3>2. k + 1 \in 1..(k+1)
      OBVIOUS
    <3>3. 1..(k+1) \subseteq D
      BY <1>0, <2>1
    <3> QED
      BY <1>0, <3>1, <3>2, <3>3
  <2>3. Max(1..(k+1)) = k + 1
    <3>1. k + 1 \in 1..(k+1)
      OBVIOUS
    <3>2. Max(1..(k+1)) \in 1..(k+1) /\ k + 1 <= Max(1..(k+1))
      BY <2>2, <3>1, MaxIn
    <3> QED
      BY <3>2
  <2>4. (1..(k+1)) \ {k+1} = 1..k
    OBVIOUS
  <2>5. iter[1..(k+1)] = Apply(iter[1..k], q[k+1])
    <3> DEFINE U == 1..(k+1)
    <3>1. U \in SUBSET D /\ U # {} /\ Max(U) = k + 1 /\ U \ {k+1} = 1..k
      BY <2>2, <2>3, <2>4
    <3> QED
      <4> HIDE DEF U
      <4>1. iter[U] = Apply(iter[U \ {Max(U)}], q[Max(U)])
        BY <3>1, <1>3
      <4>2. iter[U] = Apply(iter[1..k], q[k+1])
        BY <3>1, <4>1
      <4> QED
        BY <4>2 DEF U
  <2>6. k + 1 \in 1..Len(q) /\ (k + 1) - 1 = k
    BY <2>1, <1>0
  <2>7. g[k+1] = Apply(g[k], q[k+1])
    BY <2>6 DEF Unfolds
  <2>8. iter[1..k] = g[k]
    BY <1>5, <2>1, <1>0
  <2> QED
    BY <2>5, <2>7, <2>8
<1>6. Len(q) \in Good
  <2> HIDE DEF Good
  <2> QED
    BY <1>0, <1>4, <1>5, NumberInduction
<1> QED
  BY <1>0, <1>1, <1>6

-----------------------------------------------------------------------------
\* The frames lead the viewer from v to w, and make sense on the way.

Sensible(v) == /\ \A p, q \in v.reasoning : p = q
               /\ v.status = "done" => v.reasoning = {}

Leads(v, q, w) == \E g : /\ Unfolds(g, v, q)
                         /\ \A k \in 0..Len(q) : Sensible(g[k])
                         /\ g[Len(q)] = w

LEMMA LeadsNowhere == \A v : Sensible(v) => Leads(v, <<>>, v)
<1>1. SUFFICES ASSUME NEW v, Sensible(v) PROVE Leads(v, <<>>, v)
  OBVIOUS
<1> DEFINE g == [k \in Nat |-> v]
<1>2. Unfolds(g, v, <<>>) /\ (\A k \in 0..Len(<<>>) : Sensible(g[k])) /\ g[Len(<<>>)] = v
  BY <1>1 DEF Unfolds
<1> QED
  BY <1>2 DEF Leads

LEMMA LeadsOn ==
  ASSUME NEW v, NEW f, Sensible(v), Sensible(Apply(v, f))
  PROVE  Leads(v, <<f>>, Apply(v, f))
<1> DEFINE g == [k \in Nat |-> IF k = 0 THEN v ELSE Apply(v, f)]
<1>1. Len(<<f>>) = 1 /\ <<f>>[1] = f
  OBVIOUS
<1>2. g[0] = v /\ g[1] = Apply(v, f)
  OBVIOUS
<1> HIDE DEF g
<1>3. Unfolds(g, v, <<f>>)
  BY <1>1, <1>2 DEF Unfolds
<1>4. \A k \in 0..1 : Sensible(g[k])
  BY <1>2
<1> QED
  BY <1>1, <1>2, <1>3, <1>4 DEF Leads

LEMMA LeadsEnds ==
  ASSUME NEW v, NEW q \in Seq(Frames), NEW w, Leads(v, q, w)
  PROVE  Sensible(v) /\ Sensible(w) /\ FoldLeft(Apply, v, q) = w
<1>1. PICK g : Unfolds(g, v, q) /\ (\A k \in 0..Len(q) : Sensible(g[k])) /\ g[Len(q)] = w
  BY DEF Leads
<1>2. Len(q) \in Nat /\ 0 \in 0..Len(q) /\ Len(q) \in 0..Len(q)
  OBVIOUS
<1>3. g[0] = v
  BY <1>1 DEF Unfolds
<1> QED
  BY <1>1, <1>2, <1>3, FoldUnfolds

LEMMA LeadsThen ==
  ASSUME NEW v, NEW w, NEW u, NEW q \in Seq(Frames), NEW p \in Seq(Frames),
         Leads(v, q, w), Leads(w, p, u)
  PROVE  Leads(v, q \o p, u)
<1>1. PICK g : Unfolds(g, v, q) /\ (\A k \in 0..Len(q) : Sensible(g[k])) /\ g[Len(q)] = w
  BY DEF Leads
<1>2. PICK h : Unfolds(h, w, p) /\ (\A k \in 0..Len(p) : Sensible(h[k])) /\ h[Len(p)] = u
  BY DEF Leads
<1> DEFINE both == [k \in Nat |-> IF k <= Len(q) THEN g[k] ELSE h[k - Len(q)]]
<1>3. /\ Len(q) \in Nat /\ Len(p) \in Nat /\ Len(q \o p) = Len(q) + Len(p)
      /\ \A k \in 1..Len(q) : (q \o p)[k] = q[k]
      /\ \A k \in 1..Len(q \o p) : k > Len(q) => (q \o p)[k] = p[k - Len(q)]
  OBVIOUS
<1>4. \A k \in 0..Len(q) : both[k] = g[k]
  BY <1>3
<1>5. \A k \in Nat : k >= Len(q) => both[k] = h[k - Len(q)]
  BY <1>1, <1>2, <1>3 DEF Unfolds
<1> HIDE DEF both
<1>6. both[0] = v
  BY <1>1, <1>3, <1>4 DEF Unfolds
<1>7. ASSUME NEW k \in 1..Len(q \o p) PROVE both[k] = Apply(both[k - 1], (q \o p)[k])
  <2>1. CASE k <= Len(q)
    <3>1. k \in 1..Len(q) /\ k \in 0..Len(q) /\ k - 1 \in 0..Len(q)
      BY <1>3, <2>1
    <3>2. g[k] = Apply(g[k - 1], q[k])
      BY <1>1, <3>1 DEF Unfolds
    <3> QED
      BY <1>3, <1>4, <3>1, <3>2
  <2>2. CASE k > Len(q)
    <3> DEFINE j == k - Len(q)
    <3>1. j \in 1..Len(p) /\ k \in Nat /\ k - 1 \in Nat /\ k - 1 >= Len(q) /\ k >= Len(q)
          /\ (k - 1) - Len(q) = j - 1
      BY <1>3, <2>2
    <3>2. h[j] = Apply(h[j - 1], p[j])
      <4> HIDE DEF j
      <4> QED
        BY <1>2, <3>1 DEF Unfolds
    <3>3. both[k] = h[j] /\ both[k - 1] = h[j - 1]
      BY <1>5, <3>1
    <3> QED
      BY <1>3, <2>2, <3>2, <3>3
  <2> QED
    BY <1>3, <2>1, <2>2
<1>8. ASSUME NEW k \in 0..Len(q \o p) PROVE Sensible(both[k])
  <2>1. CASE k <= Len(q)
    BY <1>1, <1>3, <1>4, <2>1
  <2>2. CASE k > Len(q)
    <3>1. k \in Nat /\ k >= Len(q) /\ k - Len(q) \in 0..Len(p)
      BY <1>3, <2>2
    <3> QED
      BY <1>2, <1>5, <3>1
  <2> QED
    BY <1>3, <2>1, <2>2
<1>9. both[Len(q \o p)] = u
  <2>1. Len(q \o p) \in Nat /\ Len(q \o p) >= Len(q) /\ Len(q \o p) - Len(q) = Len(p)
    BY <1>3
  <2> QED
    BY <1>2, <1>5, <2>1
<1>10. Unfolds(both, v, q \o p)
  BY <1>6, <1>7 DEF Unfolds
<1> QED
  BY <1>8, <1>9, <1>10 DEF Leads

LEMMA LeadsFrom ==
  ASSUME NEW v, NEW w, NEW q \in Seq(Frames), q # <<>>, Leads(v, q, w)
  PROVE  Leads(Apply(v, Head(q)), Tail(q), w) /\ Sensible(Apply(v, Head(q)))
<1>1. PICK g : Unfolds(g, v, q) /\ (\A k \in 0..Len(q) : Sensible(g[k])) /\ g[Len(q)] = w
  BY DEF Leads
<1> DEFINE h == [k \in Nat |-> g[k + 1]]
<1>2. /\ Len(q) \in Nat \ {0} /\ Tail(q) \in Seq(Frames) /\ Len(Tail(q)) = Len(q) - 1
      /\ Head(q) = q[1]
      /\ \A k \in 1..Len(Tail(q)) : Tail(q)[k] = q[k + 1]
  OBVIOUS
<1>3. h[0] = g[1] /\ g[0] = v /\ g[1] = Apply(g[0], q[1])
  <2>1. 1 \in 1..Len(q) /\ 1 - 1 = 0
    BY <1>2
  <2> QED
    BY <1>1, <2>1 DEF Unfolds
<1>4. ASSUME NEW k \in 1..Len(Tail(q)) PROVE h[k] = Apply(h[k - 1], Tail(q)[k])
  <2>1. k + 1 \in 1..Len(q) /\ (k + 1) - 1 = k /\ (k - 1) + 1 = k /\ k \in Nat /\ k - 1 \in Nat
    BY <1>2
  <2>2. g[k + 1] = Apply(g[k], q[k + 1])
    BY <1>1, <2>1 DEF Unfolds
  <2>3. h[k] = g[k + 1] /\ h[k - 1] = g[k]
    BY <2>1
  <2> QED
    BY <1>2, <2>2, <2>3
<1>5. ASSUME NEW k \in 0..Len(Tail(q)) PROVE Sensible(h[k])
  <2>1. k + 1 \in 0..Len(q) /\ k \in Nat
    BY <1>2
  <2> QED
    BY <1>1, <2>1
<1>6. h[Len(Tail(q))] = w
  <2>1. Len(Tail(q)) \in Nat /\ Len(Tail(q)) + 1 = Len(q)
    BY <1>2
  <2> QED
    BY <1>1, <2>1
<1> HIDE DEF h
<1>7. Unfolds(h, Apply(v, Head(q)), Tail(q))
  BY <1>2, <1>3, <1>4 DEF Unfolds
<1>8. Sensible(Apply(v, Head(q)))
  BY <1>1, <1>2, <1>3
<1> QED
  BY <1>5, <1>6, <1>7, <1>8 DEF Leads

\* What each frame changes of what is shown.
LEMMA ShownOf ==
  ASSUME NEW v, NEW r, NEW a
  PROVE  /\ LET u == Apply(v, Frame("round_start", r, a))
            IN  /\ u.status = v.status /\ u.round = r
                /\ u.reasoning = v.reasoning /\ u.scored = v.scored
         /\ LET u == Apply(v, Frame("agent_reasoning_start", r, a))
            IN  /\ u.status = v.status /\ u.round = v.round
                /\ u.reasoning = v.reasoning \cup {<<r, a>>} /\ u.scored = v.scored
         /\ LET u == Apply(v, Frame("agent_reasoning_end", r, a))
            IN  /\ u.status = v.status /\ u.round = v.round
                /\ u.reasoning = v.reasoning \ {<<r, a>>} /\ u.scored = v.scored
         /\ LET u == Apply(v, Frame("convergence_computed", r, a))
            IN  /\ u.status = v.status /\ u.round = v.round
                /\ u.reasoning = v.reasoning /\ u.scored = r
         /\ LET u == Apply(v, Frame("error", r, a))
            IN  u.status = "error" /\ u.reasoning = v.reasoning
         /\ LET u == Apply(v, Frame("done", r, a))
            IN  u.status = "done" /\ u.reasoning = v.reasoning
<1>1. Apply(v, Frame("round_start", r, a)).reasoning = v.reasoning
  BY DEF Apply, Frame
<1>2. Apply(v, Frame("agent_reasoning_end", r, a)).reasoning = v.reasoning \ {<<r, a>>}
  BY DEF Apply, Frame
<1>3. Apply(v, Frame("convergence_computed", r, a)).reasoning = v.reasoning
  BY DEF Apply, Frame
<1>4. Apply(v, Frame("error", r, a)).reasoning = v.reasoning
  BY DEF Apply, Frame
<1>5. Apply(v, Frame("done", r, a)).reasoning = v.reasoning
  BY DEF Apply, Frame
<1>6. Apply(v, Frame("agent_reasoning_start", r, a)).reasoning = v.reasoning \cup {<<r, a>>}
  BY DEF Apply, Frame
<1> QED
  BY <1>1, <1>2, <1>3, <1>4, <1>5, <1>6 DEF Apply, Frame, Terminal

-----------------------------------------------------------------------------
\* What NoFrameLost says of one debate, of what the viewer will show.
Asked(d) == {<<round[d], a>> : a \in Active(d) \ left[d]}
Tells(d, w) ==
  /\ at[d] = "over" => w.status = "done"
  /\ at[d] = "failed" => w.status = "error"
  /\ at[d] \notin {"over", "failed"} => w.status = "running"
  /\ w.reasoning = Asked(d)
  /\ at[d] \in {"asking", "saving"} => w.round = round[d]
  /\ at[d] = "saving" => w.scored = round[d]

Watched(d) == gen[d] = "open" /\ view[d].status # "stopped"
Follows(d) == \E w : Leads(view[d], queue[d], w) /\ Tells(d, w)

\* The queue leads the viewer to where the task is, by states that make sense.
Followed(d) ==
  /\ Sensible(view[d])
  /\ Watched(d) => Follows(d)
  /\ at[d] = "absent" => view[d] = NoView /\ queue[d] = <<>>

\* The frames lead from where the task was to where the step takes it.
Moves(d, frames) ==
  \A w : Leads(view[d], queue[d], w) /\ Tells(d, w) => \E u : Leads(w, frames, u) /\ Tells(d, u)'

\* The task says something: the queue leads further.
LEMMA SayingFollows ==
  ASSUME TypeInv, NEW d \in Streamed, NEW frames \in Seq(Frames), Emit(d, frames),
         UNCHANGED <<gen, view>>, Followed(d), at'[d] # "absent", Moves(d, frames)
  PROVE  Followed(d)'
<1>1. queue'[d] = queue[d] \o frames /\ queue[d] \in Seq(Frames)
  <2>1. queue \in [Debates -> Seq(Frames)]
    BY Zenon DEF TypeInv, TypeOK, StreamTypeOK
  <2>2. queue' = [queue EXCEPT ![d] = queue[d] \o frames]
    BY DEF Emit
  <2>3. d \in Debates
    OBVIOUS
  <2>4. queue[d] \in Seq(Frames)
    BY <2>1, <2>3
  <2>5. queue'[d] = queue[d] \o frames
    <3> DEFINE longer == queue[d] \o frames
    <3> HIDE DEF longer
    <3>1. queue' = [queue EXCEPT ![d] = longer]
      BY <2>2 DEF longer
    <3> QED
      BY <2>1, <2>3, <3>1 DEF longer
  <2> QED
    BY <2>4, <2>5
<1>2. ASSUME Watched(d) PROVE Follows(d)'
  <2>1. PICK w : Leads(view[d], queue[d], w) /\ Tells(d, w)
    BY <1>2 DEF Followed, Follows
  <2>3. PICK u : Leads(w, frames, u) /\ Tells(d, u)'
    BY <2>1 DEF Moves
  <2>4. Leads(view[d], queue[d] \o frames, u)
    BY <1>1, <2>1, <2>3, LeadsThen
  <2> QED
    BY <1>1, <2>3, <2>4 DEF Follows
<1> QED
  BY <1>2 DEF Followed, Watched

LEMMA AskMoves ==
  ASSUME TypeInv, TypeInv', NEW d \in Streamed, NEW r \in Rounds, NEW a \in Agents, NEW said,
         NEW g \in Gauges, {x \in Agents : g[x] = "active"} = left[d], Ask(d, r, a, said, g),
         NEW w, Sensible(w), w.status = "running", w.round = r, w.reasoning = {}
  PROVE  \E u : Leads(w, <<Frame("agent_reasoning_start", r, a)>>, u) /\ Tells(d, u)'
<1> DEFINE f == Frame("agent_reasoning_start", r, a)
           u == Apply(w, f)
<1>1. u.status = "running" /\ u.round = r /\ u.reasoning = {<<r, a>>}
  BY ShownOf
<1>2. /\ at'[d] = "asking" /\ round'[d] = r /\ gauge'[d] = Activated(g, a)
      /\ left'[d] = left[d] \ {a}
  BY DEF Ask, TypeInv, TypeOK, TaskTypeOK, TelemetryTypeOK
<1>3. Active(d)' \ left'[d] = {a}
  <2>1. Active(d)' = {a} \cup (left[d] \ {a})
    BY <1>2, ActiveSets DEF Active
  <2> QED
    BY <1>2, <2>1
<1>4. Sensible(u)
  BY <1>1 DEF Sensible
<1>5. Leads(w, <<f>>, u)
  <2> HIDE DEF f
  <2> QED
    BY <1>4, LeadsOn
<1> HIDE DEF u
<1>6. Asked(d)' = {<<r, a>>}
  BY <1>2, <1>3 DEF Asked
<1>7. Tells(d, u)'
  <2>1. (\A x : x = u => Tells(d, x))'
    <3>1. SUFFICES ASSUME NEW x, x = u PROVE Tells(d, x)'
      OBVIOUS
    <3> QED
      BY <3>1, <1>1, <1>2, <1>6 DEF Tells
  <2> QED
    BY <2>1
<1> QED
  BY <1>5, <1>7

LEMMA ConcludeTellsOf ==
  ASSUME TypeInv, NEW d \in Streamed, NEW r, NEW said, Conclude(d, r, said),
         Active(d) = left[d],
         NEW w, w.status = "running", w.reasoning = {}
  PROVE  Tells(d, w)'
<1>1. at'[d] = "concluding" /\ gauge' = gauge /\ left' = left
  BY DEF Conclude, TypeInv, TypeOK, TaskTypeOK
<1>2. Asked(d)' = {}
  BY <1>1 DEF Asked, Active
<1> QED
  BY <1>1, <1>2 DEF Tells

\* A step that fails says so last; what the viewer shows reasoning, it goes on showing.
LEMMA FailMoves ==
  ASSUME TypeInv, NEW d \in Streamed, NEW g \in Gauges,
         at' = [at EXCEPT ![d] = "failed"], gauge'[d] = g,
         UNCHANGED <<round, left>>, NEW w, Sensible(w), w.status = "running",
         w.reasoning = {<<round[d], x>> : x \in {y \in Agents : g[y] = "active"} \ left[d]}
  PROVE  \E u : Leads(w, <<Frame("error", 0, 0)>>, u) /\ Tells(d, u)'
<1> DEFINE f == Frame("error", 0, 0)
           u == Apply(w, f)
<1>1. u.status = "error" /\ u.reasoning = w.reasoning
  BY ShownOf
<1>2. at'[d] = "failed" /\ round'[d] = round[d] /\ left'[d] = left[d]
  BY DEF TypeInv, TypeOK, TaskTypeOK
<1>3. Active(d)' = {y \in Agents : g[y] = "active"}
  BY DEF Active
<1>4. Sensible(u)
  BY <1>1 DEF Sensible
<1>5. Leads(w, <<f>>, u)
  <2> HIDE DEF f
  <2> QED
    BY <1>4, LeadsOn
<1>6. Asked(d)' = w.reasoning
  BY <1>2, <1>3 DEF Asked
<1> HIDE DEF u
<1>7. Tells(d, u)'
  BY <1>1, <1>2, <1>6 DEF Tells
<1> QED
  BY <1>5, <1>7

\* One that first awaits the release of its claim has said nothing of it yet.
LEMMA UnwindTells ==
  ASSUME TypeInv, NEW d \in Streamed, NEW g \in Gauges,
         at' = [at EXCEPT ![d] = "unwinding"], gauge'[d] = g,
         UNCHANGED <<round, left>>, NEW w, w.status = "running",
         w.reasoning = {<<round[d], x>> : x \in {y \in Agents : g[y] = "active"} \ left[d]}
  PROVE  Tells(d, w)'
<1>1. at'[d] = "unwinding" /\ round'[d] = round[d] /\ left'[d] = left[d]
  BY DEF TypeInv, TypeOK, TaskTypeOK
<1>2. Asked(d)' = w.reasoning
  BY <1>1 DEF Asked, Active
<1> QED
  BY <1>1, <1>2 DEF Tells

LEMMA EnterRoundFollows ==
  ASSUME TypeInv, TypeInv', NEW d \in Streamed, NEW r \in Rounds, EnterRound(d, r),
         at[d] \in {"built", "saving"}, Active(d) = left[d], UNCHANGED <<gen, view>>, Followed(d)
  PROVE  Followed(d)'
<1> DEFINE f == Frame("round_start", r, 0)
           start == Frame("agent_reasoning_start", r, 1)
<1>1. f \in Frames /\ start \in Frames /\ 1 \in Agents
  BY FramesTyped DEF Agents
<1>2. ASSUME NEW w, Leads(view[d], queue[d], w), Tells(d, w)
      PROVE  LET u == Apply(w, f)
             IN  /\ Leads(w, <<f>>, u) /\ Sensible(u)
                 /\ u.status = "running" /\ u.round = r /\ u.reasoning = {}
  <2> DEFINE u == Apply(w, f)
  <2>1. w.status = "running" /\ w.reasoning = {}
    BY <1>2 DEF Tells, Asked
  <2>2. u.status = "running" /\ u.round = r /\ u.reasoning = {}
    BY <2>1, ShownOf
  <2>3. Sensible(w) /\ Sensible(u)
    BY <2>1, <2>2 DEF Sensible
  <2>4. Leads(w, <<f>>, u)
    <3> HIDE DEF f
    <3> QED
      BY <2>3, LeadsOn
  <2> QED
    BY <2>2, <2>3, <2>4
<1>3. CASE Ask(d, r, 1, <<f>>, gauge[d])
  <2>1. gauge[d] \in Gauges /\ {x \in Agents : gauge[d][x] = "active"} = left[d]
    BY DEF TypeInv, TypeOK, TelemetryTypeOK, Gauges, Active
  <2>2. Moves(d, <<f>> \o <<start>>)
    <3>1. SUFFICES ASSUME NEW w, Leads(view[d], queue[d], w), Tells(d, w)
                   PROVE  \E u : Leads(w, <<f>> \o <<start>>, u) /\ Tells(d, u)'
      BY DEF Moves
    <3> DEFINE u1 == Apply(w, f)
    <3>2. /\ Leads(w, <<f>>, u1) /\ Sensible(u1)
          /\ u1.status = "running" /\ u1.round = r /\ u1.reasoning = {}
      BY <1>2, <3>1
    <3> HIDE DEF u1
    <3>3. PICK u : Leads(u1, <<start>>, u) /\ Tells(d, u)'
      BY <1>1, <1>3, <2>1, <3>2, AskMoves
    <3>4. <<f>> \in Seq(Frames) /\ <<start>> \in Seq(Frames)
      BY <1>1
    <3>5. Leads(w, <<f>> \o <<start>>, u)
      <4> HIDE DEF f, start
      <4> QED
        BY <3>2, <3>3, <3>4, LeadsThen
    <3> QED
      BY <3>3, <3>5
  <2>3. Emit(d, <<f>> \o <<start>>) /\ at'[d] # "absent"
    BY <1>3 DEF Ask, TypeInv, TypeOK, TaskTypeOK
  <2>4. <<f>> \o <<start>> \in Seq(Frames)
    BY <1>1
  <2> QED
    <3> HIDE DEF f, start
    <3> QED
      BY <2>2, <2>3, <2>4, SayingFollows
<1>4. CASE Conclude(d, r, <<f>>)
  <2>1. Moves(d, <<f>>)
    <3>1. SUFFICES ASSUME NEW w, Leads(view[d], queue[d], w), Tells(d, w)
                   PROVE  \E u : Leads(w, <<f>>, u) /\ Tells(d, u)'
      BY DEF Moves
    <3> DEFINE u1 == Apply(w, f)
    <3>2. Leads(w, <<f>>, u1) /\ u1.status = "running" /\ u1.reasoning = {}
      BY <1>2, <3>1
    <3> HIDE DEF u1
    <3>3. Tells(d, u1)'
      BY <1>4, <3>2, ConcludeTellsOf
    <3> QED
      BY <3>2, <3>3
  <2>2. Emit(d, <<f>>) /\ at'[d] # "absent" /\ <<f>> \in Seq(Frames)
    BY <1>1, <1>4 DEF Conclude, TypeInv, TypeOK, TaskTypeOK
  <2> QED
    <3> HIDE DEF f
    <3> QED
      BY <2>1, <2>2, SayingFollows
<1> QED
  BY <1>3, <1>4 DEF EnterRound

LEMMA ConcludeFollows ==
  ASSUME TypeInv, NEW d \in Streamed, NEW r, Conclude(d, r, <<>>),
         at[d] \in {"built", "saving"}, Active(d) = left[d], UNCHANGED <<gen, view>>, Followed(d)
  PROVE  Followed(d)'
<1>1. Moves(d, <<>>)
  <2>1. SUFFICES ASSUME NEW w, Leads(view[d], queue[d], w), Tells(d, w)
                 PROVE  \E u : Leads(w, <<>>, u) /\ Tells(d, u)'
    BY DEF Moves
  <2>2. w.status = "running" /\ w.reasoning = {}
    BY <2>1 DEF Tells, Asked
  <2>3. Sensible(w)
    BY <2>2 DEF Sensible
  <2>4. Leads(w, <<>>, w)
    BY <2>3, LeadsNowhere
  <2>5. Tells(d, w)'
    BY <2>2, ConcludeTellsOf
  <2> QED
    BY <2>4, <2>5
<1>2. Emit(d, <<>>) /\ at'[d] # "absent" /\ <<>> \in Seq(Frames)
  BY DEF Conclude, TypeInv, TypeOK, TaskTypeOK
<1> QED
  BY <1>1, <1>2, SayingFollows

\* An agent is done, by an answer or by a refusal, and the task goes on.
LEMMA AnswerFollows ==
  ASSUME TypeInv, TypeInv', NEW d \in Streamed, GaugeTells(d), Answer(d) \/ Refuse(d), Followed(d)
  PROVE  Followed(d)'
<1> DEFINE r == round[d]
           g == Rested(gauge[d], turn[d])
           f == Frame("agent_reasoning_end", r, turn[d])
           start == Frame("agent_reasoning_start", r, turn[d] + 1)
           computed == Frame("convergence_computed", r, 0)
           error == Frame("error", 0, 0)
<1>1. /\ at[d] = "asking" /\ r \in Rounds /\ turn[d] \in Agents /\ gauge[d] \in Gauges
      /\ UNCHANGED <<gen, view>>
  BY DEF Answer, Refuse, TypeInv, TypeOK, TelemetryTypeOK, Positioned, Position, Gauges
<1>2. g \in Gauges /\ {x \in Agents : g[x] = "active"} = left[d]
  <2>1. {x \in Agents : gauge[d][x] = "active"} = {turn[d]} \cup left[d] /\ turn[d] \notin left[d]
    BY <1>1 DEF GaugeTells, Active
  <2>2. Rested(gauge[d], turn[d]) \in Gauges
    BY <1>1, GaugeTyped
  <2>3. {x \in Agents : Rested(gauge[d], turn[d])[x] = "active"} = left[d]
    BY <1>1, <2>1, ActiveSets
  <2> QED
    BY <2>2, <2>3
<1>3. f \in Frames /\ computed \in Frames /\ error \in Frames
  BY <1>1, FramesTyped
<1>4. ASSUME NEW w, Leads(view[d], queue[d], w), Tells(d, w)
      PROVE  LET u == Apply(w, f)
             IN  /\ Leads(w, <<f>>, u) /\ Sensible(u)
                 /\ u.status = "running" /\ u.round = r /\ u.reasoning = {}
  <2> DEFINE u == Apply(w, f)
  <2>1. w.status = "running" /\ w.reasoning = {<<r, turn[d]>>} /\ w.round = r
    BY <1>1, <1>4 DEF Tells, Asked, GaugeTells
  <2>2. u.status = "running" /\ u.round = r /\ u.reasoning = {}
    BY <2>1, ShownOf
  <2>3. Sensible(w) /\ Sensible(u)
    BY <2>1, <2>2 DEF Sensible
  <2>4. Leads(w, <<f>>, u)
    <3> HIDE DEF f
    <3> QED
      BY <2>3, LeadsOn
  <2> QED
    BY <2>2, <2>3, <2>4
<1>5. CASE Ask(d, r, turn[d] + 1, <<f>>, g) /\ turn[d] + 1 \in Agents
  <2>1. start \in Frames
    BY <1>1, <1>5, FramesTyped
  <2>2. Moves(d, <<f>> \o <<start>>)
    <3>1. SUFFICES ASSUME NEW w, Leads(view[d], queue[d], w), Tells(d, w)
                   PROVE  \E u : Leads(w, <<f>> \o <<start>>, u) /\ Tells(d, u)'
      BY DEF Moves
    <3> DEFINE u1 == Apply(w, f)
    <3>2. /\ Leads(w, <<f>>, u1) /\ Sensible(u1)
          /\ u1.status = "running" /\ u1.round = r /\ u1.reasoning = {}
      BY <1>4, <3>1
    <3> HIDE DEF u1, g
    <3>3. PICK u : Leads(u1, <<start>>, u) /\ Tells(d, u)'
      BY <1>1, <1>2, <1>5, <3>2, AskMoves
    <3>4. <<f>> \in Seq(Frames) /\ <<start>> \in Seq(Frames)
      BY <1>3, <2>1
    <3>5. Leads(w, <<f>> \o <<start>>, u)
      <4> HIDE DEF f, start
      <4> QED
        BY <3>2, <3>3, <3>4, LeadsThen
    <3> QED
      BY <3>3, <3>5
  <2>3. Emit(d, <<f>> \o <<start>>) /\ at'[d] # "absent"
    BY <1>5 DEF Ask, TypeInv, TypeOK, TaskTypeOK
  <2>4. <<f>> \o <<start>> \in Seq(Frames)
    BY <1>3, <2>1
  <2> QED
    <3> HIDE DEF f, start
    <3> QED
      BY <1>1, <2>2, <2>3, <2>4, SayingFollows
<1>6. ASSUME NEW w, Leads(view[d], queue[d], w), Tells(d, w)
      PROVE  \E u : /\ Leads(w, <<f>> \o <<computed>>, u) /\ Sensible(u)
                    /\ u.status = "running" /\ u.round = r /\ u.reasoning = {} /\ u.scored = r
  <2> DEFINE u1 == Apply(w, f)
             u2 == Apply(u1, computed)
  <2>1. /\ Leads(w, <<f>>, u1) /\ Sensible(u1)
        /\ u1.status = "running" /\ u1.round = r /\ u1.reasoning = {}
    BY <1>4, <1>6
  <2>2. u2.status = "running" /\ u2.round = r /\ u2.reasoning = {} /\ u2.scored = r
    <3> HIDE DEF u1
    <3> QED
      BY <2>1, ShownOf
  <2>3. Sensible(u2)
    BY <2>2 DEF Sensible
  <2>4. Leads(u1, <<computed>>, u2)
    <3> HIDE DEF u1, computed
    <3> QED
      BY <2>1, <2>3, LeadsOn
  <2>5. <<f>> \in Seq(Frames) /\ <<computed>> \in Seq(Frames)
    BY <1>3
  <2>6. Leads(w, <<f>> \o <<computed>>, u2)
    <3> HIDE DEF u1, u2, f, computed
    <3> QED
      BY <2>1, <2>4, <2>5, LeadsThen
  <2> HIDE DEF u2
  <2> QED
    BY <2>2, <2>3, <2>6
<1>7. <<f>> \o <<computed>> = Append(<<f>>, computed) /\ <<f>> \o <<computed>> \in Seq(Frames)
  BY <1>3
<1>8. CASE EndRound(d, <<f>>, g) /\ at' = [at EXCEPT ![d] = "saving"]
           /\ gauge' = [gauge EXCEPT ![d] = g] /\ Emit(d, Append(<<f>>, computed))
  <2>1. at'[d] = "saving" /\ round' = round /\ gauge'[d] = g /\ left' = left
    BY <1>8 DEF EndRound, TypeInv, TypeOK, TaskTypeOK, TelemetryTypeOK
  <2>2. Asked(d)' = {}
    <3> HIDE DEF g
    <3> QED
      BY <1>2, <2>1 DEF Asked, Active
  <2>3. Moves(d, <<f>> \o <<computed>>)
    <3>1. SUFFICES ASSUME NEW w, Leads(view[d], queue[d], w), Tells(d, w)
                   PROVE  \E u : Leads(w, <<f>> \o <<computed>>, u) /\ Tells(d, u)'
      BY DEF Moves
    <3>2. PICK u : /\ Leads(w, <<f>> \o <<computed>>, u) /\ Sensible(u)
                   /\ u.status = "running" /\ u.round = r /\ u.reasoning = {} /\ u.scored = r
      BY <1>6, <3>1
    <3>3. Tells(d, u)'
      BY <2>1, <2>2, <3>2 DEF Tells
    <3> QED
      BY <3>2, <3>3
  <2>4. Emit(d, <<f>> \o <<computed>>)
    BY <1>7, <1>8
  <2> QED
    <3> HIDE DEF f, computed
    <3> QED
      BY <1>1, <1>7, <2>1, <2>3, <2>4, SayingFollows
<1>9. CASE EndRound(d, <<f>>, g) /\ Fail(d, Append(<<f>>, computed), g)
  <2>1. round' = round /\ left' = left /\ gauge'[d] = g
    BY <1>9 DEF EndRound, Fail, TypeInv, TypeOK, TelemetryTypeOK
  <2>2. ASSUME NEW w, Leads(view[d], queue[d], w), Tells(d, w)
        PROVE  \E u : /\ Leads(w, <<f>> \o <<computed>>, u) /\ Sensible(u) /\ u.status = "running"
                      /\ u.reasoning = {<<round[d], x>> :
                                          x \in {y \in Agents : g[y] = "active"} \ left[d]}
    <3>1. PICK u : /\ Leads(w, <<f>> \o <<computed>>, u) /\ Sensible(u)
                   /\ u.status = "running" /\ u.reasoning = {}
      BY <1>6, <2>2
    <3> HIDE DEF g
    <3> QED
      BY <1>2, <3>1
  <2>3. CASE at' = [at EXCEPT ![d] = "failed"] /\ Emit(d, (<<f>> \o <<computed>>) \o <<error>>)
    <3>1. Moves(d, (<<f>> \o <<computed>>) \o <<error>>)
      <4>1. SUFFICES ASSUME NEW w, Leads(view[d], queue[d], w), Tells(d, w)
                     PROVE  \E u : Leads(w, (<<f>> \o <<computed>>) \o <<error>>, u) /\ Tells(d, u)'
        BY DEF Moves
      <4>2. PICK u2 : /\ Leads(w, <<f>> \o <<computed>>, u2) /\ Sensible(u2) /\ u2.status = "running"
                      /\ u2.reasoning = {<<round[d], x>> :
                                           x \in {y \in Agents : g[y] = "active"} \ left[d]}
        BY <2>2, <4>1
      <4>3. PICK u : Leads(u2, <<error>>, u) /\ Tells(d, u)'
        <5> HIDE DEF g
        <5> QED
          BY <1>2, <2>1, <2>3, <4>2, FailMoves
      <4>4. <<error>> \in Seq(Frames)
        BY <1>3
      <4>5. Leads(w, (<<f>> \o <<computed>>) \o <<error>>, u)
        <5> HIDE DEF f, computed, error
        <5> QED
          BY <1>7, <4>2, <4>3, <4>4, LeadsThen
      <4> QED
        BY <4>3, <4>5
    <3>2. (<<f>> \o <<computed>>) \o <<error>> \in Seq(Frames) /\ at'[d] # "absent"
      BY <1>3, <2>3 DEF TypeInv, TypeOK, TaskTypeOK
    <3> QED
      <4> HIDE DEF f, computed, error
      <4> QED
        BY <1>1, <2>3, <3>1, <3>2, SayingFollows
  <2>4. CASE at' = [at EXCEPT ![d] = "unwinding"] /\ Emit(d, <<f>> \o <<computed>>)
    <3>1. Moves(d, <<f>> \o <<computed>>)
      <4>1. SUFFICES ASSUME NEW w, Leads(view[d], queue[d], w), Tells(d, w)
                     PROVE  \E u : Leads(w, <<f>> \o <<computed>>, u) /\ Tells(d, u)'
        BY DEF Moves
      <4>2. PICK u : /\ Leads(w, <<f>> \o <<computed>>, u) /\ u.status = "running"
                     /\ u.reasoning = {<<round[d], x>> :
                                         x \in {y \in Agents : g[y] = "active"} \ left[d]}
        BY <2>2, <4>1
      <4>3. Tells(d, u)'
        <5> HIDE DEF g
        <5> QED
          BY <1>2, <2>1, <2>4, <4>2, UnwindTells
      <4> QED
        BY <4>2, <4>3
    <3>2. at'[d] # "absent"
      BY <2>4 DEF TypeInv, TypeOK, TaskTypeOK
    <3> QED
      <4> HIDE DEF f, computed
      <4> QED
        BY <1>1, <1>7, <2>4, <3>1, <3>2, SayingFollows
  <2> QED
    BY <1>7, <1>9, <2>3, <2>4 DEF Fail
<1>10. CASE EndRound(d, <<f>>, g)
  BY <1>8, <1>9, <1>10 DEF EndRound
<1>11. AgentEnd(d) = f
  BY DEF AgentEnd
<1>12. CASE Answer(d) /\ turn[d] < Team[d]
  <2>1. turn[d] + 1 \in Agents
    BY <1>1, <1>12 DEF Agents
  <2>2. Ask(d, r, turn[d] + 1, <<f>>, g)
    BY <1>11, <1>12 DEF Answer
  <2> QED
    BY <1>5, <2>1, <2>2
<1>13. CASE ~(Answer(d) /\ turn[d] < Team[d])
  BY <1>10, <1>11, <1>13 DEF Answer, Refuse, RefusalFrames
<1> QED
  BY <1>12, <1>13

LEMMA RaiseFollows ==
  ASSUME TypeInv, NEW d \in Streamed, Raise(d) \/ Unwind(d), Followed(d)
  PROVE  Followed(d)'
<1> DEFINE error == Frame("error", 0, 0)
<1>1. /\ at[d] \notin {"over", "failed"} /\ UNCHANGED <<gen, view, round, left>>
      /\ gauge'[d] = gauge[d] /\ gauge[d] \in Gauges
  BY DEF Raise, Unwind, Fail, TypeInv, TypeOK, TelemetryTypeOK, telemetryVars
<1>2. ASSUME NEW w, Leads(view[d], queue[d], w), Tells(d, w)
      PROVE  /\ Sensible(w) /\ w.status = "running"
             /\ w.reasoning = {<<round[d], x>> :
                                 x \in {y \in Agents : gauge[d][y] = "active"} \ left[d]}
  <2>1. queue[d] \in Seq(Frames)
    BY DEF TypeInv, TypeOK, StreamTypeOK
  <2>2. Sensible(w)
    BY <1>2, <2>1, LeadsEnds
  <2> QED
    BY <1>1, <1>2, <2>2 DEF Tells, Asked, Active
<1>3. CASE at' = [at EXCEPT ![d] = "failed"] /\ Emit(d, <<error>>)
  <2>1. Moves(d, <<error>>)
    <3>1. SUFFICES ASSUME NEW w, Leads(view[d], queue[d], w), Tells(d, w)
                   PROVE  \E u : Leads(w, <<error>>, u) /\ Tells(d, u)'
      BY DEF Moves
    <3> QED
      BY <1>1, <1>2, <1>3, <3>1, FailMoves
  <2>2. at'[d] # "absent" /\ <<error>> \in Seq(Frames)
    BY <1>3, FramesTyped DEF TypeInv, TypeOK, TaskTypeOK
  <2> QED
    <3> HIDE DEF error
    <3> QED
      BY <1>1, <1>3, <2>1, <2>2, SayingFollows
<1>4. CASE at' = [at EXCEPT ![d] = "unwinding"] /\ Emit(d, <<>>)
  <2>1. Moves(d, <<>>)
    <3>1. SUFFICES ASSUME NEW w, Leads(view[d], queue[d], w), Tells(d, w)
                   PROVE  \E u : Leads(w, <<>>, u) /\ Tells(d, u)'
      BY DEF Moves
    <3>2. Leads(w, <<>>, w)
      BY <1>2, <3>1, LeadsNowhere
    <3>3. Tells(d, w)'
      BY <1>1, <1>2, <1>4, <3>1, UnwindTells
    <3> QED
      BY <3>2, <3>3
  <2>2. at'[d] # "absent" /\ <<>> \in Seq(Frames)
    BY <1>4 DEF TypeInv, TypeOK, TaskTypeOK
  <2> QED
    BY <1>1, <1>4, <2>1, <2>2, SayingFollows
<1>5. <<>> \o <<error>> = <<error>>
  BY FramesTyped
<1> QED
  <2> HIDE DEF error
  <2> QED
    BY <1>3, <1>4, <1>5 DEF Raise, Unwind, Fail, error

\* The last frame is put when nobody is asked, at once or when the claim is released.
LEMMA FinishFollows ==
  ASSUME TypeInv, NEW d \in Streamed, GaugeTells(d), Finish(d) \/ Deliver(d), Followed(d)
  PROVE  Followed(d)'
<1> DEFINE done == Frame("done", 0, 0)
<1>1. /\ at[d] \in {"savingFinal", "releasing"} /\ UNCHANGED <<gen, view, round, left>>
      /\ Active(d) \subseteq left[d]
  BY DEF Finish, Deliver, ClearGauges, telemetryVars, GaugeTells
<1>2. Active(d)' \subseteq Active(d)
  <2>1. gauge'[d] = gauge[d] \/ gauge'[d] = Cleared(gauge[d], Team[d])
    BY DEF Finish, Deliver, ClearGauges, telemetryVars, TypeInv, TypeOK, TelemetryTypeOK
  <2> QED
    BY <2>1 DEF Active, Cleared
<1>3. Asked(d) = {} /\ Asked(d)' = {}
  BY <1>1, <1>2 DEF Asked
<1>4. CASE at' = [at EXCEPT ![d] = "over"] /\ Emit(d, <<done>>)
  <2>1. at'[d] = "over"
    BY <1>4 DEF TypeInv, TypeOK, TaskTypeOK
  <2>2. Moves(d, <<done>>)
    <3>1. SUFFICES ASSUME NEW w, Leads(view[d], queue[d], w), Tells(d, w)
                   PROVE  \E u : Leads(w, <<done>>, u) /\ Tells(d, u)'
      BY DEF Moves
    <3> DEFINE u == Apply(w, done)
    <3>2. w.status = "running" /\ w.reasoning = {}
      BY <1>1, <1>3, <3>1 DEF Tells
    <3>3. u.status = "done" /\ u.reasoning = {}
      BY <3>2, ShownOf
    <3>4. Sensible(w) /\ Sensible(u)
      BY <3>2, <3>3 DEF Sensible
    <3>5. Leads(w, <<done>>, u)
      <4> HIDE DEF done
      <4> QED
        BY <3>4, LeadsOn
    <3> HIDE DEF u
    <3>6. Tells(d, u)'
      BY <1>3, <2>1, <3>3 DEF Tells
    <3> QED
      BY <3>5, <3>6
  <2>3. <<done>> \in Seq(Frames)
    BY FramesTyped
  <2> QED
    <3> HIDE DEF done
    <3> QED
      BY <1>1, <1>4, <2>1, <2>2, <2>3, SayingFollows
<1>5. CASE at' = [at EXCEPT ![d] = "releasing"] /\ queue' = queue
  <2>1. at'[d] = "releasing"
    BY <1>5 DEF TypeInv, TypeOK, TaskTypeOK
  <2>2. Follows(d) => Follows(d)'
    BY <1>1, <1>3, <1>5, <2>1 DEF Follows, Tells
  <2> QED
    BY <1>1, <2>1, <2>2 DEF Followed, Watched
<1> QED
  BY <1>4, <1>5 DEF Finish, Deliver, Complete

\* A step of one debate leaves the others alone.
Untouched(x) ==
  /\ at'[x] = at[x] /\ round'[x] = round[x] /\ gauge'[x] = gauge[x] /\ left'[x] = left[x]
  /\ queue'[x] = queue[x] /\ gen'[x] = gen[x] /\ view'[x] = view[x]

LEMMA OthersUntouched ==
  ASSUME TypeInv, NEW d \in Debates, NEW x \in Debates, x # d,
         \/ Build(d) \/ BuildFails(d)
         \/ Begin(d) \/ Answer(d) \/ Refuse(d) \/ Publish(d) \/ Continue(d)
         \/ SaveFinal(d) \/ Finish(d) \/ Deliver(d) \/ Raise(d) \/ Unwind(d)
         \/ Show(d) \/ Leave(d) \/ Close(d)
  PROVE  Untouched(x)
<1>1. /\ at \in [Debates -> Places] /\ round \in [Debates -> 0..NumRounds]
      /\ gauge \in [Debates -> Gauges] /\ queue \in [Debates -> Seq(Frames)]
      /\ gen \in [Debates -> {"absent", "open", "closed"}] /\ view \in [Debates -> Views]
      /\ left \in [Debates -> SUBSET Agents]
  BY DEF TypeInv, TypeOK, TaskTypeOK, StreamTypeOK, TelemetryTypeOK, Gauges, Views
<1>2. CASE Build(d) \/ BuildFails(d)
  BY <1>1, <1>2 DEF Build, BuildFails, Opened, Untouched, telemetryVars
<1>3. CASE Begin(d) \/ Continue(d)
  BY <1>1, <1>3 DEF Begin, Continue, EnterRound, Ask, Conclude, Emit, Untouched
<1>4. CASE Answer(d) \/ Refuse(d)
  BY <1>1, <1>4 DEF Answer, Refuse, EndRound, Fail, Ask, Emit, Untouched
<1>5. CASE Publish(d) \/ SaveFinal(d)
  BY <1>1, <1>5 DEF Publish, SaveFinal, taskVars, streamVars, telemetryVars, Untouched
<1>6. CASE Finish(d) \/ Raise(d)
  BY <1>1, <1>6 DEF Finish, Complete, Raise, Fail, ClearGauges, Emit, Untouched
<1>8. CASE Deliver(d) \/ Unwind(d)
  BY <1>1, <1>8 DEF Deliver, Complete, Unwind, Emit, Untouched, telemetryVars
<1>7. CASE Show(d) \/ Leave(d) \/ Close(d)
  BY <1>1, <1>7 DEF Show, Leave, Close, Stopped, taskVars, telemetryVars, Untouched
<1> QED
  BY <1>2, <1>3, <1>4, <1>5, <1>6, <1>7, <1>8

LEMMA UntouchedFollowed ==
  ASSUME NEW x, Untouched(x), Followed(x)
  PROVE  Followed(x)'
<1>1. Asked(x)' = Asked(x)
  BY DEF Untouched, Asked, Active
<1>2. Follows(x) => Follows(x)'
  BY <1>1 DEF Untouched, Follows, Tells
<1> QED
  BY <1>2 DEF Untouched, Followed, Watched

\* The generator takes a frame; or the client leaves, and the stream is closed.
LEMMA ReaderFollowed ==
  ASSUME TypeInv, NEW d \in Streamed, Show(d) \/ Leave(d) \/ Close(d), Followed(d)
  PROVE  Followed(d)'
<1>1. /\ at \in [Debates -> Places] /\ round \in [Debates -> 0..NumRounds]
      /\ gauge \in [Debates -> Gauges] /\ queue \in [Debates -> Seq(Frames)]
      /\ gen \in [Debates -> {"absent", "open", "closed"}] /\ view \in [Debates -> Views]
      /\ left \in [Debates -> SUBSET Agents]
  BY DEF TypeInv, TypeOK, TaskTypeOK, StreamTypeOK, TelemetryTypeOK, Gauges, Views
<1>2. CASE Show(d)
  <2> DEFINE f == Head(queue[d])
  <2>1. /\ Watched(d) /\ queue[d] # <<>> /\ queue[d] \in Seq(Frames)
        /\ view'[d] = Apply(view[d], f) /\ queue'[d] = Tail(queue[d])
        /\ UNCHANGED <<round, gauge, left>>
    BY <1>1, <1>2 DEF Show, Watched, telemetryVars
  <2>2. PICK w : Leads(view[d], queue[d], w) /\ Tells(d, w)
    BY <2>1 DEF Followed, Follows
  <2>3. Leads(view'[d], queue'[d], w) /\ Sensible(view'[d])
    BY <2>1, <2>2, LeadsFrom
  <2>4. at'[d] # "absent"
    BY <1>1, <1>2, <2>1 DEF Show, Stopped, Ended, Followed
  <2>5. CASE f.event \in Closing
    <3>1. gen'[d] = "closed"
      BY <1>1, <1>2, <2>5 DEF Show
    <3> QED
      BY <2>3, <2>4, <3>1 DEF Followed, Watched
  <2>6. CASE f.event \notin Closing
    <3>1. at' = at
      BY <1>2, <2>6 DEF Show
    <3>2. Asked(d)' = Asked(d)
      BY <2>1 DEF Asked, Active
    <3>3. Tells(d, w)'
      BY <2>1, <2>2, <3>1, <3>2 DEF Tells
    <3> QED
      BY <2>3, <2>4, <3>3 DEF Followed, Follows
  <2> QED
    BY <2>5, <2>6
<1>3. CASE Leave(d)
  <2>1. /\ view'[d] = [NoView EXCEPT !.status = "stopped"] /\ at' = at
        /\ view[d].status = "running"
    BY <1>1, <1>3 DEF Leave, taskVars
  <2>2. view'[d].status = "stopped" /\ view'[d].reasoning = {} /\ NoView.status = "idle"
    BY <2>1 DEF NoView
  <2> QED
    BY <2>1, <2>2 DEF Followed, Watched, Sensible
<1>4. CASE Close(d)
  <2>1. gen'[d] = "closed" /\ view' = view /\ view[d].status = "stopped"
        /\ at'[d] \in Ended
    BY <1>1, <1>4 DEF Close, Stopped, Ended
  <2> QED
    BY <2>1 DEF Followed, Watched, Ended
<1> QED
  BY <1>2, <1>3, <1>4

LEMMA BuildFollowed ==
  ASSUME TypeInv, NEW d \in Streamed, GaugeTells(d), Build(d) \/ BuildFails(d), Followed(d)
  PROVE  Followed(d)'
<1>1. /\ at[d] = "absent" /\ at'[d] \in {"built", "failed"}
      /\ view[d] = NoView /\ UNCHANGED <<queue, gauge, left, round>> /\ queue[d] = <<>>
      /\ Active(d) = left[d]
  BY DEF Build, BuildFails, TypeInv, TypeOK, TaskTypeOK, telemetryVars, Followed, GaugeTells
<1>2. CASE Build(d)
  <2>1. view'[d] = [NoView EXCEPT !.status = "running"] /\ at'[d] = "built"
    BY <1>1, <1>2 DEF Build, Opened, TypeInv, TypeOK, TaskTypeOK, StreamTypeOK
  <2>2. view'[d].status = "running" /\ view'[d].reasoning = {}
    BY <2>1 DEF NoView
  <2>3. Sensible(view'[d])
    BY <2>2 DEF Sensible
  <2>4. Leads(view'[d], queue'[d], view'[d])
    BY <1>1, <2>3, LeadsNowhere
  <2>5. Asked(d)' = {}
    BY <1>1 DEF Asked, Active
  <2>6. Tells(d, view[d])'
    BY <2>1, <2>2, <2>5 DEF Tells
  <2>7. Follows(d)'
    <3> DEFINE w == view'[d]
    <3>1. Leads(view'[d], queue'[d], w)
      BY <2>4
    <3> QED
      BY <2>1, <2>2, <2>4, <2>5 DEF Follows, Tells
  <2> QED
    BY <2>1, <2>3, <2>7 DEF Followed
<1>3. CASE BuildFails(d)
  <2>1. /\ view'[d] = [NoView EXCEPT !.status = "error"] /\ at'[d] = "failed"
        /\ gen'[d] = "closed"
    BY <1>1, <1>3 DEF BuildFails, Opened, TypeInv, TypeOK, TaskTypeOK, StreamTypeOK
  <2>2. view'[d].status = "error" /\ view'[d].reasoning = {}
    BY <2>1 DEF NoView
  <2> QED
    BY <2>1, <2>2 DEF Followed, Watched, Sensible
<1> QED
  BY <1>2, <1>3

FollowInv == \A d \in Streamed : Followed(d)

LEMMA FollowInvHolds == Spec => []FollowInv
<1>1. ASSUME Init PROVE FollowInv
  <2>1. SUFFICES ASSUME NEW d \in Streamed PROVE Followed(d)
    BY DEF FollowInv
  <2>2. view[d] = NoView /\ queue[d] = <<>> /\ gen[d] = "absent"
    BY <1>1 DEF Init
  <2>3. Sensible(NoView)
    BY DEF Sensible, NoView
  <2> QED
    BY <2>2, <2>3 DEF Followed, Watched
<1>2. /\ TypeInv /\ TypeInv' /\ (\A d \in Debates : GaugeTells(d)) /\ FollowInv /\ [Next]_vars
      => FollowInv'
  <2> SUFFICES ASSUME TypeInv, TypeInv', \A x \in Debates : GaugeTells(x), FollowInv, [Next]_vars,
                        NEW x \in Streamed
                 PROVE  Followed(x)'
    BY DEF FollowInv
  <2>2. x \in Debates /\ GaugeTells(x) /\ Followed(x)
    BY DEF FollowInv
  <2>3. CASE UNCHANGED vars
    <3>1. Untouched(x)
      BY <2>3 DEF vars, taskVars, streamVars, telemetryVars, Untouched
    <3> QED
      BY <2>2, <3>1, UntouchedFollowed
  <2>4. ASSUME NEW d \in Debates, x # d,
               \/ Build(d) \/ BuildFails(d)
               \/ Begin(d) \/ Answer(d) \/ Refuse(d) \/ Publish(d) \/ Continue(d)
               \/ SaveFinal(d) \/ Finish(d) \/ Deliver(d) \/ Raise(d) \/ Unwind(d)
               \/ Show(d) \/ Leave(d) \/ Close(d)
        PROVE  Followed(x)'
    <3>1. Untouched(x)
      BY <2>2, <2>4, OthersUntouched
    <3> QED
      BY <2>2, <3>1, UntouchedFollowed
  <2>5. CASE Build(x) \/ BuildFails(x)
    BY <2>2, <2>5, BuildFollowed
  <2>6. CASE Begin(x)
    <3>1. at[x] = "built" /\ Active(x) = left[x] /\ UNCHANGED <<gen, view>>
      BY <2>2, <2>6 DEF Begin, GaugeTells
    <3>2. CASE RoundsLeft(disk[x].rounds) /\ EnterRound(x, disk[x].rounds + 1)
      <4>1. disk[x].rounds + 1 \in Rounds
        BY <2>2, <3>2 DEF TypeInv, TypeOK, TaskTypeOK, RoundsLeft, Rounds
      <4> QED
        BY <2>2, <3>1, <3>2, <4>1, EnterRoundFollows
    <3>3. CASE Conclude(x, NumRounds, <<>>)
      BY <2>2, <3>1, <3>3, ConcludeFollows
    <3> QED
      BY <2>6, <3>2, <3>3 DEF Begin
  <2>7. CASE Continue(x)
    <3>1. at[x] = "saving" /\ Active(x) = left[x] /\ UNCHANGED <<gen, view>>
      BY <2>2, <2>7 DEF Continue, GaugeTells
    <3>2. CASE RoundsLeft(round[x]) /\ EnterRound(x, round[x] + 1)
      <4>1. round[x] + 1 \in Rounds
        BY <2>2, <3>2 DEF TypeInv, TypeOK, TaskTypeOK, RoundsLeft, Rounds
      <4> QED
        BY <2>2, <3>1, <3>2, <4>1, EnterRoundFollows
    <3>3. CASE Conclude(x, round[x], <<>>)
      BY <2>2, <3>1, <3>3, ConcludeFollows
    <3> QED
      BY <2>7, <3>2, <3>3 DEF Continue
  <2>8. CASE Answer(x) \/ Refuse(x)
    BY <2>2, <2>8, AnswerFollows
  <2>9. CASE Publish(x) \/ SaveFinal(x)
    <3>1. CASE Publish(x)
      <4>1. Untouched(x)
        BY <3>1 DEF Publish, taskVars, streamVars, telemetryVars, Untouched
      <4> QED
        BY <2>2, <4>1, UntouchedFollowed
    <3>2. CASE SaveFinal(x)
      <4>1. /\ at[x] = "concluding" /\ at'[x] = "savingFinal"
            /\ UNCHANGED <<round, queue, gen, view, gauge, left>>
        BY <2>2, <3>2 DEF SaveFinal, streamVars, telemetryVars, TypeInv, TypeOK, TaskTypeOK
      <4>2. Asked(x)' = Asked(x)
        BY <4>1 DEF Asked, Active
      <4>3. Follows(x) => Follows(x)'
        BY <4>1, <4>2 DEF Follows, Tells
      <4> QED
        BY <2>2, <4>1, <4>3 DEF Followed, Watched
    <3> QED
      BY <2>9, <3>1, <3>2
  <2>10. CASE Finish(x) \/ Deliver(x)
    BY <2>2, <2>10, FinishFollows
  <2>11. CASE Raise(x) \/ Unwind(x)
    BY <2>2, <2>11, RaiseFollows
  <2>12. CASE Show(x) \/ Leave(x) \/ Close(x)
    BY <2>2, <2>12, ReaderFollowed
  <2> QED
    BY <2>3, <2>4, <2>5, <2>6, <2>7, <2>8, <2>9, <2>10, <2>11, <2>12 DEF Next
<1> QED
  BY <1>1, <1>2, TypeInvHolds, GaugeTellsHolds, PTL DEF Spec

\* Whatever the committees and however far a client is behind, the frames in its queue
\* lead what it sees to where the task is.
THEOREM NoFrameLostHolds == Spec => []NoFrameLost
<1>1. TypeInv /\ FollowInv => NoFrameLost
  <2>1. SUFFICES ASSUME TypeInv, FollowInv, NEW d \in Streamed, gen[d] = "open",
                        view[d].status # "stopped"
                 PROVE  LET v == Upcoming(d)
                        IN  /\ v.status = CASE at[d] = "over" -> "done"
                                            [] at[d] = "failed" -> "error"
                                            [] OTHER -> "running"
                            /\ v.reasoning = {<<round[d], a>> : a \in Active(d) \ left[d]}
                            /\ at[d] \in {"asking", "saving"} => v.round = round[d]
                            /\ at[d] = "saving" => v.scored = round[d]
    BY DEF NoFrameLost
  <2>2. PICK w : Leads(view[d], queue[d], w) /\ Tells(d, w)
    BY <2>1 DEF FollowInv, Followed, Watched, Follows
  <2>3. queue[d] \in Seq(Frames)
    BY <2>1 DEF TypeInv, TypeOK, StreamTypeOK
  <2>4. Upcoming(d) = w
    BY <2>2, <2>3, LeadsEnds DEF Upcoming
  <2> HIDE DEF Upcoming
  <2> QED
    BY <2>2, <2>4 DEF Tells, Asked
<1> QED
  BY <1>1, TypeInvHolds, FollowInvHolds, PTL

\* No viewer ever shows two agents reasoning, nor one after the end.
THEOREM ViewMakesSenseHolds == Spec => []ViewMakesSense
<1>1. FollowInv => ViewMakesSense
  BY DEF FollowInv, Followed, Sensible, ViewMakesSense
<1> QED
  BY <1>1, FollowInvHolds, PTL
=============================================================================
