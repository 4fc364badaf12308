------------------------------ MODULE StreamRun ------------------------------
(***************************************************************************)
(* Debates of one API process and those who watch them.  A streamed debate *)
(* (_stream_run of api/app.py) is three actors: the task that runs it,     *)
(* whose events go to a queue; the SSE generator that takes them from      *)
(* there; and the client, the viewer of frontend/src/App.jsx, who may stop *)
(* at any time.  A blocking debate (POST /debate without stream) has no    *)
(* queue.  Both also write the trace, publish to Redis, and set the gauges *)
(* and MLflow runs of Telemetry.                                           *)
(*                                                                         *)
(* A step goes from one suspension of the event loop to the next.  put()   *)
(* on the unbounded queue does not suspend, nor does JsonStore: so all     *)
(* events and file writes between two awaits on an agent, Mongo or Redis   *)
(* belong to one step, and the last event of a task to the step that ends  *)
(* it.  What an event says is reduced to what the viewer folds of it, and  *)
(* events whose position it does not look at are left out: mode_transition,*)
(* disagreement_detected, budget_exhausted and synthesis_complete.         *)
(* Bounds: NumRounds, Team, and one execution per debate; what earlier     *)
(* executions saved and left in the gauges is where it begins.             *)
(***************************************************************************)
EXTENDS Telemetry, SequencesExt

CONSTANTS Streamed,     \* the debates with a stream
          Published,    \* the debates with a redis_bus
          Claimed,      \* the debates whose task holds a claim of run_lock_store: run_id was
                        \* given, and there is a Mongo
          Team,         \* per debate: the number of its agents
          Past          \* per debate: what earlier executions may have left of it, in its
                        \* trace and in the gauges of the process

ASSUME StreamAssumption ==
  /\ Streamed \subseteq Debates
  /\ Published \subseteq Debates
  /\ Claimed \subseteq Debates
  /\ Team \in [Debates -> Agents]
  /\ Past \in [Debates -> SUBSET [rounds : 0..NumRounds, gauge : Gauges, scored : BOOLEAN]]

VARIABLES at,           \* per debate: where its task is suspended
          round, turn,  \* per debate: the round it is in, the agent last asked
          disk,         \* per debate: rounds in the saved trace, and whether it is complete
          heard,        \* per debate: the last event that reached subscribers of Redis
          queue,        \* per debate: events put and not yet taken
          gen,          \* per debate: its SSE generator
          view          \* per debate: what the viewer shows

taskVars == <<at, round, turn, disk>>
streamVars == <<queue, gen, view>>
vars == <<taskVars, heard, streamVars, telemetryVars>>

Ended == {"over", "failed", "cut"}
Places == {"absent", "built", "asking", "saving", "concluding", "savingFinal",
           "releasing", "unwinding"} \cup Ended

Terminal == {"done", "error"}
Frame(kind, r, a) == [event |-> kind, round |-> r, agent |-> a]
Frames ==
  [event : {"agent_reasoning_start", "agent_reasoning_end"}, round : Rounds, agent : Agents]
    \cup [event : {"round_start", "convergence_computed"}, round : Rounds, agent : {0}]
    \cup [event : Terminal, round : {0}, agent : {0}]

NoView == [status |-> "idle", round |-> 0, reasoning |-> {}, scored |-> 0]

\* A debate is new, or has run before: some rounds are saved, and an execution that
\* failed or was cut in this process has left its labels, also where its agents were others.
Init ==
  /\ at = [d \in Debates |-> "absent"]
  /\ round = [d \in Debates |-> 0]
  /\ turn = [d \in Debates |-> 0]
  /\ \E past \in [Debates -> UNION {Past[d] : d \in Debates}] :
        /\ \A d \in Debates : past[d] \in Past[d]
        /\ disk = [d \in Debates |-> [rounds |-> past[d].rounds, ended |-> FALSE]]
        /\ TelemetryInit([d \in Debates |-> past[d].gauge],
                         {d \in Debates : past[d].scored})
  /\ heard = [d \in Debates |-> 0]
  /\ queue = [d \in Debates |-> <<>>]
  /\ gen = [d \in Debates |-> "absent"]
  /\ view = [d \in Debates |-> NoView]

TaskTypeOK ==
  /\ at \in [Debates -> Places]
  /\ round \in [Debates -> 0..NumRounds]
  /\ turn \in [Debates -> 0..MaxAgents]
  /\ disk \in [Debates -> [rounds : 0..NumRounds, ended : BOOLEAN]]
  /\ heard \in [Debates -> 0..NumRounds + 1]

StreamTypeOK ==
  /\ queue \in [Debates -> Seq(Frames)]
  /\ gen \in [Debates -> {"absent", "open", "closed"}]
  /\ view \in [Debates -> [status : {"idle", "running", "done", "error", "stopped"},
                           round : 0..NumRounds,
                           reasoning : SUBSET (Rounds \X Agents),
                           scored : 0..NumRounds]]

TypeOK == TaskTypeOK /\ StreamTypeOK /\ TelemetryTypeOK

-----------------------------------------------------------------------------
\* The request.

\* mutant of Emit: the queue has a bound, and _emit() swallows QueueFull
EmitIfRoom(d, frames) ==
  queue' = IF d \in Streamed
           THEN [queue EXCEPT ![d] = IF Len(@) > Team[d] THEN @ ELSE @ \o frames] ELSE queue
\* _emit(): events of a debate without a stream go nowhere.
Emit(d, frames) ==
  queue' = IF d \in Streamed THEN [queue EXCEPT ![d] = @ \o frames] ELSE queue

Opened(d, g, status) ==
  IF d \in Streamed
  THEN /\ gen' = [gen EXCEPT ![d] = g]
       /\ view' = [view EXCEPT ![d].status = status]
  ELSE UNCHANGED <<gen, view>>

\* The orchestrator is built and, for a stream, its task created.
Build(d) ==
  /\ at[d] = "absent"
  /\ at' = [at EXCEPT ![d] = "built"]
  /\ Opened(d, "open", "running")
  /\ UNCHANGED <<round, turn, disk, heard, queue, telemetryVars>>

\* build_orchestrator() raises: no task, and no frame; the client sees the
\* connection break.
BuildFails(d) ==
  /\ at[d] = "absent"
  /\ at' = [at EXCEPT ![d] = "failed"]
  /\ Opened(d, "closed", "error")
  /\ UNCHANGED <<round, turn, disk, heard, queue, telemetryVars>>

-----------------------------------------------------------------------------
\* Continuations of a step: what the task does up to its next suspension, given
\* the events already emitted in the step and the gauges g it left.

\* An exception leaves the task; where a claim is held, its release is awaited first.
Fail(d, said, g) ==
  /\ gauge' = [gauge EXCEPT ![d] = g]
  /\ \/ /\ d \notin Claimed \/ at[d] = "built"
        /\ at' = [at EXCEPT ![d] = "failed"]
        /\ Emit(d, said \o <<Frame("error", 0, 0)>>)
     \/ /\ d \in Claimed
        /\ at' = [at EXCEPT ![d] = "unwinding"]
        /\ Emit(d, said)

Ask(d, r, a, said, g) ==
  /\ at' = [at EXCEPT ![d] = "asking"]
  /\ round' = [round EXCEPT ![d] = r]
  /\ turn' = [turn EXCEPT ![d] = a]
  /\ gauge' = [gauge EXCEPT ![d] = Activated(g, a)]
  /\ left' = [left EXCEPT ![d] = @ \ {a}]
  /\ Emit(d, said \o <<Frame("agent_reasoning_start", r, a)>>)
  /\ UNCHANGED <<disk, score>>

\* The loop is left for the synthesis, which may ask the tie-breaker.
Conclude(d, r, said) ==
  /\ at' = [at EXCEPT ![d] = "concluding"]
  /\ round' = [round EXCEPT ![d] = r]
  /\ Emit(d, said)
  /\ UNCHANGED <<turn, disk, gauge, score, left>>

\* The head of a round; allocate() may find that the budget does not do.
EnterRound(d, r) ==
  LET opening == <<Frame("round_start", r, 0)>>
  IN  \/ Ask(d, r, 1, opening, gauge[d])
      \/ Conclude(d, r, opening)

\* The end of a round: its events, and the blocking write of the trace, which may raise.
EndRound(d, said, g) ==
  LET closing == Append(said, Frame("convergence_computed", round[d], 0))
  IN  /\ score' = score \cup {d}
      /\ UNCHANGED <<round, turn, left>>
      /\ \/ /\ at' = [at EXCEPT ![d] = "saving"]
            /\ disk' = [disk EXCEPT ![d].rounds = round[d]]
            /\ gauge' = [gauge EXCEPT ![d] = g]
            /\ Emit(d, closing)
         \/ Fail(d, closing, g) /\ UNCHANGED disk

-----------------------------------------------------------------------------
\* The task of a debate.

RoundsLeft(n) == n < NumRounds

Begin(d) ==
  /\ at[d] = "built"
  /\ StartRun(d)
  /\ IF RoundsLeft(disk[d].rounds)
     THEN EnterRound(d, disk[d].rounds + 1)
     ELSE Conclude(d, NumRounds, <<>>)
  /\ UNCHANGED <<heard, gen, view>>

AgentEnd(d) == Frame("agent_reasoning_end", round[d], turn[d])

\* An agent answers, or is excluded for an invalid output.
Answer(d) ==
  LET said == <<AgentEnd(d)>>
      g == Rested(gauge[d], turn[d])
  IN  /\ at[d] = "asking"
      /\ IF turn[d] < Team[d] THEN Ask(d, round[d], turn[d] + 1, said, g)
                                ELSE EndRound(d, said, g)
      /\ UNCHANGED <<heard, gen, view, active, tracker, runs>>

\* mutant of RefusalFrames: the refused agent is never said to have ended
RefusalUnended(d) == <<>>
\* The gate refuses the call: the round ends with the outputs so far.
RefusalFrames(d) == <<AgentEnd(d)>>

Refuse(d) ==
  /\ at[d] = "asking"
  /\ EndRound(d, RefusalFrames(d), Rested(gauge[d], turn[d]))
  /\ UNCHANGED <<heard, gen, view, active, tracker, runs>>

\* Redis carries round_complete or synthesis_complete to the subscribers, or does not.
Publish(d) ==
  /\ d \in Published
  /\ at[d] \in {"saving", "savingFinal"}
  /\ heard' = [heard EXCEPT ![d] = IF at[d] = "saving" THEN round[d] ELSE NumRounds + 1]
  /\ heard' # heard
  /\ UNCHANGED <<taskVars, streamVars, telemetryVars>>

\* Mongo, heartbeat and Redis are done with: the metric, then the next round,
\* unless the budget is overdrawn or all rounds are done.
Continue(d) ==
  /\ at[d] = "saving"
  /\ LogRound(d, round[d])
  /\ IF RoundsLeft(round[d])
     THEN EnterRound(d, round[d] + 1) \/ Conclude(d, round[d], <<>>)
     ELSE Conclude(d, round[d], <<>>)
  /\ UNCHANGED <<heard, gen, view>>

\* mutant of SaveFinal: a failure to write is swallowed like Mongo's
SaveFinalIfPossible(d) ==
  /\ at[d] = "concluding"
  /\ at' = [at EXCEPT ![d] = "savingFinal"]
  /\ \E e \in BOOLEAN : disk' = [disk EXCEPT ![d].ended = e]
  /\ UNCHANGED <<round, turn, heard, streamVars, telemetryVars>>
\* The memo is there; JsonStore.save_final() writes it, then Mongo and Redis are awaited.
SaveFinal(d) ==
  /\ at[d] = "concluding"
  /\ at' = [at EXCEPT ![d] = "savingFinal"]
  /\ disk' = [disk EXCEPT ![d].ended = TRUE]
  /\ UNCHANGED <<round, turn, heard, streamVars, telemetryVars>>

\* run() returns, and _stream_run() puts its last frame.
Complete(d) ==
  /\ at' = [at EXCEPT ![d] = "over"]
  /\ Emit(d, <<Frame("done", 0, 0)>>)

\* The MLflow run is ended and the gauges are cleared; then the claim is released, where
\* one is held.
Finish(d) ==
  /\ at[d] = "savingFinal"
  /\ EndRun(d)
  /\ ClearGauges(d, Team[d])
  /\ \/ d \notin Claimed /\ Complete(d)
     \/ d \in Claimed /\ at' = [at EXCEPT ![d] = "releasing"] /\ UNCHANGED queue
  /\ UNCHANGED <<round, turn, disk, heard, gen, view>>

Deliver(d) ==
  /\ at[d] = "releasing"
  /\ Complete(d)
  /\ UNCHANGED <<round, turn, disk, heard, gen, view, telemetryVars>>

\* The exception goes on when the claim is released; or it is the release that raises.
Unwind(d) ==
  /\ at[d] \in {"releasing", "unwinding"}
  /\ at' = [at EXCEPT ![d] = "failed"]
  /\ Emit(d, <<Frame("error", 0, 0)>>)
  /\ UNCHANGED <<round, turn, disk, heard, gen, view, telemetryVars>>

\* An exception nobody catches: a lock held elsewhere or a refused replay before the
\* first round, an agent's or tie-breaker's transport error, a failed write.  Nothing is
\* cleaned up behind it.
Raise(d) ==
  /\ at[d] \in {"built", "asking", "saving", "concluding", "savingFinal"}
  /\ Fail(d, <<>>, gauge[d])
  /\ UNCHANGED <<round, turn, disk, heard, gen, view, score, left, active, tracker, runs>>

-----------------------------------------------------------------------------
\* The stream and its client.

\* handleFrame() of the viewer.
Apply(v, f) ==
  [status |-> IF f.event \in Terminal THEN f.event ELSE v.status,
   round |-> IF f.event = "round_start" THEN f.round ELSE v.round,
   reasoning |-> IF f.event = "agent_reasoning_start"
                 THEN v.reasoning \cup {<<f.round, f.agent>>}
                 ELSE v.reasoning
                      \ {p \in {<<f.round, f.agent>>} : f.event = "agent_reasoning_end"},
   scored |-> IF f.event = "convergence_computed" THEN f.round ELSE v.scored]

\* mutant of Closing: an error frame does not end the generator's loop
ClosingOnDone == {"done"}
Closing == Terminal

\* mutant of Stopped: the task is left to itself
StoppedNot(d) == at

\* The generator's finally: a task that is not done is cancelled.
\* CancelledError is no Exception: no frame, and nothing is cleaned up.
Stopped(d) == [at EXCEPT ![d] = IF @ \in Ended THEN @ ELSE "cut"]

\* The generator takes a frame, and the viewer folds it.
Show(d) ==
  LET f == Head(queue[d])
      last == f.event \in Closing
  IN  /\ gen[d] = "open"
      /\ view[d].status # "stopped"
      /\ queue[d] # <<>>
      /\ view' = [view EXCEPT ![d] = Apply(@, f)]
      /\ queue' = [queue EXCEPT ![d] = Tail(@)]
      /\ gen' = IF last THEN [gen EXCEPT ![d] = "closed"] ELSE gen
      /\ at' = IF last THEN Stopped(d) ELSE at
      /\ UNCHANGED <<round, turn, disk, heard, telemetryVars>>

\* stopDebate() of the viewer aborts the request; what it goes on showing is left out.
Leave(d) ==
  /\ gen[d] = "open"
  /\ view[d].status = "running"
  /\ view' = [view EXCEPT ![d] = [NoView EXCEPT !.status = "stopped"]]
  /\ UNCHANGED <<taskVars, heard, queue, gen, telemetryVars>>

\* The server notices and closes the generator; the queue goes with it.
Close(d) ==
  /\ gen[d] = "open"
  /\ view[d].status = "stopped"
  /\ gen' = [gen EXCEPT ![d] = "closed"]
  /\ at' = Stopped(d)
  /\ queue' = [queue EXCEPT ![d] = <<>>]
  /\ UNCHANGED <<round, turn, disk, heard, view, telemetryVars>>

-----------------------------------------------------------------------------
Work(d) ==
  \/ Begin(d) \/ Answer(d) \/ Refuse(d) \/ Continue(d) \/ SaveFinal(d)
  \/ Finish(d) \/ Deliver(d) \/ Raise(d) \/ Unwind(d)

Next ==
  \E d \in Debates :
    \/ Build(d) \/ BuildFails(d)
    \/ Begin(d) \/ Answer(d) \/ Refuse(d) \/ Publish(d) \/ Continue(d)
    \/ SaveFinal(d) \/ Finish(d) \/ Deliver(d) \/ Raise(d) \/ Unwind(d)
    \/ Show(d) \/ Leave(d) \/ Close(d)

Spec == Init /\ [][Next]_vars

\* Every await of a task ends, clients who stay read, and a broken connection
\* is noticed.  Nobody has to ask for a debate, to stay, or to leave.
Fairness ==
  \A d \in Debates : WF_vars(Work(d)) /\ WF_vars(Show(d)) /\ WF_vars(Close(d))

FairSpec == Spec /\ Fairness

-----------------------------------------------------------------------------
\* What the viewer will show once it has read the queue.
Upcoming(d) == FoldLeft(Apply, view[d], queue[d])

\* No frame is lost, repeated or out of place, however far the client is behind: what it
\* shows, with the frames in the queue, is where the task is; the agents it shows
\* reasoning are those whose gauge this execution has set and not reset (one hook for
\* both consumers, README.md:845 of the repository), and only at the end does it show
\* that it is done.
NoFrameLost ==
  \A d \in Streamed :
    (gen[d] = "open" /\ view[d].status # "stopped") =>
       LET v == Upcoming(d)
       IN  /\ v.status = CASE at[d] = "over" -> "done"
                           [] at[d] = "failed" -> "error"
                           [] OTHER -> "running"
           /\ v.reasoning = {<<round[d], a>> : a \in Active(d) \ left[d]}
           /\ at[d] \in {"asking", "saving"} => v.round = round[d]
           /\ at[d] = "saving" => v.scored = round[d]

\* At no time does the viewer show two agents reasoning, and a viewer told that the
\* debate is done shows none: every start of an agent has its end before the next
\* start, on the paths of excluded and refused agents too.
ViewMakesSense ==
  \A d \in Streamed :
    /\ \A p, q \in view[d].reasoning : p = q
    /\ view[d].status = "done" => view[d].reasoning = {}

\* Nobody hears of what is not saved: a viewer told that the debate is done, or a
\* subscriber told of its synthesis, finds the complete trace, and a subscriber told
\* of a round finds that round.  So a client that reconnects on what it was told is
\* never offered less.
ToldOnlySaved ==
  \A d \in Debates :
    /\ view[d].status = "done" => disk[d].ended
    /\ heard[d] = NumRounds + 1 => disk[d].ended
    /\ heard[d] \in Rounds => heard[d] <= disk[d].rounds

\* The gauges of a debate that runs show the agent that is asked, and besides it only
\* what an earlier execution left at 1 in this process and this one has not come to: such
\* an agent is shown as reasoning until it is asked again ("1 while an agent is reasoning,
\* else 0", metrics.py:52, holds of a run id's first execution).  A debate that completed
\* leaves no label of its agents; what agents it no longer has left, it leaves.
GaugesTell ==
  \A d \in Debates :
    /\ at[d] = "asking" => Active(d) = {turn[d]} \cup left[d]
    /\ at[d] \in {"absent", "built", "saving", "concluding", "savingFinal"} =>
         Active(d) = left[d]
    /\ at[d] \in {"unwinding", "failed", "cut"} => Active(d) \subseteq {turn[d]} \cup left[d]
    /\ at[d] \in {"releasing", "over"} =>
         /\ \A a \in 1..Team[d] : gauge[d][a] = "none"
         /\ Active(d) \subseteq left[d]
         /\ d \notin score

\* The metrics in a debate's MLflow run are its own and of saved rounds, although the
\* client logs to whatever run is active in the process; and only the run of a debate
\* whose complete trace is saved is marked finished.
MetricsStayHome ==
  \A d \in Debates :
    /\ \A m \in runs[d].metrics : m[1] = d /\ m[2] <= disk[d].rounds
    /\ runs[d].state = "finished" => disk[d].ended

\* When the generator ends, for whatever reason, nothing of its debate goes on: the
\* terminal frame is the task's last act, and a client who leaves has it cancelled.
StopsWithStream ==
  [][\A d \in Streamed : gen[d] = "closed" => /\ at'[d] = at[d]
                                              /\ at[d] \in Ended
                                              /\ disk'[d] = disk[d]]_vars

\* A stream ends, and its task with it, whether the debate completes, fails or is left.
StreamEnds ==
  \A d \in Streamed : gen[d] = "open" ~> (gen[d] = "closed" /\ at[d] \in Ended)

=============================================================================
