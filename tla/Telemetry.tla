------------------------------ MODULE Telemetry ------------------------------
(***************************************************************************)
(* What one API process tells its operators while it runs debates: the     *)
(* Prometheus gauges (observability/metrics.py) and the MLflow runs        *)
(* (observability/mlflow_tracking.py).  Both are global to the process and *)
(* outlive a debate.  StreamRun composes these operations with the debates *)
(* that call them.                                                         *)
(*                                                                         *)
(* MLflow itself is external.  Its client keeps a stack of active runs per *)
(* thread, and all debates of a process run on the thread of its event     *)
(* loop: start_run() raises while a run is active, the log functions and   *)
(* end_run() act on the active run, and end_run() takes it off the stack   *)
(* before it tells the server.  Counters and histograms are left out: they *)
(* only grow.                                                              *)
(***************************************************************************)
EXTENDS Naturals, Sequences

CONSTANTS Debates,      \* debates handled by the process
          NoDebate,     \* no active run
          MaxAgents,    \* the largest committee; agents are numbered as they are asked
          NumRounds     \* config.num_rounds

ASSUME TelemetryAssumption ==
  /\ NoDebate \notin Debates
  /\ MaxAgents \in Nat \ {0}
  /\ NumRounds \in Nat \ {0}

Agents == 1..MaxAgents
Rounds == 1..NumRounds

VARIABLES gauge,        \* debate_active_agent per debate and agent: no label, 0 or 1
          score,        \* the debates with a label of debate_convergence_score
          left,         \* of the model only: per debate, the agents whose gauge an earlier
                        \* execution left at 1 and whom this one has not asked
          active,       \* the debate whose MLflow run is active in the process
          tracker,      \* per debate: does its MlflowRunTracker hold a run
          runs          \* per debate: its MLflow run on the server

telemetryVars == <<gauge, score, left, active, tracker, runs>>

\* What debate_active_agent may show of a debate: no label, 0 or 1 per agent.
Gauges == [Agents -> {"none", "idle", "active"}]
NoLabels == [a \in Agents |-> "none"]

Active(d) == {a \in Agents : gauge[d][a] = "active"}

\* The labels of a run id are there as earlier executions in this process left them.
TelemetryInit(shown, scored) ==
  /\ gauge = shown
  /\ score = scored
  /\ left = [d \in Debates |-> Active(d)]
  /\ active = NoDebate
  /\ tracker = [d \in Debates |-> "idle"]
  /\ runs = [d \in Debates |-> [state |-> "none", metrics |-> {}]]

TelemetryTypeOK ==
  /\ gauge \in [Debates -> Gauges]
  /\ score \in SUBSET Debates
  /\ left \in [Debates -> SUBSET Agents]
  /\ active \in Debates \cup {NoDebate}
  /\ tracker \in [Debates -> {"idle", "logging", "disabled"}]
  /\ runs \in [Debates -> [state : {"none", "running", "finished"},
                           metrics : SUBSET (Debates \X Rounds)]]

-----------------------------------------------------------------------------
\* The gauges of agents.

Activated(g, a) == [g EXCEPT ![a] = "active"]
\* mutant of Rested: set(0) is missing on a path
RestedNot(g, a) == g
Rested(g, a) == [g EXCEPT ![a] = "idle"]

\* The labels of the agents 1..n of an execution are removed, whatever they show.
Cleared(g, n) == [a \in Agents |-> IF a <= n THEN "none" ELSE g[a]]

\* _clear_run_gauges()
ClearGauges(d, n) ==
  /\ gauge' = [gauge EXCEPT ![d] = Cleared(@, n)]
  /\ score' = score \ {d}
  /\ left' = left

-----------------------------------------------------------------------------
\* The MLflow run of a debate.

\* start_run() of MLflow raises (another run is active, or no server), and the
\* tracker switches itself off.
StartFails(d) ==
  /\ tracker' = [tracker EXCEPT ![d] = "disabled"]
  /\ UNCHANGED <<active, runs>>

\* The run is created; then log_params() may raise, which switches the tracker
\* off and leaves the run active.
StartSucceeds(d) ==
  /\ active = NoDebate
  /\ active' = d
  /\ runs' = [runs EXCEPT ![d].state = "running"]
  /\ \E t \in {"logging", "disabled"} : tracker' = [tracker EXCEPT ![d] = t]

StartRun(d) == StartFails(d) \/ StartSucceeds(d)

\* log_metric() of MLflow, on the active run of the process.
LogMetric(d, r) ==
  runs' = [x \in Debates |->
             IF x = active THEN [runs[x] EXCEPT !.metrics = @ \cup {<<d, r>>}] ELSE runs[x]]

\* mutant of LogRound: the guard on this tracker's own run is dropped
LogRoundAnyway(d, r) ==
  /\ LogMetric(d, r) \/ UNCHANGED runs
  /\ UNCHANGED <<active, tracker>>
\* log_round_convergence(): best effort, and only if this tracker holds a run.
LogRound(d, r) ==
  /\ \/ tracker[d] = "logging" /\ LogMetric(d, r)
     \/ UNCHANGED runs
  /\ UNCHANGED <<active, tracker>>

\* log_final(): whatever fails before, end_run() is called, and may not reach the server.
EndRun(d) ==
  IF tracker[d] = "logging"
  THEN /\ \/ runs' = [x \in Debates |->
                        IF x = active THEN [runs[x] EXCEPT !.state = "finished"] ELSE runs[x]]
          \/ UNCHANGED runs
       /\ active' = NoDebate
       /\ tracker' = [tracker EXCEPT ![d] = "idle"]
  ELSE UNCHANGED <<active, tracker, runs>>

=============================================================================
