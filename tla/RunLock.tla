------------------------------- MODULE RunLock -------------------------------
(***************************************************************************)
(* Mutual exclusion of debate runners for ONE run_id: the in-process       *)
(* asyncio.Lock of orchestrator.py (_active_run_locks), the claim document *)
(* RunLockStore keeps in Mongo, and the calls of DebateOrchestrator.run    *)
(* that use them.                                                          *)
(*                                                                         *)
(* A task is one call of run(); PodOf says which process it runs in.  The  *)
(* two awaits of acquire() are two steps, and the time at which a call     *)
(* read its clock (now) is kept apart from the time its write lands.       *)
(*                                                                         *)
(* Abstracted: what a round computes, the clock skew between pods, the     *)
(* creation of the unique index (every insert races on one document).      *)
(***************************************************************************)
EXTENDS Integers

CONSTANTS
  Pods,          \* processes: API pods, and command-line invocations
  Tasks,         \* calls of DebateOrchestrator.run for this run_id
  PodOf,         \* the process that executes a task
  FreshTasks,    \* tasks that create the run: they call run(run_id=None)
  NoTask,        \* an asyncio.Lock nobody owns
  NoHolder,      \* the holder_id of a claim document that does not exist
  Lease,         \* Settings.run_lock_lease_seconds
  HeartbeatGap,  \* longest time a runner goes without a heartbeat that lands
  Rounds,        \* rounds a task may still run
  MaxClock,      \* bound: the clock stops there
  MaxCrashes,    \* bound: process restarts
  MaxAborts      \* bound: acquire/release calls cut by an error or a cancel

ASSUME ConstantsAssumption ==
  /\ PodOf \in [Tasks -> Pods]
  /\ FreshTasks \subseteq Tasks
  /\ NoTask \notin Tasks
  /\ NoHolder \notin Pods \X Nat
  /\ Lease \in Nat /\ HeartbeatGap \in Nat /\ Rounds \in Nat
  /\ MaxClock \in Nat /\ MaxCrashes \in Nat /\ MaxAborts \in Nat

VARIABLES
  clock,     \* wall-clock time
  epoch,     \* per pod: HOLDER_ID is drawn anew by every start of a process
  lock,      \* per pod: the task that owns _active_run_locks[run_id]
  doc,       \* the claim document of the run in debate_run_locks
  pc,        \* per task: where run() stands
  now,       \* per task: the datetime.now() its pending store call carries
  beat,      \* per task: the time written by its last claim or heartbeat
  round,     \* per task: rounds done
  started,   \* the run is on disk: its id is known and it can be resumed
  crashes, aborts

vars == <<clock, epoch, lock, doc, pc, now, beat, round, started,
          crashes, aborts>>
-----------------------------------------------------------------------------
Locations == {"idle", "claiming", "reading", "running", "beating",
              "releasing", "done"}
Active    == {"claiming", "reading", "running", "beating", "releasing"}

Holder(t) == <<PodOf[t], epoch[PodOf[t]]>>
Runner(t) == pc[t] \in {"running", "beating"}
Locking   == Tasks \ FreshTasks

\* Mutants of Claimable: the comparison of times turned around, and no lease.
ClaimableTurned(at) ==
  \/ doc.status \in {"absent", "released"}
  \/ at - Lease < doc.heartbeat
ClaimableIfReleased(at) == doc.status \in {"absent", "released"}

\* The filter of acquire(): no document (the upsert inserts one), an
\* explicitly released one, or one whose heartbeat is older than the lease.
Claimable(at) ==
  \/ doc.status \in {"absent", "released"}
  \/ doc.heartbeat + Lease < at

\* Mutant of Mine: the update is keyed by the run_id alone.
AnyHolders(t) == doc.status # "absent" /\ pc[t] # "idle"

\* The filter of heartbeat() and release(), and the test at acquire()'s end.
Mine(t) == doc.holder = Holder(t)

\* Mutant of LockFree: the in-process lock is not consulted.
LockIgnored(p) == lock[p] \in Tasks \cup {NoTask}

\* lock.locked() of the run's asyncio.Lock in process p.
LockFree(p) == lock[p] = NoTask

\* The bound of the round loop.
RoundsLeft(t) == round[t] < Rounds

TypeOK ==
  /\ clock \in Nat
  /\ epoch \in [Pods -> Nat]
  /\ lock \in [Pods -> Tasks \cup {NoTask}]
  /\ doc \in [holder: (Pods \X Nat) \cup {NoHolder},
              status: {"absent", "held", "released"},
              heartbeat: Nat]
  /\ pc \in [Tasks -> Locations]
  /\ now \in [Tasks -> Nat]
  /\ beat \in [Tasks -> Nat]
  /\ round \in [Tasks -> 0..Rounds]
  /\ started \in BOOLEAN
  /\ crashes \in 0..MaxCrashes
  /\ aborts \in 0..MaxAborts

\* A run is either interrupted and waiting to be resumed, or about to be
\* created by one of FreshTasks.  Its claim document does not exist: the
\* call that creates a run never takes the claim.
Init ==
  /\ clock = 0
  /\ epoch = [p \in Pods |-> 0]
  /\ lock = [p \in Pods |-> NoTask]
  /\ doc = [holder |-> NoHolder, status |-> "absent", heartbeat |-> 0]
  /\ pc = [t \in Tasks |-> "idle"]
  /\ now = [t \in Tasks |-> 0]
  /\ beat = [t \in Tasks |-> 0]
  /\ round = [t \in Tasks |-> 0]
  /\ started = (FreshTasks = {})
  /\ crashes = 0
  /\ aborts = 0
-----------------------------------------------------------------------------
\* run(run_id=None): no lock of either kind is taken.
StartFresh(t) ==
  /\ t \in FreshTasks
  /\ pc[t] = "idle"
  /\ ~started
  /\ pc' = [pc EXCEPT ![t] = "running"]
  /\ beat' = [beat EXCEPT ![t] = clock]
  /\ UNCHANGED <<clock, epoch, lock, doc, now, round, started, crashes, aborts>>

\* run(run_id, resume=True): the in-process lock is taken if it is free
\* (otherwise RunAlreadyInProgressError, which changes nothing), and
\* acquire() reads its clock.
Start(t) ==
  /\ t \in Locking
  /\ pc[t] = "idle"
  /\ started
  /\ LockFree(PodOf[t])
  /\ lock' = [lock EXCEPT ![PodOf[t]] = t]
  /\ pc' = [pc EXCEPT ![t] = "claiming"]
  /\ now' = [now EXCEPT ![t] = clock]
  /\ beat' = [beat EXCEPT ![t] = clock]
  /\ UNCHANGED <<clock, epoch, doc, round, started, crashes, aborts>>

\* The find_one_and_update of acquire(): it claims the document, or raises
\* the DuplicateKeyError that is swallowed.
Claim(t) ==
  /\ pc[t] = "claiming"
  /\ doc' = IF Claimable(now[t])
            THEN [holder |-> Holder(t), status |-> "held",
                  heartbeat |-> now[t]]
            ELSE doc
  /\ pc' = [pc EXCEPT ![t] = "reading"]
  /\ UNCHANGED <<clock, epoch, lock, now, beat, round, started, crashes, aborts>>

\* Mutant of Return: the in-process lock is not given back.
ReturnKeepingLock(t) ==
  /\ lock' = lock
  /\ pc' = [pc EXCEPT ![t] = IF t \in FreshTasks THEN "done" ELSE "idle"]
  /\ now' = [now EXCEPT ![t] = 0]
  /\ beat' = [beat EXCEPT ![t] = 0]
  /\ round' = [round EXCEPT ![t] = 0]

\* A task's call of run() returns or raises: the in-process lock goes.
Return(t) ==
  /\ lock' = IF t \in FreshTasks THEN lock
             ELSE [lock EXCEPT ![PodOf[t]] = NoTask]
  /\ pc' = [pc EXCEPT ![t] = IF t \in FreshTasks THEN "done" ELSE "idle"]
  /\ now' = [now EXCEPT ![t] = 0]
  /\ beat' = [beat EXCEPT ![t] = 0]
  /\ round' = [round EXCEPT ![t] = 0]

\* The find_one of acquire() and the test of its result, by holder alone.
Admit(t) ==
  /\ pc[t] = "reading"
  /\ Mine(t)
  /\ pc' = [pc EXCEPT ![t] = "running"]
  /\ UNCHANGED <<clock, epoch, lock, doc, now, beat, round, started,
                 crashes, aborts>>

\* RunLockedByAnotherPodError: raised before the try, nothing is released.
Refuse(t) ==
  /\ pc[t] = "reading"
  /\ ~Mine(t)
  /\ Return(t)
  /\ UNCHANGED <<clock, epoch, doc, started, crashes, aborts>>

\* An await of acquire() raises: Mongo fails, or the streaming client left
\* and the call is cancelled.  The claim may have landed; no release follows.
AbortAcquire(t) ==
  /\ pc[t] \in {"claiming", "reading"}
  /\ aborts < MaxAborts
  /\ aborts' = aborts + 1
  /\ Return(t)
  /\ UNCHANGED <<clock, epoch, doc, started, crashes>>
-----------------------------------------------------------------------------
\* A round is run and saved; the heartbeat that follows reads its clock.
EndRound(t) ==
  /\ pc[t] = "running"
  /\ RoundsLeft(t)
  /\ round' = [round EXCEPT ![t] = @ + 1]
  /\ started' = TRUE
  /\ now' = [now EXCEPT ![t] = clock]
  /\ pc' = [pc EXCEPT ![t] = "beating"]
  /\ UNCHANGED <<clock, epoch, lock, doc, beat, crashes, aborts>>

\* The holder's own, unreleased or released, claim gets a new heartbeat_at;
\* anybody else's call matches nothing.
Beat(t) ==
  /\ pc[t] = "beating"
  /\ doc' = IF Mine(t)
            THEN [doc EXCEPT !.heartbeat = now[t]] ELSE doc
  /\ beat' = [beat EXCEPT ![t] = now[t]]
  /\ pc' = [pc EXCEPT ![t] = "running"]
  /\ UNCHANGED <<clock, epoch, lock, now, round, started, crashes, aborts>>

\* heartbeat() raises: the orchestrator logs it and goes on.
LoseBeat(t) ==
  /\ pc[t] = "beating"
  /\ pc' = [pc EXCEPT ![t] = "running"]
  /\ UNCHANGED <<clock, epoch, lock, doc, now, beat, round, started,
                 crashes, aborts>>

\* _run_locked ends, by its return or by an exception: on to the finally.
Leave(t) ==
  /\ t \in Locking
  /\ pc[t] = "running"
  /\ pc' = [pc EXCEPT ![t] = "releasing"]
  /\ UNCHANGED <<clock, epoch, lock, doc, now, beat, round, started,
                 crashes, aborts>>

LeaveFresh(t) ==
  /\ t \in FreshTasks
  /\ pc[t] = "running"
  /\ Return(t)
  /\ UNCHANGED <<clock, epoch, doc, started, crashes, aborts>>

\* release(), scoped to the caller's own claim.
Release(t) ==
  /\ pc[t] = "releasing"
  /\ doc' = IF Mine(t)
            THEN [doc EXCEPT !.status = "released", !.heartbeat = clock]
            ELSE doc
  /\ Return(t)
  /\ UNCHANGED <<clock, epoch, started, crashes, aborts>>

\* release() raises: the claim stays held, the in-process lock goes.
AbortRelease(t) ==
  /\ pc[t] = "releasing"
  /\ aborts < MaxAborts
  /\ aborts' = aborts + 1
  /\ Return(t)
  /\ UNCHANGED <<clock, epoch, doc, started, crashes>>
-----------------------------------------------------------------------------
\* The process dies: no code runs, its tasks and its lock table are gone,
\* the process that replaces it has a HOLDER_ID of its own.
Crash(p) ==
  /\ crashes < MaxCrashes
  /\ crashes' = crashes + 1
  /\ epoch' = [epoch EXCEPT ![p] = @ + 1]
  /\ lock' = [lock EXCEPT ![p] = NoTask]
  /\ pc' = [t \in Tasks |-> IF PodOf[t] # p THEN pc[t]
                            ELSE IF t \in FreshTasks /\ pc[t] # "idle"
                                 THEN "done" ELSE "idle"]
  /\ now' = [t \in Tasks |-> IF PodOf[t] = p THEN 0 ELSE now[t]]
  /\ beat' = [t \in Tasks |-> IF PodOf[t] = p THEN 0 ELSE beat[t]]
  /\ round' = [t \in Tasks |-> IF PodOf[t] = p THEN 0 ELSE round[t]]
  /\ UNCHANGED <<clock, doc, started, aborts>>

\* Time passes, but no runner is left longer than HeartbeatGap without a
\* heartbeat that lands: the timing assumption the lease is chosen for.
Tick ==
  /\ clock < MaxClock
  /\ \A t \in Tasks : pc[t] \in Active => clock < beat[t] + HeartbeatGap
  /\ clock' = clock + 1
  /\ UNCHANGED <<epoch, lock, doc, pc, now, beat, round, started,
                 crashes, aborts>>

\* The steps a task takes by itself once it was started.
Step(t) ==
  \/ Claim(t) \/ Admit(t) \/ Refuse(t)
  \/ EndRound(t) \/ Beat(t) \/ LoseBeat(t)
  \/ Leave(t) \/ LeaveFresh(t) \/ Release(t)

Next ==
  \/ \E t \in Tasks : \/ StartFresh(t) \/ Start(t) \/ Step(t)
                      \/ AbortAcquire(t) \/ AbortRelease(t)
  \/ \E p \in Pods : Crash(p)
  \/ Tick

Spec == Init /\ [][Next]_vars

\* Every await of a task returns or raises (the LLM calls and the driver
\* have timeouts), and time passes.  Nothing forces a call to be made.
Fairness == WF_vars(Tick) /\ \A t \in Tasks : WF_vars(Step(t))
FairSpec == Spec /\ Fairness
-----------------------------------------------------------------------------
(* What the lock is for.                                                    *)

\* No two calls run rounds of the same run at a time: "two callers racing to
\* resume [...] must never both proceed" (DebateOrchestrator.run).
AtMostOneRunner ==
  \A t, u \in Tasks : Runner(t) /\ Runner(u) => t = u

\* The same inside one process, where only the asyncio.Lock of
\* _active_run_locks counts: it needs neither the lease nor the clock.
AtMostOneRunnerPerPod ==
  \A t, u \in Locking :
    pc[t] \in Active /\ pc[u] \in Active /\ PodOf[t] = PodOf[u] => t = u

\* While a claim is held and within its lease, no step of a task of another
\* holder touches it: no claim, no late heartbeat, no late release
\* (the scoping of RunLockStore.heartbeat and release, the $or of acquire).
LiveClaimIsUntouched ==
  [][\A t \in Tasks :
       /\ pc[t] # pc'[t]
       /\ doc.status = "held" /\ clock <= doc.heartbeat + Lease
       /\ doc.holder # Holder(t)
       => doc' = doc]_vars

\* A claim whose process died does not block the run for ever: it becomes
\* claimable, or another process has it (the lease of acquire()).  The bound
\* leaves the clock room for one lease.
HeldByDead ==
  \E p \in Pods : \E e \in 0..MaxCrashes :
    doc.status = "held" /\ doc.holder = <<p, e>> /\ e < epoch[p]
DeadClaimExpires ==
  (HeldByDead /\ clock + Lease < MaxClock) ~> (Claimable(clock) \/ ~HeldByDead)

\* Every call of run() ends, and then its in-process lock is free again:
\* no RunAlreadyInProgressError is for ever.
EveryCallReturns ==
  \A t \in Locking : lock[PodOf[t]] = t ~> lock[PodOf[t]] # t
-----------------------------------------------------------------------------
(* Why AtMostOneRunner holds where it does: the inductive invariant of its  *)
(* proof, and the conditions on the deployment it needs.                    *)

\* Heartbeats land within the lease, no call of acquire() or release() is cut
\* short, and the run is never executed by the call that created it.
Exclusive ==
  /\ HeartbeatGap <= Lease
  /\ MaxAborts = 0
  /\ FreshTasks = {}

\* A call past its in-process lock owns that lock, and owners are active
\* calls of the lock's own process.
LockOwned ==
  /\ \A t \in Tasks : pc[t] \in Active <=> lock[PodOf[t]] = t
  /\ \A p \in Pods : lock[p] \in Tasks => PodOf[lock[p]] = p

\* HOLDER_IDs in the document are those of present or past processes.
HolderKnown ==
  \A p \in Pods : \A e \in Nat : doc.holder = <<p, e>> => e <= epoch[p]

\* A held claim of a living process belongs to the call inside its lock,
\* and is at least as recent as that call's last heartbeat.
ClaimOwned ==
  \A p \in Pods :
    doc.status = "held" /\ doc.holder = <<p, epoch[p]>> =>
      /\ lock[p] \in Tasks
      /\ pc[lock[p]] \in {"reading", "running", "beating", "releasing"}
      /\ beat[lock[p]] <= doc.heartbeat

\* A call that was admitted has the claim until it releases it.
RunnerHolds ==
  \A t \in Tasks :
    \/ pc[t] \in {"running", "beating", "releasing"}
    \/ pc[t] = "reading" /\ Mine(t)
    => doc.status = "held" /\ Mine(t)

\* The last heartbeat of an active call is not older than HeartbeatGap.
BeatRecent ==
  \A t \in Tasks :
    pc[t] \in Active => /\ beat[t] <= now[t]
                       /\ now[t] <= clock
                       /\ clock <= beat[t] + HeartbeatGap

ExclusionInv ==
  /\ TypeOK
  /\ LockOwned
  /\ HolderKnown
  /\ ClaimOwned
  /\ RunnerHolds
  /\ BeatRecent
=============================================================================
