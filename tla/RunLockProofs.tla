---------------------------- MODULE RunLockProofs ----------------------------
(***************************************************************************)
(* Proofs about RunLock, for any number of pods and tasks, any lease and   *)
(* any bounds.                                                             *)
(***************************************************************************)
EXTENDS RunLock, TLAPS

\* Type correctness of the lock protocol: every action of run(), acquire(),
\* heartbeat() and release() keeps the variables in their types.
THEOREM TypeCorrect == Spec => []TypeOK
<1> USE ConstantsAssumption
<1>1. Init => TypeOK
  BY DEF Init, TypeOK, Locations
<1>2. TypeOK /\ [Next]_vars => TypeOK'
  <2> SUFFICES ASSUME TypeOK, [Next]_vars PROVE TypeOK'
    OBVIOUS
  <2> USE DEF TypeOK, Locations
  <2>1. ASSUME NEW t \in Tasks, StartFresh(t) PROVE TypeOK'
    BY <2>1 DEF StartFresh
  <2>2. ASSUME NEW t \in Tasks, Start(t) PROVE TypeOK'
    BY <2>2 DEF Start
  <2>3. ASSUME NEW t \in Tasks, Claim(t) PROVE TypeOK'
    BY <2>3 DEF Claim, Holder
  <2>4. ASSUME NEW t \in Tasks, Admit(t) PROVE TypeOK'
    BY <2>4 DEF Admit
  <2>5. ASSUME NEW t \in Tasks, Refuse(t) PROVE TypeOK'
    BY <2>5 DEF Refuse, Return
  <2>6. ASSUME NEW t \in Tasks, AbortAcquire(t) PROVE TypeOK'
    BY <2>6 DEF AbortAcquire, Return
  <2>7. ASSUME NEW t \in Tasks, EndRound(t) PROVE TypeOK'
    BY <2>7 DEF EndRound, RoundsLeft
  <2>8. ASSUME NEW t \in Tasks, Beat(t) PROVE TypeOK'
    BY <2>8 DEF Beat
  <2>9. ASSUME NEW t \in Tasks, LoseBeat(t) PROVE TypeOK'
    BY <2>9 DEF LoseBeat
  <2>10. ASSUME NEW t \in Tasks, Leave(t) PROVE TypeOK'
    BY <2>10 DEF Leave
  <2>11. ASSUME NEW t \in Tasks, LeaveFresh(t) PROVE TypeOK'
    BY <2>11 DEF LeaveFresh, Return
  <2>12. ASSUME NEW t \in Tasks, Release(t) PROVE TypeOK'
    <3>1. doc' \in [holder: (Pods \X Nat) \cup {NoHolder},
                    status: {"absent", "held", "released"}, heartbeat: Nat]
      BY <2>12 DEF Release
    <3> QED
      BY <2>12, <3>1 DEF Release, Return
  <2>13. ASSUME NEW t \in Tasks, AbortRelease(t) PROVE TypeOK'
    BY <2>13 DEF AbortRelease, Return
  <2>14. ASSUME NEW p \in Pods, Crash(p) PROVE TypeOK'
    BY <2>14 DEF Crash
  <2>15. CASE Tick
    BY <2>15 DEF Tick
  <2>16. CASE UNCHANGED vars
    BY <2>16 DEF vars
  <2> QED
    BY <2>1, <2>2, <2>3, <2>4, <2>5, <2>6, <2>7, <2>8, <2>9, <2>10, <2>11,
       <2>12, <2>13, <2>14, <2>15, <2>16 DEF Next, Step
<1> QED
  BY <1>1, <1>2, PTL DEF Spec

-----------------------------------------------------------------------------
(* Mutual exclusion.  Under Exclusive, three of the actions cannot happen.  *)

LEMMA OnlyOrderlySteps ==
  ASSUME Exclusive, TypeOK, NEW t \in Tasks
  PROVE  ~(\/ StartFresh(t) \/ AbortAcquire(t) \/ LeaveFresh(t)
           \/ AbortRelease(t))
BY ConstantsAssumption
DEF Exclusive, TypeOK, StartFresh, AbortAcquire, LeaveFresh, AbortRelease

LEMMA ExclusionInit == Init => ExclusionInv
BY ConstantsAssumption
DEF Init, ExclusionInv, TypeOK, Locations, Active, LockOwned, HolderKnown,
    ClaimOwned, RunnerHolds, BeatRecent, Mine, Holder

LEMMA ExclusionStart ==
  ASSUME Exclusive, ExclusionInv, TypeOK', NEW t \in Tasks, Start(t)
  PROVE  ExclusionInv'
<1> USE ConstantsAssumption DEF Exclusive, ExclusionInv, TypeOK, Start
<1>1. LockOwned'
  <2> SUFFICES ASSUME NEW u \in Tasks
               PROVE  pc'[u] \in Active <=> lock'[PodOf[u]] = u
    BY DEF LockOwned
  <2>1. CASE u = t
    BY <2>1 DEF Active, Locking
  <2>2. CASE u # t /\ PodOf[u] = PodOf[t]
    BY <2>2 DEF LockOwned, LockFree, Locking
  <2>3. CASE u # t /\ PodOf[u] # PodOf[t]
    BY <2>3 DEF LockOwned
  <2> QED
    BY <2>1, <2>2, <2>3
<1>2. HolderKnown'
  BY DEF HolderKnown, Holder, Mine
<1>3. ClaimOwned'
  <2> SUFFICES ASSUME NEW p \in Pods,
                      (doc.status = "held" /\ doc.holder = <<p, epoch[p]>>)'
               PROVE  /\ lock'[p] \in Tasks
                      /\ pc'[lock'[p]] \in {"reading", "running", "beating",
                                            "releasing"}
                      /\ beat'[lock'[p]] <= doc'.heartbeat
    BY DEF ClaimOwned
  <2>1. p # PodOf[t]
    BY DEF ClaimOwned, LockFree
  <2>2. lock'[p] = lock[p] /\ lock[p] \in Tasks /\ lock[p] # t
    BY <2>1 DEF ClaimOwned
  <2> QED
    BY <2>1, <2>2 DEF ClaimOwned
<1>4. RunnerHolds'
  BY DEF RunnerHolds, LockOwned, ClaimOwned, Active, Mine, Holder
<1>5. BeatRecent'
  BY DEF BeatRecent, Active
<1> QED
  BY <1>1, <1>2, <1>3, <1>4, <1>5

LEMMA ExclusionClaim ==
  ASSUME Exclusive, ExclusionInv, TypeOK', NEW t \in Tasks, Claim(t)
  PROVE  ExclusionInv'
<1> USE ConstantsAssumption DEF Exclusive, ExclusionInv, TypeOK, Claim
<1>1. LockOwned'
  BY DEF LockOwned, Active, Locations
<1>2. HolderKnown'
  BY DEF HolderKnown, Holder, Mine
<1>3. ClaimOwned'
  <2> SUFFICES ASSUME NEW p \in Pods,
                      (doc.status = "held" /\ doc.holder = <<p, epoch[p]>>)'
               PROVE  /\ lock'[p] \in Tasks
                      /\ pc'[lock'[p]] \in {"reading", "running", "beating",
                                            "releasing"}
                      /\ beat'[lock'[p]] <= doc'.heartbeat
    BY DEF ClaimOwned
  <2>1. lock[PodOf[t]] = t /\ beat[t] <= now[t]
    BY DEF LockOwned, BeatRecent, Active
  <2>2. CASE Claimable(now[t])
    BY <2>1, <2>2 DEF Holder
  <2>3. CASE ~Claimable(now[t])
    <3>1. lock[p] \in Tasks /\ lock[p] # t
      BY <2>3 DEF ClaimOwned
    <3> QED
      BY <2>3, <3>1 DEF ClaimOwned
  <2> QED
    BY <2>2, <2>3
<1>4. RunnerHolds'
  <2> SUFFICES ASSUME NEW u \in Tasks,
                      \/ pc'[u] \in {"running", "beating", "releasing"}
                      \/ pc'[u] = "reading" /\ doc'.holder = Holder(u)
               PROVE  doc'.status = "held" /\ doc'.holder = Holder(u)
    BY DEF RunnerHolds, Mine, Holder
  <2>1. CASE u = t
    <3>1. CASE Claimable(now[t])
      BY <2>1, <3>1
    <3>2. CASE ~Claimable(now[t])
      BY <2>1, <3>2 DEF Claimable
    <3> QED
      BY <3>1, <3>2
  <2>2. CASE u # t
    <3>1. lock[PodOf[t]] = t /\ now[t] <= clock
      BY DEF LockOwned, BeatRecent, Active
    <3>2. Holder(u) # Holder(t)
      BY <2>2, <3>1 DEF LockOwned, Active, Holder
    <3>3. doc.status = "held" /\ doc.holder = Holder(u)
      BY <2>2, <3>2 DEF RunnerHolds, Mine
    <3>4. lock[PodOf[u]] = u
      BY <2>2 DEF LockOwned, Active
    <3>5. beat[u] <= doc.heartbeat
      BY <3>3, <3>4 DEF ClaimOwned, Holder
    <3>6. clock <= beat[u] + HeartbeatGap
      BY <2>2 DEF BeatRecent, Active
    <3>7. ~Claimable(now[t])
      BY <3>1, <3>3, <3>5, <3>6 DEF Claimable
    <3> QED
      BY <3>3, <3>7
  <2> QED
    BY <2>1, <2>2
<1>5. BeatRecent'
  BY DEF BeatRecent, Active
<1> QED
  BY <1>1, <1>2, <1>3, <1>4, <1>5

LEMMA ExclusionAdmit ==
  ASSUME Exclusive, ExclusionInv, TypeOK', NEW t \in Tasks, Admit(t)
  PROVE  ExclusionInv'
<1> USE ConstantsAssumption DEF Exclusive, ExclusionInv, TypeOK, Admit
<1>1. LockOwned'
  BY DEF LockOwned, Active, Locations
<1>2. HolderKnown'
  BY DEF HolderKnown, Holder, Mine
<1>3. ClaimOwned'
  BY DEF ClaimOwned, LockOwned, RunnerHolds, Active, Mine, Holder
<1>4. RunnerHolds'
  BY DEF RunnerHolds, LockOwned, ClaimOwned, Active, Mine, Holder
<1>5. BeatRecent'
  BY DEF BeatRecent, Active
<1> QED
  BY <1>1, <1>2, <1>3, <1>4, <1>5

LEMMA ExclusionRefuse ==
  ASSUME Exclusive, ExclusionInv, TypeOK', NEW t \in Tasks, Refuse(t)
  PROVE  ExclusionInv'
<1> USE ConstantsAssumption DEF Exclusive, ExclusionInv, TypeOK, Refuse, Return
<1>1. LockOwned'
  BY DEF LockOwned, Active, Locations
<1>2. HolderKnown'
  BY DEF HolderKnown, Holder, Mine
<1>3. ClaimOwned'
  <2> SUFFICES ASSUME NEW p \in Pods,
                      (doc.status = "held" /\ doc.holder = <<p, epoch[p]>>)'
               PROVE  /\ lock'[p] \in Tasks
                      /\ pc'[lock'[p]] \in {"reading", "running", "beating",
                                            "releasing"}
                      /\ beat'[lock'[p]] <= doc'.heartbeat
    BY DEF ClaimOwned
  <2>1. lock[p] \in Tasks /\ p # PodOf[t] /\ lock[p] # t
    BY DEF ClaimOwned, LockOwned, Active, Mine, Holder
  <2> QED
    BY <2>1 DEF ClaimOwned
<1>4. RunnerHolds'
  BY DEF RunnerHolds, LockOwned, ClaimOwned, Active, Mine, Holder
<1>5. BeatRecent'
  BY DEF BeatRecent, Active
<1> QED
  BY <1>1, <1>2, <1>3, <1>4, <1>5

LEMMA ExclusionEndRound ==
  ASSUME Exclusive, ExclusionInv, TypeOK', NEW t \in Tasks, EndRound(t)
  PROVE  ExclusionInv'
<1> USE ConstantsAssumption DEF Exclusive, ExclusionInv, TypeOK, EndRound
<1>1. LockOwned'
  BY DEF LockOwned, Active, Locations
<1>2. HolderKnown'
  BY DEF HolderKnown, Holder, Mine
<1>3. ClaimOwned'
  BY DEF ClaimOwned, LockOwned, RunnerHolds, Active, Mine, Holder
<1>4. RunnerHolds'
  BY DEF RunnerHolds, LockOwned, ClaimOwned, Active, Mine, Holder
<1>5. BeatRecent'
  BY DEF BeatRecent, Active
<1> QED
  BY <1>1, <1>2, <1>3, <1>4, <1>5

LEMMA ExclusionBeat ==
  ASSUME Exclusive, ExclusionInv, TypeOK', NEW t \in Tasks, Beat(t)
  PROVE  ExclusionInv'
<1> USE ConstantsAssumption DEF Exclusive, ExclusionInv, TypeOK, Beat
<1>1. LockOwned'
  BY DEF LockOwned, Active, Locations
<1>2. HolderKnown'
  BY DEF HolderKnown, Holder, Mine
<1>3. ClaimOwned'
  BY DEF ClaimOwned, LockOwned, RunnerHolds, Active, Mine, Holder
<1>4. RunnerHolds'
  BY DEF RunnerHolds, LockOwned, ClaimOwned, Active, Mine, Holder
<1>5. BeatRecent'
  BY DEF BeatRecent, Active
<1> QED
  BY <1>1, <1>2, <1>3, <1>4, <1>5

LEMMA ExclusionLoseBeat ==
  ASSUME Exclusive, ExclusionInv, TypeOK', NEW t \in Tasks, LoseBeat(t)
  PROVE  ExclusionInv'
<1> USE ConstantsAssumption DEF Exclusive, ExclusionInv, TypeOK, LoseBeat
<1>1. LockOwned'
  BY DEF LockOwned, Active, Locations
<1>2. HolderKnown'
  BY DEF HolderKnown, Holder, Mine
<1>3. ClaimOwned'
  BY DEF ClaimOwned, LockOwned, RunnerHolds, Active, Mine, Holder
<1>4. RunnerHolds'
  BY DEF RunnerHolds, LockOwned, ClaimOwned, Active, Mine, Holder
<1>5. BeatRecent'
  BY DEF BeatRecent, Active
<1> QED
  BY <1>1, <1>2, <1>3, <1>4, <1>5

LEMMA ExclusionLeave ==
  ASSUME Exclusive, ExclusionInv, TypeOK', NEW t \in Tasks, Leave(t)
  PROVE  ExclusionInv'
<1> USE ConstantsAssumption DEF Exclusive, ExclusionInv, TypeOK, Leave
<1>1. LockOwned'
  BY DEF LockOwned, Active, Locations
<1>2. HolderKnown'
  BY DEF HolderKnown, Holder, Mine
<1>3. ClaimOwned'
  BY DEF ClaimOwned, LockOwned, RunnerHolds, Active, Mine, Holder
<1>4. RunnerHolds'
  BY DEF RunnerHolds, LockOwned, ClaimOwned, Active, Mine, Holder
<1>5. BeatRecent'
  BY DEF BeatRecent, Active
<1> QED
  BY <1>1, <1>2, <1>3, <1>4, <1>5

LEMMA ExclusionRelease ==
  ASSUME Exclusive, ExclusionInv, TypeOK', NEW t \in Tasks, Release(t)
  PROVE  ExclusionInv'
<1> USE ConstantsAssumption DEF Exclusive, ExclusionInv, TypeOK, Release, Return
<1>1. LockOwned'
  BY DEF LockOwned, Active, Locations
<1>2. HolderKnown'
  BY DEF HolderKnown, Holder, Mine
<1>3. ClaimOwned'
  BY DEF ClaimOwned, LockOwned, RunnerHolds, Active, Mine, Holder
<1>4. RunnerHolds'
  BY DEF RunnerHolds, LockOwned, ClaimOwned, Active, Mine, Holder
<1>5. BeatRecent'
  BY DEF BeatRecent, Active
<1> QED
  BY <1>1, <1>2, <1>3, <1>4, <1>5

LEMMA ExclusionCrash ==
  ASSUME Exclusive, ExclusionInv, TypeOK', NEW p \in Pods, Crash(p)
  PROVE  ExclusionInv'
<1> USE ConstantsAssumption DEF Exclusive, ExclusionInv, TypeOK, Crash
<1>1. LockOwned'
  BY DEF LockOwned, Active, Locations
<1>2. HolderKnown'
  BY DEF HolderKnown
<1>3. ClaimOwned'
  <2> SUFFICES ASSUME NEW q \in Pods,
                      (doc.status = "held" /\ doc.holder = <<q, epoch[q]>>)'
               PROVE  /\ lock'[q] \in Tasks
                      /\ pc'[lock'[q]] \in {"reading", "running", "beating",
                                            "releasing"}
                      /\ beat'[lock'[q]] <= doc'.heartbeat
    BY DEF ClaimOwned
  <2>1. q # p
    BY DEF HolderKnown
  <2>2. lock[q] \in Tasks /\ PodOf[lock[q]] = q
    BY <2>1 DEF ClaimOwned, LockOwned
  <2> QED
    BY <2>1, <2>2 DEF ClaimOwned
<1>4. RunnerHolds'
  BY DEF RunnerHolds, Active, Mine, Holder
<1>5. BeatRecent'
  BY DEF BeatRecent, Active
<1> QED
  BY <1>1, <1>2, <1>3, <1>4, <1>5

LEMMA ExclusionTick ==
  ASSUME Exclusive, ExclusionInv, TypeOK', Tick
  PROVE  ExclusionInv'
BY ConstantsAssumption
DEF Exclusive, ExclusionInv, TypeOK, Tick, LockOwned, HolderKnown, ClaimOwned,
    RunnerHolds, BeatRecent, Active, Mine, Holder

LEMMA ExclusionStutter ==
  ASSUME ExclusionInv, UNCHANGED vars
  PROVE  ExclusionInv'
BY DEF vars, ExclusionInv, TypeOK, LockOwned, HolderKnown, ClaimOwned,
       RunnerHolds, BeatRecent, Mine, Holder

\* No two calls of run() are past their locks at the same time: if heartbeats
\* land within the lease, no acquire() or release() is cut short and the run
\* is only ever entered through the lock, two runners are the same call.
THEOREM MutualExclusion == Exclusive => (Spec => []AtMostOneRunner)
<1> SUFFICES ASSUME Exclusive PROVE Spec => []AtMostOneRunner
  OBVIOUS
<1>1. TypeOK' /\ ExclusionInv /\ [Next]_vars => ExclusionInv'
  <2> SUFFICES ASSUME TypeOK', ExclusionInv, [Next]_vars PROVE ExclusionInv'
    OBVIOUS
  <2>0. TypeOK
    BY DEF ExclusionInv
  <2>1. ASSUME NEW t \in Tasks, \/ StartFresh(t) \/ Start(t) \/ Step(t)
                                \/ AbortAcquire(t) \/ AbortRelease(t)
        PROVE  ExclusionInv'
    BY <2>0, <2>1, OnlyOrderlySteps, ExclusionStart, ExclusionClaim,
       ExclusionAdmit, ExclusionRefuse, ExclusionEndRound, ExclusionBeat,
       ExclusionLoseBeat, ExclusionLeave, ExclusionRelease
    DEF Step
  <2>2. ASSUME NEW p \in Pods, Crash(p) PROVE ExclusionInv'
    BY <2>2, ExclusionCrash
  <2> QED
    BY <2>1, <2>2, ExclusionTick, ExclusionStutter DEF Next
<1>2. ExclusionInv => AtMostOneRunner
  <2> SUFFICES ASSUME ExclusionInv, NEW t \in Tasks, NEW u \in Tasks,
                      Runner(t), Runner(u)
               PROVE  t = u
    BY DEF AtMostOneRunner
  <2>1. Holder(t) = Holder(u)
    BY DEF ExclusionInv, RunnerHolds, Runner, Mine
  <2>2. lock[PodOf[t]] = t /\ lock[PodOf[u]] = u
    BY DEF ExclusionInv, LockOwned, Runner, Active
  <2> QED
    BY <2>1, <2>2 DEF Holder
<1> QED
  BY <1>1, <1>2, ExclusionInit, TypeCorrect, PTL DEF Spec

-----------------------------------------------------------------------------
(* What holds without conditions: with late heartbeats, cut store calls and *)
(* executions outside the lock.                                             *)

\* A call inside its in-process lock owns it.
LockKept == \A t \in Locking : pc[t] \in Active => lock[PodOf[t]] = t

\* A call's clock reading is never ahead of the clock.
NowPast == \A t \in Tasks : now[t] <= clock

LocalInv == TypeOK /\ LockKept /\ NowPast

LEMMA LocalReturn ==
  ASSUME LocalInv, NEW t \in Tasks, pc[t] \in Active, Return(t), clock' = clock
  PROVE  LockKept' /\ NowPast'
<1> USE ConstantsAssumption DEF LocalInv, TypeOK
<1>1. NowPast'
  BY DEF NowPast, Return
<1>2. ASSUME NEW u \in Locking, pc'[u] \in Active PROVE lock'[PodOf[u]] = u
  <2>1. u # t /\ pc[u] \in Active /\ u \in Tasks
    BY <1>2 DEF Return, Active, Locking
  <2>2. lock[PodOf[u]] = u
    BY <2>1 DEF LockKept
  <2>3. CASE t \in FreshTasks
    BY <2>2, <2>3 DEF Return
  <2>4. CASE t \notin FreshTasks
    <3>1. lock[PodOf[t]] = t
      BY <2>4 DEF LockKept, Locking
    <3>2. PodOf[u] # PodOf[t]
      BY <2>1, <2>2, <3>1
    <3> QED
      BY <2>1, <2>2, <2>4, <3>2 DEF Return
  <2> QED
    BY <2>3, <2>4
<1> QED
  BY <1>1, <1>2 DEF LockKept

LEMMA LocalStart ==
  ASSUME LocalInv, NEW t \in Tasks, Start(t)
  PROVE  LockKept' /\ NowPast'
<1> USE ConstantsAssumption DEF LocalInv, TypeOK
<1>1. NowPast'
  BY DEF NowPast, Start
<1>2. ASSUME NEW u \in Locking, pc'[u] \in Active PROVE lock'[PodOf[u]] = u
  <2>1. CASE u = t
    BY <2>1 DEF Start
  <2>2. CASE u # t
    <3>1. pc[u] \in Active /\ u \in Tasks
      BY <1>2, <2>2 DEF Start, Locking
    <3>2. lock[PodOf[u]] = u
      BY <3>1 DEF LockKept
    <3>3. PodOf[u] # PodOf[t]
      BY <3>1, <3>2 DEF Start, LockFree
    <3> QED
      BY <3>1, <3>2, <3>3 DEF Start
  <2> QED
    BY <2>1, <2>2
<1> QED
  BY <1>1, <1>2 DEF LockKept

LEMMA LocalNext == LocalInv /\ TypeOK' /\ [Next]_vars => LocalInv'
<1> SUFFICES ASSUME LocalInv, TypeOK', [Next]_vars PROVE LockKept' /\ NowPast'
  BY DEF LocalInv
<1> USE ConstantsAssumption DEF LocalInv, TypeOK
<1>1. ASSUME NEW t \in Tasks,
             StartFresh(t) \/ Claim(t) \/ Admit(t) \/ EndRound(t) \/ Beat(t)
               \/ LoseBeat(t) \/ Leave(t)
      PROVE  LockKept' /\ NowPast'
  <2>1. /\ lock' = lock /\ clock' = clock
        /\ now' = now \/ now' = [now EXCEPT ![t] = clock]
        /\ t \in FreshTasks \/ pc[t] \in Active
        /\ \A u \in Tasks : u # t => pc'[u] = pc[u]
    BY <1>1 DEF StartFresh, Claim, Admit, EndRound, Beat, LoseBeat, Leave, Active
  <2>2. NowPast'
    BY <2>1 DEF NowPast
  <2>3. LockKept'
    BY <2>1 DEF LockKept, Locking
  <2> QED
    BY <2>2, <2>3
<1>2. ASSUME NEW t \in Tasks,
             Refuse(t) \/ AbortAcquire(t) \/ LeaveFresh(t) \/ Release(t)
               \/ AbortRelease(t)
      PROVE  LockKept' /\ NowPast'
  <2>1. pc[t] \in Active /\ Return(t) /\ clock' = clock
    BY <1>2 DEF Refuse, AbortAcquire, LeaveFresh, Release, AbortRelease, Active
  <2> QED
    BY <2>1, LocalReturn
<1>3. ASSUME NEW p \in Pods, Crash(p) PROVE LockKept' /\ NowPast'
  <2>1. NowPast'
    BY <1>3 DEF NowPast, Crash
  <2>2. LockKept'
    BY <1>3 DEF LockKept, Crash, Locking, Active
  <2> QED
    BY <2>1, <2>2
<1>4. CASE Tick
  BY <1>4 DEF Tick, LockKept, NowPast
<1>5. CASE UNCHANGED vars
  BY <1>5 DEF vars, LockKept, NowPast
<1> QED
  BY <1>1, <1>2, <1>3, <1>4, <1>5, LocalStart DEF Next, Step

LEMMA LocalHolds == Spec => []LocalInv
<1>1. Init => LocalInv
  BY ConstantsAssumption
  DEF Init, LocalInv, TypeOK, Locations, Active, LockKept, NowPast, Locking
<1> QED
  BY <1>1, LocalNext, TypeCorrect, PTL DEF Spec

\* Two calls of one process are never both past its in-process lock, whatever
\* the lease, the clocks and Mongo do.
THEOREM LocalExclusion == Spec => []AtMostOneRunnerPerPod
<1>1. LocalInv => AtMostOneRunnerPerPod
  BY DEF LocalInv, LockKept, AtMostOneRunnerPerPod
<1> QED
  BY <1>1, LocalHolds, PTL

\* No call touches a live claim of another holder: not by claiming it, and not
\* by a heartbeat or a release that comes late.
THEOREM LiveClaimIsUntouchedHolds == Spec => LiveClaimIsUntouched
<1> DEFINE Untouched ==
      \A t \in Tasks :
        /\ pc[t] # pc'[t]
        /\ doc.status = "held" /\ clock <= doc.heartbeat + Lease
        /\ doc.holder # Holder(t)
        => doc' = doc
<1>1. LocalInv /\ [Next]_vars => [Untouched]_vars
  <2> SUFFICES ASSUME LocalInv, Next, NEW t \in Tasks, pc[t] # pc'[t],
                      doc.status = "held", clock <= doc.heartbeat + Lease,
                      doc.holder # Holder(t)
               PROVE  doc' = doc
    OBVIOUS
  <2> USE DEF LocalInv, TypeOK
  <2>1. ~Mine(t) /\ ~Claimable(now[t])
    BY ConstantsAssumption DEF Mine, Claimable, NowPast
  <2>2. ASSUME NEW u \in Tasks, Claim(u) \/ Beat(u) \/ Release(u) PROVE doc' = doc
    <3>1. u = t
      BY <2>2 DEF Claim, Beat, Release, Return
    <3> QED
      BY <2>1, <2>2, <3>1 DEF Claim, Beat, Release
  <2>3. CASE ~(\E u \in Tasks : Claim(u) \/ Beat(u) \/ Release(u))
    BY <2>3 DEF Next, Step, StartFresh, Start, Admit, Refuse, EndRound, LoseBeat,
       Leave, LeaveFresh, AbortAcquire, AbortRelease, Crash, Tick
  <2> QED
    BY <2>2, <2>3
<1> QED
  BY <1>1, LocalHolds, PTL DEF Spec, LiveClaimIsUntouched
=============================================================================
