------------------------- MODULE JobAuthorityProofs -------------------------
(***************************************************************************)
(* Proofs about the Job authority for every number of Jobs, tasks and      *)
(* processes, every limit, deadline, lease duration and wake contract.     *)
(* StepShapes reduces each action to one of five shapes; the inductive     *)
(* invariant and the refinement are proved shape by shape.                 *)
(***************************************************************************)
EXTENDS JobAuthority, JobDecisionTheorems

\* A task's claim is accepted.
GrantShape(t, j, n) ==
    /\ Grants(job[j], n, process[t])
    /\ Reply(t, j)
    /\ claimant' = [claimant EXCEPT ![j] = t]
    /\ UNCHANGED woken

\* A command of the lease holder is accepted and the lease goes on.
ProgressShape(t, j, n) ==
    /\ held[t].job = j
    /\ same_lease(job[j], held[t])
    /\ Dispatches(job[j], n) \/ Continues(job[j], n) \/ Renews(job[j], n)
    /\ Reply(t, j)
    /\ UNCHANGED <<woken, claimant>>

\* The Job moves and nobody is told a new fence.
QuietShape(j, n) ==
    /\ \/ Waits(job[j], n) \/ Backs_off(job[j], n) \/ Settles(job[j], n)
       \/ Suspects(job[j], n) \/ Cancels(job[j], n) \/ Annotates(job[j], n)
       \/ Requeues(job[j], n)
    /\ UNCHANGED <<held, woken, claimant>>

\* A wake is accepted.
WakeShape(j, n) ==
    /\ Requeues(job[j], n)
    /\ job[j].state = "waiting"
    /\ woken' = [woken EXCEPT ![j] = @ \cup {job[j].wake.generation}]
    /\ UNCHANGED <<held, claimant>>

JobShape(j, n) ==
    \/ \E t \in Tasks : GrantShape(t, j, n) \/ ProgressShape(t, j, n)
    \/ QuietShape(j, n)
    \/ WakeShape(j, n)

-----------------------------------------------------------------------------

\* A command of a task has one of the shapes.
LEMMA TaskShapes ==
    ASSUME TypeOK, NEW j \in Jobs, NEW t \in Tasks, TaskStep(t, j)
    PROVE  /\ now' = now
           /\ \E n : job' = [job EXCEPT ![j] = n] /\ JobShape(j, n)
<1> USE AuthorityAssumption
<1>1. job[j] \in JobProjection /\ now \in Nat /\ process[t] \in Workers
      /\ held[t] \in JobFence
  BY DEF TypeOK
<1>2. ASSUME NEW d \in Durations, Claim(t, j, d)
      PROVE  now' = now /\ \E n : job' = [job EXCEPT ![j] = n] /\ JobShape(j, n)
  <2>1. PICK n \in decide_claim(job[j], now, process[t], d)
                   \cup decide_claim_continuation(job[j], now, process[t], d) :
          job' = [job EXCEPT ![j] = n]
    BY <1>2 DEF Claim, Store
  <2>2. Grants(job[j], n, process[t])
    <3>1. d \in Nat
      OBVIOUS
    <3> QED
      BY <1>1, <2>1, <3>1, ClaimStep
  <2>3. GrantShape(t, j, n)
    BY <1>2, <2>2 DEF Claim, GrantShape
  <2> QED
    BY <1>2, <2>1, <2>3 DEF Claim, JobShape
<1>3. ASSUME NEW accepted, HolderProgress(t, j, accepted),
             \A n \in accepted : /\ same_lease(job[j], held[t])
                                 /\ \/ Dispatches(job[j], n) \/ Continues(job[j], n)
                                    \/ Renews(job[j], n)
      PROVE  now' = now /\ \E n : job' = [job EXCEPT ![j] = n] /\ JobShape(j, n)
  <2>1. PICK n \in accepted : job' = [job EXCEPT ![j] = n]
    BY <1>3 DEF HolderProgress, Store
  <2>2. ProgressShape(t, j, n)
    BY <1>3, <2>1 DEF HolderProgress, ProgressShape
  <2> QED
    BY <1>3, <2>1, <2>2 DEF HolderProgress, JobShape
<1>4. CASE Start(t, j)
  <2>1. \A n \in decide_start(job[j], held[t], now) :
          same_lease(job[j], held[t]) /\ Dispatches(job[j], n)
    BY <1>1, StartStep, ProgressIsFenced
  <2> QED
    BY <1>3, <1>4, <2>1 DEF Start
<1>5. CASE Resume(t, j)
  <2>1. \A n \in decide_resume(job[j], held[t], now) :
          same_lease(job[j], held[t]) /\ Continues(job[j], n)
    BY <1>1, ResumeStep, ProgressIsFenced
  <2> QED
    BY <1>3, <1>5, <2>1 DEF Resume
<1>6. ASSUME NEW d \in Durations, Heartbeat(t, j, d)
      PROVE  now' = now /\ \E n : job' = [job EXCEPT ![j] = n] /\ JobShape(j, n)
  <2>1. \A n \in decide_heartbeat(job[j], held[t], now, d) :
          same_lease(job[j], held[t]) /\ Renews(job[j], n)
    BY <1>1, RenewStep, ProgressIsFenced
  <2> QED
    BY <1>3, <1>6, <2>1 DEF Heartbeat
<1>7. CASE Observe(t, j)
  <2>1. \A n \in decide_observation_update(job[j], held[t], now) :
          same_lease(job[j], held[t]) /\ Renews(job[j], n)
    BY <1>1, RenewStep, ProgressIsFenced
  <2> QED
    BY <1>3, <1>7, <2>1 DEF Observe
<1>8. ASSUME NEW accepted, HolderRelease(t, j, accepted),
             \A n \in accepted : \/ Waits(job[j], n) \/ Backs_off(job[j], n)
                                 \/ Settles(job[j], n) \/ Suspects(job[j], n)
      PROVE  now' = now /\ \E n : job' = [job EXCEPT ![j] = n] /\ JobShape(j, n)
  <2>1. PICK n \in accepted : job' = [job EXCEPT ![j] = n]
    BY <1>8 DEF HolderRelease, Store
  <2>2. QuietShape(j, n)
    BY <1>8, <2>1 DEF HolderRelease, QuietShape
  <2> QED
    BY <1>8, <2>1, <2>2 DEF HolderRelease, JobShape
<1>9. CASE Terminal(t, j) \/ CleanupTerminal(t, j)
  <2>1. \A s \in TerminalState :
          /\ \A n \in decide_terminal(job[j], held[t], now, s) : Settles(job[j], n)
          /\ \A n \in decide_cleanup_terminal(job[j], held[t], now,
                                              job[j].deadline + CleanupWindow, s) :
                Settles(job[j], n)
    BY <1>1, SettleStep
  <2> QED
    BY <1>8, <1>9, <2>1 DEF Terminal, CleanupTerminal
<1>10. CASE Reconciliation(t, j) \/ CleanupReconciliation(t, j)
  <2>1. /\ \A n \in decide_reconciliation(job[j], held[t], now) : Suspects(job[j], n)
        /\ \A n \in decide_cleanup_reconciliation(job[j], held[t], now,
                                                  job[j].deadline + CleanupWindow) :
              Suspects(job[j], n)
    BY <1>1, SuspectStep
  <2> QED
    BY <1>8, <1>10, <2>1 DEF Reconciliation, CleanupReconciliation
<1>11. CASE Wait(t, j)
  <2> DEFINE wake(c) == [generation |-> held[t].lease_generation,
                         accepted_sources |-> c.accepted_sources,
                         next_poll_at |-> c.next_poll_at, poll_count |-> c.poll_count,
                         poll_limit |-> c.poll_limit, deadline |-> c.deadline]
  <2>1. PICK c \in WakeContracts :
          HolderRelease(t, j, decide_wait(job[j], held[t], now, wake(c)))
    BY <1>11 DEF Wait
  <2>2. wake(c) \in WakeContract
    BY <1>1 DEF WakeContract, JobFence, OptionTime
  <2> HIDE DEF wake
  <2>3. \A n \in decide_wait(job[j], held[t], now, wake(c)) : Waits(job[j], n)
    BY <1>1, <2>2, WaitStep
  <2> QED
    BY <1>8, <2>1, <2>3
<1>12. CASE Retry(t, j)
  <2>1. PICK r \in 1..MaxTime : HolderRelease(t, j, decide_retry(job[j], held[t], now, r))
    BY <1>12 DEF Retry
  <2>2. r \in Nat
    OBVIOUS
  <2>3. \A n \in decide_retry(job[j], held[t], now, r) : Backs_off(job[j], n)
    BY <1>1, <2>2, RetryStep
  <2> QED
    BY <1>8, <2>1, <2>3
<1> QED
  BY <1>2, <1>4, <1>5, <1>6, <1>7, <1>9, <1>10, <1>11, <1>12 DEF TaskStep

\* A step of the owner, a wake sender or a scanner has one of the shapes.
LEMMA OwnerShapes ==
    ASSUME TypeOK, NEW j \in Jobs, OwnerStep(j)
    PROVE  /\ now' = now
           /\ \E n : job' = [job EXCEPT ![j] = n] /\ JobShape(j, n)
<1> USE AuthorityAssumption
<1>1. job[j] \in JobProjection /\ now \in Nat
  BY DEF TypeOK
<1>2. ASSUME NEW accepted, Unfenced(j, accepted), UNCHANGED woken,
             \A n \in accepted : \/ Waits(job[j], n) \/ Backs_off(job[j], n)
                                 \/ Settles(job[j], n) \/ Suspects(job[j], n)
                                 \/ Cancels(job[j], n) \/ Annotates(job[j], n)
                                 \/ Requeues(job[j], n)
      PROVE  now' = now /\ \E n : job' = [job EXCEPT ![j] = n] /\ JobShape(j, n)
  <2>1. PICK n \in accepted : job' = [job EXCEPT ![j] = n]
    BY <1>2 DEF Unfenced, Store
  <2>2. QuietShape(j, n)
    BY <1>2, <2>1 DEF Unfenced, QuietShape
  <2> QED
    BY <1>2, <2>1, <2>2 DEF Unfenced, JobShape
<1>3. CASE OwnerTerminal(j)
  <2>1. PICK s \in TerminalState : Unfenced(j, decide_owner_terminal(job[j], s))
    BY <1>3 DEF OwnerTerminal
  <2>2. \A n \in decide_owner_terminal(job[j], s) : Settles(job[j], n)
    BY <1>1, SettleStep
  <2> QED
    BY <1>2, <1>3, <2>1, <2>2 DEF OwnerTerminal
<1>4. CASE OwnerReconciliation(j)
  <2>1. \A n \in decide_owner_reconciliation(job[j]) : Suspects(job[j], n)
    BY <1>1, SuspectStep
  <2> QED
    BY <1>2, <1>4, <2>1 DEF OwnerReconciliation
<1>5. CASE OwnerCancelling(j)
  <2>1. \A n \in decide_owner_cancelling(job[j]) : Cancels(job[j], n)
    BY <1>1, CancelStep
  <2> QED
    BY <1>2, <1>5, <2>1 DEF OwnerCancelling
<1>6. CASE PhysicalUpdate(j)
  <2>1. \A n \in decide_terminal_physical_update(job[j], job[j].version) :
          Annotates(job[j], n)
    BY <1>1, AnnotateStep
  <2> QED
    BY <1>2, <1>6, <2>1 DEF PhysicalUpdate
<1>7. CASE RetryDue(j)
  <2>1. \A n \in decide_retry_due(job[j], now) : Requeues(job[j], n)
    BY <1>1, RetryDueStep
  <2> QED
    BY <1>2, <1>7, <2>1 DEF RetryDue
<1>8. CASE \E g \in 1..job[j].lease_generation, s \in WakeSource : Wake(j, g, s)
  <2>1. PICK g \in 1..job[j].lease_generation, s \in WakeSource : Wake(j, g, s)
    BY <1>8
  <2>2. PICK n \in decide_wake(job[j], g, s, now) : job' = [job EXCEPT ![j] = n]
    BY <2>1 DEF Wake, Unfenced, Store
  <2>3. Requeues(job[j], n) /\ job[j].state = "waiting" /\ job[j].wake.generation = g
    BY <1>1, <2>2, WakeStep
  <2>4. WakeShape(j, n)
    BY <2>1, <2>3 DEF Wake, Unfenced, WakeShape
  <2> QED
    BY <2>1, <2>2, <2>4 DEF Wake, Unfenced, JobShape
<1>9. CASE ExpiredLease(j)
  <2> DEFINE found(target, r) ==
        decide_expired_lease(job[j], job[j].version, job[j].lease_generation, now, target, r)
  <2>1. PICK target \in JobState, r \in {None} \cup 1..MaxTime : Unfenced(j, found(target, r))
    BY <1>9 DEF ExpiredLease
  <2>2. r \in OptionTime
    BY DEF OptionTime
  <2>3. \A n \in found(target, r) : \/ Requeues(job[j], n) \/ Backs_off(job[j], n)
                                    \/ Settles(job[j], n) \/ Suspects(job[j], n)
    BY <1>1, <2>2, ExpiredLeaseStep
  <2> HIDE DEF found
  <2> QED
    BY <1>2, <1>9, <2>1, <2>3 DEF ExpiredLease
<1>10. CASE ExpiredContinuation(j)
  <2>1. \A n \in decide_expired_continuation(job[j], job[j].version,
                                             job[j].lease_generation, now) :
          Requeues(job[j], n)
    BY <1>1, ExpiredContinuationStep
  <2> QED
    BY <1>2, <1>10, <2>1 DEF ExpiredContinuation
<1> QED
  BY <1>3, <1>4, <1>5, <1>6, <1>7, <1>8, <1>9, <1>10 DEF OwnerStep

\* Every step ticks the clock or moves one Job in one of the shapes.
LEMMA StepShapes ==
    ASSUME TypeOK, Next
    PROVE  \/ now' \in Nat /\ now <= now' /\ UNCHANGED <<job, held, woken, claimant>>
           \/ /\ now' = now
              /\ \E j \in Jobs : \E n : job' = [job EXCEPT ![j] = n] /\ JobShape(j, n)
<1>1. CASE Tick
  BY <1>1 DEF Tick, TypeOK
<1>2. ASSUME NEW j \in Jobs, OwnerStep(j) \/ \E t \in Tasks : TaskStep(t, j)
      PROVE  now' = now /\ \E n : job' = [job EXCEPT ![j] = n] /\ JobShape(j, n)
  BY <1>2, OwnerShapes, TaskShapes
<1> QED
  BY <1>1, <1>2 DEF Next

\* No step schedules a Job for later than the present.
LEMMA ScheduleStep ==
    ASSUME TypeOK, Next
    PROVE  \A i \in Jobs : job'[i].scheduled_at \in {job[i].scheduled_at, now}
<1> DEFINE Keeps(j, accepted) ==
        \A n \in accepted : n.scheduled_at \in {job[j].scheduled_at, now}
<1>1. ASSUME NEW j \in Jobs, NEW accepted, Keeps(j, accepted), Store(j, accepted)
      PROVE  \A i \in Jobs : job'[i].scheduled_at \in {job[i].scheduled_at, now}
  BY <1>1 DEF Store, TypeOK
<1>2. CASE Tick
  BY <1>2 DEF Tick
<1>3. ASSUME NEW j \in Jobs, NEW t \in Tasks, TaskStep(t, j)
      PROVE  \E accepted : Keeps(j, accepted) /\ Store(j, accepted)
  <2>1. job[j] \in JobProjection
    BY DEF TypeOK
  <2>2. \A d : Keeps(j, decide_claim(job[j], now, process[t], d)
                        \cup decide_claim_continuation(job[j], now, process[t], d))
    BY <2>1, HolderSchedule
  <2>3. /\ Keeps(j, decide_start(job[j], held[t], now))
        /\ Keeps(j, decide_resume(job[j], held[t], now))
        /\ \A d : Keeps(j, decide_heartbeat(job[j], held[t], now, d))
        /\ Keeps(j, decide_observation_update(job[j], held[t], now))
    BY <2>1, HolderSchedule
  <2>4. /\ \A s : Keeps(j, decide_terminal(job[j], held[t], now, s))
        /\ \A c, s : Keeps(j, decide_cleanup_terminal(job[j], held[t], now, c, s))
        /\ Keeps(j, decide_reconciliation(job[j], held[t], now))
        /\ \A c : Keeps(j, decide_cleanup_reconciliation(job[j], held[t], now, c))
    BY <2>1, HolderSchedule
  <2>5. /\ \A w : Keeps(j, decide_wait(job[j], held[t], now, w))
        /\ \A r : Keeps(j, decide_retry(job[j], held[t], now, r))
    BY <2>1, HolderSchedule
  <2> HIDE DEF Keeps
  <2> QED
    BY <1>3, <2>2, <2>3, <2>4, <2>5
       DEF TaskStep, Claim, Heartbeat, Start, Resume, Observe, Terminal, CleanupTerminal,
           Reconciliation, CleanupReconciliation, Wait, Retry, HolderProgress, HolderRelease
<1>4. ASSUME NEW j \in Jobs, OwnerStep(j)
      PROVE  \E accepted : Keeps(j, accepted) /\ Store(j, accepted)
  <2>1. job[j] \in JobProjection
    BY DEF TypeOK
  <2>2. /\ \A s : Keeps(j, decide_owner_terminal(job[j], s))
        /\ Keeps(j, decide_owner_reconciliation(job[j]))
        /\ Keeps(j, decide_owner_cancelling(job[j]))
        /\ \A v : Keeps(j, decide_terminal_physical_update(job[j], v))
    BY <2>1, OwnerSchedule
  <2>3. /\ Keeps(j, decide_retry_due(job[j], now))
        /\ \A g, s : Keeps(j, decide_wake(job[j], g, s, now))
        /\ \A v, g, s, r : Keeps(j, decide_expired_lease(job[j], v, g, now, s, r))
        /\ \A v, g : Keeps(j, decide_expired_continuation(job[j], v, g, now))
    BY <2>1, OwnerSchedule
  <2> HIDE DEF Keeps
  <2> QED
    BY <1>4, <2>2, <2>3
       DEF OwnerStep, OwnerTerminal, OwnerReconciliation, OwnerCancelling, PhysicalUpdate,
           RetryDue, Wake, ExpiredLease, ExpiredContinuation, Unfenced
<1> HIDE DEF Keeps
<1> QED
  BY <1>1, <1>2, <1>3, <1>4 DEF Next

\* In every shape the moved Job advances.
LEMMA ShapesAdvance ==
    ASSUME NEW j \in Jobs, NEW n, JobShape(j, n)
    PROVE  Advances(job[j], n)
BY DEF JobShape, GrantShape, ProgressShape, QuietShape, WakeShape, Grants, Dispatches,
       Continues, Renews, KeepsHolder, Waits, Backs_off, Settles, Suspects, Requeues,
       Releases, Cancels, Annotates

\* What a reply leaves in the hands of the tasks.
LEMMA ReplyFence ==
    ASSUME TypeOK, NEW j \in Jobs, NEW t \in Tasks, NEW n \in JobProjection,
           job' = [job EXCEPT ![j] = n], Reply(t, j)
    PROVE  /\ held' \in [Tasks -> JobFence]
           /\ \A u \in Tasks : \/ held'[u] = held[u]
                               \/ /\ u = t
                                  /\ held'[u].job = j
                                  /\ held'[u].expected_version = n.version
<1>1. job'[j] = n
  BY DEF TypeOK
<1>2. n.version \in Nat /\ n.lease_generation \in Nat
  BY DEF JobProjection
<1> DEFINE f == [job |-> j, worker |-> process[t], expected_version |-> n.version,
                 lease_generation |-> n.lease_generation]
<1>3. f \in JobFence /\ f.job = j /\ f.expected_version = n.version
  BY <1>2, AuthorityAssumption DEF JobFence
<1>4. held' = [held EXCEPT ![t] = f] \/ held' = held
  BY <1>1 DEF Reply
<1> HIDE DEF f
<1> QED
  BY <1>3, <1>4 DEF TypeOK

-----------------------------------------------------------------------------

\* Before any Job is created the invariant holds.
LEMMA InitInductive == ASSUME Init PROVE InductiveInvariant
<1> USE AuthorityAssumption
<1>1. NewJob \in JobProjection
  BY NullRecords DEF NewJob, JobProjection, JobState, OptionTime
<1>2. NoFence \in JobFence
  BY DEF NoFence, JobFence
<1>3. /\ validate(NewJob) /\ NewJob.attempt_limit = AttemptLimit /\ NewJob.state = "ready"
      /\ NewJob.scheduled_at = 0
  BY DEF NewJob, validate, NoLease, None
<1>4. \A j \in Jobs : job[j] = NewJob
  BY DEF Init
<1>5. TypeOK
  BY <1>1, <1>2 DEF Init, TypeOK
<1>6. StoredProjectionsValidate /\ LimitsKept
  BY <1>3, <1>4 DEF StoredProjectionsValidate, LimitsKept
<1>7. FencesTrail
  BY DEF Init, FencesTrail, NoFence
<1>8. WakesTrail
  BY <1>3, <1>4 DEF Init, WakesTrail
<1>9. AttemptsAreInOrder
  BY <1>3, <1>4 DEF Init, AttemptsAreInOrder
<1> QED
  BY <1>5, <1>6, <1>7, <1>8, <1>9 DEF InductiveInvariant

\* Types and validity: the moved Job validates, the others are as before.
LEMMA TypesStep ==
    ASSUME TypeOK, StoredProjectionsValidate, LimitsKept,
           NEW j \in Jobs, NEW n, job' = [job EXCEPT ![j] = n], now' = now, JobShape(j, n)
    PROVE  TypeOK' /\ StoredProjectionsValidate' /\ LimitsKept'
<1> USE AuthorityAssumption
<1>1. Advances(job[j], n)
  BY ShapesAdvance
<1>2. n \in JobProjection /\ validate(n) /\ n.attempt_limit = AttemptLimit
  BY <1>1 DEF Advances, LimitsKept
<1>3. job' \in [Jobs -> JobProjection]
  BY <1>2 DEF TypeOK
<1>4. held' \in [Tasks -> JobFence]
  <2>1. CASE \E t \in Tasks : GrantShape(t, j, n) \/ ProgressShape(t, j, n)
    BY <2>1, <1>2, ReplyFence DEF GrantShape, ProgressShape
  <2>2. CASE QuietShape(j, n) \/ WakeShape(j, n)
    BY <2>2 DEF QuietShape, WakeShape, TypeOK
  <2> QED
    BY <2>1, <2>2 DEF JobShape
<1>5. woken' \in [Jobs -> SUBSET Nat]
  <2>1. CASE WakeShape(j, n)
    <3>1. job[j].wake.generation \in Nat
      BY DEF TypeOK, JobProjection, WakeContract
    <3> QED
      BY <2>1, <3>1 DEF WakeShape, TypeOK
  <2>2. CASE woken' = woken
    BY <2>2 DEF TypeOK
  <2> QED
    BY <2>1, <2>2 DEF JobShape, GrantShape, ProgressShape, QuietShape
<1>6. claimant' \in [Jobs -> Tasks \cup {NoTask}]
  <2>1. claimant' = claimant \/ \E t \in Tasks : claimant' = [claimant EXCEPT ![j] = t]
    BY DEF JobShape, GrantShape, ProgressShape, QuietShape, WakeShape
  <2> QED
    BY <2>1 DEF TypeOK
<1>7. TypeOK'
  BY <1>3, <1>4, <1>5, <1>6 DEF TypeOK
<1>8. \A i \in Jobs : job'[i] = IF i = j THEN n ELSE job[i]
  BY DEF TypeOK
<1> QED
  BY <1>2, <1>7, <1>8 DEF StoredProjectionsValidate, LimitsKept

\* Fences: a step outdates every fence of the Job it moves, except the one it
\* hands out, and that goes to the claimant.
LEMMA FencesStep ==
    ASSUME TypeOK, FencesTrail,
           NEW j \in Jobs, NEW n, job' = [job EXCEPT ![j] = n], JobShape(j, n)
    PROVE  FencesTrail'
<1> USE AuthorityAssumption
<1>1. n \in JobProjection /\ n.version = job[j].version + 1
  BY ShapesAdvance DEF Advances
<1>2. \A i \in Jobs : job'[i] = IF i = j THEN n ELSE job[i]
  BY DEF TypeOK
<1>3. \A i \in Jobs : i # j => claimant'[i] = claimant[i]
  BY DEF JobShape, GrantShape, ProgressShape, QuietShape, WakeShape, TypeOK
<1>4. job[j].version \in Nat /\ n.version \in Nat
      /\ \A u \in Tasks : held[u].expected_version \in Nat
  BY <1>1 DEF TypeOK, JobProjection, JobFence
<1> DEFINE Fresh(u) == /\ held'[u].job = j
                       /\ held'[u].expected_version = n.version
                       /\ claimant'[j] = u
<1>5. \A u \in Tasks : held'[u] = held[u] \/ Fresh(u)
  <2>1. ASSUME NEW t \in Tasks, GrantShape(t, j, n)
        PROVE  \A u \in Tasks : held'[u] = held[u] \/ Fresh(u)
    <3>1. claimant'[j] = t
      BY <2>1 DEF GrantShape, TypeOK
    <3>2. \A u \in Tasks : \/ held'[u] = held[u]
                            \/ /\ u = t
                               /\ held'[u].job = j
                               /\ held'[u].expected_version = n.version
      BY <2>1, <1>1, ReplyFence DEF GrantShape
    <3> QED
      BY <3>1, <3>2
  <2>2. ASSUME NEW t \in Tasks, ProgressShape(t, j, n)
        PROVE  \A u \in Tasks : held'[u] = held[u] \/ Fresh(u)
    <3>1. claimant'[j] = t
      BY <2>2 DEF ProgressShape, same_lease, FencesTrail
    <3>2. \A u \in Tasks : \/ held'[u] = held[u]
                            \/ /\ u = t
                               /\ held'[u].job = j
                               /\ held'[u].expected_version = n.version
      <4>1. Reply(t, j)
        BY <2>2 DEF ProgressShape
      <4> QED
        BY <4>1, <1>1, ReplyFence
    <3> QED
      BY <3>1, <3>2
  <2>3. CASE QuietShape(j, n) \/ WakeShape(j, n)
    BY <2>3 DEF QuietShape, WakeShape
  <2> QED
    BY <2>1, <2>2, <2>3 DEF JobShape
<1> SUFFICES ASSUME NEW u \in Tasks, NEW i \in Jobs, held'[u].job = i
             PROVE  /\ held'[u].expected_version <= job'[i].version
                    /\ held'[u].expected_version = job'[i].version /\ job'[i].lease # NoLease
                          => u = claimant'[i]
  BY DEF FencesTrail
<1>6. CASE i # j
  BY <1>2, <1>3, <1>5, <1>6 DEF FencesTrail
<1>7. CASE i = j /\ held'[u] = held[u]
  <2>1. held[u].expected_version <= job[j].version
    BY <1>7 DEF FencesTrail
  <2> QED
    BY <2>1, <1>1, <1>2, <1>4, <1>7
<1>8. CASE i = j /\ held'[u] # held[u]
  BY <1>2, <1>4, <1>5, <1>8
<1> QED
  BY <1>6, <1>7, <1>8

\* Wakes: a grant takes a generation nobody has consumed, a wait keeps it, and
\* the wake that consumes it leaves the Job queued for the next grant.
LEMMA WakesStep ==
    ASSUME TypeOK, WakesTrail,
           NEW j \in Jobs, NEW n, job' = [job EXCEPT ![j] = n], JobShape(j, n)
    PROVE  WakesTrail'
<1>1. n \in JobProjection
  BY ShapesAdvance DEF Advances
<1>2. \A i \in Jobs : job'[i] = IF i = j THEN n ELSE job[i]
  BY DEF TypeOK
<1>3. \A i \in Jobs : i # j => woken'[i] = woken[i]
  BY DEF JobShape, GrantShape, ProgressShape, QuietShape, WakeShape, TypeOK
<1>4. job[j].lease_generation \in Nat /\ \A g \in woken[j] : g \in Nat
  BY DEF TypeOK, JobProjection
<1> DEFINE Trail(state, generation, wake, consumed) ==
        /\ \A g \in consumed : g <= generation
        /\ state \in {"leased", "running", "waiting"} => generation \notin consumed
        /\ state = "waiting" => wake.generation = generation
<1>5. Trail(job[j].state, job[j].lease_generation, job[j].wake, woken[j])
  BY DEF WakesTrail
<1>6. Trail(n.state, n.lease_generation, n.wake, woken'[j])
  <2>1. ASSUME NEW t \in Tasks, GrantShape(t, j, n)
        PROVE  Trail(n.state, n.lease_generation, n.wake, woken'[j])
    <3>1. /\ n.lease_generation = job[j].lease_generation + 1 /\ n.state = "leased"
          /\ woken' = woken
      BY <2>1 DEF GrantShape, Grants
    <3> QED
      BY <3>1, <1>4, <1>5
  <2>2. ASSUME NEW t \in Tasks, ProgressShape(t, j, n)
        PROVE  Trail(n.state, n.lease_generation, n.wake, woken'[j])
    <3>1. /\ n.lease_generation = job[j].lease_generation /\ woken' = woken
          /\ n.state \in {"leased", "running"} /\ job[j].state \in {"leased", "running"}
      BY <2>2 DEF ProgressShape, Dispatches, Continues, Renews, KeepsHolder
    <3> QED
      BY <3>1, <1>5
  <2>3. CASE QuietShape(j, n)
    <3>1. woken' = woken
      BY <2>3 DEF QuietShape
    <3>2. CASE Waits(job[j], n)
      <4>1. /\ n.lease_generation = job[j].lease_generation /\ n.state = "waiting"
            /\ job[j].state = "running" /\ n.wake.generation = job[j].lease_generation
        BY <3>2 DEF Waits, Releases
      <4> QED
        BY <3>1, <4>1, <1>5
    <3>3. CASE ~Waits(job[j], n)
      <4>1. n.lease_generation = job[j].lease_generation
            /\ n.state \notin {"leased", "running", "waiting"}
        BY <2>3, <3>3 DEF QuietShape, Backs_off, Settles, Suspects, Cancels, Annotates,
               Requeues, Releases, TerminalState, TypeOK, JobProjection
      <4> QED
        BY <3>1, <4>1, <1>5
    <3> QED
      BY <3>2, <3>3
  <2>4. CASE WakeShape(j, n)
    <3>1. /\ n.lease_generation = job[j].lease_generation /\ n.state = "ready"
          /\ job[j].state = "waiting"
          /\ woken'[j] = woken[j] \cup {job[j].wake.generation}
      BY <2>4 DEF WakeShape, Requeues, Releases, TypeOK
    <3> QED
      BY <3>1, <1>4, <1>5
  <2> QED
    BY <2>1, <2>2, <2>3, <2>4 DEF JobShape
<1> QED
  BY <1>2, <1>3, <1>6 DEF WakesTrail

\* Attempts: only a dispatch or a continuation of a counted attempt makes a Job
\* run, and only one with an attempt left backs off.
LEMMA AttemptsStep ==
    ASSUME TypeOK, AttemptsAreInOrder, now' = now,
           \A i \in Jobs : job'[i].scheduled_at \in {job[i].scheduled_at, now},
           NEW j \in Jobs, NEW n, job' = [job EXCEPT ![j] = n], JobShape(j, n)
    PROVE  AttemptsAreInOrder'
<1>1. \A i \in Jobs : job'[i] = IF i = j THEN n ELSE job[i]
  BY DEF TypeOK
<1>2. Advances(job[j], n) /\ job[j].attempt_count \in Nat /\ n.attempt_count \in Nat
  BY ShapesAdvance DEF Advances, TypeOK, JobProjection
<1>3. Annotates(job[j], n) => n.state \in TerminalState \cup {"reconciliation_required"}
  BY DEF Annotates, TypeOK, JobProjection
<1>4. ASSUME n.state = "running" PROVE n.attempt_count > 0
  <2>1. Dispatches(job[j], n) \/ Continues(job[j], n) \/ Renews(job[j], n)
    BY <1>3, <1>4 DEF JobShape, GrantShape, ProgressShape, QuietShape, WakeShape, Grants, Waits,
           Backs_off, Settles, Suspects, Cancels, Requeues, TerminalState
  <2> QED
    BY <1>2, <1>4, <2>1 DEF Dispatches, Continues, Renews, AttemptsAreInOrder
<1>5. ASSUME n.state = "retry_scheduled" PROVE n.attempt_count < n.attempt_limit
  <2>1. Backs_off(job[j], n)
    BY <1>3, <1>5 DEF JobShape, GrantShape, ProgressShape, QuietShape, WakeShape, Grants, Waits,
           Dispatches, Continues, Renews, Settles, Suspects, Cancels, Requeues,
           TerminalState
  <2> QED
    BY <2>1 DEF Backs_off, Releases, Advances
<1>6. \A i \in Jobs : job'[i].scheduled_at <= now'
  BY DEF AttemptsAreInOrder, TypeOK
<1> QED
  BY <1>1, <1>4, <1>5, <1>6 DEF AttemptsAreInOrder

\* Every step, stuttering included, preserves the inductive invariant.
LEMMA StepInductive ==
    ASSUME InductiveInvariant, [Next]_vars
    PROVE  InductiveInvariant'
<1> USE DEF InductiveInvariant
<1>1. CASE UNCHANGED vars
  BY <1>1 DEF vars, TypeOK, StoredProjectionsValidate, LimitsKept, AttemptsAreInOrder,
              FencesTrail, WakesTrail
<1>2. CASE now' \in Nat /\ now <= now' /\ UNCHANGED <<job, held, woken, claimant>>
  <2>1. AttemptsAreInOrder'
    BY <1>2 DEF AttemptsAreInOrder, TypeOK, JobProjection
  <2> QED
    BY <1>2, <2>1 DEF TypeOK, StoredProjectionsValidate, LimitsKept, FencesTrail, WakesTrail
<1>3. ASSUME Next, NEW j \in Jobs, NEW n, now' = now, job' = [job EXCEPT ![j] = n],
             JobShape(j, n)
      PROVE  InductiveInvariant'
  BY <1>3, ScheduleStep, TypesStep, AttemptsStep, FencesStep, WakesStep
<1> QED
  BY <1>1, <1>2, <1>3, StepShapes

\* The authority keeps its inductive invariant.
THEOREM AuthorityInvariant == Spec => []InductiveInvariant
BY InitInductive, StepInductive, PTL DEF Spec

\* The variables of the authority always have their types.
THEOREM AuthorityTypes == Spec => []TypeOK
BY AuthorityInvariant, PTL DEF InductiveInvariant

\* A queued Job before its deadline is granted to whoever asks.
LEMMA QueuedJobMovesOn ==
    ASSUME InductiveInvariant, NEW j \in Jobs, HasRoom(job[j])
    PROVE  QueuedIsClaimable(j)
<1> USE AuthorityAssumption
<1> SUFFICES ASSUME \/ job[j].state = "ready"
                    \/ job[j].state = "retry_scheduled" /\ job[j].retry_at <= now,
                    now < job[j].deadline,
                    NEW w \in Workers, NEW d \in Durations
             PROVE  decide_claim(job[j], now, w, d)
                       \cup decide_claim_continuation(job[j], now, w, d) # {}
  BY DEF QueuedIsClaimable
<1>1. /\ job[j] \in JobProjection /\ validate(job[j]) /\ now \in Nat /\ d \in Nat \ {0}
      /\ job[j].scheduled_at <= now
      /\ job[j].state = "retry_scheduled" => job[j].attempt_count < job[j].attempt_limit
  BY DEF InductiveInvariant, TypeOK, StoredProjectionsValidate, AttemptsAreInOrder
<1>2. job[j].state = "ready" => job[j].retry_at <= now
  BY <1>1 DEF validate, None
<1> QED
  BY <1>1, <1>2, ClaimAccepted

\* The holder of a lease can begin or go on, and can settle.
LEMMA HolderMovesOn ==
    ASSUME InductiveInvariant, NEW j \in Jobs, HasRoom(job[j])
    PROVE  HolderCanGoOn(j)
<1> USE AuthorityAssumption
<1> SUFFICES ASSUME job[j].lease # NoLease PROVE HolderCanGoOn(j)
  BY DEF HolderCanGoOn
<1>1. /\ job[j] \in JobProjection /\ validate(job[j]) /\ now \in Nat
  BY DEF InductiveInvariant, TypeOK, StoredProjectionsValidate
<1>2. same_lease(job[j], lease_fence(j))
  BY DEF same_lease, lease_fence
<1>3. ASSUME now < job[j].lease.expires_at, job[j].state = "leased"
      PROVE  decide_start(job[j], lease_fence(j), now)
                \cup decide_resume(job[j], lease_fence(j), now) # {}
  BY <1>1, <1>2, <1>3, BeginAccepted DEF validate_fence
<1>4. ASSUME now <= job[j].deadline + CleanupWindow
      PROVE  decide_cleanup_terminal(job[j], lease_fence(j), now,
                                     job[j].deadline + CleanupWindow, "cancelled") # {}
  <2>1. "cancelled" \in JobTransitions[job[j].state]
    BY <1>1 DEF validate, JobTransitions
  <2>2. transition(job[j], "cancelled", FALSE) # {}
    BY <1>1, <2>1, ReleaseAccepted
  <2>3. job[j].deadline <= job[j].deadline + CleanupWindow
    BY <1>1 DEF JobProjection
  <2> QED
    BY <1>2, <1>4, <2>2, <2>3
       DEF decide_cleanup_terminal, validate_cleanup_fence, TerminalState
<1> QED
  BY <1>3, <1>4 DEF HolderCanGoOn

\* The scan can take an expired Job back.
LEMMA ExpiredJobMovesOn ==
    ASSUME InductiveInvariant, NEW j \in Jobs, HasRoom(job[j])
    PROVE  ExpiredIsRecoverable(j)
<1> USE AuthorityAssumption
<1> DEFINE o == job[j]
           recovered(target) ==
               decide_expired_lease(o, o.version, o.lease_generation, now, target, None)
<1> SUFFICES ASSUME o.lease # NoLease, ~(now < o.lease.expires_at)
             PROVE  IF now < o.deadline
                    THEN /\ o.state = "leased" => recovered("ready") # {}
                         /\ o.state = "running" =>
                               /\ decide_expired_continuation(o, o.version,
                                                              o.lease_generation, now) # {}
                               /\ o.attempt_count = AttemptLimit => recovered("failed") # {}
                         /\ o.state = "cancelling" =>
                               recovered("reconciliation_required") # {}
                    ELSE recovered("timed_out") # {}
  BY DEF ExpiredIsRecoverable
<1>1. /\ o \in JobProjection /\ validate(o) /\ HasRoom(o) /\ now \in Nat /\ o.deadline \in Nat
      /\ o.lease.expires_at \in Int /\ o.attempt_limit = AttemptLimit
      /\ o.state = "running" => o.attempt_count # 0
  BY DEF InductiveInvariant, TypeOK, StoredProjectionsValidate, AttemptsAreInOrder, LimitsKept,
         JobProjection, JobLease, OptionTime, None
<1>2. /\ expired(o, o.version, o.lease_generation, now)
      /\ o.state \in {"leased", "running", "cancelling"}
  BY <1>1 DEF expired, validate
<1> HIDE DEF o
<1>3. ASSUME now < o.deadline, o.state = "leased" PROVE recovered("ready") # {}
  <2>1. "ready" \in JobTransitions[o.state]
    BY <1>3 DEF JobTransitions
  <2> DEFINE guard == o.state = "leased" /\ now < o.deadline
  <2>2. guard /\ now <= o.deadline
    BY <1>1, <1>3
  <2>3. recovered("ready") = UNION {Accepted(guard, [m EXCEPT !.scheduled_at = now]) :
                                      m \in transition(o, "ready", FALSE)}
    BY <1>2 DEF decide_expired_lease
  <2> HIDE DEF guard, recovered
  <2>4. PICK m \in transition(o, "ready", FALSE) :
          [m EXCEPT !.scheduled_at = now] \in Accepted(TRUE, [m EXCEPT !.scheduled_at = now])
    BY <1>1, <2>1, <2>2, RequeueAccepted
  <2>5. [m EXCEPT !.scheduled_at = now] \in Accepted(guard, [m EXCEPT !.scheduled_at = now])
    BY <2>2, <2>4 DEF Accepted
  <2> QED
    BY <2>3, <2>5
<1>4. ASSUME now < o.deadline, o.state = "running"
      PROVE  decide_expired_continuation(o, o.version, o.lease_generation, now) # {}
  <2> DEFINE guard == /\ expired(o, o.version, o.lease_generation, now)
                      /\ o.state = "running"
                      /\ o.attempt_count # 0
                      /\ now < o.deadline
  <2>1. "ready" \in JobTransitions[o.state]
    BY <1>4 DEF JobTransitions
  <2>2. guard /\ now <= o.deadline
    BY <1>1, <1>2, <1>4
  <2>3. decide_expired_continuation(o, o.version, o.lease_generation, now)
          = UNION {Accepted(guard, [m EXCEPT !.scheduled_at = now]) :
                     m \in transition(o, "ready", FALSE)}
    BY DEF decide_expired_continuation
  <2> HIDE DEF guard
  <2>4. PICK m \in transition(o, "ready", FALSE) :
          [m EXCEPT !.scheduled_at = now] \in Accepted(TRUE, [m EXCEPT !.scheduled_at = now])
    BY <1>1, <2>1, <2>2, RequeueAccepted
  <2>5. [m EXCEPT !.scheduled_at = now] \in Accepted(guard, [m EXCEPT !.scheduled_at = now])
    BY <2>2, <2>4 DEF Accepted
  <2> QED
    BY <2>3, <2>5
<1>5. ASSUME now < o.deadline, o.state = "running", o.attempt_count = AttemptLimit
      PROVE  recovered("failed") # {}
  <2>1. "failed" \in JobTransitions[o.state]
    BY <1>5 DEF JobTransitions
  <2>2. transition(o, "failed", FALSE) # {}
    BY <1>1, <2>1, ReleaseAccepted
  <2>3. o.attempt_limit <= o.attempt_count
    BY <1>1, <1>5
  <2>4. recovered("failed") = {n \in transition(o, "failed", FALSE) :
                                 /\ o.state = "running"
                                 /\ o.attempt_limit <= o.attempt_count
                                 /\ now < o.deadline}
    BY <1>2 DEF decide_expired_lease
  <2> HIDE DEF recovered
  <2> QED
    BY <1>5, <2>2, <2>3, <2>4
<1>6. ASSUME o.state = "cancelling" PROVE recovered("reconciliation_required") # {}
  <2>1. "reconciliation_required" \in JobTransitions[o.state]
    BY <1>6 DEF JobTransitions
  <2>2. transition(o, "reconciliation_required", FALSE) # {}
    BY <1>1, <2>1, ReleaseAccepted
  <2> QED
    BY <1>2, <2>2 DEF decide_expired_lease
<1>7. ASSUME ~(now < o.deadline) PROVE recovered("timed_out") # {}
  <2>1. "timed_out" \in JobTransitions[o.state]
    BY <1>2 DEF JobTransitions
  <2>2. transition(o, "timed_out", FALSE) # {}
    BY <1>1, <2>1, ReleaseAccepted
  <2>3. o.deadline <= now
    BY <1>1, <1>7
  <2>4. recovered("timed_out") = {n \in transition(o, "timed_out", FALSE) : o.deadline <= now}
    BY <1>2 DEF decide_expired_lease
  <2> HIDE DEF recovered
  <2> QED
    BY <2>2, <2>3, <2>4
<1> HIDE DEF recovered
<1> QED
  BY <1>3, <1>4, <1>5, <1>6, <1>7

\* A wait that may time out does.
LEMMA WaitMovesOn ==
    ASSUME InductiveInvariant, NEW j \in Jobs, HasRoom(job[j])
    PROVE  WaitCanTimeOut(j)
<1> DEFINE o == job[j]
           guard == /\ o.state = "waiting"
                    /\ o.wake.generation = o.wake.generation
                    /\ "timeout" \in o.wake.accepted_sources
                    /\ within_source_window(o.wake, "timeout", now)
                    /\ "timeout" = "poll" => /\ o.wake.poll_count < o.wake.poll_limit
                                             /\ o.wake.next_poll_at <= now
<1> SUFFICES ASSUME o.state = "waiting", "timeout" \in o.wake.accepted_sources,
                    o.wake.deadline <= now, now <= o.deadline
             PROVE  decide_wake(o, o.wake.generation, "timeout", now) # {}
  BY DEF WaitCanTimeOut
<1>1. o \in JobProjection /\ validate(o) /\ HasRoom(o) /\ now \in Nat
  BY DEF InductiveInvariant, TypeOK, StoredProjectionsValidate
<1> HIDE DEF o
<1>2. guard
  BY DEF within_source_window
<1>3. decide_wake(o, o.wake.generation, "timeout", now)
        = UNION {Accepted(guard, [m EXCEPT !.scheduled_at = now]) :
                   m \in transition(o, "ready", FALSE)}
  BY DEF decide_wake
<1>4. "ready" \in JobTransitions[o.state]
  BY DEF JobTransitions
<1> HIDE DEF guard
<1>5. PICK m \in transition(o, "ready", FALSE) :
        [m EXCEPT !.scheduled_at = now] \in Accepted(TRUE, [m EXCEPT !.scheduled_at = now])
  BY <1>1, <1>4, RequeueAccepted
<1>6. [m EXCEPT !.scheduled_at = now] \in Accepted(guard, [m EXCEPT !.scheduled_at = now])
  BY <1>2, <1>5 DEF Accepted
<1> QED
  BY <1>3, <1>6

\* Whatever came before, no Job is left where the claim, start, resumption,
\* settlement, recovery, timeout or cancellation that should move it on refuses it.
THEOREM JobsAreNeverStranded == Spec => []NoJobIsStranded
<1>1. ASSUME InductiveInvariant PROVE NoJobIsStranded
  <2> SUFFICES ASSUME NEW j \in Jobs, HasRoom(job[j])
               PROVE  /\ QueuedIsClaimable(j) /\ HolderCanGoOn(j)
                      /\ ExpiredIsRecoverable(j) /\ WaitCanTimeOut(j)
                      /\ job[j].state \notin TerminalState =>
                            decide_owner_terminal(job[j], "cancelled") # {}
    BY DEF NoJobIsStranded, HasRoom
  <2>1. job[j] \in JobProjection /\ validate(job[j])
    BY <1>1 DEF InductiveInvariant, TypeOK, StoredProjectionsValidate
  <2>2. ASSUME job[j].state \notin TerminalState
        PROVE  decide_owner_terminal(job[j], "cancelled") # {}
    <3>1. "cancelled" \in JobTransitions[job[j].state]
      BY <2>1, <2>2 DEF JobTransitions, JobProjection, JobState, TerminalState
    <3>2. transition(job[j], "cancelled", FALSE) # {}
      BY <2>1, <3>1, ReleaseAccepted
    <3> QED
      BY <3>2 DEF decide_owner_terminal, TerminalState
  <2> QED
    BY <1>1, <2>2, QueuedJobMovesOn, HolderMovesOn, ExpiredJobMovesOn, WaitMovesOn
<1> QED
  BY <1>1, AuthorityInvariant, PTL

\* Nobody but the task of the last accepted claim passes a fence check, whatever
\* was lost, repeated or delayed before.
THEOREM FencingIsExclusive == Spec => []OnlyLastClaimantIsAdmitted
<1>1. ASSUME InductiveInvariant PROVE OnlyLastClaimantIsAdmitted
  BY <1>1 DEF InductiveInvariant, FencesTrail, OnlyLastClaimantIsAdmitted, same_lease
<1> QED
  BY <1>1, AuthorityInvariant, PTL

\* Every registered wait is resumed by at most one wake.
THEOREM WakesHaveOneWinner == Spec => []EachWaitIsWokenOnce
<1>1. ASSUME InductiveInvariant PROVE EachWaitIsWokenOnce
  BY <1>1 DEF InductiveInvariant, WakesTrail, EachWaitIsWokenOnce
<1> QED
  BY <1>1, AuthorityInvariant, PTL

\* Only cleanup evidence moves a settled Job.
LEMMA SettledShape ==
    ASSUME NEW j \in Jobs, NEW n, JobShape(j, n), job[j] \in JobProjection,
           job[j].state \in TerminalState
    PROVE  n = [job[j] EXCEPT !.version = n.version]
<1>1. JobTransitions[job[j].state] = {}
  BY DEF TerminalState, JobTransitions
<1>2. Annotates(job[j], n)
  BY <1>1 DEF JobShape, GrantShape, ProgressShape, QuietShape, WakeShape, Grants, Dispatches,
         Continues, Renews, Waits, Backs_off, Settles, Suspects, Requeues, Cancels,
         TerminalState
<1> QED
  BY <1>2 DEF Annotates

\* The first terminal winner stands: no worker, owner, scanner or wake changes a
\* settled Job again.
THEOREM SettlementIsFinal == Spec => SettledJobsAreFinal
<1> DEFINE Final == \A j \in Jobs : job[j].state \in TerminalState =>
                       job'[j] = [job[j] EXCEPT !.version = job'[j].version]
<1>1. ASSUME TypeOK, [Next]_vars PROVE Final
  <2> SUFFICES ASSUME NEW i \in Jobs, job[i].state \in TerminalState
               PROVE  job'[i] = [job[i] EXCEPT !.version = job'[i].version]
    OBVIOUS
  <2>1. job[i] \in JobProjection
    BY <1>1 DEF TypeOK
  <2>2. CASE job' = job
    BY <2>1, <2>2 DEF JobProjection
  <2>3. ASSUME NEW j \in Jobs, NEW n, job' = [job EXCEPT ![j] = n], JobShape(j, n)
        PROVE  job'[i] = [job[i] EXCEPT !.version = job'[i].version]
    <3>1. CASE i = j
      <4>1. job'[i] = n
        BY <1>1, <2>3, <3>1 DEF TypeOK
      <4> QED
        BY <4>1, <2>1, <2>3, <3>1, SettledShape
    <3>2. CASE i # j
      <4>1. job'[i] = job[i]
        BY <1>1, <2>3, <3>2 DEF TypeOK
      <4> QED
        BY <4>1, <2>1 DEF JobProjection
    <3> QED
      BY <3>1, <3>2
  <2> QED
    BY <1>1, <2>2, <2>3, StepShapes DEF vars
<1>2. [][Final]_vars <=> SettledJobsAreFinal
  BY DEF SettledJobsAreFinal
<1> HIDE DEF Final
<1>3. Spec => [][Final]_vars
  BY <1>1, AuthorityTypes, PTL DEF Spec
<1> QED
  BY <1>2, <1>3

-----------------------------------------------------------------------------
(* Refinement.                                                             *)

\* A worker is named exactly while the Job is leased.
LEMMA HolderOfLease ==
    ASSUME NEW o \in JobProjection, validate(o), o.state \notin {"leased", "running", "cancelling"}
    PROVE  o.lease = NoLease /\ o.lease.worker = NoWorker
BY DEF validate, NoLease

\* The moved Job determines the step of the abstract lifecycle.
LEMMA LifecycleStep ==
    ASSUME InductiveInvariant, NEW j \in Jobs, NEW n, job' = [job EXCEPT ![j] = n],
           JobShape(j, n)
    PROVE  Lifecycle!LifecycleNext \/ UNCHANGED Lifecycle!lifecycleVars
<1> USE AuthorityAssumption
<1> DEFINE o == job[j]
           s == [i \in Jobs |-> job[i].state]
           a == [i \in Jobs |-> job[i].attempt_count]
           e == [i \in Jobs |-> job[i].lease_generation]
           h == [i \in Jobs |-> job[i].lease.worker]
<1>1. o \in JobProjection /\ n \in JobProjection /\ validate(o) /\ validate(n)
      /\ o.attempt_limit = AttemptLimit
  BY ShapesAdvance DEF Advances, InductiveInvariant, TypeOK, StoredProjectionsValidate,
                       LimitsKept
<1>2. /\ s' = [s EXCEPT ![j] = n.state] /\ a' = [a EXCEPT ![j] = n.attempt_count]
      /\ e' = [e EXCEPT ![j] = n.lease_generation] /\ h' = [h EXCEPT ![j] = n.lease.worker]
  BY DEF InductiveInvariant, TypeOK
<1>3. s[j] = o.state /\ a[j] = o.attempt_count /\ e[j] = o.lease_generation
      /\ h[j] = o.lease.worker
  OBVIOUS
<1>4. /\ n.attempt_count = o.attempt_count => a' = a
      /\ n.lease_generation = o.lease_generation => e' = e
      /\ n.lease.worker = o.lease.worker => h' = h
      /\ n.state = o.state => s' = s
  BY <1>2, <1>3
<1> HIDE DEF s, a, e, h
<1>5. ASSUME NEW t \in Tasks, GrantShape(t, j, n) PROVE Lifecycle!LifecycleNext
  <2>1. /\ o.state \in {"ready", "retry_scheduled"} /\ n.state = "leased"
        /\ n.lease.worker = process[t] /\ n.lease_generation = e[j] + 1
        /\ n.attempt_count = o.attempt_count
    BY <1>3, <1>5 DEF GrantShape, Grants
  <2>2. process[t] \in Workers
    OBVIOUS
  <2>3. Lifecycle!Grant(j, process[t])
    BY <1>2, <1>3, <1>4, <2>1 DEF Lifecycle!Grant, Lifecycle!Queued, s, a, e, h
  <2> QED
    BY <2>2, <2>3 DEF Lifecycle!LifecycleNext
<1>6. CASE \E t \in Tasks : ProgressShape(t, j, n)
  <2>1. CASE Dispatches(o, n)
    <3>1. /\ o.state = "leased" /\ n.state = "running" /\ n.lease.worker = o.lease.worker
          /\ o.attempt_count < AttemptLimit /\ n.attempt_count = a[j] + 1
          /\ n.lease_generation = o.lease_generation
      BY <1>1, <1>3, <2>1 DEF Dispatches, KeepsHolder
    <3>2. Lifecycle!Dispatch(j)
      BY <1>2, <1>3, <1>4, <3>1 DEF Lifecycle!Dispatch, s, a, e, h
    <3> QED
      BY <3>2 DEF Lifecycle!LifecycleNext
  <2>2. CASE Continues(o, n)
    <3>1. /\ o.state = "leased" /\ n.state = "running" /\ n.lease.worker = o.lease.worker
          /\ o.attempt_count > 0 /\ n.attempt_count = o.attempt_count
          /\ n.lease_generation = o.lease_generation
      BY <2>2 DEF Continues, KeepsHolder
    <3>2. Lifecycle!Continue(j)
      BY <1>2, <1>3, <1>4, <3>1 DEF Lifecycle!Continue, s, a, e, h
    <3> QED
      BY <3>2 DEF Lifecycle!LifecycleNext
  <2>3. CASE Renews(o, n)
    <3>1. s' = s /\ a' = a /\ e' = e /\ h' = h
      BY <1>4, <2>3 DEF Renews, KeepsHolder
    <3> QED
      BY <3>1 DEF Lifecycle!lifecycleVars, s, a, e, h
  <2> QED
    BY <1>6, <2>1, <2>2, <2>3 DEF ProgressShape
<1>7. ASSUME Releases(o, n)
      PROVE  n.lease.worker = NoWorker /\ a' = a /\ e' = e
  BY <1>4, <1>7 DEF Releases, NoLease
<1>8. CASE Requeues(o, n) \/ Waits(o, n) \/ Backs_off(o, n)
  <2>1. /\ n.state \in {"ready", "waiting", "retry_scheduled"}
        /\ \/ o.state = "leased" /\ n.state = "ready"
           \/ o.state = "running"
           \/ o.state \in {"waiting", "retry_scheduled"} /\ n.state = "ready"
        /\ n.lease.worker = NoWorker /\ a' = a /\ e' = e
    BY <1>7, <1>8 DEF Requeues, Waits, Backs_off
  <2>2. Lifecycle!Park(j, n.state)
    BY <1>2, <1>3, <2>1 DEF Lifecycle!Park, s, a, e, h
  <2> QED
    BY <2>1, <2>2 DEF Lifecycle!LifecycleNext, Lifecycle!Parked
<1>9. CASE Settles(o, n)
  <2>1. /\ n.state \in TerminalState /\ n.state \in JobTransitions[o.state]
        /\ n.lease.worker = NoWorker /\ a' = a /\ e' = e
    BY <1>7, <1>9 DEF Settles
  <2>2. /\ o.state \notin TerminalState
        /\ n.state = "succeeded" =>
              o.state \in {"running", "waiting", "reconciliation_required"}
        /\ n.state = "failed" => o.state \notin {"ready", "leased", "retry_scheduled"}
        /\ n.state = "timed_out" => o.state # "reconciliation_required"
    BY <1>1, <2>1 DEF JobTransitions, JobProjection, JobState, TerminalState
  <2>3. Lifecycle!Settle(j, n.state)
    BY <1>2, <1>3, <2>1, <2>2 DEF Lifecycle!Settle, Lifecycle!Settled, TerminalState, s, a, e, h
  <2> QED
    BY <2>1, <2>3 DEF Lifecycle!LifecycleNext, Lifecycle!Settled, TerminalState
<1>10. CASE Suspects(o, n)
  <2>1. /\ o.state \in {"running", "waiting", "cancelling"}
        /\ n.state = "reconciliation_required"
        /\ n.lease.worker = NoWorker /\ a' = a /\ e' = e
    BY <1>7, <1>10 DEF Suspects
  <2>2. Lifecycle!Suspect(j)
    BY <1>2, <1>3, <2>1 DEF Lifecycle!Suspect, s, a, e, h
  <2> QED
    BY <2>2 DEF Lifecycle!LifecycleNext
<1>11. CASE Cancels(o, n)
  <2>1. /\ o.state \in {"ready", "leased", "running", "waiting", "retry_scheduled"}
        /\ n.state = "cancelling" /\ a' = a /\ e' = e /\ h' = h
    BY <1>4, <1>11 DEF Cancels
  <2>2. Lifecycle!RequestCancel(j)
    BY <1>2, <1>3, <2>1
       DEF Lifecycle!RequestCancel, Lifecycle!Parked, Lifecycle!Held, s, a, e, h
  <2> QED
    BY <2>2 DEF Lifecycle!LifecycleNext
<1>12. CASE Annotates(o, n)
  <2>1. s' = s /\ a' = a /\ e' = e /\ h' = h
    BY <1>1, <1>4, <1>12 DEF Annotates, JobProjection
  <2> QED
    BY <2>1 DEF Lifecycle!lifecycleVars, s, a, e, h
<1> QED
  BY <1>5, <1>6, <1>8, <1>9, <1>10, <1>11, <1>12 DEF JobShape, QuietShape, WakeShape

\* The decisions of platform-jobs, however they are interleaved, implement the
\* lifecycle that every owner of a Job relies on.
THEOREM AuthorityImplementsLifecycle == Spec => ImplementsLifecycle
<1>1. ASSUME Init PROVE Lifecycle!LifecycleInit
  BY <1>1 DEF Init, NewJob, NoLease, Lifecycle!LifecycleInit
<1>2. ASSUME InductiveInvariant, [Next]_vars
      PROVE  [Lifecycle!LifecycleNext]_(Lifecycle!lifecycleVars)
  <2>1. CASE job' = job
    BY <2>1 DEF Lifecycle!lifecycleVars
  <2>2. ASSUME NEW j \in Jobs, NEW n, job' = [job EXCEPT ![j] = n], JobShape(j, n)
        PROVE  [Lifecycle!LifecycleNext]_(Lifecycle!lifecycleVars)
    BY <1>2, <2>2, LifecycleStep
  <2> QED
    BY <1>2, <2>1, <2>2, StepShapes DEF vars, InductiveInvariant
<1> QED
  BY <1>1, <1>2, AuthorityInvariant, PTL DEF Spec, ImplementsLifecycle,
     Lifecycle!LifecycleSpec
=============================================================================
