---------------------- MODULE RegistryValidationProofs ----------------------
(***************************************************************************)
(* Proofs about the Registry and its validation Jobs for every set of      *)
(* documents, keys, Jobs and tasks, both kinds of activation target, and   *)
(* every limit, deadline, lease and backoff.                               *)
(*                                                                         *)
(* No property of the runs is inductive by itself: what is published rests *)
(* on the stored summary, the summary on a Job that succeeded, a request   *)
(* on its Receipt, the active target on the deployments' versions, and the *)
(* number of dispatches on where started_at is set.                        *)
(***************************************************************************)
EXTENDS RegistryValidation, JobDecisionTheorems

\* A stored Job passes the authority's own validation and keeps the request's limit.
StoredJob(n) == n \in JobProjection /\ validate(n) /\ n.attempt_limit = AttemptLimit

StoredJobs == \A j \in Jobs : StoredJob(job[j])

\* Some Job that succeeded was about this document.
Validated(document) ==
    \E j \in Jobs : /\ Created(j)
                    /\ requested[j].draft_digest = document
                    /\ job[j].state = "succeeded"

\* The summary of an Agent was written by a Job that succeeded.
SummaryIsBacked == IsAgent /\ resource.validation # NoDocument => Validated(resource.validation)

\* A deployment is of a version that is published.
DeploymentsArePublished == \A d \in deployments : \E v \in published : v.id = d.version

\* A Job exists because its request's Receipt was claimed.
JobsHaveReceipts == \A j \in Jobs : Created(j) => <<"validate", requested[j].key>> \in receipts

\* Every dispatch is a new attempt: a Job that can be claimed or started has no
\* started_at left, so no attempt is ever taken for a continuation.
DispatchesAreAttempts ==
    \A j \in Jobs : /\ dispatched[j] = job[j].attempt_count
                    /\ job[j].state \in {"ready", "leased"} => started_at[j] = None

\* A Job that was never requested was never worked on.
UnrequestedJobsAreFresh ==
    \A j \in Jobs : ~Created(j) => job[j].state = "ready" /\ job[j].attempt_count = 0

\* What a client command can disturb.
RegistryPart ==
    /\ ValidationMatchesDraft
    /\ SummaryIsBacked
    /\ PublishedAgentsWereValidated
    /\ DeploymentsArePublished
    /\ ActiveTargetIsPublished

\* What a request or a worker can disturb.
JobPart ==
    /\ StoredJobs
    /\ JobsHaveReceipts
    /\ OneJobPerRequest
    /\ DispatchesAreAttempts
    /\ UnrequestedJobsAreFresh

ValidationInvariant == TypeOK /\ RegistryPart /\ JobPart

-----------------------------------------------------------------------------
(* Stored Jobs.                                                            *)

\* A new Job is one the authority accepts.
LEMMA NewJobStored ==
    ASSUME NEW created_at \in Nat, NEW deadline \in Nat, created_at <= deadline
    PROVE  /\ StoredJob(NewJob(created_at, deadline))
           /\ NewJob(created_at, deadline).state = "ready"
           /\ NewJob(created_at, deadline).attempt_count = 0
<1> DEFINE n == NewJob(created_at, deadline)
<1>1. n \in JobProjection
  BY ValidationAssumption, NullRecords DEF NewJob, JobProjection, JobState, OptionTime, None
<1>2. /\ n.state = "ready" /\ n.attempt_count = 0 /\ n.attempt_limit = AttemptLimit
      /\ n.version = 1 /\ n.lease = NoLease /\ n.scheduled_at = created_at
      /\ n.retry_at = None /\ n.wake = NoWake /\ n.deadline = deadline
  BY DEF NewJob
<1>3. validate(n)
  BY <1>2, ValidationAssumption DEF validate
<1> QED
  BY <1>1, <1>2, <1>3 DEF StoredJob

\* A decision on a stored Job yields one.
LEMMA AdvancedJobStored ==
    ASSUME NEW o, StoredJob(o), NEW n, Advances(o, n)
    PROVE  StoredJob(n)
BY DEF StoredJob, Advances

\* The recovery scan puts the old scheduled_at back, and the Job stays valid.
LEMMA RescheduledJobStored ==
    ASSUME NEW o, StoredJob(o), NEW m, Advances(o, m),
           NEW n, n = [m EXCEPT !.scheduled_at = o.scheduled_at]
    PROVE  /\ StoredJob(n) /\ n.state = m.state /\ n.attempt_count = m.attempt_count
<1>1. m \in JobProjection /\ validate(m) /\ m.attempt_limit = AttemptLimit
      /\ m.deadline = o.deadline /\ o.scheduled_at \in Nat /\ o.scheduled_at <= o.deadline
  BY DEF StoredJob, Advances, validate, JobProjection
<1>2. /\ n \in JobProjection /\ n.scheduled_at = o.scheduled_at
      /\ n.state = m.state /\ n.version = m.version /\ n.attempt_count = m.attempt_count
      /\ n.attempt_limit = m.attempt_limit /\ n.lease_generation = m.lease_generation
      /\ n.lease = m.lease /\ n.retry_at = m.retry_at /\ n.wake = m.wake
      /\ n.deadline = m.deadline
  BY <1>1 DEF JobProjection
<1>3. validate(n)
  BY <1>1, <1>2 DEF validate
<1> QED
  BY <1>1, <1>2, <1>3 DEF StoredJob

-----------------------------------------------------------------------------
(* What the actions of workers and of the scan do to the Job they are      *)
(* about.                                                                  *)

\* A claim leases a queued Job that has no started_at afterwards.
LEMMA ClaimEffect ==
    ASSUME ValidationInvariant, NEW t \in Tasks, NEW j \in Jobs, claim_jobs(t, j)
    PROVE  /\ \E n : /\ job' = [job EXCEPT ![j] = n] /\ StoredJob(n)
                     /\ n.state = "leased" /\ n.attempt_count = job[j].attempt_count
           /\ job[j].state \in {"ready", "retry_scheduled"}
           /\ started_at' = [started_at EXCEPT ![j] = None]
           /\ UNCHANGED <<registryVars, now, requested, dispatched>>
<1>1. /\ now \in Nat /\ StoredJob(job[j]) /\ job[j] \in JobProjection
      /\ process[t] \in Workers /\ Lease \in Nat
  BY ValidationAssumption DEF ValidationInvariant, TypeOK, JobPart, StoredJobs, StoredJob
<1>2. PICK n \in decide_claim(job[j], now, process[t], Lease)
                 \cup decide_claim_continuation(job[j], now, process[t], Lease) :
        job' = [job EXCEPT ![j] = n]
  BY DEF claim_jobs
<1>3. Grants(job[j], n, process[t])
  BY <1>1, ClaimStep
<1>4. StoredJob(n) /\ n.state = "leased" /\ n.attempt_count = job[j].attempt_count
      /\ job[j].state \in {"ready", "retry_scheduled"}
  BY <1>1, <1>3, AdvancedJobStored DEF Grants
<1>5. started_at_after_claim(j) = None
  BY <1>4 DEF started_at_after_claim, ValidationInvariant, JobPart, DispatchesAreAttempts
<1> QED
  BY <1>2, <1>4, <1>5 DEF claim_jobs

\* A start is always a new attempt.
LEMMA StartEffect ==
    ASSUME ValidationInvariant, NEW t \in Tasks, NEW j \in Jobs, start_job(t, j)
    PROVE  /\ \E n : /\ job' = [job EXCEPT ![j] = n] /\ StoredJob(n)
                     /\ n.state = "running" /\ n.attempt_count = job[j].attempt_count + 1
           /\ job[j].state = "leased"
           /\ started_at' = [started_at EXCEPT ![j] = now]
           /\ dispatched' = [dispatched EXCEPT ![j] = @ + 1]
           /\ UNCHANGED <<registryVars, now, requested>>
<1>1. now \in Nat /\ StoredJob(job[j]) /\ job[j] \in JobProjection
  BY DEF ValidationInvariant, TypeOK, JobPart, StoredJobs, StoredJob
<1>2. \E n \in decide_start(job[j], task[t], now) \cup decide_resume(job[j], task[t], now) :
        job[j].state = "leased"
  BY DEF start_job, decide_start, decide_resume, Accepted
<1>3. started_at[j] = None
  BY <1>2 DEF ValidationInvariant, JobPart, DispatchesAreAttempts
<1>4. PICK n \in decide_start(job[j], task[t], now) : job' = [job EXCEPT ![j] = n]
  BY <1>3 DEF start_job, has_started_worker_attempt
<1>5. Dispatches(job[j], n)
  BY <1>1, StartStep
<1>6. StoredJob(n) /\ n.state = "running" /\ n.attempt_count = job[j].attempt_count + 1
      /\ job[j].state = "leased"
  BY <1>1, <1>5, AdvancedJobStored DEF Dispatches, KeepsHolder
<1> QED
  BY <1>3, <1>4, <1>6 DEF start_job, ValidationInvariant, TypeOK

\* A heartbeat moves neither the state nor the attempts.
LEMMA HeartbeatEffect ==
    ASSUME ValidationInvariant, NEW t \in Tasks, NEW j \in Jobs, heartbeat_job(t, j)
    PROVE  /\ \E n : /\ job' = [job EXCEPT ![j] = n] /\ StoredJob(n)
                     /\ n.state = job[j].state /\ n.attempt_count = job[j].attempt_count
           /\ job[j].state \in {"leased", "running"}
           /\ UNCHANGED <<registryVars, now, requested, started_at, dispatched>>
<1>1. now \in Nat /\ StoredJob(job[j]) /\ job[j] \in JobProjection /\ Lease \in Nat
  BY ValidationAssumption DEF ValidationInvariant, TypeOK, JobPart, StoredJobs, StoredJob
<1>2. PICK n \in decide_heartbeat(job[j], task[t], now, Lease) : job' = [job EXCEPT ![j] = n]
  BY DEF heartbeat_job
<1>3. Renews(job[j], n)
  BY <1>1, RenewStep
<1>4. StoredJob(n) /\ n.state = job[j].state /\ n.attempt_count = job[j].attempt_count
      /\ job[j].state \in {"leased", "running"}
  BY <1>1, <1>3, AdvancedJobStored DEF Renews, KeepsHolder
<1> QED
  BY <1>2, <1>4 DEF heartbeat_job

\* A commit ends a running Job with success and writes the summary of its draft.
LEMMA CommitEffect ==
    ASSUME ValidationInvariant, NEW t \in Tasks, NEW j \in Jobs,
           commit_registry_validation(t, j)
    PROVE  /\ \E n : /\ job' = [job EXCEPT ![j] = n] /\ StoredJob(n)
                     /\ n.state = "succeeded" /\ n.attempt_count = job[j].attempt_count
           /\ job[j].state = "running"
           /\ AtFrozenDraft(j)
           /\ resource' = [resource EXCEPT !.validation = resource.document,
                                           !.version = resource.version + 1]
           /\ UNCHANGED <<published, deployments, receipts, now, requested, started_at,
                          dispatched>>
<1>1. now \in Nat /\ StoredJob(job[j]) /\ job[j] \in JobProjection
  BY DEF ValidationInvariant, TypeOK, JobPart, StoredJobs, StoredJob
<1>2. PICK n \in decide_terminal(job[j], task[t], now, "succeeded") :
        job' = [job EXCEPT ![j] = n]
  BY DEF commit_registry_validation
<1>3. n \in transition(job[j], "succeeded", FALSE) /\ "succeeded" \in JobState
  BY DEF decide_terminal, JobState
<1>4. Releases(job[j], n) /\ n.state = "succeeded"
  BY <1>1, <1>3, ReleasingTransition
<1>5. StoredJob(n) /\ n.attempt_count = job[j].attempt_count
  BY <1>1, <1>4, AdvancedJobStored DEF Releases
<1>6. resource' = [resource EXCEPT !.validation = resource.document,
                                   !.version = resource.version + 1]
  BY DEF commit_registry_validation, AtFrozenDraft, ValidationInvariant, TypeOK, Resource
<1> QED
  BY <1>2, <1>4, <1>5, <1>6 DEF commit_registry_validation, require_exact_running_job_fence

\* The scan takes a Job out of a worker's hands; what never started becomes ready
\* again, anything else does not.
LEMMA RecoverEffect ==
    ASSUME ValidationInvariant, NEW j \in Jobs, recover_expired_registry_validation_jobs(j)
    PROVE  /\ \E n : /\ job' = [job EXCEPT ![j] = n] /\ StoredJob(n)
                     /\ n.state \in {"ready", "retry_scheduled", "failed", "timed_out"}
                     /\ n.state = "ready" => job[j].state = "leased"
                     /\ n.attempt_count = job[j].attempt_count
           /\ job[j].state \in {"leased", "running"}
           /\ UNCHANGED <<registryVars, now, requested, started_at, task, dispatched>>
<1>1. now \in Nat /\ StoredJob(job[j]) /\ job[j] \in JobProjection
  BY DEF ValidationInvariant, TypeOK, JobPart, StoredJobs, StoredJob
<1>2. PICK target \in {"ready", "retry_scheduled", "failed", "timed_out"},
           retry_at \in OptionTime :
        /\ target = "ready" => job[j].state = "leased"
        /\ \E m \in decide_expired_lease(job[j], job[j].version, job[j].lease_generation,
                                         now, target, retry_at) :
              job' = [job EXCEPT ![j] = [m EXCEPT !.scheduled_at = job[j].scheduled_at]]
  <2>1. PICK pair \in recovery_target(j) :
          \E m \in decide_expired_lease(job[j], job[j].version, job[j].lease_generation,
                                        now, pair[1], pair[2]) :
             job' = [job EXCEPT ![j] = [m EXCEPT !.scheduled_at = job[j].scheduled_at]]
    BY DEF recover_expired_registry_validation_jobs
  <2>2. /\ pair[1] \in {"ready", "retry_scheduled", "failed", "timed_out"}
        /\ pair[1] = "ready" => job[j].state = "leased"
        /\ pair[2] \in OptionTime
    BY <1>1, ValidationAssumption DEF recovery_target, OptionTime, None
  <2> QED
    BY <2>1, <2>2, Zenon
<1>3. PICK m \in decide_expired_lease(job[j], job[j].version, job[j].lease_generation,
                                      now, target, retry_at) :
        job' = [job EXCEPT ![j] = [m EXCEPT !.scheduled_at = job[j].scheduled_at]]
  BY <1>2
<1>5. Advances(job[j], m) /\ m.attempt_count = job[j].attempt_count /\ m.state = target
  <2>1. target \in JobState
    BY DEF JobState
  <2>2. Releases(job[j], m) /\ m.state = target
    BY <1>1, <2>1, ExpiredLeaseTarget
  <2> QED
    BY <2>2 DEF Releases
<1> DEFINE n == [m EXCEPT !.scheduled_at = job[j].scheduled_at]
<1>6. StoredJob(n) /\ n.state = m.state /\ n.attempt_count = m.attempt_count
  BY <1>1, <1>5, RescheduledJobStored
<1> HIDE DEF n
<1>7. job' = [job EXCEPT ![j] = n]
  BY <1>3 DEF n
<1> QED
  BY <1>2, <1>5, <1>6, <1>7 DEF recover_expired_registry_validation_jobs

-----------------------------------------------------------------------------
(* The inductive step.                                                     *)

\* Moving one Job that had not succeeded keeps every validation on record.
LEMMA JobMoves ==
    ASSUME ValidationInvariant, NEW j \in Jobs, job[j].state # "succeeded", Created(j),
           NEW n, job' = [job EXCEPT ![j] = n], StoredJob(n),
           started_at' \in [Jobs -> OptionTime], dispatched' \in [Jobs -> Nat],
           \A i \in Jobs \ {j} : started_at'[i] = started_at[i] /\ dispatched'[i] = dispatched[i],
           dispatched'[j] = n.attempt_count,
           n.state \in {"ready", "leased"} => started_at'[j] = None,
           requested' = requested, receipts \subseteq receipts'
    PROVE  /\ job' \in [Jobs -> JobProjection] /\ JobPart'
           /\ \A document : Validated(document) => Validated(document)'
<1> USE DEF ValidationInvariant
<1>1. job \in [Jobs -> JobProjection] /\ n \in JobProjection
  BY DEF TypeOK, StoredJob
<1>2. job' \in [Jobs -> JobProjection]
  BY <1>1
<1>3. \A i \in Jobs : (i # j => job'[i] = job[i]) /\ (i = j => job'[i] = n)
  BY <1>1
<1>4. StoredJobs'
  BY <1>3 DEF StoredJobs, JobPart, StoredJob
<1>5. JobsHaveReceipts' /\ OneJobPerRequest'
  BY DEF JobsHaveReceipts, OneJobPerRequest, JobPart, Created
<1>6. DispatchesAreAttempts'
  BY <1>3 DEF DispatchesAreAttempts, JobPart
<1>7. UnrequestedJobsAreFresh'
  BY <1>3 DEF UnrequestedJobsAreFresh, JobPart, Created
<1>8. \A document : Validated(document) => Validated(document)'
  BY <1>3 DEF Validated, Created
<1> QED
  BY <1>2, <1>4, <1>5, <1>6, <1>7, <1>8 DEF JobPart

\* What was published stays validated while validations stay on record.
LEMMA RegistryStands ==
    ASSUME ValidationInvariant, UNCHANGED <<resource, published, deployments>>,
           \A document : Validated(document) => Validated(document)'
    PROVE  RegistryPart'
<1>1. RegistryPart
  BY DEF ValidationInvariant
<1>2. ValidationMatchesDraft' /\ DeploymentsArePublished' /\ ActiveTargetIsPublished'
  BY <1>1 DEF RegistryPart, ValidationMatchesDraft, DeploymentsArePublished,
              ActiveTargetIsPublished
<1>3. SummaryIsBacked'
  BY <1>1 DEF RegistryPart, SummaryIsBacked
<1>4. PublishedAgentsWereValidated'
  <2>1. IsAgent => \A v \in published : Validated(v.document)
    BY <1>1 DEF RegistryPart, PublishedAgentsWereValidated, Validated
  <2>2. IsAgent => \A v \in published' : Validated(v.document)'
    BY <2>1
  <2> QED
    BY <2>2 DEF PublishedAgentsWereValidated, Validated
<1> QED
  BY <1>2, <1>3, <1>4 DEF RegistryPart

\* The fence a task is told, or the idle task, is of the task's type.
LEMMA TaskTypes ==
    ASSUME task \in [Tasks -> Task], job' \in [Jobs -> JobProjection],
           NEW t \in Tasks, NEW j \in Jobs, NEW phase \in Phase, Continue(t, j, phase)
    PROVE  task' \in [Tasks -> Task]
<1>1. Idle \in Task
  BY DEF Idle, Task, Phase
<1>2. [job |-> j, worker |-> process[t], expected_version |-> job'[j].version,
       lease_generation |-> job'[j].lease_generation, phase |-> phase] \in Task
  BY ValidationAssumption DEF Task, JobProjection
<1> QED
  BY <1>1, <1>2 DEF Continue

\* Every call of a worker task.
LEMMA WorkKeeps ==
    ASSUME ValidationInvariant, NEW t \in Tasks, NEW j \in Jobs, Work(t, j)
    PROVE  ValidationInvariant'
<1> USE DEF ValidationInvariant
<1>1. /\ task \in [Tasks -> Task] /\ now \in Nat /\ job[j] \in JobProjection
      /\ started_at[j] \in OptionTime /\ started_at \in [Jobs -> OptionTime]
      /\ dispatched[j] \in Nat /\ dispatched \in [Jobs -> Nat]
      /\ dispatched[j] = job[j].attempt_count /\ None \in OptionTime
      /\ job[j].state \in {"ready", "leased"} => started_at[j] = None
      /\ job[j].state # "ready" => Created(j)
  BY DEF TypeOK, JobPart, DispatchesAreAttempts, UnrequestedJobsAreFresh, OptionTime
<1>2. CASE claim_jobs(t, j)
  <2>1. PICK n : /\ job' = [job EXCEPT ![j] = n] /\ StoredJob(n)
                 /\ n.state = "leased" /\ n.attempt_count = job[j].attempt_count
    BY <1>2, ClaimEffect
  <2>2. /\ job[j].state \in {"ready", "retry_scheduled"} /\ Created(j)
        /\ started_at' = [started_at EXCEPT ![j] = None]
        /\ UNCHANGED <<registryVars, now, requested, dispatched>>
    BY <1>2, ClaimEffect DEF claim_jobs
  <2>3. /\ started_at' \in [Jobs -> OptionTime] /\ started_at'[j] = None
        /\ dispatched'[j] = n.attempt_count
        /\ \A i \in Jobs \ {j} : started_at'[i] = started_at[i] /\ dispatched'[i] = dispatched[i]
    BY <1>1, <2>1, <2>2
  <2>4. /\ job' \in [Jobs -> JobProjection] /\ JobPart'
        /\ \A document : Validated(document) => Validated(document)'
    BY <1>1, <2>1, <2>2, <2>3, JobMoves DEF registryVars
  <2>5. task' \in [Tasks -> Task]
    BY <1>1, <1>2, <2>4, TaskTypes DEF claim_jobs, Phase
  <2>6. RegistryPart'
    BY <2>2, <2>4, RegistryStands DEF registryVars
  <2> QED
    BY <2>2, <2>3, <2>4, <2>5, <2>6 DEF TypeOK, registryVars
<1>3. CASE start_job(t, j)
  <2>1. PICK n : /\ job' = [job EXCEPT ![j] = n] /\ StoredJob(n)
                 /\ n.state = "running" /\ n.attempt_count = job[j].attempt_count + 1
    BY <1>3, StartEffect
  <2>2. /\ job[j].state = "leased"
        /\ started_at' = [started_at EXCEPT ![j] = now]
        /\ dispatched' = [dispatched EXCEPT ![j] = dispatched[j] + 1]
        /\ UNCHANGED <<registryVars, now, requested>>
    BY <1>3, StartEffect
  <2>3. /\ started_at' \in [Jobs -> OptionTime] /\ dispatched' \in [Jobs -> Nat]
        /\ dispatched'[j] = n.attempt_count
        /\ \A i \in Jobs \ {j} : started_at'[i] = started_at[i] /\ dispatched'[i] = dispatched[i]
    BY <1>1, <2>1, <2>2 DEF OptionTime
  <2>4. /\ job' \in [Jobs -> JobProjection] /\ JobPart'
        /\ \A document : Validated(document) => Validated(document)'
    BY <1>1, <2>1, <2>2, <2>3, JobMoves DEF registryVars
  <2>5. task' \in [Tasks -> Task]
    BY <1>1, <1>3, <2>4, TaskTypes DEF start_job, Phase
  <2>6. RegistryPart'
    BY <2>2, <2>4, RegistryStands DEF registryVars
  <2> QED
    BY <2>2, <2>3, <2>4, <2>5, <2>6 DEF TypeOK, registryVars
<1>4. CASE heartbeat_job(t, j)
  <2>1. PICK n : /\ job' = [job EXCEPT ![j] = n] /\ StoredJob(n)
                 /\ n.state = job[j].state /\ n.attempt_count = job[j].attempt_count
    BY <1>4, HeartbeatEffect
  <2>2. /\ job[j].state \in {"leased", "running"}
        /\ UNCHANGED <<registryVars, now, requested, started_at, dispatched>>
    BY <1>4, HeartbeatEffect
  <2>3. dispatched'[j] = n.attempt_count
    BY <1>1, <2>1, <2>2
  <2>4. /\ job' \in [Jobs -> JobProjection] /\ JobPart'
        /\ \A document : Validated(document) => Validated(document)'
    BY <1>1, <2>1, <2>2, <2>3, JobMoves DEF registryVars
  <2>5. task' \in [Tasks -> Task]
    <3>1. AfterHeartbeat[task[t].phase] \in Phase
      BY <1>4 DEF heartbeat_job, AfterHeartbeat, Phase
    <3> QED
      BY <1>1, <1>4, <2>4, <3>1, TaskTypes DEF heartbeat_job
  <2>6. RegistryPart'
    BY <2>2, <2>4, RegistryStands DEF registryVars
  <2> QED
    BY <2>2, <2>3, <2>4, <2>5, <2>6 DEF TypeOK, registryVars
<1>5. CASE read_frozen_input(t, j)
  <2>1. UNCHANGED <<registryVars, now, requested, job, started_at, dispatched>>
    BY <1>5 DEF read_frozen_input
  <2>2. task' \in [Tasks -> Task]
    <3>1. AfterRead[task[t].phase] \in Phase
      BY <1>5 DEF read_frozen_input, AfterRead, Phase
    <3> QED
      BY <1>1, <1>5, <3>1 DEF read_frozen_input, Task
  <2>3. TypeOK'
    BY <2>1, <2>2 DEF TypeOK, registryVars
  <2>4. JobPart'
    BY <2>1 DEF JobPart, StoredJobs, JobsHaveReceipts, OneJobPerRequest,
                DispatchesAreAttempts, UnrequestedJobsAreFresh, Created, registryVars
  <2>5. RegistryPart'
    BY <2>1, RegistryStands DEF registryVars, Validated, Created
  <2> QED
    BY <2>3, <2>4, <2>5
<1>6. CASE commit_registry_validation(t, j)
  <2>1. PICK n : /\ job' = [job EXCEPT ![j] = n] /\ StoredJob(n)
                 /\ n.state = "succeeded" /\ n.attempt_count = job[j].attempt_count
    BY <1>6, CommitEffect
  <2>2. /\ job[j].state = "running" /\ AtFrozenDraft(j)
        /\ resource' = [resource EXCEPT !.validation = resource.document,
                                        !.version = resource.version + 1]
        /\ UNCHANGED <<published, deployments, receipts, now, requested, started_at, dispatched>>
    BY <1>6, CommitEffect
  <2>3. dispatched'[j] = n.attempt_count
    BY <1>1, <2>1, <2>2
  <2>4. /\ job' \in [Jobs -> JobProjection] /\ JobPart'
        /\ \A document : Validated(document) => Validated(document)'
    BY <1>1, <2>1, <2>2, <2>3, JobMoves
  <2>5. task' \in [Tasks -> Task]
    BY <1>1, <1>6 DEF commit_registry_validation, Idle, Task, Phase
  <2>6. /\ resource' \in Resource /\ resource'.document = resource.document
        /\ resource'.validation = resource.document /\ resource'.active = resource.active
        /\ resource'.lifecycle = resource.lifecycle
    <3>1. resource \in Resource
      BY DEF TypeOK
    <3>2. resource.version + 1 \in Nat
      BY <3>1 DEF Resource
    <3> QED
      BY <2>2, <3>1, <3>2 DEF Resource
  <2>7. TypeOK'
    BY <2>2, <2>4, <2>5, <2>6 DEF TypeOK
  <2>8. resource.document # NoDocument => Validated(resource.document)'
    <3> SUFFICES ASSUME resource.document # NoDocument
                 PROVE  Validated(resource.document)'
      OBVIOUS
    <3>1. job'[j].state = "succeeded"
      BY <2>1 DEF TypeOK
    <3>2. Created(j)' /\ requested'[j].draft_digest = resource.document
      BY <2>2 DEF AtFrozenDraft, Created, NoPayload
    <3> QED
      BY <2>2, <3>1, <3>2 DEF Validated
  <2>9. RegistryPart'
    <3>1. ValidationMatchesDraft' /\ DeploymentsArePublished' /\ ActiveTargetIsPublished'
      BY <2>2, <2>6 DEF RegistryPart, ValidationMatchesDraft, DeploymentsArePublished,
                        ActiveTargetIsPublished
    <3>2. SummaryIsBacked'
      BY <2>6, <2>8 DEF SummaryIsBacked
    <3>3. PublishedAgentsWereValidated'
      <4>1. IsAgent => \A v \in published : Validated(v.document)
        BY DEF RegistryPart, PublishedAgentsWereValidated, Validated
      <4>2. IsAgent => \A v \in published' : Validated(v.document)'
        BY <2>2, <2>4, <4>1
      <4> QED
        BY <4>2 DEF PublishedAgentsWereValidated, Validated
    <3> QED
      BY <3>1, <3>2, <3>3 DEF RegistryPart
  <2> QED
    BY <2>4, <2>7, <2>9
<1> QED
  BY <1>2, <1>3, <1>4, <1>5, <1>6 DEF Work

\* A command that changes the Resource row alone, and at most drops its summary,
\* repeats its document in it, or follows its deployments with the active target.
LEMMA RowCommand ==
    ASSUME ValidationInvariant, UNCHANGED <<published, deployments, requested, job>>,
           resource'.validation \in {NoDocument, resource.validation}
             \/ (~IsAgent /\ resource'.validation = resource'.document),
           resource'.validation = NoDocument \/ resource'.document = resource.document,
           \/ resource'.active \in {NoId, resource.active}
           \/ \E v \in published :
                 \/ ~TargetsDeployment /\ v.id = resource'.active
                 \/ \E d \in deployments : d.id = resource'.active /\ d.version = v.id
    PROVE  RegistryPart'
<1>1. RegistryPart
  BY DEF ValidationInvariant
<1>2. ValidationMatchesDraft'
  BY <1>1 DEF RegistryPart, ValidationMatchesDraft
<1>3. SummaryIsBacked'
  BY <1>1 DEF RegistryPart, SummaryIsBacked, Validated, Created
<1>4. PublishedAgentsWereValidated' /\ DeploymentsArePublished'
  BY <1>1 DEF RegistryPart, PublishedAgentsWereValidated, DeploymentsArePublished, Created
<1>5. ActiveTargetIsPublished'
  BY <1>1 DEF RegistryPart, ActiveTargetIsPublished
<1> QED
  BY <1>2, <1>3, <1>4, <1>5 DEF RegistryPart

\* Every client command other than a validation request.
LEMMA CommandKeeps ==
    ASSUME ValidationInvariant, Command
    PROVE  ValidationInvariant'
<1> DEFINE Row == resource' \in Resource /\ RegistryPart'
                  /\ published' \subseteq PublishedVersion /\ deployments' \subseteq Deployment
<1>1. /\ UNCHANGED <<now, requested, job, started_at, task, dispatched>>
      /\ resource \in Resource /\ published \subseteq PublishedVersion
      /\ deployments \subseteq Deployment /\ receipts \subseteq Operation \X RequestKeys
      /\ RegistryPart
  BY DEF Command, validationVars, ValidationInvariant, TypeOK
<1>2. PICK key \in Keys :
        \/ \E document \in Documents : create_resource_draft(key, document)
        \/ \E version \in 1..MaxVersion :
              \/ \E document \in Documents :
                    \/ update_resource_draft(key, version, document)
                    \/ record_resource_validation(key, version, document)
                    \/ publish_resource_versions(key, version, document)
              \/ \E target \in Keys :
                    \/ create_deployment(key, version, target)
                    \/ activate_resource(key, version, target)
                    \/ suspend_resource_deployment(key, version, target)
              \/ \E target \in Lifecycle :
                    transition_resource_lifecycle(key, version, target)
              \/ \E target \in Gate : set_resource_gate(key, version, target)
  BY DEF Command, RegistryCommand
<1>3. key \in RequestKeys
  BY ValidationAssumption
<1>4. receipts \subseteq receipts' /\ receipts' \subseteq Operation \X RequestKeys
  <2>1. \E operation \in Operation : claim_command_receipt(operation, key)
    BY <1>2 DEF create_resource_draft, update_resource_draft, record_resource_validation,
       publish_resource_versions, create_deployment, activate_resource,
       suspend_resource_deployment, transition_resource_lifecycle, set_resource_gate, Operation
  <2> QED
    BY <1>1, <1>3, <2>1 DEF claim_command_receipt
<1>5. ASSUME NEW document \in Documents, create_resource_draft(key, document)
      PROVE  Row
  <2>1. resource' \in Resource
    BY <1>5 DEF create_resource_draft, Resource, Lifecycle, Gate
  <2>2. RegistryPart'
    BY <1>1, <1>5, RowCommand DEF create_resource_draft
  <2> QED
    BY <1>1, <1>5, <2>1, <2>2 DEF create_resource_draft
<1>6. ASSUME NEW version \in 1..MaxVersion
      PROVE  version + 1 \in Nat
  BY <1>6, RegistryAssumption
<1>7. ASSUME NEW version \in 1..MaxVersion, NEW document \in Documents,
             update_resource_draft(key, version, document)
      PROVE  Row
  <2>1. resource' \in Resource /\ UNCHANGED <<published, deployments>>
    BY <1>1, <1>6, <1>7 DEF update_resource_draft, Resource, Gate
  <2>2. /\ resource'.validation = NoDocument /\ resource'.active = resource.active
    BY <1>1, <1>7 DEF update_resource_draft, AtVersion, Resource
  <2>3. RegistryPart'
    BY <1>1, <2>1, <2>2, RowCommand
  <2> QED
    BY <1>1, <2>1, <2>3
<1>8. ASSUME NEW version \in 1..MaxVersion, NEW document \in Documents,
             record_resource_validation(key, version, document)
      PROVE  Row
  <2>1. resource' \in Resource /\ UNCHANGED <<published, deployments>>
    BY <1>1, <1>6, <1>8 DEF record_resource_validation, Resource, Gate
  <2>2. /\ ~IsAgent /\ resource'.validation = resource'.document
        /\ resource'.document = resource.document /\ resource'.active = resource.active
    BY <1>1, <1>8 DEF record_resource_validation, AtVersion, Resource
  <2>3. RegistryPart'
    BY <1>1, <2>1, <2>2, RowCommand
  <2> QED
    BY <1>1, <2>1, <2>3
<1>9. ASSUME NEW version \in 1..MaxVersion, NEW target \in Keys,
             activate_resource(key, version, target)
      PROVE  Row
  <2>1. resource' \in Resource /\ UNCHANGED <<published, deployments>>
    BY <1>1, <1>6, <1>9 DEF activate_resource, Resource, Gate
  <2>2. /\ resource'.validation = resource.validation /\ resource'.document = resource.document
        /\ resource'.active = target
    BY <1>1, <1>9 DEF activate_resource, Resource
  <2>3. \E v \in published :
           \/ ~TargetsDeployment /\ v.id = target
           \/ \E d \in deployments : d.id = target /\ d.version = v.id
    BY <1>1, <1>9 DEF activate_resource, resolve_activation_target, RegistryPart, DeploymentsArePublished
  <2>4. RegistryPart'
    BY <1>1, <2>1, <2>2, <2>3, RowCommand
  <2> QED
    BY <1>1, <2>1, <2>4
<1>10. ASSUME NEW version \in 1..MaxVersion, NEW target \in Keys,
             suspend_resource_deployment(key, version, target)
      PROVE  Row
  <2>1. resource' \in Resource /\ UNCHANGED <<published, deployments>>
    BY <1>1, <1>6, <1>10 DEF suspend_resource_deployment, Resource, Gate
  <2>2. /\ resource'.validation = resource.validation /\ resource'.document = resource.document
        /\ resource'.active = resource.active
    BY <1>1, <1>10 DEF suspend_resource_deployment, AtVersion, Resource
  <2>3. RegistryPart'
    BY <1>1, <2>1, <2>2, RowCommand
  <2> QED
    BY <1>1, <2>1, <2>3
<1>11. ASSUME NEW version \in 1..MaxVersion, NEW target \in Lifecycle,
             transition_resource_lifecycle(key, version, target)
      PROVE  Row
  <2>1. resource' \in Resource /\ UNCHANGED <<published, deployments>>
    BY <1>1, <1>6, <1>11 DEF transition_resource_lifecycle, Resource, Gate
  <2>2. /\ resource'.validation = resource.validation /\ resource'.document = resource.document
        /\ resource'.active = resource.active
    BY <1>1, <1>11 DEF transition_resource_lifecycle, AtVersion, Resource
  <2>3. RegistryPart'
    BY <1>1, <2>1, <2>2, RowCommand
  <2> QED
    BY <1>1, <2>1, <2>3
<1>12. ASSUME NEW version \in 1..MaxVersion, NEW target \in Gate,
             set_resource_gate(key, version, target)
      PROVE  Row
  <2>1. resource' \in Resource /\ UNCHANGED <<published, deployments>>
    BY <1>1, <1>6, <1>12 DEF set_resource_gate, Resource, Gate
  <2>2. /\ resource'.validation = resource.validation /\ resource'.document = resource.document
        /\ resource'.active = resource.active
    BY <1>1, <1>12 DEF set_resource_gate, AtVersion, Resource
  <2>3. RegistryPart'
    BY <1>1, <2>1, <2>2, RowCommand
  <2> QED
    BY <1>1, <2>1, <2>3
<1>13. ASSUME NEW version \in 1..MaxVersion, NEW document \in Documents,
             publish_resource_versions(key, version, document)
      PROVE  Row
  <2> DEFINE new == [id |-> key, document |-> document, validation |-> resource.validation]
  <2>1. /\ published' = published \cup {new} /\ UNCHANGED deployments
        /\ resource.validation = document
    BY <1>13 DEF publish_resource_versions
  <2>2. resource' \in Resource
    BY <1>1, <1>6, <1>13 DEF publish_resource_versions, Resource
  <2>3. /\ resource'.validation = resource.validation /\ resource'.document = resource.document
        /\ resource'.active = resource.active
    BY <1>1, <1>13 DEF publish_resource_versions, Resource
  <2>4. new \in PublishedVersion /\ new.document = resource.validation
    BY <2>1 DEF PublishedVersion
  <2>5. IsAgent => Validated(resource.validation)
    <3>1. document # NoDocument
      BY RegistryAssumption
    <3> QED
      BY <1>1, <2>1, <3>1 DEF RegistryPart, SummaryIsBacked
  <2> HIDE DEF new
  <2>6. PublishedAgentsWereValidated'
    <3>1. IsAgent => \A v \in published : Validated(v.document)
      BY <1>1 DEF RegistryPart, PublishedAgentsWereValidated, Validated
    <3>2. IsAgent => \A v \in published' : Validated(v.document)
      BY <2>1, <2>4, <2>5, <3>1
    <3> QED
      BY <1>1, <3>2 DEF PublishedAgentsWereValidated, Validated, Created
  <2>7. SummaryIsBacked' /\ ValidationMatchesDraft'
    BY <1>1, <2>3 DEF RegistryPart, SummaryIsBacked, ValidationMatchesDraft, Validated, Created
  <2>8. DeploymentsArePublished' /\ ActiveTargetIsPublished'
    BY <1>1, <2>1, <2>3 DEF RegistryPart, DeploymentsArePublished, ActiveTargetIsPublished
  <2> QED
    BY <1>1, <2>1, <2>2, <2>4, <2>6, <2>7, <2>8 DEF RegistryPart
<1>14. ASSUME NEW version \in 1..MaxVersion, NEW target \in Keys,
              create_deployment(key, version, target)
      PROVE  Row
  <2> DEFINE new == [id |-> key, version |-> target]
  <2>1. /\ deployments' = deployments \cup {new} /\ UNCHANGED published
        /\ \E v \in published : v.id = target
    BY <1>14 DEF create_deployment
  <2>2. resource' \in Resource
    BY <1>1, <1>6, <1>14 DEF create_deployment, Resource
  <2>3. /\ resource'.validation = resource.validation /\ resource'.document = resource.document
        /\ resource'.active = resource.active
    BY <1>1, <1>14 DEF create_deployment, Resource
  <2>4. new \in Deployment /\ new.version = target
    BY DEF Deployment
  <2> HIDE DEF new
  <2>5. SummaryIsBacked' /\ ValidationMatchesDraft' /\ PublishedAgentsWereValidated'
    BY <1>1, <2>1, <2>3 DEF RegistryPart, SummaryIsBacked, ValidationMatchesDraft, Validated,
                            Created, PublishedAgentsWereValidated
  <2>6. DeploymentsArePublished' /\ ActiveTargetIsPublished'
    BY <1>1, <2>1, <2>3, <2>4 DEF RegistryPart, DeploymentsArePublished, ActiveTargetIsPublished
  <2> QED
    BY <1>1, <2>1, <2>2, <2>4, <2>5, <2>6 DEF RegistryPart
<1>15. Row
  BY <1>2, <1>5, <1>7, <1>8, <1>9, <1>10, <1>11, <1>12, <1>13, <1>14
<1>16. JobPart'
  BY <1>1, <1>4 DEF ValidationInvariant, JobPart, StoredJobs, JobsHaveReceipts,
                    OneJobPerRequest, DispatchesAreAttempts, UnrequestedJobsAreFresh, Created
<1> QED
  BY <1>1, <1>4, <1>15, <1>16 DEF ValidationInvariant, TypeOK

\* A request creates a Job under a Receipt that no other Job has.
LEMMA RequestKeeps ==
    ASSUME ValidationInvariant, Request
    PROVE  ValidationInvariant'
<1> USE DEF ValidationInvariant
<1>1. PICK j \in Jobs, key \in RequestKeys, version \in 1..MaxVersion :
        request_resource_validation(j, key, version)
  BY DEF Request
<1> DEFINE payload == [key |-> key, expected_resource_version |-> version,
                       draft_digest |-> resource.document]
           new == NewJob(now, now + TimeToDeadline)
<1>2. /\ <<"validate", key>> \notin receipts /\ receipts' = receipts \cup {<<"validate", key>>}
      /\ ~Created(j)
      /\ requested' = [requested EXCEPT ![j] = payload] /\ job' = [job EXCEPT ![j] = new]
      /\ UNCHANGED <<resource, published, deployments, now, started_at, task, dispatched>>
  BY <1>1 DEF request_resource_validation, claim_command_receipt
<1>3. /\ StoredJob(new) /\ new.state = "ready" /\ new.attempt_count = 0
  <2>1. now \in Nat /\ now + TimeToDeadline \in Nat /\ now <= now + TimeToDeadline
    BY ValidationAssumption DEF TypeOK
  <2> QED
    BY <2>1, NewJobStored
<1>4. payload \in Payload /\ payload.key = key
  BY RegistryAssumption DEF Payload, TypeOK, Resource
<1> HIDE DEF payload, new
<1>5. /\ requested \in [Jobs -> Payload] /\ job \in [Jobs -> JobProjection]
      /\ new \in JobProjection
  BY <1>3 DEF TypeOK, StoredJob
<1>6. \A i \in Jobs : /\ i # j => requested'[i] = requested[i] /\ job'[i] = job[i]
                      /\ i = j => requested'[i] = payload /\ job'[i] = new
  BY <1>2, <1>5
<1>7. TypeOK'
  <2>1. receipts' \subseteq Operation \X RequestKeys
    BY <1>2 DEF TypeOK, Operation
  <2>2. requested' \in [Jobs -> Payload] /\ job' \in [Jobs -> JobProjection]
    BY <1>2, <1>4, <1>5
  <2> QED
    BY <1>2, <2>1, <2>2 DEF TypeOK
<1>8. RegistryPart'
  <2>1. \A document : Validated(document) => Validated(document)'
    BY <1>2, <1>6 DEF Validated, Created
  <2> QED
    BY <1>2, <2>1, RegistryStands
<1>9. StoredJobs'
  BY <1>3, <1>6 DEF StoredJobs, JobPart, StoredJob
<1>10. JobsHaveReceipts' /\ OneJobPerRequest'
  BY <1>2, <1>4, <1>6 DEF JobsHaveReceipts, OneJobPerRequest, JobPart, Created
<1>11. DispatchesAreAttempts'
  <2>1. dispatched[j] = 0 /\ started_at[j] = None
    BY <1>2 DEF JobPart, DispatchesAreAttempts, UnrequestedJobsAreFresh
  <2> QED
    BY <1>2, <1>3, <1>6, <2>1 DEF DispatchesAreAttempts, JobPart
<1>12. UnrequestedJobsAreFresh'
  BY <1>2, <1>3, <1>6 DEF UnrequestedJobsAreFresh, JobPart, Created
<1> QED
  BY <1>7, <1>8, <1>9, <1>10, <1>11, <1>12 DEF JobPart

\* The scan for expired leases.
LEMMA RecoverKeeps ==
    ASSUME ValidationInvariant, NEW j \in Jobs, recover_expired_registry_validation_jobs(j)
    PROVE  ValidationInvariant'
<1> USE DEF ValidationInvariant
<1>1. /\ started_at \in [Jobs -> OptionTime] /\ dispatched \in [Jobs -> Nat]
      /\ dispatched[j] = job[j].attempt_count
      /\ job[j].state \in {"ready", "leased"} => started_at[j] = None
      /\ Created(j)
  BY DEF TypeOK, JobPart, DispatchesAreAttempts, recover_expired_registry_validation_jobs
<1>2. PICK n : /\ job' = [job EXCEPT ![j] = n] /\ StoredJob(n)
               /\ n.state \in {"ready", "retry_scheduled", "failed", "timed_out"}
               /\ n.state = "ready" => job[j].state = "leased"
               /\ n.attempt_count = job[j].attempt_count
  BY RecoverEffect
<1>3. /\ job[j].state \in {"leased", "running"}
      /\ UNCHANGED <<registryVars, now, requested, started_at, task, dispatched>>
  BY RecoverEffect
<1>4. /\ job' \in [Jobs -> JobProjection] /\ JobPart'
      /\ \A document : Validated(document) => Validated(document)'
  BY <1>1, <1>2, <1>3, JobMoves DEF registryVars
<1>5. RegistryPart'
  BY <1>3, <1>4, RegistryStands DEF registryVars
<1> QED
  BY <1>3, <1>4, <1>5 DEF TypeOK, registryVars

\* Time, an abandoned claim and stuttering disturb nothing the invariant speaks of.
LEMMA QuietKeeps ==
    ASSUME ValidationInvariant,
           UNCHANGED <<registryVars, requested, job, started_at, dispatched>>,
           now' \in Nat, task' \in [Tasks -> Task]
    PROVE  ValidationInvariant'
<1>1. TypeOK'
  BY DEF ValidationInvariant, TypeOK, registryVars
<1>2. JobPart'
  BY DEF ValidationInvariant, JobPart, StoredJobs, JobsHaveReceipts, OneJobPerRequest,
         DispatchesAreAttempts, UnrequestedJobsAreFresh, Created, registryVars
<1>3. RegistryPart'
  BY RegistryStands DEF registryVars, Validated, Created
<1> QED
  BY <1>1, <1>2, <1>3 DEF ValidationInvariant

\* Every command, worker step and expiry keeps the invariant.
LEMMA NextKeeps ==
    ASSUME ValidationInvariant, [Next]_vars
    PROVE  ValidationInvariant'
<1>1. now \in Nat /\ task \in [Tasks -> Task] /\ Idle \in Task
  BY DEF ValidationInvariant, TypeOK, Idle, Task, Phase
<1>2. CASE Tick
  <2>1. now' \in Nat /\ task' = task
        /\ UNCHANGED <<registryVars, requested, job, started_at, dispatched>>
    BY <1>1, <1>2 DEF Tick
  <2> QED
    BY <1>1, <2>1, QuietKeeps
<1>3. ASSUME NEW t \in Tasks, Abandon(t) PROVE ValidationInvariant'
  <2>1. task' \in [Tasks -> Task] /\ now' = now
        /\ UNCHANGED <<registryVars, requested, job, started_at, dispatched>>
    BY <1>1, <1>3 DEF Abandon
  <2> QED
    BY <1>1, <2>1, QuietKeeps
<1>4. CASE UNCHANGED vars
  BY <1>1, <1>4, QuietKeeps DEF vars, validationVars, registryVars
<1> QED
  BY <1>2, <1>3, <1>4, CommandKeeps, RequestKeeps, WorkKeeps, RecoverKeeps DEF Next

-----------------------------------------------------------------------------
(* Theorems.                                                               *)

\* The invariant of the Registry and its validation Jobs holds in every reachable state.
THEOREM ValidationInvariantHolds == Spec => []ValidationInvariant
<1>1. Init => ValidationInvariant
  <2> SUFFICES ASSUME Init PROVE ValidationInvariant
    OBVIOUS
  <2>1. /\ resource = Absent /\ published = {} /\ deployments = {} /\ receipts = {}
        /\ now = 0 /\ requested = [j \in Jobs |-> NoPayload]
        /\ job = [j \in Jobs |-> NewJob(0, TimeToDeadline)]
        /\ started_at = [j \in Jobs |-> None] /\ task = [t \in Tasks |-> Idle]
        /\ dispatched = [j \in Jobs |-> 0]
    BY DEF Init, RegistryInit
  <2>2. /\ StoredJob(NewJob(0, TimeToDeadline))
        /\ NewJob(0, TimeToDeadline).attempt_count = 0
        /\ NewJob(0, TimeToDeadline).state = "ready"
    BY ValidationAssumption, NewJobStored
  <2>3. /\ Absent \in Resource /\ Absent.validation = NoDocument /\ Absent.active = NoId
        /\ NoPayload \in Payload /\ Idle \in Task /\ None \in OptionTime
    BY DEF Absent, Resource, Lifecycle, Gate, NoPayload, Payload, Idle, Task, Phase, OptionTime
  <2>4. TypeOK
    BY <2>1, <2>2, <2>3 DEF TypeOK, StoredJob
  <2>5. RegistryPart
    BY <2>1, <2>3 DEF RegistryPart, ValidationMatchesDraft, SummaryIsBacked,
       PublishedAgentsWereValidated, DeploymentsArePublished, ActiveTargetIsPublished
  <2>6. JobPart
    BY <2>1, <2>2 DEF JobPart, StoredJobs, JobsHaveReceipts, OneJobPerRequest,
       DispatchesAreAttempts, UnrequestedJobsAreFresh, Created
  <2> QED
    BY <2>4, <2>5, <2>6 DEF ValidationInvariant
<1>2. ValidationInvariant /\ [Next]_vars => ValidationInvariant'
  BY NextKeeps
<1> QED
  BY <1>1, <1>2, PTL DEF Spec

\* The variables of the Registry and its workers keep their types.
THEOREM ValidationTypes == Spec => []TypeOK
<1>1. ValidationInvariant => TypeOK
  BY DEF ValidationInvariant
<1> QED
  BY <1>1, ValidationInvariantHolds, PTL

\* The stored summary is about the stored document, however edits, retries and late
\* commits interleave: a commit re-reads the draft it was asked about.
THEOREM SummariesMatchDrafts == Spec => []ValidationMatchesDraft
<1>1. ValidationInvariant => ValidationMatchesDraft
  BY DEF ValidationInvariant, RegistryPart
<1> QED
  BY <1>1, ValidationInvariantHolds, PTL

\* Whatever is published of an Agent was accepted by a validation Job that succeeded.
THEOREM PublicationNeedsValidation == Spec => []PublishedAgentsWereValidated
<1>1. ValidationInvariant => PublishedAgentsWereValidated
  BY DEF ValidationInvariant, RegistryPart
<1> QED
  BY <1>1, ValidationInvariantHolds, PTL

\* Activation never points outside the published versions, directly or through a deployment.
THEOREM ActivationFollowsPublication == Spec => []ActiveTargetIsPublished
<1>1. ValidationInvariant => ActiveTargetIsPublished
  BY DEF ValidationInvariant, RegistryPart
<1> QED
  BY <1>1, ValidationInvariantHolds, PTL

\* However often a request is delivered, the command Receipt lets it create one Job.
THEOREM RequestsCreateOneJob == Spec => []OneJobPerRequest
<1>1. ValidationInvariant => OneJobPerRequest
  BY DEF ValidationInvariant, JobPart
<1> QED
  BY <1>1, ValidationInvariantHolds, PTL

\* started_at stays in step with the attempts: no worker runs a Job beyond its limit.
THEOREM DispatchesAreLimited == Spec => []DispatchesWithinLimit
<1>1. ValidationInvariant => DispatchesWithinLimit
  BY DEF ValidationInvariant, JobPart, StoredJobs, StoredJob, validate, DispatchesAreAttempts,
         DispatchesWithinLimit
<1> QED
  BY <1>1, ValidationInvariantHolds, PTL

\* No command, late commit or recovery leaves a trace on a retired Resource: every
\* writer reads the lifecycle in the transaction that writes.
THEOREM RetirementIsFinal == Spec => RetiredIsFrozen
<1> DEFINE Frozen == /\ resource' = [resource EXCEPT !.gate = resource'.gate,
                                                     !.version = resource'.version]
                     /\ published' = published /\ deployments' = deployments
<1>1. ASSUME TypeOK, [Next]_vars, resource.lifecycle = "retired"
      PROVE  Frozen
  <2> USE <1>1
  <2>1. resource \in Resource
    BY DEF TypeOK
  <2>2. UNCHANGED <<resource, published, deployments>> => Frozen
    BY <2>1 DEF Resource
  <2>3. CASE Command
    <3>1. PICK key \in Keys :
            \/ \E document \in Documents : create_resource_draft(key, document)
            \/ \E version \in 1..MaxVersion :
                  \/ \E document \in Documents :
                        \/ update_resource_draft(key, version, document)
                        \/ record_resource_validation(key, version, document)
                        \/ publish_resource_versions(key, version, document)
                  \/ \E target \in Keys :
                        \/ create_deployment(key, version, target)
                        \/ activate_resource(key, version, target)
                        \/ suspend_resource_deployment(key, version, target)
                  \/ \E target \in Lifecycle :
                        transition_resource_lifecycle(key, version, target)
                  \/ \E target \in Gate : set_resource_gate(key, version, target)
      BY <2>3 DEF Command, RegistryCommand
    <3>2. PICK version \in 1..MaxVersion, target \in Gate : set_resource_gate(key, version, target)
      BY <3>1 DEF create_resource_draft, Absent, update_resource_draft,
         record_resource_validation, publish_resource_versions, create_deployment,
         activate_resource, suspend_resource_deployment, transition_resource_lifecycle,
         LifecycleTransitions
    <3> QED
      BY <2>1, <3>2 DEF set_resource_gate, Resource
  <2>4. ASSUME NEW t \in Tasks, NEW j \in Jobs, Work(t, j)
        PROVE  UNCHANGED <<resource, published, deployments>>
    BY <2>4 DEF Work, claim_jobs, start_job, read_frozen_input, heartbeat_job,
                commit_registry_validation, AtFrozenDraft, registryVars
  <2>5. CASE Request
    BY <2>2, <2>5 DEF Request, request_resource_validation
  <2>6. CASE Tick \/ (\E t \in Tasks : Abandon(t))
             \/ (\E j \in Jobs : recover_expired_registry_validation_jobs(j))
             \/ UNCHANGED vars
    BY <2>2, <2>6 DEF Tick, Abandon, recover_expired_registry_validation_jobs, vars,
                      registryVars
  <2> QED
    BY <2>2, <2>3, <2>4, <2>5, <2>6 DEF Next
<1>2. TypeOK /\ [Next]_vars => [resource.lifecycle = "retired" => Frozen]_vars
  BY <1>1
<1> QED
  BY <1>2, ValidationTypes, PTL DEF Spec, RetiredIsFrozen
=============================================================================
