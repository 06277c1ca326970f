-------------------------- MODULE RegistryValidation --------------------------
(***************************************************************************)
(* Validation of a Resource draft as durable work: the client's request    *)
(* creates a registry_validation Job; worker tasks claim it, start it,     *)
(* read the frozen inputs under their lease, compile, and commit the       *)
(* validation summary together with the Job's success; expired leases are  *)
(* recovered by the scan every worker runs first.  Composes the Registry   *)
(* commands with the decisions of JobDecisions as the PostgreSQL           *)
(* repository calls them: each repository method is one transaction and    *)
(* one action.  A worker abandons its claim on any error, and may stop or  *)
(* lose a reply between any two calls; nothing but the lease is left       *)
(* behind.                                                                 *)
(*                                                                         *)
(* Abstracted: which of the claimable Jobs a scan is handed (partition     *)
(* admission); the compiler, which succeeds or makes the task abandon; the *)
(* commit Receipt, whose key the worker draws afresh for every commit.     *)
(***************************************************************************)
EXTENDS Registry, JobDecisions

CONSTANTS RequestKeys,     \* idempotency keys of validation requests
          Jobs,            \* job identities the server may draw
          Tasks,           \* execute_claim tasks
          process,         \* process[t]: the worker process generation of task t
          NoJob,           \* an idle task's job
          AttemptLimit,    \* attempt_limit of a request
          TimeToDeadline,  \* how far ahead of the request its deadline is
          Lease,           \* lease_milliseconds
          Backoff,         \* retry_backoff_milliseconds
          MaxTime          \* the clock stops here

ASSUME ValidationAssumption ==
    /\ NoJob \notin Jobs
    /\ Keys \subseteq RequestKeys /\ NoId \notin RequestKeys
    /\ process \in [Tasks -> Workers]
    /\ AttemptLimit \in Nat \ {0}
    /\ TimeToDeadline \in Nat \ {0}
    /\ Lease \in Nat \ {0}
    /\ Backoff \in Nat \ {0}
    /\ MaxTime \in Nat

VARIABLES now,         \* the database clock
          requested,   \* requested[j]: the payload of the Job, NoPayload before it exists
          job,         \* job[j]: the stored projection
          started_at,  \* started_at[j]: the column beside the projection
          task,        \* task[t]: the fence and the progress of a worker task
          dispatched   \* history: dispatched[j], how often a worker was let run j

validationVars == <<now, requested, job, started_at, task, dispatched>>
vars == <<registryVars, validationVars>>

NoPayload == [key |-> NoId, expected_resource_version |-> 0, draft_digest |-> NoDocument]
Payload == [key : RequestKeys \cup {NoId}, expected_resource_version : Nat,
            draft_digest : Documents \cup {NoDocument}]

Created(j) == requested[j] # NoPayload

\* Mutant: the Job is scheduled before the moment it is created.
new_job_scheduled_early(created_at, deadline) ==
    [state |-> "ready", version |-> 1, attempt_count |-> 0, attempt_limit |-> AttemptLimit,
     lease_generation |-> 0, lease |-> NoLease, scheduled_at |-> created_at - 1,
     retry_at |-> None, wake |-> NoWake, deadline |-> deadline]

NewJob(created_at, deadline) ==
    [state |-> "ready", version |-> 1, attempt_count |-> 0, attempt_limit |-> AttemptLimit,
     lease_generation |-> 0, lease |-> NoLease, scheduled_at |-> created_at,
     retry_at |-> None, wake |-> NoWake, deadline |-> deadline]

\* The progress of execute_claim: what the task has to do next.
Phase == {"idle", "start", "read_source", "keep_source", "read_plan", "keep_plan",
          "read_document", "keep_compiled", "commit"}

Idle == [job |-> NoJob, worker |-> NoWorker, expected_version |-> 0,
         lease_generation |-> 0, phase |-> "idle"]
Task == [job : Jobs \cup {NoJob}, worker : Workers \cup {NoWorker},
         expected_version : Nat, lease_generation : Nat, phase : Phase]

\* Each heartbeat follows the read it protects.
AfterRead == [read_source |-> "keep_source", read_plan |-> "keep_plan",
              read_document |-> "keep_compiled"]
AfterHeartbeat == [keep_source |-> "read_plan", keep_plan |-> "read_document",
                   keep_compiled |-> "commit"]

Init ==
    /\ RegistryInit
    /\ now = 0
    /\ requested = [j \in Jobs |-> NoPayload]
    /\ job = [j \in Jobs |-> NewJob(0, TimeToDeadline)]
    /\ started_at = [j \in Jobs |-> None]
    /\ task = [t \in Tasks |-> Idle]
    /\ dispatched = [j \in Jobs |-> 0]

Tick ==
    /\ now < MaxTime
    /\ now' = now + 1
    /\ UNCHANGED <<registryVars, requested, job, started_at, task, dispatched>>

\* A client command other than a validation request.
Command == RegistryCommand /\ UNCHANGED validationVars

-----------------------------------------------------------------------------
(* The request freezes the draft it is about.                              *)

request_resource_validation(j, key, expected_version) ==
    /\ claim_command_receipt("validate", key)
    /\ resource.lifecycle \notin {"absent", "retired"}
    /\ resource.version = expected_version
    /\ ~Created(j)
    /\ requested' = [requested EXCEPT ![j] =
                        [key |-> key, expected_resource_version |-> expected_version,
                         draft_digest |-> resource.document]]
    /\ job' = [job EXCEPT ![j] = NewJob(now, now + TimeToDeadline)]
    /\ UNCHANGED <<resource, published, deployments, now, started_at, task, dispatched>>

-----------------------------------------------------------------------------
(* The worker.                                                             *)

has_started_worker_attempt(j) == started_at[j] # None /\ job[j].attempt_count > 0

\* The reply of a fenced call: the task goes on under the new version, or has
\* lost the reply, or stopped, and is idle.
Continue(t, j, phase) ==
    \/ task' = [task EXCEPT ![t] = [job |-> j, worker |-> process[t],
                                    expected_version |-> job'[j].version,
                                    lease_generation |-> job'[j].lease_generation,
                                    phase |-> phase]]
    \/ task' = [task EXCEPT ![t] = Idle]

\* Mutant: a retry is claimed with the started_at of the attempt before.
started_at_kept(j) == started_at[j]

\* Claiming a scheduled retry forgets when the failed attempt started.
started_at_after_claim(j) ==
    IF job[j].state = "retry_scheduled" THEN None ELSE started_at[j]

claim_jobs(t, j) ==
    /\ task[t] = Idle
    /\ Created(j)
    /\ \E n \in IF job[j].state = "ready" /\ has_started_worker_attempt(j)
                THEN decide_claim_continuation(job[j], now, process[t], Lease)
                ELSE decide_claim(job[j], now, process[t], Lease) :
          job' = [job EXCEPT ![j] = n]
    /\ started_at' = [started_at EXCEPT ![j] = started_at_after_claim(j)]
    /\ Continue(t, j, "start")
    /\ UNCHANGED <<registryVars, now, requested, dispatched>>

start_job(t, j) ==
    /\ task[t].phase = "start" /\ task[t].job = j
    /\ \E n \in IF has_started_worker_attempt(j)
                THEN decide_resume(job[j], task[t], now)
                ELSE decide_start(job[j], task[t], now) :
          job' = [job EXCEPT ![j] = n]
    /\ started_at' = [started_at EXCEPT ![j] = IF @ = None THEN now ELSE @]
    /\ dispatched' = [dispatched EXCEPT ![j] = @ + 1]
    /\ Continue(t, j, IF IsAgent THEN "read_source" ELSE "commit")
    /\ UNCHANGED <<registryVars, now, requested>>

\* The draft is still the frozen one, and not retired.
AtFrozenDraft(j) ==
    /\ resource.version = requested[j].expected_resource_version
    /\ resource.document = requested[j].draft_digest
    /\ resource.lifecycle # "retired"

require_exact_running_job_fence(j, fence) ==
    job[j].state = "running" /\ validate_fence(job[j], fence, now)

\* registry_validation_document, behind each artifact read and the document read.
read_frozen_input(t, j) ==
    /\ task[t].phase \in DOMAIN AfterRead /\ task[t].job = j
    /\ require_exact_running_job_fence(j, task[t])
    /\ AtFrozenDraft(j)
    /\ task' = [task EXCEPT ![t].phase = AfterRead[@]]
    /\ UNCHANGED <<registryVars, now, requested, job, started_at, dispatched>>

heartbeat_job(t, j) ==
    /\ task[t].phase \in DOMAIN AfterHeartbeat /\ task[t].job = j
    /\ \E n \in decide_heartbeat(job[j], task[t], now, Lease) : job' = [job EXCEPT ![j] = n]
    /\ Continue(t, j, AfterHeartbeat[task[t].phase])
    /\ UNCHANGED <<registryVars, now, requested, started_at, dispatched>>

\* Mutant: a Resource retired since the request is validated all the same.
commit_to_retired(t, j) ==
    /\ task[t].phase = "commit" /\ task[t].job = j
    /\ require_exact_running_job_fence(j, task[t])
    /\ resource.document = requested[j].draft_digest
    /\ resource.version < MaxVersion
    /\ resource' = [resource EXCEPT !.validation = requested[j].draft_digest,
                                    !.version = @ + 1]
    /\ \E n \in decide_terminal(job[j], task[t], now, "succeeded") :
          job' = [job EXCEPT ![j] = n]
    /\ task' = [task EXCEPT ![t] = Idle]
    /\ UNCHANGED <<published, deployments, receipts, now, requested, started_at, dispatched>>

\* The summary, the Resource version and the Job's success are one transaction.
commit_registry_validation(t, j) ==
    /\ task[t].phase = "commit" /\ task[t].job = j
    /\ require_exact_running_job_fence(j, task[t])
    /\ AtFrozenDraft(j)
    /\ resource.version < MaxVersion
    /\ resource' = [resource EXCEPT !.validation = requested[j].draft_digest,
                                    !.version = @ + 1]
    /\ \E n \in decide_terminal(job[j], task[t], now, "succeeded") :
          job' = [job EXCEPT ![j] = n]
    /\ task' = [task EXCEPT ![t] = Idle]
    /\ UNCHANGED <<published, deployments, receipts, now, requested, started_at, dispatched>>

\* execute_claim returns an error, its task fails, or the process ends: nothing
\* is reported, the lease runs out.
Abandon(t) ==
    /\ task[t] # Idle
    /\ task' = [task EXCEPT ![t] = Idle]
    /\ UNCHANGED <<registryVars, now, requested, job, started_at, dispatched>>

-----------------------------------------------------------------------------
(* Recovery of expired leases.                                             *)

\* Mutant: the scan does not look at the deadline.
recovery_ignores_deadline(j) ==
    IF job[j].state = "leased" THEN {<<"ready", None>>}
    ELSE IF job[j].attempt_count < job[j].attempt_limit
         THEN {<<"retry_scheduled", now + Backoff>>}
    ELSE {<<"failed", None>>}

\* What the scan asks decide_expired_lease for; nothing when the backoff does
\* not fit before the deadline and attempts are left: revisit at the deadline.
recovery_target(j) ==
    IF job[j].deadline <= now THEN {<<"timed_out", None>>}
    ELSE IF job[j].state = "leased" THEN {<<"ready", None>>}
    ELSE IF job[j].attempt_count < job[j].attempt_limit /\ now + Backoff < job[j].deadline
         THEN {<<"retry_scheduled", now + Backoff>>}
    ELSE IF job[j].attempt_limit <= job[j].attempt_count THEN {<<"failed", None>>}
    ELSE {}

\* The UPDATE stores every field of the decision but scheduled_at.
recover_expired_registry_validation_jobs(j) ==
    /\ Created(j)
    /\ job[j].state \in {"leased", "running"}
    /\ job[j].lease.expires_at <= now
    /\ \E target \in recovery_target(j) :
          \E n \in decide_expired_lease(job[j], job[j].version, job[j].lease_generation,
                                        now, target[1], target[2]) :
              job' = [job EXCEPT ![j] = [n EXCEPT !.scheduled_at = job[j].scheduled_at]]
    /\ UNCHANGED <<registryVars, now, requested, started_at, task, dispatched>>

\* Bound: a request is only made while the clock still runs to its deadline.
Request ==
    /\ now + TimeToDeadline <= MaxTime
    /\ \E j \in Jobs, key \in RequestKeys, expected_version \in 1..MaxVersion :
          request_resource_validation(j, key, expected_version)

Work(t, j) ==
    \/ claim_jobs(t, j)
    \/ start_job(t, j)
    \/ read_frozen_input(t, j)
    \/ heartbeat_job(t, j)
    \/ commit_registry_validation(t, j)

Next ==
    \/ Tick
    \/ Command
    \/ Request
    \/ \E t \in Tasks : Abandon(t) \/ \E j \in Jobs : Work(t, j)
    \/ \E j \in Jobs : recover_expired_registry_validation_jobs(j)

Spec == Init /\ [][Next]_vars

\* Time passes, and some worker runs its scan again and again (drive_once on an
\* interval).  Nothing is assumed of claims, starts, commits or clients.
FairSpec ==
    /\ Spec
    /\ WF_vars(Tick)
    /\ \A j \in Jobs : WF_vars(recover_expired_registry_validation_jobs(j))
-----------------------------------------------------------------------------
(* Properties.                                                             *)

\* The variables keep their types.
TypeOK ==
    /\ resource \in Resource
    /\ published \subseteq PublishedVersion
    /\ deployments \subseteq Deployment
    /\ receipts \subseteq Operation \X RequestKeys
    /\ now \in Nat
    /\ requested \in [Jobs -> Payload]
    /\ job \in [Jobs -> JobProjection]
    /\ started_at \in [Jobs -> OptionTime]
    /\ task \in [Tasks -> Task]
    /\ dispatched \in [Jobs -> Nat]

\* The stored summary is always about the stored document, whatever edits,
\* retries and late commits came between the request and its result.
ValidationMatchesDraft ==
    resource.validation # NoDocument => resource.validation = resource.document

\* No Agent document is ever published that a validation Job has not accepted:
\* publish_resource_versions trusts the summary, and only a commit under a
\* current lease can have written it.
PublishedAgentsWereValidated ==
    IsAgent => \A v \in published :
                  \E j \in Jobs : /\ Created(j)
                                  /\ requested[j].draft_digest = v.document
                                  /\ job[j].state = "succeeded"

\* A worker is let run a Job at most attempt_limit times.  The repository decides
\* between a new attempt and a resumed one by started_at, a column the Job
\* decisions know nothing of; claim, start and recovery must keep it in step.
DispatchesWithinLimit == \A j \in Jobs : dispatched[j] <= AttemptLimit

\* A validation request that is delivered again creates no second Job.
OneJobPerRequest ==
    \A i, j \in Jobs :
        Created(i) /\ Created(j) /\ requested[i].key = requested[j].key => i = j

\* The active target always leads to a published version of this Resource.
ActiveTargetIsPublished ==
    resource.active # NoId =>
        \E v \in published :
            \/ ~TargetsDeployment /\ v.id = resource.active
            \/ \E d \in deployments : d.id = resource.active /\ d.version = v.id

\* Retirement is final: a validation or publication under way when the Resource
\* is retired leaves no trace on it.  Its gate alone still moves.
RetiredIsFrozen ==
    [][resource.lifecycle = "retired" =>
          /\ resource' = [resource EXCEPT !.gate = resource'.gate,
                                          !.version = resource'.version]
          /\ published' = published
          /\ deployments' = deployments]_vars

\* After its deadline a Job ends up settled, or unclaimed and out of reach of
\* every claim; it is not left in a worker's hands.
JobsEndSettledOrUnclaimed ==
    \A j \in Jobs :
        Created(j) ~> \/ job[j].state \in TerminalState
                      \/ job[j].state \in {"ready", "retry_scheduled"} /\ job[j].deadline <= now
=============================================================================
