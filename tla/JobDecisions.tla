---------------------------- MODULE JobDecisions ----------------------------
(***************************************************************************)
(* The pure decisions of the shared durable Job authority, crate           *)
(* platform-jobs.  The Rust functions take a JobProjection and return      *)
(* Result<JobProjection, JobError>; here each decide_* operator yields the *)
(* set of accepted successors: one projection, or none when the function   *)
(* returns an error.  Every projection that leaves a decision has been     *)
(* through validate, as in the code.                                       *)
(*                                                                         *)
(* Abstracted: identities, traces, digests (a lease token is drawn afresh  *)
(* by every claim, so it distinguishes no more than lease_generation       *)
(* does), and time units.  Counters keep their overflow: increment fails   *)
(* at MaxCounter (u64::MAX in the code).                                   *)
(***************************************************************************)
EXTENDS Integers

CONSTANTS Workers,       \* worker process generations
          NoWorker,      \* stands for no worker
          MaxCounter     \* the largest value of a version or lease generation

ASSUME DecisionAssumption == MaxCounter \in Nat /\ NoWorker \notin Workers

None == -1               \* Option::None of a point in time
OptionTime == Nat \cup {None}

JobState ==
    {"ready", "leased", "running", "waiting", "retry_scheduled", "cancelling",
     "reconciliation_required", "succeeded", "failed", "cancelled", "timed_out"}

\* is_terminal: reconciliation_required is not terminal, an operator still settles it.
TerminalState == {"succeeded", "failed", "cancelled", "timed_out"}

\* The published closed state machine of a Job.
JobTransitions ==
    [ready           |-> {"leased", "cancelling", "cancelled", "timed_out"},
     leased          |-> {"running", "ready", "cancelling", "cancelled", "timed_out"},
     running         |-> {"ready", "waiting", "retry_scheduled", "cancelling", "succeeded",
                          "failed", "cancelled", "timed_out", "reconciliation_required"},
     waiting         |-> {"ready", "cancelling", "succeeded", "failed", "cancelled",
                          "timed_out", "reconciliation_required"},
     retry_scheduled |-> {"ready", "cancelling", "cancelled", "timed_out"},
     cancelling      |-> {"cancelled", "failed", "timed_out", "reconciliation_required"},
     reconciliation_required |-> {"succeeded", "failed", "cancelled"},
     succeeded       |-> {},
     failed          |-> {},
     cancelled       |-> {},
     timed_out       |-> {}]

\* Mutant: a terminal target is accepted from every state.
terminal_always_allowed(source, target) ==
    target \in JobTransitions[source] \cup TerminalState

can_transition_to(source, target) == target \in JobTransitions[source]

WakeSource ==
    {"callback", "poll", "signal", "timer", "child_run", "cancel", "timeout"}

NoLease  == [worker |-> NoWorker, lease_generation |-> 0,
             heartbeat_at |-> None, expires_at |-> None]
NoWake   == [generation |-> 0, accepted_sources |-> {}, next_poll_at |-> None,
             poll_count |-> 0, poll_limit |-> 0, deadline |-> None]

JobLease == [worker : Workers \cup {NoWorker}, lease_generation : Nat,
             heartbeat_at : OptionTime, expires_at : OptionTime]
WakeContract == [generation : Nat, accepted_sources : SUBSET WakeSource,
                 next_poll_at : OptionTime, poll_count : Nat, poll_limit : Nat,
                 deadline : OptionTime]
JobProjection == [state : JobState, version : Nat, attempt_count : Nat,
                  attempt_limit : Nat, lease_generation : Nat, lease : JobLease,
                  scheduled_at : Nat, retry_at : OptionTime, wake : WakeContract,
                  deadline : Nat]

-----------------------------------------------------------------------------
(* Validation of a stored projection.                                      *)

validate_wake(wake, job_deadline) ==
    /\ wake.generation # 0
    /\ wake.accepted_sources # {}
    /\ wake.poll_count <= wake.poll_limit
    /\ wake.deadline <= job_deadline
    /\ wake.next_poll_at <= wake.deadline
    /\ IF "poll" \in wake.accepted_sources
       THEN wake.poll_limit # 0
       ELSE wake.next_poll_at = None /\ wake.poll_count = 0 /\ wake.poll_limit = 0

validate_lease(lease, deadline) ==
    /\ lease.lease_generation # 0
    /\ lease.heartbeat_at < lease.expires_at
    /\ lease.expires_at <= deadline

validate(j) ==
    /\ j.version # 0
    /\ j.attempt_limit # 0
    /\ j.attempt_count <= j.attempt_limit
    /\ j.scheduled_at <= j.deadline
    /\ IF j.lease # NoLease
       THEN /\ validate_lease(j.lease, j.deadline)
            /\ j.lease.lease_generation = j.lease_generation
            /\ j.state \in {"leased", "running", "cancelling"}
       ELSE j.state \notin {"leased", "running"}
    /\ IF j.state = "waiting"
       THEN j.wake # NoWake /\ validate_wake(j.wake, j.deadline)
       ELSE j.wake = NoWake
    /\ IF j.state = "retry_scheduled"
       THEN j.retry_at # None /\ j.retry_at < j.deadline
       ELSE j.retry_at = None

\* Result<JobProjection, JobError> as a set: the successor when the guard
\* holds, no counter overflows and the successor validates.
Accepted(guard, next) ==
    {n \in {next} : /\ guard
                    /\ n.version <= MaxCounter
                    /\ n.lease_generation <= MaxCounter
                    /\ validate(n)}

\* transition: every state change goes through the closed table, and drops the
\* retry time, the wake contract and (unless retained) the lease.
transition(j, target, retain_lease) ==
    Accepted(can_transition_to(j.state, target),
             [j EXCEPT !.state = target,
                       !.version = @ + 1,
                       !.lease = IF retain_lease THEN @ ELSE NoLease,
                       !.retry_at = None,
                       !.wake = NoWake])

-----------------------------------------------------------------------------
(* Fences: the worker, version and lease generation a command was issued   *)
(* under.                                                                  *)

\* Mutant: the fence is recognised by its worker alone.
same_worker(j, fence) == j.lease # NoLease /\ j.lease.worker = fence.worker

same_lease(j, fence) ==
    /\ j.lease # NoLease
    /\ j.version = fence.expected_version
    /\ j.lease.worker = fence.worker
    /\ j.lease.lease_generation = fence.lease_generation

validate_fence(j, fence, now) == same_lease(j, fence) /\ now < j.lease.expires_at

\* The post-deadline cleanup window replaces only the expiry check.
validate_cleanup_fence(j, fence, now, cleanup_deadline) ==
    /\ same_lease(j, fence)
    /\ j.deadline <= cleanup_deadline
    /\ now <= cleanup_deadline

Earliest(a, b) == IF a <= b THEN a ELSE b

-----------------------------------------------------------------------------
(* Claim, start, heartbeat.                                                *)

\* Mutant: only the first claim of a Job draws a new lease generation.
leased_again_by(j, now, worker, duration) ==
    [j EXCEPT !.state = "leased",
              !.version = @ + 1,
              !.lease_generation = 1,
              !.retry_at = None,
              !.lease = [worker |-> worker, lease_generation |-> 1, heartbeat_at |-> now,
                         expires_at |-> Earliest(now + duration, j.deadline)]]

leased_by(j, now, worker, duration) ==
    [j EXCEPT !.state = "leased",
              !.version = @ + 1,
              !.lease_generation = @ + 1,
              !.retry_at = None,
              !.lease = [worker |-> worker,
                         lease_generation |-> j.lease_generation + 1,
                         heartbeat_at |-> now,
                         expires_at |-> Earliest(now + duration, j.deadline)]]

decide_claim(j, now, worker, duration) ==
    Accepted(/\ j.state \in {"ready", "retry_scheduled"}
             /\ j.attempt_count < j.attempt_limit
             /\ j.scheduled_at <= now
             /\ j.retry_at <= now
             /\ now < j.deadline,
             leased_by(j, now, worker, duration))

decide_claim_continuation(j, now, worker, duration) ==
    Accepted(/\ j.state = "ready"
             /\ j.attempt_count # 0
             /\ j.scheduled_at <= now
             /\ now < j.deadline,
             leased_by(j, now, worker, duration))

decide_start(j, fence, now) ==
    UNION {Accepted(/\ validate_fence(j, fence, now)
                    /\ j.state = "leased"
                    /\ j.attempt_count < j.attempt_limit,
                    [n EXCEPT !.attempt_count = @ + 1]) :
           n \in transition(j, "running", TRUE)}

\* Mutant: a continuation is resumed although no attempt was dispatched.
resume_undispatched(j, fence, now) ==
    {n \in transition(j, "running", TRUE) :
        validate_fence(j, fence, now) /\ j.state = "leased"}

decide_resume(j, fence, now) ==
    {n \in transition(j, "running", TRUE) :
        /\ validate_fence(j, fence, now)
        /\ j.state = "leased"
        /\ j.attempt_count # 0}

decide_heartbeat(j, fence, now, duration) ==
    Accepted(/\ validate_fence(j, fence, now)
             /\ j.state \in {"leased", "running"}
             /\ now < Earliest(now + duration, j.deadline),
             [j EXCEPT !.version = @ + 1,
                       !.lease.heartbeat_at = now,
                       !.lease.expires_at = Earliest(now + duration, j.deadline)])

decide_observation_update(j, fence, now) ==
    Accepted(validate_fence(j, fence, now) /\ j.state = "running",
             [j EXCEPT !.version = @ + 1])

-----------------------------------------------------------------------------
(* Settlement by the lease holder.                                         *)

decide_terminal(j, fence, now, terminal) ==
    {n \in transition(j, terminal, FALSE) :
        validate_fence(j, fence, now) /\ terminal \in TerminalState}

decide_cleanup_terminal(j, fence, now, cleanup_deadline, terminal) ==
    {n \in transition(j, terminal, FALSE) :
        /\ validate_cleanup_fence(j, fence, now, cleanup_deadline)
        /\ terminal \in TerminalState}

decide_reconciliation(j, fence, now) ==
    {n \in transition(j, "reconciliation_required", FALSE) :
        validate_fence(j, fence, now) /\ j.state \in {"running", "cancelling"}}

decide_cleanup_reconciliation(j, fence, now, cleanup_deadline) ==
    {n \in transition(j, "reconciliation_required", FALSE) :
        /\ validate_cleanup_fence(j, fence, now, cleanup_deadline)
        /\ j.state \in {"running", "cancelling"}}

\* The lease is given up for a wake contract or a retry time.
parked(j, target, retry_at, wake) ==
    [j EXCEPT !.state = target,
              !.version = @ + 1,
              !.lease = NoLease,
              !.retry_at = retry_at,
              !.wake = wake]

decide_wait(j, fence, now, wake) ==
    Accepted(/\ validate_fence(j, fence, now)
             /\ validate_wake(wake, j.deadline)
             /\ j.state = "running"
             /\ wake.generation = j.lease_generation,
             parked(j, "waiting", None, wake))

\* Mutant: a retry is scheduled although no attempt is left for it.
retry_beyond_limit(j, fence, now, retry_at) ==
    Accepted(/\ validate_fence(j, fence, now)
             /\ j.state = "running"
             /\ now < retry_at
             /\ retry_at < j.deadline,
             parked(j, "retry_scheduled", retry_at, NoWake))

decide_retry(j, fence, now, retry_at) ==
    Accepted(/\ validate_fence(j, fence, now)
             /\ j.state = "running"
             /\ j.attempt_count < j.attempt_limit
             /\ now < retry_at
             /\ retry_at < j.deadline,
             parked(j, "retry_scheduled", retry_at, NoWake))

-----------------------------------------------------------------------------
(* Decisions of the logical owner: unfenced, the owner has already won the *)
(* parent aggregate's transition.                                          *)

decide_owner_terminal(j, terminal) ==
    {n \in transition(j, terminal, FALSE) : terminal \in TerminalState}

decide_owner_reconciliation(j) == transition(j, "reconciliation_required", FALSE)

decide_owner_cancelling(j) == transition(j, "cancelling", j.lease # NoLease)

\* Physical cleanup evidence after the Job has settled: only the version moves.
decide_terminal_physical_update(j, expected_version) ==
    Accepted(/\ j.version = expected_version
             /\ j.lease = NoLease
             /\ j.state \in TerminalState \cup {"reconciliation_required"},
             [j EXCEPT !.version = @ + 1])

-----------------------------------------------------------------------------
(* Decisions driven by time: due retries, wakes and expired leases.        *)

\* Mutant: the Job is rescheduled at its retry time after that was cleared.
reschedule_at_cleared_retry(j, now) ==
    UNION {Accepted(/\ j.state = "retry_scheduled"
                    /\ j.retry_at <= now
                    /\ now < j.deadline,
                    [n EXCEPT !.scheduled_at = n.retry_at]) :
           n \in transition(j, "ready", FALSE)}

decide_retry_due(j, now) ==
    UNION {Accepted(/\ j.state = "retry_scheduled"
                    /\ j.retry_at <= now
                    /\ now < j.deadline,
                    [n EXCEPT !.scheduled_at = now]) :
           n \in transition(j, "ready", FALSE)}

\* A timeout wakes only from the contract's deadline on, anything else only before it.
within_source_window(wake, source, now) ==
    IF source = "timeout" THEN wake.deadline <= now ELSE now < wake.deadline

decide_wake(j, expected_generation, source, now) ==
    UNION {Accepted(/\ j.state = "waiting"
                    /\ j.wake.generation = expected_generation
                    /\ source \in j.wake.accepted_sources
                    /\ within_source_window(j.wake, source, now)
                    /\ source = "poll" => /\ j.wake.poll_count < j.wake.poll_limit
                                          /\ j.wake.next_poll_at <= now,
                    [n EXCEPT !.scheduled_at = now]) :
           n \in transition(j, "ready", FALSE)}

expired(j, observed_version, observed_generation, now) ==
    /\ j.lease # NoLease
    /\ j.version = observed_version
    /\ j.lease.lease_generation = observed_generation
    /\ j.lease.expires_at <= now

\* One disjunct per recovery target the caller may ask for.
decide_expired_lease(j, observed_version, observed_generation, now, target, retry_at) ==
    IF ~expired(j, observed_version, observed_generation, now) THEN {}
    ELSE CASE target = "ready" ->
              UNION {Accepted(j.state = "leased" /\ now < j.deadline,
                              [n EXCEPT !.scheduled_at = now]) :
                     n \in transition(j, "ready", FALSE)}
           [] target = "retry_scheduled" ->
              Accepted(/\ j.state = "running"
                       /\ j.attempt_count < j.attempt_limit
                       /\ now < retry_at
                       /\ retry_at < j.deadline,
                       parked(j, "retry_scheduled", retry_at, NoWake))
           [] target = "failed" ->
              {n \in transition(j, "failed", FALSE) :
                  /\ j.state = "running"
                  /\ j.attempt_limit <= j.attempt_count
                  /\ now < j.deadline}
           [] target = "reconciliation_required" ->
              transition(j, "reconciliation_required", FALSE)
           [] target = "timed_out" ->
              {n \in transition(j, "timed_out", FALSE) : j.deadline <= now}
           [] OTHER -> {}

\* The same physical attempt is handed on: no attempt is consumed.
decide_expired_continuation(j, observed_version, observed_generation, now) ==
    UNION {Accepted(/\ expired(j, observed_version, observed_generation, now)
                    /\ j.state = "running"
                    /\ j.attempt_count # 0
                    /\ now < j.deadline,
                    [n EXCEPT !.scheduled_at = now]) :
           n \in transition(j, "ready", FALSE)}
=============================================================================
