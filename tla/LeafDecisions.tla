---------------------------- MODULE LeafDecisions ----------------------------
(***************************************************************************)
(* The pure decisions of the three kinds of external leaf a Run can wait   *)
(* for: Capability invocations (platform-invocations), Model turns         *)
(* (platform-models) and Context queries (platform-context).  Each takes   *)
(* the stored owner, its Job and its Job payload, here one record, and     *)
(* yields the set of accepted successors, on top of the decisions of the   *)
(* shared Job authority.                                                   *)
(*                                                                         *)
(*   state     the owner's own state                                       *)
(*   deadline  its deadline                                                *)
(*   job       its Job, or NoJob before the dispatch is prepared           *)
(*   resume    payload.resume_same_attempt                                 *)
(*   polls     payload.poll_count (Capability)                             *)
(*   consumed  payload.query_consumed (Context)                            *)
(*   charged   what was charged for dispatches: the attempt records of a   *)
(*             Model turn, the used queries of a Context query             *)
(*                                                                         *)
(* Abstracted: values, digests, artifacts and failures; what a backend     *)
(* answers is a kind and a point in time.  The binding and identity parts  *)
(* of the validations compare what never changes.                          *)
(***************************************************************************)
EXTENDS JobDecisions

NoJob == [state |-> "none", version |-> 0, attempt_count |-> 0, attempt_limit |-> 0,
          lease_generation |-> 0, lease |-> NoLease, scheduled_at |-> 0,
          retry_at |-> None, wake |-> NoWake, deadline |-> 0]

LeafState == {"ready", "in_flight", "awaiting_input", "deferred", "retry_scheduled",
              "cancelling", "reconciliation_required"} \cup TerminalState

\* A write may leave an effect behind; only one with an idempotency key may be repeated.
Effect == {"read", "idempotent_write", "write"}
writes(admission)     == admission.effect # "read"
replayable(admission) == admission.effect # "write"

fence_of(j) == [expected_version |-> j.version, worker |-> j.lease.worker,
                lease_generation |-> j.lease_generation]

\* The first Job of a leaf, as all three domains create it.
prepared(leaf, now, attempt_limit) ==
    {[leaf EXCEPT !.job = j] :
        j \in Accepted(leaf.state = "ready" /\ leaf.job = NoJob /\ now < leaf.deadline,
                       [NoJob EXCEPT !.state = "ready", !.version = 1,
                                     !.attempt_limit = attempt_limit,
                                     !.scheduled_at = now, !.deadline = leaf.deadline])}

\* Claim and start are one transaction: the stored Job is never seen leased.
claim_and_start(leaf, now, worker, duration) ==
    IF leaf.resume
    THEN UNION {decide_resume(c, fence_of(c), now) :
                c \in decide_claim_continuation(leaf.job, now, worker, duration)}
    ELSE UNION {decide_start(c, fence_of(c), now) :
                c \in decide_claim(leaf.job, now, worker, duration)}

-----------------------------------------------------------------------------
(* Capability invocations.                                                 *)

decide_prepare_dispatch(leaf, now, attempt_limit) == prepared(leaf, now, attempt_limit)

\* A payload that resumes an attempt belongs to a dispatched Job that waits or was woken.
capability_payload_valid(leaf) ==
    /\ leaf.resume => leaf.job.attempt_count # 0 /\ leaf.job.state \in {"waiting", "ready"}
    /\ leaf.job.state = "waiting" => leaf.resume

Capability(leaves) == {l \in leaves : capability_payload_valid(l)}

decide_start_dispatch(leaf, now, worker, duration) ==
    Capability({[leaf EXCEPT !.state = "in_flight", !.job = j, !.resume = FALSE] :
        j \in {s \in claim_and_start(leaf, now, worker, duration) :
                  /\ leaf.state \in {"ready", "retry_scheduled", "in_flight"}
                  /\ now < leaf.deadline}})

remote_wait(leaf, next_poll_at, poll_limit) ==
    [generation |-> leaf.job.lease_generation,
     accepted_sources |-> IF next_poll_at = None THEN {"callback"} ELSE {"callback", "poll"},
     next_poll_at |-> next_poll_at,
     poll_count |-> leaf.polls,
     poll_limit |-> IF next_poll_at = None THEN 0 ELSE poll_limit,
     deadline |-> leaf.deadline]

input_wait(leaf, deadline) ==
    [NoWake EXCEPT !.generation = leaf.job.lease_generation,
                   !.accepted_sources = {"signal"},
                   !.deadline = deadline]

decide_dispatch_outcome(leaf, admission, fence, outcome, now, poll_limit) ==
    LET j == leaf.job
        settled(state, jobs, resume) ==
            {[leaf EXCEPT !.state = state, !.job = n, !.resume = resume] : n \in jobs}
    IN  IF leaf.state # "in_flight" \/ j.state # "running" \/ now >= leaf.deadline THEN {}
        ELSE Capability(
          CASE outcome.kind = "completed" ->
                 settled("succeeded", decide_terminal(j, fence, now, "succeeded"), FALSE)
            [] outcome.kind = "deferred" ->
                 settled("deferred",
                         {n \in decide_wait(j, fence, now, remote_wait(leaf, outcome.at, poll_limit)) :
                             outcome.at # None => /\ leaf.polls < poll_limit
                                                  /\ now < outcome.at /\ outcome.at < leaf.deadline},
                         TRUE)
            [] outcome.kind = "input_required" ->
                 settled("awaiting_input",
                         {n \in decide_wait(j, fence, now, input_wait(leaf, outcome.at)) :
                             now < outcome.at /\ outcome.at <= leaf.deadline},
                         TRUE)
            [] outcome.kind = "retryable" ->
                 settled("retry_scheduled",
                         {n \in decide_retry(j, fence, now, outcome.at) :
                             replayable(admission)},
                         FALSE)
            [] outcome.kind = "permanent" ->
                 settled("failed", decide_terminal(j, fence, now, "failed"), FALSE)
            [] outcome.kind = "uncertain" ->
                 settled("reconciliation_required", decide_reconciliation(j, fence, now), FALSE))

\* retry_at is None when the backoff reaches past the deadline.
decide_expired_dispatch(leaf, admission, now, retry_at) ==
    LET target == CASE leaf.deadline <= now -> "timed_out"
                    [] /\ now < leaf.deadline
                       /\ replayable(admission)
                       /\ leaf.job.attempt_count < leaf.job.attempt_limit
                       /\ retry_at # None -> "retry_scheduled"
                    [] OTHER -> "reconciliation_required"
    IN  Capability({[leaf EXCEPT !.state = target, !.job = j] :
            j \in {n \in decide_expired_lease(leaf.job, leaf.job.version,
                                              leaf.job.lease_generation, now, target, retry_at) :
                      leaf.state = "in_flight" /\ leaf.job.state = "running"}})

\* Mutant: the invocation is not taken back in flight.
wake_leaves_deferred(leaf, expected_generation, source, now) ==
    {[leaf EXCEPT !.job = j] :
        j \in {n \in decide_wake(leaf.job, expected_generation, source, now) :
                  leaf.state = "deferred"}}

decide_capability_wake(leaf, expected_generation, source, now) ==
    Capability({[leaf EXCEPT !.state = "in_flight", !.job = j,
                             !.polls = IF source = "poll" THEN @ + 1 ELSE @] :
        j \in {n \in decide_wake(leaf.job, expected_generation, source, now) :
                  leaf.state = "deferred"}})

decide_input_response(leaf, expected_generation, now) ==
    Capability({[leaf EXCEPT !.state = "ready", !.job = j] :
        j \in {n \in decide_wake(leaf.job, expected_generation, "signal", now) :
                  leaf.state = "awaiting_input"}})

ControlTarget == [cancel |-> "cancelled", timeout |-> "timed_out"]

\* A leaf without a Job is ended alone, one with a Job together with it.
ended_by_owner(leaf, kind) ==
    {[leaf EXCEPT !.state = ControlTarget[kind], !.job = j, !.resume = FALSE] :
        j \in IF leaf.job = NoJob THEN {NoJob}
              ELSE decide_owner_terminal(leaf.job, ControlTarget[kind])}

\* Mutant: an active write is cancelled without reconciliation.
control_ends_active_writes(leaf, admission, kind, now) ==
    {l \in ended_by_owner(leaf, kind) :
        leaf.state \notin TerminalState \cup {"reconciliation_required"}}

decide_control(leaf, admission, kind, now) ==
    LET active == leaf.state \in {"in_flight", "deferred", "cancelling"}
        cancellable == /\ admission.cancellation
                       /\ leaf.job.state \in {"leased", "running", "waiting", "retry_scheduled"}
        controlled(state, jobs) ==
            {[leaf EXCEPT !.state = state, !.job = j, !.resume = FALSE] : j \in jobs}
    IN  IF \/ leaf.state \in TerminalState \cup {"reconciliation_required"}
           \/ kind = "timeout" /\ now < leaf.deadline
        THEN {}
        ELSE Capability(
             IF active /\ kind = "cancel" /\ cancellable
             THEN controlled("cancelling", decide_owner_cancelling(leaf.job))
             ELSE IF active /\ writes(admission)
             THEN controlled("reconciliation_required", decide_owner_reconciliation(leaf.job))
             ELSE ended_by_owner(leaf, kind))

\* The Job ends fenced, within the cleanup window, or by the owner once no lease is in
\* force.  fences and cleanup are sets of at most one element.
decide_cancellation_outcome(leaf, admission, fences, cleanup, no_effect_proof, now) ==
    LET j == leaf.job
        closed(fenced, cleaned, owned) ==
            IF fences # {} THEN IF cleanup # {} /\ j.deadline <= now THEN cleaned ELSE fenced
            ELSE IF j.lease = NoLease \/ j.lease.expires_at <= now THEN owned ELSE {}
        reconciled == closed(
            UNION {decide_reconciliation(j, f, now) : f \in fences},
            UNION {UNION {decide_cleanup_reconciliation(j, f, now, c) : c \in cleanup} :
                   f \in fences},
            decide_owner_reconciliation(j))
        cancelled == closed(
            UNION {decide_terminal(j, f, now, "cancelled") : f \in fences},
            UNION {UNION {decide_cleanup_terminal(j, f, now, c, "cancelled") : c \in cleanup} :
                   f \in fences},
            decide_owner_terminal(j, "cancelled"))
    IN  IF leaf.state # "cancelling" \/ j.state # "cancelling" THEN {}
        ELSE Capability(
             IF writes(admission) /\ ~no_effect_proof
             THEN {[leaf EXCEPT !.state = "reconciliation_required", !.job = n] : n \in reconciled}
             ELSE {[leaf EXCEPT !.state = "cancelled", !.job = n] : n \in cancelled})

decide_reconciliation_resolution(leaf, resolution) ==
    Capability({[leaf EXCEPT !.state = resolution, !.job = j] :
        j \in {n \in decide_owner_terminal(leaf.job, resolution) :
                  /\ leaf.state = "reconciliation_required"
                  /\ leaf.job.state = "reconciliation_required"
                  /\ resolution \in {"succeeded", "failed", "cancelled"}}})

-----------------------------------------------------------------------------
(* Model turns: every attempt that was dispatched leaves one accounting    *)
(* record, at the admitted ceiling when nothing was measured.              *)

decide_prepare_model_dispatch(leaf, now, attempt_limit) == prepared(leaf, now, attempt_limit)

decide_start_model_dispatch(leaf, now, worker, duration) ==
    {[leaf EXCEPT !.state = "in_flight", !.job = j] :
        j \in {s \in claim_and_start(leaf, now, worker, duration) :
                  leaf.state \in {"ready", "retry_scheduled"} /\ now < leaf.deadline}}

decide_expired_model_lease(leaf, now, retry_at) ==
    LET target == IF leaf.job.attempt_limit <= leaf.job.attempt_count THEN "failed"
                  ELSE "retry_scheduled"
    IN  {[leaf EXCEPT !.state = target, !.job = j, !.charged = @ + 1] :
            j \in {n \in decide_expired_lease(leaf.job, leaf.job.version,
                                              leaf.job.lease_generation, now, target, retry_at) :
                      /\ leaf.state = "in_flight" /\ leaf.job.state = "running"
                      /\ now < leaf.deadline}}

decide_model_outcome(leaf, fence, outcome, now) ==
    LET j == leaf.job
        accounted(state, jobs) ==
            {[leaf EXCEPT !.state = state, !.job = n, !.charged = @ + 1] : n \in jobs}
    IN  IF leaf.state # "in_flight" \/ j.state # "running" \/ now >= leaf.deadline THEN {}
        ELSE CASE outcome.kind = "completed" ->
                    accounted("succeeded", decide_terminal(j, fence, now, "succeeded"))
               [] outcome.kind = "retryable" ->
                    accounted("retry_scheduled", decide_retry(j, fence, now, outcome.at))
               [] outcome.kind = "permanent" ->
                    accounted("failed", decide_terminal(j, fence, now, "failed"))
               [] OTHER -> {}

\* A request in flight is only cancelled once its worker or the expiry scan has accounted for it.
decide_model_control(leaf, kind, now) ==
    IF leaf.state \in TerminalState \/ (kind = "timeout" /\ now < leaf.deadline) THEN {}
    ELSE IF leaf.state = "in_flight" /\ kind = "cancel"
    THEN {[leaf EXCEPT !.state = "cancelling", !.job = j] : j \in decide_owner_cancelling(leaf.job)}
    ELSE {[l EXCEPT !.charged = IF leaf.job.lease # NoLease THEN @ + 1 ELSE @] :
             l \in ended_by_owner(leaf, kind)}

decide_model_cancellation_outcome(leaf, fences, now) ==
    {[leaf EXCEPT !.state = "cancelled", !.job = j, !.charged = @ + 1] :
        j \in {n \in IF fences = {} THEN decide_owner_terminal(leaf.job, "cancelled")
                     ELSE UNION {decide_terminal(leaf.job, f, now, "cancelled") : f \in fences} :
                  leaf.state = "cancelling" /\ leaf.job.state = "cancelling"}}

-----------------------------------------------------------------------------
(* Context queries: read-only, so control may fence a running dispatch at  *)
(* once.  A query is used once per attempt, however often it is deferred.  *)

decide_prepare_context_dispatch(leaf, now, attempt_limit) == prepared(leaf, now, attempt_limit)

\* A remembered remote state was already charged.
context_payload_valid(leaf) == leaf.resume => leaf.consumed

Context(leaves) == {l \in leaves : context_payload_valid(l)}

use_query(leaf) == IF leaf.consumed THEN 0 ELSE 1

\* The payload keeps resume_same_attempt while the resumed attempt runs.
decide_start_context_dispatch(leaf, now, worker, duration) ==
    Context({[leaf EXCEPT !.state = "in_flight", !.job = j] :
        j \in {s \in claim_and_start(leaf, now, worker, duration) :
                  leaf.state \in IF leaf.resume THEN {"deferred"}
                                 ELSE {"ready", "retry_scheduled"}}})

\* Mutant: the next attempt still counts as charged.
expired_keeps_query_consumed(leaf, now, retry_at) ==
    {[leaf EXCEPT !.state = "retry_scheduled", !.job = j, !.resume = FALSE,
                  !.consumed = TRUE, !.charged = @ + use_query(leaf)] :
        j \in {n \in decide_expired_lease(leaf.job, leaf.job.version, leaf.job.lease_generation,
                                          now, "retry_scheduled", retry_at) :
                  leaf.state = "in_flight" /\ now < leaf.deadline}}

decide_expired_context_lease(leaf, now, retry_at) ==
    Context({[leaf EXCEPT !.state = "retry_scheduled", !.job = j, !.resume = FALSE,
                          !.consumed = FALSE, !.charged = @ + use_query(leaf)] :
        j \in {n \in decide_expired_lease(leaf.job, leaf.job.version, leaf.job.lease_generation,
                                          now, "retry_scheduled", retry_at) :
                  /\ leaf.state = "in_flight" /\ leaf.job.state = "running"
                  /\ leaf.job.attempt_count < leaf.job.attempt_limit
                  /\ now < leaf.deadline}})

decide_context_outcome(leaf, fence, outcome, now, poll_limit) ==
    LET j == leaf.job
        settled(state, jobs, resume, consumed) ==
            {[leaf EXCEPT !.state = state, !.job = n, !.resume = resume, !.consumed = consumed,
                          !.charged = @ + use_query(leaf)] : n \in jobs}
    IN  IF leaf.state # "in_flight" \/ j.state # "running" \/ now >= leaf.deadline THEN {}
        ELSE Context(
          CASE outcome.kind = "completed" ->
                 settled("succeeded", decide_terminal(j, fence, now, "succeeded"), FALSE, TRUE)
            [] outcome.kind = "deferred" ->
                 settled("deferred",
                         decide_wait(j, fence, now, remote_wait(leaf, outcome.at, poll_limit)),
                         TRUE, TRUE)
            [] outcome.kind = "retryable" ->
                 settled("retry_scheduled", decide_retry(j, fence, now, outcome.at), FALSE, FALSE)
            [] outcome.kind = "permanent" ->
                 settled("failed", decide_terminal(j, fence, now, "failed"), FALSE, TRUE)
            [] OTHER -> {})

decide_wake_context_dispatch(leaf, expected_generation, source, now) ==
    Context({[leaf EXCEPT !.job = j] :
        j \in {n \in decide_wake(leaf.job, expected_generation, source, now) :
                  leaf.state = "deferred" /\ leaf.resume}})

decide_context_control(leaf, kind, now) ==
    LET dispatched == leaf.job.state = "running"
    IN  IF leaf.state \in TerminalState \/ (kind = "timeout" /\ now < leaf.deadline) THEN {}
        ELSE Context({[l EXCEPT !.consumed = @ \/ dispatched,
                                !.charged = @ + IF dispatched THEN use_query(leaf) ELSE 0] :
                 l \in ended_by_owner(leaf, kind)})
=============================================================================
