---------------------------- MODULE ExternalLeaf ----------------------------
(***************************************************************************)
(* One external leaf of a Run from its admission to its end, as the        *)
(* PostgreSQL adapter drives it: a Capability invocation, a Model turn or  *)
(* a Context query, together with the permit it takes from its Run         *)
(* (runs.active_work_count) and the quota it reserves.  Every action is    *)
(* one transaction.                                                        *)
(*                                                                         *)
(* Workers claim, answer late, or disappear; wakes and answers of people   *)
(* arrive in any order; the Run is cancelled or runs out of time at any    *)
(* moment, and its convergence and the scans for expired leases race the   *)
(* workers.  The leaf is the only work of its Run, whose plan Node waits   *)
(* for it.  Left out: pausing, the gates of the deployment, the amounts of *)
(* a quota line (only how often it is reserved and charged matters), and   *)
(* the commands that control a leaf without its Run, which no service      *)
(* issues.                                                                 *)
(***************************************************************************)
EXTENDS LeafDecisions

CONSTANTS Admissions,      \* the admissions under test
          Deadline,        \* the leaf's deadline
          RunDeadline,     \* its Run's deadline
          AttemptLimit,    \* admission.attempt_limit
          LeaseDuration,   \* LeasePolicy
          Backoff,         \* retry backoff
          PollLimit,       \* implementation_features.max_poll_count
          CleanupDeadline, \* the end of a Capability backend's cleanup window
          MaxTime,         \* bound: the clock stops here
          MaxClaims        \* bound: a dispatch is only parked while more claims are left

ASSUME LeafAssumption ==
    /\ Deadline \in Nat /\ RunDeadline \in Nat /\ CleanupDeadline \in Nat /\ MaxTime \in Nat
    /\ AttemptLimit \in Nat \ {0} /\ LeaseDuration \in Nat \ {0} /\ Backoff \in Nat \ {0}
    /\ PollLimit \in Nat /\ MaxClaims \in Nat
    /\ Admissions \subseteq [domain : {"capability", "model", "context"}, effect : Effect,
                             cancellation : BOOLEAN]

VARIABLES now, admission, leaf,
          run,        \* the Run: its state, its control request, this leaf's permits
          reserved,   \* quota reservations of this leaf still open
          held,       \* the fence each worker believes it holds
          unproven    \* history: a dispatched write nobody has answered for

vars == <<now, admission, leaf, run, reserved, held, unproven>>

NoFence == [expected_version |-> 0, worker |-> NoWorker, lease_generation |-> 0]

Ended == leaf.state \in TerminalState
Leased == leaf.job.lease # NoLease
Domain(d) == admission.domain = d

Init ==
    /\ now = 0
    /\ admission \in Admissions
    /\ leaf = [state |-> "ready", deadline |-> Deadline, job |-> NoJob, resume |-> FALSE,
               polls |-> 0, consumed |-> FALSE, charged |-> 0]
    /\ run = [state |-> "waiting", control |-> "none", permits |-> 0]
    /\ reserved = 0
    /\ held = [w \in Workers |-> NoFence]
    /\ unproven = FALSE

-----------------------------------------------------------------------------
(* What a transaction of a leaf does to the Run it belongs to: the set of  *)
(* accepted successors of the Run row.                                     *)

require_claim_parents ==
    /\ run.state \in {"running", "waiting"}
    /\ run.control = "none"
    /\ now < RunDeadline

claimed_permit == [run EXCEPT !.state = "running", !.permits = @ + 1]

\* Mutant: the permit of an unfinished dispatch is kept.
capability_permit_kept(r) == {r}

\* The last permit given back leaves the Run waiting.
release_capability_plan_leaf_permit(r) ==
    {[x EXCEPT !.permits = @ - 1,
               !.state = IF @ # "cancelling" /\ x.permits = 1 THEN "waiting" ELSE @] :
        x \in {y \in {r} : y.permits >= 1}}

release_model_plan_leaf_permit(r) ==
    {[x EXCEPT !.permits = @ - 1] : x \in {y \in {r} : y.permits > 0}}

release_context_plan_leaf_permit(r) ==
    {[x EXCEPT !.permits = @ - 1] : x \in {y \in {r} : y.state = "running" /\ y.permits > 0}}

\* The Node is made ready again, with the result or with the failure.
settle_external_leaf_success_in_transaction(r) ==
    {[x EXCEPT !.permits = @ - 1, !.state = IF @ = "waiting" THEN "running" ELSE @] :
        x \in {y \in {r} : y.permits >= 1}}

settle_external_leaf_failure_in_transaction(r) ==
    {[x EXCEPT !.permits = @ - 1, !.state = IF @ = "waiting" THEN "running" ELSE @] :
        x \in {y \in {r} : y.permits >= 1}}

-----------------------------------------------------------------------------
(* Dispatch.                                                               *)

Prepare ==
    /\ leaf' \in CASE Domain("capability") -> decide_prepare_dispatch(leaf, now, AttemptLimit)
                   [] Domain("model") -> decide_prepare_model_dispatch(leaf, now, AttemptLimit)
                   [] Domain("context") -> decide_prepare_context_dispatch(leaf, now, AttemptLimit)
    /\ UNCHANGED <<now, admission, run, reserved, held, unproven>>

\* Claim, start, quota reservation and Run permit are one transaction.
started(w, leaves) ==
    /\ require_claim_parents
    /\ held[w] = NoFence
    /\ leaf.job # NoJob
    /\ leaf.job.lease_generation < MaxClaims
    /\ leaf' \in leaves
    /\ held' = [held EXCEPT ![w] = fence_of(leaf'.job)]
    /\ reserved' = reserved + 1
    /\ run' = claimed_permit
    /\ unproven' = (unproven \/ writes(admission))
    /\ UNCHANGED <<now, admission>>

claim_capability_jobs(w) ==
    Domain("capability") /\ started(w, decide_start_dispatch(leaf, now, w, LeaseDuration))

claim_model_jobs(w) ==
    Domain("model") /\ started(w, decide_start_model_dispatch(leaf, now, w, LeaseDuration))

claim_context_jobs(w) ==
    Domain("context") /\ started(w, decide_start_context_dispatch(leaf, now, w, LeaseDuration))

-----------------------------------------------------------------------------
(* Outcomes.  A parking outcome is only considered while a claim is left.  *)

Outcomes ==
    {o \in [kind : {"completed", "deferred", "input_required", "retryable", "permanent",
                    "uncertain"},
            at : {None, now + 1, Deadline}] :
        /\ o.kind \in {"completed", "permanent", "uncertain"} => o.at = None
        /\ o.kind = "deferred" => o.at \in {None, now + 1}
        /\ o.kind = "retryable" => o.at = now + 1
        /\ o.kind = "input_required" => o.at # None
        /\ o.kind \in {"deferred", "input_required", "retryable"} =>
               leaf.job.lease_generation < MaxClaims}

\* The answer says what became of the write, unless it is still under way.
answered(outcome) == unproven /\ outcome.kind \in {"deferred", "uncertain"}

commit_capability_outcome(w) ==
    /\ Domain("capability") /\ held[w] # NoFence
    /\ \E outcome \in Outcomes :
          /\ leaf' \in decide_dispatch_outcome(leaf, admission, held[w], outcome, now, PollLimit)
          /\ run' \in CASE outcome.kind = "completed" ->
                             settle_external_leaf_success_in_transaction(run)
                        [] outcome.kind = "permanent" ->
                             settle_external_leaf_failure_in_transaction(run)
                        [] OTHER -> release_capability_plan_leaf_permit(run)
          /\ unproven' = answered(outcome)
    /\ reserved' = reserved - 1
    /\ held' = [held EXCEPT ![w] = NoFence]
    /\ UNCHANGED <<now, admission>>

commit_model_outcome_inner(w) ==
    /\ Domain("model") /\ held[w] # NoFence
    /\ \E outcome \in Outcomes :
          /\ leaf' \in decide_model_outcome(leaf, held[w], outcome, now)
          /\ run' \in CASE outcome.kind = "completed" ->
                             settle_external_leaf_success_in_transaction(run)
                        [] outcome.kind = "permanent" ->
                             settle_external_leaf_failure_in_transaction(run)
                        [] OTHER -> release_model_plan_leaf_permit(run)
          /\ unproven' = answered(outcome)
    /\ reserved' = reserved - 1
    /\ held' = [held EXCEPT ![w] = NoFence]
    /\ UNCHANGED <<now, admission>>

\* A deferred or retried query keeps the permit of the dispatch it has given up.
commit_context_outcome_inner(w) ==
    /\ Domain("context") /\ held[w] # NoFence
    /\ \E outcome \in Outcomes :
          /\ leaf' \in decide_context_outcome(leaf, held[w], outcome, now, PollLimit)
          /\ run' \in CASE outcome.kind = "completed" ->
                             settle_external_leaf_success_in_transaction(run)
                        [] outcome.kind = "permanent" ->
                             settle_external_leaf_failure_in_transaction(run)
                        [] OTHER -> {run}
          /\ unproven' = answered(outcome)
    /\ reserved' = reserved - 1
    /\ held' = [held EXCEPT ![w] = NoFence]
    /\ UNCHANGED <<now, admission>>

\* A worker dies, or learns that its fence is stale; what it dispatched stays out there.
WorkerStops(w) ==
    /\ held[w] # NoFence
    /\ held' = [held EXCEPT ![w] = NoFence]
    /\ UNCHANGED <<now, admission, leaf, run, reserved, unproven>>

-----------------------------------------------------------------------------
(* Wakes of a parked dispatch, by a callback, a poll or a person's answer. *)

woken(leaves) ==
    /\ leaf.job # NoJob
    /\ leaf' \in leaves
    /\ UNCHANGED <<now, admission, run, reserved, held, unproven>>

Generations == 1 .. leaf.job.lease_generation

wake_capability_invocation ==
    /\ Domain("capability")
    /\ \E g \in Generations, source \in {"callback", "poll"} :
          woken(decide_capability_wake(leaf, g, source, now))

resolve_capability_input ==
    /\ Domain("capability")
    /\ \E g \in Generations : woken(decide_input_response(leaf, g, now))

wake_context_dispatch ==
    /\ Domain("context")
    /\ \E g \in Generations, source \in {"callback", "poll"} :
          woken(decide_wake_context_dispatch(leaf, g, source, now))

-----------------------------------------------------------------------------
(* Control: the Run is cancelled or times out, and convergence carries     *)
(* that to the leaf.                                                       *)

RequestCancel ==
    /\ run.state \in {"running", "waiting"}
    /\ run' = [run EXCEPT !.state = "cancelling", !.control = "cancel"]
    /\ UNCHANGED <<now, admission, leaf, reserved, held, unproven>>

TimeoutRun ==
    /\ run.state \in {"running", "waiting"}
    /\ RunDeadline <= now
    /\ run' = [run EXCEPT !.state = "cancelling", !.control = "timeout"]
    /\ UNCHANGED <<now, admission, leaf, reserved, held, unproven>>

\* Capability and Context follow the Run, and only time out what is past its own deadline.
control_kind ==
    IF (run.control = "timeout" \/ RunDeadline <= now) /\ Deadline <= now
    THEN "timeout" ELSE "cancel"

converge_capability_for_run ==
    /\ Domain("capability") /\ run.state = "cancelling" /\ ~Ended
    /\ leaf.state \notin {"cancelling", "reconciliation_required"}
    /\ leaf' \in decide_control(leaf, admission, control_kind, now)
    /\ IF reserved > 0 /\ leaf'.job.lease = NoLease
       THEN reserved' = reserved - 1 /\ run' \in release_capability_plan_leaf_permit(run)
       ELSE UNCHANGED <<reserved, run>>
    /\ UNCHANGED <<now, admission, held, unproven>>

\* A request in flight is cancelled even after its deadline, never timed out.
converge_model_for_run ==
    /\ Domain("model") /\ run.state = "cancelling" /\ ~Ended
    /\ leaf.state # "cancelling"
    /\ leaf' \in decide_model_control(
                     leaf, IF leaf.state # "in_flight" /\ Deadline <= now THEN "timeout"
                           ELSE "cancel", now)
    /\ IF leaf'.charged # leaf.charged
       THEN reserved' = reserved - 1 /\ run' \in release_model_plan_leaf_permit(run)
       ELSE UNCHANGED <<reserved, run>>
    /\ UNCHANGED <<now, admission, held, unproven>>

converge_context_for_run ==
    /\ Domain("context") /\ run.state = "cancelling" /\ ~Ended
    /\ leaf' \in decide_context_control(leaf, control_kind, now)
    /\ IF reserved > 0
       THEN /\ run.permits > 0
            /\ reserved' = reserved - 1 /\ run' = [run EXCEPT !.permits = @ - 1]
       ELSE UNCHANGED <<reserved, run>>
    /\ UNCHANGED <<now, admission, held, unproven>>

\* The worker reads the version the control left behind; the lease itself must be its own.
current_fence(w) == [held[w] EXCEPT !.expected_version = leaf.job.version]

\* Fenced by the lease holder, or without a fence once no lease is in force.
commit_capability_cancellation_outcome(w) ==
    /\ Domain("capability")
    /\ \E fences \in {{}} \cup {{current_fence(w)} : v \in {x \in {w} : held[x] # NoFence}},
          cleanup \in {{}, {CleanupDeadline}}, proof \in BOOLEAN :
          /\ leaf' \in decide_cancellation_outcome(leaf, admission, fences, cleanup, proof, now)
          /\ unproven' = (unproven /\ ~proof)
          /\ held' = IF fences = {} THEN held ELSE [held EXCEPT ![w] = NoFence]
    /\ IF reserved > 0
       THEN reserved' = reserved - 1 /\ run' \in release_capability_plan_leaf_permit(run)
       ELSE UNCHANGED <<reserved, run>>
    /\ UNCHANGED <<now, admission>>

commit_model_cancellation_outcome(w) ==
    /\ Domain("model") /\ held[w] # NoFence
    /\ leaf' \in decide_model_cancellation_outcome(leaf, {current_fence(w)}, now)
    /\ held' = [held EXCEPT ![w] = NoFence]
    /\ reserved' = reserved - 1
    /\ run' \in release_model_plan_leaf_permit(run)
    /\ UNCHANGED <<now, admission, unproven>>

\* An operator settles what the platform could not prove.
resolve_capability_reconciliation ==
    /\ Domain("capability") /\ leaf.job # NoJob
    /\ \E resolution \in {"succeeded", "failed", "cancelled"} :
          leaf' \in decide_reconciliation_resolution(leaf, resolution)
    /\ unproven' = FALSE
    /\ UNCHANGED <<now, admission, run, reserved, held>>

-----------------------------------------------------------------------------
(* The scans for leases that ran out.                                      *)

LeaseExpired == Leased /\ leaf.job.lease.expires_at <= now

retry_at == IF now + Backoff < Deadline THEN now + Backoff ELSE None

\* Mutant: the scan only looks at leases.
recover_only_leased ==
    /\ Domain("capability") /\ LeaseExpired
    /\ leaf' \in IF leaf.state = "cancelling"
                 THEN decide_cancellation_outcome(leaf, admission, {}, {}, FALSE, now)
                 ELSE decide_expired_dispatch(leaf, admission, now, retry_at)
    /\ reserved' = reserved - 1
    /\ run' \in IF leaf'.state = "timed_out" THEN settle_external_leaf_failure_in_transaction(run)
                ELSE release_capability_plan_leaf_permit(run)
    /\ UNCHANGED <<now, admission, held, unproven>>

\* A cancellation nobody acknowledged is closed too, with or without a lease.
recover_expired_capability_job ==
    /\ Domain("capability")
    /\ \/ /\ leaf.state = "in_flight" /\ leaf.job.state = "running" /\ LeaseExpired
          /\ leaf' \in decide_expired_dispatch(leaf, admission, now, retry_at)
       \/ /\ leaf.state = "cancelling" /\ leaf.job.state = "cancelling"
          /\ LeaseExpired \/ ~Leased
          /\ leaf' \in decide_cancellation_outcome(leaf, admission, {}, {}, FALSE, now)
    /\ IF reserved > 0
       THEN /\ reserved' = reserved - 1
            /\ run' \in IF leaf'.state = "timed_out"
                        THEN settle_external_leaf_failure_in_transaction(run)
                        ELSE release_capability_plan_leaf_permit(run)
       ELSE UNCHANGED <<reserved, run>>
    /\ UNCHANGED <<now, admission, held, unproven>>

\* Only before the deadline, and only when a retry still fits; a cancelled request always.
recover_expired_model_job ==
    /\ Domain("model")
    /\ \/ /\ leaf.state = "in_flight" /\ leaf.job.state = "running"
          /\ LeaseExpired /\ now < Deadline
          /\ leaf.job.attempt_count < AttemptLimit => retry_at # None
          /\ leaf' \in decide_expired_model_lease(leaf, now, retry_at)
       \/ /\ leaf.state = "cancelling" /\ leaf.job.state = "cancelling"
          /\ LeaseExpired \/ Deadline <= now
          /\ leaf' \in decide_model_cancellation_outcome(leaf, {}, now)
    /\ reserved' = reserved - 1
    /\ run' \in IF leaf'.state = "failed" THEN settle_external_leaf_failure_in_transaction(run)
                ELSE release_model_plan_leaf_permit(run)
    /\ UNCHANGED <<now, admission, held, unproven>>

recover_expired_context_job ==
    /\ Domain("context")
    /\ leaf.job.state = "running" /\ leaf.state = "in_flight" /\ LeaseExpired
    /\ now < Deadline /\ leaf.job.attempt_count < AttemptLimit
    /\ retry_at # None
    /\ leaf' \in decide_expired_context_lease(leaf, now, retry_at)
    /\ reserved' = reserved - 1
    /\ run' \in release_context_plan_leaf_permit(run)
    /\ UNCHANGED <<now, admission, held, unproven>>

Tick ==
    /\ now < MaxTime
    /\ now' = now + 1
    /\ UNCHANGED <<admission, leaf, run, reserved, held, unproven>>

Converge == converge_capability_for_run \/ converge_model_for_run \/ converge_context_for_run

RecoverExpired ==
    \/ recover_expired_capability_job
    \/ recover_expired_model_job
    \/ recover_expired_context_job

Next ==
    \/ Prepare
    \/ \E w \in Workers : \/ claim_capability_jobs(w)
                          \/ claim_model_jobs(w)
                          \/ claim_context_jobs(w)
                          \/ commit_capability_outcome(w)
                          \/ commit_model_outcome_inner(w)
                          \/ commit_context_outcome_inner(w)
                          \/ commit_capability_cancellation_outcome(w)
                          \/ commit_model_cancellation_outcome(w)
                          \/ WorkerStops(w)
    \/ wake_capability_invocation
    \/ resolve_capability_input
    \/ wake_context_dispatch
    \/ resolve_capability_reconciliation
    \/ RequestCancel
    \/ TimeoutRun
    \/ Converge
    \/ RecoverExpired
    \/ Tick

\* Time passes, and the safety workers keep scanning for Runs past their deadline, for
\* Runs to converge and for expired leases.  No worker, caller or person need ever act.
Fairness == WF_vars(Tick) /\ WF_vars(TimeoutRun) /\ WF_vars(Converge) /\ WF_vars(RecoverExpired)

Spec == Init /\ [][Next]_vars /\ Fairness

-----------------------------------------------------------------------------
(* Properties.                                                             *)

\* The Job states an owner in a given state may be stored with.
JobStatesOf(state) ==
    CASE state = "ready" -> {"none", "ready"}
      [] state = "in_flight" -> IF Domain("capability") THEN {"running", "ready"} ELSE {"running"}
      [] state = "awaiting_input" -> {"waiting"}
      [] state = "deferred" -> IF Domain("context") THEN {"waiting", "ready"} ELSE {"waiting"}
      [] state \in {"cancelled", "timed_out"} -> {"none", state}
      [] OTHER -> {state}

\* The stored leaf and its Run have their types, the Job satisfies the authority's own
\* validation, and owner and Job, written by one transaction, agree on where the leaf is.
TypeOK ==
    /\ now \in 0 .. MaxTime
    /\ admission \in Admissions
    /\ leaf.state \in LeafState
    /\ leaf.job = NoJob \/ (leaf.job \in JobProjection /\ validate(leaf.job))
    /\ leaf.job.state \in JobStatesOf(leaf.state)
    /\ run.state \in {"running", "waiting", "cancelling"}
    /\ run.control \in {"none", "cancel", "timeout"}
    /\ run.permits \in Nat /\ reserved \in Nat /\ leaf.charged \in Nat
    /\ unproven \in BOOLEAN

\* However claims, outcomes, expiry scans and Run control interleave, an invocation or a
\* turn holds its Run's permit exactly while its Job is under a lease: a permit given back
\* twice would let the Run end early, one kept would keep it from ending.
PermitFollowsLease ==
    ~Domain("context") => run.permits = IF Leased THEN 1 ELSE 0

\* A quota reservation is open exactly while the Job is under a lease, and every dispatched
\* attempt is charged once: a Model turn when its reservation is settled, a Context query
\* with the attempt's first outcome, also when it is deferred, expires or is cancelled.
DispatchesChargedOnce ==
    /\ reserved = IF Leased THEN 1 ELSE 0
    /\ Domain("model") => leaf.charged = leaf.job.attempt_count - reserved
    /\ Domain("context") =>
          leaf.charged = leaf.job.attempt_count
                         - IF leaf.job.state = "running" /\ ~leaf.consumed THEN 1 ELSE 0

\* A write without an idempotency key is dispatched at most once, and unless its deadline
\* passed it is never reported as ended while nobody has answered for the dispatch: it is
\* left to reconciliation.
WritesAreNotGuessed ==
    Domain("capability") /\ admission.effect = "write" =>
        /\ leaf.job.attempt_count <= 1
        /\ leaf.state \in {"succeeded", "failed", "cancelled"} => ~unproven

\* A write that was woken but not yet claimed when its Run was controlled: its Job is
\* ready, from where the Job table has no step to reconciliation, so control is refused.
StrandedWrite ==
    /\ Domain("capability") /\ writes(admission) /\ run.state = "cancelling"
    /\ leaf.state = "in_flight" /\ leaf.job.state = "ready"

\* Whatever workers and backends fail to do, every leaf ends or is left to an operator,
\* by its Run's timeout at the latest, except for a stranded write.
EveryLeafEnds ==
    <>[](Ended \/ leaf.state = "reconciliation_required" \/ StrandedWrite)

\* An ended leaf has given back its permits, so that its Run can end.
EndedLeafHoldsNoPermit == Ended => run.permits = 0
=============================================================================
