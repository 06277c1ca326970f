------------------------- MODULE ExternalLeafProofs -------------------------
(***************************************************************************)
(* Proofs about an external leaf for every admission, deadline, lease,     *)
(* limit and number of workers.                                            *)
(*                                                                         *)
(* The permit and the reservation follow the lease only together with the  *)
(* agreement of owner and Job; the charges need to know which attempts     *)
(* still have their query unused or their reservation open; and that a     *)
(* write is never guessed rests on a chain of facts about what was left    *)
(* ready, parked or asked of a person.                                     *)
(***************************************************************************)
EXTENDS ExternalLeaf, LeafDecisionTheorems

Run == [state : {"running", "waiting", "cancelling"}, control : {"none", "cancel", "timeout"},
        permits : Nat]

\* Types in full: TypeOK does not speak of the payload and the records' domains.
StoredLeaf ==
    /\ TypeOK
    /\ leaf \in Leaf
    /\ run \in Run

\* A turn never resumes an attempt, and is only cancelled under its lease.
ModelPart ==
    Domain("model") =>
        /\ ~leaf.resume
        /\ leaf.state = "cancelling" => Leased

\* A resumed query was used; the query of an attempt to come was not.
ContextPart ==
    Domain("context") =>
        /\ leaf.resume => leaf.consumed
        /\ leaf.state \in {"ready", "retry_scheduled"} => ~leaf.consumed

\* The payload of an invocation passes its own validation.  A write without an
\* idempotency key is never scheduled again, is ready for a first attempt only, and
\* nothing of it is unproven while it was not dispatched or waits for a person.
CapabilityPart ==
    Domain("capability") =>
        /\ capability_payload_valid(leaf)
        /\ admission.effect = "write" =>
              /\ leaf.state # "retry_scheduled"
              /\ leaf.job.state = "ready" /\ ~leaf.resume => leaf.job.attempt_count = 0
              /\ leaf.state \in {"ready", "awaiting_input"} => ~unproven

LeafInvariant ==
    /\ StoredLeaf
    /\ PermitFollowsLease
    /\ DispatchesChargedOnce
    /\ WritesAreNotGuessed
    /\ ModelPart
    /\ ContextPart
    /\ CapabilityPart

-----------------------------------------------------------------------------
(* The Run's permits.                                                      *)

\* However a permit is given back, there was one, and it is one less.
LEMMA PermitReleased ==
    ASSUME NEW r \in Run,
           NEW x \in release_capability_plan_leaf_permit(r)
                     \cup release_model_plan_leaf_permit(r)
                     \cup release_context_plan_leaf_permit(r)
                     \cup settle_external_leaf_success_in_transaction(r)
                     \cup settle_external_leaf_failure_in_transaction(r)
    PROVE  x \in Run /\ x.permits = r.permits - 1
<1>1. r.permits >= 1 /\ r.permits - 1 \in Nat
  <2>1. r.permits \in Nat
    BY DEF Run
  <2>2. CASE x \in release_capability_plan_leaf_permit(r)
    <3>1. \E y \in {r} : y.permits >= 1
      BY <2>2, Zenon DEF release_capability_plan_leaf_permit
    <3> QED
      BY <2>1, <3>1
  <2>3. CASE x \in release_model_plan_leaf_permit(r)
    BY <2>1, <2>3 DEF release_model_plan_leaf_permit
  <2>4. CASE x \in release_context_plan_leaf_permit(r)
    BY <2>1, <2>4 DEF release_context_plan_leaf_permit
  <2>5. CASE x \in settle_external_leaf_success_in_transaction(r)
    <3>1. \E y \in {r} : y.permits >= 1
      BY <2>5, Zenon DEF settle_external_leaf_success_in_transaction
    <3> QED
      BY <2>1, <3>1
  <2>6. CASE x \in settle_external_leaf_failure_in_transaction(r)
    <3>1. \E y \in {r} : y.permits >= 1
      BY <2>6, Zenon DEF settle_external_leaf_failure_in_transaction
    <3> QED
      BY <2>1, <3>1
  <2> QED
    BY <2>2, <2>3, <2>4, <2>5, <2>6
<1> DEFINE permits == r.permits - 1
<1>2. \E state \in {"running", "waiting", "cancelling"} :
        x = [r EXCEPT !.permits = permits, !.state = state]
  <2>1. r.state \in {"running", "waiting", "cancelling"} /\ r = [r EXCEPT !.state = r.state]
    BY DEF Run
  <2>2. CASE x \in release_capability_plan_leaf_permit(r)
    BY <2>1, <2>2 DEF Run, release_capability_plan_leaf_permit
  <2>3. CASE x \in release_model_plan_leaf_permit(r) \cup release_context_plan_leaf_permit(r)
    <3>1. x = [r EXCEPT !.permits = permits, !.state = r.state]
      BY <2>1, <2>3 DEF Run, release_model_plan_leaf_permit, release_context_plan_leaf_permit
    <3> QED
      BY <2>1, <3>1
  <2>4. CASE x \in settle_external_leaf_success_in_transaction(r)
                  \cup settle_external_leaf_failure_in_transaction(r)
    BY <2>1, <2>4 DEF Run, settle_external_leaf_success_in_transaction,
                           settle_external_leaf_failure_in_transaction
  <2> QED
    BY <2>2, <2>3, <2>4
<1>3. permits \in Nat
  BY <1>1
<1> HIDE DEF permits
<1>4. x \in Run /\ x.permits = permits
  BY <1>2, <1>3 DEF Run
<1> QED
  BY <1>4 DEF permits

\* A claim takes one more.
LEMMA PermitTaken ==
    ASSUME run \in Run
    PROVE  claimed_permit \in Run /\ claimed_permit.permits = run.permits + 1
<1> DEFINE permits == run.permits + 1
<1>1. permits \in Nat /\ claimed_permit = [run EXCEPT !.state = "running", !.permits = permits]
  BY DEF Run, claimed_permit
<1> HIDE DEF permits
<1>2. claimed_permit \in Run /\ claimed_permit.permits = permits
  BY <1>1 DEF Run
<1> QED
  BY <1>2 DEF permits

-----------------------------------------------------------------------------
(* What the invariant says, in the terms the decisions use.                *)

\* What the invariant says of the types of the leaf, its Run and its Job.
LEMMA LeafFacts ==
    ASSUME LeafInvariant
    PROVE  /\ leaf \in Leaf /\ run \in Run /\ run.permits \in Nat /\ reserved \in Nat
           /\ now \in Nat /\ leaf.charged \in Nat /\ unproven \in BOOLEAN
           /\ leaf.job = NoJob <=> leaf.job.state = "none"
           /\ leaf.job # NoJob => HasJob(leaf)
           /\ leaf.job.state = "running" => Leased
           /\ Leased => leaf.job.state \in {"leased", "running", "cancelling"}
           /\ leaf.job.attempt_count \in Nat
           /\ leaf.job.state \in JobStatesOf(leaf.state)
<1>1. /\ leaf \in Leaf /\ run \in Run /\ reserved \in Nat /\ now \in Nat
      /\ unproven \in BOOLEAN
      /\ leaf.job = NoJob \/ (leaf.job \in JobProjection /\ validate(leaf.job))
      /\ leaf.job.state \in JobStatesOf(leaf.state)
  BY LeafAssumption DEF LeafInvariant, StoredLeaf, TypeOK
<1>2. run.permits \in Nat /\ leaf.charged \in Nat
  BY <1>1 DEF Run, Leaf
<1>3. CASE leaf.job = NoJob
  <2>1. NoJob.state = "none" /\ NoJob.lease = NoLease /\ NoJob.attempt_count = 0
    BY DEF NoJob
  <2> QED
    BY <1>1, <1>2, <1>3, <2>1 DEF Leased
<1>4. CASE leaf.job \in JobProjection /\ validate(leaf.job)
  <2>1. leaf.job.state # "none" /\ leaf.job.attempt_count \in Nat /\ leaf.job # NoJob
    BY <1>4 DEF JobProjection, JobState, NoJob
  <2>2. leaf.job.state = "running" => Leased
    BY <1>4 DEF validate, Leased
  <2>3. Leased => leaf.job.state \in {"leased", "running", "cancelling"}
    BY <1>4 DEF validate, Leased
  <2> QED
    BY <1>1, <1>2, <1>4, <2>1, <2>2, <2>3 DEF HasJob
<1> QED
  BY <1>1, <1>3, <1>4

\* An accepted claim is a new lease, a permit and a reservation.
LEMMA CapabilityClaimKeeps ==
    ASSUME LeafInvariant, NEW w \in Workers, claim_capability_jobs(w)
    PROVE  LeafInvariant'
<1>1. /\ Domain("capability") /\ leaf.job # NoJob
      /\ leaf' \in decide_start_dispatch(leaf, now, w, LeaseDuration)
      /\ reserved' = reserved + 1 /\ run' = claimed_permit
      /\ unproven' = (unproven \/ writes(admission)) /\ UNCHANGED <<now, admission>>
  BY DEF claim_capability_jobs, started
<1>2. leaf.job \in JobProjection
  BY <1>1, LeafFacts DEF HasJob
<1>3. /\ Starts(leaf, leaf') /\ leaf'.resume = FALSE /\ capability_payload_valid(leaf')
      /\ leaf.state \in {"ready", "retry_scheduled", "in_flight"}
  BY <1>1, <1>2, LeafFacts, LeafAssumption, StartedCapability
<1>4. /\ HasJob(leaf') /\ leaf'.state = "in_flight" /\ leaf'.job.state = "running"
      /\ leaf'.job.lease # NoLease /\ leaf.job.state \in {"ready", "retry_scheduled"}
      /\ IF leaf.resume THEN leaf.job.state = "ready"
                             /\ leaf'.job.attempt_count = leaf.job.attempt_count
         ELSE leaf'.job.attempt_count = leaf.job.attempt_count + 1
  BY <1>3 DEF Starts
<1>5. run' \in Run /\ run'.permits = run.permits + 1
  BY <1>1, LeafFacts, PermitTaken
<1>6. StoredLeaf'
  BY <1>1, <1>4, <1>5, LeafFacts
     DEF LeafInvariant, StoredLeaf, TypeOK, HasJob, Leaf, LeafState, JobStatesOf, Domain, Run
<1>7. ~Leased /\ Leased'
  BY <1>4, LeafFacts DEF Leased
<1>8. PermitFollowsLease' /\ DispatchesChargedOnce'
  BY <1>1, <1>5, <1>7 DEF LeafInvariant, PermitFollowsLease, DispatchesChargedOnce, Domain
<1>9. CapabilityPart'
  BY <1>1, <1>3, <1>4 DEF CapabilityPart, Domain, capability_payload_valid
<1>10. WritesAreNotGuessed'
  BY <1>1, <1>3, <1>4, LeafFacts DEF LeafInvariant, WritesAreNotGuessed, CapabilityPart, Domain,
                                     JobStatesOf
<1>11. ModelPart' /\ ContextPart'
  BY <1>1 DEF ModelPart, ContextPart, Domain
<1> QED
  BY <1>6, <1>8, <1>9, <1>10, <1>11 DEF LeafInvariant

-----------------------------------------------------------------------------
(* Steps that leave the Job without a lease.                               *)

\* Nothing held, nothing reserved: whatever was open is given back.
LEMMA PermitGivenBack ==
    ASSUME LeafInvariant, ~Domain("context"),
           \/ /\ reserved > 0 /\ reserved' = reserved - 1
              /\ run' \in release_capability_plan_leaf_permit(run)
                          \cup release_model_plan_leaf_permit(run)
                          \cup settle_external_leaf_success_in_transaction(run)
                          \cup settle_external_leaf_failure_in_transaction(run)
           \/ reserved = 0 /\ UNCHANGED <<reserved, run>>
    PROVE  run' \in Run /\ run'.permits = 0 /\ reserved' = 0
<1>1. run \in Run /\ run.permits = reserved /\ reserved \in {0, 1}
  BY LeafFacts DEF LeafInvariant, PermitFollowsLease, DispatchesChargedOnce
<1>2. CASE reserved = 0
  BY <1>1, <1>2
<1>3. CASE reserved = 1
  <2>1. reserved' = 0 /\ run' \in release_capability_plan_leaf_permit(run)
                          \cup release_model_plan_leaf_permit(run)
                          \cup release_context_plan_leaf_permit(run)
                          \cup settle_external_leaf_success_in_transaction(run)
                          \cup settle_external_leaf_failure_in_transaction(run)
    BY <1>3
  <2>2. run' \in Run /\ run'.permits = run.permits - 1
    BY <1>1, <2>1, PermitReleased
  <2> QED
    BY <1>1, <1>3, <2>1, <2>2
<1> QED
  BY <1>1, <1>2, <1>3

\* What every such step has to keep.
LEMMA Unleased ==
    ASSUME LeafInvariant, UNCHANGED admission, now' \in 0 .. MaxTime, unproven' \in BOOLEAN,
           NEW state, NEW job_state, Leaves(leaf, leaf', state, job_state),
           job_state \in JobStatesOf(state), run' \in Run, reserved' = 0
    PROVE  /\ StoredLeaf' /\ ~Leased' /\ leaf'.state = state /\ leaf'.job.state = job_state
           /\ leaf'.job.attempt_count = leaf.job.attempt_count /\ leaf'.charged \in Nat
<1>1. /\ HasJob(leaf') /\ leaf'.state = state /\ leaf'.job.state = job_state
      /\ leaf'.job.lease = NoLease /\ leaf'.job.attempt_count = leaf.job.attempt_count
  BY DEF Leaves
<1>2. leaf' \in Leaf /\ leaf'.job \in JobProjection /\ validate(leaf'.job)
  BY <1>1 DEF HasJob
<1>3. leaf'.state \in LeafState /\ leaf'.charged \in Nat
  BY <1>2 DEF Leaf
<1>4. run'.state \in {"running", "waiting", "cancelling"}
      /\ run'.control \in {"none", "cancel", "timeout"} /\ run'.permits \in Nat
  BY DEF Run
<1>5. (leaf.job.state \in JobStatesOf(leaf.state))'
  BY <1>1 DEF JobStatesOf, Domain
<1>6. TypeOK'
  BY <1>2, <1>3, <1>4, <1>5 DEF LeafInvariant, StoredLeaf, TypeOK
<1> QED
  BY <1>1, <1>2, <1>3, <1>6 DEF StoredLeaf, Leased

\* An invocation that leaves its lease behind, permit and reservation given back.
LEMMA CapabilityUnleased ==
    ASSUME LeafInvariant, Domain("capability"), UNCHANGED admission, now' \in 0 .. MaxTime,
           unproven' \in BOOLEAN,
           NEW state, NEW job_state, Leaves(leaf, leaf', state, job_state),
           job_state \in JobStatesOf(state), capability_payload_valid(leaf'),
           run' \in Run, run'.permits = 0, reserved' = 0,
           admission.effect = "write" =>
               /\ state # "retry_scheduled"
               /\ job_state = "ready" => leaf'.resume
               /\ state \in {"ready", "awaiting_input", "succeeded", "failed", "cancelled"}
                    => ~unproven'
    PROVE  LeafInvariant'
<1>1. /\ StoredLeaf' /\ ~Leased' /\ leaf'.state = state /\ leaf'.job.state = job_state
      /\ leaf'.job.attempt_count = leaf.job.attempt_count
  BY Unleased
<1>2. PermitFollowsLease' /\ DispatchesChargedOnce' /\ ModelPart' /\ ContextPart'
  BY <1>1 DEF PermitFollowsLease, DispatchesChargedOnce, ModelPart, ContextPart, Domain
<1>3. WritesAreNotGuessed'
  BY <1>1 DEF WritesAreNotGuessed, Domain, LeafInvariant
<1>4. CapabilityPart'
  BY <1>1 DEF CapabilityPart, Domain
<1> QED
  BY <1>1, <1>2, <1>3, <1>4 DEF LeafInvariant

\* A turn that leaves its lease behind is charged what was reserved.
LEMMA ModelUnleased ==
    ASSUME LeafInvariant, Domain("model"), UNCHANGED admission, now' \in 0 .. MaxTime,
           unproven' \in BOOLEAN,
           NEW state, Leaves(leaf, leaf', state, state), state \in JobStatesOf(state),
           state # "cancelling", ~leaf'.resume, leaf'.charged = leaf.charged + reserved,
           run' \in Run, run'.permits = 0, reserved' = 0
    PROVE  LeafInvariant'
<1>1. /\ StoredLeaf' /\ ~Leased' /\ leaf'.state = state
      /\ leaf'.job.attempt_count = leaf.job.attempt_count
  BY Unleased
<1>2. leaf'.charged = leaf'.job.attempt_count - reserved'
  BY <1>1, LeafFacts DEF LeafInvariant, DispatchesChargedOnce
<1>3. PermitFollowsLease' /\ DispatchesChargedOnce'
  BY <1>1, <1>2 DEF PermitFollowsLease, DispatchesChargedOnce, Domain
<1>4. ModelPart' /\ ContextPart' /\ CapabilityPart' /\ WritesAreNotGuessed'
  BY <1>1 DEF ModelPart, ContextPart, CapabilityPart, WritesAreNotGuessed, Domain
<1> QED
  BY <1>1, <1>3, <1>4 DEF LeafInvariant

\* A query that leaves its lease behind has been charged once per attempt.
LEMMA ContextUnleased ==
    ASSUME LeafInvariant, Domain("context"), UNCHANGED admission, now' \in 0 .. MaxTime,
           unproven' \in BOOLEAN,
           NEW state, NEW job_state, Leaves(leaf, leaf', state, job_state),
           job_state \in JobStatesOf(state), job_state # "running",
           leaf'.charged = leaf'.job.attempt_count,
           leaf'.resume => leaf'.consumed,
           state \in {"ready", "retry_scheduled"} => ~leaf'.consumed,
           run' \in Run, reserved' = 0
    PROVE  LeafInvariant'
<1>1. /\ StoredLeaf' /\ ~Leased' /\ leaf'.state = state /\ leaf'.job.state = job_state
      /\ leaf'.charged \in Nat
  BY Unleased
<1>2. PermitFollowsLease' /\ DispatchesChargedOnce'
  BY <1>1 DEF PermitFollowsLease, DispatchesChargedOnce, Domain
<1>3. ModelPart' /\ ContextPart' /\ CapabilityPart' /\ WritesAreNotGuessed'
  BY <1>1 DEF ModelPart, ContextPart, CapabilityPart, WritesAreNotGuessed, Domain
<1> QED
  BY <1>1, <1>2, <1>3 DEF LeafInvariant

\* A leaf that control ends before its dispatch was prepared.
LEMMA EndedAlone ==
    ASSUME LeafInvariant, UNCHANGED <<now, admission, run, reserved, unproven>>,
           leaf.job = NoJob, leaf.state \notin TerminalState,
           leaf' \in Leaf, leaf'.job = NoJob, leaf'.state \in {"cancelled", "timed_out"},
           ~leaf'.resume, leaf'.charged = leaf.charged
    PROVE  LeafInvariant'
<1>1. /\ NoJob.state = "none" /\ NoJob.lease = NoLease /\ NoJob.attempt_count = 0
  BY DEF NoJob
<1>2. leaf.state = "ready"
  BY <1>1, LeafFacts DEF JobStatesOf, Leaf, LeafState, TerminalState
<1>3. (leaf.job.state \in JobStatesOf(leaf.state))'
  BY <1>1 DEF JobStatesOf, Domain
<1>4. StoredLeaf'
  BY <1>3, LeafFacts DEF LeafInvariant, StoredLeaf, TypeOK, Leaf
<1>5. PermitFollowsLease' /\ DispatchesChargedOnce' /\ ModelPart' /\ ContextPart'
  BY <1>1 DEF LeafInvariant, PermitFollowsLease, DispatchesChargedOnce, ModelPart, ContextPart,
              Domain, Leased
<1>6. CapabilityPart' /\ WritesAreNotGuessed'
  BY <1>1, <1>2 DEF LeafInvariant, CapabilityPart, WritesAreNotGuessed, Domain,
                    capability_payload_valid
<1> QED
  BY <1>4, <1>5, <1>6 DEF LeafInvariant

-----------------------------------------------------------------------------
(* The inductive step: Capability invocations.                             *)

\* The outcomes considered are answers.
LEMMA OutcomesAreAnswers ==
    ASSUME LeafInvariant, NEW outcome \in Outcomes
    PROVE  /\ outcome \in Answer
           /\ outcome.kind \in {"completed", "deferred", "input_required", "retryable",
                                "permanent", "uncertain"}
<1>1. {None, now + 1, Deadline} \subseteq OptionTime
  BY LeafFacts, LeafAssumption DEF OptionTime
<1> QED
  BY <1>1 DEF Outcomes, Answer

\* The outcome of an invocation, whichever it is, keeps the invariant.
LEMMA CapabilityOutcomeKeeps ==
    ASSUME LeafInvariant, NEW w \in Workers, commit_capability_outcome(w)
    PROVE  LeafInvariant'
<1>1. PICK outcome \in Outcomes :
        /\ leaf' \in decide_dispatch_outcome(leaf, admission, held[w], outcome, now, PollLimit)
        /\ run' \in CASE outcome.kind = "completed" ->
                           settle_external_leaf_success_in_transaction(run)
                      [] outcome.kind = "permanent" ->
                           settle_external_leaf_failure_in_transaction(run)
                      [] OTHER -> release_capability_plan_leaf_permit(run)
        /\ unproven' = answered(outcome)
        /\ Domain("capability") /\ reserved' = reserved - 1 /\ UNCHANGED <<now, admission>>
  BY DEF commit_capability_outcome
<1>2. outcome \in Answer /\ PollLimit \in Nat
  BY OutcomesAreAnswers, LeafAssumption
<1>3. /\ leaf.state = "in_flight" /\ leaf.job.state = "running"
      /\ Leaves(leaf, leaf', OwnerAfter(outcome.kind), JobAfter(outcome.kind))
      /\ outcome.kind = "retryable" => replayable(admission)
      /\ leaf'.resume <=> outcome.kind \in {"deferred", "input_required"}
      /\ capability_payload_valid(leaf')
  BY <1>1, <1>2, LeafFacts, AnsweredCapability
<1>4. reserved > 0
  BY <1>3, LeafFacts DEF LeafInvariant, DispatchesChargedOnce
<1>5. run' \in release_capability_plan_leaf_permit(run)
               \cup settle_external_leaf_success_in_transaction(run)
               \cup settle_external_leaf_failure_in_transaction(run)
  BY <1>1
<1>6. run' \in Run /\ run'.permits = 0 /\ reserved' = 0
  BY <1>1, <1>4, <1>5, PermitGivenBack DEF Domain
<1>7. outcome.kind \in {"completed", "deferred", "input_required", "retryable", "permanent",
                        "uncertain"}
  BY OutcomesAreAnswers
<1>8. unproven' \in BOOLEAN
  BY <1>1, LeafFacts DEF answered
<1>9. JobAfter(outcome.kind) \in JobStatesOf(OwnerAfter(outcome.kind))
  BY <1>1, <1>7 DEF JobAfter, OwnerAfter, JobStatesOf, Domain
<1>10. admission.effect = "write" =>
         /\ OwnerAfter(outcome.kind) # "retry_scheduled"
         /\ JobAfter(outcome.kind) # "ready"
         /\ OwnerAfter(outcome.kind) \in {"ready", "awaiting_input", "succeeded", "failed",
                                          "cancelled"} => ~unproven'
  BY <1>1, <1>3, <1>7 DEF JobAfter, OwnerAfter, answered, replayable
<1> QED
  <2>1. now' \in 0 .. MaxTime
    BY <1>1 DEF LeafInvariant, StoredLeaf, TypeOK
  <2> QED
    BY <1>1, <1>3, <1>6, <1>8, <1>9, <1>10, <2>1, CapabilityUnleased

\* Only a replayable dispatch is scheduled again by the scan.
LEMMA CapabilityRecoveryKeeps ==
    ASSUME LeafInvariant, recover_expired_capability_job
    PROVE  LeafInvariant'
<1>1. /\ Domain("capability") /\ UNCHANGED <<now, admission, unproven>>
      /\ \/ leaf' \in decide_expired_dispatch(leaf, admission, now, retry_at)
         \/ leaf' \in decide_cancellation_outcome(leaf, admission, {}, {}, FALSE, now)
      /\ \/ /\ reserved > 0 /\ reserved' = reserved - 1
            /\ run' \in release_capability_plan_leaf_permit(run)
                        \cup settle_external_leaf_failure_in_transaction(run)
         \/ ~(reserved > 0) /\ UNCHANGED <<reserved, run>>
  BY DEF recover_expired_capability_job
<1>2. retry_at \in OptionTime /\ now' \in 0 .. MaxTime /\ unproven' \in BOOLEAN
  BY <1>1, LeafFacts, LeafAssumption DEF retry_at, OptionTime, None, LeafInvariant, StoredLeaf,
                                         TypeOK
<1>3. run' \in Run /\ run'.permits = 0 /\ reserved' = 0
  BY <1>1, LeafFacts, PermitGivenBack DEF Domain
<1>4. /\ Leaves(leaf, leaf', leaf'.state, leaf'.state)
      /\ leaf'.state \in {"timed_out", "retry_scheduled", "reconciliation_required", "cancelled"}
      /\ leaf'.state = "retry_scheduled" => replayable(admission)
      /\ leaf'.state = "cancelled" => ~writes(admission)
      /\ capability_payload_valid(leaf')
  <2>1. CASE leaf' \in decide_expired_dispatch(leaf, admission, now, retry_at)
    BY <1>2, <2>1, LeafFacts, ExpiredCapability
  <2>2. CASE leaf' \in decide_cancellation_outcome(leaf, admission, {}, {}, FALSE, now)
    <3>1. FALSE \in BOOLEAN
      OBVIOUS
    <3> QED
      BY <2>2, <3>1, LeafFacts, CancelledCapability
  <2> QED
    BY <1>1, <2>1, <2>2
<1>5. leaf'.state \in JobStatesOf(leaf'.state)
  BY <1>4 DEF JobStatesOf
<1>6. admission.effect = "write" => leaf'.state \in {"timed_out", "reconciliation_required"}
  BY <1>4 DEF replayable, writes
<1> QED
  BY <1>1, <1>2, <1>3, <1>4, <1>5, <1>6, CapabilityUnleased

\* Woken Jobs keep what they resume.
LEMMA CapabilityWakeKeeps ==
    ASSUME LeafInvariant, wake_capability_invocation \/ resolve_capability_input
    PROVE  LeafInvariant'
<1>1. /\ Domain("capability") /\ leaf.job # NoJob
      /\ UNCHANGED <<now, admission, run, reserved, unproven>>
      /\ \E g \in Generations :
           \/ \E source \in {"callback", "poll"} :
                 leaf' \in decide_capability_wake(leaf, g, source, now)
           \/ leaf' \in decide_input_response(leaf, g, now)
  BY DEF wake_capability_invocation, resolve_capability_input, woken
<1>2. leaf.job \in JobProjection
  BY <1>1, LeafFacts DEF HasJob
<1>3. /\ leaf.job.state = "waiting" /\ capability_payload_valid(leaf')
      /\ leaf'.resume = leaf.resume
      /\ \/ leaf.state = "deferred" /\ Leaves(leaf, leaf', "in_flight", "ready")
         \/ leaf.state = "awaiting_input" /\ Leaves(leaf, leaf', "ready", "ready")
  BY <1>1, <1>2, LeafFacts, WokenCapability, InputCapability
<1>4. leaf.resume
  BY <1>1, <1>3 DEF LeafInvariant, CapabilityPart, capability_payload_valid
<1>5. ~Leased
  BY <1>3, LeafFacts
<1>6. run' \in Run /\ run'.permits = 0 /\ reserved' = 0 /\ unproven' \in BOOLEAN
      /\ now' \in 0 .. MaxTime
  BY <1>1, <1>5, LeafFacts DEF LeafInvariant, PermitFollowsLease, DispatchesChargedOnce, Domain,
                               StoredLeaf, TypeOK
<1>7. CASE leaf.state = "deferred" /\ Leaves(leaf, leaf', "in_flight", "ready")
  <2>1. "ready" \in JobStatesOf("in_flight")
    BY <1>1 DEF JobStatesOf
  <2> QED
    BY <1>1, <1>3, <1>4, <1>6, <1>7, <2>1, CapabilityUnleased
<1>8. CASE leaf.state = "awaiting_input" /\ Leaves(leaf, leaf', "ready", "ready")
  <2>1. "ready" \in JobStatesOf("ready")
    BY DEF JobStatesOf
  <2>2. admission.effect = "write" => ~unproven'
    BY <1>1, <1>8 DEF LeafInvariant, CapabilityPart
  <2> QED
    BY <1>1, <1>3, <1>4, <1>6, <1>8, <2>1, <2>2, CapabilityUnleased
<1> QED
  BY <1>3, <1>7, <1>8

\* Control of an invocation: cancelled under its lease, reconciled, or ended.
LEMMA CapabilityControlKeeps ==
    ASSUME LeafInvariant, converge_capability_for_run
    PROVE  LeafInvariant'
<1>1. /\ Domain("capability") /\ UNCHANGED <<now, admission, unproven>>
      /\ leaf.state # "cancelling" /\ leaf.state \notin TerminalState
      /\ leaf' \in decide_control(leaf, admission, control_kind, now)
      /\ \/ /\ reserved > 0 /\ leaf'.job.lease = NoLease /\ reserved' = reserved - 1
            /\ run' \in release_capability_plan_leaf_permit(run)
         \/ ~(reserved > 0 /\ leaf'.job.lease = NoLease) /\ UNCHANGED <<reserved, run>>
  BY DEF converge_capability_for_run, Ended
<1>2. /\ control_kind \in {"cancel", "timeout"} /\ now' \in 0 .. MaxTime
      /\ unproven' \in BOOLEAN
  BY <1>1, LeafFacts DEF control_kind, LeafInvariant, StoredLeaf, TypeOK
<1>3. /\ leaf \in Leaf /\ now \in Nat /\ leaf.state # "cancelling"
      /\ leaf.state \in {"in_flight", "deferred"} => leaf.job # NoJob
      /\ leaf' \in decide_control(leaf, admission, control_kind, now)
  BY <1>1, LeafFacts DEF JobStatesOf
<1>4. /\ leaf'.resume = FALSE /\ capability_payload_valid(leaf')
      /\ \/ /\ HasJob(leaf') /\ leaf'.state = "cancelling" /\ leaf'.job.state = "cancelling"
            /\ leaf'.job.lease = leaf.job.lease
            /\ leaf'.job.attempt_count = leaf.job.attempt_count
         \/ Leaves(leaf, leaf', "reconciliation_required", "reconciliation_required")
         \/ /\ leaf'.state \in {"cancelled", "timed_out"}
            /\ writes(admission) => leaf.state \notin {"in_flight", "deferred"}
            /\ \/ leaf.job = NoJob /\ leaf' \in Leaf /\ leaf'.job = NoJob
               \/ leaf.job # NoJob /\ Leaves(leaf, leaf', leaf'.state, leaf'.state)
      /\ KeepsCharges(leaf, leaf')
      /\ leaf.state \notin TerminalState \cup {"reconciliation_required"}
  BY <1>2, <1>3, ControlledCapability, ZenonT(60)
<1>5. ASSUME leaf'.job.lease = NoLease
      PROVE  run' \in Run /\ run'.permits = 0 /\ reserved' = 0
  BY <1>1, <1>5, LeafFacts, PermitGivenBack DEF Domain
<1>6. CASE /\ HasJob(leaf') /\ leaf'.state = "cancelling" /\ leaf'.job.state = "cancelling"
           /\ leaf'.job.lease = leaf.job.lease
           /\ leaf'.job.attempt_count = leaf.job.attempt_count
  <2>1. Leased' = Leased /\ UNCHANGED <<reserved, run>>
    BY <1>1, <1>6, LeafFacts DEF Leased, LeafInvariant, DispatchesChargedOnce
  <2>2. (leaf.job.state \in JobStatesOf(leaf.state))'
    BY <1>6 DEF JobStatesOf
  <2>3. StoredLeaf'
    BY <1>1, <1>2, <1>6, <2>1, <2>2, LeafFacts
       DEF LeafInvariant, StoredLeaf, TypeOK, HasJob, Leaf, LeafState
  <2>4. PermitFollowsLease' /\ DispatchesChargedOnce' /\ ModelPart' /\ ContextPart'
    BY <1>1, <2>1 DEF LeafInvariant, PermitFollowsLease, DispatchesChargedOnce, ModelPart,
                      ContextPart, Domain
  <2>5. CapabilityPart' /\ WritesAreNotGuessed'
    BY <1>1, <1>4, <1>6 DEF LeafInvariant, CapabilityPart, WritesAreNotGuessed, Domain
  <2> QED
    BY <2>3, <2>4, <2>5 DEF LeafInvariant
<1>7. CASE Leaves(leaf, leaf', "reconciliation_required", "reconciliation_required")
  <2>1. "reconciliation_required" \in JobStatesOf("reconciliation_required")
    BY DEF JobStatesOf
  <2>2. run' \in Run /\ run'.permits = 0 /\ reserved' = 0
    BY <1>5, <1>7 DEF Leaves
  <2> QED
    BY <1>1, <1>2, <1>4, <1>7, <2>1, <2>2, CapabilityUnleased
<1>8. CASE /\ leaf'.state \in {"cancelled", "timed_out"}
           /\ writes(admission) => leaf.state \notin {"in_flight", "deferred"}
           /\ leaf.job # NoJob /\ Leaves(leaf, leaf', leaf'.state, leaf'.state)
  <2>1. leaf'.state \in JobStatesOf(leaf'.state)
    BY <1>8 DEF JobStatesOf
  <2>2. run' \in Run /\ run'.permits = 0 /\ reserved' = 0
    BY <1>5, <1>8 DEF Leaves
  <2>3. admission.effect = "write" => ~unproven'
    BY <1>1, <1>4, <1>8, LeafFacts DEF writes, LeafInvariant, CapabilityPart, Leaf, LeafState
  <2> QED
    BY <1>1, <1>2, <1>4, <1>8, <2>1, <2>2, <2>3, CapabilityUnleased
<1>9. CASE /\ leaf'.state \in {"cancelled", "timed_out"}
           /\ leaf.job = NoJob /\ leaf' \in Leaf /\ leaf'.job = NoJob
  <2>1. UNCHANGED <<run, reserved>>
    <3>1. NoJob.lease = NoLease
      BY DEF NoJob
    <3> QED
      BY <1>1, <1>9, <3>1 DEF LeafInvariant, DispatchesChargedOnce, Leased
  <2> QED
    BY <1>1, <1>4, <1>9, <2>1, EndedAlone DEF KeepsCharges
<1> QED
  BY <1>4, <1>6, <1>7, <1>8, <1>9

\* A cancelled write was proven to have had no effect.
LEMMA CapabilityCancellationKeeps ==
    ASSUME LeafInvariant, NEW w \in Workers, commit_capability_cancellation_outcome(w)
    PROVE  LeafInvariant'
<1>1. /\ Domain("capability") /\ UNCHANGED <<now, admission>>
      /\ \/ /\ reserved > 0 /\ reserved' = reserved - 1
            /\ run' \in release_capability_plan_leaf_permit(run)
         \/ ~(reserved > 0) /\ UNCHANGED <<reserved, run>>
  BY DEF commit_capability_cancellation_outcome
<1>2. \E fences, cleanup : \E proof \in BOOLEAN :
        /\ leaf' \in decide_cancellation_outcome(leaf, admission, fences, cleanup, proof, now)
        /\ unproven' = (unproven /\ ~proof)
  BY Zenon DEF commit_capability_cancellation_outcome
<1>3. PICK fences, cleanup : \E proof \in BOOLEAN :
        /\ leaf' \in decide_cancellation_outcome(leaf, admission, fences, cleanup, proof, now)
        /\ unproven' = (unproven /\ ~proof)
  BY <1>2
<1>4. PICK proof \in BOOLEAN :
        /\ leaf' \in decide_cancellation_outcome(leaf, admission, fences, cleanup, proof, now)
        /\ unproven' = (unproven /\ ~proof)
  BY <1>3
<1>5. leaf \in Leaf /\ now \in Nat /\ now' \in 0 .. MaxTime /\ unproven' \in BOOLEAN
  BY <1>1, <1>4, LeafFacts DEF LeafInvariant, StoredLeaf, TypeOK
<1>6. /\ Leaves(leaf, leaf', leaf'.state, leaf'.state) /\ capability_payload_valid(leaf')
      /\ leaf'.state \in {"cancelled", "reconciliation_required"}
      /\ leaf'.state = "cancelled" => ~writes(admission) \/ proof
  BY <1>4, <1>5, CancelledCapability, Zenon
<1>7. run' \in Run /\ run'.permits = 0 /\ reserved' = 0
  BY <1>1, LeafFacts, PermitGivenBack DEF Domain
<1>8. leaf'.state \in JobStatesOf(leaf'.state)
  BY <1>6 DEF JobStatesOf
<1>9. admission.effect = "write" /\ leaf'.state = "cancelled" => ~unproven'
  BY <1>4, <1>6 DEF writes
<1> QED
  BY <1>1, <1>5, <1>6, <1>7, <1>8, <1>9, CapabilityUnleased

\* The operator's resolution ends the leaf and answers for the write.
LEMMA CapabilityResolutionKeeps ==
    ASSUME LeafInvariant, resolve_capability_reconciliation
    PROVE  LeafInvariant'
<1>1. PICK resolution \in {"succeeded", "failed", "cancelled"} :
        leaf' \in decide_reconciliation_resolution(leaf, resolution)
  BY DEF resolve_capability_reconciliation
<1>2. /\ Domain("capability") /\ UNCHANGED <<now, admission, run, reserved>>
      /\ unproven' = FALSE /\ now' \in 0 .. MaxTime
  BY DEF resolve_capability_reconciliation, LeafInvariant, StoredLeaf, TypeOK
<1>3. /\ leaf.job.state = "reconciliation_required"
      /\ Leaves(leaf, leaf', resolution, resolution) /\ capability_payload_valid(leaf')
  BY <1>1, LeafFacts, ResolvedCapability
<1>4. run' \in Run /\ run'.permits = 0 /\ reserved' = 0
  BY <1>2, <1>3, LeafFacts DEF LeafInvariant, PermitFollowsLease, DispatchesChargedOnce, Domain
<1>5. resolution \in JobStatesOf(resolution)
  BY DEF JobStatesOf
<1> QED
  BY <1>2, <1>3, <1>4, <1>5, CapabilityUnleased

-----------------------------------------------------------------------------
(* The inductive step: all three domains.                                  *)

\* The first Job of a leaf.
LEMMA PrepareKeeps ==
    ASSUME LeafInvariant, Prepare
    PROVE  LeafInvariant'
<1>1. UNCHANGED <<now, admission, run, reserved, unproven>>
  BY DEF Prepare
<1>2. leaf' \in prepared(leaf, now, AttemptLimit)
  <2>1. admission.domain \in {"capability", "model", "context"}
    BY LeafAssumption DEF LeafInvariant, StoredLeaf, TypeOK
  <2> QED
    BY <2>1 DEF Prepare, Domain, decide_prepare_dispatch, decide_prepare_model_dispatch,
                decide_prepare_context_dispatch
<1>3. /\ HasJob(leaf') /\ leaf'.consumed = leaf.consumed /\ leaf'.charged = leaf.charged
      /\ leaf.state = "ready" /\ leaf.job = NoJob
      /\ leaf'.state = "ready" /\ leaf'.resume = leaf.resume
      /\ leaf'.job.state = "ready" /\ leaf'.job.lease = NoLease /\ leaf'.job.attempt_count = 0
  BY <1>2, LeafFacts, LeafAssumption, PreparedLeaf DEF KeepsCharges
<1>4. NoJob.state = "none" /\ NoJob.lease = NoLease /\ NoJob.attempt_count = 0
  BY DEF NoJob
<1>5. (leaf.job.state \in JobStatesOf(leaf.state))'
  BY <1>3 DEF JobStatesOf
<1>6. StoredLeaf'
  BY <1>1, <1>3, <1>5, LeafFacts DEF LeafInvariant, StoredLeaf, TypeOK, HasJob, Leaf
<1>7. ~Leased /\ ~Leased'
  BY <1>3, <1>4 DEF Leased
<1>8. PermitFollowsLease' /\ DispatchesChargedOnce'
  BY <1>1, <1>3, <1>4, <1>7, LeafFacts DEF LeafInvariant, PermitFollowsLease,
                                           DispatchesChargedOnce, Domain
<1>9. ModelPart' /\ ContextPart'
  BY <1>1, <1>3 DEF LeafInvariant, ModelPart, ContextPart, Domain
<1>10. CapabilityPart' /\ WritesAreNotGuessed'
  BY <1>1, <1>3, <1>4 DEF LeafInvariant, CapabilityPart, WritesAreNotGuessed, Domain,
                          capability_payload_valid
<1> QED
  BY <1>6, <1>8, <1>9, <1>10 DEF LeafInvariant

\* Claims of turns and queries.
LEMMA ModelClaimKeeps ==
    ASSUME LeafInvariant, NEW w \in Workers, claim_model_jobs(w)
    PROVE  LeafInvariant'
<1>1. /\ Domain("model") /\ leaf.job # NoJob
      /\ leaf' \in decide_start_model_dispatch(leaf, now, w, LeaseDuration)
      /\ reserved' = reserved + 1 /\ run' = claimed_permit
      /\ unproven' = (unproven \/ writes(admission)) /\ UNCHANGED <<now, admission>>
  BY DEF claim_model_jobs, started
<1>2. leaf.job \in JobProjection
  BY <1>1, LeafFacts DEF HasJob
<1>3. Starts(leaf, leaf') /\ leaf'.resume = leaf.resume
  BY <1>1, <1>2, LeafFacts, LeafAssumption, StartedModel
<1>4. ~leaf.resume
  BY <1>1 DEF LeafInvariant, ModelPart
<1>5. /\ HasJob(leaf') /\ leaf'.state = "in_flight" /\ leaf'.job.state = "running"
      /\ leaf'.job.lease # NoLease /\ leaf.job.state \in {"ready", "retry_scheduled"}
      /\ leaf'.job.attempt_count = leaf.job.attempt_count + 1
      /\ leaf'.charged = leaf.charged
  BY <1>3, <1>4 DEF Starts, KeepsCharges
<1>6. run' \in Run /\ run'.permits = run.permits + 1
  BY <1>1, LeafFacts, PermitTaken
<1>7. StoredLeaf'
  BY <1>1, <1>5, <1>6, LeafFacts
     DEF LeafInvariant, StoredLeaf, TypeOK, HasJob, Leaf, LeafState, JobStatesOf, Domain, Run
<1>8. ~Leased /\ Leased'
  BY <1>5, LeafFacts DEF Leased
<1>9. PermitFollowsLease' /\ DispatchesChargedOnce'
  BY <1>1, <1>5, <1>6, <1>8, LeafFacts DEF LeafInvariant, PermitFollowsLease,
                                           DispatchesChargedOnce, Domain
<1>10. ModelPart' /\ ContextPart' /\ CapabilityPart' /\ WritesAreNotGuessed'
  BY <1>1, <1>3, <1>4, <1>5 DEF ModelPart, ContextPart, CapabilityPart, WritesAreNotGuessed, Domain
<1> QED
  BY <1>7, <1>9, <1>10 DEF LeafInvariant

\* The claim of a query, first or resumed, keeps the invariant.
LEMMA ContextClaimKeeps ==
    ASSUME LeafInvariant, NEW w \in Workers, claim_context_jobs(w)
    PROVE  LeafInvariant'
<1>1. /\ Domain("context") /\ leaf.job # NoJob
      /\ leaf' \in decide_start_context_dispatch(leaf, now, w, LeaseDuration)
      /\ reserved' = reserved + 1 /\ run' = claimed_permit
      /\ unproven' = (unproven \/ writes(admission)) /\ UNCHANGED <<now, admission>>
  BY DEF claim_context_jobs, started
<1>2. leaf.job \in JobProjection
  BY <1>1, LeafFacts DEF HasJob
<1>3. /\ Starts(leaf, leaf') /\ leaf'.resume = leaf.resume
      /\ IF leaf.resume THEN leaf.state = "deferred"
                        ELSE leaf.state \in {"ready", "retry_scheduled"}
  BY <1>1, <1>2, LeafFacts, LeafAssumption, StartedContext
<1>4. leaf.consumed <=> leaf.resume
  BY <1>1, <1>3, LeafFacts DEF LeafInvariant, ContextPart, Leaf
<1>5. /\ HasJob(leaf') /\ leaf'.state = "in_flight" /\ leaf'.job.state = "running"
      /\ leaf'.job.lease # NoLease /\ leaf.job.state \in {"ready", "retry_scheduled"}
      /\ leaf'.job.attempt_count = leaf.job.attempt_count + IF leaf.resume THEN 0 ELSE 1
      /\ leaf'.charged = leaf.charged /\ leaf'.consumed = leaf.consumed
  BY <1>3, LeafFacts DEF Starts, KeepsCharges
<1>6. run' \in Run
  BY <1>1, LeafFacts, PermitTaken
<1>7. StoredLeaf'
  BY <1>1, <1>5, <1>6, LeafFacts
     DEF LeafInvariant, StoredLeaf, TypeOK, HasJob, Leaf, LeafState, JobStatesOf, Domain, Run
<1>8. ~Leased /\ Leased'
  BY <1>5, LeafFacts DEF Leased
<1>9. leaf.charged = leaf.job.attempt_count
  BY <1>1, <1>5, LeafFacts DEF LeafInvariant, DispatchesChargedOnce
<1>10. PermitFollowsLease' /\ DispatchesChargedOnce'
  BY <1>1, <1>4, <1>5, <1>8, <1>9, LeafFacts DEF LeafInvariant, PermitFollowsLease,
                                                 DispatchesChargedOnce, Domain
<1>11. ModelPart' /\ ContextPart' /\ CapabilityPart' /\ WritesAreNotGuessed'
  BY <1>1, <1>3, <1>4, <1>5 DEF ModelPart, ContextPart, CapabilityPart, WritesAreNotGuessed, Domain
<1> QED
  BY <1>7, <1>10, <1>11 DEF LeafInvariant

-----------------------------------------------------------------------------
(* The inductive step: Model turns.                                        *)

\* Every outcome settles the reservation and charges the attempt.
LEMMA ModelSettles ==
    ASSUME LeafInvariant, Domain("model"), UNCHANGED <<now, admission>>, unproven' \in BOOLEAN,
           leaf.state \in {"in_flight", "cancelling"},
           Leaves(leaf, leaf', leaf'.state, leaf'.state), Accounts(leaf, leaf'),
           leaf'.state \in {"succeeded", "failed", "cancelled", "retry_scheduled"},
           reserved' = reserved - 1,
           run' \in release_model_plan_leaf_permit(run)
                    \cup settle_external_leaf_success_in_transaction(run)
                    \cup settle_external_leaf_failure_in_transaction(run)
    PROVE  LeafInvariant'
<1>1. Leased /\ ~leaf.resume
  BY LeafFacts DEF LeafInvariant, ModelPart, JobStatesOf, Domain
<1>2. reserved = 1
  BY <1>1 DEF LeafInvariant, DispatchesChargedOnce
<1>3. run' \in Run /\ run'.permits = 0 /\ reserved' = 0
  BY <1>2, PermitGivenBack DEF Domain
<1>4. leaf'.charged = leaf.charged + reserved /\ ~leaf'.resume
  BY <1>1, <1>2 DEF Accounts
<1>5. leaf'.state \in JobStatesOf(leaf'.state) /\ leaf'.state # "cancelling"
  BY DEF JobStatesOf
<1>6. now' \in 0 .. MaxTime
  BY DEF LeafInvariant, StoredLeaf, TypeOK
<1> QED
  BY <1>3, <1>4, <1>5, <1>6, ModelUnleased

\* The outcome of a turn keeps the invariant.
LEMMA ModelOutcomeKeeps ==
    ASSUME LeafInvariant, NEW w \in Workers, commit_model_outcome_inner(w)
    PROVE  LeafInvariant'
<1>1. PICK outcome \in Outcomes :
        /\ leaf' \in decide_model_outcome(leaf, held[w], outcome, now)
        /\ run' \in CASE outcome.kind = "completed" ->
                           settle_external_leaf_success_in_transaction(run)
                      [] outcome.kind = "permanent" ->
                           settle_external_leaf_failure_in_transaction(run)
                      [] OTHER -> release_model_plan_leaf_permit(run)
        /\ unproven' = answered(outcome)
        /\ Domain("model") /\ reserved' = reserved - 1 /\ UNCHANGED <<now, admission>>
  BY DEF commit_model_outcome_inner
<1>2. outcome \in Answer
  BY OutcomesAreAnswers
<1>3. /\ leaf.state = "in_flight" /\ outcome.kind \in {"completed", "retryable", "permanent"}
      /\ leaf'.state = OwnerAfter(outcome.kind)
      /\ Leaves(leaf, leaf', leaf'.state, leaf'.state) /\ Accounts(leaf, leaf')
  BY <1>1, <1>2, LeafFacts, AnsweredModel
<1>4. leaf'.state \in {"succeeded", "failed", "cancelled", "retry_scheduled"}
  BY <1>3 DEF OwnerAfter
<1>5. run' \in release_model_plan_leaf_permit(run)
               \cup settle_external_leaf_success_in_transaction(run)
               \cup settle_external_leaf_failure_in_transaction(run)
  BY <1>1
<1>6. unproven' \in BOOLEAN
  BY <1>1, LeafFacts DEF answered
<1> QED
  BY <1>1, <1>3, <1>4, <1>5, <1>6, ModelSettles

\* A turn that proves its cancellation keeps the invariant.
LEMMA ModelCancellationKeeps ==
    ASSUME LeafInvariant, NEW w \in Workers, commit_model_cancellation_outcome(w)
    PROVE  LeafInvariant'
<1>1. /\ leaf' \in decide_model_cancellation_outcome(leaf, {current_fence(w)}, now)
      /\ run' \in release_model_plan_leaf_permit(run)
      /\ Domain("model") /\ reserved' = reserved - 1 /\ UNCHANGED <<now, admission, unproven>>
  BY DEF commit_model_cancellation_outcome
<1>2. /\ leaf.state = "cancelling"
      /\ Leaves(leaf, leaf', "cancelled", "cancelled") /\ Accounts(leaf, leaf')
  BY <1>1, LeafFacts, CancelledModel
<1>3. leaf'.state = "cancelled"
  BY <1>2 DEF Leaves
<1>4. unproven' \in BOOLEAN
  BY <1>1, LeafFacts
<1> QED
  BY <1>1, <1>2, <1>3, <1>4, ModelSettles

\* Recovery of a turn whose lease has expired keeps the invariant.
LEMMA ModelRecoveryKeeps ==
    ASSUME LeafInvariant, recover_expired_model_job
    PROVE  LeafInvariant'
<1>1. /\ \/ leaf' \in decide_expired_model_lease(leaf, now, retry_at)
         \/ leaf' \in decide_model_cancellation_outcome(leaf, {}, now)
      /\ run' \in release_model_plan_leaf_permit(run)
                  \cup settle_external_leaf_failure_in_transaction(run)
      /\ Domain("model") /\ reserved' = reserved - 1 /\ UNCHANGED <<now, admission, unproven>>
  BY DEF recover_expired_model_job
<1>2. retry_at \in OptionTime
  BY LeafFacts, LeafAssumption DEF retry_at, OptionTime, None
<1>3. /\ leaf.state \in {"in_flight", "cancelling"}
      /\ leaf'.state \in {"failed", "cancelled", "retry_scheduled"}
      /\ Leaves(leaf, leaf', leaf'.state, leaf'.state) /\ Accounts(leaf, leaf')
  <2>1. CASE leaf' \in decide_expired_model_lease(leaf, now, retry_at)
    BY <1>2, <2>1, LeafFacts, ExpiredModel
  <2>2. CASE leaf' \in decide_model_cancellation_outcome(leaf, {}, now)
    <3>1. /\ leaf.state = "cancelling"
          /\ Leaves(leaf, leaf', "cancelled", "cancelled") /\ Accounts(leaf, leaf')
      BY <2>2, LeafFacts, CancelledModel
    <3> QED
      BY <3>1 DEF Leaves
  <2> QED
    BY <1>1, <2>1, <2>2
<1>4. unproven' \in BOOLEAN
  BY <1>1, LeafFacts
<1> QED
  BY <1>1, <1>3, <1>4, ModelSettles

\* A turn in flight keeps its lease, permit and reservation until it is accounted for.
LEMMA ModelControlKeeps ==
    ASSUME LeafInvariant, converge_model_for_run
    PROVE  LeafInvariant'
<1> DEFINE kind == IF leaf.state # "in_flight" /\ Deadline <= now THEN "timeout" ELSE "cancel"
<1>1. /\ Domain("model") /\ UNCHANGED <<now, admission, unproven>>
      /\ leaf.state # "cancelling" /\ leaf.state \notin TerminalState
      /\ leaf' \in decide_model_control(leaf, kind, now)
      /\ leaf'.charged = leaf.charged => UNCHANGED <<reserved, run>>
  BY DEF converge_model_for_run, Ended
<1>2. /\ kind \in {"cancel", "timeout"} /\ now' \in 0 .. MaxTime /\ unproven' \in BOOLEAN
      /\ leaf.state = "in_flight" => leaf.job \in JobProjection /\ kind = "cancel"
  BY <1>1, LeafFacts DEF LeafInvariant, StoredLeaf, TypeOK, JobStatesOf, HasJob
<1> HIDE DEF kind
<1>3. leaf \in Leaf /\ now \in Nat
  BY LeafFacts
<1>4. \/ /\ leaf.state = "in_flight" /\ KeepsCharges(leaf, leaf') /\ leaf'.resume = leaf.resume
         /\ HasJob(leaf') /\ leaf'.state = "cancelling" /\ leaf'.job.state = "cancelling"
         /\ leaf'.job.lease = leaf.job.lease
         /\ leaf'.job.attempt_count = leaf.job.attempt_count
      \/ /\ leaf.state # "in_flight"
         /\ leaf'.state \in {"cancelled", "timed_out"} /\ leaf'.resume = FALSE
         /\ leaf'.charged = leaf.charged + IF leaf.job.lease # NoLease THEN 1 ELSE 0
         /\ \/ leaf.job = NoJob /\ leaf' \in Leaf /\ leaf'.job = NoJob
            \/ leaf.job # NoJob /\ Leaves(leaf, leaf', leaf'.state, leaf'.state)
  BY <1>1, <1>2, <1>3, ControlledModel, Zenon
<1>5. CASE leaf.state = "in_flight"
  <2>1. /\ leaf'.resume = leaf.resume /\ leaf'.charged = leaf.charged
        /\ HasJob(leaf') /\ leaf'.state = "cancelling" /\ leaf'.job.state = "cancelling"
        /\ leaf'.job.lease = leaf.job.lease
        /\ leaf'.job.attempt_count = leaf.job.attempt_count
    BY <1>4, <1>5 DEF KeepsCharges
  <2>2. Leased /\ Leased' /\ UNCHANGED <<reserved, run>>
    BY <1>1, <1>5, <2>1, LeafFacts DEF Leased, JobStatesOf, Domain
  <2>3. (leaf.job.state \in JobStatesOf(leaf.state))'
    BY <2>1 DEF JobStatesOf
  <2>4. StoredLeaf'
    BY <1>1, <1>2, <2>1, <2>2, <2>3, LeafFacts
       DEF LeafInvariant, StoredLeaf, TypeOK, HasJob, Leaf, LeafState
  <2>5. PermitFollowsLease' /\ DispatchesChargedOnce' /\ ModelPart' /\ ContextPart'
    BY <1>1, <2>1, <2>2 DEF LeafInvariant, PermitFollowsLease, DispatchesChargedOnce, ModelPart,
                            ContextPart, Domain
  <2>6. CapabilityPart' /\ WritesAreNotGuessed'
    BY <1>1 DEF CapabilityPart, WritesAreNotGuessed, Domain
  <2> QED
    BY <2>4, <2>5, <2>6 DEF LeafInvariant
<1>6. CASE leaf.state # "in_flight"
  <2>1. ~Leased
    BY <1>1, <1>6, LeafFacts DEF JobStatesOf, Leaf, LeafState
  <2>2. leaf'.charged = leaf.charged
    BY <1>4, <1>6, <2>1, LeafFacts DEF Leased
  <2>3. /\ UNCHANGED <<reserved, run>> /\ run' \in Run /\ run'.permits = 0
        /\ reserved = 0 /\ reserved' = 0
    BY <1>1, <2>1, <2>2, LeafFacts DEF LeafInvariant, PermitFollowsLease, DispatchesChargedOnce,
                                       Domain
  <2>4. CASE leaf.job = NoJob
    BY <1>1, <1>4, <1>6, <2>2, <2>3, <2>4, EndedAlone
  <2>5. CASE leaf.job # NoJob
    <3>1. Leaves(leaf, leaf', leaf'.state, leaf'.state) /\ ~leaf'.resume
          /\ leaf'.state \in {"cancelled", "timed_out"}
      BY <1>4, <1>6, <2>5
    <3>2. leaf'.state \in JobStatesOf(leaf'.state) /\ leaf'.state # "cancelling"
      BY <3>1 DEF JobStatesOf
    <3>3. leaf'.charged = leaf.charged + reserved
      BY <2>2, <2>3, LeafFacts
    <3> QED
      BY <1>1, <1>2, <2>3, <3>1, <3>2, <3>3, ModelUnleased
  <2> QED
    BY <2>4, <2>5
<1> QED
  BY <1>5, <1>6

-----------------------------------------------------------------------------
(* The inductive step: Context queries.                                    *)

\* What the query of the attempt was not charged for yet, an outcome charges.
LEMMA QueryCharged ==
    ASSUME LeafInvariant, Domain("context"), Uses(leaf, leaf'), leaf.job.state = "running"
    PROVE  leaf'.charged = leaf.job.attempt_count
BY LeafFacts DEF LeafInvariant, DispatchesChargedOnce, Uses, use_query

\* The outcome of a query, deferral included, keeps the invariant.
LEMMA ContextOutcomeKeeps ==
    ASSUME LeafInvariant, NEW w \in Workers, commit_context_outcome_inner(w)
    PROVE  LeafInvariant'
<1>1. PICK outcome \in Outcomes :
        /\ leaf' \in decide_context_outcome(leaf, held[w], outcome, now, PollLimit)
        /\ run' \in CASE outcome.kind = "completed" ->
                           settle_external_leaf_success_in_transaction(run)
                      [] outcome.kind = "permanent" ->
                           settle_external_leaf_failure_in_transaction(run)
                      [] OTHER -> {run}
        /\ unproven' = answered(outcome)
        /\ Domain("context") /\ reserved' = reserved - 1 /\ UNCHANGED <<now, admission>>
  BY DEF commit_context_outcome_inner
<1>2. outcome \in Answer /\ PollLimit \in Nat
  BY OutcomesAreAnswers, LeafAssumption
<1>3. /\ leaf.state = "in_flight" /\ leaf.job.state = "running"
      /\ outcome.kind \in {"completed", "deferred", "retryable", "permanent"}
      /\ leaf'.state = OwnerAfter(outcome.kind)
      /\ Leaves(leaf, leaf', leaf'.state, JobAfter(outcome.kind)) /\ Uses(leaf, leaf')
      /\ leaf'.consumed <=> outcome.kind # "retryable"
      /\ leaf'.resume => leaf'.consumed
  BY <1>1, <1>2, LeafFacts, AnsweredContext
<1>4. reserved' = 0
  BY <1>1, <1>3, LeafFacts DEF LeafInvariant, DispatchesChargedOnce
<1>5. run' \in Run
  <2>1. \/ run' = run
        \/ run' \in settle_external_leaf_success_in_transaction(run)
                    \cup settle_external_leaf_failure_in_transaction(run)
    BY <1>1
  <2> QED
    BY <2>1, LeafFacts, PermitReleased
<1>6. /\ JobAfter(outcome.kind) \in JobStatesOf(leaf'.state) /\ JobAfter(outcome.kind) # "running"
      /\ leaf'.state \in {"ready", "retry_scheduled"} => ~leaf'.consumed
  BY <1>1, <1>3 DEF OwnerAfter, JobAfter, JobStatesOf, Domain
<1>7. leaf'.charged = leaf'.job.attempt_count
  BY <1>1, <1>3, QueryCharged DEF Leaves
<1>8. now' \in 0 .. MaxTime /\ unproven' \in BOOLEAN
  BY <1>1, LeafFacts DEF answered, LeafInvariant, StoredLeaf, TypeOK
<1> QED
  BY <1>1, <1>3, <1>4, <1>5, <1>6, <1>7, <1>8, ContextUnleased

\* Recovery of a query whose lease has expired keeps the invariant.
LEMMA ContextRecoveryKeeps ==
    ASSUME LeafInvariant, recover_expired_context_job
    PROVE  LeafInvariant'
<1>1. /\ leaf' \in decide_expired_context_lease(leaf, now, retry_at)
      /\ run' \in release_context_plan_leaf_permit(run)
      /\ Domain("context") /\ reserved' = reserved - 1 /\ UNCHANGED <<now, admission, unproven>>
  BY DEF recover_expired_context_job
<1>2. retry_at \in OptionTime
  BY LeafFacts, LeafAssumption DEF retry_at, OptionTime, None
<1>3. /\ leaf.job.state = "running" /\ ~leaf'.resume /\ ~leaf'.consumed /\ Uses(leaf, leaf')
      /\ Leaves(leaf, leaf', "retry_scheduled", "retry_scheduled")
  BY <1>1, <1>2, LeafFacts, ExpiredContext
<1>4. reserved' = 0 /\ run' \in Run
  BY <1>1, <1>3, LeafFacts, PermitReleased DEF LeafInvariant, DispatchesChargedOnce
<1>5. "retry_scheduled" \in JobStatesOf("retry_scheduled")
  BY DEF JobStatesOf
<1>6. leaf'.charged = leaf'.job.attempt_count
  BY <1>1, <1>3, QueryCharged DEF Leaves
<1>7. now' \in 0 .. MaxTime /\ unproven' \in BOOLEAN
  BY <1>1, LeafFacts DEF LeafInvariant, StoredLeaf, TypeOK
<1> QED
  BY <1>1, <1>3, <1>4, <1>5, <1>6, <1>7, ContextUnleased

\* The wake of a deferred query keeps the invariant.
LEMMA ContextWakeKeeps ==
    ASSUME LeafInvariant, wake_context_dispatch
    PROVE  LeafInvariant'
<1>1. /\ Domain("context") /\ leaf.job # NoJob
      /\ UNCHANGED <<now, admission, run, reserved, unproven>>
      /\ \E g \in Generations, source \in {"callback", "poll"} :
            leaf' \in decide_wake_context_dispatch(leaf, g, source, now)
  BY DEF wake_context_dispatch, woken
<1>2. leaf.job \in JobProjection
  BY <1>1, LeafFacts DEF HasJob
<1>3. /\ leaf.job.state = "waiting" /\ KeepsCharges(leaf, leaf')
      /\ Leaves(leaf, leaf', "deferred", "ready") /\ leaf'.resume = leaf.resume
  BY <1>1, <1>2, LeafFacts, WokenContext
<1>4. reserved' = 0 /\ run' \in Run
  BY <1>1, <1>3, LeafFacts DEF LeafInvariant, DispatchesChargedOnce
<1>5. "ready" \in JobStatesOf("deferred")
  BY <1>1 DEF JobStatesOf
<1>6. leaf'.charged = leaf'.job.attempt_count /\ (leaf'.resume => leaf'.consumed)
  BY <1>1, <1>3, LeafFacts DEF Leaves, KeepsCharges, LeafInvariant, DispatchesChargedOnce,
                               ContextPart
<1>7. now' \in 0 .. MaxTime /\ unproven' \in BOOLEAN
  BY <1>1, LeafFacts DEF LeafInvariant, StoredLeaf, TypeOK
<1> QED
  BY <1>1, <1>3, <1>4, <1>5, <1>6, <1>7, ContextUnleased

\* Control fences a running query at once, and charges it unless it was charged before.
LEMMA ContextControlKeeps ==
    ASSUME LeafInvariant, converge_context_for_run
    PROVE  LeafInvariant'
<1>1. /\ Domain("context") /\ UNCHANGED <<now, admission, unproven>>
      /\ leaf.state \notin TerminalState
      /\ leaf' \in decide_context_control(leaf, control_kind, now)
      /\ \/ /\ reserved > 0 /\ reserved' = reserved - 1
            /\ run.permits > 0 /\ run' = [run EXCEPT !.permits = @ - 1]
         \/ ~(reserved > 0) /\ UNCHANGED <<reserved, run>>
  BY DEF converge_context_for_run, Ended
<1>2. /\ control_kind \in {"cancel", "timeout"} /\ now' \in 0 .. MaxTime
      /\ unproven' \in BOOLEAN /\ leaf \in Leaf /\ now \in Nat
  BY <1>1, LeafFacts DEF control_kind, LeafInvariant, StoredLeaf, TypeOK
<1>3. /\ leaf'.state \in {"cancelled", "timed_out"} /\ leaf'.resume = FALSE
      /\ leaf'.charged = leaf.charged + IF leaf.job.state = "running" THEN use_query(leaf) ELSE 0
      /\ \/ leaf.job = NoJob /\ leaf' \in Leaf /\ leaf'.job = NoJob
         \/ leaf.job # NoJob /\ Leaves(leaf, leaf', leaf'.state, leaf'.state)
  BY <1>1, <1>2, ControlledContext, Zenon
<1>4. reserved' = 0 /\ run' \in Run
  <2>1. reserved \in {0, 1}
    BY DEF LeafInvariant, DispatchesChargedOnce
  <2>2. CASE reserved = 0
    BY <1>1, <2>2, LeafFacts
  <2>3. CASE reserved = 1
    <3>1. run' \in release_model_plan_leaf_permit(run)
      BY <1>1, <2>3 DEF release_model_plan_leaf_permit
    <3> QED
      BY <1>1, <2>3, <3>1, LeafFacts, PermitReleased
  <2> QED
    BY <2>1, <2>2, <2>3
<1>5. CASE leaf.job = NoJob
  <2>1. NoJob.lease = NoLease
    BY DEF NoJob
  <2>2. leaf.job.state # "running" /\ UNCHANGED <<reserved, run>>
    BY <1>1, <1>5, <2>1, LeafFacts DEF LeafInvariant, DispatchesChargedOnce, Leased
  <2>3. leaf'.charged = leaf.charged
    BY <1>3, <2>2, LeafFacts
  <2> QED
    BY <1>1, <1>3, <1>5, <2>2, <2>3, EndedAlone
<1>6. CASE leaf.job # NoJob
  <2>1. Leaves(leaf, leaf', leaf'.state, leaf'.state)
    BY <1>3, <1>6
  <2>2. /\ leaf'.state \in JobStatesOf(leaf'.state) /\ leaf'.state # "running"
        /\ leaf'.state \notin {"ready", "retry_scheduled"}
    BY <1>3 DEF JobStatesOf
  <2>3. leaf'.charged = leaf.job.attempt_count
    BY <1>1, <1>3, LeafFacts DEF LeafInvariant, DispatchesChargedOnce, use_query
  <2>4. leaf'.charged = leaf'.job.attempt_count
    BY <2>1, <2>3 DEF Leaves
  <2> QED
    BY <1>1, <1>2, <1>3, <1>4, <2>1, <2>2, <2>4, ContextUnleased
<1> QED
  BY <1>5, <1>6

-----------------------------------------------------------------------------
(* The theorems.                                                           *)

\* Steps that leave the leaf alone: a worker gone, a request of control, time.
LEMMA QuietKeeps ==
    ASSUME LeafInvariant,
           UNCHANGED <<admission, leaf, reserved, unproven>>,
           now' \in 0 .. MaxTime, run' \in Run, run'.permits = run.permits
    PROVE  LeafInvariant'
<1>1. Leased' <=> Leased
  BY DEF Leased
<1>2. (leaf.job.state \in JobStatesOf(leaf.state))'
  BY LeafFacts DEF JobStatesOf, Domain
<1>3. StoredLeaf'
  BY <1>2, LeafFacts DEF LeafInvariant, StoredLeaf, TypeOK, Run
<1>4. PermitFollowsLease' /\ DispatchesChargedOnce' /\ WritesAreNotGuessed'
  BY <1>1 DEF LeafInvariant, PermitFollowsLease, DispatchesChargedOnce, WritesAreNotGuessed, Domain
<1>5. ModelPart' /\ ContextPart' /\ CapabilityPart'
  BY <1>1 DEF LeafInvariant, ModelPart, ContextPart, CapabilityPart, Domain
<1> QED
  BY <1>3, <1>4, <1>5 DEF LeafInvariant

\* A leaf that has just been prepared satisfies the invariant.
LEMMA LeafInitially ==
    ASSUME Init
    PROVE  LeafInvariant
<1>1. /\ now = 0 /\ admission \in Admissions /\ reserved = 0 /\ unproven = FALSE
      /\ leaf.state = "ready" /\ leaf.job = NoJob /\ leaf.resume = FALSE
      /\ leaf.consumed = FALSE /\ leaf.charged = 0 /\ leaf \in Leaf
      /\ run \in Run /\ run.permits = 0
  BY LeafAssumption DEF Init, Leaf, LeafState, Run
<1>2. NoJob.state = "none" /\ NoJob.lease = NoLease /\ NoJob.attempt_count = 0
  BY DEF NoJob
<1>3. leaf.job.state \in JobStatesOf(leaf.state)
  BY <1>1, <1>2 DEF JobStatesOf
<1>4. StoredLeaf
  <2>1. now \in 0 .. MaxTime /\ reserved \in Nat /\ leaf.charged \in Nat
    BY <1>1, LeafAssumption
  <2>2. unproven \in BOOLEAN
    BY <1>1, Zenon
  <2>3. leaf.state \in LeafState
    BY <1>1 DEF LeafState
  <2>4. /\ run.state \in {"running", "waiting", "cancelling"}
        /\ run.control \in {"none", "cancel", "timeout"} /\ run.permits \in Nat
    BY <1>1 DEF Run
  <2> QED
    BY <1>1, <1>3, <2>1, <2>2, <2>3, <2>4 DEF StoredLeaf, TypeOK
<1>5. ~Leased
  BY <1>1, <1>2 DEF Leased
<1>6. PermitFollowsLease /\ DispatchesChargedOnce /\ WritesAreNotGuessed
  BY <1>1, <1>2, <1>5 DEF PermitFollowsLease, DispatchesChargedOnce, WritesAreNotGuessed
<1>7. ModelPart /\ ContextPart /\ CapabilityPart
  BY <1>1, <1>2 DEF ModelPart, ContextPart, CapabilityPart, capability_payload_valid
<1> QED
  BY <1>4, <1>6, <1>7 DEF LeafInvariant

\* Every step of any of the three domains keeps the invariant.
LEMMA LeafStepKeeps ==
    ASSUME LeafInvariant, [Next]_vars
    PROVE  LeafInvariant'
<1>1. run \in Run /\ now \in 0 .. MaxTime
  BY LeafFacts DEF LeafInvariant, StoredLeaf, TypeOK
<1>2. CASE Prepare
  BY <1>2, PrepareKeeps
<1>3. ASSUME NEW w \in Workers,
             \/ claim_capability_jobs(w) \/ claim_model_jobs(w) \/ claim_context_jobs(w)
             \/ commit_capability_outcome(w) \/ commit_model_outcome_inner(w)
             \/ commit_context_outcome_inner(w)
             \/ commit_capability_cancellation_outcome(w) \/ commit_model_cancellation_outcome(w)
      PROVE  LeafInvariant'
  <2>1. CASE claim_capability_jobs(w)
    BY <2>1, CapabilityClaimKeeps
  <2>2. CASE claim_model_jobs(w)
    BY <2>2, ModelClaimKeeps
  <2>3. CASE claim_context_jobs(w)
    BY <2>3, ContextClaimKeeps
  <2>4. CASE commit_capability_outcome(w)
    BY <2>4, CapabilityOutcomeKeeps
  <2>5. CASE commit_model_outcome_inner(w)
    BY <2>5, ModelOutcomeKeeps
  <2>6. CASE commit_context_outcome_inner(w)
    BY <2>6, ContextOutcomeKeeps
  <2>7. CASE commit_capability_cancellation_outcome(w)
    BY <2>7, CapabilityCancellationKeeps
  <2>8. CASE commit_model_cancellation_outcome(w)
    BY <2>8, ModelCancellationKeeps
  <2> QED
    BY <1>3, <2>1, <2>2, <2>3, <2>4, <2>5, <2>6, <2>7, <2>8
<1>4. ASSUME NEW w \in Workers, WorkerStops(w)
      PROVE  LeafInvariant'
  BY <1>1, <1>4, QuietKeeps DEF WorkerStops
<1>5. CASE \/ wake_capability_invocation \/ resolve_capability_input \/ wake_context_dispatch
           \/ resolve_capability_reconciliation
  BY <1>5, CapabilityWakeKeeps, ContextWakeKeeps, CapabilityResolutionKeeps
<1>6. CASE RequestCancel \/ TimeoutRun
  <2>1. run' \in Run /\ run'.permits = run.permits
    BY <1>1, <1>6 DEF RequestCancel, TimeoutRun, Run
  <2> QED
    BY <1>1, <1>6, <2>1, QuietKeeps DEF RequestCancel, TimeoutRun
<1>7. CASE Converge
  BY <1>7, CapabilityControlKeeps, ModelControlKeeps, ContextControlKeeps DEF Converge
<1>8. CASE RecoverExpired
  BY <1>8, CapabilityRecoveryKeeps, ModelRecoveryKeeps, ContextRecoveryKeeps DEF RecoverExpired
<1>9. CASE Tick
  <2>1. now' \in 0 .. MaxTime
    BY <1>1, <1>9, LeafAssumption DEF Tick
  <2> QED
    BY <1>1, <1>9, <2>1, QuietKeeps DEF Tick
<1>10. CASE UNCHANGED vars
  BY <1>1, <1>10, QuietKeeps DEF vars
<1> QED
  BY <1>2, <1>3, <1>4, <1>5, <1>6, <1>7, <1>8, <1>9, <1>10 DEF Next

\* The inductive invariant of a leaf, its Run's permits and its quota, in every domain.
THEOREM LeafInvariantHolds == Spec => []LeafInvariant
<1>1. Init => LeafInvariant
  BY LeafInitially
<1>2. LeafInvariant /\ [Next]_vars => LeafInvariant'
  BY LeafStepKeeps
<1> QED
  BY <1>1, <1>2, PTL DEF Spec

\* Owner and Job, written by one transaction, always agree on where the leaf is, and the
\* stored Job passes the authority's own validation.
THEOREM LeafTypes == Spec => []TypeOK
<1>1. LeafInvariant => TypeOK
  BY DEF LeafInvariant, StoredLeaf
<1> QED
  BY <1>1, LeafInvariantHolds, PTL

\* An invocation or a turn holds its Run's permit exactly while its Job is under a lease,
\* however claims, late outcomes, expiry scans and Run control interleave.
THEOREM PermitsAreGivenBack == Spec => []PermitFollowsLease
<1>1. LeafInvariant => PermitFollowsLease
  BY DEF LeafInvariant
<1> QED
  BY <1>1, LeafInvariantHolds, PTL

\* A reservation is open exactly under a lease, and every dispatched attempt is charged once.
THEOREM AttemptsAreChargedOnce == Spec => []DispatchesChargedOnce
<1>1. LeafInvariant => DispatchesChargedOnce
  BY DEF LeafInvariant
<1> QED
  BY <1>1, LeafInvariantHolds, PTL

\* A write without an idempotency key is dispatched at most once and never reported as
\* ended before somebody answered for it.
THEOREM WritesAreAnswered == Spec => []WritesAreNotGuessed
<1>1. LeafInvariant => WritesAreNotGuessed
  BY DEF LeafInvariant
<1> QED
  BY <1>1, LeafInvariantHolds, PTL
=============================================================================
