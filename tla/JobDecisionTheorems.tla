------------------------ MODULE JobDecisionTheorems ------------------------
(***************************************************************************)
(* What a decision of platform-jobs may do to a projection, decision by    *)
(* decision.  The relations below name the kinds of steps; each lemma says *)
(* which of them a decision can take, for every projection, fence and      *)
(* time.  Proofs about the state machines cite these lemmas and never      *)
(* expand a decision again.                                                *)
(***************************************************************************)
EXTENDS JobDecisions, TLAPS

\* Common to all steps of a Job o to n.
Advances(o, n) ==
    /\ n \in JobProjection
    /\ validate(n)
    /\ n.version = o.version + 1
    /\ n.attempt_limit = o.attempt_limit
    /\ n.deadline = o.deadline

\* A queued Job is leased to worker under the next lease generation.
Grants(o, n, worker) ==
    /\ Advances(o, n)
    /\ o.state \in {"ready", "retry_scheduled"}
    /\ n.state = "leased"
    /\ n.lease.worker = worker
    /\ n.lease_generation = o.lease_generation + 1
    /\ n.attempt_count = o.attempt_count

\* The lease and its generation stay with the holder.
KeepsHolder(o, n) ==
    /\ Advances(o, n)
    /\ o.lease # NoLease
    /\ n.lease # NoLease
    /\ n.lease.worker = o.lease.worker
    /\ n.lease_generation = o.lease_generation

Dispatches(o, n) ==
    /\ KeepsHolder(o, n)
    /\ o.state = "leased" /\ n.state = "running"
    /\ o.attempt_count < o.attempt_limit
    /\ n.attempt_count = o.attempt_count + 1

Continues(o, n) ==
    /\ KeepsHolder(o, n)
    /\ o.state = "leased" /\ n.state = "running"
    /\ o.attempt_count > 0
    /\ n.attempt_count = o.attempt_count

Renews(o, n) ==
    /\ KeepsHolder(o, n)
    /\ n.state = o.state
    /\ o.state \in {"leased", "running"}
    /\ n.attempt_count = o.attempt_count

\* The lease ends; generation and attempts stay.
Releases(o, n) ==
    /\ Advances(o, n)
    /\ n.lease = NoLease
    /\ n.lease_generation = o.lease_generation
    /\ n.attempt_count = o.attempt_count

Requeues(o, n) ==
    /\ Releases(o, n)
    /\ n.state = "ready"
    /\ o.state \in {"leased", "running", "waiting", "retry_scheduled"}

Waits(o, n) ==
    /\ Releases(o, n)
    /\ o.state = "running" /\ n.state = "waiting"
    /\ n.wake.generation = o.lease_generation

Backs_off(o, n) ==
    /\ Releases(o, n)
    /\ o.state = "running" /\ n.state = "retry_scheduled"
    /\ o.attempt_count < o.attempt_limit

Suspects(o, n) ==
    /\ Releases(o, n)
    /\ o.state \in {"running", "waiting", "cancelling"}
    /\ n.state = "reconciliation_required"

Settles(o, n) ==
    /\ Releases(o, n)
    /\ n.state \in TerminalState
    /\ n.state \in JobTransitions[o.state]

Cancels(o, n) ==
    /\ Advances(o, n)
    /\ o.state \in {"ready", "leased", "running", "waiting", "retry_scheduled"}
    /\ n.state = "cancelling"
    /\ n.lease = o.lease
    /\ n.lease_generation = o.lease_generation
    /\ n.attempt_count = o.attempt_count

\* Evidence recorded after settlement: nothing but the version moves.
Annotates(o, n) ==
    /\ Advances(o, n)
    /\ o.state \in TerminalState \cup {"reconciliation_required"}
    /\ n = [o EXCEPT !.version = n.version]

-----------------------------------------------------------------------------

\* The null records have the types of the records they stand in for.
LEMMA NullRecords == NoLease \in JobLease /\ NoWake \in WakeContract
BY DEF NoLease, NoWake, None, OptionTime, JobLease, WakeContract

\* transition leaves a projection of the right type in the target state, with the
\* lease kept or dropped as asked and everything else but the version unchanged.
LEMMA TransitionStep ==
    ASSUME NEW o \in JobProjection, NEW target \in JobState, NEW retain \in BOOLEAN,
           NEW n \in transition(o, target, retain)
    PROVE  /\ Advances(o, n)
           /\ target \in JobTransitions[o.state]
           /\ n.state = target
           /\ n.lease = IF retain THEN o.lease ELSE NoLease
           /\ n.lease_generation = o.lease_generation
           /\ n.attempt_count = o.attempt_count
           /\ n.version <= MaxCounter /\ n.lease_generation <= MaxCounter
<1> DEFINE lease == IF retain THEN o.lease ELSE NoLease
           version == o.version + 1
           m == [o EXCEPT !.state = target, !.version = version, !.lease = lease,
                          !.retry_at = None, !.wake = NoWake]
<1>1. /\ n = m
      /\ target \in JobTransitions[o.state]
      /\ n.version <= MaxCounter /\ n.lease_generation <= MaxCounter
      /\ validate(n)
  BY DEF transition, Accepted, can_transition_to
<1>2. lease \in JobLease /\ version \in Nat
  BY NullRecords DEF JobProjection
<1> HIDE DEF lease, version
<1>3. m \in JobProjection
  BY <1>2, NullRecords DEF JobProjection, None, OptionTime
<1>4. /\ m.state = target /\ m.lease = lease /\ m.version = version
      /\ m.lease_generation = o.lease_generation /\ m.attempt_count = o.attempt_count
      /\ m.attempt_limit = o.attempt_limit /\ m.deadline = o.deadline
  BY DEF JobProjection
<1> QED
  BY <1>1, <1>3, <1>4 DEF Advances, lease, version

\* The two uses of transition: giving the lease up, and keeping it.
LEMMA ReleasingTransition ==
    ASSUME NEW o \in JobProjection, NEW target \in JobState,
           NEW n \in transition(o, target, FALSE)
    PROVE  Releases(o, n) /\ n.state = target /\ target \in JobTransitions[o.state]
<1>1. /\ Advances(o, n) /\ target \in JobTransitions[o.state] /\ n.state = target
      /\ n.lease = NoLease /\ n.lease_generation = o.lease_generation
      /\ n.attempt_count = o.attempt_count
  BY TransitionStep
<1> QED
  BY <1>1 DEF Releases

\* A transition that retains the lease changes nothing but state and version.
LEMMA RetainingTransition ==
    ASSUME NEW o \in JobProjection, NEW target \in JobState,
           NEW n \in transition(o, target, TRUE)
    PROVE  /\ Advances(o, n) /\ target \in JobTransitions[o.state] /\ n.state = target
           /\ n.lease = o.lease /\ n.lease_generation = o.lease_generation
           /\ n.attempt_count = o.attempt_count
BY TransitionStep

\* A claim or a claimed continuation is a grant.
LEMMA ClaimStep ==
    ASSUME NEW o \in JobProjection, NEW now \in Nat, NEW worker \in Workers,
           NEW duration \in Nat,
           NEW n \in decide_claim(o, now, worker, duration)
                     \cup decide_claim_continuation(o, now, worker, duration)
    PROVE  Grants(o, n, worker)
<1>1. n = leased_by(o, now, worker, duration) /\ o.state \in {"ready", "retry_scheduled"}
      /\ validate(n)
  BY DEF decide_claim, decide_claim_continuation, Accepted
<1> DEFINE version == o.version + 1
           generation == o.lease_generation + 1
           lease == [worker |-> worker, lease_generation |-> generation, heartbeat_at |-> now,
                     expires_at |-> Earliest(now + duration, o.deadline)]
           m == [o EXCEPT !.state = "leased", !.version = version,
                          !.lease_generation = generation, !.retry_at = None,
                          !.lease = lease]
<1>2. n = m
  BY <1>1 DEF leased_by
<1>3. version \in Nat /\ generation \in Nat
  BY DEF JobProjection
<1>4. lease \in JobLease /\ lease.worker = worker
  <2>1. Earliest(now + duration, o.deadline) \in Nat
    BY DEF Earliest, JobProjection
  <2> QED
    BY <2>1, <1>3 DEF JobLease, OptionTime
<1> HIDE DEF version, generation, lease
<1>5. m \in JobProjection
  BY <1>3, <1>4 DEF JobProjection, None, OptionTime, JobState
<1>6. /\ m.state = "leased" /\ m.version = version /\ m.lease_generation = generation
      /\ m.lease = lease /\ m.attempt_count = o.attempt_count
      /\ m.attempt_limit = o.attempt_limit /\ m.deadline = o.deadline
  BY DEF JobProjection
<1> QED
  BY <1>1, <1>2, <1>4, <1>5, <1>6 DEF Grants, Advances, version, generation

\* Starting spends one attempt, within the limit, and keeps the lease.
LEMMA StartStep ==
    ASSUME NEW o \in JobProjection, NEW fence, NEW now \in Nat,
           NEW n \in decide_start(o, fence, now)
    PROVE  Dispatches(o, n)
<1>1. PICK m \in transition(o, "running", TRUE) :
        /\ n = [m EXCEPT !.attempt_count = @ + 1] /\ validate(n)
        /\ o.lease # NoLease /\ o.state = "leased" /\ o.attempt_count < o.attempt_limit
  BY DEF decide_start, Accepted, validate_fence, same_lease
<1>2. /\ Advances(o, m) /\ m.state = "running" /\ m.lease = o.lease
      /\ m.lease_generation = o.lease_generation /\ m.attempt_count = o.attempt_count
  <2>1. "running" \in JobState
    BY DEF JobState
  <2> QED
    BY <2>1, RetainingTransition, Zenon
<1> DEFINE count == m.attempt_count + 1
<1>3. m \in JobProjection /\ count \in Nat /\ n = [m EXCEPT !.attempt_count = count]
  BY <1>1, <1>2 DEF Advances, JobProjection
<1>4. count = o.attempt_count + 1
  BY <1>2
<1> HIDE DEF count
<1>5. /\ n \in JobProjection /\ n.attempt_count = count
      /\ n.state = m.state /\ n.version = m.version /\ n.lease = m.lease
      /\ n.lease_generation = m.lease_generation
      /\ n.attempt_limit = m.attempt_limit /\ n.deadline = m.deadline
  BY <1>3 DEF JobProjection
<1> QED
  BY <1>1, <1>2, <1>4, <1>5 DEF Dispatches, KeepsHolder, Advances

\* Resuming spends none, and needs an attempt that was spent before.
LEMMA ResumeStep ==
    ASSUME NEW o \in JobProjection, NEW fence, NEW now \in Nat,
           NEW n \in decide_resume(o, fence, now)
    PROVE  Continues(o, n)
<1>1. /\ n \in transition(o, "running", TRUE) /\ o.lease # NoLease
      /\ o.state = "leased" /\ o.attempt_count # 0
  BY DEF decide_resume, validate_fence, same_lease
<1>2. o.attempt_count > 0
  BY <1>1 DEF JobProjection
<1>3. /\ Advances(o, n) /\ n.state = "running" /\ n.lease = o.lease
      /\ n.lease_generation = o.lease_generation /\ n.attempt_count = o.attempt_count
  <2>1. "running" \in JobState
    BY DEF JobState
  <2> QED
    BY <1>1, <2>1, RetainingTransition, Zenon
<1> QED
  BY <1>1, <1>2, <1>3 DEF Continues, KeepsHolder

\* A heartbeat or an observation renews and moves nothing else of the lifecycle.
LEMMA RenewStep ==
    ASSUME NEW o \in JobProjection, NEW fence, NEW now \in Nat, NEW duration \in Nat,
           NEW n \in decide_heartbeat(o, fence, now, duration)
                     \cup decide_observation_update(o, fence, now)
    PROVE  Renews(o, n)
<1> DEFINE version == o.version + 1
           expiry == Earliest(now + duration, o.deadline)
           lease == [o.lease EXCEPT !.heartbeat_at = now, !.expires_at = expiry]
<1>1. version \in Nat /\ expiry \in Nat
  BY DEF JobProjection, Earliest
<1>2. o.lease # NoLease /\ o.state \in {"leased", "running"} /\ validate(n)
  BY DEF decide_heartbeat, decide_observation_update, Accepted, validate_fence, same_lease
<1>3. \/ n = [o EXCEPT !.version = version, !.lease = lease]
      \/ n = [o EXCEPT !.version = version]
  BY DEF decide_heartbeat, decide_observation_update, Accepted, JobProjection
<1> HIDE DEF expiry
<1>4. lease \in JobLease /\ lease.worker = o.lease.worker
  BY <1>1 DEF JobProjection, JobLease, OptionTime
<1> HIDE DEF version, lease
<1>5. /\ n \in JobProjection
      /\ n.lease.worker = o.lease.worker
      /\ n.version = version /\ n.state = o.state
      /\ n.lease_generation = o.lease_generation /\ n.attempt_count = o.attempt_count
      /\ n.attempt_limit = o.attempt_limit /\ n.deadline = o.deadline
  BY <1>1, <1>3, <1>4 DEF JobProjection
<1>6. n.lease # NoLease
  BY <1>2, <1>5 DEF validate
<1> QED
  BY <1>2, <1>5, <1>6 DEF Renews, KeepsHolder, Advances, version

\* A Job settles through the closed table only, whoever settles it.
LEMMA SettleStep ==
    ASSUME NEW o \in JobProjection, NEW fence, NEW now, NEW cleanup_deadline,
           NEW terminal \in TerminalState,
           NEW n \in decide_terminal(o, fence, now, terminal)
                     \cup decide_cleanup_terminal(o, fence, now, cleanup_deadline, terminal)
                     \cup decide_owner_terminal(o, terminal)
    PROVE  Settles(o, n)
<1>1. n \in transition(o, terminal, FALSE) /\ terminal \in JobState
  BY DEF decide_terminal, decide_cleanup_terminal, decide_owner_terminal, JobState,
         TerminalState
<1> QED
  BY <1>1, ReleasingTransition DEF Settles

\* Uncertainty is recorded only for work that was dispatched.
LEMMA SuspectStep ==
    ASSUME NEW o \in JobProjection, NEW fence, NEW now, NEW cleanup_deadline,
           NEW n \in decide_reconciliation(o, fence, now)
                     \cup decide_cleanup_reconciliation(o, fence, now, cleanup_deadline)
                     \cup decide_owner_reconciliation(o)
    PROVE  Suspects(o, n)
<1>1. n \in transition(o, "reconciliation_required", FALSE)
  BY DEF decide_reconciliation, decide_cleanup_reconciliation, decide_owner_reconciliation
<1>2. Releases(o, n) /\ n.state = "reconciliation_required"
      /\ "reconciliation_required" \in JobTransitions[o.state]
  BY <1>1, ReleasingTransition DEF JobState
<1>3. o.state \in {"running", "waiting", "cancelling"}
  BY <1>2 DEF JobTransitions, JobProjection, JobState
<1> QED
  BY <1>2, <1>3 DEF Suspects

\* A release that parks the Job under a wake contract or a retry time.
LEMMA ParkedProjection ==
    ASSUME NEW o \in JobProjection, NEW target \in JobState, NEW retry_at \in OptionTime,
           NEW wake \in WakeContract, NEW n,
           n = parked(o, target, retry_at, wake), validate(n)
    PROVE  Releases(o, n) /\ n.state = target /\ n.wake = wake
<1> DEFINE version == o.version + 1
<1>1. version \in Nat
  BY DEF JobProjection
<1>2. n = [o EXCEPT !.state = target, !.version = version, !.lease = NoLease,
                    !.retry_at = retry_at, !.wake = wake]
  BY DEF parked
<1> HIDE DEF version
<1>3. /\ n \in JobProjection /\ n.version = version /\ n.state = target
      /\ n.lease = NoLease /\ n.wake = wake
      /\ n.lease_generation = o.lease_generation /\ n.attempt_count = o.attempt_count
      /\ n.attempt_limit = o.attempt_limit /\ n.deadline = o.deadline
  BY <1>1, <1>2, NullRecords DEF JobProjection
<1> QED
  BY <1>3 DEF Releases, Advances, version

\* Waiting registers the contract under the generation of the lease given up.
LEMMA WaitStep ==
    ASSUME NEW o \in JobProjection, NEW fence, NEW now, NEW wake \in WakeContract,
           NEW n \in decide_wait(o, fence, now, wake)
    PROVE  Waits(o, n)
<1>1. /\ o.state = "running" /\ wake.generation = o.lease_generation /\ validate(n)
      /\ n = parked(o, "waiting", None, wake)
  BY DEF decide_wait, Accepted
<1>2. Releases(o, n) /\ n.state = "waiting" /\ n.wake = wake
  <2>1. "waiting" \in JobState /\ None \in OptionTime
    BY DEF JobState, OptionTime
  <2> QED
    BY <1>1, <2>1, ParkedProjection
<1> QED
  BY <1>1, <1>2 DEF Waits

\* Backing off, whether the holder or the scanner asks for it.
LEMMA BackoffStep ==
    ASSUME NEW o \in JobProjection, NEW retry_at \in Nat, NEW n,
           o.state = "running", o.attempt_count < o.attempt_limit, validate(n),
           n = parked(o, "retry_scheduled", retry_at, NoWake)
    PROVE  Backs_off(o, n)
<1>1. "retry_scheduled" \in JobState /\ retry_at \in OptionTime
  BY DEF JobState, OptionTime
<1>2. Releases(o, n) /\ n.state = "retry_scheduled"
  BY <1>1, ParkedProjection, NullRecords
<1> QED
  BY <1>2 DEF Backs_off

\* A retry gives the lease up and waits for its time.
LEMMA RetryStep ==
    ASSUME NEW o \in JobProjection, NEW fence, NEW now, NEW retry_at \in Nat,
           NEW n \in decide_retry(o, fence, now, retry_at)
    PROVE  Backs_off(o, n)
BY BackoffStep DEF decide_retry, Accepted

\* Cancelling keeps whatever lease there is.
LEMMA CancelStep ==
    ASSUME NEW o \in JobProjection, NEW n \in decide_owner_cancelling(o)
    PROVE  Cancels(o, n)
<1>1. "cancelling" \in JobState
  BY DEF JobState
<1>2. /\ Advances(o, n) /\ n.state = "cancelling" /\ n.lease = o.lease
      /\ n.lease_generation = o.lease_generation /\ n.attempt_count = o.attempt_count
      /\ "cancelling" \in JobTransitions[o.state]
  <2>1. CASE o.lease # NoLease
    <3>1. n \in transition(o, "cancelling", TRUE)
      BY <2>1, Zenon DEF decide_owner_cancelling
    <3> QED
      BY <3>1, <1>1, RetainingTransition, Zenon
  <2>2. CASE o.lease = NoLease
    <3>1. n \in transition(o, "cancelling", FALSE)
      BY <2>2, Zenon DEF decide_owner_cancelling
    <3>2. Releases(o, n) /\ n.state = "cancelling" /\ "cancelling" \in JobTransitions[o.state]
      BY <3>1, <1>1, ReleasingTransition, Zenon
    <3> QED
      BY <3>2, <2>2 DEF Releases
  <2> QED
    BY <2>1, <2>2
<1>3. o.state \in {"ready", "leased", "running", "waiting", "retry_scheduled"}
  BY <1>2 DEF JobTransitions, JobProjection, JobState
<1> QED
  BY <1>2, <1>3 DEF Cancels

\* Cleanup evidence after settlement moves the version only.
LEMMA AnnotateStep ==
    ASSUME NEW o \in JobProjection, NEW expected_version,
           NEW n \in decide_terminal_physical_update(o, expected_version)
    PROVE  Annotates(o, n)
<1> DEFINE version == o.version + 1
<1>1. /\ o.state \in TerminalState \cup {"reconciliation_required"} /\ validate(n)
      /\ n = [o EXCEPT !.version = version] /\ version \in Nat
  BY DEF decide_terminal_physical_update, Accepted, JobProjection
<1> HIDE DEF version
<1>2. /\ n \in JobProjection /\ n.version = version
      /\ n.attempt_limit = o.attempt_limit /\ n.deadline = o.deadline
  BY <1>1 DEF JobProjection
<1> QED
  BY <1>1, <1>2 DEF Annotates, Advances, version

\* Requeueing also sets the schedule.
LEMMA RequeueStep ==
    ASSUME NEW o \in JobProjection, NEW time \in Nat, NEW m \in transition(o, "ready", FALSE),
           NEW n, n = [m EXCEPT !.scheduled_at = time], validate(n)
    PROVE  Requeues(o, n)
<1>1. "ready" \in JobState
  BY DEF JobState
<1>2. Releases(o, m) /\ m.state = "ready" /\ "ready" \in JobTransitions[o.state]
  BY <1>1, ReleasingTransition, Zenon
<1>3. m \in JobProjection
  BY <1>2 DEF Releases, Advances
<1>4. /\ n \in JobProjection /\ n.version = m.version /\ n.state = m.state
      /\ n.lease = m.lease /\ n.lease_generation = m.lease_generation
      /\ n.attempt_count = m.attempt_count
      /\ n.attempt_limit = m.attempt_limit /\ n.deadline = m.deadline
  BY <1>3 DEF JobProjection
<1>5. o.state \in {"leased", "running", "waiting", "retry_scheduled"}
  BY <1>2 DEF JobTransitions, JobProjection, JobState
<1> QED
  BY <1>2, <1>4, <1>5 DEF Requeues, Releases, Advances

\* A retry that comes due makes the Job ready again.
LEMMA RetryDueStep ==
    ASSUME NEW o \in JobProjection, NEW now \in Nat, NEW n \in decide_retry_due(o, now)
    PROVE  Requeues(o, n)
BY RequeueStep DEF decide_retry_due, Accepted

\* A wake consumes exactly the contract the Job is waiting on.
LEMMA WakeStep ==
    ASSUME NEW o \in JobProjection, NEW generation, NEW source, NEW now \in Nat,
           NEW n \in decide_wake(o, generation, source, now)
    PROVE  Requeues(o, n) /\ o.state = "waiting" /\ o.wake.generation = generation
<1>1. /\ o.state = "waiting" /\ o.wake.generation = generation /\ validate(n)
      /\ \E m \in transition(o, "ready", FALSE) : n = [m EXCEPT !.scheduled_at = now]
  BY DEF decide_wake, Accepted
<1> QED
  BY <1>1, RequeueStep

\* A running Job that is handed on as a continuation is ready again.
LEMMA ExpiredContinuationStep ==
    ASSUME NEW o \in JobProjection, NEW version, NEW generation, NEW now \in Nat,
           NEW n \in decide_expired_continuation(o, version, generation, now)
    PROVE  Requeues(o, n)
BY RequeueStep DEF decide_expired_continuation, Accepted

\* Whatever target the scanner asks for, an expired lease is only ever released.
LEMMA ExpiredLeaseStep ==
    ASSUME NEW o \in JobProjection, NEW version, NEW generation, NEW now \in Nat,
           NEW target, NEW retry_at \in OptionTime,
           NEW n \in decide_expired_lease(o, version, generation, now, target, retry_at)
    PROVE  Requeues(o, n) \/ Backs_off(o, n) \/ Settles(o, n) \/ Suspects(o, n)
<1>1. \/ /\ target = "ready"
         /\ validate(n)
         /\ \E m \in transition(o, "ready", FALSE) : n = [m EXCEPT !.scheduled_at = now]
      \/ /\ target = "retry_scheduled"
         /\ o.state = "running" /\ o.attempt_count < o.attempt_limit
         /\ now < retry_at /\ validate(n)
         /\ n = parked(o, "retry_scheduled", retry_at, NoWake)
      \/ target = "failed" /\ n \in transition(o, "failed", FALSE)
      \/ /\ target = "reconciliation_required"
         /\ n \in transition(o, "reconciliation_required", FALSE)
      \/ target = "timed_out" /\ n \in transition(o, "timed_out", FALSE)
  BY DEF decide_expired_lease, Accepted
<1>2. CASE target = "ready"
  BY <1>1, <1>2, RequeueStep
<1>3. CASE target = "retry_scheduled"
  <2>1. /\ o.state = "running" /\ o.attempt_count < o.attempt_limit
        /\ retry_at \in Nat /\ validate(n)
        /\ n = parked(o, "retry_scheduled", retry_at, NoWake)
    BY <1>1, <1>3 DEF None, OptionTime
  <2> QED
    BY <2>1, BackoffStep, Zenon
<1>4. CASE target \in {"failed", "timed_out"}
  <2>1. n \in transition(o, target, FALSE) /\ target \in JobState
    BY <1>1, <1>4 DEF JobState
  <2> QED
    BY <2>1, <1>4, ReleasingTransition DEF Settles, TerminalState
<1>5. CASE target = "reconciliation_required"
  BY <1>1, <1>5, SuspectStep DEF decide_owner_reconciliation
<1> QED
  BY <1>1, <1>2, <1>3, <1>4, <1>5

\* The scanner's target is where the Job ends up, with the attempts it had.
LEMMA ExpiredLeaseTarget ==
    ASSUME NEW o \in JobProjection, NEW version, NEW generation, NEW now \in Nat,
           NEW target \in JobState, NEW retry_at \in OptionTime,
           NEW n \in decide_expired_lease(o, version, generation, now, target, retry_at)
    PROVE  Releases(o, n) /\ n.state = target
<1>1. Requeues(o, n) \/ Backs_off(o, n) \/ Settles(o, n) \/ Suspects(o, n)
  BY ExpiredLeaseStep
<1>2. \/ target = "ready" /\ \E m \in transition(o, "ready", FALSE) :
                               n = [m EXCEPT !.scheduled_at = now]
      \/ target = "retry_scheduled" /\ n = parked(o, "retry_scheduled", retry_at, NoWake)
      \/ target \in {"failed", "reconciliation_required", "timed_out"}
         /\ n \in transition(o, target, FALSE)
  BY DEF decide_expired_lease, Accepted
<1>3. CASE target = "ready"
  <2>1. PICK m \in transition(o, "ready", FALSE) : n = [m EXCEPT !.scheduled_at = now]
    BY <1>2, <1>3
  <2>2. m \in JobProjection /\ m.state = "ready"
    BY ReleasingTransition DEF Releases, Advances, JobState
  <2> QED
    BY <1>1, <1>3, <2>1, <2>2 DEF JobProjection, Requeues, Backs_off, Settles, Suspects
<1>4. CASE target = "retry_scheduled"
  BY <1>1, <1>2, <1>4 DEF parked, JobProjection, Requeues, Backs_off, Settles, Suspects
<1>5. CASE target \in {"failed", "reconciliation_required", "timed_out"}
  <2>1. n \in transition(o, target, FALSE)
    BY <1>2, <1>5
  <2> QED
    BY <2>1, ReleasingTransition
<1> QED
  BY <1>2, <1>3, <1>4, <1>5

\* Whoever ends a Job ends it in the state asked for, with the attempts it had.
LEMMA SettleTarget ==
    ASSUME NEW o \in JobProjection, NEW fence, NEW now, NEW cleanup_deadline,
           NEW terminal \in TerminalState,
           NEW n \in decide_terminal(o, fence, now, terminal)
                     \cup decide_cleanup_terminal(o, fence, now, cleanup_deadline, terminal)
                     \cup decide_owner_terminal(o, terminal)
    PROVE  Releases(o, n) /\ n.state = terminal
<1>1. n \in transition(o, terminal, FALSE) /\ terminal \in JobState
  BY DEF decide_terminal, decide_cleanup_terminal, decide_owner_terminal, JobState,
         TerminalState
<1> QED
  BY <1>1, ReleasingTransition

\* No fenced progress without the exact worker, version and lease generation.
LEMMA ProgressIsFenced ==
    ASSUME NEW o, NEW fence, NEW now, NEW duration,
           NEW n \in decide_start(o, fence, now) \cup decide_resume(o, fence, now)
                     \cup decide_heartbeat(o, fence, now, duration)
                     \cup decide_observation_update(o, fence, now)
    PROVE  same_lease(o, fence)
BY DEF decide_start, decide_resume, decide_heartbeat, decide_observation_update, Accepted,
       validate_fence
-----------------------------------------------------------------------------
(* When a decision accepts: the counters have room and its guard holds.     *)

\* Room for one more version and lease generation.
HasRoom(o) == o.version < MaxCounter /\ o.lease_generation < MaxCounter

\* A transition that gives the lease up is accepted whenever the table has it, for
\* every target that needs no contract, retry time or lease.
LEMMA ReleaseAccepted ==
    ASSUME NEW o \in JobProjection, validate(o), HasRoom(o),
           NEW target \in JobTransitions[o.state],
           target \notin {"leased", "running", "waiting", "retry_scheduled"}
    PROVE  \E n \in transition(o, target, FALSE) : n.version = o.version + 1
<1> DEFINE version == o.version + 1
           n == [o EXCEPT !.state = target, !.version = version, !.lease = NoLease,
                          !.retry_at = None, !.wake = NoWake]
<1>1. /\ version \in Nat /\ version <= MaxCounter /\ version # 0
      /\ o.lease_generation <= MaxCounter
  BY DecisionAssumption DEF HasRoom, JobProjection
<1>2. transition(o, target, FALSE) = Accepted(TRUE, n)
  BY DEF transition, can_transition_to
<1> HIDE DEF version
<1>3. /\ n.version = version /\ n.lease_generation = o.lease_generation /\ n.state = target
      /\ n.lease = NoLease /\ n.retry_at = None /\ n.wake = NoWake
      /\ n.attempt_count = o.attempt_count /\ n.attempt_limit = o.attempt_limit
      /\ n.scheduled_at = o.scheduled_at /\ n.deadline = o.deadline
  BY DEF JobProjection
<1>4. validate(n)
  <2> HIDE DEF n
  <2> QED
    BY <1>1, <1>3 DEF validate
<1>5. n \in Accepted(TRUE, n)
  <2> HIDE DEF n
  <2> QED
    BY <1>1, <1>3, <1>4 DEF Accepted
<1> QED
  BY <1>2, <1>3, <1>5 DEF version

\* So is one back to ready that schedules the Job now, up to the deadline.
LEMMA RequeueAccepted ==
    ASSUME NEW o \in JobProjection, validate(o), HasRoom(o), NEW now \in Nat,
           "ready" \in JobTransitions[o.state], now <= o.deadline
    PROVE  \E m \in transition(o, "ready", FALSE) :
              [m EXCEPT !.scheduled_at = now] \in Accepted(TRUE, [m EXCEPT !.scheduled_at = now])
<1>1. "ready" \in JobState
  BY DEF JobState
<1>2. PICK m \in transition(o, "ready", FALSE) : m.version = o.version + 1
  BY ReleaseAccepted
<1>3. /\ Releases(o, m) /\ m.state = "ready" /\ m \in JobProjection /\ validate(m)
      /\ m.lease = NoLease /\ m.deadline = o.deadline
      /\ m.lease_generation = o.lease_generation
  BY <1>1, <1>2, ReleasingTransition DEF Releases, Advances
<1> DEFINE n == [m EXCEPT !.scheduled_at = now]
<1>4. /\ n.version = m.version /\ n.lease_generation = m.lease_generation
      /\ n.state = m.state /\ n.lease = m.lease /\ n.retry_at = m.retry_at /\ n.wake = m.wake
      /\ n.attempt_count = m.attempt_count /\ n.attempt_limit = m.attempt_limit
      /\ n.scheduled_at = now /\ n.deadline = m.deadline
  BY <1>3 DEF JobProjection
<1> HIDE DEF n
<1>5. validate(n)
  BY <1>3, <1>4 DEF validate
<1>6. n.version <= MaxCounter /\ n.lease_generation <= MaxCounter
  BY <1>2, <1>3, <1>4, DecisionAssumption DEF HasRoom, JobProjection
<1>7. n \in Accepted(TRUE, n)
  BY <1>5, <1>6 DEF Accepted
<1> QED
  BY <1>2, <1>7 DEF n

\* A claim is accepted from any worker for a queued Job that is due, has an attempt
\* left or one to continue, and is before its deadline.
LEMMA ClaimAccepted ==
    ASSUME NEW o \in JobProjection, validate(o), HasRoom(o), NEW now \in Nat,
           NEW worker \in Workers, NEW duration \in Nat \ {0},
           o.state \in {"ready", "retry_scheduled"}, o.scheduled_at <= now,
           o.retry_at <= now, now < o.deadline,
           o.state = "retry_scheduled" => o.attempt_count < o.attempt_limit
    PROVE  decide_claim(o, now, worker, duration)
              \cup decide_claim_continuation(o, now, worker, duration) # {}
<1> DEFINE version == o.version + 1
           generation == o.lease_generation + 1
           expiry == Earliest(now + duration, o.deadline)
           lease == [worker |-> worker, lease_generation |-> generation,
                     heartbeat_at |-> now, expires_at |-> expiry]
           n == [o EXCEPT !.state = "leased", !.version = version,
                          !.lease_generation = generation, !.retry_at = None, !.lease = lease]
<1>1. n = leased_by(o, now, worker, duration)
  BY DEF leased_by
<1>2. /\ version <= MaxCounter /\ version # 0 /\ generation <= MaxCounter /\ generation # 0
      /\ now < expiry /\ expiry <= o.deadline
  BY DecisionAssumption DEF HasRoom, JobProjection, Earliest
<1> HIDE DEF version, generation, expiry
<1>3. /\ lease.worker = worker /\ lease.lease_generation = generation
      /\ lease.heartbeat_at = now /\ lease.expires_at = expiry
  OBVIOUS
<1>4. lease # NoLease
  BY <1>3, DecisionAssumption DEF NoLease
<1> HIDE DEF lease
<1>5. /\ n.version = version /\ n.lease_generation = generation /\ n.state = "leased"
      /\ n.lease = lease /\ n.retry_at = None /\ n.wake = o.wake
      /\ n.attempt_count = o.attempt_count /\ n.attempt_limit = o.attempt_limit
      /\ n.scheduled_at = o.scheduled_at /\ n.deadline = o.deadline
  BY DEF JobProjection
<1> HIDE DEF n
<1>6. validate(n)
  <2>1. validate_lease(lease, o.deadline)
    BY <1>2, <1>3 DEF validate_lease
  <2> QED
    BY <1>2, <1>3, <1>4, <1>5, <2>1 DEF validate
<1>7. n \in Accepted(TRUE, n)
  BY <1>2, <1>5, <1>6 DEF Accepted
<1>8. CASE o.attempt_count < o.attempt_limit
  <2>1. decide_claim(o, now, worker, duration) = Accepted(TRUE, n)
    BY <1>1, <1>8 DEF decide_claim
  <2> QED
    BY <1>7, <2>1
<1>9. CASE ~(o.attempt_count < o.attempt_limit)
  <2>1. o.state = "ready" /\ o.attempt_count # 0
    BY <1>9 DEF validate, JobProjection
  <2>2. decide_claim_continuation(o, now, worker, duration) = Accepted(TRUE, n)
    BY <1>1, <2>1 DEF decide_claim_continuation
  <2> QED
    BY <1>7, <2>2
<1> QED
  BY <1>8, <1>9

\* A leased Job is started or resumed by the exact fence of a lease in force.
LEMMA BeginAccepted ==
    ASSUME NEW o \in JobProjection, validate(o), HasRoom(o), NEW now \in Nat, NEW fence,
           o.state = "leased", validate_fence(o, fence, now)
    PROVE  decide_start(o, fence, now) \cup decide_resume(o, fence, now) # {}
<1> DEFINE version == o.version + 1
           m == [o EXCEPT !.state = "running", !.version = version, !.lease = o.lease,
                          !.retry_at = None, !.wake = NoWake]
<1>1. /\ version <= MaxCounter /\ version # 0 /\ o.lease_generation <= MaxCounter
  BY DecisionAssumption DEF HasRoom, JobProjection
<1>2. transition(o, "running", TRUE) = Accepted(TRUE, m)
  <2>1. "running" \in JobTransitions[o.state]
    BY DEF JobTransitions
  <2>2. can_transition_to(o.state, "running") = TRUE
    BY <2>1 DEF can_transition_to
  <2> QED
    BY <2>2, Zenon DEF transition
<1> HIDE DEF version
<1>3. /\ m.version = version /\ m.lease_generation = o.lease_generation /\ m.state = "running"
      /\ m.lease = o.lease /\ m.retry_at = None /\ m.wake = NoWake
      /\ m.attempt_count = o.attempt_count /\ m.attempt_limit = o.attempt_limit
      /\ m.scheduled_at = o.scheduled_at /\ m.deadline = o.deadline
  BY DEF JobProjection
<1>4. validate(m)
  <2> HIDE DEF m
  <2> QED
    BY <1>1, <1>3 DEF validate
<1>5. m \in transition(o, "running", TRUE)
  <2>1. m \in Accepted(TRUE, m)
    <3> HIDE DEF m
    <3> QED
      BY <1>1, <1>3, <1>4 DEF Accepted
  <2> QED
    BY <1>2, <2>1
<1>6. CASE o.attempt_count # 0
  <2> HIDE DEF m
  <2>1. m \in decide_resume(o, fence, now)
    BY <1>5, <1>6 DEF decide_resume
  <2> QED
    BY <2>1
<1>7. CASE o.attempt_count = 0
  <2> DEFINE n == [m EXCEPT !.attempt_count = @ + 1]
  <2>1. /\ n.version = version /\ n.lease_generation = o.lease_generation
        /\ n.state = "running" /\ n.lease = o.lease /\ n.retry_at = None /\ n.wake = NoWake
        /\ n.attempt_count = 1 /\ n.attempt_limit = o.attempt_limit
        /\ n.scheduled_at = o.scheduled_at /\ n.deadline = o.deadline
    BY <1>3, <1>7 DEF JobProjection
  <2> HIDE DEF m
  <2>2. o.attempt_limit \in Nat /\ o.attempt_count < o.attempt_limit /\ 1 <= o.attempt_limit
    BY <1>7 DEF validate, JobProjection
  <2>3. validate(n)
    <3> HIDE DEF n
    <3> QED
      BY <1>1, <2>1, <2>2 DEF validate
  <2>4. n \in Accepted(TRUE, n)
    <3> HIDE DEF n
    <3> QED
      BY <1>1, <2>1, <2>3 DEF Accepted
  <2>5. n \in decide_start(o, fence, now)
    BY <1>5, <2>2, <2>4 DEF decide_start
  <2> QED
    BY <2>5
<1> QED
  BY <1>6, <1>7

-----------------------------------------------------------------------------
(* Schedules.                                                              *)

\* A transition does not touch the schedule.
LEMMA TransitionSchedule ==
    ASSUME NEW o \in JobProjection, NEW target, NEW retain, NEW n \in transition(o, target, retain)
    PROVE  n.scheduled_at = o.scheduled_at
BY DEF transition, Accepted, JobProjection

\* A claim, progress or release by the holder leaves the schedule alone.
LEMMA HolderSchedule ==
    ASSUME NEW o \in JobProjection, NEW fence, NEW now, NEW worker, NEW duration,
           NEW retry_at, NEW wake, NEW cleanup_deadline, NEW terminal,
           NEW n \in decide_claim(o, now, worker, duration)
                     \cup decide_claim_continuation(o, now, worker, duration)
                     \cup decide_start(o, fence, now) \cup decide_resume(o, fence, now)
                     \cup decide_heartbeat(o, fence, now, duration)
                     \cup decide_observation_update(o, fence, now)
                     \cup decide_terminal(o, fence, now, terminal)
                     \cup decide_cleanup_terminal(o, fence, now, cleanup_deadline, terminal)
                     \cup decide_reconciliation(o, fence, now)
                     \cup decide_cleanup_reconciliation(o, fence, now, cleanup_deadline)
                     \cup decide_wait(o, fence, now, wake)
                     \cup decide_retry(o, fence, now, retry_at)
    PROVE  n.scheduled_at = o.scheduled_at
<1>1. CASE n \in decide_claim(o, now, worker, duration)
                 \cup decide_claim_continuation(o, now, worker, duration)
  BY <1>1 DEF decide_claim, decide_claim_continuation, Accepted, leased_by, JobProjection
<1>2. CASE n \in decide_start(o, fence, now)
  <2>1. PICK m \in transition(o, "running", TRUE) : n = [m EXCEPT !.attempt_count = @ + 1]
    BY <1>2 DEF decide_start, Accepted
  <2>2. m.scheduled_at = o.scheduled_at
    BY TransitionSchedule
  <2>3. n.scheduled_at = m.scheduled_at
    BY <2>1 DEF transition, Accepted, JobProjection
  <2> QED
    BY <2>2, <2>3
<1>3. CASE n \in decide_resume(o, fence, now)
                 \cup decide_terminal(o, fence, now, terminal)
                 \cup decide_cleanup_terminal(o, fence, now, cleanup_deadline, terminal)
                 \cup decide_reconciliation(o, fence, now)
                 \cup decide_cleanup_reconciliation(o, fence, now, cleanup_deadline)
  BY <1>3, TransitionSchedule
     DEF decide_resume, decide_terminal, decide_cleanup_terminal, decide_reconciliation,
         decide_cleanup_reconciliation
<1>4. CASE n \in decide_heartbeat(o, fence, now, duration)
                 \cup decide_observation_update(o, fence, now)
  BY <1>4 DEF decide_heartbeat, decide_observation_update, Accepted, JobProjection
<1>5. CASE n \in decide_wait(o, fence, now, wake) \cup decide_retry(o, fence, now, retry_at)
  BY <1>5 DEF decide_wait, decide_retry, Accepted, parked, JobProjection
<1> QED
  BY <1>1, <1>2, <1>3, <1>4, <1>5

\* Whoever makes a Job ready again schedules it at that instant, and nobody else
\* moves the schedule.
LEMMA OwnerSchedule ==
    ASSUME NEW o \in JobProjection, NEW now, NEW terminal, NEW version, NEW generation,
           NEW source, NEW target, NEW retry_at,
           NEW n \in decide_owner_terminal(o, terminal) \cup decide_owner_reconciliation(o)
                     \cup decide_owner_cancelling(o)
                     \cup decide_terminal_physical_update(o, version)
                     \cup decide_retry_due(o, now)
                     \cup decide_wake(o, generation, source, now)
                     \cup decide_expired_lease(o, version, generation, now, target, retry_at)
                     \cup decide_expired_continuation(o, version, generation, now)
    PROVE  n.scheduled_at \in {o.scheduled_at, now}
<1>1. CASE \E m \in transition(o, "ready", FALSE) : n = [m EXCEPT !.scheduled_at = now]
  BY <1>1 DEF transition, Accepted, JobProjection
<1>2. CASE \E s, retain : n \in transition(o, s, retain)
  BY <1>2, TransitionSchedule
<1>3. CASE n \in decide_retry_due(o, now) \cup decide_wake(o, generation, source, now)
                 \cup decide_expired_continuation(o, version, generation, now)
  BY <1>1, <1>3 DEF decide_retry_due, decide_wake, decide_expired_continuation, Accepted
<1>4. CASE n \in decide_owner_terminal(o, terminal) \cup decide_owner_reconciliation(o)
                 \cup decide_owner_cancelling(o)
  BY <1>2, <1>4 DEF decide_owner_terminal, decide_owner_reconciliation, decide_owner_cancelling
<1>5. CASE n \in decide_terminal_physical_update(o, version)
  BY <1>5 DEF decide_terminal_physical_update, Accepted, JobProjection
<1>6. CASE n \in decide_expired_lease(o, version, generation, now, target, retry_at)
  <2>1. CASE target = "retry_scheduled"
    <3>1. n = parked(o, "retry_scheduled", retry_at, NoWake)
      BY <1>6, <2>1 DEF decide_expired_lease, Accepted
    <3> QED
      BY <3>1 DEF parked, JobProjection
  <2>2. CASE target = "ready"
    <3>1. \E m \in transition(o, "ready", FALSE) : n = [m EXCEPT !.scheduled_at = now]
      BY <1>6, <2>2 DEF decide_expired_lease, Accepted
    <3> QED
      BY <1>1, <3>1
  <2>3. CASE target \notin {"ready", "retry_scheduled"}
    <3>1. \E s : n \in transition(o, s, FALSE)
      BY <1>6, <2>3 DEF decide_expired_lease
    <3> QED
      BY <1>2, <3>1
  <2> QED
    BY <2>1, <2>2, <2>3
<1> QED
  BY <1>3, <1>4, <1>5, <1>6
=============================================================================
