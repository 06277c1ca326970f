------------------------ MODULE LeafDecisionTheorems ------------------------
(***************************************************************************)
(* What a decision about an external leaf may do to the stored owner, its  *)
(* Job and its payload, decision by decision, for every leaf, fence,       *)
(* answer and time.  Proofs about the adapter cite these lemmas and never  *)
(* expand a decision again.                                                *)
(***************************************************************************)
EXTENDS LeafDecisions, JobDecisionTheorems

\* A stored leaf.
Leaf == [state : LeafState, deadline : Nat, job : JobProjection \cup {NoJob},
         resume : BOOLEAN, polls : Nat, consumed : BOOLEAN, charged : Nat]

\* The Job of the successor is one the authority accepts.
HasJob(m) == m \in Leaf /\ m.job \in JobProjection /\ validate(m.job)

\* The charges and the query of the attempt stay as they are.
KeepsCharges(l, m) == m.consumed = l.consumed /\ m.charged = l.charged

\* A queued Job is handed to a worker, as a new attempt or as the one it resumes.
Starts(l, m) ==
    /\ HasJob(m) /\ KeepsCharges(l, m)
    /\ m.state = "in_flight"
    /\ l.job.state \in {"ready", "retry_scheduled"}
    /\ m.job.state = "running" /\ m.job.lease # NoLease
    /\ IF l.resume THEN l.job.state = "ready" /\ m.job.attempt_count = l.job.attempt_count
       ELSE m.job.attempt_count = l.job.attempt_count + 1

\* The Job gives up its lease and goes where its owner goes; the attempts stay.
Leaves(l, m, state, job_state) ==
    /\ HasJob(m)
    /\ m.state = state
    /\ m.job.state = job_state /\ m.job.lease = NoLease
    /\ m.job.attempt_count = l.job.attempt_count

-----------------------------------------------------------------------------
(* Leaves in general.                                                      *)

\* A leaf in whose Job something happens has a Job.
LEMMA LeafHasJob ==
    ASSUME NEW l \in Leaf, l.job # NoJob \/ l.job.state \in JobState
    PROVE  l.job \in JobProjection
BY DEF Leaf, NoJob, JobState

\* Claim and start leave the Job running under a lease: a new attempt is spent, a
\* resumed one is not.
LEMMA ClaimAndStart ==
    ASSUME NEW l \in Leaf, l.job \in JobProjection, NEW time \in Nat, NEW worker \in Workers,
           NEW duration \in Nat, NEW n \in claim_and_start(l, time, worker, duration)
    PROVE  /\ n \in JobProjection /\ validate(n) /\ n.state = "running" /\ n.lease # NoLease
           /\ l.job.state \in {"ready", "retry_scheduled"}
           /\ IF l.resume THEN l.job.state = "ready" /\ n.attempt_count = l.job.attempt_count
              ELSE n.attempt_count = l.job.attempt_count + 1
<1>1. CASE l.resume
  <2>1. PICK c \in decide_claim_continuation(l.job, time, worker, duration) :
          n \in decide_resume(c, fence_of(c), time)
    BY <1>1 DEF claim_and_start
  <2>2. Grants(l.job, c, worker) /\ l.job.state = "ready"
    BY ClaimStep DEF decide_claim_continuation, Accepted
  <2>3. c \in JobProjection
    BY <2>2 DEF Grants, Advances
  <2>4. Continues(c, n)
    BY <2>1, <2>3, ResumeStep
  <2> QED
    BY <1>1, <2>2, <2>4 DEF Grants, Continues, KeepsHolder, Advances
<1>2. CASE ~l.resume
  <2>1. PICK c \in decide_claim(l.job, time, worker, duration) :
          n \in decide_start(c, fence_of(c), time)
    BY <1>2 DEF claim_and_start
  <2>2. Grants(l.job, c, worker)
    BY ClaimStep
  <2>3. c \in JobProjection
    BY <2>2 DEF Grants, Advances
  <2>4. Dispatches(c, n)
    BY <2>1, <2>3, StartStep
  <2> QED
    BY <1>2, <2>2, <2>4 DEF Grants, Dispatches, KeepsHolder, Advances
<1> QED
  BY <1>1, <1>2 DEF Leaf

\* The first Job of a leaf is ready and has spent no attempt.
LEMMA PreparedLeaf ==
    ASSUME NEW l \in Leaf, NEW time \in Nat, NEW limit \in Nat, NEW m \in prepared(l, time, limit)
    PROVE  /\ HasJob(m) /\ KeepsCharges(l, m)
           /\ l.state = "ready" /\ l.job = NoJob
           /\ m.state = "ready" /\ m.resume = l.resume
           /\ m.job.state = "ready" /\ m.job.lease = NoLease /\ m.job.attempt_count = 0
<1> DEFINE j == [NoJob EXCEPT !.state = "ready", !.version = 1, !.attempt_limit = limit,
                              !.scheduled_at = time, !.deadline = l.deadline]
<1>1. /\ l.state = "ready" /\ l.job = NoJob /\ validate(j)
      /\ m = [l EXCEPT !.job = j]
  BY DEF prepared, Accepted
<1>2. /\ j \in JobProjection /\ j.state = "ready" /\ j.lease = NoLease /\ j.attempt_count = 0
  BY NullRecords DEF NoJob, JobProjection, JobState, OptionTime, None, Leaf
<1> HIDE DEF j
<1>3. HasJob(m) /\ KeepsCharges(l, m) /\ m.job = j /\ m.state = l.state /\ m.resume = l.resume
  BY <1>1, <1>2 DEF Leaf, HasJob, KeepsCharges
<1> QED
  BY <1>1, <1>2, <1>3

\* The wake contracts of a deferred dispatch and of a question to a person.
LEMMA WaitContracts ==
    ASSUME NEW l \in Leaf, l.job \in JobProjection, NEW at \in OptionTime, NEW limit \in Nat
    PROVE  remote_wait(l, at, limit) \in WakeContract /\ input_wait(l, at) \in WakeContract
<1>1. l.job.lease_generation \in Nat /\ l.polls \in Nat /\ l.deadline \in OptionTime
  BY DEF Leaf, JobProjection, OptionTime
<1>2. remote_wait(l, at, limit) \in WakeContract
  BY <1>1 DEF remote_wait, WakeContract, WakeSource
<1>3. input_wait(l, at) \in WakeContract
  BY <1>1 DEF input_wait, NoWake, WakeContract, WakeSource, None, OptionTime
<1> QED
  BY <1>2, <1>3

\* An owner without a Job ends alone, one with a Job together with it.
LEMMA EndedByOwner ==
    ASSUME NEW l \in Leaf, NEW kind \in {"cancel", "timeout"}, NEW m \in ended_by_owner(l, kind)
    PROVE  /\ \/ l.job = NoJob /\ m \in Leaf /\ m.job = NoJob
              \/ l.job # NoJob /\ Leaves(l, m, ControlTarget[kind], ControlTarget[kind])
           /\ m.state = ControlTarget[kind] /\ m.state \in {"cancelled", "timed_out"}
           /\ KeepsCharges(l, m) /\ m.resume = FALSE
<1>1. ControlTarget[kind] \in TerminalState /\ ControlTarget[kind] \in {"cancelled", "timed_out"}
      /\ ControlTarget[kind] \in LeafState
  BY DEF ControlTarget, TerminalState, LeafState
<1>2. CASE l.job = NoJob
  <2>1. m = [l EXCEPT !.state = ControlTarget[kind], !.job = NoJob, !.resume = FALSE]
    BY <1>2 DEF ended_by_owner
  <2> QED
    BY <1>1, <1>2, <2>1 DEF Leaf, KeepsCharges
<1>3. CASE l.job # NoJob
  <2>1. PICK n \in decide_owner_terminal(l.job, ControlTarget[kind]) :
          m = [l EXCEPT !.state = ControlTarget[kind], !.job = n, !.resume = FALSE]
    BY <1>3 DEF ended_by_owner
  <2>2. l.job \in JobProjection
    BY <1>3, LeafHasJob
  <2>3. Releases(l.job, n) /\ n.state = ControlTarget[kind]
    BY <1>1, <2>2, SettleTarget
  <2>4. Leaves(l, m, ControlTarget[kind], n.state) /\ KeepsCharges(l, m) /\ m.resume = FALSE
    BY <1>1, <2>1, <2>3 DEF Releases, Advances, Leaves, HasJob, KeepsCharges, Leaf
  <2> QED
    BY <1>1, <1>3, <2>3, <2>4 DEF Leaves
<1> QED
  BY <1>2, <1>3

-----------------------------------------------------------------------------
(* Capability invocations.                                                 *)

\* What a backend answers.
Answer == [kind : {"completed", "deferred", "input_required", "retryable", "permanent",
                   "uncertain"},
           at : OptionTime]

\* Where the answer leaves the owner, and its Job.
OwnerAfter(kind) ==
    CASE kind = "completed" -> "succeeded"
      [] kind = "deferred" -> "deferred"
      [] kind = "input_required" -> "awaiting_input"
      [] kind = "retryable" -> "retry_scheduled"
      [] kind = "permanent" -> "failed"
      [] kind = "uncertain" -> "reconciliation_required"

JobAfter(kind) ==
    IF kind \in {"deferred", "input_required"} THEN "waiting" ELSE OwnerAfter(kind)

\* A dispatch of an invocation starts or continues its attempt.
LEMMA StartedCapability ==
    ASSUME NEW l \in Leaf, l.job \in JobProjection, NEW time \in Nat, NEW worker \in Workers,
           NEW duration \in Nat, NEW m \in decide_start_dispatch(l, time, worker, duration)
    PROVE  /\ Starts(l, m) /\ m.resume = FALSE /\ capability_payload_valid(m)
           /\ l.state \in {"ready", "retry_scheduled", "in_flight"}
<1>1. PICK n \in claim_and_start(l, time, worker, duration) :
        /\ m = [l EXCEPT !.state = "in_flight", !.job = n, !.resume = FALSE]
        /\ l.state \in {"ready", "retry_scheduled", "in_flight"}
        /\ capability_payload_valid(m)
  BY DEF decide_start_dispatch, Capability
<1>2. /\ n \in JobProjection /\ validate(n) /\ n.state = "running" /\ n.lease # NoLease
      /\ l.job.state \in {"ready", "retry_scheduled"}
      /\ IF l.resume THEN l.job.state = "ready" /\ n.attempt_count = l.job.attempt_count
         ELSE n.attempt_count = l.job.attempt_count + 1
  BY ClaimAndStart
<1>3. HasJob(m) /\ KeepsCharges(l, m) /\ m.state = "in_flight" /\ m.job = n /\ m.resume = FALSE
  BY <1>1, <1>2 DEF Leaf, LeafState, HasJob, KeepsCharges
<1> QED
  BY <1>1, <1>2, <1>3 DEF Starts

\* An answer only counts for the dispatch in flight, and ends its lease.
LEMMA AnsweredCapability ==
    ASSUME NEW l \in Leaf, NEW admission, NEW fence, NEW outcome \in Answer, NEW time \in Nat,
           NEW limit \in Nat,
           NEW m \in decide_dispatch_outcome(l, admission, fence, outcome, time, limit)
    PROVE  /\ l.state = "in_flight" /\ l.job.state = "running" /\ KeepsCharges(l, m)
           /\ Leaves(l, m, OwnerAfter(outcome.kind), JobAfter(outcome.kind))
           /\ outcome.kind = "retryable" => replayable(admission)
           /\ m.resume <=> outcome.kind \in {"deferred", "input_required"}
           /\ capability_payload_valid(m)
<1>1. l.state = "in_flight" /\ l.job.state = "running" /\ capability_payload_valid(m)
  BY DEF decide_dispatch_outcome, Capability
<1>2. l.job \in JobProjection
  BY <1>1, LeafHasJob DEF JobState
<1>3. outcome.at \in OptionTime /\ outcome.kind \in {"completed", "deferred", "input_required",
                                                   "retryable", "permanent", "uncertain"}
  BY DEF Answer
<1>4. outcome.kind = "retryable" => replayable(admission)
  BY <1>1 DEF decide_dispatch_outcome, Capability
<1>5. CASE outcome.kind \in {"completed", "permanent"}
  <2> DEFINE end == IF outcome.kind = "completed" THEN "succeeded" ELSE "failed"
  <2>1. PICK n \in decide_terminal(l.job, fence, time, end) :
          m = [l EXCEPT !.state = end, !.job = n, !.resume = FALSE]
    BY <1>1, <1>5 DEF decide_dispatch_outcome, Capability
  <2>2. end \in TerminalState /\ end \in LeafState /\ OwnerAfter(outcome.kind) = end
        /\ JobAfter(outcome.kind) = end
    BY <1>5 DEF TerminalState, LeafState, OwnerAfter, JobAfter
  <2> HIDE DEF end
  <2>3. Releases(l.job, n) /\ n.state = end
    BY <1>2, <2>2, SettleTarget
  <2>4. /\ n \in JobProjection /\ validate(n) /\ n.lease = NoLease
        /\ n.attempt_count = l.job.attempt_count /\ n.state = end
    BY <2>3 DEF Releases, Advances
  <2>5. /\ HasJob(m) /\ KeepsCharges(l, m) /\ m.state = end /\ m.job = n
        /\ m.resume = FALSE
    BY <2>1, <2>2, <2>4 DEF HasJob, KeepsCharges, Leaf
  <2> QED
    BY <1>1, <1>4, <1>5, <2>2, <2>4, <2>5 DEF Leaves
<1>6. CASE outcome.kind = "uncertain"
  <2>1. PICK n \in decide_reconciliation(l.job, fence, time) :
          m = [l EXCEPT !.state = "reconciliation_required", !.job = n, !.resume = FALSE]
    BY <1>1, <1>6 DEF decide_dispatch_outcome, Capability
  <2>2. Suspects(l.job, n)
    BY <1>2, SuspectStep
  <2>3. /\ n \in JobProjection /\ validate(n) /\ n.lease = NoLease
        /\ n.attempt_count = l.job.attempt_count /\ n.state = "reconciliation_required"
    BY <2>2 DEF Suspects, Releases, Advances
  <2>4. /\ HasJob(m) /\ KeepsCharges(l, m) /\ m.state = "reconciliation_required" /\ m.job = n
        /\ m.resume = FALSE
    BY <2>1, <2>3 DEF HasJob, KeepsCharges, Leaf, LeafState
  <2> QED
    BY <1>1, <1>4, <1>6, <2>3, <2>4 DEF Leaves, OwnerAfter, JobAfter
<1>7. CASE outcome.kind = "retryable"
  <2>1. PICK n \in decide_retry(l.job, fence, time, outcome.at) :
          /\ m = [l EXCEPT !.state = "retry_scheduled", !.job = n, !.resume = FALSE]
          /\ replayable(admission)
    BY <1>1, <1>7 DEF decide_dispatch_outcome, Capability
  <2>2. outcome.at \in Nat
    BY <1>3 DEF decide_retry, Accepted, OptionTime, None
  <2>3. Backs_off(l.job, n)
    BY <1>2, <2>2, RetryStep
  <2>4. /\ n \in JobProjection /\ validate(n) /\ n.lease = NoLease
        /\ n.attempt_count = l.job.attempt_count /\ n.state = "retry_scheduled"
    BY <2>3 DEF Backs_off, Releases, Advances
  <2>5. /\ HasJob(m) /\ KeepsCharges(l, m) /\ m.state = "retry_scheduled" /\ m.job = n
        /\ m.resume = FALSE
    BY <2>1, <2>4 DEF HasJob, KeepsCharges, Leaf, LeafState
  <2> QED
    BY <1>1, <1>4, <1>7, <2>4, <2>5 DEF Leaves, OwnerAfter, JobAfter
<1>8. CASE outcome.kind = "deferred"
  <2>1. PICK n \in decide_wait(l.job, fence, time, remote_wait(l, outcome.at, limit)) :
          m = [l EXCEPT !.state = "deferred", !.job = n, !.resume = TRUE]
    BY <1>1, <1>8 DEF decide_dispatch_outcome, Capability
  <2>2. remote_wait(l, outcome.at, limit) \in WakeContract
    BY <1>2, <1>3, WaitContracts
  <2>3. Waits(l.job, n)
    BY <1>2, <2>2, WaitStep
  <2>4. /\ n \in JobProjection /\ validate(n) /\ n.lease = NoLease
        /\ n.attempt_count = l.job.attempt_count /\ n.state = "waiting"
    BY <2>3 DEF Waits, Releases, Advances
  <2>5. /\ HasJob(m) /\ KeepsCharges(l, m) /\ m.state = "deferred" /\ m.job = n
        /\ m.resume = TRUE
    BY <2>1, <2>4 DEF HasJob, KeepsCharges, Leaf, LeafState
  <2> QED
    BY <1>1, <1>4, <1>8, <2>4, <2>5 DEF Leaves, OwnerAfter, JobAfter
<1>9. CASE outcome.kind = "input_required"
  <2>1. PICK n \in decide_wait(l.job, fence, time, input_wait(l, outcome.at)) :
          m = [l EXCEPT !.state = "awaiting_input", !.job = n, !.resume = TRUE]
    BY <1>1, <1>9 DEF decide_dispatch_outcome, Capability
  <2>2. input_wait(l, outcome.at) \in WakeContract
    BY <1>2, <1>3, WaitContracts
  <2>3. Waits(l.job, n)
    BY <1>2, <2>2, WaitStep
  <2>4. /\ n \in JobProjection /\ validate(n) /\ n.lease = NoLease
        /\ n.attempt_count = l.job.attempt_count /\ n.state = "waiting"
    BY <2>3 DEF Waits, Releases, Advances
  <2>5. /\ HasJob(m) /\ KeepsCharges(l, m) /\ m.state = "awaiting_input" /\ m.job = n
        /\ m.resume = TRUE
    BY <2>1, <2>4 DEF HasJob, KeepsCharges, Leaf, LeafState
  <2> QED
    BY <1>1, <1>4, <1>9, <2>4, <2>5 DEF Leaves, OwnerAfter, JobAfter
<1> QED
  BY <1>3, <1>5, <1>6, <1>7, <1>8, <1>9

\* An expired dispatch is never ended as a success or a failure, and only retried when
\* it may be repeated.
LEMMA ExpiredCapability ==
    ASSUME NEW l \in Leaf, NEW admission, NEW time \in Nat, NEW retry_at \in OptionTime,
           NEW m \in decide_expired_dispatch(l, admission, time, retry_at)
    PROVE  /\ l.state = "in_flight" /\ l.job.state = "running" /\ KeepsCharges(l, m)
           /\ Leaves(l, m, m.state, m.state)
           /\ m.state \in {"timed_out", "retry_scheduled", "reconciliation_required"}
           /\ m.state = "retry_scheduled" => replayable(admission)
           /\ m.resume = l.resume /\ capability_payload_valid(m)
<1> DEFINE target == CASE l.deadline <= time -> "timed_out"
                       [] /\ time < l.deadline
                          /\ replayable(admission)
                          /\ l.job.attempt_count < l.job.attempt_limit
                          /\ retry_at # None -> "retry_scheduled"
                       [] OTHER -> "reconciliation_required"
<1>0. /\ target \in {"timed_out", "retry_scheduled", "reconciliation_required"}
      /\ target = "retry_scheduled" => replayable(admission)
  OBVIOUS
<1>1. PICK n \in decide_expired_lease(l.job, l.job.version, l.job.lease_generation, time,
                                      target, retry_at) :
        /\ m = [l EXCEPT !.state = target, !.job = n]
        /\ l.state = "in_flight" /\ l.job.state = "running"
        /\ capability_payload_valid(m)
  BY DEF decide_expired_dispatch, Capability
<1> HIDE DEF target
<1>2. l.job \in JobProjection /\ target \in JobState /\ target \in LeafState
  BY <1>0, <1>1, LeafHasJob DEF JobState, LeafState, TerminalState
<1>3. Releases(l.job, n) /\ n.state = target
  BY <1>2, ExpiredLeaseTarget
<1>4. /\ n \in JobProjection /\ validate(n) /\ n.lease = NoLease
      /\ n.attempt_count = l.job.attempt_count
  BY <1>3 DEF Releases, Advances
<1>5. HasJob(m) /\ KeepsCharges(l, m) /\ m.state = target /\ m.job = n /\ m.resume = l.resume
  BY <1>1, <1>2, <1>4 DEF HasJob, KeepsCharges, Leaf
<1> QED
  BY <1>0, <1>1, <1>3, <1>4, <1>5 DEF Leaves

\* A wake takes a waiting Job back to ready and spends no attempt.
LEMMA WokenJob ==
    ASSUME NEW o \in JobProjection, NEW generation, NEW source, NEW time \in Nat,
           NEW n \in decide_wake(o, generation, source, time)
    PROVE  /\ n \in JobProjection /\ validate(n) /\ n.state = "ready" /\ n.lease = NoLease
           /\ n.attempt_count = o.attempt_count /\ o.state = "waiting"
BY WakeStep DEF Requeues, Releases, Advances

\* A wake makes the Job of a deferred invocation ready.
LEMMA WokenCapability ==
    ASSUME NEW l \in Leaf, l.job \in JobProjection, NEW generation, NEW source, NEW time \in Nat,
           NEW m \in decide_capability_wake(l, generation, source, time)
    PROVE  /\ l.state = "deferred" /\ l.job.state = "waiting" /\ KeepsCharges(l, m)
           /\ Leaves(l, m, "in_flight", "ready")
           /\ m.resume = l.resume /\ capability_payload_valid(m)
<1>1. PICK n \in decide_wake(l.job, generation, source, time) :
        /\ m = [l EXCEPT !.state = "in_flight", !.job = n,
                         !.polls = IF source = "poll" THEN l.polls + 1 ELSE l.polls]
        /\ l.state = "deferred" /\ capability_payload_valid(m)
  BY DEF decide_capability_wake, Capability
<1>2. /\ n \in JobProjection /\ validate(n) /\ n.state = "ready" /\ n.lease = NoLease
      /\ n.attempt_count = l.job.attempt_count /\ l.job.state = "waiting"
  BY WokenJob
<1> DEFINE polls == IF source = "poll" THEN l.polls + 1 ELSE l.polls
<1>3. polls \in Nat /\ m = [l EXCEPT !.state = "in_flight", !.job = n, !.polls = polls]
  BY <1>1 DEF Leaf
<1> HIDE DEF polls
<1>4. HasJob(m) /\ KeepsCharges(l, m) /\ m.state = "in_flight" /\ m.job = n /\ m.resume = l.resume
  BY <1>2, <1>3 DEF HasJob, KeepsCharges, Leaf, LeafState
<1> QED
  BY <1>1, <1>2, <1>4 DEF Leaves

\* An answer makes an invocation that awaits input ready.
LEMMA InputCapability ==
    ASSUME NEW l \in Leaf, l.job \in JobProjection, NEW generation, NEW time \in Nat,
           NEW m \in decide_input_response(l, generation, time)
    PROVE  /\ l.state = "awaiting_input" /\ l.job.state = "waiting" /\ KeepsCharges(l, m)
           /\ Leaves(l, m, "ready", "ready")
           /\ m.resume = l.resume /\ capability_payload_valid(m)
<1>1. PICK n \in decide_wake(l.job, generation, "signal", time) :
        /\ m = [l EXCEPT !.state = "ready", !.job = n]
        /\ l.state = "awaiting_input" /\ capability_payload_valid(m)
  BY DEF decide_input_response, Capability
<1>2. /\ n \in JobProjection /\ validate(n) /\ n.state = "ready" /\ n.lease = NoLease
      /\ n.attempt_count = l.job.attempt_count /\ l.job.state = "waiting"
  BY WokenJob
<1>3. HasJob(m) /\ KeepsCharges(l, m) /\ m.state = "ready" /\ m.job = n /\ m.resume = l.resume
  BY <1>1, <1>2 DEF HasJob, KeepsCharges, Leaf, LeafState
<1> QED
  BY <1>1, <1>2, <1>3 DEF Leaves

\* Control cancels, hands to reconciliation, or ends; it never ends an active write.
LEMMA ControlledCapability ==
    ASSUME NEW l \in Leaf, NEW admission, NEW kind \in {"cancel", "timeout"}, NEW time \in Nat,
           l.state \in {"in_flight", "deferred"} => l.job # NoJob, l.state # "cancelling",
           NEW m \in decide_control(l, admission, kind, time)
    PROVE  /\ KeepsCharges(l, m) /\ m.resume = FALSE /\ capability_payload_valid(m)
           /\ l.state \notin TerminalState \cup {"reconciliation_required"}
           /\ \/ /\ HasJob(m) /\ m.state = "cancelling" /\ m.job.state = "cancelling"
                 /\ m.job.lease = l.job.lease /\ m.job.attempt_count = l.job.attempt_count
              \/ Leaves(l, m, "reconciliation_required", "reconciliation_required")
              \/ /\ m.state \in {"cancelled", "timed_out"}
                 /\ writes(admission) => l.state \notin {"in_flight", "deferred"}
                 /\ \/ l.job = NoJob /\ m \in Leaf /\ m.job = NoJob
                    \/ l.job # NoJob /\ Leaves(l, m, m.state, m.state)
<1>1. /\ l.state \notin TerminalState \cup {"reconciliation_required"}
      /\ capability_payload_valid(m)
  BY DEF decide_control, Capability
<1>2. \/ /\ l.state \in {"in_flight", "deferred"}
         /\ \E n \in decide_owner_cancelling(l.job) :
               m = [l EXCEPT !.state = "cancelling", !.job = n, !.resume = FALSE]
      \/ /\ l.state \in {"in_flight", "deferred"}
         /\ \E n \in decide_owner_reconciliation(l.job) :
               m = [l EXCEPT !.state = "reconciliation_required", !.job = n, !.resume = FALSE]
      \/ /\ writes(admission) => l.state \notin {"in_flight", "deferred"}
         /\ m \in ended_by_owner(l, kind)
  BY DEF decide_control, Capability
<1>3. ASSUME l.state \in {"in_flight", "deferred"}, NEW n \in decide_owner_cancelling(l.job),
             m = [l EXCEPT !.state = "cancelling", !.job = n, !.resume = FALSE]
      PROVE  /\ HasJob(m) /\ KeepsCharges(l, m) /\ m.resume = FALSE
             /\ m.state = "cancelling" /\ m.job.state = "cancelling"
             /\ m.job.lease = l.job.lease /\ m.job.attempt_count = l.job.attempt_count
  <2>1. Cancels(l.job, n)
    BY <1>3, LeafHasJob, CancelStep
  <2>2. /\ n \in JobProjection /\ validate(n) /\ n.state = "cancelling" /\ n.lease = l.job.lease
        /\ n.attempt_count = l.job.attempt_count
    BY <2>1 DEF Cancels, Advances
  <2> QED
    BY <1>3, <2>2 DEF HasJob, KeepsCharges, Leaf, LeafState
<1>4. ASSUME l.state \in {"in_flight", "deferred"}, NEW n \in decide_owner_reconciliation(l.job),
             m = [l EXCEPT !.state = "reconciliation_required", !.job = n, !.resume = FALSE]
      PROVE  /\ Leaves(l, m, "reconciliation_required", "reconciliation_required")
             /\ KeepsCharges(l, m) /\ m.resume = FALSE
  <2>1. Suspects(l.job, n)
    BY <1>4, LeafHasJob, SuspectStep
  <2>2. /\ n \in JobProjection /\ validate(n) /\ n.lease = NoLease
        /\ n.state = "reconciliation_required" /\ n.attempt_count = l.job.attempt_count
    BY <2>1 DEF Suspects, Releases, Advances
  <2>3. /\ HasJob(m) /\ KeepsCharges(l, m) /\ m.state = "reconciliation_required"
        /\ m.job = n /\ m.resume = FALSE
    BY <1>4, <2>2 DEF HasJob, KeepsCharges, Leaf, LeafState
  <2> QED
    BY <2>2, <2>3 DEF Leaves
<1>5. CASE /\ writes(admission) => l.state \notin {"in_flight", "deferred"}
           /\ m \in ended_by_owner(l, kind)
  <2>1. /\ \/ l.job = NoJob /\ m \in Leaf /\ m.job = NoJob
           \/ l.job # NoJob /\ Leaves(l, m, m.state, m.state)
        /\ m.state \in {"cancelled", "timed_out"} /\ KeepsCharges(l, m) /\ m.resume = FALSE
    BY <1>5, EndedByOwner
  <2> QED
    BY <1>1, <1>5, <2>1
<1> QED
  BY <1>1, <1>2, <1>3, <1>4, <1>5

\* A cancelled write counts as cancelled only with a proof that it had no effect.
LEMMA CancelledCapability ==
    ASSUME NEW l \in Leaf, NEW admission, NEW fences, NEW cleanup, NEW proof \in BOOLEAN,
           NEW time \in Nat,
           NEW m \in decide_cancellation_outcome(l, admission, fences, cleanup, proof, time)
    PROVE  /\ l.state = "cancelling" /\ l.job.state = "cancelling" /\ KeepsCharges(l, m)
           /\ Leaves(l, m, m.state, m.state)
           /\ m.state \in {"cancelled", "reconciliation_required"}
           /\ m.state = "cancelled" => ~writes(admission) \/ proof
           /\ m.resume = l.resume /\ capability_payload_valid(m)
<1>1. l.state = "cancelling" /\ l.job.state = "cancelling" /\ capability_payload_valid(m)
  BY DEF decide_cancellation_outcome, Capability
<1>2. l.job \in JobProjection
  BY <1>1, LeafHasJob DEF JobState
<1>3. ASSUME NEW state \in {"cancelled", "reconciliation_required"}, NEW n, Releases(l.job, n),
             n.state = state, m = [l EXCEPT !.state = state, !.job = n]
      PROVE  Leaves(l, m, state, state) /\ KeepsCharges(l, m) /\ m.resume = l.resume
  <2>1. /\ n \in JobProjection /\ validate(n) /\ n.lease = NoLease
        /\ n.attempt_count = l.job.attempt_count /\ state \in LeafState
    BY <1>3 DEF Releases, Advances, LeafState, TerminalState
  <2>2. HasJob(m) /\ KeepsCharges(l, m) /\ m.state = state /\ m.job = n /\ m.resume = l.resume
    BY <1>3, <2>1 DEF HasJob, KeepsCharges, Leaf
  <2> QED
    BY <1>3, <2>1, <2>2 DEF Leaves
<1>4. CASE writes(admission) /\ ~proof
  <2>1. PICK n \in (UNION {decide_reconciliation(l.job, f, time) : f \in fences})
                   \cup (UNION {UNION {decide_cleanup_reconciliation(l.job, f, time, c) :
                                       c \in cleanup} : f \in fences})
                   \cup decide_owner_reconciliation(l.job) :
          m = [l EXCEPT !.state = "reconciliation_required", !.job = n]
    BY <1>1, <1>4 DEF decide_cancellation_outcome, Capability
  <2>2. Suspects(l.job, n)
    BY <1>2, SuspectStep
  <2>3. Leaves(l, m, "reconciliation_required", "reconciliation_required")
        /\ KeepsCharges(l, m) /\ m.resume = l.resume
    BY <1>3, <2>1, <2>2 DEF Suspects
  <2> QED
    BY <1>1, <1>4, <2>3 DEF Leaves
<1>5. CASE ~(writes(admission) /\ ~proof)
  <2>1. PICK n \in (UNION {decide_terminal(l.job, f, time, "cancelled") : f \in fences})
                   \cup (UNION {UNION {decide_cleanup_terminal(l.job, f, time, c, "cancelled") :
                                       c \in cleanup} : f \in fences})
                   \cup decide_owner_terminal(l.job, "cancelled") :
          m = [l EXCEPT !.state = "cancelled", !.job = n]
    BY <1>1, <1>5 DEF decide_cancellation_outcome, Capability
  <2>2. Releases(l.job, n) /\ n.state = "cancelled"
    <3>1. \/ \E f \in fences : n \in decide_terminal(l.job, f, time, "cancelled")
          \/ \E f \in fences, c \in cleanup :
                n \in decide_cleanup_terminal(l.job, f, time, c, "cancelled")
          \/ n \in decide_owner_terminal(l.job, "cancelled")
      OBVIOUS
    <3>2. "cancelled" \in TerminalState
      BY DEF TerminalState
    <3> QED
      BY <1>2, <3>1, <3>2, SettleTarget
  <2>3. Leaves(l, m, "cancelled", "cancelled") /\ KeepsCharges(l, m) /\ m.resume = l.resume
    BY <1>3, <2>1, <2>2
  <2> QED
    BY <1>1, <1>5, <2>3 DEF Leaves
<1> QED
  BY <1>4, <1>5

\* The operator's resolution ends the owner and the Job alike.
LEMMA ResolvedCapability ==
    ASSUME NEW l \in Leaf, NEW resolution \in {"succeeded", "failed", "cancelled"},
           NEW m \in decide_reconciliation_resolution(l, resolution)
    PROVE  /\ l.state = "reconciliation_required" /\ KeepsCharges(l, m)
           /\ l.job.state = "reconciliation_required"
           /\ Leaves(l, m, resolution, resolution)
           /\ m.resume = l.resume /\ capability_payload_valid(m)
<1>1. PICK n \in decide_owner_terminal(l.job, resolution) :
        /\ m = [l EXCEPT !.state = resolution, !.job = n]
        /\ l.state = "reconciliation_required" /\ l.job.state = "reconciliation_required"
        /\ capability_payload_valid(m)
  BY DEF decide_reconciliation_resolution, Capability
<1>2. l.job \in JobProjection /\ resolution \in TerminalState /\ resolution \in LeafState
  BY <1>1, LeafHasJob DEF JobState, TerminalState, LeafState
<1>3. Releases(l.job, n) /\ n.state = resolution
  BY <1>2, SettleTarget
<1>4. /\ n \in JobProjection /\ validate(n) /\ n.lease = NoLease
      /\ n.attempt_count = l.job.attempt_count
  BY <1>3 DEF Releases, Advances
<1>5. HasJob(m) /\ KeepsCharges(l, m) /\ m.state = resolution /\ m.job = n /\ m.resume = l.resume
  BY <1>1, <1>2, <1>4 DEF HasJob, KeepsCharges, Leaf
<1> QED
  BY <1>1, <1>3, <1>4, <1>5 DEF Leaves

-----------------------------------------------------------------------------
(* Model turns.                                                            *)

\* The owner stored with one more attempt accounted for.
Accounted(l, state, n) == [l EXCEPT !.state = state, !.job = n, !.charged = @ + 1]

Accounts(l, m) == m.charged = l.charged + 1 /\ m.consumed = l.consumed /\ m.resume = l.resume

\* A turn whose lease is released is charged for.
LEMMA AccountedLeaf ==
    ASSUME NEW l \in Leaf, NEW state \in LeafState, NEW n, Releases(l.job, n), n.state = state,
           NEW m, m = Accounted(l, state, n)
    PROVE  Leaves(l, m, state, state) /\ Accounts(l, m) /\ m.state = state
<1> DEFINE charged == l.charged + 1
<1>1. /\ n \in JobProjection /\ validate(n) /\ n.lease = NoLease
      /\ n.attempt_count = l.job.attempt_count
  BY DEF Releases, Advances
<1>2. charged \in Nat /\ m = [l EXCEPT !.state = state, !.job = n, !.charged = charged]
  BY DEF Leaf, Accounted
<1> HIDE DEF charged
<1>3. /\ HasJob(m) /\ m.state = state /\ m.job = n /\ m.resume = l.resume
      /\ m.consumed = l.consumed /\ m.charged = charged
  BY <1>1, <1>2 DEF HasJob, Leaf
<1> QED
  BY <1>1, <1>3 DEF Leaves, Accounts, charged

\* A dispatch of a turn starts an attempt.
LEMMA StartedModel ==
    ASSUME NEW l \in Leaf, l.job \in JobProjection, NEW time \in Nat, NEW worker \in Workers,
           NEW duration \in Nat, NEW m \in decide_start_model_dispatch(l, time, worker, duration)
    PROVE  Starts(l, m) /\ m.resume = l.resume /\ l.state \in {"ready", "retry_scheduled"}
<1>1. PICK n \in claim_and_start(l, time, worker, duration) :
        /\ m = [l EXCEPT !.state = "in_flight", !.job = n]
        /\ l.state \in {"ready", "retry_scheduled"}
  BY DEF decide_start_model_dispatch
<1>2. /\ n \in JobProjection /\ validate(n) /\ n.state = "running" /\ n.lease # NoLease
      /\ l.job.state \in {"ready", "retry_scheduled"}
      /\ IF l.resume THEN l.job.state = "ready" /\ n.attempt_count = l.job.attempt_count
         ELSE n.attempt_count = l.job.attempt_count + 1
  BY ClaimAndStart
<1>3. HasJob(m) /\ KeepsCharges(l, m) /\ m.state = "in_flight" /\ m.job = n /\ m.resume = l.resume
  BY <1>1, <1>2 DEF Leaf, LeafState, HasJob, KeepsCharges
<1> QED
  BY <1>1, <1>2, <1>3 DEF Starts

\* A turn whose lease has expired fails or is scheduled again, and is charged for.
LEMMA ExpiredModel ==
    ASSUME NEW l \in Leaf, NEW time \in Nat, NEW retry_at \in OptionTime,
           NEW m \in decide_expired_model_lease(l, time, retry_at)
    PROVE  /\ l.state = "in_flight" /\ l.job.state = "running"
           /\ m.state \in {"failed", "retry_scheduled"}
           /\ Leaves(l, m, m.state, m.state) /\ Accounts(l, m)
<1> DEFINE target == IF l.job.attempt_limit <= l.job.attempt_count THEN "failed"
                     ELSE "retry_scheduled"
<1>1. target \in {"failed", "retry_scheduled"}
  OBVIOUS
<1>2. PICK n \in decide_expired_lease(l.job, l.job.version, l.job.lease_generation, time,
                                      target, retry_at) :
        /\ m = Accounted(l, target, n)
        /\ l.state = "in_flight" /\ l.job.state = "running"
  BY DEF decide_expired_model_lease, Accounted
<1> HIDE DEF target
<1>3. l.job \in JobProjection /\ target \in JobState /\ target \in LeafState
  BY <1>1, <1>2, LeafHasJob DEF JobState, LeafState, TerminalState
<1>4. Releases(l.job, n) /\ n.state = target
  BY <1>3, ExpiredLeaseTarget
<1>5. Leaves(l, m, target, target) /\ Accounts(l, m) /\ m.state = target
  BY <1>2, <1>3, <1>4, AccountedLeaf
<1> QED
  BY <1>1, <1>2, <1>5

\* The answer of a provider ends the attempt of a turn, which is charged for.
LEMMA AnsweredModel ==
    ASSUME NEW l \in Leaf, NEW fence, NEW outcome \in Answer, NEW time \in Nat,
           NEW m \in decide_model_outcome(l, fence, outcome, time)
    PROVE  /\ l.state = "in_flight" /\ l.job.state = "running"
           /\ outcome.kind \in {"completed", "retryable", "permanent"}
           /\ m.state = OwnerAfter(outcome.kind)
           /\ Leaves(l, m, m.state, m.state) /\ Accounts(l, m)
<1>1. /\ l.state = "in_flight" /\ l.job.state = "running"
      /\ outcome.kind \in {"completed", "retryable", "permanent"}
  BY DEF decide_model_outcome
<1>2. l.job \in JobProjection
  BY <1>1, LeafHasJob DEF JobState
<1>3. CASE outcome.kind \in {"completed", "permanent"}
  <2> DEFINE end == IF outcome.kind = "completed" THEN "succeeded" ELSE "failed"
  <2>1. PICK n \in decide_terminal(l.job, fence, time, end) : m = Accounted(l, end, n)
    BY <1>1, <1>3 DEF decide_model_outcome, Accounted
  <2>2. end \in TerminalState /\ end \in LeafState /\ OwnerAfter(outcome.kind) = end
    BY <1>3 DEF TerminalState, LeafState, OwnerAfter
  <2> HIDE DEF end
  <2>3. Releases(l.job, n) /\ n.state = end
    BY <1>2, <2>2, SettleTarget
  <2>4. Leaves(l, m, end, end) /\ Accounts(l, m) /\ m.state = end
    BY <2>1, <2>2, <2>3, AccountedLeaf
  <2> QED
    BY <1>1, <2>2, <2>4
<1>4. CASE outcome.kind = "retryable"
  <2>1. PICK n \in decide_retry(l.job, fence, time, outcome.at) :
          m = Accounted(l, "retry_scheduled", n)
    BY <1>1, <1>4 DEF decide_model_outcome, Accounted
  <2>2. outcome.at \in Nat
    BY DEF Answer, decide_retry, Accepted, OptionTime, None
  <2>3. Releases(l.job, n) /\ n.state = "retry_scheduled"
    BY <1>2, <2>2, RetryStep DEF Backs_off
  <2>4. "retry_scheduled" \in LeafState /\ OwnerAfter(outcome.kind) = "retry_scheduled"
    BY <1>4 DEF LeafState, OwnerAfter
  <2>5. Leaves(l, m, "retry_scheduled", "retry_scheduled") /\ Accounts(l, m)
        /\ m.state = "retry_scheduled"
    BY <2>1, <2>3, <2>4, AccountedLeaf
  <2> QED
    BY <1>1, <2>4, <2>5
<1> QED
  BY <1>1, <1>3, <1>4

\* Control fences a request in flight and leaves it to be accounted for; anything else
\* it ends, and accounts for a lease it takes away.
LEMMA ControlledModel ==
    ASSUME NEW l \in Leaf, NEW kind \in {"cancel", "timeout"}, NEW time \in Nat,
           l.state = "in_flight" => l.job \in JobProjection /\ kind = "cancel",
           NEW m \in decide_model_control(l, kind, time)
    PROVE  /\ l.state \notin TerminalState
           /\ \/ /\ l.state = "in_flight" /\ KeepsCharges(l, m) /\ m.resume = l.resume
                 /\ HasJob(m) /\ m.state = "cancelling" /\ m.job.state = "cancelling"
                 /\ m.job.lease = l.job.lease /\ m.job.attempt_count = l.job.attempt_count
              \/ /\ l.state # "in_flight"
                 /\ m.state \in {"cancelled", "timed_out"} /\ m.resume = FALSE
                 /\ m.charged = l.charged + IF l.job.lease # NoLease THEN 1 ELSE 0
                 /\ \/ l.job = NoJob /\ m \in Leaf /\ m.job = NoJob
                    \/ l.job # NoJob /\ Leaves(l, m, m.state, m.state)
<1>1. l.state \notin TerminalState
  BY DEF decide_model_control
<1>2. CASE l.state = "in_flight"
  <2>1. PICK n \in decide_owner_cancelling(l.job) :
          m = [l EXCEPT !.state = "cancelling", !.job = n]
    BY <1>1, <1>2 DEF decide_model_control
  <2>2. Cancels(l.job, n)
    BY <1>2, CancelStep
  <2>3. /\ n \in JobProjection /\ validate(n) /\ n.state = "cancelling" /\ n.lease = l.job.lease
        /\ n.attempt_count = l.job.attempt_count
    BY <2>2 DEF Cancels, Advances
  <2>4. HasJob(m) /\ KeepsCharges(l, m) /\ m.resume = l.resume /\ m.state = "cancelling"
        /\ m.job = n
    BY <2>1, <2>3 DEF HasJob, KeepsCharges, Leaf, LeafState
  <2> QED
    BY <1>1, <1>2, <2>3, <2>4
<1>3. CASE l.state # "in_flight"
  <2>1. PICK e \in ended_by_owner(l, kind) :
          m = [e EXCEPT !.charged = IF l.job.lease # NoLease THEN @ + 1 ELSE @]
    BY <1>1, <1>3 DEF decide_model_control
  <2>2. /\ \/ l.job = NoJob /\ e \in Leaf /\ e.job = NoJob
           \/ l.job # NoJob /\ Leaves(l, e, e.state, e.state)
        /\ e.state \in {"cancelled", "timed_out"} /\ KeepsCharges(l, e) /\ e.resume = FALSE
    BY EndedByOwner
  <2> DEFINE charged == l.charged + IF l.job.lease # NoLease THEN 1 ELSE 0
  <2>3. charged \in Nat /\ e \in Leaf /\ m = [e EXCEPT !.charged = charged]
    BY <2>1, <2>2 DEF Leaf, Leaves, HasJob, KeepsCharges
  <2> HIDE DEF charged
  <2>4. m \in Leaf /\ m.state = e.state /\ m.job = e.job /\ m.resume = e.resume
        /\ m.charged = charged
    BY <2>3 DEF Leaf
  <2>5. Leaves(l, e, e.state, e.state) => Leaves(l, m, m.state, m.state)
    BY <2>4 DEF Leaves, HasJob
  <2> QED
    BY <1>1, <1>3, <2>2, <2>4, <2>5 DEF charged
<1> QED
  BY <1>2, <1>3

\* A cancelled turn ends and is charged for.
LEMMA CancelledModel ==
    ASSUME NEW l \in Leaf, NEW fences, NEW time \in Nat,
           NEW m \in decide_model_cancellation_outcome(l, fences, time)
    PROVE  /\ l.state = "cancelling" /\ l.job.state = "cancelling"
           /\ Leaves(l, m, "cancelled", "cancelled") /\ Accounts(l, m)
<1>1. PICK n \in (UNION {decide_terminal(l.job, f, time, "cancelled") : f \in fences})
                 \cup decide_owner_terminal(l.job, "cancelled") :
        /\ m = Accounted(l, "cancelled", n)
        /\ l.state = "cancelling" /\ l.job.state = "cancelling"
  BY DEF decide_model_cancellation_outcome, Accounted
<1>2. /\ l.job \in JobProjection /\ "cancelled" \in JobState /\ "cancelled" \in LeafState
  BY <1>1, LeafHasJob DEF JobState, LeafState, TerminalState
<1>3. n \in transition(l.job, "cancelled", FALSE)
  BY DEF decide_terminal, decide_owner_terminal
<1>4. Releases(l.job, n) /\ n.state = "cancelled"
  BY <1>2, <1>3, ReleasingTransition
<1>5. Leaves(l, m, "cancelled", "cancelled") /\ Accounts(l, m)
  BY <1>1, <1>2, <1>4, AccountedLeaf
<1> QED
  BY <1>1, <1>5

-----------------------------------------------------------------------------
(* Context queries.                                                        *)

\* A query the attempt had not used yet is charged.
Uses(l, m) == m.charged = l.charged + use_query(l)

\* The owner stored after an outcome, with the query of the attempt used.  A deferred
\* attempt is resumed, a retried one leaves the query of the next attempt unused.
Used(l, state, n) ==
    [l EXCEPT !.state = state, !.job = n, !.resume = (state = "deferred"),
              !.consumed = (state # "retry_scheduled"), !.charged = @ + use_query(l)]

\* A query whose lease is released has used its attempt.
LEMMA UsedLeaf ==
    ASSUME NEW l \in Leaf, NEW state \in LeafState, NEW n, Releases(l.job, n),
           NEW m, m = Used(l, state, n)
    PROVE  /\ Leaves(l, m, state, n.state) /\ Uses(l, m) /\ m.state = state
           /\ m.resume <=> state = "deferred"
           /\ m.consumed <=> state # "retry_scheduled"
<1> DEFINE charged == l.charged + use_query(l)
           resume == (state = "deferred")
           consumed == (state # "retry_scheduled")
<1>1. /\ n \in JobProjection /\ validate(n) /\ n.lease = NoLease
      /\ n.attempt_count = l.job.attempt_count
  BY DEF Releases, Advances
<1>2. /\ charged \in Nat /\ resume \in BOOLEAN /\ consumed \in BOOLEAN
      /\ m = [l EXCEPT !.state = state, !.job = n, !.resume = resume, !.consumed = consumed,
                       !.charged = charged]
  BY DEF Leaf, Used, use_query
<1> HIDE DEF charged, resume, consumed
<1>3. /\ HasJob(m) /\ m.state = state /\ m.job = n /\ m.resume = resume
      /\ m.consumed = consumed /\ m.charged = charged
  BY <1>1, <1>2 DEF HasJob, Leaf
<1> QED
  BY <1>1, <1>3 DEF Leaves, Uses, charged, resume, consumed

\* A dispatch of a query starts an attempt, or resumes the deferred one.
LEMMA StartedContext ==
    ASSUME NEW l \in Leaf, l.job \in JobProjection, NEW time \in Nat, NEW worker \in Workers,
           NEW duration \in Nat, NEW m \in decide_start_context_dispatch(l, time, worker, duration)
    PROVE  /\ Starts(l, m) /\ m.resume = l.resume
           /\ IF l.resume THEN l.state = "deferred" ELSE l.state \in {"ready", "retry_scheduled"}
<1>1. PICK n \in claim_and_start(l, time, worker, duration) :
        /\ m = [l EXCEPT !.state = "in_flight", !.job = n]
        /\ l.state \in IF l.resume THEN {"deferred"} ELSE {"ready", "retry_scheduled"}
  BY DEF decide_start_context_dispatch, Context
<1>2. /\ n \in JobProjection /\ validate(n) /\ n.state = "running" /\ n.lease # NoLease
      /\ l.job.state \in {"ready", "retry_scheduled"}
      /\ IF l.resume THEN l.job.state = "ready" /\ n.attempt_count = l.job.attempt_count
         ELSE n.attempt_count = l.job.attempt_count + 1
  BY ClaimAndStart
<1>3. HasJob(m) /\ KeepsCharges(l, m) /\ m.state = "in_flight" /\ m.job = n /\ m.resume = l.resume
  BY <1>1, <1>2 DEF Leaf, LeafState, HasJob, KeepsCharges
<1> QED
  BY <1>1, <1>2, <1>3 DEF Starts

\* An expired attempt is charged, and the next one starts with its query unused.
LEMMA ExpiredContext ==
    ASSUME NEW l \in Leaf, NEW time \in Nat, NEW retry_at \in OptionTime,
           NEW m \in decide_expired_context_lease(l, time, retry_at)
    PROVE  /\ l.state = "in_flight" /\ l.job.state = "running"
           /\ Leaves(l, m, "retry_scheduled", "retry_scheduled") /\ Uses(l, m)
           /\ ~m.resume /\ ~m.consumed
<1>1. PICK n \in decide_expired_lease(l.job, l.job.version, l.job.lease_generation, time,
                                      "retry_scheduled", retry_at) :
        /\ m = Used(l, "retry_scheduled", n)
        /\ l.state = "in_flight" /\ l.job.state = "running"
  BY DEF decide_expired_context_lease, Context, Used
<1>2. /\ l.job \in JobProjection /\ "retry_scheduled" \in JobState
      /\ "retry_scheduled" \in LeafState
  BY <1>1, LeafHasJob DEF JobState, LeafState
<1>3. Releases(l.job, n) /\ n.state = "retry_scheduled"
  BY <1>2, ExpiredLeaseTarget
<1>4. Leaves(l, m, "retry_scheduled", n.state) /\ Uses(l, m) /\ ~m.resume /\ ~m.consumed
  BY <1>1, <1>2, <1>3, UsedLeaf
<1> QED
  BY <1>1, <1>3, <1>4

\* A deferred query stays used by the attempt that resumes it, a retried one does not.
LEMMA AnsweredContext ==
    ASSUME NEW l \in Leaf, NEW fence, NEW outcome \in Answer, NEW time \in Nat, NEW limit \in Nat,
           NEW m \in decide_context_outcome(l, fence, outcome, time, limit)
    PROVE  /\ l.state = "in_flight" /\ l.job.state = "running"
           /\ outcome.kind \in {"completed", "deferred", "retryable", "permanent"}
           /\ m.state = OwnerAfter(outcome.kind)
           /\ Leaves(l, m, m.state, JobAfter(outcome.kind)) /\ Uses(l, m)
           /\ m.consumed <=> outcome.kind # "retryable"
           /\ m.resume => m.consumed
<1>1. /\ l.state = "in_flight" /\ l.job.state = "running"
      /\ outcome.kind \in {"completed", "deferred", "retryable", "permanent"}
  BY DEF decide_context_outcome, Context
<1>2. l.job \in JobProjection
  BY <1>1, LeafHasJob DEF JobState
<1>3. CASE outcome.kind \in {"completed", "permanent"}
  <2> DEFINE end == IF outcome.kind = "completed" THEN "succeeded" ELSE "failed"
  <2>1. PICK n \in decide_terminal(l.job, fence, time, end) : m = Used(l, end, n)
    BY <1>1, <1>3 DEF decide_context_outcome, Context, Used
  <2>2. end \in TerminalState /\ end \in LeafState /\ OwnerAfter(outcome.kind) = end
        /\ JobAfter(outcome.kind) = end /\ end \notin {"deferred", "retry_scheduled"}
    BY <1>3 DEF TerminalState, LeafState, OwnerAfter, JobAfter
  <2> HIDE DEF end
  <2>3. Releases(l.job, n) /\ n.state = end
    BY <1>2, <2>2, SettleTarget
  <2>4. /\ Leaves(l, m, end, n.state) /\ Uses(l, m) /\ m.state = end
        /\ ~m.resume /\ m.consumed
    BY <2>1, <2>2, <2>3, UsedLeaf
  <2> QED
    BY <1>1, <1>3, <2>2, <2>3, <2>4
<1>4. CASE outcome.kind = "retryable"
  <2>1. PICK n \in decide_retry(l.job, fence, time, outcome.at) :
          m = Used(l, "retry_scheduled", n)
    BY <1>1, <1>4 DEF decide_context_outcome, Context, Used
  <2>2. outcome.at \in Nat
    BY DEF Answer, decide_retry, Accepted, OptionTime, None
  <2>3. Releases(l.job, n) /\ n.state = "retry_scheduled"
    BY <1>2, <2>2, RetryStep DEF Backs_off
  <2>4. /\ "retry_scheduled" \in LeafState /\ OwnerAfter(outcome.kind) = "retry_scheduled"
        /\ JobAfter(outcome.kind) = "retry_scheduled"
    BY <1>4 DEF LeafState, OwnerAfter, JobAfter
  <2>5. /\ Leaves(l, m, "retry_scheduled", n.state) /\ Uses(l, m)
        /\ m.state = "retry_scheduled" /\ ~m.resume /\ ~m.consumed
    BY <2>1, <2>3, <2>4, UsedLeaf
  <2> QED
    BY <1>1, <1>4, <2>3, <2>4, <2>5
<1>5. CASE outcome.kind = "deferred"
  <2>1. PICK n \in decide_wait(l.job, fence, time, remote_wait(l, outcome.at, limit)) :
          m = Used(l, "deferred", n)
    BY <1>1, <1>5 DEF decide_context_outcome, Context, Used
  <2>2. outcome.at \in OptionTime
    BY DEF Answer
  <2>3. remote_wait(l, outcome.at, limit) \in WakeContract
    BY <1>2, <2>2, WaitContracts
  <2>4. Releases(l.job, n) /\ n.state = "waiting"
    BY <1>2, <2>3, WaitStep DEF Waits
  <2>5. /\ "deferred" \in LeafState /\ OwnerAfter(outcome.kind) = "deferred"
        /\ JobAfter(outcome.kind) = "waiting"
    BY <1>5 DEF LeafState, OwnerAfter, JobAfter
  <2>6. /\ Leaves(l, m, "deferred", n.state) /\ Uses(l, m)
        /\ m.state = "deferred" /\ m.resume /\ m.consumed
    BY <2>1, <2>4, <2>5, UsedLeaf
  <2> QED
    BY <1>1, <1>5, <2>4, <2>5, <2>6
<1> QED
  BY <1>1, <1>3, <1>4, <1>5

\* A wake makes the Job of a deferred query ready.
LEMMA WokenContext ==
    ASSUME NEW l \in Leaf, l.job \in JobProjection, NEW generation, NEW source, NEW time \in Nat,
           NEW m \in decide_wake_context_dispatch(l, generation, source, time)
    PROVE  /\ l.state = "deferred" /\ l.job.state = "waiting" /\ KeepsCharges(l, m)
           /\ Leaves(l, m, "deferred", "ready") /\ m.resume = l.resume
<1>1. PICK n \in decide_wake(l.job, generation, source, time) :
        m = [l EXCEPT !.job = n] /\ l.state = "deferred"
  BY DEF decide_wake_context_dispatch, Context
<1>2. /\ n \in JobProjection /\ validate(n) /\ n.state = "ready" /\ n.lease = NoLease
      /\ n.attempt_count = l.job.attempt_count /\ l.job.state = "waiting"
  BY WokenJob
<1>3. HasJob(m) /\ KeepsCharges(l, m) /\ m.state = "deferred" /\ m.job = n /\ m.resume = l.resume
  BY <1>1, <1>2 DEF HasJob, KeepsCharges, Leaf
<1> QED
  BY <1>1, <1>2, <1>3 DEF Leaves

\* Control ends a query at once, and charges the attempt it cuts short.
LEMMA ControlledContext ==
    ASSUME NEW l \in Leaf, NEW kind \in {"cancel", "timeout"}, NEW time \in Nat,
           NEW m \in decide_context_control(l, kind, time)
    PROVE  /\ l.state \notin TerminalState
           /\ m.state \in {"cancelled", "timed_out"} /\ m.resume = FALSE
           /\ m.charged = l.charged + IF l.job.state = "running" THEN use_query(l) ELSE 0
           /\ \/ l.job = NoJob /\ m \in Leaf /\ m.job = NoJob
              \/ l.job # NoJob /\ Leaves(l, m, m.state, m.state)
<1>1. PICK e \in ended_by_owner(l, kind) :
        /\ l.state \notin TerminalState
        /\ m = [e EXCEPT !.consumed = @ \/ l.job.state = "running",
                         !.charged = @ + IF l.job.state = "running" THEN use_query(l) ELSE 0]
  BY DEF decide_context_control, Context
<1>2. /\ \/ l.job = NoJob /\ e \in Leaf /\ e.job = NoJob
         \/ l.job # NoJob /\ Leaves(l, e, e.state, e.state)
      /\ e.state \in {"cancelled", "timed_out"} /\ KeepsCharges(l, e) /\ e.resume = FALSE
  BY EndedByOwner
<1> DEFINE charged == l.charged + IF l.job.state = "running" THEN use_query(l) ELSE 0
           consumed == e.consumed \/ l.job.state = "running"
<1>3. e \in Leaf
  BY <1>2 DEF Leaves, HasJob
<1>4. charged \in Nat /\ consumed \in BOOLEAN
  BY DEF Leaf, use_query
<1>5. m = [e EXCEPT !.consumed = consumed, !.charged = charged]
  BY <1>1, <1>2 DEF KeepsCharges
<1> HIDE DEF charged, consumed
<1>6. m \in Leaf /\ m.state = e.state /\ m.job = e.job /\ m.resume = e.resume
      /\ m.charged = charged
  BY <1>3, <1>4, <1>5 DEF Leaf
<1>7. Leaves(l, e, e.state, e.state) => Leaves(l, m, m.state, m.state)
  BY <1>6 DEF Leaves, HasJob
<1> QED
  BY <1>1, <1>2, <1>6, <1>7 DEF charged
=============================================================================
