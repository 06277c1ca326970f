---------------------------- MODULE JobAuthority ----------------------------
(***************************************************************************)
(* The durable Job authority as a state machine: Jobs stored in            *)
(* PostgreSQL, worker tasks that hold fences, logical owners, wake senders *)
(* and expiry scanners, all calling the decisions of JobDecisions in any   *)
(* order.  The database clock is the only clock.  A task remembers the     *)
(* fence of the last reply it received; a reply may be lost, and a task    *)
(* may act on its fence arbitrarily late, so stale and repeated commands   *)
(* are behaviours of the model.  Several tasks may belong to one worker    *)
(* process.                                                                *)
(***************************************************************************)
EXTENDS JobDecisions

CONSTANTS Jobs,           \* job identities
          Tasks,          \* worker tasks
          process,        \* process[t]: the worker process generation of task t
          AttemptLimit,   \* attempt_limit of every job
          Deadline,       \* deadline of every job
          CleanupWindow,  \* how long past the deadline cleanup commits are taken
          Durations,      \* lease durations workers may ask for
          WakeContracts,  \* shapes of wake contracts owners may register
          MaxTime,        \* the clock stops here
          NoJob, NoTask   \* null values

ASSUME AuthorityAssumption ==
    /\ AttemptLimit \in Nat \ {0}
    /\ Deadline \in Nat \ {0}
    /\ CleanupWindow \in Nat
    /\ MaxTime \in Nat
    /\ NoJob \notin Jobs
    /\ Durations \subseteq Nat \ {0}
    /\ process \in [Tasks -> Workers]
    /\ NoTask \notin Tasks
    /\ \A c \in WakeContracts :
          /\ c.accepted_sources \subseteq WakeSource
          /\ c.next_poll_at \in OptionTime
          /\ c.poll_count \in Nat /\ c.poll_limit \in Nat
          /\ c.deadline \in Nat

VARIABLES now,       \* the database clock
          job,       \* job[j]: the stored projection of job j
          held,      \* held[t]: the fence task t last received, or NoFence
          woken,     \* history: woken[j], the lease generations whose wake was consumed
          claimant   \* history: claimant[j], the task whose claim was accepted last

vars == <<now, job, held, woken, claimant>>

NoFence == [job |-> NoJob, worker |-> NoWorker, expected_version |-> 0,
            lease_generation |-> 0]

NewJob == [state |-> "ready", version |-> 1, attempt_count |-> 0,
           attempt_limit |-> AttemptLimit, lease_generation |-> 0,
           lease |-> NoLease, scheduled_at |-> 0, retry_at |-> None,
           wake |-> NoWake, deadline |-> Deadline]

Init ==
    /\ now = 0
    /\ job = [j \in Jobs |-> NewJob]
    /\ held = [t \in Tasks |-> NoFence]
    /\ woken = [j \in Jobs |-> {}]
    /\ claimant = [j \in Jobs |-> NoTask]

Tick == /\ now < MaxTime
        /\ now' = now + 1
        /\ UNCHANGED <<job, held, woken, claimant>>

\* Commit of an accepted projection by the owning repository.
Store(j, accepted) == \E n \in accepted : job' = [job EXCEPT ![j] = n]

\* The reply carries the new version; the task may or may not receive it.
Reply(t, j) ==
    \/ held' = [held EXCEPT ![t] = [job |-> j, worker |-> process[t],
                                    expected_version |-> job'[j].version,
                                    lease_generation |-> job'[j].lease_generation]]
    \/ UNCHANGED held

Claim(t, j, duration) ==
    /\ Store(j, decide_claim(job[j], now, process[t], duration)
                \cup decide_claim_continuation(job[j], now, process[t], duration))
    /\ Reply(t, j)
    /\ claimant' = [claimant EXCEPT ![j] = t]
    /\ UNCHANGED <<now, woken>>

\* A fenced command that keeps the lease.
HolderProgress(t, j, accepted) ==
    /\ held[t].job = j
    /\ Store(j, accepted)
    /\ Reply(t, j)
    /\ UNCHANGED <<now, woken, claimant>>

Start(t, j) == HolderProgress(t, j, decide_start(job[j], held[t], now))
Resume(t, j) == HolderProgress(t, j, decide_resume(job[j], held[t], now))
Heartbeat(t, j, duration) ==
    HolderProgress(t, j, decide_heartbeat(job[j], held[t], now, duration))
Observe(t, j) == HolderProgress(t, j, decide_observation_update(job[j], held[t], now))

\* A fenced command that gives the lease up.
HolderRelease(t, j, accepted) ==
    /\ held[t].job = j
    /\ Store(j, accepted)
    /\ UNCHANGED <<now, held, woken, claimant>>

Terminal(t, j) ==
    \E s \in TerminalState : HolderRelease(t, j, decide_terminal(job[j], held[t], now, s))
CleanupTerminal(t, j) ==
    \E s \in TerminalState :
        HolderRelease(t, j, decide_cleanup_terminal(job[j], held[t], now,
                                                    job[j].deadline + CleanupWindow, s))
Reconciliation(t, j) == HolderRelease(t, j, decide_reconciliation(job[j], held[t], now))
CleanupReconciliation(t, j) ==
    HolderRelease(t, j, decide_cleanup_reconciliation(job[j], held[t], now,
                                                      job[j].deadline + CleanupWindow))
Wait(t, j) ==
    \E c \in WakeContracts :
        HolderRelease(t, j, decide_wait(job[j], held[t], now,
            [generation |-> held[t].lease_generation,
             accepted_sources |-> c.accepted_sources, next_poll_at |-> c.next_poll_at,
             poll_count |-> c.poll_count, poll_limit |-> c.poll_limit,
             deadline |-> c.deadline]))
Retry(t, j) ==
    \E retry_at \in 1..MaxTime :
        HolderRelease(t, j, decide_retry(job[j], held[t], now, retry_at))

\* An unfenced step: of the owner, of the database or of a scanner.
Unfenced(j, accepted) ==
    /\ Store(j, accepted)
    /\ UNCHANGED <<now, held, claimant>>

OwnerTerminal(j) ==
    /\ \E s \in TerminalState : Unfenced(j, decide_owner_terminal(job[j], s))
    /\ UNCHANGED woken
OwnerReconciliation(j) == Unfenced(j, decide_owner_reconciliation(job[j])) /\ UNCHANGED woken
OwnerCancelling(j) == Unfenced(j, decide_owner_cancelling(job[j])) /\ UNCHANGED woken
PhysicalUpdate(j) ==
    Unfenced(j, decide_terminal_physical_update(job[j], job[j].version)) /\ UNCHANGED woken
RetryDue(j) == Unfenced(j, decide_retry_due(job[j], now)) /\ UNCHANGED woken

\* Wake senders learned the generation when the wait was registered, however long ago.
Wake(j, generation, source) ==
    /\ Unfenced(j, decide_wake(job[j], generation, source, now))
    /\ woken' = [woken EXCEPT ![j] = @ \cup {generation}]

ExpiredLease(j) ==
    /\ \E target \in JobState, retry_at \in {None} \cup 1..MaxTime :
          Unfenced(j, decide_expired_lease(job[j], job[j].version, job[j].lease_generation,
                                           now, target, retry_at))
    /\ UNCHANGED woken
ExpiredContinuation(j) ==
    /\ Unfenced(j, decide_expired_continuation(job[j], job[j].version,
                                               job[j].lease_generation, now))
    /\ UNCHANGED woken

TaskStep(t, j) ==
    \/ \E duration \in Durations : Claim(t, j, duration) \/ Heartbeat(t, j, duration)
    \/ Start(t, j) \/ Resume(t, j) \/ Observe(t, j)
    \/ Terminal(t, j) \/ CleanupTerminal(t, j)
    \/ Reconciliation(t, j) \/ CleanupReconciliation(t, j)
    \/ Wait(t, j) \/ Retry(t, j)

OwnerStep(j) ==
    \/ OwnerTerminal(j) \/ OwnerReconciliation(j) \/ OwnerCancelling(j)
    \/ PhysicalUpdate(j) \/ RetryDue(j)
    \/ \E g \in 1..job[j].lease_generation, s \in WakeSource : Wake(j, g, s)
    \/ ExpiredLease(j) \/ ExpiredContinuation(j)

Next == Tick \/ \E j \in Jobs : OwnerStep(j) \/ \E t \in Tasks : TaskStep(t, j)

Spec == Init /\ [][Next]_vars

-----------------------------------------------------------------------------
(* Properties.                                                             *)

JobFence == [job : Jobs \cup {NoJob}, worker : Workers \cup {NoWorker},
             expected_version : Nat, lease_generation : Nat]

\* The variables keep their types.
TypeOK ==
    /\ now \in Nat
    /\ job \in [Jobs -> JobProjection]
    /\ held \in [Tasks -> JobFence]
    /\ woken \in [Jobs -> SUBSET Nat]
    /\ claimant \in [Jobs -> Tasks \cup {NoTask}]

\* The fence of the lease that is stored with Job j.
lease_fence(j) ==
    [job |-> j, worker |-> job[j].lease.worker, expected_version |-> job[j].version,
     lease_generation |-> job[j].lease.lease_generation]

\* Before its deadline a ready Job, or one whose retry time has come, is granted to
\* any worker that asks.
QueuedIsClaimable(j) ==
    /\ job[j].state = "ready" \/ (job[j].state = "retry_scheduled" /\ job[j].retry_at <= now)
    /\ now < job[j].deadline
    => \A w \in Workers, duration \in Durations :
          decide_claim(job[j], now, w, duration)
             \cup decide_claim_continuation(job[j], now, w, duration) # {}

\* The holder of a lease in force can begin its attempt or go on with the last one;
\* and whoever holds a lease can settle until the cleanup window closes.
HolderCanGoOn(j) ==
    job[j].lease # NoLease =>
        /\ now < job[j].lease.expires_at /\ job[j].state = "leased" =>
              decide_start(job[j], lease_fence(j), now)
                 \cup decide_resume(job[j], lease_fence(j), now) # {}
        /\ now <= job[j].deadline + CleanupWindow =>
              decide_cleanup_terminal(job[j], lease_fence(j), now,
                                      job[j].deadline + CleanupWindow, "cancelled") # {}

\* From the instant at which its lease ends, the scan can take the Job back: on to
\* the next worker before the deadline, to reconciliation if it was being
\* cancelled, to its end afterwards.
ExpiredIsRecoverable(j) ==
    LET recovered(target) ==
            decide_expired_lease(job[j], job[j].version, job[j].lease_generation, now, target, None)
    IN  job[j].lease # NoLease /\ ~(now < job[j].lease.expires_at) =>
            IF now < job[j].deadline
            THEN /\ job[j].state = "leased" => recovered("ready") # {}
                 /\ job[j].state = "running" =>
                       /\ decide_expired_continuation(job[j], job[j].version,
                                                      job[j].lease_generation, now) # {}
                       /\ job[j].attempt_count = AttemptLimit => recovered("failed") # {}
                 /\ job[j].state = "cancelling" => recovered("reconciliation_required") # {}
            ELSE recovered("timed_out") # {}

\* A wait that may time out does, from its own deadline up to that of the Job.
WaitCanTimeOut(j) ==
    /\ job[j].state = "waiting" /\ "timeout" \in job[j].wake.accepted_sources
    /\ job[j].wake.deadline <= now /\ now <= job[j].deadline
    => decide_wake(job[j], job[j].wake.generation, "timeout", now) # {}

\* Whatever claims, retries, waits, cancellations and expiries came before, a Job
\* is never left where the decision that should move it on refuses it: neither by
\* its guards (a retry without an attempt left, an attempt handed on that never
\* began, an instant at which a lease is neither in force nor expired) nor by the
\* validation of the successor.  Only a counter at its end is excepted.
NoJobIsStranded ==
    \A j \in Jobs :
        job[j].version < MaxCounter /\ job[j].lease_generation < MaxCounter =>
            /\ QueuedIsClaimable(j)
            /\ HolderCanGoOn(j)
            /\ ExpiredIsRecoverable(j)
            /\ WaitCanTimeOut(j)
            /\ job[j].state \notin TerminalState => decide_owner_terminal(job[j], "cancelled") # {}

\* validate_fence and validate_cleanup_fence admit nobody but the task of the last
\* accepted claim: not a stalled task of the same process, not one whose lease
\* was recovered and granted again, however late its command arrives.
OnlyLastClaimantIsAdmitted ==
    \A t \in Tasks, j \in Jobs :
        held[t].job = j /\ same_lease(job[j], held[t]) => t = claimant[j]

\* decide_wake lets the first sender win: the contract a Job is waiting on has a
\* generation no wake was ever accepted for, so a repeated or late wake of an
\* earlier wait cannot resume this one.
EachWaitIsWokenOnce ==
    \A j \in Jobs : job[j].state = "waiting" => job[j].wake.generation \notin woken[j]

\* First terminal winner: after a worker, owner, scanner or wake has settled the
\* Job, nothing but the version moves again.
SettledJobsAreFinal ==
    [][\A j \in Jobs :
          job[j].state \in TerminalState =>
             job'[j] = [job[j] EXCEPT !.version = job'[j].version]]_vars

\* The published closed table of contracts/platform-v1/schemas/states.json: every
\* change of a Job's state is one of its transitions.
PublishedTransitionsOnly ==
    [][\A j \in Jobs :
          job'[j].state # job[j].state =>
             can_transition_to(job[j].state, job'[j].state)]_vars

-----------------------------------------------------------------------------
(* The inductive invariant behind the safety properties.                   *)

\* Every stored projection passes JobProjection::validate.
StoredProjectionsValidate == \A j \in Jobs : validate(job[j])

\* No Job is scheduled in the future, an attempt that runs has been counted, and
\* one that waits for its retry has an attempt left.
AttemptsAreInOrder ==
    \A j \in Jobs :
        /\ job[j].scheduled_at <= now
        /\ job[j].state = "running" => job[j].attempt_count > 0
        /\ job[j].state = "retry_scheduled" => job[j].attempt_count < job[j].attempt_limit

LimitsKept == \A j \in Jobs : job[j].attempt_limit = AttemptLimit

\* No fence is ahead of its Job, and one that is level with it belongs to the
\* last claimant as long as the Job is leased.
FencesTrail ==
    \A t \in Tasks, j \in Jobs :
        held[t].job = j =>
            /\ held[t].expected_version <= job[j].version
            /\ held[t].expected_version = job[j].version /\ job[j].lease # NoLease
                  => t = claimant[j]

\* Consumed generations are past ones; while a lease is out, or a contract is
\* registered, the current generation has not been consumed.
WakesTrail ==
    \A j \in Jobs :
        /\ \A g \in woken[j] : g <= job[j].lease_generation
        /\ job[j].state \in {"leased", "running", "waiting"} =>
              job[j].lease_generation \notin woken[j]
        /\ job[j].state = "waiting" => job[j].wake.generation = job[j].lease_generation

InductiveInvariant ==
    /\ TypeOK /\ StoredProjectionsValidate /\ LimitsKept
    /\ AttemptsAreInOrder /\ FencesTrail /\ WakesTrail

\* The authority implements the abstract lifecycle.
Lifecycle == INSTANCE JobLifecycle WITH
    state <- [j \in Jobs |-> job[j].state],
    attempts <- [j \in Jobs |-> job[j].attempt_count],
    epoch <- [j \in Jobs |-> job[j].lease_generation],
    holder <- [j \in Jobs |-> job[j].lease.worker],
    NoHolder <- NoWorker

ImplementsLifecycle == Lifecycle!LifecycleSpec
=============================================================================
