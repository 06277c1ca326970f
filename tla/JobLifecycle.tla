---------------------------- MODULE JobLifecycle ----------------------------
(***************************************************************************)
(* What the shared Job authority promises to everyone who builds on it,    *)
(* with no clock, version, lease expiry or wake contract: a Job is held by *)
(* at most one worker, under a lease epoch that is never reused; a logical *)
(* attempt is only ever spent by the holder and never beyond the limit;    *)
(* only held or parked work settles with a result; a settled Job is final. *)
(* JobAuthority (the decisions of platform-jobs) and RegistryValidation    *)
(* (one repository built on them) are both shown to implement it.          *)
(***************************************************************************)
EXTENDS Integers

CONSTANTS Jobs, Workers, AttemptLimit, NoHolder

VARIABLES state,      \* state[j]: the lifecycle state of job j
          attempts,   \* attempts[j]: logical attempts dispatched so far
          epoch,      \* epoch[j]: lease generation, one per grant
          holder      \* holder[j]: the worker that holds the lease, or NoHolder

lifecycleVars == <<state, attempts, epoch, holder>>

Settled  == {"succeeded", "failed", "cancelled", "timed_out"}
Queued   == {"ready", "retry_scheduled"}
Held     == {"leased", "running"}
Parked   == {"ready", "waiting", "retry_scheduled"}

LifecycleInit ==
    /\ state = [j \in Jobs |-> "ready"]
    /\ attempts = [j \in Jobs |-> 0]
    /\ epoch = [j \in Jobs |-> 0]
    /\ holder = [j \in Jobs |-> NoHolder]

\* Only queued work is granted, to one worker, under a fresh epoch.
Grant(j, w) ==
    /\ state[j] \in Queued
    /\ state' = [state EXCEPT ![j] = "leased"]
    /\ epoch' = [epoch EXCEPT ![j] = @ + 1]
    /\ holder' = [holder EXCEPT ![j] = w]
    /\ UNCHANGED attempts

\* The holder dispatches a new attempt, within the limit.
Dispatch(j) ==
    /\ state[j] = "leased"
    /\ attempts[j] < AttemptLimit
    /\ state' = [state EXCEPT ![j] = "running"]
    /\ attempts' = [attempts EXCEPT ![j] = @ + 1]
    /\ UNCHANGED <<epoch, holder>>

\* The holder goes on with an attempt that was already dispatched.
Continue(j) ==
    /\ state[j] = "leased"
    /\ attempts[j] > 0
    /\ state' = [state EXCEPT ![j] = "running"]
    /\ UNCHANGED <<attempts, epoch, holder>>

\* The lease is given up or lost and the work is parked again.
Park(j, parked) ==
    /\ \/ state[j] = "leased" /\ parked = "ready"
       \/ state[j] = "running"
       \/ state[j] \in {"waiting", "retry_scheduled"} /\ parked = "ready"
    /\ state' = [state EXCEPT ![j] = parked]
    /\ holder' = [holder EXCEPT ![j] = NoHolder]
    /\ UNCHANGED <<attempts, epoch>>

\* Cancellation is under way; a holder keeps its lease to report back.
RequestCancel(j) ==
    /\ state[j] \in Parked \cup Held
    /\ state' = [state EXCEPT ![j] = "cancelling"]
    /\ UNCHANGED <<attempts, epoch, holder>>

\* The outcome of a dispatched effect is unknown.
Suspect(j) ==
    /\ state[j] \in {"running", "waiting", "cancelling"}
    /\ state' = [state EXCEPT ![j] = "reconciliation_required"]
    /\ holder' = [holder EXCEPT ![j] = NoHolder]
    /\ UNCHANGED <<attempts, epoch>>

\* The Job settles; a success or failure needs work that was dispatched.
Settle(j, outcome) ==
    /\ state[j] \notin Settled
    /\ outcome = "succeeded" => state[j] \in {"running", "waiting", "reconciliation_required"}
    /\ outcome = "failed" => state[j] \notin {"ready", "leased", "retry_scheduled"}
    /\ outcome = "timed_out" => state[j] # "reconciliation_required"
    /\ state' = [state EXCEPT ![j] = outcome]
    /\ holder' = [holder EXCEPT ![j] = NoHolder]
    /\ UNCHANGED <<attempts, epoch>>

LifecycleNext ==
    \E j \in Jobs :
        \/ \E w \in Workers : Grant(j, w)
        \/ Dispatch(j)
        \/ Continue(j)
        \/ \E parked \in Parked : Park(j, parked)
        \/ RequestCancel(j)
        \/ Suspect(j)
        \/ \E outcome \in Settled : Settle(j, outcome)

LifecycleSpec == LifecycleInit /\ [][LifecycleNext]_lifecycleVars
=============================================================================
