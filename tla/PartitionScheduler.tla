-------------------------- MODULE PartitionScheduler --------------------------
(***************************************************************************)
(* Admission of Jobs from one scheduler partition of one work class: the   *)
(* rotating tenant window, the per-tenant credit (deficit), the sweep over *)
(* each tenant's Jobs in creation order, and the bounded selection of a    *)
(* claim batch.  A claim holds the partition row and the fairness rows     *)
(* from its first statement to its commit, so a claim is one action.       *)
(*                                                                         *)
(* Rounds are only ever compared with the current one: credited says that  *)
(* credited_round is the current round, enrolled distinguishes rows whose  *)
(* earliest_eligible_round is the next one.  A creation key is only ever   *)
(* compared with the keys of stored Jobs, so a sweep bound is the number   *)
(* of stored Jobs up to it.  last_served_round and successful_claims are   *)
(* written and never read.                                                 *)
(***************************************************************************)
EXTENDS Integers, FiniteSets, Sequences, SequencesExt

CONSTANTS NTenants,       \* tenants of this partition, in the order of their ids
          Jobs,           \* names of Jobs; a settled Job's name stands for a later Job
          owner,          \* owner[j]: the tenant of Job j
          lane,           \* lane[j]: "business" or "restricted_control"
          Accounts,       \* quota accounts
          accounts_of,    \* accounts_of[j]: the accounts Job j costs one unit of
          limit_value,    \* limit_value[a]: the limit of account a
          Policies,       \* Scheduling policies: weight and burst
          Unbound,        \* no policy is bound
          MaxDeficit,     \* maximum_deficit
          MaxTenants,     \* maximum_tenants of a window
          MaxRows,        \* maximum_window_per_tenant: rows of a Job page
          MaxControl,     \* maximum_control_claims_per_tenant
          Limits,         \* batch limits the workers ask for
          LateCommits,    \* whether a Job may commit behind later-created ones
          Corruptible     \* Jobs whose row may be damaged

Tenants == 1..NTenants
NoTenant == 0
Lane == {"business", "restricted_control"}
Policy == [weight : Nat \ {0}, burst : Nat \ {0}]

ASSUME SchedulerAssumption ==
    /\ NTenants \in Nat
    /\ owner \in [Jobs -> Tenants]
    /\ lane \in [Jobs -> Lane]
    /\ accounts_of \in [Jobs -> SUBSET Accounts]
    /\ limit_value \in [Accounts -> Nat]
    /\ Policies \subseteq Policy /\ Unbound \notin Policies
    /\ {MaxDeficit, MaxTenants, MaxRows, MaxControl} \subseteq Nat \ {0}
    /\ Limits \subseteq Nat \ {0}
    /\ LateCommits \in BOOLEAN
    /\ Corruptible \subseteq Jobs

VARIABLES partition,  \* the partition row: cursor and frozen upper bound of the round
          version,    \* its version, which every visit raises: the last bit
          tenant,     \* tenant[t]: the fairness row
          queue,      \* queue[t]: the non-terminal Jobs of t in creation order
          job,        \* job[j]: how a Job stands to admission
          visited,    \* history: the tenants visited in this round
          missed      \* history: the tenants some finished round left out

vars == <<partition, version, tenant, queue, job, visited, missed>>

\* absent: no row.  parked: not claimable now (not due, waiting, incompatible).
\* due: a claim would be a new attempt.  resumable: it would continue one.
\* broken: as due, but the stored row decodes to no valid projection, which is
\* found out only when the selected Job is locked.
JobStanding == {"absent", "parked", "due", "resumable", "claimed", "broken"}

NoSweep == [ongoing |-> FALSE, upper |-> 0, after |-> 0]

SchedulerPartitionState == [cursor : Tenants \cup {NoTenant}, upper : Tenants \cup {NoTenant}]

TenantSchedulerState ==
    [enrolled : {"absent", "next_round", "eligible"}, active : BOOLEAN,
     policy : Policies \cup {Unbound}, deficit : Nat, credited : BOOLEAN,
     sweep : [ongoing : BOOLEAN, upper : Nat, after : Nat]]

Init ==
    /\ partition = [cursor |-> NoTenant, upper |-> NoTenant]
    /\ version = 1
    /\ tenant = [t \in Tenants |-> [enrolled |-> "absent", active |-> TRUE, policy |-> Unbound,
                                    deficit |-> 0, credited |-> FALSE, sweep |-> NoSweep]]
    /\ queue = [t \in Tenants |-> <<>>]
    /\ job = [j \in Jobs |-> "absent"]
    /\ visited = {}
    /\ missed = {}

-----------------------------------------------------------------------------
(* Tenants and policies.                                                   *)

\* lock_tenant_enrollment freezes the enrollment into the round after this one.
enrollment(t) == "next_round"

create_tenant(t) ==
    /\ tenant[t].enrolled = "absent"
    /\ tenant' = [tenant EXCEPT ![t].enrolled = enrollment(t)]
    /\ UNCHANGED <<partition, version, queue, job, visited, missed>>

\* A changed binding forfeits the credit and the round's credit mark.
bind_locked_tenant_scheduler_policy(t, p) ==
    /\ tenant[t].enrolled # "absent" /\ tenant[t].active
    /\ tenant[t].policy # p
    /\ tenant' = [tenant EXCEPT ![t].policy = p, ![t].deficit = 0, ![t].credited = FALSE]
    /\ UNCHANGED <<partition, version, queue, job, visited, missed>>

\* The tenant or its policy deployment is disabled or enabled again.
set_active(t) ==
    /\ tenant[t].enrolled # "absent"
    /\ tenant' = [tenant EXCEPT ![t].active = ~@]
    /\ UNCHANGED <<partition, version, queue, job, visited, missed>>

-----------------------------------------------------------------------------
(* Jobs come and go; a sweep bound keeps its place between the Jobs.       *)

\* A bound counts the Jobs up to a key; a Job comes (by = 1) or goes (by = -1) at
\* position i.
moved(bound, i, by) == IF i <= bound THEN bound + by ELSE bound

shifted(sweep, i, by) ==
    IF sweep.ongoing
    THEN [sweep EXCEPT !.upper = moved(@, i, by), !.after = moved(@, i, by)]
    ELSE sweep

create_job(j, standing) ==
    LET t == owner[j] IN
    /\ tenant[t].enrolled # "absent"
    /\ job[j] = "absent"
    /\ \E i \in IF LateCommits THEN 1..(Len(queue[t]) + 1) ELSE {Len(queue[t]) + 1} :
          /\ queue' = [queue EXCEPT ![t] = InsertAt(@, i, j)]
          /\ tenant' = [tenant EXCEPT ![t].sweep = shifted(@, i, 1)]
    /\ job' = [job EXCEPT ![j] = standing]
    /\ UNCHANGED <<partition, version, visited, missed>>

\* The Job settles and leaves the index of non-terminal Jobs.
terminate_job(j) ==
    LET t == owner[j] IN
    /\ job[j] # "absent"
    /\ \E i \in DOMAIN queue[t] :
          /\ queue[t][i] = j
          /\ queue' = [queue EXCEPT ![t] = RemoveAt(@, i)]
          /\ tenant' = [tenant EXCEPT ![t].sweep = shifted(@, i, -1)]
    /\ job' = [job EXCEPT ![j] = "absent"]
    /\ UNCHANGED <<partition, version, visited, missed>>

\* A wait ends, a retry comes due, a lease expires, a claimed Job yields or waits,
\* or the owner is paused.
change_standing(j, standing) ==
    /\ \/ job[j] \in {"parked", "claimed"} /\ standing \in {"due", "resumable"}
       \/ job[j] \in {"due", "resumable", "claimed"} /\ standing = "parked"
    /\ job' = [job EXCEPT ![j] = standing]
    /\ UNCHANGED <<partition, version, tenant, queue, visited, missed>>

\* A stored row is damaged (its wake columns and its payload disagree, say).
corrupt_row(j) ==
    /\ j \in Corruptible /\ job[j] = "due"
    /\ job' = [job EXCEPT ![j] = "broken"]
    /\ UNCHANGED <<partition, version, tenant, queue, visited, missed>>

-----------------------------------------------------------------------------
(* What a claim locks.                                                     *)

Eligible == {t \in Tenants : tenant[t].enrolled = "eligible"}

\* The bound of the round is frozen by the first visit that finds none.
tenant_upper_bound ==
    IF partition.upper # NoTenant THEN partition.upper
    ELSE IF Eligible = {} THEN NoTenant ELSE Max(Eligible)

InRange == {t \in Eligible : partition.cursor < t /\ t <= tenant_upper_bound}

\* Mutant: a full window is taken for the whole range.
exhausted_when_full == TRUE

range_exhausted == Cardinality(InRange) <= MaxTenants

\* lock_tenant_window: the first MaxTenants tenants after the cursor.
window == {t \in InRange : Cardinality({u \in InRange : u < t}) < MaxTenants}

\* The sweep under way, or a new one over the Jobs there are now.
current_sweep(t) ==
    IF tenant[t].sweep.ongoing THEN tenant[t].sweep
    ELSE [ongoing |-> TRUE, upper |-> Len(queue[t]), after |-> 0]

sweep_exhausted(t) ==
    current_sweep(t).upper - current_sweep(t).after <= MaxRows

page(t) ==
    LET sweep == current_sweep(t)
    IN  SubSeq(queue[t], sweep.after + 1,
               IF sweep_exhausted(t) THEN sweep.upper ELSE sweep.after + MaxRows)

\* Mutant: the page does not move past the Jobs that could not be admitted.
sweep_stays(t) == tenant[t].sweep

\* The sweep moves over every enumerated Job, admitted or not.
next_job_sweep(t) ==
    IF sweep_exhausted(t) THEN NoSweep
    ELSE [current_sweep(t) EXCEPT !.after = @ + MaxRows]

-----------------------------------------------------------------------------
(* select_admissible_partition_batch                                       *)

available_quota ==
    [a \in Accounts |->
        limit_value[a] - Cardinality({j \in Jobs : job[j] = "claimed" /\ a \in accounts_of[j]})]

\* The bound policy, unless the tenant or the deployment is disabled.
business_policy(t) == IF tenant[t].active THEN tenant[t].policy ELSE Unbound

IsBusiness(j) == lane[j] = "business"
admitted_attempt_cost(j) == IF job[j] = "resumable" THEN 0 ELSE 1

\* Mutant: the credit is not limited by maximum_deficit.
credit_uncapped(t, eligible) ==
    IF /\ business_policy(t) # Unbound
       /\ ~tenant[t].credited
       /\ \E j \in ToSet(page(t)) \cap eligible : IsBusiness(j) /\ job[j] # "resumable"
    THEN [tenant[t] EXCEPT !.deficit = @ + business_policy(t).weight, !.credited = TRUE]
    ELSE tenant[t]

\* The tenant is credited once per round, if there is new work for it.
credit(t, eligible) ==
    IF /\ business_policy(t) # Unbound
       /\ ~tenant[t].credited
       /\ \E j \in ToSet(page(t)) \cap eligible : IsBusiness(j) /\ job[j] # "resumable"
    THEN [tenant[t] EXCEPT !.deficit =
                              IF @ + business_policy(t).weight < MaxDeficit
                              THEN @ + business_policy(t).weight ELSE MaxDeficit,
                           !.credited = TRUE]
    ELSE tenant[t]

\* The visit of a tenant works on s: the admitted Jobs and the quota left of the
\* batch so far, the tenant's row, and its claims per lane.

\* Mutant: quota is compared with the balance before the batch.
admissible_on_first_balance(s, t, j, limit) ==
    /\ IsBusiness(j) => business_policy(t) # Unbound
    /\ Cardinality(s.admitted) < limit
    /\ IF IsBusiness(j) THEN s.business < business_policy(t).burst ELSE s.control < MaxControl
    /\ IsBusiness(j) => admitted_attempt_cost(j) <= s.row.deficit
    /\ \A a \in accounts_of[j] : available_quota[a] >= 1

admissible(s, t, j, limit) ==
    /\ IsBusiness(j) => business_policy(t) # Unbound
    /\ Cardinality(s.admitted) < limit
    /\ IF IsBusiness(j) THEN s.business < business_policy(t).burst ELSE s.control < MaxControl
    /\ IsBusiness(j) => admitted_attempt_cost(j) <= s.row.deficit
    /\ \A a \in accounts_of[j] : s.remaining[a] >= 1

\* Mutant: an admitted attempt costs nothing.
admit_unpaid(s, j) ==
    [admitted |-> s.admitted \cup {j},
     remaining |-> [a \in Accounts |-> IF a \in accounts_of[j] THEN s.remaining[a] - 1
                                       ELSE s.remaining[a]],
     row |-> s.row,
     business |-> IF IsBusiness(j) THEN s.business + 1 ELSE s.business,
     control |-> IF IsBusiness(j) THEN s.control ELSE s.control + 1]

admit(s, j) ==
    [admitted |-> s.admitted \cup {j},
     remaining |-> [a \in Accounts |-> IF a \in accounts_of[j] THEN s.remaining[a] - 1
                                       ELSE s.remaining[a]],
     row |-> [s.row EXCEPT !.deficit = IF IsBusiness(j) THEN @ - admitted_attempt_cost(j) ELSE @],
     business |-> IF IsBusiness(j) THEN s.business + 1 ELSE s.business,
     control |-> IF IsBusiness(j) THEN s.control ELSE s.control + 1]

\* One candidate of the page; each skip leaves the rest untouched.
consider(s, t, j, eligible, limit) ==
    IF j \in eligible /\ admissible(s, t, j, limit) THEN admit(s, j) ELSE s

\* A tenant's visit begins with its stored row, credited, and no claims.
open_visit(batch, t, eligible) ==
    [admitted |-> batch.admitted, remaining |-> batch.remaining,
     row |-> credit(t, eligible), business |-> 0, control |-> 0]

\* The visit after each of the candidates of the page, in order.
visit_steps(batch, t, eligible, limit) ==
    LET candidates == page(t)
        done[i \in 0..Len(candidates)] ==
            IF i = 0 THEN open_visit(batch, t, eligible)
            ELSE consider(done[i - 1], t, candidates[i], eligible, limit)
    IN  done

\* One tenant: its page in order, and the row it leaves behind.
visit(batch, t, eligible, limit) ==
    LET done == visit_steps(batch, t, eligible, limit)[Len(page(t))]
    IN  [admitted |-> done.admitted, remaining |-> done.remaining,
         tenants |-> [batch.tenants EXCEPT ![t] = [done.row EXCEPT !.sweep = next_job_sweep(t)]]]

\* The selection after each tenant, in the order of their ids: the batch, the quota
\* left and the rows to store.
select_steps(eligible, limit) ==
    LET tenants == window
        after[t \in 0..NTenants] ==
            IF t = 0
            THEN [admitted |-> {}, remaining |-> available_quota, tenants |-> tenant]
            ELSE IF t \in tenants THEN visit(after[t - 1], t, eligible, limit) ELSE after[t - 1]
    IN  after

select(eligible, limit) == select_steps(eligible, limit)[NTenants]

-----------------------------------------------------------------------------
(* A claim transaction.                                                    *)

\* What the domain's candidate query lets through.
Claimable == {j \in Jobs : job[j] \in {"due", "resumable", "broken"}}

\* Mutant: the Jobs that could not be claimed are paid for as well.
settle_selected(actual, limit) == select(Claimable, limit)

\* The accounting is run again for the Jobs that were really claimed.
settle_actual(actual, limit) == select(actual, limit)

\* A new round: nobody has been credited in it, and those enrolled join.
begin_round(rows) ==
    [t \in Tenants |->
        [rows[t] EXCEPT !.credited = FALSE,
                        !.enrolled = IF @ = "next_round" THEN "eligible" ELSE @]]

\* Mutant: the bound the window was chosen with is not stored.
persist_unbounded(rows, visit_window) ==
    IF range_exhausted
    THEN /\ partition' = [cursor |-> NoTenant, upper |-> NoTenant]
         /\ tenant' = begin_round(rows)
         /\ visited' = {}
         /\ missed' = missed \cup (Eligible \ (visited \cup visit_window))
    ELSE /\ partition' = [cursor |-> Max(visit_window), upper |-> partition.upper]
         /\ tenant' = rows
         /\ visited' = visited \cup visit_window
         /\ UNCHANGED missed

\* persist_admission, in the transaction of the claims.
persist(rows, visit_window) ==
    IF range_exhausted
    THEN /\ partition' = [cursor |-> NoTenant, upper |-> NoTenant]
         /\ tenant' = begin_round(rows)
         /\ visited' = {}
         /\ missed' = missed \cup (Eligible \ (visited \cup visit_window))
    ELSE /\ partition' = [cursor |-> Max(visit_window), upper |-> tenant_upper_bound]
         /\ tenant' = rows
         /\ visited' = visited \cup visit_window
         /\ UNCHANGED missed

\* A partition without fairness rows is not visited.
Visitable == \E t \in Tenants : tenant[t].enrolled # "absent"

\* The selected Jobs whose rows turn out to be broken are left as they are; the
\* others are claimed and accounted for.
claim(limit) ==
    /\ Visitable
    /\ version' = 1 - version
    /\ \E selected \in {select(Claimable, limit).admitted} :
       \E claimed \in {{j \in selected : job[j] # "broken"}} :
       \E decision \in {settle_actual(claimed, limit)} :
          /\ decision.admitted = claimed
          /\ job' = [j \in Jobs |-> IF j \in claimed THEN "claimed" ELSE job[j]]
          /\ persist(decision.tenants, window)
    /\ UNCHANGED queue

Claim == \E limit \in Limits : claim(limit)

Administration ==
    \E t \in Tenants :
        \/ create_tenant(t)
        \/ set_active(t)
        \/ \E p \in Policies : bind_locked_tenant_scheduler_policy(t, p)

JobTraffic ==
    \E j \in Jobs :
        \/ terminate_job(j)
        \/ corrupt_row(j)
        \/ \E standing \in {"parked", "due", "resumable"} :
              change_standing(j, standing) \/ (standing # "resumable" /\ create_job(j, standing))

Next == Claim \/ Administration \/ JobTraffic

Spec == Init /\ [][Next]_vars

\* Workers of the class poll for ever: a partition that can be visited is, which
\* is when its version moves (only Claim moves it).
Visit == Visitable /\ version' = 1 - version
FairSpec == Spec /\ WF_version(Visit)

-----------------------------------------------------------------------------
(* Properties.                                                             *)

\* The variables keep their types, and stored rows satisfy the checks a claim
\* makes of them before it trusts them (validate of the two contracts).
TypeOK ==
    /\ partition \in SchedulerPartitionState
    /\ version \in {0, 1}
    /\ tenant \in [Tenants -> TenantSchedulerState]
    /\ queue \in [Tenants -> Seq(Jobs)]
    /\ \A t \in Tenants : \A i \in DOMAIN queue[t] : owner[queue[t][i]] = t
    /\ job \in [Jobs -> JobStanding]
    /\ visited \subseteq Tenants
    /\ partition.cursor # NoTenant =>
          partition.upper # NoTenant /\ partition.cursor <= partition.upper

\* No row ever holds what the next claim would reject as corrupt: a deficit
\* beyond the maximum or without a policy, or a sweep past its own upper bound.
\* A claim that meets such a row fails, and the partition stays unusable.
StoredRowsAreUsable ==
    \A t \in Tenants :
        /\ tenant[t].deficit <= MaxDeficit
        /\ tenant[t].policy = Unbound => tenant[t].deficit = 0
        /\ tenant[t].sweep.after <= tenant[t].sweep.upper
        /\ tenant[t].sweep.upper <= Len(queue[t])

\* The accounting of any subset of a selected batch selects exactly that subset,
\* so settle_actual never answers "actual claim accounting differs" and never
\* rolls back claims because one of their neighbours was unusable.
SettlementAgrees ==
    \A limit \in Limits :
        \A actual \in SUBSET select(Claimable, limit).admitted :
            settle_actual(actual, limit).admitted = actual

\* However claims of one batch and of earlier ones add up, no account is
\* overdrawn by the Jobs that are claimed.
QuotaIsKept == \A a \in Accounts : available_quota[a] >= 0

\* A round ends only when every tenant that was eligible in it has been visited,
\* and visits no tenant twice, so no one is credited or served twice in it: those
\* visited are behind the cursor, the others still ahead of it.  Tenants that
\* enroll behind the cursor or beyond the frozen bound wait for the next round
\* instead of being half in this one.
RoundsVisitEveryone ==
    /\ missed = {}
    /\ visited \cap InRange = {} /\ Eligible \subseteq visited \cup InRange

\* The new attempts a step starts for tenant t.
started(t) == {j \in Jobs : owner[j] = t /\ IsBusiness(j) /\ job[j] = "due" /\ job'[j] = "claimed"}

PaidFor(t) ==
    started(t) # {} =>
        /\ tenant[t].policy # Unbound
        /\ Cardinality(started(t)) + tenant'[t].deficit <= tenant[t].deficit + tenant[t].policy.weight

\* A tenant's new attempts in a claim are paid for by its own credit: what it
\* had, plus one weight of the policy bound at that time, minus what is left.
AttemptsArePaidFor == [][\A t \in Tenants : PaidFor(t)]_vars

\* What admission asks of a Job, apart from the budgets of the batch.
CanBeAdmitted(j) ==
    /\ job[j] = "due"
    /\ business_policy(owner[j]) # Unbound
    /\ \A a \in accounts_of[j] : available_quota[a] >= 1

\* With budgets (limit, burst) as large as what can be ahead of it in a visit, no
\* Job is passed over for ever: one that stays due while its tenant stays bound
\* and active, with room in its accounts, is claimed.  The sweep is bounded, moves
\* past saturated and parked Jobs, and comes back.
DueJobsAreClaimed == \A j \in Jobs : []<>~CanBeAdmitted(j)

\* Fairness between the tenants of a partition: a tenant whose work stays
\* admissible is served, whatever the batch limits of the workers are.
TenantsAreServed ==
    \A t \in Tenants :
        (<>[]\E j \in Jobs : owner[j] = t /\ CanBeAdmitted(j))
            => []<>(\E j \in Jobs : owner[j] = t /\ job[j] = "claimed")
=============================================================================
