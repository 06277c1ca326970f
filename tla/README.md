# TLA+ verification of the Insight Agent Platform

The platform is a durable execution backend for agents: a Rust workspace of services that keep all
business facts in PostgreSQL and coordinate through leases, fences, versions and receipts. This
directory models the part of it where correctness is a matter of *order* (who may act on which
durable row, when, and after what), checks the models with TLC on small instances and proves the
main safety results with TLAPS for every instance.

## 1. Inventory of the system

| part | state it keeps | operations | what is hard |
|---|---|---|---|
| Durable Job authority (`crates/execution/platform-jobs`) | one `JobProjection` per unit of work: state, version, attempts, lease, schedule, wake contract, deadline | claim, start, resume, heartbeat, observe, wait, wake, retry, settle, reconcile, cancel, expire | stale workers, repeated commands, lost replies, a lease that expires while its holder works, wakes that arrive twice |
| Registry (`crates/definitions/platform-registry`, `registry_commands.rs`) | Resource row (draft, validation summary, lifecycle, gate, active target), published versions, deployments, receipts | create, update, validate, record validation, publish, deploy, activate, suspend, archive, retire, gate | a draft edited while it is validated, retries of commands, retirement under way |
| Registry validation (`job_commands.rs`, registry validation worker) | validation Jobs and their `started_at`, worker tasks | request, claim, start, read inputs, heartbeat, commit, recover | crash anywhere in the worker, two Jobs for one draft, new attempt or resumed one |
| Partition scheduler (`platform-scheduler`, `partition_scheduler.rs`, `claim_admission.rs`) | partitions, tenant fairness deficits, cursors | prepare, select, settle, persist | starvation, credit granted twice, quota saturation |
| Runs and orchestration (`platform-orchestrator`, `run_commands.rs`, `scheduler_commands.rs`, `convergence_commands.rs`, `child_run_commands.rs`) | Run, scopes, node executions, timers, signals, child links | admit, advance, cancel, time out, converge | convergence of a cancelled tree while leaves still finish |
| Capability invocations (`platform-invocations`, capability worker) | invocation, effect intent, attempt, wake | prepare, dispatch, observe, settle, reconcile | external effect whose outcome is unknown |
| Model turns and quota (`platform-models`, `model_turn_repository.rs`, `quota_commands.rs`) | turn, reservation, account | admit, reserve, dispatch, settle, release | double release, reservation leaked by a crash |
| Context queries and datasets (`platform-context`) | query, dataset generation, subscription | dispatch, outcome, wake, build, refresh | late outcome after a wake or control |
| Artifacts (`platform-artifacts`, artifact service) | artifact, blob, upload, grants, deletion | prepare, complete, scan, finalize, delete | upload racing abandonment and deletion |
| MCP host, OAuth and PKCE cleanup (`platform-mcp-host`, MCP services) | operation, OAuth task, cleanup obligation | callback, exchange, refresh, clean up | duplicated callback, cleanup exhausted and resumed |
| Sandbox (`platform-sandbox`, dispatcher, runner) | dispatch, physical evidence, cleanup lease | create, arm, start once, observe, clean up | at most one start, orphaned sandboxes |
| Tasks and approvals (`platform-tasks`) | task, form response | open, respond, expire, cancel | response racing expiry |
| Outbox and history (`outbox_repository.rs`, outbox worker, `history_repository.rs`) | outbox rows, delivery lease, event prefix, holds | claim, publish, settle, retain, retire | redelivery, hold racing retirement |
| Security, secrets, egress (`platform-security`, brokers, egress) | principals, bindings, permits | authenticate, authorize, resolve | stale grants |
| API, gateway, CLI, console, compiler, deployment contracts | none of their own | encode, decode, compile | sequential code |

All of them meet in PostgreSQL: a command locks the rows of the aggregates it changes in one
transaction and writes the new state, event, outbox row and receipt together. Processes share
nothing else; NATS messages and in-memory caches are hints. One repository method is therefore one
action of a model, and everything between two such calls (compiling, publishing, reading, waiting for
a reply) is a place where other processes act, leases run out and the caller may disappear.

What makes the modelled parts correct:

* **Job authority**: only the task of the last accepted claim is admitted; each wait is resumed once;
  the first settlement stands; no Job is left where the decision that should move it on refuses it.
* **Registry and its validation Jobs**: a validation belongs to the document it was computed from; one
  request makes one Job; attempts are bounded; every Job ends settled or unclaimed; retirement is final.
* **Partition scheduler**: a round visits every eligible tenant once; what a claim accounts for is what
  it selected; no account is overdrawn; attempts are paid for; no due Job is passed over for ever.
* **Runs**: permits and quota equal the leases; a Run always has something that can move it; a Join's
  verdict stands; scopes close inside out; a condemned Run ends, as its controls say, with nothing of
  it, and no child Run, left.
* **External leaves** (invocations, turns, queries): permit and reservation follow the lease; each
  dispatch is charged once; a write is not repeated or guessed; every leaf ends or is left to an operator.
* **Outbox and history**: no obligation is forgotten before it is met; claims of two processes never
  overlap; a published row is final; clients see histories without holes; a hold protects every event.

## 2. Modules

| module | models | kind |
|---|---|---|
| `JobDecisions` | the decision functions of `platform-jobs/src/lib.rs`: each returns the set of accepted projections, empty when the function returns an error | operators |
| `JobAuthority` | stored Jobs under worker tasks, owner, wake senders and expiry scan | state machine |
| `JobLifecycle` | what a Job promises its owner: state, attempts, epoch, holder | abstract specification |
| `Registry` | the commands on one Resource (`registry_commands.rs`) with their Receipts | actions, composed below |
| `RegistryValidation` | validation Jobs and their workers, composing `Registry` and `JobDecisions` as `job_commands.rs` does | state machine |
| `RunHistory` | the public events of one Run: commit, delivery, retention, replay | state machine |
| `PartitionScheduler` | one partition of one work class: tenants, credit, Job sweep, batch selection, settlement | state machine |
| `StructuredRun` | one Run of a Fork with its legs, Join and end: orchestration Jobs, waits, child Runs, controls, convergence | state machine |
| `RunLifecycle` | what a Run promises whatever its Plan: state table, members that only end once it is cancelling | abstract specification |
| `LeafDecisions` | the decisions of Capability invocations, Model turns and Context queries over `JobDecisions` | operators |
| `ExternalLeaf` | one such leaf as the PostgreSQL adapter drives it, with its Run's permit and its quota | state machine |
| `MCJobAuthority`, `MCRegistryValidation`, `MCRunHistory`, `MCPartitionScheduler`, `MCStructuredRun`, `MCExternalLeaf` | constants and symmetry for TLC | model checking |
| `JobDecisionTheorems`, `LeafDecisionTheorems` | what each decision returns: lemmas about the operators | proofs |
| `JobAuthorityProofs`, `RegistryValidationProofs`, `RunHistoryProofs`, `PartitionSchedulerProofs`, `StructuredRunProofs`, `ExternalLeafProofs` | the theorems of the state machines | proofs |

`JobDecisions` is shared: `JobAuthority` exercises it alone, `RegistryValidation` composes it with the
Registry, `LeafDecisions` with the three leaf domains. `JobLifecycle` and `RunLifecycle` are refined by
`JobAuthority` and `StructuredRun`.

### Job authority

`JobProjection` keeps the fields of the Rust struct; `None`, `NoLease` and `NoWake` stand for absent
options. A decision is an operator with the parameters of the Rust function; its guards are the early
returns in their order, and `Accepted` is the common end (`increment`, then `validate`): the set holds
the new projection, or nothing when the function refuses. Digests, trace and payload are left out: no
guard depends on them. `MaxCounter` is the width of the counters, so that overflow refuses as
`checked_add` does.

`JobAuthority` adds what no decision sees. `held[t]` is the fence a task remembers. It is
updated by replies that may be lost, and is never taken away, so a command can be arbitrarily late. Two
tasks share a process, hence a worker identity. `claimant` and `woken` are history variables for the
properties. Retry times, wake contracts, lease durations and expiry targets are arbitrary members
of small sets, as they are the callers' choice.

### Registry validation

`Registry` has one action per command; a Receipt key that was used before replays and changes
nothing. `RegistryValidation` adds the Job, its `started_at` column, which is not part of the
projection and yet decides whether the next start is a new attempt, and the phases of `execute_claim` (start,
three frozen reads each followed by a heartbeat, compile, commit). `Abandon` ends a task at any point and
leaves its lease behind. `dispatched` counts, for the property, how often a worker was let run.

### Run history

An event is its `public_sequence`. `append_event` commits an event and its outbox row together.
A drain is split where the code awaits: claim, publish, settle. `stream` is what JetStream
holds: a message may be stored although the publisher was told nothing, so `unavailable` comes with
and without the message. `abandon_drain` is an error or the end of the process. It may leave behind a
settlement whose caller timed out, which `late_settlement` applies at any later time; the
`process_generation` of a re-claim may be the same, so that only `claim_epoch` separates the two. The
maintenance scan stores a target that the purge uses later, after holds, obligations and further
events may have changed the Run. Whatever else keeps an event (Receipts, provenance, other owners) only makes a prefix shorter, so `delete_prefix` may stop early. Clients keep a position and page from it.

### Partition scheduler

A claim locks the partition row and the fairness rows from its first statement to its commit, so a
claim is one action: the tenant window after the cursor, credit for the tenants of the round, one page
of each tenant's sweep, selection within batch limit, burst, credit and quota, then the settlement of
the subset that could really be claimed (a damaged row is found only when it is locked), then the
stored rows. Jobs arrive, commit late, become due, park and end in between, and tenants enroll and
leave. Rounds and creation keys are only ever compared, so they are kept as the result of the
comparison. `visited` and `missed` are history variables. The selection is two recursive functions, as the
code is two nested loops: `visit_steps` over the candidates of a page, `select_steps` over the tenants of the
window.

### Runs

Every command locks the Run row, so a command is one action of `StructuredRun`. A leg is one Node in
a Scope of its own; it computes, waits for a timer or signal (its Job waits), for a person (its Job
ends and the answer makes a new one) or for a child Run (likewise, through a ChildRunLink). The exit of
a leg is one action with everything the transaction does: the leg's Scope closes, the Join decides, the
remaining legs are cancelled, their permits are given back, and the Join is woken. `expire_lease`
stands for a worker that died or gave up after a refusal. All Jobs of a Run share its deadline, so the
clock is where it stands to it: early, in the last minute (where recovery leaves a lease alone), due.
Convergence is one action per kind of step, taken in the code's order of preference. A child Run is
seen as its owner sees it: active, cancelling or ended, with the first control or failure recorded on
it; that a condemned child ends is what this module shows of a Run, one level up. `verdict` is a
history variable.

`RunLifecycle` knows only the Run's state and the set of its members (live Nodes, open Scopes, pending
waits, links, children, leases): once cancelling, members only disappear, and a Run that ends has none.

### External leaves

`LeafDecisions` gives for each domain the set of accepted successors of owner, Job and payload, on top
of the Job decisions. `ExternalLeaf` adds what the repository does around them in the same
transaction: the permit in `active_work_count`, the reservation, the charge, and the settlement of the
waiting Node. `held[w]` is the fence a worker believes it holds: outcomes can be arbitrarily late.
Convergence and expiry scans race the workers. `unproven` is a history variable: a dispatched write
nobody has answered for. What a backend answers is a kind and a time.

## 3. Runs

| run | bounds | shows |
|---|---|---|
| `job_authority` | 1 Job, 3 tasks in 2 processes, 2 attempts, deadline 3, clock to 4, 2 lease lengths | types, no Job stranded, exclusive fencing, one wake per wait, final settlement, refinement of `JobLifecycle` |
| `job_published_table` | as above | **violated**: the published state table lacks `retry_scheduled -> leased` (section 6) |
| `registry_agent` | an Agent, 2 documents, 2 validation requests and Jobs, 1 key for each other command, 2 tasks, versions to 5, clock to 2 | types, a validation never meets another document, published Agents were validated, active targets are published, one Job per request, retirement is final |
| `registry_leases` | 1 Job, 2 tasks, 2 attempts, clock to 6, fair scan | attempts bounded; every Job ends settled, or unclaimed past its deadline |
| `outbox_delivery` | 2 processes, 2 events (one incompatible), lease 2, clock to 3, 3 epochs | types, nothing forgotten before delivery, no overlapping claims, published rows final |
| `run_retention` | 1 process, 1 client, 1 hold, 2 events, pages of 1, clock to 3 | no gap for clients, held history kept |
| `scheduler_admission` | 3 tenants in windows of 2, 3 Jobs (2 business, 1 control), one account of limit 1, a row that may be damaged, late commits | types, rounds visit everyone once, settlement agrees with selection, quota kept, attempts paid for |
| `scheduler_sweep` | 2 tenants, 3 Jobs, pages of 1, batch 2, fair visits | stored rows stay usable; a Job that stays due is claimed |
| `scheduler_starvation` | 2 tenants, 1 Job each, batch 1, fair visits | **violated**: a tenant is never served (section 6) |
| `structured_run` | six Plans of 2 or 3 legs: every policy, timers, a person, a child Run, 1 or 2 attempts | types, permits equal leases, work is never lost, verdicts stand, scopes close inside out, outcomes match controls, refinement of `RunLifecycle`, condemned Runs end |
| `external_leaf` | 8 admissions (every effect, with and without cancellation, a turn, a query), 2 workers, 2 attempts, lease 2, 1 poll, deadlines 5 and 6, clock to 7, 4 claims | types and agreement of owner and Job, permit follows lease, charged once, writes not guessed, every leaf ends |
| `context_permit` | a query, 1 worker | **violated**: an ended query keeps a permit (section 6) |

The bounds are the smallest in which the hard cases occur. Two attempts and three tasks allow a stale
task of the same process beside a new claimant. A deadline inside the clock's range lets every expiry
branch fire. Two Jobs of one version need two request keys; an edit during a validation needs two documents. A
lease of 2 with clock 3 lets a claim expire and be taken again within one run while the old settlement
is still on its way. Two events with pages of one let a purge fall between two pages. Each property was also
run against a changed definition that drops or swaps one check of the code
(the definitions marked `Mutant`), and is violated there. Documents and Jobs are permuted in
`registry_agent`, processes, hold keys and readers in `MCRunHistory`, always in runs without liveness;
no definition distinguishes them.

Two Jobs on one account with room for one, and pages shorter than a queue, are the least in which
selection and sweep can go wrong. Two legs suffice for every race of a decision with a sibling; the plan
of three makes one decision cancel two. Two attempts with a lease of 2 let a leaf be dispatched, expire,
be retried and be answered late by the first worker, before and after both deadlines.

The runs of `JobAuthority`, `RegistryValidation` and `ExternalLeaf` end when the clock does, and
`outbox_delivery` when its epochs are used up, so deadlock is not checked there. It is checked in
`run_retention`, in the scheduler's runs, and in `structured_run`, where only a Run that has ended may rest.

**Fairness** is assumed only of loops that run while any process of their kind lives:

* `registry_leases`: the clock, and the recovery scan (`drive_once` of the registry validation worker
  recovers before it claims, on an interval). `JobsEndSettledOrUnclaimed` needs its second alternative:
  a Job that passes its deadline while `ready` or `retry_scheduled` is not claimable, and the scan does
  not look at it, so it stays as it is.
* `scheduler_sweep`, `scheduler_starvation`: workers keep visiting a partition that can be visited
  (weak fairness of a step that moves its version).
* `structured_run`: the safety controller's scans, which are convergence of a condemned Run, settlement
  of ended children, propagation to children, and, of a child, that it ends once it is condemned.
* `external_leaf`: the clock and the safety workers' scans (timeout, convergence, expired leases).

Nothing is assumed of workers, clients, wakes, backends or people.

## 4. Proofs

All theorems hold for every value of the constants that satisfies the named assumptions
(`DecisionAssumption`, `AuthorityAssumption`, `HistoryAssumption`, `StructuredRunAssumption`,
`SchedulerAssumption` and those of the Registry and the leaf: sets without their null values, natural
bounds, positive leases, a finite set of legs, Plans as the code validates them). Every safety property of
the six state machines that a passing run checks, the action properties and both refinements are theorems:

| module | theorems | what the runs check |
|---|---|---|
| `JobAuthorityProofs` | `AuthorityTypes`, `JobsAreNeverStranded`, `FencingIsExclusive`, `WakesHaveOneWinner`, `SettlementIsFinal`, `AuthorityImplementsLifecycle` | all of `job_authority` |
| `RegistryValidationProofs` | `ValidationTypes`, `SummariesMatchDrafts`, `PublicationNeedsValidation`, `ActivationFollowsPublication`, `RequestsCreateOneJob`, `DispatchesAreLimited`, `RetirementIsFinal` | `registry_agent`, `registry_leases` but its liveness |
| `RunHistoryProofs` | `HistoryTypes`, `NothingIsLost`, `ClaimsAreExclusive`, `PublicationIsFinal`, `ClientsSeeNoGap`, `HoldsAreRespected` | `outbox_delivery`, `run_retention` |
| `PartitionSchedulerProofs` | `SchedulerTypes`, `RowsStayUsable`, `ClaimsStayWithinQuota`, `RoundsAreComplete`, `CreditPaysForAttempts`, `SettlementAlwaysAgrees` | `scheduler_admission`, `scheduler_sweep` but its liveness |
| `StructuredRunProofs` | `RunTypes`, `PermitsFollowLeases`, `WorkIsKeptForEveryPlan`, `VerdictsStand`, `ScopesAreNested`, `OutcomesMatchControls`, `RunImplementsLifecycle` | `structured_run` but its liveness |
| `ExternalLeafProofs` | `LeafTypes`, `PermitsAreGivenBack`, `AttemptsAreChargedOnce`, `WritesAreAnswered` | `external_leaf` but its liveness |

`JobAuthorityProofs` rests on `JobDecisionTheorems`, which says of each decision what it returns: a
valid projection of the next version, in which state, with which lease. The inductive invariant is
`TypeOK`, `StoredProjectionsValidate`, `LimitsKept`, `AttemptsAreInOrder`, `FencesTrail` and `WakesTrail`.
That what is stored validates is no result of its own, since every decision validates what it returns. The
result is `NoJobIsStranded`: in every reachable state the decision that should move a Job on accepts it (a
claim of a queued Job, the start or resumption of a leased one, the holder's settlement, the scan's recovery
from the very instant the lease ends, the timeout of a wait, the owner's cancellation), so neither its guards nor
the validation of the successor refuses. It needs `AttemptsAreInOrder`: a Job is not scheduled in the
future, a running one has a counted attempt to continue, and one that backs off has an attempt left; without
the last, a retry would come due that nobody may claim. The lemmas `ReleaseAccepted`, `RequeueAccepted`,
`ClaimAccepted` and `BeginAccepted` say when a decision accepts. Only a counter at its end is excepted.
`OnlyLastClaimantIsAdmitted` is not inductive alone: a fence equal to the Job's
version must belong to the last claimant, which survives a step because every accepted command moves
the version beyond all fences but the one just handed out; that is `FencesTrail`. `EachWaitIsWokenOnce`
needs that a waiting Job's contract carries the current generation and that consumed generations are
past ones (`WakesTrail`). From it follow the safety theorems, the final settlement, and
`AuthorityImplementsLifecycle`: every step is a step of `JobLifecycle` or leaves its variables unchanged.

`RunHistoryProofs` proves `HistoryInvariant`: stored events are exactly the ones after the floor
(`HistoryIsContiguous`), a page is therefore the interval after its position (`PagesAreContiguous`),
and every acknowledged answer, recorded or under way, is backed by the stream (`DeliveryIsBacked`).
`ClaimsAreExclusive` needs a second invariant, `ClaimInvariant`: an unexpired claim is the one its row
records, a drain has one claim per event, and a late settlement is of an earlier epoch than any claim
its process holds on that event, because the row's epoch has grown at every claim in between.

`RegistryValidationProofs` proves `ValidationInvariant`. What is published rests on the stored summary, which
must be one that a succeeded Job wrote (`SummaryIsBacked`); `OneJobPerRequest` on the Receipt each Job's
request has claimed (`JobsHaveReceipts`); `ActiveTargetIsPublished` on the deployments' versions
(`DeploymentsArePublished`); and `DispatchesWithinLimit` on where `started_at`, a column the Job decisions do
not know, is set: a Job that can be claimed or started has none left, so every dispatch is a counted attempt
(`DispatchesAreAttempts`).

`ExternalLeafProofs` proves `LeafInvariant` from `LeafDecisionTheorems`, one lemma per decision of the three
domains, which in turn cite those of `JobDecisionTheorems`. Permits and charges are not inductive alone:
the state of the leaf must determine the states its Job can be in (`JobStatesOf`), and the charges need to know
which attempt still has its query unused (`ContextPart`) or its reservation open (`ModelPart`). That a write
is never guessed needs `CapabilityPart`: it is never scheduled again, is ready for a first attempt only, and
nothing of it is unproven while it was not dispatched or waits for a person.

`PartitionSchedulerProofs` proves `SchedulerInvariant`. Usable rows need to know that a sweep at rest keeps no
bounds of an earlier one (`SweepsRest`) and that a queue holds stored Jobs, each once, finitely many in all
(`QueuesAreIndexes`): a bound that counts Jobs survives a late commit or a settlement at any position only then, and
no page offers a Job twice. `RoundsVisitEveryone` is not inductive, as its range is computed
from the cursor and the bound; `RoundPart` says instead that the visited tenants are the eligible ones up to the cursor
and that nobody beyond a frozen bound is eligible, which holds because enrollments join the next round.
What the selection does is proved with loop invariants, `VisitPart` after each candidate and
`BatchPart` after each tenant: the quota left is what was available minus what the batch costs, and what
a tenant's new attempts cost and what is left of its deficit are within its credit. The induction both loops need is a lemma
over sets of positions (`UpTo`, from the least counterexample), and `RecursionExists` shows that the two functions
satisfy their equations. `SettlementAlwaysAgrees` compares two selections, one for the Jobs
the query let through and one for any part of those it admitted: at every candidate the second has admitted
the part of the first's Jobs and has at least as much of every budget left (`VisitsAgree`,
`BatchesAgree`). The one budget for which this fails is the deficit of a tenant that the second selection does not credit,
and then none of its Jobs in that part is a new attempt (`NoStart`), so that none has to be paid for.

`StructuredRunProofs` proves `RunInvariant`, the conjunction of the properties with five parts that none of
them implies. `PlanOrder`: nothing but the Fork exists before it has forked, only the Join is
ever pending, the end follows the Join. `WaitPart`: an open wait belongs to a waiting Node, a child that has
not ended to an open wait, exactly a timer keeps its Job. `ControlPart`: no lease is in force at the
deadline, so no worker can end a Run as a success that a timeout has condemned. `ActivePart`: every live Node but a
pending Join has a Job, a Task or a child, and a pending Join an open leg. `EndedPart`: nothing is left.
Most transactions are a step at one Node (`NodeStep`), for which preservation is proved once
(`NodeStepKeeps`); the others are the controller steps, the controls and the steps of convergence. `LegKeeps` is
the hard one: the exit of a leg that decides the Join cancels any number of siblings, and the leases
counted (`PermitsMatchLeases`), the decision taken over the leg Scopes before that cancellation
(`CancelledRemainderStands`, `QuorumStands`) and the work left (`UndecidedHasOpenLeg`) have to agree after it.
`RunImplementsLifecycle` follows: each step is a `LifecycleMove`, and with `MembersPart` (an
active Run has members, an ended one none) a step of `RunLifecycle` or one that leaves its variables alone.

Only model-checked: liveness (`JobsEndSettledOrUnclaimed`, `DueJobsAreClaimed`, `ControlledRunEnds`,
`EveryLeafEnds`), which needs fairness and is outside the prover's reach, and the three runs of section 6, which
end in a counterexample.

## 5. Not modelled

Authorization, digests, encoding, metrics and configuration refuse commands or describe them and do
not order them. User interface, CLI, compiler and deployment contracts keep no durable state of their own.
They are, with adapters, wire contracts and generated schemas, most of the repository's lines, so the
part of its lines the modules stand for stays small.

Of the modelled parts, left out are:

* outbox rows of internal events and the backlog gate of new work (`outbox_repository.rs:16`), the
  retirement of Receipts and OAuth tasks;
* nested Forks, Map, Loop and error boundaries; of child Runs, budgets, depth limits and grandchildren;
* admission and approval of invocations, progress reports, the detached Jobs of sandbox and managed MCP
  invocations, the tool calls of a turn, dataset generations, and the amounts of quota lines;
* `control_capability_invocation` and `control_model_turn`, which only tests call; they would
  drop a lease without giving its permit back. `resolve_capability_reconciliation` and
  `wake_capability_invocation` have no caller outside tests either, but are modelled, as a parked
  dispatch or a reconciliation has no other way out;
* artifacts, MCP host with OAuth and PKCE cleanup, and sandbox dispatch: durable components with
  protocols of their own that have no module yet (section 7).

Database transactions are taken as atomic and serial per row lock, as the repository's
`FOR UPDATE` locks make them; clocks are the database's, one for all rows.

## 6. What the models found

**A published state table.** `decide_claim` takes a Job whose retry time has come from `retry_scheduled`
straight to `leased` (`crates/execution/platform-jobs/src/lib.rs:259` and `:277`). The published table
(`contracts/platform-v1/schemas/states.json:554`, `crates/foundation/platform-contracts/src/state.rs:262`)
has no such transition: it goes through `ready`. `job_published_table` shows the step. `JobLifecycle`
states the lifecycle the code implements.

**Fairness inside a partition.** Selection walks the tenants of a window in the order of their ids until the
batch is full (`crates/execution/platform-scheduler/src/partitioned.rs:181`). A worker that asks for
one Job at a time serves the first tenant in every round as long as it has new due work; the second is not even
credited, because `settle_actual` repeats the selection over the claimed Jobs only. ADR 0009
(`docs/adr/0009-durable-kernel-and-agent-domain-boundaries.md:41`) promises fairness within a partition.
`scheduler_starvation` shows the lasso; `DueJobsAreClaimed` holds when batch and burst cover what can be ahead.

**A permit that is not given back.** `commit_context_outcome_inner`
(`crates/adapters/platform-postgres/src/context_query_repository.rs:674`) drops the lease of a deferred
or retried query without giving back the unit of `active_work_count` its claim took; the Model and
Capability counterparts do. The Run can then never end, by itself or by convergence. `context_permit`
shows it; `PermitFollowsLease` is stated for the other two domains.

Properties whose statement records a limit of the code:

* `EveryLeafEnds` excepts `StrandedWrite`. A write that was woken and not yet claimed when its Run is
  controlled has a `ready` Job, from where the Job table has no step to `reconciliation_required`, so
  `decide_control` (`crates/domains/platform-invocations/src/execution.rs:2185`) refuses it each time and the
  Run's convergence stops there. Without the exception TLC finds that lasso. No service wakes such
  invocations at this commit.
* `WritesAreNotGuessed` speaks of writes without an idempotency key, and not of `timed_out`: an
  idempotent write whose lease expired, or any write at its deadline, is ended without reconciliation.
* `ControlledRunEnds` allows a Run to be doomed no more: a dead last attempt alone condemns it, until a
  deciding sibling cancels that attempt.

Behaviour the models make visible and that no property forbids: the exit of a leg that decides the Join is
refused while a sibling waits for a person or a child, as it owns no live Job
(`repository.rs:9195`); a sibling's `ready` Job is not claimed while its Run is `waiting`; an answered
or expired Task is refused while any Job of the Run is active (`repository.rs:12119`); a damaged Job row
uses up a place of its batch (`job_commands.rs:343`).

## 7. Plan

1. `SandboxDispatch`: at most one activation per attempt, cleanup of every candidate that was created.
2. `McpOAuth` (callback winner, cleanup chain) and `ArtifactLifecycle` (upload against abandonment and
   deletion), as further users of the Job authority.
3. Outbox liveness under a stated timing assumption, and the backlog gate.
4. Runs of their own for the two limits section 6 describes, a write that times out unproven and a write
   left stranded, against the reconciliation obligation of `docs/current/architecture.md:60`.
