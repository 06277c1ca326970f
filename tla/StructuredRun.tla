---------------------------- MODULE StructuredRun -----------------------------
(***************************************************************************)
(* One Run of a Plan that forks into legs, joins them and returns: the     *)
(* claims, starts, yields, wakes, retries and recoveries of its            *)
(* orchestration Jobs, the controller steps that open and close Scopes,    *)
(* the Join's decision with the cancellation of the remaining legs, the    *)
(* waits for timers, signals, people and child Runs, the Run's controls, and *)
(* the convergence of a controlled or failed Run and of its children, one  *)
(* short transaction at a time.                                            *)
(*                                                                         *)
(* Every command locks the Run row, so a command is one action.  A Node    *)
(* has at most one Job that has not ended: job[n] is the latest one.  All  *)
(* deadlines of a Run's Jobs are the Run's deadline, so time is where the  *)
(* clock stands to it; a lease never outlives it.                          *)
(***************************************************************************)
EXTENDS Naturals, FiniteSets

CONSTANTS Legs,          \* the Fork's legs; a leg's Node and its Scope share its name
          Plans          \* the Plans a Run may be admitted with

Nodes == {"fork", "join", "end"} \cup Legs
Scopes == {"root"} \cup Legs
JoinPolicy == {"all_success", "all_settled", "quorum"}
Remainder == {"none", "cancel", "drain"}
LegKind == {"compute", "timer", "human", "child", "unused"}   \* "timer": TimerWait or SignalWait

\* attempts: the attempt_limit of every orchestration Job of the Run.
Plan == [policy : JoinPolicy, quorum : Nat, remainder : Remainder, kind : [Legs -> LegKind],
         attempts : Nat \ {0}]

\* A quorum names how many legs must succeed and what happens to the others.
valid_plan(p) == IF p.policy = "quorum" THEN p.quorum > 0 /\ p.remainder # "none"
                                        ELSE p.quorum = 0 /\ p.remainder = "none"

ASSUME StructuredRunAssumption ==
    /\ IsFiniteSet(Legs) /\ Legs # {}
    /\ Legs \cap {"fork", "join", "end", "root"} = {}
    /\ Plans \subseteq {p \in Plan : valid_plan(p) /\ \E l \in Legs : p.kind[l] # "unused"}

\* The legs of a Plan: it may fork into fewer than there are names for.
LegsOf(p) == {l \in Legs : p.kind[l] # "unused"}

VARIABLES plan,      \* the exact Plan frozen at admission
          run,       \* the Run row
          node,      \* node[n]: state of the NodeExecution
          scope,     \* scope[s]: state of the ScopeInstance
          job,       \* job[n]: the latest orchestration Job of n
          wait,      \* wait[l]: the durable wait of l (wake contract, Task or ChildRunLink)
          child,     \* child[l]: the child Run that l called
          reserved,  \* concurrency units this Run's Jobs hold in the quota accounts
          clock,     \* "early", "late" (within 60 s of the deadline) or "due"
          verdict    \* history: the decision that woke the Join

vars == <<plan, run, node, scope, job, wait, child, reserved, clock, verdict>>

ActiveState == {"queued", "running", "waiting"}
TerminalState == {"succeeded", "failed", "cancelled", "timed_out"}
RunState == ActiveState \cup {"cancelling"} \cup TerminalState
LiveState == {"ready", "leased", "running", "waiting", "retry_scheduled", "cancelling"}
JobState == LiveState \cup TerminalState
NodeState == {"pending", "ready", "running", "waiting", "retry_scheduled", "cancelling"} \cup TerminalState
ScopeState == {"open", "succeeded", "failed", "cancelled"}
Absent == "absent"

\* intent: the control or failure recorded on the child, which condemns it.
NoChild == [state |-> Absent, intent |-> "none"]
NewChild == [NoChild EXCEPT !.state = "active"]

\* started: the Job keeps a dispatched attempt that a claim continues.
\* expired: its lease has run out.
NoJob == [state |-> Absent, attempt |-> 0, started |-> FALSE, expired |-> FALSE]
NewJob == [NoJob EXCEPT !.state = "ready"]

Ended(n) == node[n] \in TerminalState
LiveNodes == {n \in Nodes : node[n] # Absent /\ ~Ended(n)}
HasLiveJob(n) == job[n].state \in LiveState
Held(n) == job[n].state \in {"leased", "running"}
ScopeOf(n) == IF n \in Legs THEN n ELSE "root"

\* admit_run: the root Scope is open and the entry Node has a ready Job.
Init ==
    /\ plan \in Plans
    /\ run = [state |-> "queued", paused |-> FALSE, cancel |-> FALSE, timeout |-> FALSE,
              failure |-> FALSE, active |-> 0]
    /\ node = [n \in Nodes |-> IF n = "fork" THEN "ready" ELSE Absent]
    /\ scope = [s \in Scopes |-> IF s = "root" THEN "open" ELSE Absent]
    /\ job = [n \in Nodes |-> IF n = "fork" THEN NewJob ELSE NoJob]
    /\ wait = [l \in Legs |-> "none"]
    /\ child = [l \in Legs |-> NoChild]
    /\ reserved = 0
    /\ clock = "early"
    /\ verdict = "none"

Uncontrolled == ~run.cancel /\ ~run.timeout

-----------------------------------------------------------------------------
(* Claims, starts, leases, retries and recoveries.                         *)

\* A claim moves a queued Run to running; one Job takes one unit of work and quota.
claim_orchestration_partition(n) ==
    /\ job[n].state = "ready" /\ node[n] = "ready" /\ scope[ScopeOf(n)] = "open"
    /\ job[n].started \/ job[n].attempt < plan.attempts
    /\ run.state \in {"queued", "running"} /\ ~run.paused /\ Uncontrolled /\ clock # "due"
    /\ job' = [job EXCEPT ![n].state = "leased"]
    /\ run' = [run EXCEPT !.state = "running", !.active = @ + 1]
    /\ reserved' = reserved + 1
    /\ UNCHANGED <<plan, node, scope, wait, child, clock, verdict>>

\* lock_orchestration_job_parents, and the fence: a worker's command needs a
\* lease in force, its Node in the expected state, its Scope open and its Run running.
Fenced(n, job_state, node_state) ==
    /\ job[n].state = job_state /\ ~job[n].expired
    /\ node[n] = node_state /\ scope[ScopeOf(n)] = "open"
    /\ run.state = "running"

\* A continuation resumes its attempt; anything else is a new attempt.
start_orchestration_job(n) ==
    /\ Fenced(n, "leased", "ready")
    /\ job[n].started \/ job[n].attempt < plan.attempts
    /\ job' = [job EXCEPT ![n].state = "running", ![n].started = TRUE,
                          ![n].attempt = IF job[n].started THEN @ ELSE @ + 1]
    /\ node' = [node EXCEPT ![n] = "running"]
    /\ UNCHANGED <<plan, run, scope, wait, child, reserved, clock, verdict>>

\* The worker died, or gave the Job up because its command was refused, and the
\* lease runs out.
expire_lease(n) ==
    /\ Held(n) /\ ~job[n].expired
    /\ job' = [job EXCEPT ![n].expired = TRUE]
    /\ UNCHANGED <<plan, run, node, scope, wait, child, reserved, clock, verdict>>

\* The Job gives its unit of work and its quota back.
ended_job(n, state) == [job[n] EXCEPT !.state = state, !.expired = FALSE]

\* A retry gives the dispatched attempt up: started_at is cleared.
retried_job(n) == [ended_job(n, "retry_scheduled") EXCEPT !.started = FALSE]

yield_retry(n) ==
    /\ Fenced(n, "running", "running")
    /\ job[n].attempt < plan.attempts
    /\ job' = [job EXCEPT ![n] = retried_job(n)]
    /\ node' = [node EXCEPT ![n] = "retry_scheduled"]
    /\ run' = [run EXCEPT !.active = @ - 1]
    /\ reserved' = reserved - 1
    /\ UNCHANGED <<plan, scope, wait, child, clock, verdict>>

drive_due_orchestration_retries(n) ==
    /\ job[n].state = "retry_scheduled" /\ node[n] = "retry_scheduled"
    /\ scope[ScopeOf(n)] = "open" /\ job[n].attempt < plan.attempts
    /\ run.state = "running" /\ ~run.paused /\ Uncontrolled /\ clock # "due"
    /\ job' = [job EXCEPT ![n].state = "ready"]
    /\ node' = [node EXCEPT ![n] = "ready"]
    /\ UNCHANGED <<plan, run, scope, wait, child, reserved, clock, verdict>>

recovered_run == [run EXCEPT !.active = @ - 1]

\* A lease that never started goes back to ready, an attempt that did is retried.
recovered_node(n) == IF job[n].state = "leased" THEN node[n] ELSE "retry_scheduled"

recovered_job(n) ==
    IF job[n].state = "leased" THEN [ended_job(n, "ready") EXCEPT !.started = FALSE]
                               ELSE retried_job(n)

\* A lease that ran out in the Run's last minute is left to the deadline.
drive_expired_orchestration_jobs(n) ==
    /\ Held(n) /\ job[n].expired /\ job[n].attempt < plan.attempts
    /\ node[n] = IF job[n].state = "leased" THEN "ready" ELSE "running"
    /\ scope[ScopeOf(n)] = "open"
    /\ run.state = "running" /\ Uncontrolled /\ clock = "early"
    /\ job' = [job EXCEPT ![n] = recovered_job(n)]
    /\ node' = [node EXCEPT ![n] = recovered_node(n)]
    /\ run' = recovered_run
    /\ reserved' = reserved - 1
    /\ UNCHANGED <<plan, scope, wait, child, clock, verdict>>

-----------------------------------------------------------------------------
(* Durable waits: a timer or signal keeps its Job, a person's Task ends it. *)

\* The last active Job to start waiting takes the Run to waiting.
waiting_run == [run EXCEPT !.state = IF run.active = 1 THEN "waiting" ELSE @, !.active = @ - 1]

yield_wait(l) ==
    /\ plan.kind[l] = "timer" /\ wait[l] = "none"
    /\ Fenced(l, "running", "running")
    /\ job' = [job EXCEPT ![l] = ended_job(l, "waiting")]
    /\ node' = [node EXCEPT ![l] = "waiting"]
    /\ wait' = [wait EXCEPT ![l] = "pending"]
    /\ run' = waiting_run
    /\ reserved' = reserved - 1
    /\ UNCHANGED <<plan, scope, child, clock, verdict>>

defer_orchestration_to_task(l) ==
    /\ plan.kind[l] = "human" /\ wait[l] = "none"
    /\ Fenced(l, "running", "running")
    /\ job' = [job EXCEPT ![l] = ended_job(l, "succeeded")]
    /\ node' = [node EXCEPT ![l] = "waiting"]
    /\ wait' = [wait EXCEPT ![l] = "pending"]
    /\ run' = waiting_run
    /\ reserved' = reserved - 1
    /\ UNCHANGED <<plan, scope, child, clock, verdict>>

woken_run == [run EXCEPT !.state = "running"]

\* A timer or signal succeeds; a signal's timeout fails its wait.
wake_orchestration_job(l, outcome) ==
    /\ job[l].state = "waiting" /\ node[l] = "waiting" /\ scope[l] = "open"
    /\ run.state \in {"waiting", "running"}
    /\ job' = [job EXCEPT ![l].state = "ready"]
    /\ node' = [node EXCEPT ![l] = "ready"]
    /\ wait' = [wait EXCEPT ![l] = outcome]
    /\ run' = woken_run
    /\ UNCHANGED <<plan, scope, child, reserved, clock, verdict>>

\* resolve_task and drive_expired_orchestration_tasks: the first answer wins,
\* and a new Job resumes the Node.  Refused while any Job of the Run is active.
resolve_task(l, outcome) ==
    /\ plan.kind[l] = "human" /\ wait[l] = "pending" /\ node[l] = "waiting"
    /\ run.state \in {"waiting", "running"} /\ Uncontrolled
    /\ run.active = 0 /\ clock # "due"
    /\ job' = [job EXCEPT ![l] = NewJob]
    /\ node' = [node EXCEPT ![l] = "ready"]
    /\ wait' = [wait EXCEPT ![l] = outcome]
    /\ run' = woken_run
    /\ UNCHANGED <<plan, scope, child, reserved, clock, verdict>>

-----------------------------------------------------------------------------
(* Child Runs.  The child is a Run like its parent, seen here as its owner *)
(* sees it: active (queued, running or waiting), cancelling, or ended.     *)
(* Its deadline is at most its parent's, so it is due when the parent is.  *)
(* The parent is the root of its tree.                                     *)

\* The Job ends, the Node waits for the ChildRunLink, and the child is queued.
defer_orchestration_to_child_run(l) ==
    /\ plan.kind[l] = "child" /\ wait[l] = "none"
    /\ Fenced(l, "running", "running")
    /\ ~run.paused /\ ~run.failure /\ Uncontrolled
    /\ job' = [job EXCEPT ![l] = ended_job(l, "succeeded")]
    /\ node' = [node EXCEPT ![l] = "waiting"]
    /\ wait' = [wait EXCEPT ![l] = "pending"]
    /\ child' = [child EXCEPT ![l] = NewChild]
    /\ run' = waiting_run
    /\ reserved' = reserved - 1
    /\ UNCHANGED <<plan, scope, clock, verdict>>

\* The child's Plan returns or raises.
child_returns(l, outcome) ==
    /\ child[l].state = "active" /\ child[l].intent = "none" /\ clock # "due"
    /\ child' = [child EXCEPT ![l].state = outcome]
    /\ UNCHANGED <<plan, run, node, scope, job, wait, reserved, clock, verdict>>

\* The child is cancelled, passes its own deadline or fails by itself; a timeout
\* may be recorded before the child turns to cancelling.
condemn_child(l, intent) ==
    /\ child[l].state = "active" /\ child[l].intent = "none"
    /\ \E state \in {"cancelling"} \cup {s \in {"active"} : intent = "timeout"} :
          child' = [child EXCEPT ![l] = [state |-> state, intent |-> intent]]
    /\ UNCHANGED <<plan, run, node, scope, job, wait, reserved, clock, verdict>>

\* What a condemned child may converge to: its own deadline, which the parent's
\* clock does not show, outranks what else was recorded on it.
child_goals(l) ==
    {"timed_out"} \cup (IF clock = "due" THEN {}
                       ELSE CASE child[l].intent = "cancel" -> {"cancelled"}
                              [] child[l].intent = "failure" -> {"failed"}
                              [] OTHER -> {})

\* A condemned child ends: its own ControlledRunEnds, one level down.
converge_child(l) ==
    /\ child[l].state \in {"active", "cancelling"}
    /\ child[l].intent # "none" \/ clock = "due"
    /\ \E state \in child_goals(l) : child' = [child EXCEPT ![l].state = state]
    /\ UNCHANGED <<plan, run, node, scope, job, wait, reserved, clock, verdict>>

\* Mutant: a link that was told to cancel no longer counts.
OpenLinks_untold == {l \in Legs : plan.kind[l] = "child" /\ wait[l] = "pending"}

\* The ChildRunLink has not ended: running, or cancelling once the parent's end reached it.
OpenLinks == {l \in Legs : plan.kind[l] = "child" /\ wait[l] \in {"pending", "cancelling"}}

\* What drive_terminal_child_runs looks for.
terminal_child(l) ==
    /\ l \in OpenLinks /\ child[l].state \in TerminalState
    /\ node[l] = "waiting" /\ scope[l] = "open"
    /\ run.state \in {"running", "waiting", "cancelling"}

\* The parent may not resume: it is condemned, or becomes so by this step.
converging == run.state = "cancelling" \/ ~Uncontrolled \/ clock = "due"

\* The parent goes on with the child's output, or with a failure however else it ended.
settle_terminal_child_run(l) ==
    /\ terminal_child(l) /\ ~converging
    /\ wait' = [wait EXCEPT ![l] = IF child[l].state = "succeeded" THEN "succeeded" ELSE "failed"]
    /\ node' = [node EXCEPT ![l] = "ready"]
    /\ job' = [job EXCEPT ![l] = NewJob]
    /\ run' = woken_run
    /\ UNCHANGED <<plan, scope, child, reserved, clock, verdict>>

\* The link ends as its child did, but nothing is made of it: the Node, and a new
\* Job that nobody can claim, are left to convergence.
mutate_terminal_child_run(l) ==
    /\ terminal_child(l) /\ converging
    /\ wait' = [wait EXCEPT ![l] = "cancelled"]
    /\ node' = [node EXCEPT ![l] = "cancelling"]
    /\ job' = [job EXCEPT ![l] = [NewJob EXCEPT !.state = "cancelling"]]
    /\ run' = [run EXCEPT !.state = "cancelling"]
    /\ UNCHANGED <<plan, scope, child, reserved, clock, verdict>>

drive_terminal_child_runs(l) == settle_terminal_child_run(l) \/ mutate_terminal_child_run(l)

\* propagate_parent_convergence: the child keeps its own first intent.
propagated(l) ==
    IF child[l].intent # "none" THEN child[l].intent
    ELSE IF run.timeout \/ clock = "due" THEN "timeout"
    ELSE IF run.cancel THEN "cancel" ELSE "failure"

\* Only a link the parent's end has not reached, and a child that has not ended.
drive_child_run_cancellations(l) ==
    /\ plan.kind[l] = "child" /\ wait[l] = "pending" /\ node[l] = "waiting"
    /\ child[l].state \notin TerminalState
    /\ run.state = "cancelling" /\ (~Uncontrolled \/ run.failure)
    /\ child' = [child EXCEPT ![l] = [state |-> "cancelling", intent |-> propagated(l)]]
    /\ wait' = [wait EXCEPT ![l] = "cancelling"]
    /\ UNCHANGED <<plan, run, node, scope, job, reserved, clock, verdict>>

-----------------------------------------------------------------------------
(* Controller steps.  Each ends the Job and Node of a running worker.      *)

\* Fork: every leg gets a Scope, a ready Node and a ready Job; the Join is
\* pending in the Fork's own Scope.
fan_out ==
    /\ Fenced("fork", "running", "running")
    /\ job' = [n \in Nodes |-> IF n \in LegsOf(plan) THEN NewJob
                               ELSE IF n = "fork" THEN ended_job("fork", "succeeded") ELSE job[n]]
    /\ node' = [n \in Nodes |-> IF n \in LegsOf(plan) THEN "ready"
                                ELSE IF n = "fork" THEN "succeeded"
                                ELSE IF n = "join" THEN "pending" ELSE node[n]]
    /\ scope' = [s \in Scopes |-> IF s \in LegsOf(plan) THEN "open" ELSE scope[s]]
    /\ run' = [run EXCEPT !.active = @ - 1]
    /\ reserved' = reserved - 1
    /\ UNCHANGED <<plan, wait, child, clock, verdict>>

\* Mutant: an unreachable quorum is noticed one leg too late.
decide_join_late(children) ==
    LET successes == Cardinality({l \in Legs : children[l] = "succeeded"})
        active == Cardinality({l \in Legs : children[l] = "open"})
    IN  CASE plan.policy = "all_success" ->
                IF \E l \in Legs : children[l] \in {"failed", "cancelled"} THEN "fail"
                ELSE IF active = 0 THEN "complete" ELSE "wait"
          [] plan.policy = "all_settled" -> IF active = 0 THEN "complete" ELSE "wait"
          [] plan.policy = "quorum" ->
                IF successes >= plan.quorum THEN "complete"
                ELSE IF successes + active + 1 < plan.quorum THEN "fail" ELSE "wait"

\* decide_join over the leg Scopes' outcomes; an open Scope is an active child.
decide_join(children) ==
    LET successes == Cardinality({l \in Legs : children[l] = "succeeded"})
        active == Cardinality({l \in Legs : children[l] = "open"})
    IN  CASE plan.policy = "all_success" ->
                IF \E l \in Legs : children[l] \in {"failed", "cancelled"} THEN "fail"
                ELSE IF active = 0 THEN "complete" ELSE "wait"
          [] plan.policy = "all_settled" -> IF active = 0 THEN "complete" ELSE "wait"
          [] plan.policy = "quorum" ->
                IF successes >= plan.quorum THEN "complete"
                ELSE IF successes + active < plan.quorum THEN "fail" ELSE "wait"

LegScopes == [l \in Legs |-> scope[l]]

\* The decision if l now ends with this outcome.
decision(l, outcome) == decide_join([LegScopes EXCEPT ![l] = outcome])

OpenSiblings(l) == {m \in Legs \ {l} : scope[m] = "open"}

\* Mutant: only a Plan that asks for it cancels the legs that are still open.
remainder_on_request(l, outcome) ==
    IF node["join"] = "pending" /\ decision(l, outcome) # "wait" /\ plan.remainder = "cancel"
    THEN OpenSiblings(l) ELSE {}

\* A decided Join cancels the legs that are still open, unless they are drained.
remainder(l, outcome) ==
    IF node["join"] # "pending" THEN {}
    ELSE IF decision(l, outcome) = "fail"
              \/ (decision(l, outcome) = "complete" /\ plan.remainder = "cancel")
         THEN OpenSiblings(l) ELSE {}

\* cancel_structured_remainders: the Scope must own one live Node with one live Job.
cancellable(m) == ~Ended(m) /\ HasLiveJob(m)

\* A Join that was already woken only admits drained legs.
join_admits_exit ==
    \/ node["join"] = "pending"
    \/ /\ plan.policy = "quorum" /\ plan.remainder = "drain"
       /\ node["join"] \in {"ready", "running", "succeeded"}

\* Mutant: a cancelled sibling keeps its unit of work.
released_source_only(l, outcome) == 1

released(l, outcome) == 1 + Cardinality({m \in remainder(l, outcome) : Held(m)})

\* settle_parallel_leg_and_maybe_wake_join, with the source's own Job and Node:
\* the leg's Scope closes, the Join decides and, once decided, is woken with a new Job.
settle_parallel_leg(l, outcome) ==
    LET cancelled == remainder(l, outcome)
        wakes == node["join"] = "pending" /\ decision(l, outcome) # "wait"
    IN  /\ Fenced(l, "running", "running")
        /\ join_admits_exit
        /\ \A m \in cancelled : cancellable(m)
        /\ run.active >= released(l, outcome)
        /\ job' = [n \in Nodes |->
                     IF n = l THEN ended_job(l, outcome)
                     ELSE IF n \in cancelled THEN ended_job(n, "cancelled")
                     ELSE IF n = "join" /\ wakes THEN NewJob ELSE job[n]]
        /\ node' = [n \in Nodes |->
                      IF n = l THEN outcome
                      ELSE IF n \in cancelled THEN "cancelled"
                      ELSE IF n = "join" /\ wakes THEN "ready" ELSE node[n]]
        /\ scope' = [s \in Scopes |->
                       IF s = l THEN outcome
                       ELSE IF s \in cancelled THEN "cancelled" ELSE scope[s]]
        /\ wait' = [m \in Legs |->
                      IF m \in cancelled /\ wait[m] = "pending" THEN "cancelled" ELSE wait[m]]
        /\ run' = [run EXCEPT !.active = @ - released(l, outcome)]
        /\ reserved' = reserved - (1 + Cardinality({m \in cancelled : Held(m)}))
        /\ verdict' = IF wakes THEN decision(l, outcome) ELSE verdict
        /\ UNCHANGED <<plan, child, clock>>

\* A computed leg ends either way, a wait as it was resolved.
leg_exit(l) ==
    /\ plan.kind[l] = "compute" \/ wait[l] = "succeeded"
    /\ settle_parallel_leg(l, "succeeded")

\* fail_orchestration_job in a leg.
leg_fail(l) ==
    /\ plan.kind[l] = "compute" \/ wait[l] = "failed"
    /\ settle_parallel_leg(l, "failed")

\* The Join observes the leg Scopes again; the decision must complete it.
join_step ==
    /\ Fenced("join", "running", "running")
    /\ decide_join(LegScopes) = "complete"
    /\ job' = [job EXCEPT !["join"] = ended_job("join", "succeeded"), !["end"] = NewJob]
    /\ node' = [node EXCEPT !["join"] = "succeeded", !["end"] = "ready"]
    /\ run' = [run EXCEPT !.active = @ - 1]
    /\ reserved' = reserved - 1
    /\ UNCHANGED <<plan, scope, wait, child, clock, verdict>>

\* The Run may end by itself only when nothing else of it is left.
alone(n) == run.active = 1 /\ LiveNodes = {n}

\* A worker ends the Run with its own Job, Node and the root Scope.
end_run(n, outcome, failed) ==
    /\ job' = [job EXCEPT ![n] = ended_job(n, outcome)]
    /\ node' = [node EXCEPT ![n] = outcome]
    /\ scope' = [scope EXCEPT !["root"] = outcome]
    /\ run' = [run EXCEPT !.state = outcome, !.active = 0, !.failure = failed]
    /\ reserved' = reserved - 1
    /\ UNCHANGED <<plan, wait, child, clock, verdict>>

\* fail_orchestration_job in the root Scope: a Join whose legs failed.
join_fail ==
    /\ Fenced("join", "running", "running")
    /\ decide_join(LegScopes) = "fail"
    /\ alone("join")
    /\ end_run("join", "failed", TRUE)

\* lock_terminal_orchestration_parents
terminal_closure == alone("end") /\ Uncontrolled

\* Return succeeds the Run, Raise fails it.
commit_plan_terminal(outcome) ==
    /\ Fenced("end", "running", "running")
    /\ terminal_closure
    /\ end_run("end", outcome, outcome = "failed")

-----------------------------------------------------------------------------
(* Controls and time.                                                      *)

pause_run ==
    /\ run.state \in ActiveState
    /\ run' = [run EXCEPT !.paused = ~@]
    /\ UNCHANGED <<plan, node, scope, job, wait, child, reserved, clock, verdict>>

cancel_run ==
    /\ run.state \in ActiveState \cup {"cancelling"} /\ ~run.cancel
    /\ run' = [run EXCEPT !.state = "cancelling", !.cancel = TRUE]
    /\ UNCHANGED <<plan, node, scope, job, wait, child, reserved, clock, verdict>>

\* The timeout is only recorded; convergence acts on it.
observe_timeout ==
    /\ run.state \notin TerminalState /\ clock = "due" /\ ~run.timeout
    /\ run' = [run EXCEPT !.timeout = TRUE]
    /\ UNCHANGED <<plan, node, scope, job, wait, child, reserved, clock, verdict>>

\* No lease outlives the deadline.
tick ==
    /\ run.state \notin TerminalState /\ clock # "due"
    /\ clock' = IF clock = "early" THEN "late" ELSE "due"
    /\ job' = [n \in Nodes |-> [job[n] EXCEPT !.expired = IF clock = "late" THEN Held(n) ELSE @]]
    /\ UNCHANGED <<plan, run, node, scope, wait, child, reserved, verdict>>

-----------------------------------------------------------------------------
(* Convergence: converge_run_step commits one step per transaction, the    *)
(* first that applies of the following.                                    *)

\* The last attempt of a Job whose worker died.
exhausted(n) == job[n].state = "running" /\ job[n].attempt >= plan.attempts /\ job[n].expired

\* Mutant: a cancellation outranks the deadline.
goal_cancel_first ==
    IF run.cancel THEN "cancelled"
    ELSE IF run.timeout \/ clock = "due" THEN "timed_out"
    ELSE IF run.failure \/ (\E n \in Nodes : exhausted(n)) THEN "failed"
    ELSE "none"

\* decide_run_convergence: the deadline outranks a cancellation, which outranks a failure.
goal ==
    IF run.timeout \/ clock = "due" THEN "timed_out"
    ELSE IF run.cancel THEN "cancelled"
    ELSE IF run.failure \/ (\E n \in Nodes : exhausted(n)) THEN "failed"
    ELSE "none"

Condemned == run.state \notin TerminalState /\ goal # "none"

\* Mutant: an outranked failure keeps the goal from counting as recorded.
Observed_exactly ==
    /\ run.state = "cancelling"
    /\ goal = "timed_out" <=> run.timeout
    /\ goal = "failed" <=> run.failure

\* The goal is already recorded on the Run.
Observed ==
    /\ run.state = "cancelling"
    /\ goal = "timed_out" => run.timeout
    /\ goal = "failed" => run.failure

\* update_run_step without a terminal state: the goal is recorded on the Run.
converge_control ==
    /\ Condemned /\ ~Observed
    /\ run' = [run EXCEPT !.state = "cancelling",
                          !.timeout = goal = "timed_out",
                          !.failure = @ \/ goal = "failed"]
    /\ UNCHANGED <<plan, node, scope, job, wait, child, reserved, clock, verdict>>

PendingTasks == {l \in Legs : plan.kind[l] = "human" /\ wait[l] = "pending"}

converge_task(l) ==
    /\ Condemned /\ Observed /\ l \in PendingTasks
    /\ wait' = [wait EXCEPT ![l] = "cancelled"]
    /\ UNCHANGED <<plan, run, node, scope, job, child, reserved, clock, verdict>>

\* convergence_member_states: only the exhausted execution itself fails.
member_state(is_exhausted) ==
    IF goal = "timed_out" THEN "timed_out"
    ELSE IF goal = "failed" /\ is_exhausted THEN "failed" ELSE "cancelled"

scope_state == IF goal = "cancelled" THEN "cancelled" ELSE "failed"

\* Mutant: convergence takes a unit of work from a Job that holds none.
converged_run_always(n) == [run EXCEPT !.active = @ - 1]

converged_run(n) == [run EXCEPT !.active = IF Held(n) THEN @ - 1 ELSE @]

\* orchestration_node_state_for_job_state
node_state_for(job_state) == IF job_state = "leased" THEN "ready" ELSE job_state

\* An exhausted Job goes first.
converge_job_node(n) ==
    /\ Condemned /\ Observed /\ PendingTasks = {}
    /\ HasLiveJob(n) /\ node[n] = node_state_for(job[n].state)
    /\ exhausted(n) \/ ~\E m \in Nodes : exhausted(m)
    /\ job' = [job EXCEPT ![n] = ended_job(n, member_state(exhausted(n)))]
    /\ node' = [node EXCEPT ![n] = member_state(exhausted(n))]
    /\ wait' = [l \in Legs |-> IF l = n /\ wait[l] = "pending" THEN "cancelled" ELSE wait[l]]
    /\ run' = converged_run(n)
    /\ reserved' = IF Held(n) THEN reserved - 1 ELSE reserved
    /\ UNCHANGED <<plan, scope, child, clock, verdict>>

NoLiveJobs == \A n \in Nodes : ~HasLiveJob(n)

\* A pending Join, or a Node whose Task was cancelled, has no Job to end.
converge_node(n) ==
    /\ Condemned /\ Observed /\ PendingTasks = {} /\ NoLiveJobs
    /\ n \in LiveNodes \ OpenLinks
    /\ node' = [node EXCEPT ![n] = member_state(FALSE)]
    /\ UNCHANGED <<plan, run, scope, job, wait, child, reserved, clock, verdict>>

\* Mutant: a Scope closes although a nested Scope is open.
closable_alone(s) == scope[s] = "open" /\ \A n \in LiveNodes : ScopeOf(n) # s

\* Inside out: no live member, and no open Scope of a member.
closable(s) ==
    /\ scope[s] = "open" /\ \A n \in LiveNodes : ScopeOf(n) # s
    /\ s = "root" => \A l \in Legs : scope[l] # "open"

converge_scope(s) ==
    /\ Condemned /\ Observed /\ PendingTasks = {} /\ NoLiveJobs /\ LiveNodes \subseteq OpenLinks
    /\ closable(s)
    /\ scope' = [scope EXCEPT ![s] = scope_state]
    /\ UNCHANGED <<plan, run, node, job, wait, child, reserved, clock, verdict>>

\* The Run ends last, and only with no active work counted.
converge_terminal ==
    /\ Condemned /\ Observed /\ PendingTasks = {} /\ NoLiveJobs /\ LiveNodes = {}
    /\ \A s \in Scopes : scope[s] # "open"
    /\ \A l \in Legs : child[l].state \in {Absent} \cup TerminalState
    /\ run.active = 0
    /\ run' = [run EXCEPT !.state = goal]
    /\ UNCHANGED <<plan, node, scope, job, wait, child, reserved, clock, verdict>>

converge_run_step ==
    \/ converge_control
    \/ \E l \in Legs : converge_task(l)
    \/ \E n \in Nodes : converge_job_node(n)
    \/ \E n \in Nodes : converge_node(n)
    \/ \E s \in Scopes : converge_scope(s)
    \/ converge_terminal

-----------------------------------------------------------------------------
NextJob ==
    \E n \in Nodes : \/ claim_orchestration_partition(n)
                     \/ start_orchestration_job(n)
                     \/ expire_lease(n)
                     \/ yield_retry(n)
                     \/ drive_due_orchestration_retries(n)
                     \/ drive_expired_orchestration_jobs(n)

NextLeg ==
    \E l \in Legs : \/ yield_wait(l)
                    \/ defer_orchestration_to_task(l)
                    \/ \E outcome \in {"succeeded", "failed"} :
                          wake_orchestration_job(l, outcome) \/ resolve_task(l, outcome)
                    \/ leg_exit(l)
                    \/ leg_fail(l)

NextChild ==
    \E l \in Legs : \/ defer_orchestration_to_child_run(l)
                    \/ \E outcome \in {"succeeded", "failed"} : child_returns(l, outcome)
                    \/ \E intent \in {"cancel", "timeout", "failure"} : condemn_child(l, intent)
                    \/ converge_child(l)
                    \/ drive_terminal_child_runs(l)
                    \/ drive_child_run_cancellations(l)

NextRoot ==
    \/ fan_out
    \/ join_step
    \/ join_fail
    \/ \E outcome \in {"succeeded", "failed"} : commit_plan_terminal(outcome)

NextControl == pause_run \/ cancel_run \/ observe_timeout \/ tick

Settled == run.state \in TerminalState /\ UNCHANGED vars

Next == NextJob \/ NextLeg \/ NextChild \/ NextRoot \/ NextControl \/ converge_run_step \/ Settled

\* The safety controller visits condemned Runs, ended children and children of
\* condemned Runs again and again; a child is such a Run itself.
Fairness ==
    /\ WF_vars(converge_run_step)
    /\ \A l \in Legs : /\ WF_vars(converge_child(l))
                       /\ WF_vars(drive_terminal_child_runs(l))
                       /\ WF_vars(drive_child_run_cancellations(l))

Spec == Init /\ [][Next]_vars /\ Fairness

-----------------------------------------------------------------------------
(* Properties.                                                             *)

\* The rows keep the types of their columns; no Job passes its attempt_limit, and
\* the counts of active work and reserved quota never go below zero.
TypeOK ==
    /\ plan \in Plans
    /\ run \in [state : RunState, paused : BOOLEAN, cancel : BOOLEAN, timeout : BOOLEAN,
                failure : BOOLEAN, active : Nat]
    /\ node \in [Nodes -> NodeState \cup {Absent}]
    /\ scope \in [Scopes -> ScopeState \cup {Absent}]
    /\ job \in [Nodes -> [state : JobState \cup {Absent}, attempt : 0..plan.attempts,
                          started : BOOLEAN, expired : BOOLEAN]]
    /\ wait \in [Legs -> {"none", "pending", "cancelling", "succeeded", "failed", "cancelled"}]
    /\ child \in [Legs -> [state : {Absent, "active", "cancelling"} \cup TerminalState,
                           intent : {"none", "cancel", "timeout", "failure"}]]
    /\ reserved \in Nat
    /\ clock \in {"early", "late", "due"}
    /\ verdict \in {"none", "complete", "fail"}

\* active_work_count and the reserved quota both equal the number of Jobs under
\* lease, whoever ended them: the worker, a deciding sibling, recovery or convergence.
PermitsMatchLeases ==
    /\ run.active = Cardinality({n \in Nodes : Held(n)})
    /\ reserved = run.active

\* A Run that may still do its own work has something that can move it: a live
\* Job, a person's answer or a child; in particular the last leg to end wakes the Join.
\* Only a wake takes a Run out of waiting, so a waiting Run holds no lease and
\* still has the timer, signal or Task that will wake it.
WorkIsNeverLost ==
    /\ run.state \in ActiveState => (\E n \in Nodes : HasLiveJob(n)) \/ PendingTasks # {} \/ OpenLinks # {}
    /\ run.state = "waiting" => /\ run.active = 0
                                /\ \E l \in Legs : wait[l] = "pending" /\ node[l] = "waiting"

\* A woken Join never finds its legs undecided, or decided otherwise, when it
\* comes to look at them, however they moved in the meantime; and no leg is left
\* behind a decided Join unless the Plan drains it.
VerdictStands ==
    verdict # "none" =>
        /\ decide_join(LegScopes) = verdict
        /\ ~(verdict = "complete" /\ plan.remainder = "drain") =>
              \A l \in LegsOf(plan) : scope[l] # "open" /\ Ended(l)

\* A Scope that has closed has no live Node, the root closes last, and a live
\* Job's Node is in the state its Job implies: converge_job_node and
\* cancel_structured_remainders take anything else for a corrupt row.
ScopesCloseInsideOut ==
    /\ \A n \in LiveNodes : scope[ScopeOf(n)] = "open"
    /\ scope["root"] # "open" => \A l \in Legs : scope[l] # "open"
    /\ \A n \in Nodes : HasLiveJob(n) => node[n] = node_state_for(job[n].state)

\* A Run ends as its controls say: timed out exactly when a timeout was
\* recorded, cancelled only on request, and it succeeds only if neither was.
OutcomeMatchesControl ==
    /\ run.state = "timed_out" => run.timeout
    /\ run.state \in {"succeeded", "failed", "cancelled"} => ~run.timeout
    /\ run.state = "cancelled" => run.cancel
    /\ run.state \in {"succeeded", "failed"} => ~run.cancel

\* The members of the Run in RunLifecycle.
Alive == {<<"node", n>> : n \in LiveNodes}
         \cup {<<"scope", s>> : s \in {t \in Scopes : scope[t] = "open"}}
         \cup {<<"wait", l>> : l \in {m \in Legs : wait[m] \in {"pending", "cancelling"}}}
         \cup {<<"child", l>> : l \in {m \in Legs : child[m].state \in {"active", "cancelling"}}}
         \cup {<<"lease", n>> : n \in {m \in Nodes : Held(m)}}

Lifecycle == INSTANCE RunLifecycle
             WITH Members <- {"node", "scope", "wait", "child", "lease"} \X (Nodes \cup Scopes),
                  state <- run.state, members <- Alive

\* The Run implements its lifecycle: it follows the table of RunState, its
\* members only shrink once it is cancelling, and none is left when it ends.
ImplementsLifecycle == Lifecycle!Spec

\* What condemns a Run: a control, its deadline, a failure, or the worker of a
\* last attempt that died.
Doomed ==
    \/ run.cancel \/ run.timeout \/ run.failure \/ clock = "due"
    \/ \E n \in Nodes : exhausted(n)

\* A condemned Run ends, whatever its workers, timers and people do or do not do,
\* unless it is a dead last attempt alone that condemns it and a deciding sibling
\* cancels that attempt first.
ControlledRunEnds == Doomed ~> (run.state \in TerminalState \/ ~Doomed)
=============================================================================
