------------------------- MODULE StructuredRunProofs -------------------------
(***************************************************************************)
(* Proofs about a Run for every set of legs and every valid Plan.          *)
(*                                                                         *)
(* No property of the module is inductive alone.  That active_work_count   *)
(* equals the leases needs the agreement of Nodes and Jobs; that nothing   *)
(* is lost needs to know what each live Node waits for and how far the     *)
(* Plan has come; that a Run ends as its controls say needs that no lease  *)
(* outlives the deadline; and that an ended Run has no member left needs   *)
(* that every open wait and every child Run belongs to a waiting Node.     *)
(***************************************************************************)
EXTENDS StructuredRun, FiniteSetTheorems, TLAPS

OpenWait(l) == wait[l] \in {"pending", "cancelling"}
OpenChild(l) == child[l].state \in {"active", "cancelling"}

\* Nothing but the Fork exists before it has forked, the Plan's legs do afterwards; only the
\* Join is ever pending, and it is not once it was decided; the end follows the Join.
PlanOrder ==
    /\ \A n \in Nodes : node[n] = "pending" => n = "join"
    /\ node["fork"] # "succeeded" =>
          verdict = "none" /\ \A n \in Nodes \ {"fork"} : node[n] = Absent
    /\ node["fork"] = "succeeded" => \A l \in LegsOf(plan) : node[l] # Absent
    /\ \A l \in Legs \ LegsOf(plan) : node[l] = Absent /\ scope[l] = Absent
    /\ node["join"] # "succeeded" => node["end"] = Absent
    /\ verdict # "none" => node["join"] # "pending"

\* An open wait belongs to a waiting Node, a child that has not ended to an open wait,
\* only a link to a child is ever told to cancel, and exactly a timer or signal keeps its
\* Job while it waits.
WaitPart ==
    \A l \in Legs :
        /\ OpenWait(l) => node[l] = "waiting"
        /\ OpenChild(l) => plan.kind[l] = "child" /\ OpenWait(l)
        /\ plan.kind[l] = "child" /\ wait[l] = "pending" => child[l].state # Absent
        /\ wait[l] = "cancelling" => plan.kind[l] = "child"
        /\ OpenWait(l) /\ plan.kind[l] \notin {"human", "child"} => job[l].state = "waiting"
        /\ job[l].state = "waiting" => plan.kind[l] = "timer"

\* A cancelled Run is not active; a timeout is only recorded when due, and then every
\* lease has run out.
ControlPart ==
    /\ run.cancel => run.state \notin ActiveState
    /\ run.timeout => clock = "due"
    /\ clock = "due" => \A n \in Nodes : Held(n) => job[n].expired

\* While the Run is active, the root Scope is open, an open leg is at work, every live
\* Node but a pending Join has a Job, a Task or a child, and the Plan has somewhere to go.
ActivePart ==
    run.state \in ActiveState =>
        /\ scope["root"] = "open"
        /\ \A l \in Legs : scope[l] = "open" => l \in LiveNodes
        /\ \A n \in LiveNodes :
              HasLiveJob(n) \/ n \in PendingTasks \cup OpenLinks \/ node[n] = "pending"
        /\ \/ "fork" \in LiveNodes
           \/ node["join"] = "pending" /\ \E l \in Legs : scope[l] = "open"
           \/ "join" \in LiveNodes /\ node["join"] # "pending"
           \/ "end" \in LiveNodes

\* A waiting Run holds no lease and has something that will wake it.
WaitingPart ==
    run.state = "waiting" =>
        run.active = 0 /\ \E l \in Legs : wait[l] = "pending" /\ node[l] = "waiting"

\* An ended Run has left no Node and no Scope behind.
EndedPart ==
    run.state \in TerminalState => LiveNodes = {} /\ \A s \in Scopes : scope[s] # "open"

RunInvariant ==
    /\ TypeOK
    /\ PermitsMatchLeases
    /\ ScopesCloseInsideOut
    /\ OutcomeMatchesControl
    /\ VerdictStands
    /\ PlanOrder
    /\ WaitPart
    /\ ControlPart
    /\ ActivePart
    /\ WaitingPart
    /\ EndedPart

-----------------------------------------------------------------------------
(* Types and counts.                                                       *)

Runs == [state : RunState, paused : BOOLEAN, cancel : BOOLEAN, timeout : BOOLEAN,
         failure : BOOLEAN, active : Nat]
JobRow == [state : JobState \cup {Absent}, attempt : 0..plan.attempts,
           started : BOOLEAN, expired : BOOLEAN]
WaitState == {"none", "pending", "cancelling", "succeeded", "failed", "cancelled"}
ChildRow == [state : {Absent, "active", "cancelling"} \cup TerminalState,
             intent : {"none", "cancel", "timeout", "failure"}]

\* TypeOK in terms of the rows.
LEMMA TypeFacts ==
    TypeOK <=> /\ plan \in Plans
               /\ run \in Runs
               /\ node \in [Nodes -> NodeState \cup {Absent}]
               /\ scope \in [Scopes -> ScopeState \cup {Absent}]
               /\ job \in [Nodes -> JobRow]
               /\ wait \in [Legs -> WaitState]
               /\ child \in [Legs -> ChildRow]
               /\ reserved \in Nat
               /\ clock \in {"early", "late", "due"}
               /\ verdict \in {"none", "complete", "fail"}
BY DEF TypeOK, Runs, JobRow, WaitState, ChildRow

\* A Plan is validated before its Run is created.
LEMMA PlanFacts ==
    ASSUME plan \in Plans
    PROVE  /\ plan \in Plan /\ valid_plan(plan) /\ plan.attempts \in Nat \ {0}
           /\ plan.kind \in [Legs -> LegKind] /\ LegsOf(plan) # {}
           /\ plan.policy \in JoinPolicy /\ plan.quorum \in Nat /\ plan.remainder \in Remainder
BY StructuredRunAssumption DEF Plan, LegsOf

\* The names of Nodes and Scopes, and which Scope a Node is in.
LEMMA NodeNames ==
    /\ {"fork", "join", "end"} \subseteq Nodes /\ Legs \subseteq Nodes /\ Legs \subseteq Scopes
    /\ "root" \in Scopes
    /\ Legs \cap {"fork", "join", "end", "root"} = {}
    /\ ScopeOf("fork") = "root" /\ ScopeOf("join") = "root" /\ ScopeOf("end") = "root"
    /\ \A l \in Legs : ScopeOf(l) = l
    /\ \A n \in Nodes : ScopeOf(n) \in Scopes
BY StructuredRunAssumption DEF Nodes, Scopes, ScopeOf

HeldSet == {n \in Nodes : Held(n)}

\* The leases of a Run can be counted.
LEMMA HeldIsFinite ==
    /\ IsFiniteSet(Nodes)
    /\ IsFiniteSet(HeldSet) /\ Cardinality(HeldSet) \in Nat
<1>1. IsFiniteSet({"fork", "join", "end"})
  <2>1. IsFiniteSet({"fork"}) /\ IsFiniteSet({"join"}) /\ IsFiniteSet({"end"})
    BY FS_Singleton
  <2>2. IsFiniteSet({"fork"} \cup {"join"})
    BY <2>1, FS_Union
  <2>3. IsFiniteSet(({"fork"} \cup {"join"}) \cup {"end"})
    BY <2>1, <2>2, FS_Union
  <2>4. ({"fork"} \cup {"join"}) \cup {"end"} = {"fork", "join", "end"}
    OBVIOUS
  <2> QED
    BY <2>3, <2>4
<1>2. IsFiniteSet(Nodes)
  BY <1>1, FS_Union, StructuredRunAssumption DEF Nodes
<1>3. HeldSet \in SUBSET Nodes
  BY DEF HeldSet
<1> QED
  BY <1>2, <1>3, FS_Subset, FS_CardinalityType

\* One lease more, one less, or as many.
LEMMA LeaseCounted ==
    ASSUME NEW n \in Nodes,
           \A m \in Nodes \ {n} : Held(m)' <=> Held(m)
    PROVE  /\ (Held(n)' <=> Held(n)) => Cardinality(HeldSet') = Cardinality(HeldSet)
           /\ Held(n)' /\ ~Held(n) => Cardinality(HeldSet') = Cardinality(HeldSet) + 1
           /\ ~Held(n)' /\ Held(n) => /\ Cardinality(HeldSet') = Cardinality(HeldSet) - 1
                                      /\ Cardinality(HeldSet) >= 1
<1>1. CASE Held(n)' <=> Held(n)
  <2>1. HeldSet' = HeldSet
    BY <1>1 DEF HeldSet, Nodes
  <2> QED
    BY <1>1, <2>1
<1>2. CASE Held(n)' /\ ~Held(n)
  <2>1. HeldSet' = HeldSet \cup {n} /\ n \notin HeldSet
    BY <1>2 DEF HeldSet, Nodes
  <2> QED
    BY <1>2, <2>1, HeldIsFinite, FS_AddElement
<1>3. CASE ~Held(n)' /\ Held(n)
  <2>1. HeldSet' = HeldSet \ {n} /\ n \in HeldSet
    BY <1>3 DEF HeldSet, Nodes
  <2>2. Cardinality(HeldSet') = Cardinality(HeldSet) - 1 /\ IsFiniteSet(HeldSet')
    BY <2>1, HeldIsFinite, FS_RemoveElement
  <2>3. Cardinality(HeldSet') \in Nat
    BY <2>2, FS_CardinalityType
  <2> QED
    BY <1>3, <2>2, <2>3, HeldIsFinite
<1> QED
  BY <1>1, <1>2, <1>3

\* What the invariant says of the types of the rows.
LEMMA RunFacts ==
    ASSUME RunInvariant
    PROVE  /\ plan \in Plans /\ run \in Runs
           /\ node \in [Nodes -> NodeState \cup {Absent}]
           /\ scope \in [Scopes -> ScopeState \cup {Absent}]
           /\ job \in [Nodes -> JobRow]
           /\ wait \in [Legs -> WaitState] /\ child \in [Legs -> ChildRow]
           /\ reserved \in Nat /\ run.active \in Nat
           /\ clock \in {"early", "late", "due"} /\ verdict \in {"none", "complete", "fail"}
           /\ run.active = Cardinality(HeldSet) /\ reserved = Cardinality(HeldSet)
<1>1. TypeOK /\ PermitsMatchLeases
  BY DEF RunInvariant
<1> QED
  BY <1>1, TypeFacts DEF PermitsMatchLeases, HeldSet, Runs

\* A live Job's Node is live and not pending.
LEMMA LiveJobs ==
    ASSUME RunInvariant, NEW n \in Nodes
    PROVE  /\ Held(n) => HasLiveJob(n)
           /\ HasLiveJob(n) => n \in LiveNodes /\ node[n] = node_state_for(job[n].state)
                               /\ node[n] # "pending"
           /\ n \in LiveNodes <=> node[n] # Absent /\ node[n] \notin TerminalState
           /\ n \in LiveNodes => scope[ScopeOf(n)] = "open"
<1>1. n \in LiveNodes <=> node[n] # Absent /\ node[n] \notin TerminalState
  BY DEF LiveNodes, Ended
<1>2. Held(n) => HasLiveJob(n)
  BY DEF Held, HasLiveJob, LiveState
<1>3. HasLiveJob(n) => node[n] = node_state_for(job[n].state)
  BY DEF RunInvariant, ScopesCloseInsideOut
<1>4. HasLiveJob(n) => node[n] # Absent /\ node[n] \notin TerminalState /\ node[n] # "pending"
  BY <1>3 DEF HasLiveJob, LiveState, node_state_for, Absent, TerminalState
<1>5. n \in LiveNodes => scope[ScopeOf(n)] = "open"
  BY DEF RunInvariant, ScopesCloseInsideOut
<1> QED
  BY <1>1, <1>2, <1>3, <1>4, <1>5

-----------------------------------------------------------------------------
(* A step at one Node: what most transactions come down to.                *)

\* The Run row: only the state and the count of active work change, and the state along
\* the table of a Run that goes on.
RunGoesOn ==
    /\ run' \in Runs
    /\ run'.cancel = run.cancel /\ run'.timeout = run.timeout
    /\ \/ run'.state = run.state
       \/ run.state = "queued" /\ run'.state = "running"
       \/ run.state = "running" /\ run'.state = "waiting"
       \/ run.state = "waiting" /\ run'.state = "running"
       \/ run.state \in ActiveState /\ run'.state = "cancelling"

\* Active work and quota follow the Node's lease.
LeaseFollowed(n) ==
    /\ (Held(n)' <=> Held(n)) => UNCHANGED reserved /\ run'.active = run.active
    /\ Held(n)' /\ ~Held(n) => reserved' = reserved + 1 /\ run'.active = run.active + 1
    /\ ~Held(n)' /\ Held(n) => reserved' = reserved - 1 /\ run'.active = run.active - 1

\* A live Node moves on with its Job; it does not succeed, as that is a controller step.
NodeMoves(n) ==
    /\ n \in LiveNodes
    /\ node' \in [Nodes -> NodeState \cup {Absent}] /\ job' \in [Nodes -> JobRow]
    /\ \A m \in Nodes \ {n} : node'[m] = node[m] /\ job'[m] = job[m]
    /\ node'[n] \notin {Absent, "pending", "succeeded"}
    /\ HasLiveJob(n)' => node'[n] = node_state_for(job'[n].state)
    /\ clock = "due" /\ Held(n)' => job'[n].expired
    /\ UNCHANGED <<plan, scope, clock, verdict>>

\* Its wait and its child Run stay consistent with it.
WaitMoves(n) ==
    /\ wait' \in [Legs -> WaitState] /\ child' \in [Legs -> ChildRow]
    /\ \A l \in Legs \ {n} : wait'[l] = wait[l] /\ child'[l] = child[l]
    /\ n \in Legs =>
          /\ OpenWait(n)' => node'[n] = "waiting"
          /\ OpenChild(n)' => plan.kind[n] = "child" /\ OpenWait(n)'
          /\ plan.kind[n] = "child" /\ wait'[n] = "pending" => child'[n].state # Absent
          /\ wait'[n] = "cancelling" => plan.kind[n] = "child"
          /\ OpenWait(n)' /\ plan.kind[n] \notin {"human", "child"} => job'[n].state = "waiting"
          /\ job'[n].state = "waiting" => plan.kind[n] = "timer"

\* A Run that stays active is not left without work, nor one that waits without an answer
\* to come; a Run that does not stay active gets no new wait, child or lease.
WorkIsKept(n) ==
    /\ run'.state \in ActiveState => HasLiveJob(n)' \/ n \in (PendingTasks \cup OpenLinks)'
    /\ run'.state = "waiting" =>
          \/ run.state = "waiting" /\ run'.active = run.active /\ UNCHANGED <<wait, node>>
          \/ n \in Legs /\ run'.active = 0 /\ wait'[n] = "pending" /\ node'[n] = "waiting"
    /\ run'.state \notin ActiveState =>
          /\ Held(n)' => Held(n)
          /\ n \in Legs => (OpenWait(n)' => OpenWait(n)) /\ (OpenChild(n)' => OpenChild(n))

NodeStep(n) == RunGoesOn /\ LeaseFollowed(n) /\ NodeMoves(n) /\ WaitMoves(n) /\ WorkIsKept(n)

\* A transaction at one Node keeps the invariant, whichever it is.
LEMMA NodeStepKeeps ==
    ASSUME RunInvariant, NEW n \in Nodes, NodeStep(n)
    PROVE  RunInvariant'
<1> USE DEF NodeStep
<1>1. /\ node \in [Nodes -> NodeState \cup {Absent}] /\ job \in [Nodes -> JobRow]
      /\ node' \in [Nodes -> NodeState \cup {Absent}] /\ job' \in [Nodes -> JobRow]
      /\ node[n] # Absent /\ node[n] \notin TerminalState
      /\ \A m \in Nodes \ {n} : node'[m] = node[m] /\ job'[m] = job[m]
      /\ node'[n] \notin {Absent, "pending", "succeeded"}
      /\ UNCHANGED <<plan, scope, clock, verdict>>
  BY RunFacts, LiveJobs DEF NodeMoves
<1>2. \A m \in Nodes \ {n} : /\ Held(m)' <=> Held(m)
                             /\ HasLiveJob(m)' <=> HasLiveJob(m)
                             /\ Ended(m)' <=> Ended(m)
                             /\ m \in LiveNodes' <=> m \in LiveNodes
  BY <1>1 DEF Held, HasLiveJob, Ended, LiveNodes, Nodes
<1>3. run.state \notin TerminalState /\ run'.state \notin TerminalState
  BY RunFacts DEF NodeMoves, RunGoesOn, RunInvariant, EndedPart, ActiveState, TerminalState
<1>4. /\ run'.active = Cardinality(HeldSet') /\ reserved' = Cardinality(HeldSet')
      /\ reserved' \in Nat
  BY <1>2, RunFacts, LeaseCounted, HeldIsFinite DEF LeaseFollowed
<1>5. TypeOK'
  <2>1. /\ plan' \in Plans /\ scope' \in [Scopes -> ScopeState \cup {Absent}]
        /\ clock' \in {"early", "late", "due"} /\ verdict' \in {"none", "complete", "fail"}
    BY <1>1, RunFacts
  <2>2. job' \in [Nodes -> JobRow']
    BY <1>1 DEF JobRow
  <2>3. wait' \in [Legs -> WaitState] /\ child' \in [Legs -> ChildRow] /\ run' \in Runs
    BY DEF WaitMoves, RunGoesOn
  <2> QED
    BY <1>1, <1>4, <2>1, <2>2, <2>3 DEF TypeOK, Runs, JobRow, WaitState, ChildRow
<1>6. PermitsMatchLeases'
  BY <1>4 DEF PermitsMatchLeases, HeldSet
<1>7. ScopesCloseInsideOut'
  <2>1. \A m \in LiveNodes' : scope'[ScopeOf(m)] = "open"
    BY <1>1, <1>2, LiveJobs DEF NodeMoves, LiveNodes, ScopeOf
  <2>2. scope'["root"] # "open" => \A l \in Legs : scope'[l] # "open"
    BY <1>1 DEF RunInvariant, ScopesCloseInsideOut
  <2>3. \A m \in Nodes : HasLiveJob(m)' => node'[m] = node_state_for(job'[m].state)
    BY <1>1, <1>2, LiveJobs DEF NodeMoves
  <2> QED
    BY <2>1, <2>2, <2>3 DEF ScopesCloseInsideOut, ScopeOf, node_state_for
<1>8. OutcomeMatchesControl'
  BY <1>3 DEF OutcomeMatchesControl, TerminalState
<1>9. VerdictStands'
  <2>1. LegScopes' = LegScopes /\ decide_join(LegScopes)' = decide_join(LegScopes)
    BY <1>1 DEF LegScopes, decide_join
  <2>2. \A l \in LegsOf(plan) : Ended(l) => Ended(l)'
    BY <1>1, <1>2, NodeNames DEF LegsOf, Ended
  <2> QED
    BY <1>1, <2>1, <2>2 DEF RunInvariant, VerdictStands, LegsOf
<1>10. PlanOrder'
  <2>1. node'["fork"] = "succeeded" <=> node["fork"] = "succeeded"
    BY <1>1, NodeNames DEF TerminalState
  <2>2. node'["join"] = "succeeded" <=> node["join"] = "succeeded"
    BY <1>1, NodeNames DEF TerminalState
  <2>3. \A m \in Nodes : node'[m] = Absent <=> node[m] = Absent
    BY <1>1
  <2>4. \A m \in Nodes : node'[m] = "pending" => node[m] = "pending"
    BY <1>1
  <2> QED
    BY <1>1, <2>1, <2>2, <2>3, <2>4, NodeNames DEF RunInvariant, PlanOrder, LegsOf
<1>11. WaitPart'
  <2> SUFFICES ASSUME NEW l \in Legs
               PROVE  /\ OpenWait(l)' => node'[l] = "waiting"
                      /\ OpenChild(l)' => plan.kind[l] = "child" /\ OpenWait(l)'
                      /\ plan.kind[l] = "child" /\ wait'[l] = "pending" => child'[l].state # Absent
                      /\ wait'[l] = "cancelling" => plan.kind[l] = "child"
                      /\ OpenWait(l)' /\ plan.kind[l] \notin {"human", "child"} =>
                            job'[l].state = "waiting"
                      /\ job'[l].state = "waiting" => plan.kind[l] = "timer"
    BY <1>1 DEF WaitPart, OpenWait, OpenChild
  <2>1. CASE l = n
    BY <2>1 DEF WaitMoves
  <2>2. CASE l # n
    BY <1>1, <2>2, NodeNames DEF WaitMoves, RunInvariant, WaitPart, OpenWait, OpenChild
  <2> QED
    BY <2>1, <2>2
<1>12. ControlPart'
  <2>1. clock' = "due" => \A m \in Nodes : Held(m)' => job'[m].expired
    BY <1>1, <1>2 DEF NodeMoves, RunInvariant, ControlPart
  <2> QED
    BY <1>1, <2>1 DEF RunGoesOn, RunInvariant, ControlPart, ActiveState, Held
<1>13. ActivePart'
  <2> SUFFICES ASSUME run'.state \in ActiveState
               PROVE  /\ scope'["root"] = "open"
                      /\ \A l \in Legs : scope'[l] = "open" => l \in LiveNodes'
                      /\ \A m \in LiveNodes' :
                            HasLiveJob(m)' \/ m \in (PendingTasks \cup OpenLinks)'
                                           \/ node'[m] = "pending"
                      /\ \/ "fork" \in LiveNodes'
                         \/ node'["join"] = "pending" /\ \E l \in Legs : scope'[l] = "open"
                         \/ "join" \in LiveNodes' /\ node'["join"] # "pending"
                         \/ "end" \in LiveNodes'
    BY DEF ActivePart, HasLiveJob
  <2>1. run.state \in ActiveState
    BY DEF RunGoesOn, ActiveState
  <2>2. n \in LiveNodes'
    <3>1. CASE HasLiveJob(n)'
      BY <1>1, <3>1 DEF NodeMoves, LiveNodes, Ended, HasLiveJob, LiveState, node_state_for, Absent,
                        TerminalState
    <3>2. CASE n \in (PendingTasks \cup OpenLinks)'
      <4>1. n \in Legs /\ OpenWait(n)'
        BY <3>2 DEF PendingTasks, OpenLinks, OpenWait
      <4>2. node'[n] = "waiting"
        BY <4>1 DEF WaitMoves
      <4> QED
        BY <4>2 DEF LiveNodes, Ended, TerminalState, Absent
    <3> QED
      BY <3>1, <3>2 DEF WorkIsKept
  <2>3. \A m \in Nodes : m \in LiveNodes => m \in LiveNodes'
    BY <1>2, <2>2
  <2>4. \A m \in LiveNodes' :
          HasLiveJob(m)' \/ m \in (PendingTasks \cup OpenLinks)' \/ node'[m] = "pending"
    <3> SUFFICES ASSUME NEW m \in Nodes \ {n}, m \in LiveNodes'
                 PROVE  HasLiveJob(m)' \/ m \in (PendingTasks \cup OpenLinks)'
                                       \/ node'[m] = "pending"
      BY DEF WorkIsKept, LiveNodes, Nodes
    <3>1. HasLiveJob(m) \/ m \in PendingTasks \cup OpenLinks \/ node[m] = "pending"
      BY <1>2, <2>1 DEF RunInvariant, ActivePart
    <3>2. m \in PendingTasks \cup OpenLinks => m \in (PendingTasks \cup OpenLinks)'
      BY <1>1 DEF PendingTasks, OpenLinks, WaitMoves
    <3> QED
      BY <1>1, <1>2, <3>1, <3>2
  <2>5. \A l \in Legs : scope'[l] = "open" => l \in LiveNodes'
    BY <1>1, <2>1, <2>3, NodeNames DEF RunInvariant, ActivePart
  <2>6. \/ "fork" \in LiveNodes'
        \/ node'["join"] = "pending" /\ \E l \in Legs : scope'[l] = "open"
        \/ "join" \in LiveNodes' /\ node'["join"] # "pending"
        \/ "end" \in LiveNodes'
    <3>1. CASE "fork" \in LiveNodes \/ "end" \in LiveNodes
      BY <2>3, <3>1, NodeNames
    <3>2. CASE "join" \in LiveNodes /\ node["join"] # "pending"
      BY <1>1, <2>3, <3>2, NodeNames
    <3>3. CASE node["join"] = "pending" /\ \E l \in Legs : scope[l] = "open"
      <4>1. "join" \in LiveNodes
        BY <3>3, NodeNames DEF LiveNodes, Ended, TerminalState, Absent
      <4> QED
        BY <1>1, <2>3, <3>3, <4>1, NodeNames
    <3> QED
      BY <2>1, <3>1, <3>2, <3>3 DEF RunInvariant, ActivePart
  <2> QED
    BY <1>1, <2>1, <2>4, <2>5, <2>6 DEF RunInvariant, ActivePart
<1>14. WaitingPart'
  <2> SUFFICES ASSUME run'.state = "waiting"
               PROVE  run'.active = 0 /\ \E l \in Legs : wait'[l] = "pending" /\ node'[l] = "waiting"
    BY DEF WaitingPart
  <2> QED
    BY DEF WorkIsKept, RunInvariant, WaitingPart
<1>15. EndedPart'
  BY <1>3 DEF EndedPart
<1> QED
  BY <1>5, <1>6, <1>7, <1>8, <1>9, <1>10, <1>11, <1>12, <1>13, <1>14, <1>15 DEF RunInvariant

-----------------------------------------------------------------------------
(* The inductive step: claims, starts, leases, retries and recoveries.     *)

\* A lease is one unit of active work and of quota, and keeps the Run from waiting.
LEMMA LeaseIsWork ==
    ASSUME RunInvariant, NEW n \in Nodes, Held(n)
    PROVE  /\ run.active >= 1 /\ run.active - 1 \in Nat /\ reserved - 1 \in Nat
           /\ run.state # "waiting" /\ run.state \notin TerminalState
<1>1. n \in HeldSet
  BY DEF HeldSet
<1>2. Cardinality(HeldSet) # 0
  BY <1>1, HeldIsFinite, FS_EmptySet
<1>3. run.active >= 1 /\ reserved >= 1
  BY <1>2, RunFacts, HeldIsFinite
<1>4. run.state # "waiting"
  BY <1>3, RunFacts DEF RunInvariant, WaitingPart
<1>5. n \in LiveNodes
  BY LiveJobs
<1>6. run.state \notin TerminalState
  BY <1>5 DEF RunInvariant, EndedPart
<1> QED
  BY <1>3, <1>4, <1>6, RunFacts

\* A fence holds only for a live Node of a running Run.
LEMMA FenceFacts ==
    ASSUME RunInvariant, NEW n \in Nodes, NEW job_state \in {"leased", "running"}, NEW node_state,
           Fenced(n, job_state, node_state)
    PROVE  /\ job[n].state = job_state /\ node[n] = node_state /\ scope[ScopeOf(n)] = "open"
           /\ run.state = "running" /\ ~job[n].expired /\ Held(n) /\ n \in LiveNodes
           /\ node[n] \in {"ready", "running"} /\ clock # "due"
<1>1. /\ job[n].state = job_state /\ node[n] = node_state /\ scope[ScopeOf(n)] = "open"
      /\ run.state = "running" /\ ~job[n].expired /\ Held(n)
  BY DEF Fenced, Held
<1>2. HasLiveJob(n) /\ n \in LiveNodes /\ node[n] = node_state_for(job[n].state)
  BY <1>1, LiveJobs
<1>3. node[n] \in {"ready", "running"}
  BY <1>1, <1>2 DEF node_state_for
<1>4. clock # "due"
  BY <1>1 DEF RunInvariant, ControlPart
<1> QED
  BY <1>1, <1>2, <1>3, <1>4

\* A Job that goes on without touching a wait.
LEMMA PlainMove ==
    ASSUME RunInvariant, NEW n \in Nodes, RunGoesOn, LeaseFollowed(n), NodeMoves(n),
           UNCHANGED <<wait, child>>, node[n] # "waiting",
           HasLiveJob(n)', job'[n].state # "waiting", run'.state # "waiting",
           run'.state \notin ActiveState => (Held(n)' => Held(n))
    PROVE  NodeStep(n)
<1>1. WaitMoves(n)
  <2>1. n \in Legs => ~OpenWait(n) /\ ~OpenWait(n)' /\ ~OpenChild(n) /\ ~OpenChild(n)'
    BY DEF RunInvariant, WaitPart, OpenWait, OpenChild
  <2>2. n \in Legs => wait'[n] \notin {"pending", "cancelling"}
    BY <2>1 DEF OpenWait
  <2> QED
    BY <2>1, <2>2, RunFacts DEF WaitMoves
<1>2. WorkIsKept(n)
  BY DEF WorkIsKept, OpenWait, OpenChild
<1> QED
  BY <1>1, <1>2 DEF NodeStep

\* A claim is a step at one Node.
LEMMA ClaimStep ==
    ASSUME RunInvariant, NEW n \in Nodes, claim_orchestration_partition(n)
    PROVE  NodeStep(n)
<1> DEFINE active == run.active + 1
<1>1. /\ job[n].state = "ready" /\ node[n] = "ready" /\ clock # "due"
      /\ run.state \in {"queued", "running"}
      /\ job' = [job EXCEPT ![n].state = "leased"]
      /\ run' = [run EXCEPT !.state = "running", !.active = active]
      /\ reserved' = reserved + 1
      /\ UNCHANGED <<plan, node, scope, wait, child, clock, verdict>>
  BY DEF claim_orchestration_partition
<1>2. active \in Nat /\ n \in LiveNodes /\ run \in Runs /\ job \in [Nodes -> JobRow]
  BY <1>1, RunFacts, LiveJobs DEF TerminalState, Absent
<1> HIDE DEF active
<1>3. RunGoesOn /\ run'.active = active /\ run'.state = "running"
  BY <1>1, <1>2 DEF RunGoesOn, Runs, RunState, ActiveState
<1>4. job' \in [Nodes -> JobRow] /\ job'[n].state = "leased"
  BY <1>1, <1>2 DEF JobRow, JobState, LiveState
<1>5. /\ NodeMoves(n) /\ Held(n)' /\ ~Held(n) /\ HasLiveJob(n)'
  BY <1>1, <1>2, <1>4, RunFacts DEF NodeMoves, Held, HasLiveJob, LiveState, node_state_for, Absent
<1>6. LeaseFollowed(n)
  BY <1>1, <1>3, <1>5 DEF LeaseFollowed, active
<1> QED
  BY <1>1, <1>3, <1>4, <1>5, <1>6, PlainMove DEF ActiveState

\* The start of an attempt is a step at one Node.
LEMMA StartStep ==
    ASSUME RunInvariant, NEW n \in Nodes, start_orchestration_job(n)
    PROVE  NodeStep(n)
<1> DEFINE attempt == IF job[n].started THEN job[n].attempt ELSE job[n].attempt + 1
<1>1. /\ Fenced(n, "leased", "ready")
      /\ job[n].started \/ job[n].attempt < plan.attempts
      /\ job' = [job EXCEPT ![n].state = "running", ![n].started = TRUE, ![n].attempt = attempt]
      /\ node' = [node EXCEPT ![n] = "running"]
      /\ UNCHANGED <<plan, run, scope, wait, child, reserved, clock, verdict>>
  BY RunFacts DEF start_orchestration_job, JobRow
<1>2. /\ job[n].state = "leased" /\ node[n] = "ready" /\ run.state = "running"
      /\ Held(n) /\ n \in LiveNodes /\ clock # "due"
  BY <1>1, FenceFacts
<1>3. attempt \in 0 .. plan.attempts /\ job \in [Nodes -> JobRow] /\ run \in Runs
  BY <1>1, RunFacts, PlanFacts DEF JobRow
<1> HIDE DEF attempt
<1>4. job' \in [Nodes -> JobRow] /\ job'[n].state = "running"
  BY <1>1, <1>3 DEF JobRow, JobState, LiveState
<1>5. node' \in [Nodes -> NodeState \cup {Absent}] /\ node'[n] = "running"
  BY <1>1, RunFacts DEF NodeState
<1>6. NodeMoves(n) /\ Held(n)' /\ HasLiveJob(n)'
  BY <1>1, <1>2, <1>4, <1>5 DEF NodeMoves, Held, HasLiveJob, LiveState, node_state_for, Absent
<1>7. RunGoesOn /\ LeaseFollowed(n)
  BY <1>1, <1>2, <1>3, <1>6 DEF RunGoesOn, LeaseFollowed
<1> QED
  BY <1>1, <1>2, <1>4, <1>6, <1>7, PlainMove

\* The expiry of a lease is a step at one Node.
LEMMA ExpireStep ==
    ASSUME RunInvariant, NEW n \in Nodes, expire_lease(n)
    PROVE  NodeStep(n)
<1>1. /\ Held(n) /\ job' = [job EXCEPT ![n].expired = TRUE]
      /\ UNCHANGED <<plan, run, node, scope, wait, child, reserved, clock, verdict>>
  BY DEF expire_lease
<1>2. /\ HasLiveJob(n) /\ n \in LiveNodes /\ node[n] = node_state_for(job[n].state)
      /\ node[n] \in {"ready", "running"} /\ job[n].state \in {"leased", "running"}
  BY <1>1, LiveJobs DEF Held, node_state_for
<1>3. job \in [Nodes -> JobRow] /\ run \in Runs /\ run.state # "waiting"
  BY <1>1, RunFacts, LeaseIsWork
<1>4. /\ job' \in [Nodes -> JobRow] /\ job'[n].state = job[n].state /\ job'[n].expired = TRUE
  BY <1>1, <1>3 DEF JobRow
<1>5. NodeMoves(n) /\ Held(n)' /\ HasLiveJob(n)'
  BY <1>1, <1>2, <1>4, RunFacts DEF NodeMoves, Held, HasLiveJob, LiveState, Absent
<1>6. RunGoesOn /\ LeaseFollowed(n)
  BY <1>1, <1>3, <1>5 DEF RunGoesOn, LeaseFollowed
<1> QED
  BY <1>1, <1>2, <1>3, <1>4, <1>5, <1>6, PlainMove

\* A Job that gives its lease up and stays alive.
LEMMA LeaseGivenUp ==
    ASSUME RunInvariant, NEW n \in Nodes, Held(n), run.state \in ActiveState,
           run' = [run EXCEPT !.active = @ - 1], reserved' = reserved - 1,
           NEW j \in JobRow, job' = [job EXCEPT ![n] = j],
           NEW s \in {"ready", "retry_scheduled"}, j.state = s, node' = [node EXCEPT ![n] = s],
           UNCHANGED <<plan, scope, wait, child, clock, verdict>>
    PROVE  NodeStep(n)
<1> DEFINE active == run.active - 1
<1>1. run' = [run EXCEPT !.active = active] /\ active \in Nat
  BY RunFacts, LeaseIsWork DEF Runs
<1> HIDE DEF active
<1>2. RunGoesOn /\ run'.active = active /\ run'.state = run.state
  BY <1>1, RunFacts DEF RunGoesOn, Runs
<1>3. /\ job' \in [Nodes -> JobRow] /\ job'[n].state = s
      /\ node' \in [Nodes -> NodeState \cup {Absent}] /\ node'[n] = s
  BY RunFacts DEF NodeState
<1>4. n \in LiveNodes /\ node[n] # "waiting"
  BY LiveJobs DEF Held, node_state_for
<1>5. NodeMoves(n) /\ ~Held(n)' /\ HasLiveJob(n)'
  BY <1>3, <1>4 DEF NodeMoves, Held, HasLiveJob, LiveState, node_state_for, Absent
<1>6. LeaseFollowed(n)
  BY <1>2, <1>5 DEF LeaseFollowed, active
<1> QED
  BY <1>2, <1>3, <1>4, <1>5, <1>6, LeaseIsWork, PlainMove

\* A worker that asks for a retry takes a step at one Node.
LEMMA RetryStep ==
    ASSUME RunInvariant, NEW n \in Nodes, yield_retry(n)
    PROVE  NodeStep(n)
<1>1. Fenced(n, "running", "running")
  BY DEF yield_retry
<1>2. Held(n) /\ run.state \in ActiveState
  BY <1>1, FenceFacts DEF ActiveState
<1>3. retried_job(n) \in JobRow /\ retried_job(n).state = "retry_scheduled"
  BY RunFacts DEF retried_job, ended_job, JobRow, JobState, LiveState
<1> QED
  BY <1>2, <1>3, LeaseGivenUp DEF yield_retry

\* The recovery of an expired lease is a step at one Node.
LEMMA RecoverStep ==
    ASSUME RunInvariant, NEW n \in Nodes, drive_expired_orchestration_jobs(n)
    PROVE  NodeStep(n)
<1>1. /\ Held(n) /\ run.state \in ActiveState
      /\ node[n] = IF job[n].state = "leased" THEN "ready" ELSE "running"
      /\ job' = [job EXCEPT ![n] = recovered_job(n)]
      /\ node' = [node EXCEPT ![n] = recovered_node(n)]
      /\ run' = [run EXCEPT !.active = @ - 1] /\ reserved' = reserved - 1
      /\ UNCHANGED <<plan, scope, wait, child, clock, verdict>>
  BY DEF drive_expired_orchestration_jobs, recovered_run, ActiveState
<1>2. recovered_job(n) \in JobRow
  BY RunFacts DEF recovered_job, retried_job, ended_job, JobRow, JobState, LiveState
<1>3. /\ recovered_node(n) \in {"ready", "retry_scheduled"}
      /\ recovered_job(n).state = recovered_node(n)
  BY <1>1, RunFacts DEF recovered_job, recovered_node, retried_job, ended_job, JobRow
<1> QED
  BY <1>1, <1>2, <1>3, LeaseGivenUp

\* A retry that comes due is a step at one Node.
LEMMA DueRetryStep ==
    ASSUME RunInvariant, NEW n \in Nodes, drive_due_orchestration_retries(n)
    PROVE  NodeStep(n)
<1>1. /\ job[n].state = "retry_scheduled" /\ node[n] = "retry_scheduled" /\ run.state = "running"
      /\ job' = [job EXCEPT ![n].state = "ready"] /\ node' = [node EXCEPT ![n] = "ready"]
      /\ UNCHANGED <<plan, run, scope, wait, child, reserved, clock, verdict>>
  BY DEF drive_due_orchestration_retries
<1>2. /\ job' \in [Nodes -> JobRow] /\ job'[n].state = "ready"
      /\ node' \in [Nodes -> NodeState \cup {Absent}] /\ node'[n] = "ready"
  BY <1>1, RunFacts DEF NodeState, JobRow, JobState, LiveState
<1>3. n \in LiveNodes
  BY <1>1, LiveJobs DEF HasLiveJob, LiveState
<1>4. NodeMoves(n) /\ ~Held(n)' /\ ~Held(n) /\ HasLiveJob(n)'
  BY <1>1, <1>2, <1>3 DEF NodeMoves, Held, HasLiveJob, LiveState, node_state_for, Absent
<1>5. RunGoesOn /\ LeaseFollowed(n)
  BY <1>1, <1>4, RunFacts DEF RunGoesOn, LeaseFollowed
<1> QED
  BY <1>1, <1>2, <1>4, <1>5, PlainMove

-----------------------------------------------------------------------------
(* The inductive step: waits and child Runs.                               *)

\* A running leg starts to wait: for a timer with its Job, for a person or a child without.
LEMMA WaitBegins ==
    ASSUME RunInvariant, NEW l \in Legs, Fenced(l, "running", "running"),
           run' = waiting_run, reserved' = reserved - 1,
           NEW j \in JobRow, job' = [job EXCEPT ![l] = j],
           node' = [node EXCEPT ![l] = "waiting"], wait' = [wait EXCEPT ![l] = "pending"],
           UNCHANGED <<plan, scope, clock, verdict>>,
           \/ plan.kind[l] = "timer" /\ j.state = "waiting" /\ UNCHANGED child
           \/ plan.kind[l] = "human" /\ j.state = "succeeded" /\ UNCHANGED child
           \/ /\ plan.kind[l] = "child" /\ j.state = "succeeded"
              /\ child' = [child EXCEPT ![l] = NewChild]
    PROVE  NodeStep(l)
<1> DEFINE active == run.active - 1
           state == IF run.active = 1 THEN "waiting" ELSE "running"
<1>1. l \in Nodes
  BY NodeNames
<1>2. /\ run.state = "running" /\ node[l] = "running" /\ l \in LiveNodes /\ Held(l)
      /\ clock # "due"
  BY <1>1, FenceFacts
<1>3. run' = [run EXCEPT !.state = state, !.active = active] /\ active \in Nat /\ run \in Runs
  BY <1>1, <1>2, RunFacts, LeaseIsWork DEF waiting_run, Runs
<1>4. state \in {"waiting", "running"}
  OBVIOUS
<1> HIDE DEF active, state
<1>5. RunGoesOn /\ run'.active = active /\ run'.state = state
  BY <1>2, <1>3, <1>4 DEF RunGoesOn, Runs, RunState, ActiveState
<1>6. /\ job' \in [Nodes -> JobRow] /\ job'[l] = j
      /\ node' \in [Nodes -> NodeState \cup {Absent}] /\ node'[l] = "waiting"
      /\ wait' \in [Legs -> WaitState] /\ wait'[l] = "pending"
  BY <1>1, RunFacts DEF NodeState, WaitState
<1>7. NodeMoves(l) /\ ~Held(l)'
  BY <1>1, <1>2, <1>6 DEF NodeMoves, Held, HasLiveJob, LiveState, node_state_for, Absent
<1>8. LeaseFollowed(l)
  BY <1>2, <1>5, <1>7 DEF LeaseFollowed, active
<1>9. WaitMoves(l)
  <2>1. ~OpenWait(l) /\ ~OpenChild(l)
    BY <1>2 DEF RunInvariant, WaitPart
  <2>2. NewChild \in ChildRow /\ NewChild.state = "active"
    BY DEF NewChild, NoChild, ChildRow
  <2>3. child' \in [Legs -> ChildRow]
    BY <2>2, RunFacts
  <2>4. child'[l] = IF plan.kind[l] = "child" THEN NewChild ELSE child[l]
    BY RunFacts
  <2>5. OpenChild(l)' => plan.kind[l] = "child"
    BY <2>1, <2>4 DEF OpenChild
  <2> QED
    BY <1>6, <2>2, <2>3, <2>4, <2>5 DEF WaitMoves, OpenWait, Absent
<1>10. WorkIsKept(l)
  <2>1. HasLiveJob(l)' \/ l \in (PendingTasks \cup OpenLinks)'
    BY <1>1, <1>6 DEF HasLiveJob, LiveState, PendingTasks, OpenLinks
  <2>2. run'.state = "waiting" => run'.active = 0
    BY <1>3, <1>5 DEF state, active
  <2>3. run'.state \in ActiveState
    BY <1>4, <1>5 DEF ActiveState
  <2> QED
    BY <1>6, <2>1, <2>2, <2>3 DEF WorkIsKept
<1> QED
  BY <1>5, <1>7, <1>8, <1>9, <1>10 DEF NodeStep

\* A leg that begins to wait, whatever for, takes a step at its Node.
LEMMA WaitStep ==
    ASSUME RunInvariant, NEW l \in Legs,
           \/ yield_wait(l) \/ defer_orchestration_to_task(l)
           \/ defer_orchestration_to_child_run(l)
    PROVE  NodeStep(l)
<1>1. /\ ended_job(l, "waiting") \in JobRow /\ ended_job(l, "waiting").state = "waiting"
      /\ ended_job(l, "succeeded") \in JobRow /\ ended_job(l, "succeeded").state = "succeeded"
  <2>1. job[l] \in JobRow
    BY NodeNames, RunFacts
  <2> QED
    BY <2>1 DEF ended_job, JobRow, JobState, LiveState, TerminalState
<1>2. CASE yield_wait(l)
  BY <1>1, <1>2, WaitBegins DEF yield_wait
<1>3. CASE defer_orchestration_to_task(l)
  BY <1>1, <1>3, WaitBegins DEF defer_orchestration_to_task
<1>4. CASE defer_orchestration_to_child_run(l)
  BY <1>1, <1>4, WaitBegins DEF defer_orchestration_to_child_run
<1> QED
  BY <1>2, <1>3, <1>4

\* A waiting leg goes on, with a ready Job and its wait resolved, and the Run with it.
LEMMA WaitEnds ==
    ASSUME RunInvariant, NEW l \in Legs, node[l] = "waiting", ~OpenChild(l),
           run.state \in {"waiting", "running"}, run' = woken_run, UNCHANGED reserved,
           NEW j \in JobRow, j.state = "ready", job' = [job EXCEPT ![l] = j],
           node' = [node EXCEPT ![l] = "ready"],
           NEW outcome \in {"succeeded", "failed"}, wait' = [wait EXCEPT ![l] = outcome],
           UNCHANGED <<plan, scope, child, clock, verdict>>
    PROVE  NodeStep(l)
<1>1. l \in Nodes /\ l \in LiveNodes /\ ~Held(l)
  BY NodeNames, LiveJobs DEF Held, node_state_for, Absent, TerminalState
<1>2. RunGoesOn /\ run'.active = run.active /\ run'.state = "running"
  BY RunFacts DEF RunGoesOn, woken_run, Runs, RunState, ActiveState
<1>3. /\ job' \in [Nodes -> JobRow] /\ job'[l] = j
      /\ node' \in [Nodes -> NodeState \cup {Absent}] /\ node'[l] = "ready"
      /\ wait' \in [Legs -> WaitState] /\ wait'[l] = outcome
  BY <1>1, RunFacts DEF NodeState, WaitState
<1>4. NodeMoves(l) /\ ~Held(l)' /\ HasLiveJob(l)'
  BY <1>1, <1>3 DEF NodeMoves, Held, HasLiveJob, LiveState, node_state_for, Absent
<1>5. LeaseFollowed(l)
  BY <1>1, <1>2, <1>4 DEF LeaseFollowed
<1>6. WaitMoves(l)
  BY <1>3, RunFacts DEF WaitMoves, OpenWait, OpenChild
<1>7. WorkIsKept(l)
  BY <1>2, <1>4 DEF WorkIsKept, ActiveState
<1> QED
  BY <1>2, <1>4, <1>5, <1>6, <1>7 DEF NodeStep

\* A new Job is ready.
LEMMA NewJobs ==
    ASSUME RunInvariant
    PROVE  NewJob \in JobRow /\ NewJob.state = "ready"
<1>1. 0 \in 0 .. plan.attempts
  BY RunFacts, PlanFacts
<1>2. NoJob \in JobRow
  BY <1>1 DEF NoJob, JobRow
<1> QED
  BY <1>2 DEF NewJob, JobRow, JobState, LiveState

\* A wake or an answer is a step at the Node that waited.
LEMMA WakeStep ==
    ASSUME RunInvariant, NEW l \in Legs, NEW outcome \in {"succeeded", "failed"},
           wake_orchestration_job(l, outcome) \/ resolve_task(l, outcome)
    PROVE  NodeStep(l)
<1>1. CASE wake_orchestration_job(l, outcome)
  <2> DEFINE j == [job[l] EXCEPT !.state = "ready"]
  <2>1. /\ j \in JobRow /\ j.state = "ready" /\ job' = [job EXCEPT ![l] = j]
    BY <1>1, NodeNames, RunFacts DEF wake_orchestration_job, JobRow, JobState, LiveState
  <2> HIDE DEF j
  <2>2. ~OpenChild(l)
    BY <1>1 DEF wake_orchestration_job, RunInvariant, WaitPart
  <2> QED
    BY <1>1, <2>1, <2>2, WaitEnds DEF wake_orchestration_job
<1>2. CASE resolve_task(l, outcome)
  <2>1. ~OpenChild(l)
    BY <1>2 DEF resolve_task, RunInvariant, WaitPart
  <2> QED
    BY <1>2, <2>1, NewJobs, WaitEnds DEF resolve_task
<1> QED
  BY <1>1, <1>2

\* The settlement of a child's end is a step at the Node that called it.
LEMMA ChildSettledStep ==
    ASSUME RunInvariant, NEW l \in Legs, settle_terminal_child_run(l)
    PROVE  NodeStep(l)
<1> DEFINE outcome == IF child[l].state = "succeeded" THEN "succeeded" ELSE "failed"
<1>1. /\ node[l] = "waiting" /\ child[l].state \in TerminalState
      /\ run.state \in {"waiting", "running"}
      /\ wait' = [wait EXCEPT ![l] = outcome] /\ outcome \in {"succeeded", "failed"}
  BY DEF settle_terminal_child_run, terminal_child, converging
<1> HIDE DEF outcome
<1>2. ~OpenChild(l)
  BY <1>1 DEF OpenChild, TerminalState
<1> QED
  BY <1>1, <1>2, NewJobs, WaitEnds DEF settle_terminal_child_run

\* The link of a converging Run ends with its child; the Node is left to convergence.
LEMMA ChildMutedStep ==
    ASSUME RunInvariant, NEW l \in Legs, mutate_terminal_child_run(l)
    PROVE  NodeStep(l)
<1> DEFINE j == [NewJob EXCEPT !.state = "cancelling"]
<1>1. /\ node[l] = "waiting" /\ child[l].state \in TerminalState
      /\ run.state \in {"waiting", "running", "cancelling"}
      /\ job' = [job EXCEPT ![l] = j] /\ node' = [node EXCEPT ![l] = "cancelling"]
      /\ wait' = [wait EXCEPT ![l] = "cancelled"]
      /\ run' = [run EXCEPT !.state = "cancelling"]
      /\ UNCHANGED <<plan, scope, child, reserved, clock, verdict>>
  BY DEF mutate_terminal_child_run, terminal_child
<1>2. j \in JobRow /\ j.state = "cancelling"
  BY NewJobs DEF JobRow, JobState, LiveState
<1> HIDE DEF j
<1>3. l \in Nodes /\ l \in LiveNodes /\ ~Held(l) /\ ~OpenChild(l)
  BY <1>1, NodeNames, LiveJobs DEF Held, node_state_for, Absent, TerminalState, OpenChild
<1>4. RunGoesOn /\ run'.active = run.active /\ run'.state = "cancelling"
  BY <1>1, RunFacts DEF RunGoesOn, Runs, RunState, ActiveState
<1>5. /\ job' \in [Nodes -> JobRow] /\ job'[l] = j
      /\ node' \in [Nodes -> NodeState \cup {Absent}] /\ node'[l] = "cancelling"
      /\ wait' \in [Legs -> WaitState] /\ wait'[l] = "cancelled"
  BY <1>1, <1>2, <1>3, RunFacts DEF NodeState, WaitState
<1>6. NodeMoves(l) /\ ~Held(l)'
  BY <1>1, <1>2, <1>3, <1>5 DEF NodeMoves, Held, node_state_for, Absent
<1>7. LeaseFollowed(l)
  BY <1>1, <1>3, <1>4, <1>6 DEF LeaseFollowed
<1>8. WaitMoves(l) /\ ~OpenWait(l)' /\ ~OpenChild(l)'
  BY <1>1, <1>2, <1>3, <1>5, RunFacts DEF WaitMoves, OpenWait, OpenChild
<1>9. WorkIsKept(l)
  BY <1>4, <1>6, <1>8 DEF WorkIsKept, ActiveState
<1> QED
  BY <1>4, <1>6, <1>7, <1>8, <1>9 DEF NodeStep

-----------------------------------------------------------------------------
(* The inductive step: convergence, one Node at a time.                    *)

\* What a condemned Run gives its members as their end.
LEMMA GoalFacts ==
    ASSUME Condemned, Observed
    PROVE  /\ run.state = "cancelling" /\ goal \in {"timed_out", "cancelled", "failed"}
           /\ \A x \in BOOLEAN : member_state(x) \in {"timed_out", "cancelled", "failed"}
           /\ scope_state \in {"cancelled", "failed"}
BY DEF Condemned, Observed, goal, member_state, scope_state

\* A Node of a cancelling Run ends: nothing is open at it afterwards.
LEMMA NodeConverges ==
    ASSUME RunInvariant, NEW n \in Nodes, n \in LiveNodes, run.state = "cancelling",
           RunGoesOn, run'.state = "cancelling", LeaseFollowed(n),
           job' \in [Nodes -> JobRow], \A m \in Nodes \ {n} : job'[m] = job[m],
           ~HasLiveJob(n)', ~Held(n)',
           NEW s \in {"timed_out", "cancelled", "failed"}, node' = [node EXCEPT ![n] = s],
           wait' \in [Legs -> WaitState], \A l \in Legs \ {n} : wait'[l] = wait[l],
           n \in Legs => ~OpenWait(n)' /\ ~OpenChild(n),
           UNCHANGED <<plan, scope, child, clock, verdict>>
    PROVE  NodeStep(n)
<1>1. node' \in [Nodes -> NodeState \cup {Absent}] /\ node'[n] = s
  BY RunFacts DEF NodeState, TerminalState
<1>2. NodeMoves(n)
  BY <1>1 DEF NodeMoves, Absent
<1>3. WaitMoves(n)
  <2>1. job'[n].state # "waiting"
    BY DEF HasLiveJob, LiveState
  <2>2. n \in Legs => /\ ~OpenChild(n)' /\ wait'[n] \notin {"pending", "cancelling"}
    BY DEF OpenChild, OpenWait
  <2> QED
    BY <2>1, <2>2, RunFacts DEF WaitMoves
<1>4. WorkIsKept(n)
  BY DEF WorkIsKept, ActiveState, OpenChild
<1> QED
  BY <1>2, <1>3, <1>4 DEF NodeStep

\* Convergence of a Node with its Job is a step at that Node.
LEMMA JobConvergesStep ==
    ASSUME RunInvariant, NEW n \in Nodes, converge_job_node(n)
    PROVE  NodeStep(n)
<1> DEFINE s == member_state(exhausted(n))
           active == IF Held(n) THEN run.active - 1 ELSE run.active
<1>1. /\ Condemned /\ Observed /\ HasLiveJob(n) /\ node[n] = node_state_for(job[n].state)
      /\ job' = [job EXCEPT ![n] = ended_job(n, s)]
      /\ node' = [node EXCEPT ![n] = s]
      /\ wait' = [l \in Legs |-> IF l = n /\ wait[l] = "pending" THEN "cancelled" ELSE wait[l]]
      /\ run' = [run EXCEPT !.active = active]
      /\ reserved' = IF Held(n) THEN reserved - 1 ELSE reserved
      /\ UNCHANGED <<plan, scope, child, clock, verdict>>
  BY RunFacts DEF converge_job_node, converged_run, Runs
<1>2. run.state = "cancelling" /\ s \in {"timed_out", "cancelled", "failed"}
  <2>1. exhausted(n) \in BOOLEAN
    BY RunFacts DEF exhausted, JobRow
  <2> QED
    BY <1>1, <2>1, GoalFacts
<1>3. ended_job(n, s) \in JobRow /\ ended_job(n, s).state = s
  BY <1>2, RunFacts DEF ended_job, JobRow, JobState, TerminalState
<1>4. active \in Nat
  BY RunFacts, LeaseIsWork
<1>5. RunGoesOn /\ run'.state = "cancelling" /\ run'.active = active
  BY <1>1, <1>2, <1>4, RunFacts DEF RunGoesOn, Runs
<1> HIDE DEF s
<1>6. /\ job' \in [Nodes -> JobRow] /\ job'[n].state = s
      /\ \A m \in Nodes \ {n} : job'[m] = job[m]
  BY <1>1, <1>3, RunFacts
<1>7. ~HasLiveJob(n)' /\ ~Held(n)'
  BY <1>2, <1>6 DEF HasLiveJob, LiveState, Held
<1>8. LeaseFollowed(n)
  BY <1>1, <1>5, <1>7 DEF LeaseFollowed
<1>9. n \in Legs => ~OpenWait(n)' /\ ~OpenChild(n)
  <2> SUFFICES ASSUME n \in Legs
               PROVE  ~OpenWait(n)' /\ ~OpenChild(n)
    OBVIOUS
  <2>1. node[n] = "waiting" => job[n].state = "waiting"
    BY <1>1 DEF node_state_for
  <2>2. OpenWait(n) => plan.kind[n] = "timer"
    BY <2>1 DEF RunInvariant, WaitPart
  <2>3. wait[n] # "cancelling" /\ ~OpenChild(n)
    BY <2>2 DEF RunInvariant, WaitPart, OpenWait
  <2>4. wait'[n] = IF wait[n] = "pending" THEN "cancelled" ELSE wait[n]
    BY <1>1
  <2> QED
    BY <2>3, <2>4 DEF OpenWait
<1>10. wait' \in [Legs -> WaitState] /\ \A l \in Legs \ {n} : wait'[l] = wait[l]
  BY <1>1, RunFacts DEF WaitState
<1>11. n \in LiveNodes
  BY <1>1, LiveJobs
<1> QED
  BY <1>1, <1>2, <1>5, <1>6, <1>7, <1>8, <1>9, <1>10, <1>11, NodeConverges

\* Convergence of a Node without a Job is a step at that Node.
LEMMA NodeConvergesStep ==
    ASSUME RunInvariant, NEW n \in Nodes, converge_node(n)
    PROVE  NodeStep(n)
<1> DEFINE s == member_state(FALSE)
<1>1. /\ Condemned /\ Observed /\ PendingTasks = {} /\ NoLiveJobs
      /\ n \in LiveNodes /\ n \notin OpenLinks
      /\ node' = [node EXCEPT ![n] = s]
      /\ UNCHANGED <<plan, run, scope, job, wait, child, reserved, clock, verdict>>
  BY DEF converge_node
<1>2. run.state = "cancelling" /\ s \in {"timed_out", "cancelled", "failed"}
  <2>1. FALSE \in BOOLEAN
    OBVIOUS
  <2> QED
    BY <1>1, <2>1, GoalFacts, Zenon
<1> HIDE DEF s
<1>3. ~HasLiveJob(n) /\ ~HasLiveJob(n)' /\ ~Held(n) /\ ~Held(n)'
  BY <1>1, LiveJobs DEF NoLiveJobs, HasLiveJob, Held
<1>4. RunGoesOn /\ run'.state = "cancelling" /\ LeaseFollowed(n)
  BY <1>1, <1>2, <1>3, RunFacts DEF RunGoesOn, LeaseFollowed
<1>5. n \in Legs => ~OpenWait(n)' /\ ~OpenChild(n)
  <2> SUFFICES ASSUME n \in Legs
               PROVE  ~OpenWait(n) /\ ~OpenChild(n)
    BY <1>1 DEF OpenWait
  <2>1. job[n].state # "waiting"
    BY <1>3 DEF HasLiveJob, LiveState
  <2>2. plan.kind[n] \in {"human", "child"} => ~OpenWait(n)
    BY <1>1 DEF RunInvariant, WaitPart, OpenWait, PendingTasks, OpenLinks
  <2> QED
    BY <2>1, <2>2 DEF RunInvariant, WaitPart
<1> QED
  BY <1>1, <1>2, <1>3, <1>4, <1>5, RunFacts, NodeConverges

-----------------------------------------------------------------------------
(* The inductive step: rows that stand while the Run is controlled, time   *)
(* passes, or a child Run, a link or a Task moves.                         *)

\* A step that ends no member, such as a control, keeps the invariant.
LEMMA RowsStand ==
    ASSUME RunInvariant, UNCHANGED <<plan, node, scope, verdict, reserved>>,
           run' \in Runs, run'.active = run.active,
           \/ run'.state = run.state
           \/ run.state \in ActiveState /\ run'.state = "cancelling",
           run.state \in TerminalState => run'.cancel = run.cancel /\ run'.timeout = run.timeout,
           job' \in [Nodes -> JobRow], \A n \in Nodes : job'[n].state = job[n].state,
           clock' \in {"early", "late", "due"},
           wait' \in [Legs -> WaitState], child' \in [Legs -> ChildRow],
           run'.state \in ActiveState => wait' = wait,
           WaitPart', ControlPart'
    PROVE  RunInvariant'
<1>1. \A n \in Nodes : /\ Held(n)' <=> Held(n)
                       /\ HasLiveJob(n)' <=> HasLiveJob(n)
                       /\ Ended(n)' <=> Ended(n)
  BY DEF Held, HasLiveJob, Ended
<1>2. HeldSet' = HeldSet /\ LiveNodes' = LiveNodes
  BY <1>1 DEF HeldSet, LiveNodes, Nodes
<1>3. TypeOK'
  <2>1. job' \in [Nodes -> JobRow']
    BY DEF JobRow
  <2> QED
    BY <2>1, RunFacts DEF TypeOK, Runs, JobRow, WaitState, ChildRow
<1>4. PermitsMatchLeases'
  BY <1>2, RunFacts DEF PermitsMatchLeases, HeldSet
<1>5. ScopesCloseInsideOut'
  BY <1>1, <1>2 DEF RunInvariant, ScopesCloseInsideOut, ScopeOf, node_state_for
<1>6. OutcomeMatchesControl'
  <2>1. run'.state \in TerminalState => run'.state = run.state
    BY DEF TerminalState
  <2> QED
    BY <2>1 DEF RunInvariant, OutcomeMatchesControl, TerminalState
<1>7. VerdictStands'
  <2>1. decide_join(LegScopes)' = decide_join(LegScopes)
    BY DEF LegScopes, decide_join
  <2> QED
    BY <1>1, <2>1, NodeNames DEF RunInvariant, VerdictStands, LegsOf
<1>8. PlanOrder'
  BY DEF RunInvariant, PlanOrder, LegsOf
<1>9. ActivePart'
  <2> SUFFICES ASSUME run'.state \in ActiveState
               PROVE  ActivePart'
    BY DEF ActivePart
  <2>1. run.state \in ActiveState /\ wait' = wait
    BY DEF ActiveState
  <2>2. PendingTasks' = PendingTasks /\ OpenLinks' = OpenLinks
    BY <2>1 DEF PendingTasks, OpenLinks
  <2> QED
    BY <1>1, <1>2, <2>1, <2>2 DEF RunInvariant, ActivePart, LiveNodes
<1>10. WaitingPart'
  <2> SUFFICES ASSUME run'.state = "waiting"
               PROVE  run'.active = 0 /\ \E l \in Legs : wait'[l] = "pending" /\ node'[l] = "waiting"
    BY DEF WaitingPart
  <2>1. run.state = "waiting" /\ wait' = wait
    BY DEF ActiveState
  <2> QED
    BY <2>1 DEF RunInvariant, WaitingPart
<1>11. EndedPart'
  <2>1. run'.state \in TerminalState => run.state \in TerminalState
    BY DEF TerminalState
  <2> QED
    BY <1>2, <2>1 DEF RunInvariant, EndedPart
<1> QED
  BY <1>3, <1>4, <1>5, <1>6, <1>7, <1>8, <1>9, <1>10, <1>11 DEF RunInvariant

\* Pause, cancel, the recorded timeout, and a recorded goal.
LEMMA ControlKeeps ==
    ASSUME RunInvariant, pause_run \/ cancel_run \/ observe_timeout \/ converge_control
    PROVE  RunInvariant'
<1>1. UNCHANGED <<plan, node, scope, job, wait, child, reserved, clock, verdict>>
  BY DEF pause_run, cancel_run, observe_timeout, converge_control
<1>2. /\ run' \in Runs /\ run'.active = run.active /\ run.state \notin TerminalState
      /\ \/ run'.state = run.state
         \/ run.state \in ActiveState /\ run'.state = "cancelling"
      /\ run'.cancel => run.cancel \/ run'.state = "cancelling"
      /\ run'.timeout => clock = "due"
  <2>1. run \in Runs /\ run.state \in RunState
    BY RunFacts DEF Runs
  <2>2. run.timeout => clock = "due"
    BY DEF RunInvariant, ControlPart
  <2>3. CASE pause_run
    BY <2>1, <2>2, <2>3 DEF pause_run, Runs, ActiveState, TerminalState
  <2>4. CASE cancel_run
    BY <2>1, <2>2, <2>4 DEF cancel_run, Runs, RunState, ActiveState, TerminalState
  <2>5. CASE observe_timeout
    BY <2>1, <2>2, <2>5 DEF observe_timeout, Runs
  <2>6. CASE converge_control
    <3> DEFINE timeout == (goal = "timed_out")
               failure == (run.failure \/ goal = "failed")
    <3>1. /\ run.state \notin TerminalState
          /\ run' = [run EXCEPT !.state = "cancelling", !.timeout = timeout, !.failure = failure]
      BY <2>1, <2>6 DEF converge_control, Condemned, Runs
    <3>2. timeout \in BOOLEAN /\ failure \in BOOLEAN /\ (timeout => clock = "due")
      BY <2>2 DEF goal
    <3> HIDE DEF timeout, failure
    <3> QED
      BY <2>1, <3>1, <3>2 DEF Runs, RunState, ActiveState
  <2> QED
    BY <2>3, <2>4, <2>5, <2>6
<1>3. WaitPart'
  BY <1>1 DEF RunInvariant, WaitPart, OpenWait, OpenChild
<1>4. ControlPart'
  <2>1. run'.cancel => run'.state \notin ActiveState
    BY <1>2 DEF RunInvariant, ControlPart, ActiveState
  <2> QED
    BY <1>1, <1>2, <2>1 DEF RunInvariant, ControlPart, Held
<1> QED
  BY <1>1, <1>2, <1>3, <1>4, RunFacts, RowsStand

\* At the deadline every lease runs out.
LEMMA TickKeeps ==
    ASSUME RunInvariant, tick
    PROVE  RunInvariant'
<1>1. /\ UNCHANGED <<plan, run, node, scope, wait, child, reserved, verdict>>
      /\ clock' = IF clock = "early" THEN "late" ELSE "due"
      /\ clock # "due"
      /\ job' = [n \in Nodes |-> [job[n] EXCEPT !.expired = IF clock = "late" THEN Held(n) ELSE @]]
  BY DEF tick
<1>2. \A n \in Nodes : Held(n) \in BOOLEAN
  BY DEF Held
<1>3. /\ job' \in [Nodes -> JobRow]
      /\ \A n \in Nodes : /\ job'[n].state = job[n].state
                          /\ clock = "late" => (job'[n].expired <=> Held(n))
  BY <1>1, <1>2, RunFacts DEF JobRow
<1>4. clock' \in {"early", "late", "due"} /\ (clock' = "due" => clock = "late")
  BY <1>1, RunFacts
<1>5. WaitPart'
  BY <1>1, <1>3, NodeNames DEF RunInvariant, WaitPart, OpenWait, OpenChild
<1>6. ControlPart'
  <2>1. \A n \in Nodes : Held(n)' <=> Held(n)
    BY <1>3 DEF Held
  <2>2. ~run.timeout
    BY <1>1 DEF RunInvariant, ControlPart
  <2> QED
    BY <1>1, <1>3, <1>4, <2>1, <2>2 DEF RunInvariant, ControlPart
<1> QED
  BY <1>1, <1>3, <1>4, <1>5, <1>6, RunFacts, RowsStand

\* Steps of a child Run alone: it stays open only if it was.
LEMMA ChildAlone ==
    ASSUME RunInvariant, NEW l \in Legs,
           \/ \E outcome \in {"succeeded", "failed"} : child_returns(l, outcome)
           \/ \E intent \in {"cancel", "timeout", "failure"} : condemn_child(l, intent)
           \/ converge_child(l)
    PROVE  /\ UNCHANGED <<plan, run, node, scope, job, wait, reserved, clock, verdict>>
           /\ OpenChild(l)
           /\ child' \in [Legs -> ChildRow] /\ \A m \in Legs \ {l} : child'[m] = child[m]
           /\ child'[l].state # Absent
<1>1. child \in [Legs -> ChildRow]
  BY RunFacts
<1>2. CASE \E outcome \in {"succeeded", "failed"} : child_returns(l, outcome)
  BY <1>1, <1>2 DEF child_returns, ChildRow, OpenChild, TerminalState, Absent
<1>3. CASE \E intent \in {"cancel", "timeout", "failure"} : condemn_child(l, intent)
  <2>1. PICK intent \in {"cancel", "timeout", "failure"} : condemn_child(l, intent)
    BY <1>3
  <2>2. PICK state \in {"active", "cancelling"} :
          child' = [child EXCEPT ![l] = [state |-> state, intent |-> intent]]
    BY <2>1 DEF condemn_child
  <2>3. [state |-> state, intent |-> intent] \in ChildRow
    BY DEF ChildRow
  <2> QED
    BY <1>1, <2>1, <2>2, <2>3 DEF condemn_child, OpenChild, Absent
<1>4. CASE converge_child(l)
  <2>1. PICK state \in child_goals(l) : child' = [child EXCEPT ![l].state = state]
    BY <1>4 DEF converge_child
  <2>2. state \in {"timed_out", "cancelled", "failed"}
    BY <2>1 DEF child_goals
  <2> QED
    BY <1>1, <1>4, <2>1, <2>2 DEF converge_child, ChildRow, OpenChild, TerminalState, Absent
<1> QED
  BY <1>2, <1>3, <1>4

\* What a child Run does by itself keeps the invariant of its parent.
LEMMA ChildKeeps ==
    ASSUME RunInvariant, NEW l \in Legs,
           \/ \E outcome \in {"succeeded", "failed"} : child_returns(l, outcome)
           \/ \E intent \in {"cancel", "timeout", "failure"} : condemn_child(l, intent)
           \/ converge_child(l)
    PROVE  RunInvariant'
<1>1. /\ UNCHANGED <<plan, run, node, scope, job, wait, reserved, clock, verdict>>
      /\ OpenChild(l)
      /\ child' \in [Legs -> ChildRow] /\ \A m \in Legs \ {l} : child'[m] = child[m]
      /\ child'[l].state # Absent
  BY ChildAlone
<1>2. WaitPart'
  BY <1>1 DEF RunInvariant, WaitPart, OpenWait, OpenChild
<1>3. ControlPart'
  BY <1>1 DEF RunInvariant, ControlPart, Held
<1> QED
  BY <1>1, <1>2, <1>3, RunFacts, RowsStand

\* The Run's end reaches a child: the link stays open.
LEMMA ChildCancellationKeeps ==
    ASSUME RunInvariant, NEW l \in Legs, drive_child_run_cancellations(l)
    PROVE  RunInvariant'
<1> DEFINE c == [state |-> "cancelling", intent |-> propagated(l)]
<1>1. /\ UNCHANGED <<plan, run, node, scope, job, reserved, clock, verdict>>
      /\ plan.kind[l] = "child" /\ wait[l] = "pending" /\ run.state = "cancelling"
      /\ child[l].state \notin TerminalState
      /\ child' = [child EXCEPT ![l] = c] /\ wait' = [wait EXCEPT ![l] = "cancelling"]
  BY DEF drive_child_run_cancellations
<1>2. c \in ChildRow /\ c.state = "cancelling"
  BY RunFacts DEF propagated, ChildRow
<1> HIDE DEF c
<1>3. /\ wait' \in [Legs -> WaitState] /\ wait'[l] = "cancelling"
      /\ child' \in [Legs -> ChildRow] /\ child'[l] = c
      /\ \A m \in Legs \ {l} : wait'[m] = wait[m] /\ child'[m] = child[m]
  BY <1>1, <1>2, RunFacts DEF WaitState
<1>4. WaitPart'
  BY <1>1, <1>2, <1>3 DEF RunInvariant, WaitPart, OpenWait, OpenChild
<1>5. ControlPart'
  BY <1>1 DEF RunInvariant, ControlPart, Held
<1> QED
  BY <1>1, <1>3, <1>4, <1>5, RunFacts, RowsStand DEF ActiveState

\* A Task of a condemned Run is cancelled.
LEMMA TaskConvergesKeeps ==
    ASSUME RunInvariant, NEW l \in Legs, converge_task(l)
    PROVE  RunInvariant'
<1>1. /\ UNCHANGED <<plan, run, node, scope, job, child, reserved, clock, verdict>>
      /\ plan.kind[l] = "human" /\ run.state = "cancelling"
      /\ wait' = [wait EXCEPT ![l] = "cancelled"]
  BY DEF converge_task, PendingTasks, Observed
<1>2. wait' \in [Legs -> WaitState] /\ wait'[l] = "cancelled"
      /\ \A m \in Legs \ {l} : wait'[m] = wait[m]
  BY <1>1, RunFacts DEF WaitState
<1>3. WaitPart'
  BY <1>1, <1>2 DEF RunInvariant, WaitPart, OpenWait, OpenChild
<1>4. ControlPart'
  BY <1>1 DEF RunInvariant, ControlPart, Held
<1> QED
  BY <1>1, <1>2, <1>3, <1>4, RunFacts, RowsStand DEF ActiveState

-----------------------------------------------------------------------------
(* The Join's decision.                                                    *)

Succeeded(children) == {l \in Legs : children[l] = "succeeded"}
Opened(children) == {l \in Legs : children[l] = "open"}

\* The legs a Join looks at can be counted.
LEMMA LegsCounted ==
    ASSUME NEW children
    PROVE  /\ IsFiniteSet(Succeeded(children)) /\ IsFiniteSet(Opened(children))
           /\ Cardinality(Succeeded(children)) \in Nat /\ Cardinality(Opened(children)) \in Nat
           /\ Cardinality(Opened(children)) = 0 <=> Opened(children) = {}
<1>1. Succeeded(children) \in SUBSET Legs /\ Opened(children) \in SUBSET Legs
  BY DEF Succeeded, Opened
<1>2. IsFiniteSet(Succeeded(children)) /\ IsFiniteSet(Opened(children))
  BY <1>1, StructuredRunAssumption, FS_Subset
<1> QED
  BY <1>2, FS_CardinalityType, FS_EmptySet

\* What the decision says of the leg Scopes, policy by policy.
LEMMA JoinDecides ==
    ASSUME plan \in Plans, NEW children
    PROVE  /\ plan.policy = "all_success" =>
                 decide_join(children) =
                     IF \E l \in Legs : children[l] \in {"failed", "cancelled"} THEN "fail"
                     ELSE IF Opened(children) = {} THEN "complete" ELSE "wait"
           /\ plan.policy = "all_settled" =>
                 decide_join(children) = IF Opened(children) = {} THEN "complete" ELSE "wait"
           /\ plan.policy = "quorum" =>
                 decide_join(children) =
                     IF Cardinality(Succeeded(children)) >= plan.quorum THEN "complete"
                     ELSE IF Cardinality(Succeeded(children)) + Cardinality(Opened(children))
                               < plan.quorum THEN "fail" ELSE "wait"
           /\ plan.policy \in {"all_success", "all_settled", "quorum"}
           /\ decide_join(children) \in {"complete", "fail", "wait"}
           /\ plan.remainder # "none" <=> plan.policy = "quorum"
<1>1. plan.policy \in {"all_success", "all_settled", "quorum"}
  BY PlanFacts DEF JoinPolicy
<1>2. plan.remainder # "none" <=> plan.policy = "quorum"
  BY PlanFacts DEF valid_plan
<1>3. Cardinality(Opened(children)) = 0 <=> Opened(children) = {}
  BY LegsCounted
<1>4. CASE plan.policy = "all_success"
  BY <1>2, <1>3, <1>4 DEF decide_join, Opened
<1>5. CASE plan.policy = "all_settled"
  BY <1>2, <1>3, <1>5 DEF decide_join, Opened
<1>6. CASE plan.policy = "quorum"
  BY <1>2, <1>6 DEF decide_join, Opened, Succeeded
<1> QED
  BY <1>1, <1>4, <1>5, <1>6

\* An undecided Join has an open leg.
LEMMA UndecidedHasOpenLeg ==
    ASSUME plan \in Plans, NEW children, decide_join(children) = "wait"
    PROVE  \E l \in Legs : children[l] = "open"
<1>1. Opened(children) # {}
  <2>1. CASE plan.policy \in {"all_success", "all_settled"}
    BY <2>1, JoinDecides
  <2>2. CASE plan.policy = "quorum"
    <3>1. Cardinality(Opened(children)) # 0
      BY <2>2, JoinDecides, LegsCounted, PlanFacts
    <3> QED
      BY <3>1, LegsCounted
  <2> QED
    BY <2>1, <2>2, JoinDecides
<1> QED
  BY <1>1 DEF Opened

\* A Join that completes without a remainder policy has no open leg.
LEMMA CompleteHasNoOpenLeg ==
    ASSUME plan \in Plans, NEW children, decide_join(children) = "complete",
           plan.remainder \notin {"cancel", "drain"}
    PROVE  \A l \in Legs : children[l] # "open"
<1>1. plan.policy \in {"all_success", "all_settled"}
  BY JoinDecides, PlanFacts DEF Remainder
<1>2. Opened(children) = {}
  BY <1>1, JoinDecides
<1> QED
  BY <1>2 DEF Opened

\* A decision stands when the legs that are still open are cancelled.
LEMMA CancelledRemainderStands ==
    ASSUME plan \in Plans, NEW before, NEW after,
           \A l \in Legs : after[l] = IF before[l] = "open" THEN "cancelled" ELSE before[l],
           \/ decide_join(before) = "fail"
           \/ decide_join(before) = "complete" /\ plan.remainder = "cancel"
    PROVE  decide_join(after) = decide_join(before)
<1>1. Succeeded(after) = Succeeded(before) /\ Opened(after) = {}
  BY DEF Succeeded, Opened
<1>2. CASE plan.policy = "all_success"
  <2>1. \E l \in Legs : before[l] \in {"failed", "cancelled"}
    BY <1>2, JoinDecides
  <2>2. \E l \in Legs : after[l] \in {"failed", "cancelled"}
    BY <2>1
  <2> QED
    BY <1>2, <2>1, <2>2, JoinDecides
<1>3. CASE plan.policy = "all_settled"
  BY <1>3, JoinDecides
<1>4. CASE plan.policy = "quorum"
  <2>1. Cardinality(Opened(after)) = 0 /\ Cardinality(Succeeded(before)) \in Nat
        /\ Cardinality(Opened(before)) \in Nat /\ plan.quorum \in Nat
    BY <1>1, LegsCounted, PlanFacts
  <2> QED
    BY <1>1, <1>4, <2>1, JoinDecides
<1> QED
  BY <1>2, <1>3, <1>4, JoinDecides

\* A quorum that was reached stays reached.
LEMMA QuorumStands ==
    ASSUME plan \in Plans, NEW before, NEW after, plan.policy = "quorum",
           decide_join(before) = "complete",
           \A l \in Legs : before[l] = "succeeded" => after[l] = "succeeded"
    PROVE  decide_join(after) = "complete"
<1>1. Succeeded(before) \in SUBSET Succeeded(after)
  BY DEF Succeeded
<1>2. Cardinality(Succeeded(before)) <= Cardinality(Succeeded(after))
  BY <1>1, LegsCounted, FS_Subset
<1>3. Cardinality(Succeeded(before)) >= plan.quorum
  BY JoinDecides
<1>4. Cardinality(Succeeded(after)) >= plan.quorum
  BY <1>2, <1>3, LegsCounted, PlanFacts
<1> QED
  BY <1>4, JoinDecides

-----------------------------------------------------------------------------
(* The inductive step: Scopes and the Run's own end.                       *)

\* The verdict and the legs it speaks of, in terms of the leg Scopes alone.
LEMMA VerdictFacts ==
    ASSUME RunInvariant, verdict # "none"
    PROVE  /\ decide_join(LegScopes) = verdict
           /\ \/ \A l \in Legs : scope[l] # "open"
              \/ verdict = "complete" /\ plan.policy = "quorum" /\ plan.remainder = "drain"
<1>1. /\ decide_join(LegScopes) = verdict
      /\ ~(verdict = "complete" /\ plan.remainder = "drain") =>
            \A l \in LegsOf(plan) : scope[l] # "open"
  BY DEF RunInvariant, VerdictStands
<1>2. \A l \in Legs \ LegsOf(plan) : scope[l] # "open"
  BY DEF RunInvariant, PlanOrder, Absent
<1>3. plan.remainder = "drain" => plan.policy = "quorum"
  BY RunFacts, JoinDecides
<1> QED
  BY <1>1, <1>2, <1>3

\* Convergence that closes a Scope keeps the invariant.
LEMMA ScopeConvergesKeeps ==
    ASSUME RunInvariant, NEW s \in Scopes, converge_scope(s)
    PROVE  RunInvariant'
<1>1. /\ UNCHANGED <<plan, run, node, job, wait, child, reserved, clock, verdict>>
      /\ Condemned /\ Observed /\ scope[s] = "open" /\ \A n \in LiveNodes : ScopeOf(n) # s
      /\ s = "root" => \A l \in Legs : scope[l] # "open"
      /\ scope' = [scope EXCEPT ![s] = scope_state]
  BY DEF converge_scope, closable
<1>2. run.state = "cancelling" /\ scope_state \in {"cancelled", "failed"}
  BY <1>1, GoalFacts
<1>3. /\ scope' \in [Scopes -> ScopeState \cup {Absent}] /\ scope'[s] \in {"cancelled", "failed"}
      /\ \A t \in Scopes \ {s} : scope'[t] = scope[t]
  BY <1>1, <1>2, RunFacts DEF ScopeState
<1>4. /\ LiveNodes' = LiveNodes /\ \A n \in Nodes : Held(n)' <=> Held(n)
      /\ \A n \in Nodes : HasLiveJob(n)' <=> HasLiveJob(n)
  BY <1>1 DEF LiveNodes, Ended, Held, HasLiveJob
<1>5. TypeOK'
  BY <1>1, <1>3 DEF RunInvariant, TypeOK
<1>6. PermitsMatchLeases'
  BY <1>1, <1>4 DEF RunInvariant, PermitsMatchLeases, Nodes, Held
<1>7. ScopesCloseInsideOut'
  <2>1. \A n \in LiveNodes : scope'[ScopeOf(n)] = "open"
    BY <1>1, <1>3, NodeNames DEF RunInvariant, ScopesCloseInsideOut, LiveNodes
  <2>2. scope'["root"] # "open" => \A l \in Legs : scope'[l] # "open"
    BY <1>1, <1>3, NodeNames DEF RunInvariant, ScopesCloseInsideOut
  <2>3. \A n \in Nodes : HasLiveJob(n)' => node'[n] = node_state_for(job'[n].state)
    BY <1>1, <1>4 DEF RunInvariant, ScopesCloseInsideOut
  <2> QED
    BY <1>4, <2>1, <2>2, <2>3 DEF ScopesCloseInsideOut, ScopeOf, node_state_for
<1>8. VerdictStands'
  <2> SUFFICES ASSUME verdict # "none"
               PROVE  VerdictStands'
    BY <1>1 DEF VerdictStands
  <2>1. \A l \in Legs : LegScopes[l] = "succeeded" => LegScopes'[l] = "succeeded"
    BY <1>1, <1>3, NodeNames DEF LegScopes
  <2>2. decide_join(LegScopes') = verdict
    <3>1. CASE \A l \in Legs : scope[l] # "open"
      <4>1. LegScopes' = LegScopes
        BY <1>1, <1>3, <3>1, NodeNames DEF LegScopes
      <4> QED
        BY <4>1, VerdictFacts
    <3>2. CASE verdict = "complete" /\ plan.policy = "quorum"
      BY <2>1, <3>2, VerdictFacts, QuorumStands, RunFacts
    <3> QED
      BY <3>1, <3>2, VerdictFacts
  <2>3. decide_join(LegScopes)' = decide_join(LegScopes')
    BY <1>1 DEF decide_join
  <2>4. \A l \in Legs : scope[l] # "open" => scope'[l] # "open"
    BY <1>3, NodeNames
  <2> QED
    BY <1>1, <2>2, <2>3, <2>4 DEF RunInvariant, VerdictStands, LegsOf, Ended
<1>9. PlanOrder'
  <2>1. \A l \in Legs \ LegsOf(plan) : scope'[l] = Absent
    BY <1>1, <1>3, NodeNames DEF RunInvariant, PlanOrder, Absent
  <2> QED
    BY <1>1, <2>1 DEF RunInvariant, PlanOrder, LegsOf
<1>10. OutcomeMatchesControl' /\ WaitPart' /\ ControlPart'
  BY <1>1 DEF RunInvariant, OutcomeMatchesControl, WaitPart, OpenWait, OpenChild, ControlPart, Held
<1>11. ActivePart' /\ WaitingPart' /\ EndedPart'
  BY <1>1, <1>2 DEF ActivePart, WaitingPart, EndedPart, ActiveState, TerminalState
<1> QED
  BY <1>5, <1>6, <1>7, <1>8, <1>9, <1>10, <1>11 DEF RunInvariant

\* The Run ends with its goal, and with nothing of it left.
LEMMA TerminalKeeps ==
    ASSUME RunInvariant, converge_terminal
    PROVE  RunInvariant'
<1>1. /\ UNCHANGED <<plan, node, scope, job, wait, child, reserved, clock, verdict>>
      /\ Condemned /\ Observed /\ LiveNodes = {} /\ \A s \in Scopes : scope[s] # "open"
      /\ run' = [run EXCEPT !.state = goal]
  BY DEF converge_terminal
<1>2. goal \in {"timed_out", "cancelled", "failed"}
  BY <1>1, GoalFacts
<1>3. /\ run' \in Runs /\ run'.state = goal /\ run'.active = run.active
      /\ run'.cancel = run.cancel /\ run'.timeout = run.timeout
  BY <1>1, <1>2, RunFacts DEF Runs, RunState, TerminalState
<1>4. TypeOK'
  BY <1>1, <1>3 DEF RunInvariant, TypeOK, Runs
<1>5. PermitsMatchLeases' /\ ScopesCloseInsideOut'
  BY <1>1, <1>3 DEF RunInvariant, PermitsMatchLeases, Held, ScopesCloseInsideOut, LiveNodes, Ended,
                    HasLiveJob, ScopeOf, node_state_for
<1>6. OutcomeMatchesControl'
  BY <1>1, <1>3, RunFacts DEF OutcomeMatchesControl, Observed, goal, Runs
<1>7. VerdictStands'
  <2>1. decide_join(LegScopes)' = decide_join(LegScopes)
    BY <1>1 DEF LegScopes, decide_join
  <2> QED
    BY <1>1, <2>1 DEF RunInvariant, VerdictStands, LegsOf, Ended
<1>8. PlanOrder' /\ WaitPart'
  BY <1>1 DEF RunInvariant, PlanOrder, LegsOf, WaitPart, OpenWait, OpenChild
<1>9. ControlPart'
  BY <1>1, <1>2, <1>3 DEF RunInvariant, ControlPart, Held, ActiveState
<1>10. ActivePart' /\ WaitingPart' /\ EndedPart'
  BY <1>1, <1>2, <1>3 DEF ActivePart, WaitingPart, EndedPart, ActiveState, LiveNodes, Ended
<1> QED
  BY <1>4, <1>5, <1>6, <1>7, <1>8, <1>9, <1>10 DEF RunInvariant

-----------------------------------------------------------------------------
(* The inductive step: the controller steps of the Fork, its legs, the     *)
(* Join and the end.                                                       *)

\* What a controller step of a running Run that goes on has to keep.
LEMMA ControllerKeeps ==
    ASSUME RunInvariant, UNCHANGED <<plan, child, clock>>,
           run.state = "running", clock # "due",
           run' \in Runs, run'.state = run.state, run'.cancel = run.cancel,
           run'.timeout = run.timeout,
           run'.active = Cardinality(HeldSet'), reserved' = Cardinality(HeldSet'),
           node' \in [Nodes -> NodeState \cup {Absent}],
           scope' \in [Scopes -> ScopeState \cup {Absent}],
           job' \in [Nodes -> JobRow], wait' \in [Legs -> WaitState],
           verdict' \in {"none", "complete", "fail"},
           ScopesCloseInsideOut', VerdictStands', PlanOrder', WaitPart', ActivePart'
    PROVE  RunInvariant'
<1>1. TypeOK'
  <2>1. plan' \in Plans /\ clock' \in {"early", "late", "due"} /\ child' \in [Legs -> ChildRow]
    BY RunFacts
  <2>2. reserved' \in Nat
    BY DEF Runs
  <2> QED
    BY <2>1, <2>2 DEF TypeOK, Runs, JobRow, WaitState, ChildRow
<1>2. PermitsMatchLeases'
  BY DEF PermitsMatchLeases, HeldSet
<1>3. ControlPart'
  BY DEF RunInvariant, ControlPart
<1>4. OutcomeMatchesControl' /\ WaitingPart' /\ EndedPart'
  BY DEF OutcomeMatchesControl, WaitingPart, EndedPart, TerminalState
<1> QED
  BY <1>1, <1>2, <1>3, <1>4 DEF RunInvariant

\* One lease given back by the Run.
LEMMA OneLeaseReturned ==
    ASSUME RunInvariant, NEW n \in Nodes, Held(n), ~Held(n)',
           \A m \in Nodes \ {n} : Held(m)' <=> Held(m),
           run' = [run EXCEPT !.active = @ - 1], reserved' = reserved - 1
    PROVE  /\ run' \in Runs /\ run'.state = run.state /\ run'.cancel = run.cancel
           /\ run'.timeout = run.timeout
           /\ run'.active = Cardinality(HeldSet') /\ reserved' = Cardinality(HeldSet')
<1>1. Cardinality(HeldSet') = Cardinality(HeldSet) - 1
  BY LeaseCounted
<1> DEFINE active == run.active - 1
<1>2. run' = [run EXCEPT !.active = active] /\ active \in Nat
  BY RunFacts, LeaseIsWork DEF Runs
<1>3. active = Cardinality(HeldSet') /\ reserved' = Cardinality(HeldSet')
  BY <1>1, RunFacts
<1> HIDE DEF active
<1> QED
  BY <1>2, <1>3, RunFacts DEF Runs

\* The Fork ends, its legs start and the Join waits for them.
LEMMA ForkKeeps ==
    ASSUME RunInvariant, fan_out
    PROVE  RunInvariant'
<1> DEFINE j == ended_job("fork", "succeeded")
<1>1. /\ job' = [n \in Nodes |-> IF n \in LegsOf(plan) THEN NewJob
                                 ELSE IF n = "fork" THEN j ELSE job[n]]
      /\ node' = [n \in Nodes |-> IF n \in LegsOf(plan) THEN "ready"
                                  ELSE IF n = "fork" THEN "succeeded"
                                  ELSE IF n = "join" THEN "pending" ELSE node[n]]
      /\ scope' = [s \in Scopes |-> IF s \in LegsOf(plan) THEN "open" ELSE scope[s]]
      /\ UNCHANGED <<plan, wait, child, clock, verdict>>
      /\ run' = [run EXCEPT !.active = @ - 1] /\ reserved' = reserved - 1
  BY DEF fan_out
<1>2. /\ job["fork"].state = "running" /\ node["fork"] = "running" /\ scope["root"] = "open"
      /\ run.state = "running" /\ Held("fork") /\ clock # "due"
  BY FenceFacts, NodeNames DEF fan_out
<1>3. j \in JobRow /\ j.state = "succeeded"
  BY RunFacts, NodeNames DEF ended_job, JobRow, JobState, TerminalState
<1>4. NewJob \in JobRow /\ NewJob.state = "ready"
  BY NewJobs
<1> HIDE DEF j
<1>5. /\ verdict = "none" /\ \A n \in Nodes \ {"fork"} : node[n] = Absent
      /\ \A n \in Nodes \ {"fork"} : ~HasLiveJob(n) /\ ~Held(n)
  <2>1. verdict = "none" /\ \A n \in Nodes \ {"fork"} : node[n] = Absent
    BY <1>2 DEF RunInvariant, PlanOrder
  <2> QED
    BY <2>1, LiveJobs
<1>6. LegsOf(plan) \subseteq Legs /\ LegsOf(plan) # {} /\ Legs \subseteq Nodes /\ Legs \subseteq Scopes
      /\ {"fork", "join", "end"} \cap Legs = {} /\ {"fork", "join", "end"} \subseteq Nodes
      /\ "root" \in Scopes /\ "root" \notin Legs
  BY RunFacts, PlanFacts, NodeNames DEF LegsOf
<1>7. /\ job' \in [Nodes -> JobRow] /\ node' \in [Nodes -> NodeState \cup {Absent}]
      /\ scope' \in [Scopes -> ScopeState \cup {Absent}]
  BY <1>1, <1>3, <1>4, RunFacts DEF NodeState, ScopeState, TerminalState
<1>8. /\ \A l \in LegsOf(plan) : job'[l] = NewJob /\ node'[l] = "ready" /\ scope'[l] = "open"
      /\ \A l \in Legs \ LegsOf(plan) : job'[l] = job[l] /\ node'[l] = Absent /\ scope'[l] = scope[l]
      /\ job'["fork"] = j /\ node'["fork"] = "succeeded"
      /\ job'["join"] = job["join"] /\ node'["join"] = "pending"
      /\ job'["end"] = job["end"] /\ node'["end"] = Absent
      /\ scope'["root"] = "open"
  BY <1>1, <1>2, <1>5, <1>6
<1>9. \A n \in Nodes : /\ ~Held(n)'
                       /\ HasLiveJob(n)' <=> n \in LegsOf(plan)
                       /\ n \in LiveNodes' <=> n \in LegsOf(plan) \/ n = "join"
  BY <1>3, <1>4, <1>5, <1>6, <1>8
  DEF Nodes, Held, HasLiveJob, LiveNodes, Ended, LiveState, TerminalState, Absent
<1>10. /\ run' \in Runs /\ run'.state = run.state /\ run'.cancel = run.cancel
       /\ run'.timeout = run.timeout
       /\ run'.active = Cardinality(HeldSet') /\ reserved' = Cardinality(HeldSet')
  BY <1>1, <1>2, <1>5, <1>6, <1>9, OneLeaseReturned
<1>11. ScopesCloseInsideOut'
  <2>1. \A n \in LiveNodes' : scope'[ScopeOf(n)] = "open"
    BY <1>6, <1>8, <1>9 DEF LiveNodes, ScopeOf
  <2>2. \A n \in Nodes : HasLiveJob(n)' => node'[n] = node_state_for(job'[n].state)
    BY <1>4, <1>8, <1>9 DEF node_state_for
  <2> QED
    BY <1>8, <2>1, <2>2 DEF ScopesCloseInsideOut, ScopeOf, node_state_for
<1>12. VerdictStands'
  BY <1>1, <1>5 DEF VerdictStands
<1>13. PlanOrder'
  <2>1. \A n \in Nodes : node'[n] = "pending" => n = "join"
    BY <1>6, <1>8 DEF Nodes, Absent
  <2>2. \A l \in Legs \ LegsOf(plan) : node'[l] = Absent /\ scope'[l] = Absent
    BY <1>8 DEF RunInvariant, PlanOrder
  <2> QED
    BY <1>1, <1>5, <1>8, <2>1, <2>2 DEF PlanOrder, LegsOf, Absent
<1>14. WaitPart'
  <2>1. \A l \in Legs : ~OpenWait(l) /\ ~OpenChild(l)
    BY <1>5, <1>6 DEF RunInvariant, WaitPart, Absent
  <2>2. \A l \in Legs : job'[l].state # "waiting"
    BY <1>4, <1>6, <1>8, <1>9 DEF HasLiveJob, LiveState
  <2> QED
    BY <1>1, <2>1, <2>2 DEF WaitPart, OpenWait, OpenChild
<1>15. ActivePart'
  <2>1. \A l \in Legs : scope'[l] = "open" => l \in LiveNodes'
    BY <1>6, <1>8, <1>9 DEF RunInvariant, PlanOrder, Absent
  <2>2. \E l \in Legs : scope'[l] = "open"
    BY <1>6, <1>8
  <2>3. \A n \in LiveNodes' : HasLiveJob(n)' \/ node'[n] = "pending"
    BY <1>8, <1>9 DEF LiveNodes
  <2> QED
    BY <1>8, <2>1, <2>2, <2>3 DEF ActivePart, HasLiveJob
<1> QED
  BY <1>1, <1>2, <1>5, <1>7, <1>10, <1>11, <1>12, <1>13, <1>14, <1>15, RunFacts, ControllerKeeps

\* The Join completes and the end becomes ready.
LEMMA JoinKeeps ==
    ASSUME RunInvariant, join_step
    PROVE  RunInvariant'
<1> DEFINE j == ended_job("join", "succeeded")
<1>1. /\ job' = [job EXCEPT !["join"] = j, !["end"] = NewJob]
      /\ node' = [node EXCEPT !["join"] = "succeeded", !["end"] = "ready"]
      /\ UNCHANGED <<plan, scope, wait, child, clock, verdict>>
      /\ run' = [run EXCEPT !.active = @ - 1] /\ reserved' = reserved - 1
  BY DEF join_step
<1>2. /\ job["join"].state = "running" /\ node["join"] = "running" /\ scope["root"] = "open"
      /\ run.state = "running" /\ Held("join") /\ clock # "due"
  BY FenceFacts, NodeNames DEF join_step
<1>3. j \in JobRow /\ j.state = "succeeded"
  BY RunFacts, NodeNames DEF ended_job, JobRow, JobState, TerminalState
<1>4. NewJob \in JobRow /\ NewJob.state = "ready"
  BY NewJobs
<1> HIDE DEF j
<1>5. node["fork"] = "succeeded" /\ node["end"] = Absent /\ ~HasLiveJob("end") /\ ~Held("end")
  <2>1. node["fork"] = "succeeded" /\ node["end"] = Absent
    BY <1>2, NodeNames DEF RunInvariant, PlanOrder, Absent
  <2> QED
    BY <2>1, NodeNames, LiveJobs
<1>6. Legs \subseteq Nodes /\ {"fork", "join", "end"} \cap Legs = {} /\ "join" \in Nodes /\ "end" \in Nodes
      /\ "fork" \in Nodes /\ "join" # "end"
  BY NodeNames
<1>7. /\ job' \in [Nodes -> JobRow] /\ node' \in [Nodes -> NodeState \cup {Absent}]
      /\ job'["join"] = j /\ node'["join"] = "succeeded"
      /\ job'["end"] = NewJob /\ node'["end"] = "ready"
      /\ \A n \in Nodes \ {"join", "end"} : job'[n] = job[n] /\ node'[n] = node[n]
  BY <1>1, <1>3, <1>4, <1>6, RunFacts DEF NodeState, TerminalState
<1>8. /\ \A n \in Nodes \ {"join", "end"} : /\ Held(n)' <=> Held(n)
                                            /\ HasLiveJob(n)' <=> HasLiveJob(n)
                                            /\ n \in LiveNodes' <=> n \in LiveNodes
                                            /\ Ended(n)' <=> Ended(n)
      /\ ~Held("join")' /\ ~HasLiveJob("join")' /\ "join" \notin LiveNodes'
      /\ ~Held("end")' /\ HasLiveJob("end")' /\ "end" \in LiveNodes'
  BY <1>3, <1>4, <1>6, <1>7
  DEF Held, HasLiveJob, LiveNodes, Ended, LiveState, TerminalState, Absent
<1>9. /\ run' \in Runs /\ run'.state = run.state /\ run'.cancel = run.cancel
      /\ run'.timeout = run.timeout
      /\ run'.active = Cardinality(HeldSet') /\ reserved' = Cardinality(HeldSet')
  BY <1>1, <1>2, <1>5, <1>6, <1>8, OneLeaseReturned
<1>10. ScopesCloseInsideOut'
  <2>1. \A n \in LiveNodes' : scope'[ScopeOf(n)] = "open"
    BY <1>1, <1>2, <1>6, <1>8, NodeNames DEF RunInvariant, ScopesCloseInsideOut, LiveNodes
  <2>2. \A n \in Nodes : HasLiveJob(n)' => node'[n] = node_state_for(job'[n].state)
    BY <1>4, <1>7, <1>8, LiveJobs DEF node_state_for
  <2>3. scope'["root"] # "open" => \A l \in Legs : scope'[l] # "open"
    BY <1>1, <1>2
  <2> QED
    BY <2>1, <2>2, <2>3 DEF ScopesCloseInsideOut, ScopeOf, node_state_for
<1>11. VerdictStands'
  <2>1. decide_join(LegScopes)' = decide_join(LegScopes)
    BY <1>1 DEF LegScopes, decide_join
  <2>2. \A l \in LegsOf(plan) : Ended(l)' <=> Ended(l)
    BY <1>6, <1>8 DEF LegsOf
  <2> QED
    BY <1>1, <2>1, <2>2 DEF RunInvariant, VerdictStands, LegsOf
<1>12. PlanOrder'
  <2>1. \A n \in Nodes : node'[n] = "pending" => n = "join"
    BY <1>7 DEF RunInvariant, PlanOrder
  <2>2. node'["fork"] = "succeeded" /\ \A l \in Legs : node'[l] = node[l]
    BY <1>5, <1>6, <1>7
  <2>3. \A l \in LegsOf(plan) : node[l] # Absent
    BY <1>5 DEF RunInvariant, PlanOrder
  <2>4. \A l \in Legs \ LegsOf(plan) : node[l] = Absent /\ scope[l] = Absent
    BY DEF RunInvariant, PlanOrder
  <2> QED
    BY <1>1, <1>7, <2>1, <2>2, <2>3, <2>4 DEF PlanOrder, LegsOf
<1>13. WaitPart'
  <2>1. \A l \in Legs : node'[l] = node[l] /\ job'[l] = job[l]
    BY <1>6, <1>7
  <2> QED
    BY <1>1, <2>1 DEF RunInvariant, WaitPart, OpenWait, OpenChild
<1>14. ActivePart'
  <2>1. \A l \in Legs : scope'[l] = "open" => l \in LiveNodes'
    BY <1>1, <1>2, <1>6, <1>8 DEF RunInvariant, ActivePart, ActiveState
  <2>2. \A n \in LiveNodes' :
          HasLiveJob(n)' \/ n \in (PendingTasks \cup OpenLinks)' \/ node'[n] = "pending"
    <3>1. \A n \in LiveNodes :
            HasLiveJob(n) \/ n \in PendingTasks \cup OpenLinks \/ node[n] = "pending"
      BY <1>2 DEF RunInvariant, ActivePart, ActiveState
    <3>2. PendingTasks' = PendingTasks /\ OpenLinks' = OpenLinks
      BY <1>1 DEF PendingTasks, OpenLinks
    <3> QED
      BY <1>7, <1>8, <3>1, <3>2 DEF LiveNodes
  <2> QED
    BY <1>1, <1>2, <1>8, <2>1, <2>2 DEF ActivePart, HasLiveJob
<1> QED
  BY <1>1, <1>2, <1>7, <1>9, <1>10, <1>11, <1>12, <1>13, <1>14, RunFacts, ControllerKeeps

\* A worker that is alone ends the Run by itself.
LEMMA RunEnds ==
    ASSUME RunInvariant, NEW n \in {"join", "end"}, NEW outcome \in {"succeeded", "failed"},
           NEW failed \in BOOLEAN, n = "join" => outcome = "failed",
           Fenced(n, "running", "running"), alone(n), end_run(n, outcome, failed)
    PROVE  RunInvariant'
<1> DEFINE j == ended_job(n, outcome)
<1>1. /\ job' = [job EXCEPT ![n] = j] /\ node' = [node EXCEPT ![n] = outcome]
      /\ scope' = [scope EXCEPT !["root"] = outcome]
      /\ run' = [run EXCEPT !.state = outcome, !.active = 0, !.failure = failed]
      /\ reserved' = reserved - 1
      /\ UNCHANGED <<plan, wait, child, clock, verdict>>
  BY DEF end_run
<1>2. /\ n \in Nodes /\ n \notin Legs /\ Legs \subseteq Nodes /\ Legs \subseteq Scopes
      /\ "root" \in Scopes /\ "root" \notin Legs /\ {"fork", "join", "end"} \subseteq Nodes
      /\ {"fork", "join", "end"} \cap Legs = {}
  BY NodeNames
<1>3. /\ job[n].state = "running" /\ node[n] = "running" /\ run.state = "running" /\ Held(n)
      /\ clock # "due" /\ run.active = 1 /\ LiveNodes = {n}
  BY <1>2, FenceFacts DEF alone
<1>4. j \in JobRow /\ j.state = outcome
  BY <1>2, RunFacts DEF ended_job, JobRow, JobState, TerminalState
<1> HIDE DEF j
<1>5. /\ job' \in [Nodes -> JobRow] /\ node' \in [Nodes -> NodeState \cup {Absent}]
      /\ scope' \in [Scopes -> ScopeState \cup {Absent}]
      /\ job'[n] = j /\ node'[n] = outcome
      /\ \A m \in Nodes \ {n} : job'[m] = job[m] /\ node'[m] = node[m]
      /\ scope'["root"] = outcome /\ \A l \in Legs : scope'[l] = scope[l]
  BY <1>1, <1>2, <1>4, RunFacts DEF NodeState, ScopeState, TerminalState
<1>6. /\ run' \in Runs /\ run'.state = outcome /\ run'.active = 0
      /\ run'.cancel = run.cancel /\ run'.timeout = run.timeout
  BY <1>1, RunFacts DEF Runs, RunState, TerminalState
<1>7. LiveNodes' = {} /\ \A m \in Nodes : ~HasLiveJob(m)' /\ ~Held(m)'
  <2>1. \A m \in Nodes \ {n} : ~HasLiveJob(m) /\ ~Held(m)
    BY <1>3, LiveJobs
  <2> QED
    BY <1>3, <1>4, <1>5, <2>1
    DEF LiveNodes, Ended, HasLiveJob, Held, LiveState, TerminalState, Absent
<1>8. \A s \in Scopes : scope'[s] # "open"
  <2>1. \A l \in Legs : scope[l] # "open"
    BY <1>2, <1>3 DEF RunInvariant, ActivePart, ActiveState
  <2> QED
    BY <1>5, <2>1 DEF Scopes
<1>9. reserved' = 0 /\ Cardinality(HeldSet') = 0
  <2>1. HeldSet' = {}
    BY <1>7 DEF HeldSet, Nodes
  <2> QED
    BY <1>1, <1>3, <2>1, RunFacts, FS_EmptySet
<1>10. ~run.cancel /\ ~run.timeout
  BY <1>3 DEF RunInvariant, ControlPart, ActiveState
<1>11. TypeOK'
  <2>1. /\ plan' \in Plans /\ clock' \in {"early", "late", "due"} /\ child' \in [Legs -> ChildRow]
        /\ wait' \in [Legs -> WaitState] /\ verdict' \in {"none", "complete", "fail"}
    BY <1>1, RunFacts
  <2> QED
    BY <1>1, <1>5, <1>6, <1>9, <2>1 DEF TypeOK, Runs, JobRow, WaitState, ChildRow
<1>12. PermitsMatchLeases'
  BY <1>6, <1>9 DEF PermitsMatchLeases, HeldSet
<1>13. ScopesCloseInsideOut'
  BY <1>2, <1>7, <1>8 DEF ScopesCloseInsideOut, HasLiveJob
<1>14. OutcomeMatchesControl'
  BY <1>6, <1>10 DEF OutcomeMatchesControl
<1>15. VerdictStands'
  <2>1. LegScopes' = LegScopes
    BY <1>5 DEF LegScopes
  <2>2. decide_join(LegScopes)' = decide_join(LegScopes)
    BY <1>1, <2>1 DEF decide_join
  <2>3. \A l \in Legs : scope'[l] = scope[l] /\ (Ended(l)' <=> Ended(l))
    BY <1>2, <1>5 DEF Ended
  <2> QED
    BY <1>1, <2>2, <2>3 DEF RunInvariant, VerdictStands, LegsOf
<1>16. PlanOrder'
  <2>1. \A m \in Nodes : node'[m] = "pending" => node[m] = "pending"
    BY <1>5
  <2>2. \A m \in Nodes : node'[m] = Absent <=> node[m] = Absent
    BY <1>3, <1>5 DEF Absent
  <2>3. node'["fork"] = node["fork"] /\ (node["join"] = "succeeded" => node'["join"] = "succeeded")
    BY <1>2, <1>3, <1>5
  <2> QED
    BY <1>1, <1>2, <1>5, <2>1, <2>2, <2>3 DEF RunInvariant, PlanOrder, LegsOf
<1>17. WaitPart'
  <2>1. \A l \in Legs : node'[l] = node[l] /\ job'[l] = job[l]
    BY <1>2, <1>5
  <2> QED
    BY <1>1, <2>1 DEF RunInvariant, WaitPart, OpenWait, OpenChild
<1>18. ControlPart'
  BY <1>1, <1>3, <1>6, <1>10 DEF ControlPart
<1>19. ActivePart' /\ WaitingPart'
  BY <1>6 DEF ActivePart, WaitingPart, ActiveState
<1>20. EndedPart'
  BY <1>7, <1>8 DEF EndedPart
<1> QED
  BY <1>11, <1>12, <1>13, <1>14, <1>15, <1>16, <1>17, <1>18, <1>19, <1>20 DEF RunInvariant

\* An ended Job is in the state it ended in.
LEMMA JobsEnd ==
    ASSUME RunInvariant, NEW n \in Nodes, NEW s \in TerminalState
    PROVE  ended_job(n, s) \in JobRow /\ ended_job(n, s).state = s
BY RunFacts DEF ended_job, JobRow, JobState

\* A leg ends: its Scope closes, and the Join that is decided by it is woken and cancels the
\* legs it does not drain.
LEMMA LegKeeps ==
    ASSUME RunInvariant, NEW l \in Legs, NEW outcome \in {"succeeded", "failed"},
           settle_parallel_leg(l, outcome)
    PROVE  RunInvariant'
<1> DEFINE X == remainder(l, outcome)
           d == decision(l, outcome)
           c == [LegScopes EXCEPT ![l] = outcome]
           W == node["join"] = "pending" /\ d # "wait"
           H == {m \in X : Held(m)}
<1>1. /\ Fenced(l, "running", "running") /\ join_admits_exit
      /\ \A m \in X : cancellable(m)
      /\ run.active >= 1 + Cardinality(H)
      /\ job' = [n \in Nodes |-> IF n = l THEN ended_job(l, outcome)
                                 ELSE IF n \in X THEN ended_job(n, "cancelled")
                                 ELSE IF n = "join" /\ W THEN NewJob ELSE job[n]]
      /\ node' = [n \in Nodes |-> IF n = l THEN outcome
                                  ELSE IF n \in X THEN "cancelled"
                                  ELSE IF n = "join" /\ W THEN "ready" ELSE node[n]]
      /\ scope' = [s \in Scopes |-> IF s = l THEN outcome
                                    ELSE IF s \in X THEN "cancelled" ELSE scope[s]]
      /\ wait' = [m \in Legs |-> IF m \in X /\ wait[m] = "pending" THEN "cancelled" ELSE wait[m]]
      /\ run' = [run EXCEPT !.active = @ - (1 + Cardinality(H))]
      /\ reserved' = reserved - (1 + Cardinality(H))
      /\ verdict' = IF W THEN d ELSE verdict
      /\ UNCHANGED <<plan, child, clock>>
  BY DEF settle_parallel_leg, released
<1>2. /\ l \in Nodes /\ Legs \subseteq Nodes /\ Legs \subseteq Scopes /\ "root" \in Scopes
      /\ "root" \notin Legs /\ {"fork", "join", "end"} \subseteq Nodes
      /\ {"fork", "join", "end"} \cap Legs = {}
  BY NodeNames
<1>3. /\ job[l].state = "running" /\ node[l] = "running" /\ scope[l] = "open"
      /\ run.state = "running" /\ Held(l) /\ clock # "due"
  BY <1>1, <1>2, FenceFacts, NodeNames
<1>4. /\ d = decide_join(c) /\ d \in {"complete", "fail", "wait"}
      /\ \A m \in Legs : c[m] = IF m = l THEN outcome ELSE scope[m]
  BY RunFacts, JoinDecides DEF decision, LegScopes
<1>5. /\ X = {m \in Legs \ {l} : scope[m] = "open"} \/ X = {}
      /\ W /\ (d = "fail" \/ (d = "complete" /\ plan.remainder = "cancel")) =>
            X = {m \in Legs \ {l} : scope[m] = "open"}
      /\ ~(W /\ (d = "fail" \/ (d = "complete" /\ plan.remainder = "cancel"))) => X = {}
      /\ X \subseteq Legs \ {l}
  <2> DEFINE S == {m \in Legs \ {l} : scope[m] = "open"}
  <2>1. X = IF node["join"] # "pending" THEN {}
            ELSE IF d = "fail" \/ (d = "complete" /\ plan.remainder = "cancel") THEN S ELSE {}
    BY DEF remainder, OpenSiblings
  <2>2. S \subseteq Legs \ {l}
    OBVIOUS
  <2> HIDE DEF d, X, S
  <2>3. /\ X = S \/ X = {}
        /\ W /\ (d = "fail" \/ (d = "complete" /\ plan.remainder = "cancel")) => X = S
        /\ ~(W /\ (d = "fail" \/ (d = "complete" /\ plan.remainder = "cancel"))) => X = {}
    BY <2>1
  <2>4. X \subseteq Legs \ {l}
    BY <2>2, <2>3
  <2> QED
    BY <2>3, <2>4 DEF S
<1>6. /\ ended_job(l, outcome) \in JobRow /\ ended_job(l, outcome).state = outcome
      /\ \A m \in X : ended_job(m, "cancelled") \in JobRow /\ ended_job(m, "cancelled").state = "cancelled"
  <2>1. X \subseteq Nodes /\ "cancelled" \in TerminalState /\ outcome \in TerminalState
    BY <1>2, <1>5 DEF TerminalState
  <2> HIDE DEF X
  <2> QED
    BY <1>2, <2>1, JobsEnd
<1>7. NewJob \in JobRow /\ NewJob.state = "ready"
  BY NewJobs
<1> HIDE DEF X, d, c, W, H
<1>8. /\ job' \in [Nodes -> JobRow] /\ node' \in [Nodes -> NodeState \cup {Absent}]
      /\ scope' \in [Scopes -> ScopeState \cup {Absent}] /\ wait' \in [Legs -> WaitState]
      /\ verdict' \in {"none", "complete", "fail"}
  <2>1. job' \in [Nodes -> JobRow]
    BY <1>1, <1>6, <1>7, RunFacts
  <2>2. node' \in [Nodes -> NodeState \cup {Absent}] /\ scope' \in [Scopes -> ScopeState \cup {Absent}]
        /\ wait' \in [Legs -> WaitState]
    BY <1>1, RunFacts DEF NodeState, ScopeState, TerminalState, WaitState
  <2>3. verdict' \in {"none", "complete", "fail"}
    BY <1>1, <1>4, RunFacts DEF W
  <2> QED
    BY <2>1, <2>2, <2>3
<1>9. /\ job'[l].state = outcome /\ node'[l] = outcome /\ scope'[l] = outcome
      /\ \A m \in X : job'[m].state = "cancelled" /\ node'[m] = "cancelled" /\ scope'[m] = "cancelled"
      /\ W => job'["join"] = NewJob /\ node'["join"] = "ready"
      /\ ~W => job'["join"] = job["join"] /\ node'["join"] = node["join"]
      /\ \A n \in Nodes \ (X \cup {l, "join"}) : job'[n] = job[n] /\ node'[n] = node[n]
      /\ \A s \in Scopes \ (X \cup {l}) : scope'[s] = scope[s]
      /\ \A m \in Legs \ X : wait'[m] = wait[m]
      /\ \A m \in X : wait'[m] = IF wait[m] = "pending" THEN "cancelled" ELSE wait[m]
  BY <1>1, <1>2, <1>5, <1>6
<1>10. W => node["join"] = "pending" /\ ~HasLiveJob("join") /\ ~Held("join")
  BY <1>2, LiveJobs DEF W
<1>11. /\ \A n \in X \cup {l} : ~Held(n)' /\ ~HasLiveJob(n)' /\ n \notin LiveNodes'
       /\ \A n \in Nodes \ (X \cup {l}) : Held(n)' <=> Held(n)
       /\ \A n \in Nodes \ (X \cup {l, "join"}) : /\ HasLiveJob(n)' <=> HasLiveJob(n)
                                                  /\ n \in LiveNodes' <=> n \in LiveNodes
       /\ W => HasLiveJob("join")' /\ "join" \in LiveNodes'
       /\ ~W => /\ HasLiveJob("join")' <=> HasLiveJob("join")
                /\ "join" \in LiveNodes' <=> "join" \in LiveNodes
  <2>1. \A n \in X \cup {l} : ~Held(n)' /\ ~HasLiveJob(n)' /\ n \notin LiveNodes'
    BY <1>9 DEF Held, HasLiveJob, LiveNodes, Ended, LiveState, TerminalState
  <2>2. \A n \in Nodes \ (X \cup {l, "join"}) : /\ Held(n)' <=> Held(n)
                                                /\ HasLiveJob(n)' <=> HasLiveJob(n)
                                                /\ n \in LiveNodes' <=> n \in LiveNodes
    BY <1>9 DEF Held, HasLiveJob, LiveNodes, Ended
  <2>3. W => ~Held("join")' /\ HasLiveJob("join")' /\ "join" \in LiveNodes'
    BY <1>2, <1>7, <1>9 DEF Held, HasLiveJob, LiveNodes, Ended, LiveState, TerminalState, Absent
  <2>4. ~W => /\ Held("join")' <=> Held("join")
              /\ HasLiveJob("join")' <=> HasLiveJob("join")
              /\ "join" \in LiveNodes' <=> "join" \in LiveNodes
    BY <1>2, <1>9 DEF Held, HasLiveJob, LiveNodes, Ended
  <2> QED
    BY <1>10, <2>1, <2>2, <2>3, <2>4
<1>12. /\ run' \in Runs /\ run'.state = run.state /\ run'.cancel = run.cancel
       /\ run'.timeout = run.timeout
       /\ run'.active = Cardinality(HeldSet') /\ reserved' = Cardinality(HeldSet')
  <2>1. H \subseteq HeldSet /\ l \notin H /\ l \in HeldSet
    BY <1>2, <1>3, <1>5 DEF H, HeldSet
  <2>2. HeldSet' = HeldSet \ (H \cup {l})
    BY <1>5, <1>11 DEF HeldSet, H, Nodes
  <2>3. IsFiniteSet(H) /\ IsFiniteSet(HeldSet)
    BY <2>1, HeldIsFinite, FS_Subset
  <2>4. IsFiniteSet(H \cup {l}) /\ Cardinality(H \cup {l}) = Cardinality(H) + 1
    BY <2>1, <2>3, FS_AddElement
  <2>5. HeldSet \cap (H \cup {l}) = H \cup {l}
    BY <2>1
  <2>6. Cardinality(HeldSet') = Cardinality(HeldSet) - Cardinality(H \cup {l})
    <3> DEFINE T == H \cup {l}
    <3> HIDE DEF T
    <3>1. Cardinality(HeldSet \ T) = Cardinality(HeldSet) - Cardinality(HeldSet \cap T)
      BY <2>3, FS_Difference
    <3> QED
      BY <2>2, <2>5, <3>1 DEF T
  <2>7. Cardinality(H) \in Nat
    BY <2>3, FS_CardinalityType
  <2> DEFINE active == run.active - (1 + Cardinality(H))
  <2>8. active \in Nat /\ active = Cardinality(HeldSet') /\ reserved' = Cardinality(HeldSet')
        /\ run' = [run EXCEPT !.active = active]
    BY <1>1, <2>4, <2>6, <2>7, RunFacts DEF Runs
  <2> HIDE DEF active
  <2> QED
    BY <2>8, RunFacts DEF Runs
<1>13. /\ node["fork"] = "succeeded" /\ l \in LegsOf(plan)
       /\ \A m \in LegsOf(plan) : node[m] # Absent /\ node'[m] # Absent
       /\ \A m \in Legs \ LegsOf(plan) : m \notin X \cup {l} /\ node[m] = Absent /\ scope[m] = Absent
  <2>1. node["fork"] = "succeeded" /\ l \in LegsOf(plan)
    BY <1>2, <1>3 DEF RunInvariant, PlanOrder, Absent
  <2>2. /\ \A m \in LegsOf(plan) : node[m] # Absent
        /\ \A m \in Legs \ LegsOf(plan) : node[m] = Absent /\ scope[m] = Absent
    BY <2>1 DEF RunInvariant, PlanOrder
  <2>3. \A m \in LegsOf(plan) : node'[m] # Absent
    BY <1>2, <1>9, <2>2 DEF LegsOf, Absent
  <2> QED
    BY <1>5, <2>1, <2>2, <2>3 DEF Absent
<1>14. ScopesCloseInsideOut'
  <2>1. \A n \in LiveNodes' : scope'[ScopeOf(n)] = "open"
    <3> SUFFICES ASSUME NEW n \in Nodes, n \in LiveNodes'
                 PROVE  scope'[ScopeOf(n)] = "open"
      BY DEF LiveNodes
    <3>1. n \notin X \cup {l} /\ n \in LiveNodes
      <4>1. "join" \in LiveNodes \/ ~W
        BY <1>2, <1>10, LiveJobs DEF Absent, TerminalState
      <4> QED
        BY <1>11, <4>1
    <3>2. ScopeOf(n) \in Scopes \ (X \cup {l})
      BY <1>2, <1>5, <3>1, NodeNames DEF Nodes, ScopeOf
    <3> QED
      BY <1>9, <3>1, <3>2, LiveJobs
  <2>2. scope'["root"] # "open" => \A m \in Legs : scope'[m] # "open"
    BY <1>2, <1>3, <1>5, <1>9 DEF RunInvariant, ScopesCloseInsideOut
  <2>3. \A n \in Nodes : HasLiveJob(n)' => node'[n] = node_state_for(job'[n].state)
    <3> SUFFICES ASSUME NEW n \in Nodes, HasLiveJob(n)'
                 PROVE  node'[n] = node_state_for(job'[n].state)
      OBVIOUS
    <3>1. CASE n = "join"
      BY <1>2, <1>7, <1>9, <1>11, <3>1, LiveJobs DEF node_state_for
    <3>2. CASE n # "join"
      BY <1>9, <1>11, <3>2, LiveJobs
    <3> QED
      BY <3>1, <3>2
  <2> QED
    BY <2>1, <2>2, <2>3 DEF ScopesCloseInsideOut, ScopeOf, node_state_for
<1>15. \A m \in Legs : /\ LegScopes[m] = scope[m] /\ LegScopes'[m] = scope'[m]
                       /\ scope'[m] = IF m = l THEN outcome ELSE IF m \in X THEN "cancelled" ELSE scope[m]
  BY <1>1, <1>2 DEF LegScopes
<1>16. VerdictStands'
  <2>1. W => decide_join(LegScopes') = d
    <3>1. CASE W /\ (d = "fail" \/ (d = "complete" /\ plan.remainder = "cancel"))
      <4>1. \A m \in Legs : LegScopes'[m] = IF c[m] = "open" THEN "cancelled" ELSE c[m]
        BY <1>4, <1>5, <1>15, <3>1
      <4> QED
        BY <1>4, <3>1, <4>1, RunFacts, CancelledRemainderStands
    <3>2. CASE W /\ ~(d = "fail" \/ (d = "complete" /\ plan.remainder = "cancel"))
      <4>1. LegScopes' = c
        BY <1>4, <1>5, <1>15, <3>2 DEF LegScopes, c
      <4> QED
        BY <1>4, <4>1
    <3> QED
      BY <3>1, <3>2
  <2>2. W => (d = "complete" /\ plan.remainder = "drain") \/ \A m \in Legs : scope'[m] # "open"
    <3>1. CASE W /\ (d = "fail" \/ (d = "complete" /\ plan.remainder = "cancel"))
      BY <1>5, <1>15, <3>1
    <3>2. CASE W /\ d = "complete" /\ plan.remainder \notin {"cancel", "drain"}
      <4>1. \A m \in Legs : c[m] # "open"
        BY <1>4, <3>2, RunFacts, CompleteHasNoOpenLeg
      <4> QED
        BY <1>4, <1>15, <4>1
    <3>3. W => d = "fail" \/ d = "complete"
      BY <1>4 DEF W
    <3> QED
      BY <3>1, <3>2, <3>3, Zenon
  <2>3. ~W /\ verdict # "none" =>
          decide_join(LegScopes') = verdict /\ verdict = "complete" /\ plan.remainder = "drain"
    <3> SUFFICES ASSUME verdict # "none"
                 PROVE  decide_join(LegScopes') = verdict /\ verdict = "complete" /\ plan.remainder = "drain"
      OBVIOUS
    <3>1. /\ decide_join(LegScopes) = verdict
          /\ verdict = "complete" /\ plan.policy = "quorum" /\ plan.remainder = "drain"
      BY <1>3, VerdictFacts
    <3>2. X = {}
      BY <1>5 DEF W, RunInvariant, PlanOrder
    <3>3. \A m \in Legs : LegScopes[m] = "succeeded" => LegScopes'[m] = "succeeded"
      BY <1>3, <1>15, <3>2
    <3> QED
      BY <3>1, <3>3, RunFacts, QuorumStands
  <2>4. decide_join(LegScopes)' = decide_join(LegScopes')
    BY <1>1 DEF decide_join
  <2>5. \A m \in LegsOf(plan) : scope'[m] # "open" => Ended(m)'
    <3>1. \A n \in LiveNodes' : scope'[ScopeOf(n)] = "open"
      BY <1>14 DEF ScopesCloseInsideOut, ScopeOf
    <3> QED
      BY <1>2, <1>13, <3>1, NodeNames DEF LegsOf, LiveNodes
  <2>6. \A m \in LegsOf(plan) : m \in Legs
    BY DEF LegsOf
  <2>7. CASE W
    BY <1>1, <2>1, <2>2, <2>4, <2>5, <2>6, <2>7 DEF VerdictStands, LegsOf
  <2>8. CASE ~W
    BY <1>1, <2>3, <2>4, <2>8 DEF VerdictStands
  <2> QED
    BY <2>7, <2>8
<1>17. PlanOrder'
  <2>1. \A n \in Nodes : node'[n] = "pending" => n = "join"
    BY <1>9 DEF RunInvariant, PlanOrder
  <2>2. node'["fork"] = "succeeded" /\ node'["end"] = node["end"]
    BY <1>2, <1>5, <1>9, <1>13
  <2>3. \A m \in Legs \ LegsOf(plan) : node'[m] = Absent /\ scope'[m] = Absent
    BY <1>2, <1>9, <1>13
  <2>4. node'["join"] # "succeeded" => node'["end"] = Absent
    BY <1>9, <1>10, <2>2 DEF RunInvariant, PlanOrder
  <2>5. verdict' # "none" => node'["join"] # "pending"
    BY <1>1, <1>9 DEF RunInvariant, PlanOrder
  <2> QED
    BY <1>1, <1>13, <2>1, <2>2, <2>3, <2>4, <2>5 DEF PlanOrder, LegsOf
<1>18. WaitPart'
  <2> SUFFICES ASSUME NEW m \in Legs
               PROVE  /\ OpenWait(m)' => node'[m] = "waiting"
                      /\ OpenChild(m)' => plan.kind[m] = "child" /\ OpenWait(m)'
                      /\ plan.kind[m] = "child" /\ wait'[m] = "pending" => child'[m].state # Absent
                      /\ wait'[m] = "cancelling" => plan.kind[m] = "child"
                      /\ OpenWait(m)' /\ plan.kind[m] \notin {"human", "child"} =>
                            job'[m].state = "waiting"
                      /\ job'[m].state = "waiting" => plan.kind[m] = "timer"
    BY <1>1 DEF WaitPart, OpenWait, OpenChild
  <2>1. /\ OpenWait(m) => node[m] = "waiting"
        /\ OpenChild(m) => plan.kind[m] = "child" /\ OpenWait(m)
        /\ plan.kind[m] = "child" /\ wait[m] = "pending" => child[m].state # Absent
        /\ wait[m] = "cancelling" => plan.kind[m] = "child"
        /\ OpenWait(m) /\ plan.kind[m] \notin {"human", "child"} => job[m].state = "waiting"
        /\ job[m].state = "waiting" => plan.kind[m] = "timer"
    BY DEF RunInvariant, WaitPart
  <2>2. CASE m = l
    BY <1>1, <1>3, <1>5, <1>9, <2>1, <2>2 DEF OpenWait, OpenChild
  <2>3. CASE m \in X
    <3>1. HasLiveJob(m)
      BY <1>1, <2>3 DEF cancellable
    <3>2. node[m] = "waiting" => job[m].state = "waiting"
      BY <1>2, <3>1, LiveJobs DEF HasLiveJob, LiveState, node_state_for
    <3>3. wait[m] # "cancelling" /\ ~OpenChild(m)
      BY <2>1, <3>2 DEF OpenWait
    <3> QED
      BY <1>1, <1>9, <2>3, <3>3 DEF OpenWait, OpenChild
  <2>4. CASE m \notin X \cup {l}
    BY <1>1, <1>2, <1>9, <2>1, <2>4 DEF OpenWait, OpenChild
  <2> QED
    BY <2>2, <2>3, <2>4
<1>19. ActivePart'
  <2>1. /\ scope["root"] = "open"
        /\ \A m \in Legs : scope[m] = "open" => m \in LiveNodes
        /\ \A n \in LiveNodes :
              HasLiveJob(n) \/ n \in PendingTasks \cup OpenLinks \/ node[n] = "pending"
        /\ \/ "fork" \in LiveNodes
           \/ node["join"] = "pending" /\ \E m \in Legs : scope[m] = "open"
           \/ "join" \in LiveNodes /\ node["join"] # "pending"
           \/ "end" \in LiveNodes
    BY <1>3 DEF RunInvariant, ActivePart, ActiveState
  <2>2. scope'["root"] = "open"
    BY <1>2, <1>5, <1>9, <2>1
  <2>3. \A m \in Legs : scope'[m] = "open" => m \in LiveNodes'
    BY <1>2, <1>11, <1>15, <2>1
  <2>4. \A n \in LiveNodes' :
          HasLiveJob(n)' \/ n \in (PendingTasks \cup OpenLinks)' \/ node'[n] = "pending"
    <3> SUFFICES ASSUME NEW n \in Nodes, n \in LiveNodes'
                 PROVE  HasLiveJob(n)' \/ n \in (PendingTasks \cup OpenLinks)' \/ node'[n] = "pending"
      BY DEF LiveNodes
    <3>1. n \notin X \cup {l}
      BY <1>11
    <3>2. n \in PendingTasks \cup OpenLinks => n \in (PendingTasks \cup OpenLinks)'
      BY <1>1, <1>9, <3>1 DEF PendingTasks, OpenLinks
    <3>3. CASE n = "join" /\ W
      BY <1>11, <3>3
    <3>4. CASE ~(n = "join" /\ W)
      <4>1. n \in LiveNodes /\ (HasLiveJob(n) => HasLiveJob(n)') /\ node'[n] = node[n]
        BY <1>9, <1>11, <3>1, <3>4
      <4> QED
        BY <2>1, <3>2, <4>1
    <3> QED
      BY <3>3, <3>4
  <2>5. \/ "fork" \in LiveNodes'
        \/ node'["join"] = "pending" /\ \E m \in Legs : scope'[m] = "open"
        \/ "join" \in LiveNodes' /\ node'["join"] # "pending"
        \/ "end" \in LiveNodes'
    <3>1. CASE W
      BY <1>9, <1>11, <3>1
    <3>2. CASE ~W /\ node["join"] = "pending"
      <4>1. decide_join(c) = "wait" /\ X = {}
        BY <1>4, <1>5, <3>2 DEF W
      <4>2. \E m \in Legs : c[m] = "open"
        BY <4>1, RunFacts, UndecidedHasOpenLeg
      <4>3. \E m \in Legs : scope'[m] = "open"
        BY <1>4, <1>15, <4>1, <4>2
      <4> QED
        BY <1>9, <3>2, <4>3
    <3>3. CASE ~W /\ node["join"] # "pending"
      <4>1. "fork" \notin LiveNodes
        BY <1>2, <1>13, LiveJobs DEF TerminalState
      <4> QED
        BY <1>2, <1>5, <1>9, <1>11, <2>1, <3>3, <4>1
    <3> QED
      BY <3>1, <3>2, <3>3
  <2> QED
    BY <2>2, <2>3, <2>4, <2>5 DEF ActivePart, HasLiveJob
<1> QED
  BY <1>1, <1>3, <1>8, <1>12, <1>14, <1>16, <1>17, <1>18, <1>19, ControllerKeeps

-----------------------------------------------------------------------------
(* The invariant holds from admission on.                                  *)

\* A Run that has just been created satisfies the invariant.
LEMMA InitKeeps ==
    ASSUME Init
    PROVE  RunInvariant
<1>1. /\ plan \in Plans /\ run.state = "queued" /\ run.active = 0 /\ ~run.cancel /\ ~run.timeout
      /\ run \in Runs /\ reserved = 0 /\ clock = "early" /\ verdict = "none"
  BY DEF Init, Runs, RunState, ActiveState
<1>2. 0 \in 0 .. plan.attempts
  BY <1>1, PlanFacts
<1>3. NoJob \in JobRow /\ NoJob.state = Absent
  BY <1>2 DEF NoJob, JobRow
<1>4. NewJob \in JobRow /\ NewJob.state = "ready"
  BY <1>3 DEF NewJob, JobRow, JobState, LiveState
<1>5. /\ job \in [Nodes -> JobRow] /\ node \in [Nodes -> NodeState \cup {Absent}]
      /\ scope \in [Scopes -> ScopeState \cup {Absent}]
  BY <1>3, <1>4 DEF Init, NodeState, ScopeState
<1>6. wait \in [Legs -> WaitState] /\ child \in [Legs -> ChildRow]
  BY DEF Init, WaitState, ChildRow, NoChild
<1>7. /\ job["fork"].state = "ready" /\ node["fork"] = "ready" /\ scope["root"] = "open"
      /\ \A n \in Nodes \ {"fork"} : job[n].state = Absent /\ node[n] = Absent
      /\ \A l \in Legs : /\ scope[l] = Absent /\ wait[l] = "none" /\ child[l].state = Absent
                         /\ job[l].state = Absent /\ node[l] = Absent
  BY <1>3, <1>4, NodeNames DEF Init, NoChild
<1>8. /\ \A n \in Nodes : ~Held(n) /\ (HasLiveJob(n) <=> n = "fork")
      /\ LiveNodes = {"fork"}
  <2>1. \A n \in Nodes : ~Held(n) /\ (HasLiveJob(n) <=> n = "fork") /\ (n \in LiveNodes <=> n = "fork")
    BY <1>7 DEF Held, HasLiveJob, LiveNodes, Ended, LiveState, TerminalState, Absent
  <2> QED
    BY <2>1, NodeNames DEF LiveNodes
<1>9. TypeOK
  BY <1>1, <1>5, <1>6, TypeFacts
<1>10. PermitsMatchLeases
  <2>1. {n \in Nodes : Held(n)} = {}
    BY <1>8
  <2> QED
    BY <1>1, <2>1, FS_EmptySet DEF PermitsMatchLeases
<1>11. ScopesCloseInsideOut
  BY <1>7, <1>8, NodeNames DEF ScopesCloseInsideOut, node_state_for
<1>12. OutcomeMatchesControl /\ VerdictStands
  BY <1>1 DEF OutcomeMatchesControl, VerdictStands
<1>13. PlanOrder
  BY <1>1, <1>7, NodeNames DEF PlanOrder, Absent
<1>14. WaitPart
  BY <1>7 DEF WaitPart, OpenWait, OpenChild, Absent
<1>15. ControlPart
  BY <1>1 DEF ControlPart
<1>16. ActivePart
  BY <1>7, <1>8, NodeNames DEF ActivePart, Absent
<1>17. WaitingPart /\ EndedPart
  BY <1>1 DEF WaitingPart, EndedPart, TerminalState
<1> QED
  BY <1>9, <1>10, <1>11, <1>12, <1>13, <1>14, <1>15, <1>16, <1>17 DEF RunInvariant

\* The steps that come down to a step at one Node.
NodeTransaction ==
    \/ NextJob
    \/ \E l \in Legs : \/ yield_wait(l)
                       \/ defer_orchestration_to_task(l)
                       \/ \E outcome \in {"succeeded", "failed"} :
                             wake_orchestration_job(l, outcome) \/ resolve_task(l, outcome)
                       \/ defer_orchestration_to_child_run(l)
                       \/ drive_terminal_child_runs(l)
    \/ \E n \in Nodes : converge_job_node(n) \/ converge_node(n)

\* Every transaction of workers, senders and scans is a step at one Node.
LEMMA NodeTransactions ==
    ASSUME RunInvariant, NodeTransaction
    PROVE  \E n \in Nodes : NodeStep(n)
<1>1. CASE NextJob
  <2>1. PICK n \in Nodes : \/ claim_orchestration_partition(n)
                           \/ start_orchestration_job(n)
                           \/ expire_lease(n)
                           \/ yield_retry(n)
                           \/ drive_due_orchestration_retries(n)
                           \/ drive_expired_orchestration_jobs(n)
    BY <1>1 DEF NextJob
  <2>2. NodeStep(n)
    BY <2>1, ClaimStep, StartStep, ExpireStep, RetryStep, DueRetryStep, RecoverStep
  <2> QED
    BY <2>2
<1>2. CASE \E l \in Legs : \/ yield_wait(l)
                           \/ defer_orchestration_to_task(l)
                           \/ \E outcome \in {"succeeded", "failed"} :
                                 wake_orchestration_job(l, outcome) \/ resolve_task(l, outcome)
                           \/ defer_orchestration_to_child_run(l)
                           \/ drive_terminal_child_runs(l)
  <2>1. PICK l \in Legs : \/ yield_wait(l)
                          \/ defer_orchestration_to_task(l)
                          \/ \E outcome \in {"succeeded", "failed"} :
                                wake_orchestration_job(l, outcome) \/ resolve_task(l, outcome)
                          \/ defer_orchestration_to_child_run(l)
                          \/ drive_terminal_child_runs(l)
    BY <1>2
  <2>2. NodeStep(l)
    BY <2>1, WaitStep, WakeStep, ChildSettledStep, ChildMutedStep DEF drive_terminal_child_runs
  <2>3. l \in Nodes
    BY NodeNames
  <2> QED
    BY <2>2, <2>3
<1>3. CASE \E n \in Nodes : converge_job_node(n) \/ converge_node(n)
  BY <1>3, JobConvergesStep, NodeConvergesStep
<1> QED
  BY <1>1, <1>2, <1>3 DEF NodeTransaction

\* The invariant depends on the variables only.
LEMMA StutterKeeps ==
    ASSUME RunInvariant, UNCHANGED vars
    PROVE  RunInvariant'
<1>1. UNCHANGED <<plan, run, node, scope, job, wait, child, reserved, clock, verdict>>
  BY DEF vars
<1>2. WaitPart'
  BY <1>1 DEF RunInvariant, WaitPart, OpenWait, OpenChild
<1>3. ControlPart'
  BY <1>1 DEF RunInvariant, ControlPart, Held
<1> QED
  BY <1>1, <1>2, <1>3, RunFacts, RowsStand

\* Every step keeps the invariant.
LEMMA NextKeeps ==
    ASSUME RunInvariant, [Next]_vars
    PROVE  RunInvariant'
<1>1. CASE NodeTransaction
  BY <1>1, NodeTransactions, NodeStepKeeps
<1>2. CASE \E l \in Legs : leg_exit(l) \/ leg_fail(l)
  BY <1>2, LegKeeps DEF leg_exit, leg_fail
<1>3. CASE \E l \in Legs : \/ \E outcome \in {"succeeded", "failed"} : child_returns(l, outcome)
                           \/ \E intent \in {"cancel", "timeout", "failure"} : condemn_child(l, intent)
                           \/ converge_child(l)
  BY <1>3, ChildKeeps
<1>4. CASE \E l \in Legs : drive_child_run_cancellations(l)
  BY <1>4, ChildCancellationKeeps
<1>5. CASE fan_out \/ join_step
  BY <1>5, ForkKeeps, JoinKeeps
<1>6. CASE join_fail
  BY <1>6, RunEnds DEF join_fail
<1>7. CASE \E outcome \in {"succeeded", "failed"} : commit_plan_terminal(outcome)
  <2>1. PICK outcome \in {"succeeded", "failed"} : commit_plan_terminal(outcome)
    BY <1>7
  <2> DEFINE failed == outcome = "failed"
  <2>2. Fenced("end", "running", "running") /\ alone("end") /\ end_run("end", outcome, failed)
    BY <2>1 DEF commit_plan_terminal, terminal_closure
  <2>3. failed \in BOOLEAN
    OBVIOUS
  <2> HIDE DEF failed
  <2> QED
    BY <2>2, <2>3, RunEnds
<1>8. CASE pause_run \/ cancel_run \/ observe_timeout \/ converge_control
  BY <1>8, ControlKeeps
<1>9. CASE tick
  BY <1>9, TickKeeps
<1>10. CASE \E l \in Legs : converge_task(l)
  BY <1>10, TaskConvergesKeeps
<1>11. CASE \E s \in Scopes : converge_scope(s)
  BY <1>11, ScopeConvergesKeeps
<1>12. CASE converge_terminal
  BY <1>12, TerminalKeeps
<1>13. CASE Settled \/ UNCHANGED vars
  BY <1>13, StutterKeeps DEF Settled
<1> QED
  BY <1>1, <1>2, <1>3, <1>4, <1>5, <1>6, <1>7, <1>8, <1>9, <1>10, <1>11, <1>12, <1>13
  DEF Next, NextLeg, NextChild, NextRoot, NextControl, converge_run_step, NodeTransaction

\* A Run keeps its inductive invariant: permits, Scopes, verdict, outcome and the parts above.
THEOREM RunInvariantHolds == Spec => []RunInvariant
<1>1. Init => RunInvariant
  BY InitKeeps
<1>2. RunInvariant /\ [Next]_vars => RunInvariant'
  BY NextKeeps
<1> QED
  BY <1>1, <1>2, PTL DEF Spec

\* The rows of a Run keep their types, no Job passes its attempt_limit, and the counts of
\* active work and quota never go below zero, for every set of legs and every Plan.
THEOREM RunTypes == Spec => []TypeOK
<1>1. RunInvariant => TypeOK
  BY DEF RunInvariant
<1> QED
  BY <1>1, RunInvariantHolds, PTL

\* active_work_count and the reserved quota equal the number of leases, whoever ended them.
THEOREM PermitsFollowLeases == Spec => []PermitsMatchLeases
<1>1. RunInvariant => PermitsMatchLeases
  BY DEF RunInvariant
<1> QED
  BY <1>1, RunInvariantHolds, PTL

\* A woken Join finds its legs decided as they were when it was woken.
THEOREM VerdictsStand == Spec => []VerdictStands
<1>1. RunInvariant => VerdictStands
  BY DEF RunInvariant
<1> QED
  BY <1>1, RunInvariantHolds, PTL

\* Scopes close inside out, and a live Job's Node is in the state its Job implies.
THEOREM ScopesAreNested == Spec => []ScopesCloseInsideOut
<1>1. RunInvariant => ScopesCloseInsideOut
  BY DEF RunInvariant
<1> QED
  BY <1>1, RunInvariantHolds, PTL

\* A Run ends as its controls and its deadline say.
THEOREM OutcomesMatchControls == Spec => []OutcomeMatchesControl
<1>1. RunInvariant => OutcomeMatchesControl
  BY DEF RunInvariant
<1> QED
  BY <1>1, RunInvariantHolds, PTL

\* A Run that is active always has a Job, a Task or a child that moves it on, and one that
\* waits has what will wake it: no order of leg exits, wakes, expiries and recoveries loses it.
THEOREM WorkIsKeptForEveryPlan == Spec => []WorkIsNeverLost
<1>1. RunInvariant => WorkIsNeverLost
  <2> SUFFICES ASSUME RunInvariant
               PROVE  WorkIsNeverLost
    OBVIOUS
  <2>1. ASSUME run.state \in ActiveState
        PROVE  (\E n \in Nodes : HasLiveJob(n)) \/ PendingTasks # {} \/ OpenLinks # {}
    <3>1. \E n \in LiveNodes : node[n] # "pending"
      <4>1. \A n \in Nodes : node[n] = "pending" => n = "join"
        BY DEF RunInvariant, PlanOrder
      <4>2. \A l \in Legs : scope[l] = "open" => l \in LiveNodes
        BY <2>1 DEF RunInvariant, ActivePart
      <4>3. \/ "fork" \in LiveNodes
            \/ \E l \in Legs : scope[l] = "open"
            \/ "join" \in LiveNodes /\ node["join"] # "pending"
            \/ "end" \in LiveNodes
        BY <2>1 DEF RunInvariant, ActivePart
      <4> QED
        BY <4>1, <4>2, <4>3, NodeNames
    <3>2. \A n \in LiveNodes :
            HasLiveJob(n) \/ n \in PendingTasks \cup OpenLinks \/ node[n] = "pending"
      BY <2>1 DEF RunInvariant, ActivePart
    <3> QED
      BY <3>1, <3>2 DEF LiveNodes
  <2>2. run.state = "waiting" =>
          run.active = 0 /\ \E l \in Legs : wait[l] = "pending" /\ node[l] = "waiting"
    BY DEF RunInvariant, WaitingPart
  <2> QED
    BY <2>1, <2>2 DEF WorkIsNeverLost
<1> QED
  BY <1>1, RunInvariantHolds, PTL

-----------------------------------------------------------------------------
(* The Run implements its lifecycle.                                       *)

RunMembers == {"node", "scope", "wait", "child", "lease"} \X (Nodes \cup Scopes)

\* An active Run has members, and an ended one has none.
MembersPart ==
    /\ Alive \in SUBSET RunMembers
    /\ run.state \in ActiveState => Alive # {}
    /\ run.state \in TerminalState => Alive = {}
    /\ run.state \in RunState

\* Without a live Node or an open Scope a Run has no members.
LEMMA NobodyAlive ==
    ASSUME RunInvariant, LiveNodes = {}, \A s \in Scopes : scope[s] # "open"
    PROVE  Alive = {}
<1>1. \A n \in Nodes : ~Held(n) /\ node[n] # "waiting"
  BY LiveJobs DEF Absent, TerminalState
<1>2. \A l \in Legs : ~OpenWait(l) /\ ~OpenChild(l)
  BY <1>1, NodeNames DEF RunInvariant, WaitPart
<1> QED
  BY <1>1, <1>2 DEF Alive, OpenWait, OpenChild

\* An active Run has members, an ended one none.
LEMMA MembersFollow == RunInvariant => MembersPart
<1> SUFFICES ASSUME RunInvariant
             PROVE  MembersPart
  OBVIOUS
<1>1. Alive \in SUBSET RunMembers
  BY NodeNames DEF Alive, RunMembers, LiveNodes
<1>2. run.state \in ActiveState => <<"scope", "root">> \in Alive
  BY NodeNames DEF Alive, RunInvariant, ActivePart
<1>3. run.state \in TerminalState => Alive = {}
  BY NobodyAlive DEF RunInvariant, EndedPart
<1>4. run.state \in RunState
  BY RunFacts DEF Runs
<1> QED
  BY <1>1, <1>2, <1>3, <1>4 DEF MembersPart

\* No member is new.
MembersShrink ==
    /\ \A n \in Nodes : (n \in LiveNodes' => n \in LiveNodes) /\ (Held(n)' => Held(n))
    /\ \A s \in Scopes : scope'[s] = "open" => scope[s] = "open"
    /\ \A l \in Legs : (OpenWait(l)' => OpenWait(l)) /\ (OpenChild(l)' => OpenChild(l))

\* If no kind of member gains one, there are no new members.
LEMMA AliveShrinks ==
    ASSUME MembersShrink
    PROVE  Alive' \subseteq Alive
<1>1. LiveNodes' \subseteq LiveNodes
  BY DEF MembersShrink, LiveNodes
<1>2. {<<"node", n>> : n \in LiveNodes'} \subseteq {<<"node", n>> : n \in LiveNodes}
  BY <1>1
<1>3. {<<"scope", s>> : s \in {t \in Scopes : scope'[t] = "open"}}
        \subseteq {<<"scope", s>> : s \in {t \in Scopes : scope[t] = "open"}}
  BY DEF MembersShrink
<1>4. {<<"wait", l>> : l \in {m \in Legs : wait'[m] \in {"pending", "cancelling"}}}
        \subseteq {<<"wait", l>> : l \in {m \in Legs : wait[m] \in {"pending", "cancelling"}}}
  BY DEF MembersShrink, OpenWait
<1>5. {<<"child", l>> : l \in {m \in Legs : child'[m].state \in {"active", "cancelling"}}}
        \subseteq {<<"child", l>> : l \in {m \in Legs : child[m].state \in {"active", "cancelling"}}}
  BY DEF MembersShrink, OpenChild
<1>6. {<<"lease", n>> : n \in {m \in Nodes : Held(m)'}}
        \subseteq {<<"lease", n>> : n \in {m \in Nodes : Held(m)}}
  BY DEF MembersShrink
<1> QED
  BY <1>2, <1>3, <1>4, <1>5, <1>6 DEF Alive, Nodes, Scopes

\* How a step of the Run looks to its lifecycle.
LifecycleMove ==
    \/ run.state \in ActiveState /\ run'.state = run.state
    \/ run.state = "queued" /\ run'.state = "running"
    \/ run.state = "running" /\ run'.state = "waiting"
    \/ run.state = "waiting" /\ run'.state = "running"
    \/ /\ run.state \in ActiveState \cup {"cancelling"} /\ run'.state = "cancelling"
       /\ MembersShrink
    \/ run.state = "running" /\ run'.state \in {"succeeded", "failed"}
    \/ /\ run.state = "cancelling" /\ run'.state \in {"cancelled", "failed", "timed_out"}
       /\ Alive = {}
    \/ run.state \in TerminalState /\ run'.state = run.state

\* A lifecycle move is a step of RunLifecycle or leaves its variables alone.
LEMMA MoveIsLifecycleStep ==
    ASSUME MembersPart, MembersPart', LifecycleMove
    PROVE  [Lifecycle!Next]_(Lifecycle!vars)
<1> USE DEF Lifecycle!Next, Lifecycle!vars, Lifecycle!Work, Lifecycle!Condemn,
            Lifecycle!CloseMembers, Lifecycle!Finish, Lifecycle!ActiveState,
            Lifecycle!TerminalState, Lifecycle!Successor
<1>1. CASE \/ run.state \in ActiveState /\ run'.state = run.state
           \/ run.state = "queued" /\ run'.state = "running"
           \/ run.state = "running" /\ run'.state = "waiting"
           \/ run.state = "waiting" /\ run'.state = "running"
  <2>1. Alive' \in SUBSET RunMembers /\ Alive' # {}
    BY <1>1 DEF MembersPart, ActiveState, RunMembers, Nodes, Scopes
  <2>2. /\ run.state \in Lifecycle!ActiveState /\ run'.state \in Lifecycle!ActiveState
        /\ run'.state \in {run.state} \cup Lifecycle!Successor[run.state]
    BY <1>1 DEF ActiveState
  <2>3. Lifecycle!Work
    <3> HIDE DEF Lifecycle!ActiveState, Lifecycle!Successor
    <3> QED
      BY <2>1, <2>2 DEF RunMembers
  <2> QED
    BY <2>3
<1>2. CASE /\ run.state \in ActiveState \cup {"cancelling"} /\ run'.state = "cancelling"
           /\ MembersShrink
  <2>1. Alive' \in SUBSET Alive
    BY <1>2, AliveShrinks
  <2>2. CASE run.state \in ActiveState
    BY <1>2, <2>1, <2>2 DEF ActiveState
  <2>3. CASE run.state = "cancelling"
    <3>1. CASE Alive' = Alive
      BY <1>2, <2>3, <3>1
    <3>2. CASE Alive' # Alive
      BY <1>2, <2>1, <2>3, <3>2
    <3> QED
      BY <3>1, <3>2
  <2> QED
    BY <1>2, <2>2, <2>3
<1>3. CASE run.state = "running" /\ run'.state \in {"succeeded", "failed"}
  <2>1. Alive' = {}
    BY <1>3 DEF MembersPart, TerminalState
  <2>2. Lifecycle!Finish
    BY <1>3, <2>1
  <2> QED
    BY <2>2
<1>4. CASE /\ run.state = "cancelling" /\ run'.state \in {"cancelled", "failed", "timed_out"}
           /\ Alive = {}
  <2>1. Alive' = {}
    BY <1>4 DEF MembersPart, TerminalState
  <2>2. Lifecycle!Finish
    BY <1>4, <2>1
  <2> QED
    BY <2>2
<1>5. CASE run.state \in TerminalState /\ run'.state = run.state
  <2>1. Alive = {} /\ Alive' = {}
    BY <1>5 DEF MembersPart, TerminalState
  <2> QED
    BY <1>5, <2>1
<1> QED
  BY <1>1, <1>2, <1>3, <1>4, <1>5 DEF LifecycleMove

\* A step at one Node is a lifecycle move.
LEMMA NodeStepMoves ==
    ASSUME RunInvariant, NEW n \in Nodes, NodeStep(n)
    PROVE  LifecycleMove
<1>1. ASSUME run'.state = "cancelling"
      PROVE  MembersShrink
  <2>1. \A m \in Nodes : (m \in LiveNodes' => m \in LiveNodes) /\ (Held(m)' => Held(m))
    BY <1>1 DEF NodeStep, NodeMoves, WorkIsKept, LiveNodes, Ended, Held, ActiveState
  <2>2. \A l \in Legs : (OpenWait(l)' => OpenWait(l)) /\ (OpenChild(l)' => OpenChild(l))
    BY <1>1 DEF NodeStep, WaitMoves, WorkIsKept, OpenWait, OpenChild, ActiveState
  <2> QED
    BY <2>1, <2>2 DEF MembersShrink, NodeStep, NodeMoves
<1>2. run.state \in ActiveState \cup {"cancelling"}
  BY RunFacts DEF NodeStep, NodeMoves, RunInvariant, EndedPart, Runs, RunState
<1> QED
  BY <1>1, <1>2 DEF LifecycleMove, NodeStep, RunGoesOn, ActiveState

\* A step that leaves the Nodes and Scopes alone and opens nothing.
LEMMA StandingRowsMove ==
    ASSUME RunInvariant, UNCHANGED node, \A s \in Scopes : scope'[s] = "open" => scope[s] = "open",
           \A n \in Nodes : job'[n].state = job[n].state,
           \A l \in Legs : (OpenWait(l)' => OpenWait(l)) /\ (OpenChild(l)' => OpenChild(l)),
           \/ run'.state = run.state
           \/ run.state \in ActiveState /\ run'.state = "cancelling"
    PROVE  LifecycleMove
<1>1. MembersShrink
  BY DEF MembersShrink, LiveNodes, Ended, Held
<1> QED
  BY <1>1, RunFacts DEF LifecycleMove, Runs, RunState

\* Every step of the Run is a step of its lifecycle or changes nothing of it.
LEMMA NextMoves ==
    ASSUME RunInvariant, [Next]_vars
    PROVE  LifecycleMove
<1>1. CASE NodeTransaction
  BY <1>1, NodeTransactions, NodeStepMoves
<1>2. CASE \/ \E l \in Legs : leg_exit(l) \/ leg_fail(l)
           \/ fan_out \/ join_step
  <2>1. run.state = "running"
    BY <1>2 DEF leg_exit, leg_fail, settle_parallel_leg, fan_out, join_step, Fenced
  <2>2. run'.state = run.state
    BY <1>2, RunFacts DEF leg_exit, leg_fail, settle_parallel_leg, fan_out, join_step, Runs
  <2> QED
    BY <2>1, <2>2 DEF LifecycleMove, ActiveState
<1>3. CASE \E l \in Legs : \/ \E outcome \in {"succeeded", "failed"} : child_returns(l, outcome)
                           \/ \E intent \in {"cancel", "timeout", "failure"} : condemn_child(l, intent)
                           \/ converge_child(l)
  <2>1. PICK l \in Legs : /\ UNCHANGED <<plan, run, node, scope, job, wait, reserved, clock, verdict>>
                          /\ OpenChild(l) /\ \A m \in Legs \ {l} : child'[m] = child[m]
    BY <1>3, ChildAlone
  <2>2. \A m \in Legs : (OpenWait(m)' => OpenWait(m)) /\ (OpenChild(m)' => OpenChild(m))
    BY <2>1 DEF OpenWait, OpenChild
  <2> QED
    BY <2>1, <2>2, StandingRowsMove
<1>4. CASE \E l \in Legs : drive_child_run_cancellations(l)
  <2>1. PICK l \in Legs : drive_child_run_cancellations(l)
    BY <1>4
  <2>2. OpenWait(l) /\ OpenChild(l)
    <3>1. child[l].state # Absent /\ child[l].state \notin TerminalState
      BY <2>1 DEF drive_child_run_cancellations, RunInvariant, WaitPart
    <3> QED
      BY <2>1, <3>1, RunFacts DEF drive_child_run_cancellations, OpenWait, OpenChild, ChildRow
  <2>3. \A m \in Legs \ {l} : wait'[m] = wait[m] /\ child'[m] = child[m]
    BY <2>1, RunFacts DEF drive_child_run_cancellations
  <2>4. \A m \in Legs : (OpenWait(m)' => OpenWait(m)) /\ (OpenChild(m)' => OpenChild(m))
    BY <2>2, <2>3 DEF OpenWait, OpenChild
  <2> QED
    BY <2>1, <2>4, StandingRowsMove DEF drive_child_run_cancellations
<1>5. CASE join_fail \/ \E outcome \in {"succeeded", "failed"} : commit_plan_terminal(outcome)
  <2>1. run.state = "running"
    BY <1>5 DEF join_fail, commit_plan_terminal, Fenced
  <2>2. run'.state \in {"succeeded", "failed"}
    BY <1>5, RunFacts DEF join_fail, commit_plan_terminal, end_run, Runs
  <2> QED
    BY <2>1, <2>2 DEF LifecycleMove
<1>6. CASE pause_run \/ cancel_run \/ observe_timeout \/ converge_control
  <2>1. UNCHANGED <<node, scope, job, wait, child>>
    BY <1>6 DEF pause_run, cancel_run, observe_timeout, converge_control
  <2>2. \/ run'.state = run.state
        \/ run.state \in ActiveState /\ run'.state = "cancelling"
    BY <1>6, RunFacts
    DEF pause_run, cancel_run, observe_timeout, converge_control, Condemned, Runs, RunState
  <2> QED
    BY <2>1, <2>2, StandingRowsMove DEF OpenWait, OpenChild
<1>7. CASE tick
  <2>1. UNCHANGED <<run, node, scope, wait, child>> /\ \A n \in Nodes : job'[n].state = job[n].state
    BY <1>7, RunFacts DEF tick, JobRow
  <2> QED
    BY <2>1, StandingRowsMove DEF OpenWait, OpenChild
<1>8. CASE \E l \in Legs : converge_task(l)
  <2>1. PICK l \in Legs : converge_task(l)
    BY <1>8
  <2>2. \A m \in Legs : (OpenWait(m)' => OpenWait(m)) /\ (OpenChild(m)' => OpenChild(m))
    BY <2>1, RunFacts DEF converge_task, OpenWait, OpenChild
  <2> QED
    BY <2>1, <2>2, StandingRowsMove DEF converge_task
<1>9. CASE \E s \in Scopes : converge_scope(s)
  <2>1. PICK s \in Scopes : converge_scope(s)
    BY <1>9
  <2>2. \A t \in Scopes : scope'[t] = "open" => scope[t] = "open"
    BY <2>1, RunFacts DEF converge_scope, closable
  <2> QED
    BY <2>1, <2>2, StandingRowsMove DEF converge_scope, OpenWait, OpenChild
<1>10. CASE converge_terminal
  <2>1. /\ Condemned /\ Observed /\ LiveNodes = {} /\ \A s \in Scopes : scope[s] # "open"
        /\ run' = [run EXCEPT !.state = goal]
    BY <1>10 DEF converge_terminal
  <2>2. run.state = "cancelling" /\ goal \in {"timed_out", "cancelled", "failed"}
    BY <2>1, GoalFacts DEF Observed
  <2>3. run'.state = goal
    BY <2>1, RunFacts DEF Runs
  <2>4. Alive = {}
    BY <2>1, NobodyAlive
  <2> QED
    BY <2>2, <2>3, <2>4 DEF LifecycleMove
<1>11. CASE Settled \/ UNCHANGED vars
  <2>1. UNCHANGED <<run, node, scope, job, wait, child>>
    BY <1>11 DEF Settled, vars
  <2> QED
    BY <2>1, StandingRowsMove DEF OpenWait, OpenChild
<1> QED
  BY <1>1, <1>2, <1>3, <1>4, <1>5, <1>6, <1>7, <1>8, <1>9, <1>10, <1>11
  DEF Next, NextLeg, NextChild, NextRoot, NextControl, converge_run_step, NodeTransaction

\* A Run of any Plan implements its lifecycle: it follows the table of RunState, once it is
\* cancelling its Nodes, Scopes, waits, children and leases only end, and none outlives it.
THEOREM RunImplementsLifecycle == Spec => ImplementsLifecycle
<1>1. Init => Lifecycle!Init
  <2> SUFFICES ASSUME Init
               PROVE  Lifecycle!Init
    OBVIOUS
  <2>1. run.state = "queued"
    BY DEF Init
  <2>2. Alive \in SUBSET RunMembers /\ Alive # {}
    BY <2>1, InitKeeps, MembersFollow DEF MembersPart, ActiveState
  <2> QED
    BY <2>1, <2>2 DEF Lifecycle!Init, RunMembers
<1>2. RunInvariant /\ MembersPart /\ MembersPart' /\ [Next]_vars => [Lifecycle!Next]_(Lifecycle!vars)
  BY NextMoves, MoveIsLifecycleStep
<1> QED
  BY <1>1, <1>2, RunInvariantHolds, MembersFollow, PTL DEF Spec, ImplementsLifecycle, Lifecycle!Spec
=============================================================================
