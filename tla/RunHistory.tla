----------------------------- MODULE RunHistory -----------------------------
(***************************************************************************)
(* The public events of one Run: committed with their outbox rows,         *)
(* delivered to JetStream by outbox worker processes, read page by page by *)
(* clients, and deleted, as a contiguous prefix, by the maintenance        *)
(* process.  Every repository method is one transaction and one action;    *)
(* a drain (claim, then publish and settle one claim after the other) is   *)
(* several actions, and may stop between any two of them.  A settlement    *)
(* whose caller gave up may still reach the database later.                *)
(*                                                                         *)
(* Abstracted: an event is known by its public_sequence; what else keeps   *)
(* an event (Receipts, provenance, other owners) only ends a purge early;  *)
(* permission, receipt and version checks of the hold commands only refuse *)
(* them.  Internal events, which have no sequence, are left out.           *)
(***************************************************************************)
EXTENDS Integers, FiniteSets

CONSTANTS Processes,       \* outbox worker process generations
          NoProcess,       \* claim_owner is NULL
          Readers,         \* clients that page through the events
          HoldKeys,        \* history hold keys
          Incompatible,    \* events whose notice violates the delivery contract
          MaxSequence,     \* the Run emits at most this many public events
          ClaimBatch,      \* maximum_claims of a drain
          Lease,           \* lease_milliseconds of a claim
          RetryDelays,     \* retry delays, between the base and the maximum
          MaxEpoch,        \* largest claim_epoch (i64::MAX in the code)
          EventWindow,     \* minimum age of a deleted event
          OutboxWindow,    \* minimum age of a deleted delivery
          PurgeBatch,      \* maximum_events of a purge
          PageLimit,       \* events per page
          MaxTime          \* the clock stops here

ASSUME HistoryAssumption ==
    /\ NoProcess \notin Processes
    /\ MaxSequence \in Nat /\ MaxEpoch \in Nat /\ MaxTime \in Nat
    /\ Lease \in Nat \ {0}
    /\ RetryDelays \subseteq Nat \ {0}
    /\ EventWindow \in Nat /\ OutboxWindow \in Nat
    /\ ClaimBatch \in Nat /\ PurgeBatch \in Nat /\ PageLimit \in Nat \ {0}

VARIABLES now,      \* the database clock
          run,      \* the Run's row: watermarks, termination, holds
          event,    \* event[e]: occurred_at of event e, None while there is no such row
          outbox,   \* outbox[e]: the outbox row of event e
          drain,    \* drain[p]: the claims and the publication under way in process p
          late,     \* late[p]: a settlement p gave up on, still on its way
          stream,   \* the messages JetStream holds
          target,   \* the purge target the maintenance scan chose, or None
          reader    \* reader[r]: where client r is, and what it was given

vars == <<now, run, event, outbox, drain, late, stream, target, reader>>

None == -1
OptionTime == Nat \cup {None}
EventNumbers == 1..MaxSequence

\* What a terminal Run may still have to do: its active work, and its Jobs,
\* invocations, tasks and cleanups.
Obligations == {"active_work", "cleanup"}

OutboxState == {"absent", "pending", "publishing", "retry", "published", "incompatible"}
NoRow == [state |-> "absent", owner |-> NoProcess, epoch |-> 0, claim_expires_at |-> None,
          next_publish_at |-> 0, published_at |-> None]

\* What the publisher came back with, per claim.  The fence of a claim is its event
\* and epoch; its expiry, which only the row has, is kept for the properties.
Answer == {"none", "acknowledged", "unavailable", "incompatible"}
NoFence == [event |-> 0, epoch |-> 0, expires_at |-> 0]
Idle == [claims |-> {}, fence |-> NoFence, answer |-> "none"]
NoSettlement == [fence |-> NoFence, answer |-> "none"]

Initial == [position |-> None, started_after |-> 0, truncated |-> FALSE, seen |-> {}]

Init ==
    /\ now = 0
    /\ run = [sequence |-> 0, floor |-> 0, terminal |-> FALSE,
              obligations |-> Obligations, holds |-> {}]
    /\ event = [e \in EventNumbers |-> None]
    /\ outbox = [e \in EventNumbers |-> NoRow]
    /\ drain = [p \in Processes |-> Idle]
    /\ late = [p \in Processes |-> NoSettlement]
    /\ stream = {}
    /\ target = None
    /\ reader = [r \in Readers |-> Initial]

Tick ==
    /\ now < MaxTime
    /\ now' = now + 1
    /\ UNCHANGED <<run, event, outbox, drain, late, stream, target, reader>>

-----------------------------------------------------------------------------
(* The Run.  An event and its delivery obligation are committed together.  *)

\* Mutant: the row is inserted without a time to publish it at.
new_row_unscheduled(time) == [NoRow EXCEPT !.state = "pending", !.next_publish_at = None]

new_row(time) == [NoRow EXCEPT !.state = "pending", !.next_publish_at = time]

append_event(terminal) ==
    /\ run.sequence < MaxSequence
    /\ LET e == run.sequence + 1 IN
          /\ run' = [run EXCEPT !.sequence = e, !.terminal = run.terminal \/ terminal]
          /\ event' = [event EXCEPT ![e] = now]
          /\ outbox' = [outbox EXCEPT ![e] = new_row(now)]
    /\ UNCHANGED <<now, drain, late, stream, target, reader>>

obligation_ends(o) ==
    /\ run.terminal /\ o \in run.obligations
    /\ run' = [run EXCEPT !.obligations = @ \ {o}]
    /\ UNCHANGED <<now, event, outbox, drain, late, stream, target, reader>>

place_run_history_hold(key) ==
    /\ key \notin run.holds
    /\ run' = [run EXCEPT !.holds = @ \cup {key}]
    /\ UNCHANGED <<now, event, outbox, drain, late, stream, target, reader>>

release_run_history_hold(key) ==
    /\ key \in run.holds
    /\ run' = [run EXCEPT !.holds = @ \ {key}]
    /\ UNCHANGED <<now, event, outbox, drain, late, stream, target, reader>>

-----------------------------------------------------------------------------
(* Delivery.                                                               *)

due(e) ==
    /\ outbox[e].published_at = None
    /\ outbox[e].next_publish_at <= now
    /\ \/ outbox[e].state \in {"pending", "retry"}
       \/ outbox[e].state = "publishing" /\ outbox[e].claim_expires_at <= now
    /\ outbox[e].epoch < MaxEpoch

claimed(row, p) ==
    [row EXCEPT !.state = "publishing", !.owner = p, !.epoch = row.epoch + 1,
                !.claim_expires_at = now + Lease]

refused(row) ==
    [row EXCEPT !.state = "incompatible", !.owner = NoProcess, !.epoch = row.epoch + 1,
                !.claim_expires_at = None]

\* Rows locked by others are skipped, so any due rows may be handed out; a row
\* that does not decode is marked incompatible in the same transaction.
claim_due_committed_events(p) ==
    /\ drain[p] = Idle
    /\ \E batch \in SUBSET {e \in EventNumbers : due(e)} :
          /\ batch # {} /\ Cardinality(batch) <= ClaimBatch
          /\ \E undecoded \in SUBSET (batch \cap Incompatible) :
                /\ outbox' = [e \in EventNumbers |->
                                 IF e \in undecoded THEN refused(outbox[e])
                                 ELSE IF e \in batch THEN claimed(outbox[e], p)
                                 ELSE outbox[e]]
                /\ drain' = [drain EXCEPT ![p] =
                      [Idle EXCEPT !.claims =
                          {[event |-> e, epoch |-> outbox[e].epoch + 1,
                            expires_at |-> now + Lease] : e \in batch \ undecoded}]]
    /\ UNCHANGED <<now, run, event, late, stream, target, reader>>

\* One claim at a time, in the order of their outbox ids, which the committing
\* commands drew.  A message may be stored although no confirmation came back.
publish(p) ==
    /\ drain[p].answer = "none"
    /\ \E fence \in drain[p].claims :
          \E answer \in IF fence.event \in Incompatible THEN {"incompatible"}
                        ELSE {"acknowledged", "unavailable"} :
              /\ drain' = [drain EXCEPT ![p] = [claims |-> @.claims \ {fence},
                                                fence |-> fence, answer |-> answer]]
              /\ \/ answer # "incompatible" /\ stream' = stream \cup {fence.event}
                 \/ answer # "acknowledged" /\ UNCHANGED stream
    /\ UNCHANGED <<now, run, event, outbox, late, target, reader>>

\* Mutant: the claim is recognised by its owner only.
claim_of_same_owner(row, fence, p) ==
    row.owner = p /\ row.state = "publishing" /\ now < row.claim_expires_at

\* Mutant: a settlement is applied to the row whoever claimed it since.
any_claim(row, fence, p) == row.state # "absent"

current_claim(row, fence, p) ==
    /\ row.owner = p
    /\ row.epoch = fence.epoch
    /\ row.state = "publishing"
    /\ now < row.claim_expires_at
    /\ row.published_at = None

\* Mutant: a message that was sent counts as delivered.
settled_when_sent(row, answer, delay) ==
    [row EXCEPT !.state = IF answer = "incompatible" THEN "incompatible" ELSE "published",
                !.owner = NoProcess, !.claim_expires_at = None, !.next_publish_at = now,
                !.published_at = IF answer = "incompatible" THEN None ELSE now]

settled(row, answer, delay) ==
    [row EXCEPT !.state = CASE answer = "acknowledged" -> "published"
                            [] answer = "unavailable" -> "retry"
                            [] OTHER -> "incompatible",
                !.owner = NoProcess,
                !.claim_expires_at = None,
                !.next_publish_at = IF answer = "unavailable" THEN now + delay ELSE now,
                !.published_at = IF answer = "acknowledged" THEN now ELSE None]

apply_settlement(p, fence, answer) ==
    IF current_claim(outbox[fence.event], fence, p)
    THEN \E delay \in RetryDelays :
            outbox' = [outbox EXCEPT ![fence.event] = settled(@, answer, delay)]
    ELSE UNCHANGED outbox

\* A lost fence is counted and the drain goes on with the next claim.
settle_committed_event(p) ==
    /\ drain[p].answer # "none"
    /\ apply_settlement(p, drain[p].fence, drain[p].answer)
    /\ drain' = [drain EXCEPT ![p] = [@ EXCEPT !.fence = NoFence, !.answer = "none"]]
    /\ UNCHANGED <<now, run, event, late, stream, target, reader>>

\* The drain ends early, on an error or with its process; its claims run out.
abandon_drain(p) ==
    /\ drain[p] # Idle
    /\ drain' = [drain EXCEPT ![p] = Idle]
    /\ \/ UNCHANGED late
       \/ /\ drain[p].answer # "none"
          /\ late' = [late EXCEPT ![p] = [fence |-> drain[p].fence, answer |-> drain[p].answer]]
    /\ UNCHANGED <<now, run, event, outbox, stream, target, reader>>

late_settlement(p) ==
    /\ late[p].answer # "none"
    /\ apply_settlement(p, late[p].fence, late[p].answer)
    /\ late' = [late EXCEPT ![p] = NoSettlement]
    /\ UNCHANGED <<now, run, event, drain, stream, target, reader>>

-----------------------------------------------------------------------------
(* Retention.                                                              *)

\* The scan freezes a target; the purge checks everything else again.
scan_history_retention_runs ==
    /\ run.terminal /\ "active_work" \notin run.obligations
    /\ run.sequence > run.floor
    /\ target' = run.sequence
    /\ UNCHANGED <<now, run, event, outbox, drain, late, stream, reader>>

delivered_long_ago(e) ==
    outbox[e].state = "published" /\ outbox[e].published_at + OutboxWindow <= now

\* The first event that must be kept, for whatever reason, ends the prefix.
delete_prefix ==
    \E through \in (run.floor + 1)..target :
        LET prefix == (run.floor + 1)..through IN
        /\ through - run.floor <= PurgeBatch
        /\ \A e \in prefix : /\ event[e] # None
                             /\ event[e] + EventWindow <= now
                             /\ outbox[e].state = "absent" \/ delivered_long_ago(e)
        /\ event' = [e \in EventNumbers |-> IF e \in prefix THEN None ELSE event[e]]
        /\ outbox' = [e \in EventNumbers |-> IF e \in prefix THEN NoRow ELSE outbox[e]]
        /\ run' = [run EXCEPT !.floor = through]

\* Mutant: the purge trusts the holds of an earlier look at the Run.
purge_despite_hold ==
    /\ target # None
    /\ target <= run.sequence /\ run.floor < target
    /\ run.terminal /\ run.obligations = {}
    /\ delete_prefix
    /\ target' = None
    /\ UNCHANGED <<now, drain, late, stream, reader>>

\* The Run must be quiet and not held when its events are deleted.
purge_public_run_event_prefix ==
    /\ target # None
    /\ target <= run.sequence /\ run.floor < target
    /\ run.holds = {} /\ run.terminal /\ run.obligations = {}
    /\ delete_prefix
    /\ target' = None
    /\ UNCHANGED <<now, drain, late, stream, reader>>

\* The candidate is kept: held, busy, locked, or its first event must stay.
retain_candidate ==
    /\ target # None
    /\ target' = None
    /\ UNCHANGED <<now, run, event, outbox, drain, late, stream, reader>>

\* A delivery that is long settled is retired before its event.
retire_event(e) ==
    /\ event[e] # None
    /\ delivered_long_ago(e)
    /\ outbox' = [outbox EXCEPT ![e] = NoRow]
    /\ UNCHANGED <<now, run, event, drain, late, stream, target, reader>>

-----------------------------------------------------------------------------
(* Reading.                                                                *)

\* Mutant: a position before the replay floor is moved up to it.
resolve_to_floor(position) ==
    IF position < run.floor THEN {run.floor} ELSE {position} \cap (0..run.sequence)

\* The sequence a page starts after, or nothing: HistoryGap, CursorAhead.
resolve(position) ==
    IF position = None THEN {run.floor} ELSE {position} \cap (run.floor..run.sequence)

\* The stored events after a sequence, up to the limit.
page_after(after) ==
    {e \in EventNumbers :
        /\ event[e] # None /\ after < e
        /\ Cardinality({d \in EventNumbers : event[d] # None /\ after < d /\ d <= e}) <= PageLimit}

read_public_run_events(r) ==
    /\ \E after \in resolve(reader[r].position) :
          LET page == page_after(after) IN
          \E last \in {after} \cup page :
              /\ \A e \in page : e <= last
              /\ reader' = [reader EXCEPT ![r] =
                    [position |-> last,
                     started_after |-> IF @.position = None THEN after ELSE @.started_after,
                     truncated |-> IF @.position = None THEN run.floor > 0 ELSE @.truncated,
                     seen |-> @.seen \cup page]]
    /\ UNCHANGED <<now, run, event, outbox, drain, late, stream, target>>

\* The client is told of the gap and starts over.
history_gap(r) ==
    /\ reader[r].position # None /\ reader[r].position < run.floor
    /\ reader' = [reader EXCEPT ![r] = Initial]
    /\ UNCHANGED <<now, run, event, outbox, drain, late, stream, target>>

-----------------------------------------------------------------------------
Deliver(p) ==
    \/ claim_due_committed_events(p)
    \/ publish(p)
    \/ settle_committed_event(p)
    \/ abandon_drain(p)
    \/ late_settlement(p)

Maintain ==
    \/ scan_history_retention_runs
    \/ purge_public_run_event_prefix
    \/ retain_candidate
    \/ \E e \in EventNumbers : retire_event(e)

Next ==
    \/ Tick
    \/ \E terminal \in BOOLEAN : append_event(terminal)
    \/ \E o \in Obligations : obligation_ends(o)
    \/ \E key \in HoldKeys : place_run_history_hold(key) \/ release_run_history_hold(key)
    \/ \E p \in Processes : Deliver(p)
    \/ Maintain
    \/ \E r \in Readers : read_public_run_events(r) \/ history_gap(r)

Spec == Init /\ [][Next]_vars

-----------------------------------------------------------------------------
(* Properties.                                                             *)

Run == [sequence : 0..MaxSequence, floor : 0..MaxSequence, terminal : BOOLEAN,
        obligations : SUBSET Obligations, holds : SUBSET HoldKeys]
Row == [state : OutboxState, owner : Processes \cup {NoProcess}, epoch : Nat,
        claim_expires_at : OptionTime, next_publish_at : Nat, published_at : OptionTime]
Fence == [event : EventNumbers, epoch : Nat, expires_at : Nat]
Drain == [claims : SUBSET Fence, fence : Fence \cup {NoFence}, answer : Answer]
Settlement == [fence : Fence \cup {NoFence}, answer : Answer]
Reader == [position : OptionTime, started_after : Nat, truncated : BOOLEAN,
           seen : SUBSET EventNumbers]

\* The claims a drain still means to settle, the one under publication included.
unsettled(p) ==
    drain[p].claims \cup (IF drain[p].answer = "none" THEN {} ELSE {drain[p].fence})

\* The variables keep their types.
TypeOK ==
    /\ now \in Nat
    /\ run \in Run
    /\ event \in [EventNumbers -> OptionTime]
    /\ outbox \in [EventNumbers -> Row]
    /\ drain \in [Processes -> Drain]
    /\ late \in [Processes -> Settlement]
    /\ stream \subseteq EventNumbers
    /\ target \in EventNumbers \cup {None}
    /\ reader \in [Readers -> Reader]

\* An obligation is only forgotten once it is met: when the outbox row of an event
\* is gone, by retirement or with the purged prefix, JetStream holds the message,
\* whatever crashes, lost confirmations and late settlements came before.
ForgottenMeansDelivered ==
    \A e \in EventNumbers :
        e <= run.sequence /\ outbox[e].state = "absent" => e \in stream

\* Two processes never have an unexpired claim on one event at the same time: a
\* settlement that is late does not release the claim somebody holds by then.
ClaimsDoNotOverlap ==
    \A p, q \in Processes :
        \A f \in unsettled(p), g \in unsettled(q) :
            p # q /\ f.event = g.event => f.expires_at <= now \/ g.expires_at <= now

\* Once an event is recorded as published its row does not change until it is
\* retired: no late retry or refusal puts it back into delivery.
PublishedIsFinal ==
    [][\A e \in EventNumbers :
          outbox[e].state = "published" => outbox'[e] \in {outbox[e], NoRow}]_vars

\* What a client has been given is a contiguous piece of the history, and it
\* starts at the first event unless the client was told that it is truncated,
\* however pages and purges interleave.
ReadersSeeNoGap ==
    \A r \in Readers :
        reader[r].position # None =>
            /\ reader[r].seen = (reader[r].started_after + 1)..reader[r].position
            /\ ~reader[r].truncated => reader[r].started_after = 0

\* While a hold stands nothing of the Run's history is deleted, also when the hold
\* is placed after the scan has chosen the Run.
HeldHistoryIsKept ==
    [][run.holds \cap run'.holds # {} =>
          \A e \in EventNumbers : event[e] # None => event'[e] = event[e]]_vars

\* The inductive invariant behind the safety properties.

\* Rows beyond the last sequence do not exist yet, and the stored events are
\* exactly those after the replay floor.
HistoryIsContiguous ==
    /\ run.floor <= run.sequence
    /\ \A e \in EventNumbers : event[e] # None <=> run.floor < e /\ e <= run.sequence
    /\ \A e \in EventNumbers : run.sequence < e => outbox[e] = NoRow

\* Whatever is recorded, or about to be recorded, as delivered is in the stream.
truthful(s) ==
    s.answer # "none" => /\ s.fence \in Fence
                         /\ s.answer = "acknowledged" => s.fence.event \in stream

DeliveryIsBacked ==
    /\ \A e \in EventNumbers : outbox[e].state = "published" => e \in stream
    /\ \A p \in Processes : truthful(drain[p]) /\ truthful(late[p])

\* A client is never ahead of the Run nor behind its own first page, and has
\* nothing before that page.
ReadersTrail ==
    \A r \in Readers :
        /\ reader[r].position <= run.sequence
        /\ reader[r].position # None => reader[r].started_after <= reader[r].position
        /\ reader[r].position = None => reader[r].seen = {}

HistoryInvariant ==
    /\ TypeOK
    /\ HistoryIsContiguous
    /\ DeliveryIsBacked
    /\ ForgottenMeansDelivered
    /\ ReadersTrail
    /\ ReadersSeeNoGap

\* Why claims do not overlap: an unexpired claim is the one its row records, a
\* drain has one claim per event, and whatever a process may still settle is of
\* an epoch the row has reached, a settlement it gave up on of an earlier one.
ClaimsAreCurrent ==
    \A p \in Processes : \A f \in unsettled(p) :
        now < f.expires_at =>
            /\ outbox[f.event].state = "publishing"
            /\ outbox[f.event].owner = p
            /\ outbox[f.event].epoch = f.epoch
            /\ outbox[f.event].claim_expires_at = f.expires_at

ClaimsAreDistinct ==
    \A p \in Processes :
        /\ \A f, g \in unsettled(p) : f.event = g.event => f = g
        /\ drain[p].answer # "none" => drain[p].fence \notin drain[p].claims

reached(f) ==
    /\ f.event <= run.sequence
    /\ outbox[f.event].state # "absent" => f.epoch <= outbox[f.event].epoch

FencesTrail ==
    \A p \in Processes :
        /\ \A f \in unsettled(p) : reached(f)
        /\ late[p].answer # "none" =>
              /\ reached(late[p].fence)
              /\ \A f \in unsettled(p) :
                    f.event = late[p].fence.event => late[p].fence.epoch < f.epoch

ClaimInvariant ==
    /\ ClaimsAreCurrent
    /\ ClaimsAreDistinct
    /\ FencesTrail
=============================================================================
