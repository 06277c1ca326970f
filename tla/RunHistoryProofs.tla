-------------------------- MODULE RunHistoryProofs --------------------------
(***************************************************************************)
(* Proofs about the public history of a Run, for every number of events,   *)
(* processes and clients and for every window, batch and lease.            *)
(***************************************************************************)
EXTENDS RunHistory, FiniteSetTheorems, TLAPS

\* The rows the delivery steps write.
LEMMA ClaimedRow ==
    ASSUME NEW row \in Row, NEW p \in Processes, now \in Nat
    PROVE  claimed(row, p) \in Row /\ claimed(row, p).state = "publishing"
<1>1. row.epoch + 1 \in Nat /\ now + Lease \in OptionTime
  BY HistoryAssumption DEF Row, OptionTime
<1>2. "publishing" \in OutboxState
  BY DEF OutboxState
<1> QED
  BY <1>1, <1>2 DEF claimed, Row

\* A refused row is a row, marked incompatible.
LEMMA RefusedRow ==
    ASSUME NEW row \in Row
    PROVE  refused(row) \in Row /\ refused(row).state = "incompatible"
<1>1. row.epoch + 1 \in Nat /\ None \in OptionTime
  BY DEF Row, OptionTime, None
<1>2. "incompatible" \in OutboxState
  BY DEF OutboxState
<1> QED
  BY <1>1, <1>2 DEF refused, Row

\* A settled row stays a row, published only when the answer was an acknowledgement.
LEMMA SettledRow ==
    ASSUME NEW row \in Row, NEW answer \in Answer \ {"none"}, NEW delay \in Nat, now \in Nat
    PROVE  /\ settled(row, answer, delay) \in Row
           /\ settled(row, answer, delay).state # "absent"
           /\ settled(row, answer, delay).state = "published" => answer = "acknowledged"
<1>1. None \in OptionTime /\ now \in OptionTime /\ now + delay \in Nat
  BY DEF OptionTime, None
<1>2. {"published", "retry", "incompatible"} \subseteq OutboxState
  BY DEF OutboxState
<1> QED
  BY <1>1, <1>2 DEF settled, Row, Answer

\* A new outbox row is pending.
LEMMA NewRow ==
    ASSUME NEW time \in Nat
    PROVE  /\ NoRow \in Row /\ new_row(time) \in Row
           /\ new_row(time).state = "pending"
<1>1. None \in OptionTime /\ {"absent", "pending"} \subseteq OutboxState
  BY DEF OptionTime, None, OutboxState
<1> QED
  BY <1>1 DEF new_row, NoRow, Row

\* A settlement changes one row, of a claim under publication.
LEMMA SettlementStep ==
    ASSUME TypeOK, NEW p \in Processes, NEW fence \in Fence, NEW answer \in Answer \ {"none"},
           apply_settlement(p, fence, answer)
    PROVE  \/ UNCHANGED outbox
           \/ \E n \in Row :
                /\ outbox[fence.event].state = "publishing"
                /\ outbox' = [outbox EXCEPT ![fence.event] = n]
                /\ n.state # "absent"
                /\ n.state = "published" => answer = "acknowledged"
<1>1. fence.event \in EventNumbers /\ outbox[fence.event] \in Row
  BY DEF Fence, TypeOK
<1>2. CASE current_claim(outbox[fence.event], fence, p)
  <2>1. PICK delay \in RetryDelays :
           outbox' = [outbox EXCEPT ![fence.event] = settled(outbox[fence.event], answer, delay)]
    BY <1>2 DEF apply_settlement
  <2>2. delay \in Nat /\ now \in Nat
    BY HistoryAssumption DEF TypeOK
  <2> QED
    BY <1>1, <1>2, <2>1, <2>2, SettledRow DEF current_claim
<1> QED
  BY <1>2 DEF apply_settlement

-----------------------------------------------------------------------------

\* The pages clients are given: without a hole, starting where they left off.
LEMMA PagesAreContiguous ==
    ASSUME TypeOK, HistoryIsContiguous, NEW after \in Nat,
           run.floor <= after, after <= run.sequence,
           NEW last \in {after} \cup page_after(after),
           \A e \in page_after(after) : e <= last
    PROVE  /\ page_after(after) = (after + 1)..last
           /\ last \in Nat /\ after <= last /\ last <= run.sequence
<1>1. run.sequence \in Nat /\ run.floor \in Nat /\ run.sequence <= MaxSequence
      /\ MaxSequence \in Nat /\ PageLimit \in Nat
  BY HistoryAssumption DEF TypeOK, Run
<1>2. ASSUME NEW e \in EventNumbers, event[e] # None, after < e
      PROVE  Cardinality({d \in EventNumbers : event[d] # None /\ after < d /\ d <= e}) = e - after
  <2>1. e <= run.sequence
    BY <1>2 DEF HistoryIsContiguous
  <2>2. {d \in EventNumbers : event[d] # None /\ after < d /\ d <= e} = (after + 1)..e
    BY <1>1, <2>1 DEF HistoryIsContiguous, EventNumbers
  <2>3. Cardinality((after + 1)..e) = e - after
    <3>1. Cardinality((after + 1)..e)
             = IF after + 1 > e THEN 0 ELSE e - (after + 1) + 1
      BY FS_Interval DEF EventNumbers
    <3> QED
      BY <1>2, <3>1 DEF EventNumbers
  <2> QED
    BY <2>2, <2>3
<1>3. page_after(after) = {e \in EventNumbers : after < e /\ e <= run.sequence
                                                /\ e - after <= PageLimit}
  <2>1. ASSUME NEW e \in EventNumbers
        PROVE  (event[e] # None /\ after < e) <=> (after < e /\ e <= run.sequence)
    BY <1>1, <2>1 DEF HistoryIsContiguous, EventNumbers
  <2> QED
    BY <1>2, <2>1 DEF page_after
<1>4. last \in Nat /\ after <= last /\ last <= run.sequence
  BY <1>1, <1>3 DEF EventNumbers
<1>5. ASSUME NEW e \in (after + 1)..last
      PROVE  e \in page_after(after)
  BY <1>1, <1>3, <1>4 DEF EventNumbers
<1>6. ASSUME NEW e \in page_after(after)
      PROVE  e \in (after + 1)..last
  BY <1>1, <1>3, <1>4 DEF EventNumbers
<1> QED
  BY <1>4, <1>5, <1>6

-----------------------------------------------------------------------------

\* A Run without events satisfies the invariant.
LEMMA InitHistory == Init => HistoryInvariant
<1> SUFFICES ASSUME Init PROVE HistoryInvariant
  OBVIOUS
<1>1. TypeOK
  <2>1. NoRow \in Row
    BY NewRow
  <2>2. Idle \in Drain /\ NoSettlement \in Settlement
    BY DEF Idle, Drain, NoSettlement, Settlement, Answer
  <2>3. Initial \in Reader /\ None \in OptionTime
    BY DEF Initial, Reader, OptionTime, None
  <2>4. run \in Run
    BY HistoryAssumption DEF Init, Run, Obligations
  <2> QED
    BY <2>1, <2>2, <2>3, <2>4 DEF Init, TypeOK
<1>2. HistoryIsContiguous
  BY DEF Init, HistoryIsContiguous, EventNumbers
<1>3. DeliveryIsBacked /\ ForgottenMeansDelivered
  BY DEF Init, DeliveryIsBacked, truthful, ForgottenMeansDelivered, NoRow, Idle, NoSettlement, EventNumbers
<1>4. ReadersTrail /\ ReadersSeeNoGap
  BY DEF Init, ReadersTrail, ReadersSeeNoGap, Initial, None
<1> QED
  BY <1>1, <1>2, <1>3, <1>4 DEF HistoryInvariant

\* Steps that touch neither rows nor readers.
LEMMA QuietStep ==
    ASSUME HistoryInvariant, TypeOK',
           UNCHANGED <<event, outbox, reader>>,
           run'.sequence = run.sequence, run'.floor = run.floor,
           stream \subseteq stream',
           \A p \in Processes :
               (truthful(drain[p]) /\ truthful(late[p]))'
    PROVE  HistoryInvariant'
<1> USE DEF HistoryInvariant
<1>1. HistoryIsContiguous'
  BY DEF HistoryIsContiguous
<1>2. DeliveryIsBacked' /\ ForgottenMeansDelivered'
  BY DEF DeliveryIsBacked, truthful, ForgottenMeansDelivered
<1>3. ReadersTrail' /\ ReadersSeeNoGap'
  BY DEF ReadersTrail, ReadersSeeNoGap
<1> QED
  BY <1>1, <1>2, <1>3

\* The Run, its holds and the clock.
LEMMA RunSteps ==
    ASSUME HistoryInvariant,
           \/ Tick \/ scan_history_retention_runs \/ retain_candidate
           \/ \E o \in Obligations : obligation_ends(o)
           \/ \E key \in HoldKeys : place_run_history_hold(key) \/ release_run_history_hold(key)
    PROVE  HistoryInvariant'
<1> USE DEF HistoryInvariant
<1>1. TypeOK'
  <2>1. CASE Tick
    BY <2>1 DEF Tick, TypeOK
  <2>2. ASSUME NEW o \in Obligations, obligation_ends(o)
        PROVE  TypeOK'
    BY <2>2 DEF obligation_ends, TypeOK, Run
  <2>3. CASE scan_history_retention_runs
    BY <2>3, HistoryAssumption DEF scan_history_retention_runs, TypeOK, Run, EventNumbers
  <2>4. CASE retain_candidate
    BY <2>4 DEF retain_candidate, TypeOK
  <2>5. ASSUME NEW key \in HoldKeys, place_run_history_hold(key) \/ release_run_history_hold(key)
        PROVE  TypeOK'
    BY <2>5 DEF place_run_history_hold, release_run_history_hold, TypeOK, Run
  <2> QED
    BY <2>1, <2>2, <2>3, <2>4, <2>5
<1>2. /\ UNCHANGED <<event, outbox, drain, late, stream, reader>>
      /\ run'.sequence = run.sequence /\ run'.floor = run.floor
  BY DEF Tick, obligation_ends, scan_history_retention_runs, retain_candidate,
         place_run_history_hold, release_run_history_hold, TypeOK, Run
<1>3. \A p \in Processes :
         (truthful(drain[p]) /\ truthful(late[p]))'
  BY <1>2 DEF DeliveryIsBacked, truthful
<1> QED
  BY <1>1, <1>2, <1>3, QuietStep

\* A committed event extends the history by one.
LEMMA AppendStep ==
    ASSUME HistoryInvariant, NEW terminal \in BOOLEAN, append_event(terminal)
    PROVE  HistoryInvariant'
<1> USE DEF HistoryInvariant
<1> DEFINE e == run.sequence + 1
           over == run.terminal \/ terminal
<1>1. /\ run.sequence \in Nat /\ run.floor \in Nat /\ e \in EventNumbers
      /\ now \in Nat /\ now # None /\ MaxSequence \in Nat
  BY HistoryAssumption DEF append_event, TypeOK, Run, EventNumbers, None
<1>2. /\ run' = [run EXCEPT !.sequence = e, !.terminal = over]
      /\ event' = [event EXCEPT ![e] = now]
      /\ outbox' = [outbox EXCEPT ![e] = new_row(now)]
      /\ UNCHANGED <<now, drain, late, stream, target, reader>>
  BY DEF append_event
<1>3. run'.sequence = e /\ run'.floor = run.floor
  BY <1>1, <1>2 DEF TypeOK, Run
<1>4. new_row(now) \in Row /\ new_row(now).state = "pending"
  BY <1>1, NewRow
<1>5. TypeOK'
  <2>1. run' \in Run
    <3>1. e \in 0..MaxSequence /\ over \in BOOLEAN
      BY <1>1 DEF EventNumbers, TypeOK, Run
    <3> HIDE DEF e, over
    <3> QED
      BY <1>2, <3>1 DEF TypeOK, Run
  <2>2. event' \in [EventNumbers -> OptionTime] /\ outbox' \in [EventNumbers -> Row]
    BY <1>1, <1>2, <1>4 DEF TypeOK, OptionTime
  <2> QED
    BY <1>2, <2>1, <2>2 DEF TypeOK
<1>6. HistoryIsContiguous'
  <2>1. ASSUME NEW d \in EventNumbers
        PROVE  /\ event'[d] # None <=> run'.floor < d /\ d <= run'.sequence
               /\ run'.sequence < d => outbox'[d] = NoRow
    <3>1. CASE d = e
      BY <1>1, <1>2, <1>3, <3>1 DEF TypeOK, HistoryIsContiguous
    <3>2. CASE d # e
      <4>1. event'[d] = event[d] /\ outbox'[d] = outbox[d]
        BY <1>2, <3>2 DEF TypeOK
      <4> QED
        BY <1>1, <1>3, <3>2, <4>1 DEF HistoryIsContiguous, EventNumbers
    <3> QED
      BY <3>1, <3>2
  <2> QED
    BY <1>1, <1>3, <2>1 DEF HistoryIsContiguous
<1>7. DeliveryIsBacked' /\ ForgottenMeansDelivered'
  <2>1. ASSUME NEW d \in EventNumbers
        PROVE  /\ outbox'[d].state = "published" => d \in stream'
               /\ d <= run'.sequence /\ outbox'[d].state = "absent" => d \in stream'
    <3>1. CASE d = e
      BY <1>2, <1>4, <3>1 DEF TypeOK
    <3>2. CASE d # e
      BY <1>1, <1>2, <1>3, <3>2
         DEF TypeOK, DeliveryIsBacked, truthful, ForgottenMeansDelivered, EventNumbers
    <3> QED
      BY <3>1, <3>2
  <2> QED
    BY <1>2, <2>1 DEF DeliveryIsBacked, truthful, ForgottenMeansDelivered
<1>8. ReadersTrail' /\ ReadersSeeNoGap'
  <2>1. \A r \in Readers : reader[r].position \in Int
    BY DEF TypeOK, Reader, OptionTime, None
  <2> QED
    BY <1>1, <1>2, <1>3, <2>1 DEF ReadersTrail, ReadersSeeNoGap
<1> QED
  BY <1>5, <1>6, <1>7, <1>8

\* A claim hands out due rows and marks the ones that do not decode.
LEMMA ClaimStep ==
    ASSUME HistoryInvariant, NEW p \in Processes, claim_due_committed_events(p)
    PROVE  /\ HistoryInvariant'
           /\ \A e \in EventNumbers :
                 outbox[e].state = "published" => outbox'[e] = outbox[e]
<1> USE DEF HistoryInvariant
<1>1. PICK batch \in SUBSET {e \in EventNumbers : due(e)} :
      \E undecoded \in SUBSET (batch \cap Incompatible) :
        /\ outbox' = [e \in EventNumbers |->
                         IF e \in undecoded THEN refused(outbox[e])
                         ELSE IF e \in batch THEN claimed(outbox[e], p)
                         ELSE outbox[e]]
        /\ drain' = [drain EXCEPT ![p] =
              [Idle EXCEPT !.claims =
                  {[event |-> e, epoch |-> outbox[e].epoch + 1,
                    expires_at |-> now + Lease] : e \in batch \ undecoded}]]
  BY DEF claim_due_committed_events
<1>2. PICK undecoded \in SUBSET (batch \cap Incompatible) :
        /\ outbox' = [e \in EventNumbers |->
                         IF e \in undecoded THEN refused(outbox[e])
                         ELSE IF e \in batch THEN claimed(outbox[e], p)
                         ELSE outbox[e]]
        /\ drain' = [drain EXCEPT ![p] =
              [Idle EXCEPT !.claims =
                  {[event |-> e, epoch |-> outbox[e].epoch + 1,
                    expires_at |-> now + Lease] : e \in batch \ undecoded}]]
  BY <1>1
<1>3. UNCHANGED <<now, run, event, late, stream, target, reader>>
  BY DEF claim_due_committed_events
<1>4. \A e \in EventNumbers : outbox[e] \in Row
  BY DEF TypeOK
<1>5. ASSUME NEW e \in EventNumbers
      PROVE  /\ outbox'[e] \in Row
             /\ outbox'[e] # outbox[e] =>
                   /\ outbox[e].state \in {"pending", "retry", "publishing"}
                   /\ outbox'[e].state \in {"publishing", "incompatible"}
  <2>1. CASE e \in undecoded
    BY <1>2, <1>4, <2>1, RefusedRow DEF due
  <2>2. CASE e \in batch \ undecoded
    BY <1>2, <1>4, <2>2, ClaimedRow DEF due, TypeOK
  <2>3. CASE e \notin batch
    BY <1>2, <1>4, <2>3
  <2> QED
    BY <2>1, <2>2, <2>3
<1>6. DOMAIN outbox' = EventNumbers
  BY <1>2
<1>7. drain' \in [Processes -> Drain] /\ drain'[p].answer = "none"
      /\ \A q \in Processes : q # p => drain'[q] = drain[q]
  <2> DEFINE claims == {[event |-> e, epoch |-> outbox[e].epoch + 1,
                         expires_at |-> now + Lease] : e \in batch \ undecoded}
  <2>1. claims \subseteq Fence
    <3>1. ASSUME NEW e \in batch \ undecoded
          PROVE  [event |-> e, epoch |-> outbox[e].epoch + 1, expires_at |-> now + Lease] \in Fence
      BY <1>4, HistoryAssumption DEF Fence, TypeOK, Row
    <3> QED
      BY <3>1
  <2> HIDE DEF claims
  <2>2. [Idle EXCEPT !.claims = claims] \in Drain /\ [Idle EXCEPT !.claims = claims].answer = "none"
    BY <2>1 DEF Idle, Drain, Answer
  <2>3. drain' = [drain EXCEPT ![p] = [Idle EXCEPT !.claims = claims]]
    BY <1>2 DEF claims
  <2> QED
    BY <2>2, <2>3 DEF TypeOK
<1>8. TypeOK'
  <2>1. outbox' \in [EventNumbers -> Row]
    BY <1>2, <1>5, <1>6
  <2> QED
    BY <1>3, <1>7, <2>1 DEF TypeOK
<1>9. HistoryIsContiguous'
  <2>1. ASSUME NEW e \in EventNumbers, run.sequence < e
        PROVE  outbox'[e] = NoRow
    BY <1>5, <2>1 DEF HistoryIsContiguous, NoRow
  <2> QED
    BY <1>3, <2>1 DEF HistoryIsContiguous
<1>10. DeliveryIsBacked' /\ ForgottenMeansDelivered'
  <2>1. \A q \in Processes : (truthful(drain[q]) /\ truthful(late[q]))'
    BY <1>3, <1>7 DEF DeliveryIsBacked, truthful
  <2> QED
    BY <1>3, <1>5, <2>1 DEF DeliveryIsBacked, truthful, ForgottenMeansDelivered
<1>11. ReadersTrail' /\ ReadersSeeNoGap'
  BY <1>3 DEF ReadersTrail, ReadersSeeNoGap
<1> QED
  BY <1>5, <1>8, <1>9, <1>10, <1>11

\* A publication moves one claim to its answer; an acknowledgement is backed.
LEMMA PublishStep ==
    ASSUME HistoryInvariant, NEW p \in Processes, publish(p)
    PROVE  HistoryInvariant' /\ UNCHANGED outbox
<1> USE DEF HistoryInvariant
<1>1. PICK fence \in drain[p].claims : \E answer \in Answer \ {"none"} :
        /\ drain' = [drain EXCEPT ![p] = [claims |-> drain[p].claims \ {fence},
                                          fence |-> fence, answer |-> answer]]
        /\ \/ stream' = stream \cup {fence.event}
           \/ answer # "acknowledged" /\ UNCHANGED stream
  BY DEF publish, Answer
<1>2. PICK answer \in Answer \ {"none"} :
        /\ drain' = [drain EXCEPT ![p] = [claims |-> drain[p].claims \ {fence},
                                          fence |-> fence, answer |-> answer]]
        /\ \/ stream' = stream \cup {fence.event}
           \/ answer # "acknowledged" /\ UNCHANGED stream
  BY <1>1
<1>3. UNCHANGED <<now, run, event, outbox, late, target, reader>>
  BY DEF publish
<1>4. drain[p] \in Drain /\ fence \in Fence /\ fence.event \in EventNumbers
  BY DEF TypeOK, Drain, Fence
<1>5. TypeOK'
  <2>1. [claims |-> drain[p].claims \ {fence}, fence |-> fence, answer |-> answer] \in Drain
    BY <1>4 DEF Drain
  <2>2. drain' \in [Processes -> Drain]
    BY <1>2, <2>1 DEF TypeOK
  <2>3. stream' \subseteq EventNumbers
    BY <1>2, <1>4 DEF TypeOK
  <2> QED
    BY <1>3, <2>2, <2>3 DEF TypeOK
<1>6. stream \subseteq stream'
  BY <1>2
<1>7. ASSUME NEW q \in Processes
      PROVE  (truthful(drain[q]) /\ truthful(late[q]))'
  <2>1. CASE q = p
    BY <1>2, <1>3, <1>4, <1>6, <2>1 DEF TypeOK, DeliveryIsBacked, truthful
  <2>2. CASE q # p
    BY <1>2, <1>3, <1>6, <2>2 DEF TypeOK, DeliveryIsBacked, truthful
  <2> QED
    BY <2>1, <2>2
<1> QED
  BY <1>3, <1>5, <1>6, <1>7, QuietStep

\* A settlement that is applied, in time or late, keeps the record truthful.
LEMMA RecordedStep ==
    ASSUME HistoryInvariant, NEW p \in Processes,
           NEW fence \in Fence, NEW answer \in Answer \ {"none"},
           answer = "acknowledged" => fence.event \in stream,
           apply_settlement(p, fence, answer), TypeOK',
           UNCHANGED <<run, event, stream, reader>>,
           \A q \in Processes :
               (truthful(drain[q]) /\ truthful(late[q]))'
    PROVE  /\ HistoryInvariant'
           /\ \A e \in EventNumbers :
                 outbox[e].state = "published" => outbox'[e] = outbox[e]
<1> USE DEF HistoryInvariant
<1>1. ASSUME NEW e \in EventNumbers
      PROVE  \/ outbox'[e] = outbox[e]
             \/ /\ outbox[e].state = "publishing"
                /\ outbox'[e].state # "absent"
                /\ outbox'[e].state = "published" => e \in stream
  <2>1. CASE UNCHANGED outbox
    BY <2>1
  <2>2. CASE ~UNCHANGED outbox
    <3>1. PICK n \in Row : /\ outbox[fence.event].state = "publishing"
                           /\ outbox' = [outbox EXCEPT ![fence.event] = n]
                           /\ n.state # "absent"
                           /\ n.state = "published" => answer = "acknowledged"
      BY <2>2, SettlementStep
    <3> QED
      BY <3>1 DEF TypeOK
  <2> QED
    BY <2>1, <2>2
<1>2. HistoryIsContiguous'
  <2>1. ASSUME NEW e \in EventNumbers, run.sequence < e
        PROVE  outbox'[e] = NoRow
    BY <1>1, <2>1 DEF HistoryIsContiguous, NoRow
  <2> QED
    BY <2>1 DEF HistoryIsContiguous
<1>3. DeliveryIsBacked' /\ ForgottenMeansDelivered'
  BY <1>1 DEF DeliveryIsBacked, truthful, ForgottenMeansDelivered
<1>4. ReadersTrail' /\ ReadersSeeNoGap'
  BY DEF ReadersTrail, ReadersSeeNoGap
<1> QED
  BY <1>1, <1>2, <1>3, <1>4

\* The drain's own settlement, and one that arrives after the drain gave up.
LEMMA SettleSteps ==
    ASSUME HistoryInvariant, NEW p \in Processes,
           settle_committed_event(p) \/ late_settlement(p)
    PROVE  /\ HistoryInvariant'
           /\ \A e \in EventNumbers :
                 outbox[e].state = "published" => outbox'[e] = outbox[e]
<1> USE DEF HistoryInvariant
<1>1. drain[p] \in Drain /\ late[p] \in Settlement /\ outbox \in [EventNumbers -> Row]
  BY DEF TypeOK
<1>2. ASSUME NEW fence \in Fence, NEW answer \in Answer \ {"none"},
             apply_settlement(p, fence, answer)
      PROVE  outbox' \in [EventNumbers -> Row]
  BY <1>1, <1>2, SettlementStep
<1>3. CASE settle_committed_event(p)
  <2> DEFINE after == [drain[p] EXCEPT !.fence = NoFence, !.answer = "none"]
  <2>1. after \in Drain /\ after.answer = "none"
    BY <1>1 DEF Drain, Answer
  <2>2. drain' = [drain EXCEPT ![p] = after]
        /\ UNCHANGED <<now, run, event, late, stream, target, reader>>
    BY <1>3 DEF settle_committed_event
  <2> HIDE DEF after
  <2>3. /\ drain[p].fence \in Fence /\ drain[p].answer \in Answer \ {"none"}
        /\ drain[p].answer = "acknowledged" => drain[p].fence.event \in stream
        /\ apply_settlement(p, drain[p].fence, drain[p].answer)
    BY <1>1, <1>3 DEF settle_committed_event, DeliveryIsBacked, truthful, Drain
  <2>4. TypeOK'
    <3>1. outbox' \in [EventNumbers -> Row]
      BY <1>2, <2>3
    <3> QED
      BY <2>1, <2>2, <3>1 DEF TypeOK
  <2>5. \A q \in Processes : (truthful(drain[q]) /\ truthful(late[q]))'
    BY <2>1, <2>2 DEF DeliveryIsBacked, truthful, TypeOK
  <2> QED
    BY <2>2, <2>3, <2>4, <2>5, RecordedStep
<1>4. CASE late_settlement(p)
  <2>1. NoSettlement \in Settlement /\ NoSettlement.answer = "none"
    BY DEF NoSettlement, Settlement, Answer
  <2>2. late' = [late EXCEPT ![p] = NoSettlement]
        /\ UNCHANGED <<now, run, event, drain, stream, target, reader>>
    BY <1>4 DEF late_settlement
  <2>3. /\ late[p].fence \in Fence /\ late[p].answer \in Answer \ {"none"}
        /\ late[p].answer = "acknowledged" => late[p].fence.event \in stream
        /\ apply_settlement(p, late[p].fence, late[p].answer)
    BY <1>1, <1>4 DEF late_settlement, DeliveryIsBacked, truthful, Settlement
  <2>4. TypeOK'
    <3>1. outbox' \in [EventNumbers -> Row]
      BY <1>2, <2>3
    <3> QED
      BY <2>1, <2>2, <3>1 DEF TypeOK
  <2>5. \A q \in Processes : (truthful(drain[q]) /\ truthful(late[q]))'
    BY <2>1, <2>2 DEF DeliveryIsBacked, truthful, TypeOK
  <2> QED
    BY <2>2, <2>3, <2>4, <2>5, RecordedStep
<1> QED
  BY <1>3, <1>4

\* A drain that ends early may leave its settlement on the way.
LEMMA AbandonStep ==
    ASSUME HistoryInvariant, NEW p \in Processes, abandon_drain(p)
    PROVE  HistoryInvariant' /\ UNCHANGED outbox
<1> USE DEF HistoryInvariant
<1>1. Idle \in Drain /\ Idle.answer = "none"
  BY DEF Idle, Drain, Answer
<1>2. drain' = [drain EXCEPT ![p] = Idle]
      /\ UNCHANGED <<now, run, event, outbox, stream, target, reader>>
  BY DEF abandon_drain
<1> DEFINE given == [fence |-> drain[p].fence, answer |-> drain[p].answer]
<1>3. /\ UNCHANGED late \/ late' = [late EXCEPT ![p] = given]
      /\ given \in Settlement /\ truthful(given)
  BY DEF abandon_drain, TypeOK, Drain, Settlement, DeliveryIsBacked, truthful
<1> HIDE DEF given
<1>4. TypeOK'
  BY <1>1, <1>2, <1>3 DEF TypeOK
<1>5. \A q \in Processes : (truthful(drain[q]) /\ truthful(late[q]))'
  BY <1>1, <1>2, <1>3 DEF DeliveryIsBacked, truthful, TypeOK
<1> QED
  BY <1>2, <1>4, <1>5, QuietStep

\* A purge moves the replay floor over events whose deliveries are behind them.
LEMMA PurgeStep ==
    ASSUME HistoryInvariant, purge_public_run_event_prefix
    PROVE  /\ HistoryInvariant'
           /\ \A e \in EventNumbers : outbox'[e] \in {outbox[e], NoRow}
<1> USE DEF HistoryInvariant
<1>1. /\ run.floor \in Nat /\ run.sequence \in Nat /\ run.sequence <= MaxSequence
      /\ MaxSequence \in Nat /\ target \in EventNumbers /\ target <= run.sequence
      /\ UNCHANGED <<now, drain, late, stream, reader>> /\ target' = None
  BY HistoryAssumption DEF purge_public_run_event_prefix, TypeOK, Run
<1>2. PICK through \in (run.floor + 1)..target :
        /\ \A e \in (run.floor + 1)..through :
              /\ event[e] # None
              /\ outbox[e].state = "absent" \/ delivered_long_ago(e)
        /\ event' = [e \in EventNumbers |->
                       IF e \in (run.floor + 1)..through THEN None ELSE event[e]]
        /\ outbox' = [e \in EventNumbers |->
                        IF e \in (run.floor + 1)..through THEN NoRow ELSE outbox[e]]
        /\ run' = [run EXCEPT !.floor = through]
  BY DEF purge_public_run_event_prefix, delete_prefix
<1>3. through \in EventNumbers /\ run.floor < through /\ through <= run.sequence
  BY <1>1 DEF EventNumbers
<1>4. run'.floor = through /\ run'.sequence = run.sequence /\ run' \in Run
  <2>1. through \in 0..MaxSequence
    BY <1>1, <1>3 DEF EventNumbers
  <2>2. run \in Run /\ run' = [run EXCEPT !.floor = through]
    BY <1>2 DEF TypeOK
  <2> QED
    BY <2>1, <2>2 DEF Run
<1>5. NoRow \in Row /\ None \in OptionTime /\ NoRow.state = "absent"
  BY NewRow DEF OptionTime, None, NoRow
<1>6. TypeOK'
  BY <1>1, <1>2, <1>4, <1>5 DEF TypeOK
<1>7. HistoryIsContiguous'
  <2>1. ASSUME NEW e \in EventNumbers
        PROVE  /\ event'[e] # None <=> run'.floor < e /\ e <= run'.sequence
               /\ run'.sequence < e => outbox'[e] = NoRow
    BY <1>1, <1>2, <1>3, <1>4 DEF HistoryIsContiguous, EventNumbers
  <2> QED
    BY <1>3, <1>4, <2>1 DEF HistoryIsContiguous
<1>8. DeliveryIsBacked' /\ ForgottenMeansDelivered'
  <2>1. ASSUME NEW e \in EventNumbers
        PROVE  /\ outbox'[e].state = "published" => e \in stream'
               /\ e <= run'.sequence /\ outbox'[e].state = "absent" => e \in stream'
    <3>1. CASE e \in (run.floor + 1)..through
      <4>1. e <= run.sequence
        BY <1>1, <1>3, <3>1 DEF EventNumbers
      <4>2. e \in stream
        BY <1>2, <3>1, <4>1
           DEF delivered_long_ago, DeliveryIsBacked, ForgottenMeansDelivered
      <4> QED
        BY <1>1, <4>2
    <3>2. CASE e \notin (run.floor + 1)..through
      BY <1>1, <1>2, <1>4, <3>2 DEF DeliveryIsBacked, ForgottenMeansDelivered
    <3> QED
      BY <3>1, <3>2
  <2> QED
    BY <1>1, <2>1 DEF DeliveryIsBacked, ForgottenMeansDelivered, truthful
<1>9. ReadersTrail' /\ ReadersSeeNoGap'
  BY <1>1, <1>4 DEF ReadersTrail, ReadersSeeNoGap
<1> QED
  BY <1>2, <1>6, <1>7, <1>8, <1>9

\* A retired delivery was published.
LEMMA RetireStep ==
    ASSUME HistoryInvariant, NEW e \in EventNumbers, retire_event(e)
    PROVE  /\ HistoryInvariant'
           /\ \A d \in EventNumbers : outbox'[d] \in {outbox[d], NoRow}
<1> USE DEF HistoryInvariant
<1>1. /\ outbox' = [outbox EXCEPT ![e] = NoRow] /\ outbox[e].state = "published"
      /\ UNCHANGED <<now, run, event, drain, late, stream, target, reader>>
  BY DEF retire_event, delivered_long_ago
<1>2. NoRow \in Row /\ NoRow.state = "absent"
  BY NewRow DEF NoRow
<1>3. TypeOK'
  BY <1>1, <1>2 DEF TypeOK
<1>4. HistoryIsContiguous'
  BY <1>1 DEF HistoryIsContiguous, TypeOK
<1>5. DeliveryIsBacked' /\ ForgottenMeansDelivered'
  <2>1. ASSUME NEW d \in EventNumbers
        PROVE  /\ outbox'[d].state = "published" => d \in stream'
               /\ d <= run'.sequence /\ outbox'[d].state = "absent" => d \in stream'
    BY <1>1, <1>2 DEF DeliveryIsBacked, ForgottenMeansDelivered, TypeOK
  <2> QED
    BY <1>1, <2>1 DEF DeliveryIsBacked, ForgottenMeansDelivered, truthful
<1>6. ReadersTrail' /\ ReadersSeeNoGap'
  BY <1>1 DEF ReadersTrail, ReadersSeeNoGap
<1> QED
  BY <1>1, <1>3, <1>4, <1>5, <1>6 DEF TypeOK

\* A page continues where its client stopped, or starts at the replay floor.
LEMMA ReadStep ==
    ASSUME HistoryInvariant, NEW r \in Readers, read_public_run_events(r)
    PROVE  HistoryInvariant' /\ UNCHANGED outbox
<1> USE DEF HistoryInvariant
<1> DEFINE next(after, last) ==
             [position |-> last,
              started_after |-> IF reader[r].position = None THEN after ELSE reader[r].started_after,
              truncated |-> IF reader[r].position = None THEN run.floor > 0 ELSE reader[r].truncated,
              seen |-> reader[r].seen \cup page_after(after)]
<1>1. PICK after \in resolve(reader[r].position) : \E last \in {after} \cup page_after(after) :
         /\ \A e \in page_after(after) : e <= last
         /\ reader' = [reader EXCEPT ![r] = next(after, last)]
  BY DEF read_public_run_events
<1>2. PICK last \in {after} \cup page_after(after) :
         /\ \A e \in page_after(after) : e <= last
         /\ reader' = [reader EXCEPT ![r] = next(after, last)]
  BY <1>1
<1>3. UNCHANGED <<now, run, event, outbox, drain, late, stream, target>>
  BY DEF read_public_run_events
<1>4. run.floor \in Nat /\ run.sequence \in Nat /\ run.floor <= run.sequence
      /\ reader[r] \in Reader
  BY DEF TypeOK, Run, HistoryIsContiguous
<1>5. /\ after \in Nat /\ run.floor <= after /\ after <= run.sequence
      /\ IF reader[r].position = None THEN after = run.floor ELSE after = reader[r].position
  BY <1>4 DEF resolve
<1>6. /\ page_after(after) = (after + 1)..last
      /\ last \in Nat /\ after <= last /\ last <= run.sequence
  BY <1>2, <1>5, PagesAreContiguous
<1>7. page_after(after) \subseteq EventNumbers /\ last # None
  BY <1>6 DEF page_after, None
<1>8. next(after, last) \in Reader
  <2>1. (run.floor > 0) \in BOOLEAN
    OBVIOUS
  <2> QED
    BY <1>4, <1>5, <1>6, <1>7, <2>1 DEF Reader, OptionTime
<1>9. /\ next(after, last).started_after <= last
      /\ next(after, last).seen = (next(after, last).started_after + 1)..last
      /\ ~next(after, last).truncated => next(after, last).started_after = 0
  <2>1. CASE reader[r].position = None
    <3>1. reader[r].seen = {}
      BY <2>1 DEF ReadersTrail
    <3>2. next(after, last).started_after = run.floor /\ after = run.floor
      BY <1>5, <2>1
    <3>3. next(after, last).seen = (run.floor + 1)..last
      BY <1>6, <3>1, <3>2
    <3>4. next(after, last).truncated <=> run.floor > 0
      BY <2>1
    <3> QED
      BY <1>4, <1>6, <3>2, <3>3, <3>4
  <2>2. CASE reader[r].position # None
    <3>1. /\ reader[r].seen = (reader[r].started_after + 1)..after
          /\ ~reader[r].truncated => reader[r].started_after = 0
      BY <1>5, <2>2 DEF ReadersSeeNoGap
    <3>2. reader[r].started_after \in Nat
      BY <1>4 DEF Reader
    <3>3. reader[r].started_after <= after
      BY <1>5, <2>2 DEF ReadersTrail
    <3>4. ((reader[r].started_after + 1)..after) \cup ((after + 1)..last)
             = (reader[r].started_after + 1)..last
      BY <1>5, <1>6, <3>2, <3>3
    <3> QED
      BY <1>5, <1>6, <2>2, <3>1, <3>2, <3>3, <3>4
  <2> QED
    BY <2>1, <2>2
<1>10. next(after, last).position = last
  OBVIOUS
<1> HIDE DEF next
<1>11. \A q \in Readers : reader'[q] = IF q = r THEN next(after, last) ELSE reader[q]
  BY <1>2 DEF TypeOK
<1>12. TypeOK'
  BY <1>2, <1>3, <1>8 DEF TypeOK
<1>13. HistoryIsContiguous' /\ DeliveryIsBacked' /\ ForgottenMeansDelivered'
  BY <1>3 DEF HistoryIsContiguous, DeliveryIsBacked, ForgottenMeansDelivered, truthful
<1>14. ReadersTrail' /\ ReadersSeeNoGap'
  BY <1>3, <1>6, <1>7, <1>9, <1>10, <1>11 DEF ReadersTrail, ReadersSeeNoGap
<1> QED
  BY <1>3, <1>12, <1>13, <1>14

\* A client that is told of a gap changes nothing but its own position.
LEMMA GapStep ==
    ASSUME HistoryInvariant, NEW r \in Readers, history_gap(r)
    PROVE  HistoryInvariant' /\ UNCHANGED outbox
<1> USE DEF HistoryInvariant
<1>1. /\ reader' = [reader EXCEPT ![r] = Initial]
      /\ UNCHANGED <<now, run, event, outbox, drain, late, stream, target>>
  BY DEF history_gap
<1>2. /\ Initial \in Reader /\ Initial.position = None /\ Initial.seen = {}
      /\ None <= run.sequence
  BY DEF Initial, Reader, OptionTime, None, TypeOK, Run
<1>3. TypeOK'
  BY <1>1, <1>2 DEF TypeOK
<1>4. HistoryIsContiguous' /\ DeliveryIsBacked' /\ ForgottenMeansDelivered'
  BY <1>1 DEF HistoryIsContiguous, DeliveryIsBacked, ForgottenMeansDelivered, truthful
<1>5. ReadersTrail' /\ ReadersSeeNoGap'
  <2>1. \A q \in Readers : reader'[q] = IF q = r THEN Initial ELSE reader[q]
    BY <1>1 DEF TypeOK
  <2> QED
    BY <1>1, <1>2, <2>1 DEF ReadersTrail, ReadersSeeNoGap
<1> QED
  BY <1>1, <1>3, <1>4, <1>5

-----------------------------------------------------------------------------

\* What a step does to the published rows.
PublishedRowsStand ==
    \A e \in EventNumbers :
        outbox[e].state = "published" => outbox'[e] \in {outbox[e], NoRow}

\* Every step keeps the invariant, and published rows stand.
LEMMA NextHistory ==
    ASSUME HistoryInvariant, [Next]_vars
    PROVE  HistoryInvariant' /\ PublishedRowsStand
<1>1. CASE UNCHANGED vars
  <2>1. UNCHANGED <<event, outbox, reader, drain, late, stream, run, now, target>>
    BY <1>1 DEF vars
  <2>2. TypeOK'
    BY <2>1 DEF HistoryInvariant, TypeOK
  <2>3. \A p \in Processes : (truthful(drain[p]) /\ truthful(late[p]))'
    BY <2>1 DEF HistoryInvariant, DeliveryIsBacked, truthful
  <2> QED
    BY <2>1, <2>2, <2>3, QuietStep DEF PublishedRowsStand
<1>2. CASE \/ Tick \/ scan_history_retention_runs \/ retain_candidate
           \/ \E o \in Obligations : obligation_ends(o)
           \/ \E key \in HoldKeys : place_run_history_hold(key) \/ release_run_history_hold(key)
  <2>1. HistoryInvariant'
    BY <1>2, RunSteps
  <2>2. UNCHANGED outbox
    BY <1>2 DEF Tick, obligation_ends, scan_history_retention_runs, retain_candidate,
                place_run_history_hold, release_run_history_hold
  <2> QED
    BY <2>1, <2>2 DEF PublishedRowsStand
<1>3. ASSUME NEW terminal \in BOOLEAN, append_event(terminal)
      PROVE  HistoryInvariant' /\ PublishedRowsStand
  <2>1. HistoryInvariant'
    BY <1>3, AppendStep
  <2>2. ASSUME NEW e \in EventNumbers, outbox[e].state = "published"
        PROVE  outbox'[e] = outbox[e]
    <3>1. e # run.sequence + 1
      BY <2>2 DEF HistoryInvariant, HistoryIsContiguous, NoRow, TypeOK, Run, EventNumbers
    <3> QED
      BY <1>3, <3>1 DEF append_event, HistoryInvariant, TypeOK
  <2> QED
    BY <2>1, <2>2 DEF PublishedRowsStand
<1>4. ASSUME NEW p \in Processes, Deliver(p)
      PROVE  HistoryInvariant' /\ PublishedRowsStand
  BY <1>4, ClaimStep, PublishStep, SettleSteps, AbandonStep DEF Deliver, PublishedRowsStand
<1>5. CASE purge_public_run_event_prefix
  BY <1>5, PurgeStep DEF PublishedRowsStand
<1>6. ASSUME NEW e \in EventNumbers, retire_event(e)
      PROVE  HistoryInvariant' /\ PublishedRowsStand
  BY <1>6, RetireStep DEF PublishedRowsStand
<1>7. ASSUME NEW r \in Readers, read_public_run_events(r) \/ history_gap(r)
      PROVE  HistoryInvariant' /\ PublishedRowsStand
  BY <1>7, ReadStep, GapStep DEF PublishedRowsStand
<1> QED
  BY <1>1, <1>2, <1>3, <1>4, <1>5, <1>6, <1>7 DEF Next, Maintain

\* The inductive invariant of the history holds.
THEOREM HistoryInvariantHolds == Spec => []HistoryInvariant
<1>1. Init => HistoryInvariant
  BY InitHistory
<1>2. HistoryInvariant /\ [Next]_vars => HistoryInvariant'
  BY NextHistory
<1> QED
  BY <1>1, <1>2, PTL DEF Spec

\* The types are kept.
THEOREM HistoryTypes == Spec => []TypeOK
<1>1. HistoryInvariant => TypeOK
  BY DEF HistoryInvariant
<1> QED
  BY <1>1, HistoryInvariantHolds, PTL

\* No outbox row of a committed event disappears before JetStream has the message.
THEOREM NothingIsLost == Spec => []ForgottenMeansDelivered
<1>1. HistoryInvariant => ForgottenMeansDelivered
  BY DEF HistoryInvariant
<1> QED
  BY <1>1, HistoryInvariantHolds, PTL

\* Clients see contiguous histories, whatever is purged between their pages.
THEOREM ClientsSeeNoGap == Spec => []ReadersSeeNoGap
<1>1. HistoryInvariant => ReadersSeeNoGap
  BY DEF HistoryInvariant
<1> QED
  BY <1>1, HistoryInvariantHolds, PTL

\* A published row only changes by being deleted.
THEOREM PublicationIsFinal == Spec => PublishedIsFinal
<1>1. HistoryInvariant /\ [Next]_vars => [PublishedRowsStand]_vars
  BY NextHistory
<1>2. [PublishedRowsStand]_vars
        => [\A e \in EventNumbers :
              outbox[e].state = "published" => outbox'[e] \in {outbox[e], NoRow}]_vars
  BY DEF PublishedRowsStand
<1> QED
  BY <1>1, <1>2, HistoryInvariantHolds, PTL DEF Spec, PublishedIsFinal

\* A hold that stands over a step keeps every stored event.
HeldEventsStand ==
    run.holds \cap run'.holds # {} =>
        \A e \in EventNumbers : event[e] # None => event'[e] = event[e]

\* No step deletes an event while a hold stands.
LEMMA NextHeld ==
    ASSUME HistoryInvariant, [Next]_vars
    PROVE  HeldEventsStand
<1>1. ASSUME NEW terminal \in BOOLEAN, append_event(terminal), NEW e \in EventNumbers,
             event[e] # None
      PROVE  event'[e] = event[e]
  <2>1. e # run.sequence + 1
    BY <1>1 DEF HistoryInvariant, HistoryIsContiguous, TypeOK, Run, EventNumbers
  <2> QED
    BY <1>1, <2>1 DEF append_event, HistoryInvariant, TypeOK
<1>2. CASE purge_public_run_event_prefix
  BY <1>2 DEF purge_public_run_event_prefix, HeldEventsStand
<1>3. CASE UNCHANGED event
  BY <1>3 DEF HeldEventsStand
<1>4. \/ UNCHANGED event \/ purge_public_run_event_prefix
      \/ \E terminal \in BOOLEAN : append_event(terminal)
  BY DEF Next, vars, Tick, obligation_ends, place_run_history_hold, release_run_history_hold,
         Deliver, claim_due_committed_events, publish, settle_committed_event, abandon_drain,
         late_settlement, Maintain, scan_history_retention_runs, retain_candidate, retire_event,
         read_public_run_events, history_gap
<1> QED
  BY <1>1, <1>2, <1>3, <1>4 DEF HeldEventsStand

\* Nothing is deleted under a hold, also not by a purge chosen before it.
THEOREM HoldsAreRespected == Spec => HeldHistoryIsKept
<1>1. HistoryInvariant /\ [Next]_vars => [HeldEventsStand]_vars
  BY NextHeld
<1>2. [HeldEventsStand]_vars
        => [run.holds \cap run'.holds # {} =>
              \A e \in EventNumbers : event[e] # None => event'[e] = event[e]]_vars
  BY DEF HeldEventsStand
<1> QED
  BY <1>1, <1>2, HistoryInvariantHolds, PTL DEF Spec, HeldHistoryIsKept

-----------------------------------------------------------------------------
(* Claims do not overlap.                                                  *)

\* What a process still has to settle are fences on events of the Run.
LEMMA UnsettledAreFences ==
    ASSUME HistoryInvariant, NEW p \in Processes, NEW f \in unsettled(p)
    PROVE  /\ f \in Fence /\ f.event \in EventNumbers /\ f.event \in Nat
           /\ f.epoch \in Nat /\ f.expires_at \in Nat
<1>1. f \in Fence
  BY DEF HistoryInvariant, TypeOK, Drain, DeliveryIsBacked, truthful, unsettled
<1> QED
  BY <1>1 DEF Fence, EventNumbers

\* A step that hands out no claim keeps the claims apart, if it leaves the rows
\* of the unexpired ones alone and creates no row of a committed event.
LEMMA NoNewClaim ==
    ASSUME HistoryInvariant, HistoryInvariant', ClaimInvariant,
           now <= now', run.sequence <= run'.sequence,
           \A p \in Processes :
               /\ unsettled(p)' \subseteq unsettled(p)
               /\ drain'[p].answer # "none" => drain'[p].fence \notin drain'[p].claims
               /\ \/ late'[p] = late[p] \/ late'[p].answer = "none"
                  \/ late'[p].fence \in unsettled(p) /\ unsettled(p)' = {},
           \A e \in EventNumbers : e <= run.sequence =>
               \/ outbox'[e] = outbox[e]
               \/ /\ \/ outbox'[e].state = "absent"
                     \/ outbox[e].state # "absent" /\ outbox'[e].epoch = outbox[e].epoch
                  /\ \A p \in Processes : \A f \in unsettled(p)' :
                        f.event = e => f.expires_at <= now
    PROVE  ClaimInvariant'
<1>1. now \in Nat /\ now' \in Nat /\ run.sequence \in Nat /\ run'.sequence \in Nat
  BY DEF HistoryInvariant, TypeOK, Run
<1>2. ASSUME NEW f \in Fence, reached(f)
      PROVE  reached(f)'
  <2>1. f.event \in EventNumbers /\ f.event \in Nat
    BY DEF Fence, EventNumbers
  <2> QED
    BY <1>1, <1>2, <2>1 DEF reached
<1>3. ClaimsAreCurrent'
  <2> SUFFICES ASSUME NEW p \in Processes, NEW f \in unsettled(p)', now' < f.expires_at
               PROVE  /\ outbox'[f.event].state = "publishing"
                      /\ outbox'[f.event].owner = p
                      /\ outbox'[f.event].epoch = f.epoch
                      /\ outbox'[f.event].claim_expires_at = f.expires_at
    BY DEF ClaimsAreCurrent
  <2>1. f \in unsettled(p)
    OBVIOUS
  <2>2. f.event \in EventNumbers /\ f.expires_at \in Nat
    BY <2>1, UnsettledAreFences
  <2>3. now < f.expires_at /\ ~(f.expires_at <= now)
    BY <1>1, <2>2
  <2>4. f.event <= run.sequence
    BY <2>1 DEF ClaimInvariant, FencesTrail, reached
  <2>5. outbox'[f.event] = outbox[f.event]
    BY <2>2, <2>3, <2>4
  <2> QED
    BY <2>1, <2>3, <2>5 DEF ClaimInvariant, ClaimsAreCurrent
<1>4. ClaimsAreDistinct'
  BY DEF ClaimInvariant, ClaimsAreDistinct
<1>5. FencesTrail'
  <2> SUFFICES ASSUME NEW p \in Processes
               PROVE  /\ \A f \in unsettled(p)' : reached(f)'
                      /\ late'[p].answer # "none" =>
                            /\ reached(late[p].fence)'
                            /\ \A f \in unsettled(p)' :
                                  f.event = late'[p].fence.event => late'[p].fence.epoch < f.epoch
    BY DEF FencesTrail
  <2>1. ASSUME NEW f \in unsettled(p)
        PROVE  reached(f)'
    <3>1. reached(f) /\ f \in Fence
      BY UnsettledAreFences DEF ClaimInvariant, FencesTrail
    <3> QED
      BY <1>2, <3>1
  <2>2. CASE late'[p] = late[p]
    <3>1. late[p].answer # "none" => late[p].fence \in Fence /\ reached(late[p].fence)
      BY DEF HistoryInvariant, DeliveryIsBacked, truthful, ClaimInvariant, FencesTrail
    <3>2. ASSUME late[p].answer # "none"
          PROVE  reached(late[p].fence)'
      <4>1. PICK g \in Fence : g = late[p].fence
        BY <3>1, <3>2
      <4>2. reached(g)'
        BY <1>2, <3>1, <3>2, <4>1
      <4> QED
        BY <2>2, <4>1, <4>2 DEF reached
    <3> QED
      BY <2>1, <2>2, <3>2 DEF ClaimInvariant, FencesTrail
  <2>3. CASE late'[p].answer = "none"
    BY <2>1, <2>3
  <2>4. CASE late'[p].fence \in unsettled(p) /\ unsettled(p)' = {}
    <3>1. PICK g \in unsettled(p) : g = late'[p].fence
      BY <2>4
    <3>2. reached(g)'
      BY <2>1
    <3> QED
      BY <2>4, <3>1, <3>2 DEF reached
  <2> QED
    BY <2>1, <2>2, <2>3, <2>4
<1> QED
  BY <1>3, <1>4, <1>5 DEF ClaimInvariant

\* New claims take rows on which no unexpired claim stands.
LEMMA ClaimKeepsApart ==
    ASSUME HistoryInvariant, HistoryInvariant', ClaimInvariant,
           NEW p \in Processes, claim_due_committed_events(p)
    PROVE  ClaimInvariant'
<1>1. PICK batch \in SUBSET {e \in EventNumbers : due(e)} :
      \E undecoded \in SUBSET (batch \cap Incompatible) :
        /\ outbox' = [e \in EventNumbers |->
                         IF e \in undecoded THEN refused(outbox[e])
                         ELSE IF e \in batch THEN claimed(outbox[e], p)
                         ELSE outbox[e]]
        /\ drain' = [drain EXCEPT ![p] =
              [Idle EXCEPT !.claims =
                  {[event |-> e, epoch |-> outbox[e].epoch + 1,
                    expires_at |-> now + Lease] : e \in batch \ undecoded}]]
  BY DEF claim_due_committed_events
<1>2. PICK undecoded \in SUBSET (batch \cap Incompatible) :
        /\ outbox' = [e \in EventNumbers |->
                         IF e \in undecoded THEN refused(outbox[e])
                         ELSE IF e \in batch THEN claimed(outbox[e], p)
                         ELSE outbox[e]]
        /\ drain' = [drain EXCEPT ![p] =
              [Idle EXCEPT !.claims =
                  {[event |-> e, epoch |-> outbox[e].epoch + 1,
                    expires_at |-> now + Lease] : e \in batch \ undecoded}]]
  BY <1>1
<1>3. UNCHANGED <<now, run, late>>
  BY DEF claim_due_committed_events
<1>4. /\ now \in Nat /\ run.sequence \in Nat
      /\ \A e \in EventNumbers : outbox[e] \in Row /\ outbox[e].epoch \in Nat
  BY DEF HistoryInvariant, TypeOK, Run, Row
<1>5. ASSUME NEW e \in EventNumbers
      PROVE  /\ e \notin batch => outbox'[e] = outbox[e]
             /\ e \in batch => outbox'[e].epoch = outbox[e].epoch + 1 /\ due(e)
             /\ e \in batch \ undecoded =>
                   /\ outbox'[e].state = "publishing" /\ outbox'[e].owner = p
                   /\ outbox'[e].claim_expires_at = now + Lease
  <2>1. CASE e \in undecoded
    BY <1>2, <1>4, <2>1 DEF refused, Row
  <2>2. CASE e \in batch \ undecoded
    BY <1>2, <1>4, <2>2 DEF claimed, Row
  <2>3. CASE e \notin batch
    BY <1>2, <2>3
  <2> QED
    BY <2>1, <2>2, <2>3
<1>6. ASSUME NEW e \in EventNumbers, due(e)
      PROVE  e <= run.sequence /\ outbox[e].state # "absent"
  <2>1. outbox[e].state # "absent"
    BY <1>6 DEF due
  <2>2. ~(run.sequence < e)
    BY <2>1 DEF HistoryInvariant, HistoryIsContiguous, NoRow
  <2> QED
    BY <1>4, <2>1, <2>2 DEF EventNumbers
<1> DEFINE claims == {[event |-> e, epoch |-> outbox[e].epoch + 1,
                       expires_at |-> now + Lease] : e \in batch \ undecoded}
<1>7. \A q \in Processes \ {p} : drain'[q] = drain[q] /\ unsettled(q)' = unsettled(q)
  BY <1>2 DEF HistoryInvariant, TypeOK, unsettled
<1>8. unsettled(p)' = claims /\ drain'[p].answer = "none"
  <2>1. drain'[p] = [Idle EXCEPT !.claims = claims]
    BY <1>2 DEF HistoryInvariant, TypeOK
  <2> HIDE DEF claims
  <2> QED
    BY <2>1 DEF unsettled, Idle
<1>9. ASSUME NEW f \in unsettled(p)'
      PROVE  /\ f.event \in batch \ undecoded
             /\ f = [event |-> f.event, epoch |-> outbox[f.event].epoch + 1,
                     expires_at |-> now + Lease]
             /\ f.epoch = outbox[f.event].epoch + 1 /\ f.expires_at = now + Lease
  <2>1. PICK e \in batch \ undecoded :
           f = [event |-> e, epoch |-> outbox[e].epoch + 1, expires_at |-> now + Lease]
    BY <1>8, <1>9
  <2> QED
    BY <2>1
<1> HIDE DEF claims
<1>10. ClaimsAreCurrent'
  <2> SUFFICES ASSUME NEW q \in Processes, NEW f \in unsettled(q)', now < f.expires_at
               PROVE  /\ outbox'[f.event].state = "publishing"
                      /\ outbox'[f.event].owner = q
                      /\ outbox'[f.event].epoch = f.epoch
                      /\ outbox'[f.event].claim_expires_at = f.expires_at
    BY <1>3 DEF ClaimsAreCurrent
  <2>1. CASE q = p
    <3>1. f.event \in batch \ undecoded /\ f.event \in EventNumbers
      BY <1>9, <2>1
    <3> QED
      BY <1>5, <1>9, <2>1, <3>1
  <2>2. CASE q # p
    <3>1. f \in unsettled(q)
      BY <1>7, <2>2
    <3>2. f.event \in EventNumbers /\ f.expires_at \in Nat
      BY <3>1, UnsettledAreFences
    <3>3. /\ outbox[f.event].state = "publishing" /\ outbox[f.event].owner = q
          /\ outbox[f.event].epoch = f.epoch
          /\ outbox[f.event].claim_expires_at = f.expires_at
      BY <3>1 DEF ClaimInvariant, ClaimsAreCurrent
    <3>4. ~due(f.event)
      BY <1>4, <3>2, <3>3 DEF due
    <3> QED
      BY <1>5, <3>2, <3>3, <3>4
  <2> QED
    BY <2>1, <2>2
<1>11. ClaimsAreDistinct'
  <2>1. \A f, g \in unsettled(p)' : f.event = g.event => f = g
    BY <1>9
  <2> QED
    BY <1>7, <1>8, <2>1 DEF ClaimInvariant, ClaimsAreDistinct
<1>12. ASSUME NEW f \in Fence, reached(f)
       PROVE  reached(f)'
  <2>1. f.event \in EventNumbers /\ f.epoch \in Nat
    BY DEF Fence
  <2>2. CASE f.event \in batch
    <3>1. f.epoch <= outbox[f.event].epoch
      BY <1>5, <1>6, <1>12, <2>1, <2>2 DEF reached
    <3> QED
      BY <1>3, <1>4, <1>5, <1>12, <2>1, <2>2, <3>1 DEF reached
  <2>3. CASE f.event \notin batch
    BY <1>3, <1>5, <1>12, <2>1, <2>3 DEF reached
  <2> QED
    BY <2>2, <2>3
<1>13. ASSUME NEW q \in Processes, late[q].answer # "none"
       PROVE  /\ reached(late[q].fence) /\ reached(late[q].fence)'
              /\ late[q].fence.event \in EventNumbers /\ late[q].fence.epoch \in Nat
  <2>1. late[q].fence \in Fence /\ reached(late[q].fence)
    BY <1>13 DEF HistoryInvariant, DeliveryIsBacked, truthful, ClaimInvariant, FencesTrail
  <2>2. PICK g \in Fence : g = late[q].fence
    BY <2>1
  <2>3. reached(g)'
    BY <1>12, <2>1, <2>2
  <2> QED
    BY <1>3, <2>1, <2>2, <2>3 DEF reached, Fence
<1>14. FencesTrail'
  <2> SUFFICES ASSUME NEW q \in Processes
               PROVE  /\ \A f \in unsettled(q)' : reached(f)'
                      /\ late[q].answer # "none" =>
                            \A f \in unsettled(q)' :
                                f.event = late[q].fence.event => late[q].fence.epoch < f.epoch
    BY <1>3, <1>13 DEF FencesTrail
  <2>1. CASE q = p
    <3>1. ASSUME NEW f \in unsettled(p)'
          PROVE  f.event \in EventNumbers /\ f.event <= run.sequence
                 /\ outbox[f.event].state # "absent" /\ f.epoch = outbox'[f.event].epoch
      BY <1>5, <1>6, <1>9
    <3>2. ASSUME NEW f \in unsettled(p)'
          PROVE  reached(f)'
      <4>1. f.epoch \in Nat
        BY <1>4, <1>9, <3>1
      <4> QED
        BY <1>3, <3>1, <4>1 DEF reached
    <3>3. ASSUME NEW f \in unsettled(p)', late[p].answer # "none",
                 f.event = late[p].fence.event
          PROVE  late[p].fence.epoch < f.epoch
      <4>1. late[p].fence.epoch <= outbox[f.event].epoch
        BY <1>13, <3>1, <3>3 DEF reached
      <4> QED
        BY <1>4, <1>9, <1>13, <3>1, <3>3, <4>1
    <3> QED
      BY <2>1, <3>2, <3>3
  <2>2. CASE q # p
    <3>1. ASSUME NEW f \in unsettled(q)
          PROVE  reached(f)'
      <4>1. f \in Fence /\ reached(f)
        BY UnsettledAreFences DEF ClaimInvariant, FencesTrail
      <4> QED
        BY <1>12, <4>1
    <3> QED
      BY <1>7, <2>2, <3>1 DEF ClaimInvariant, FencesTrail
  <2> QED
    BY <2>1, <2>2
<1> QED
  BY <1>10, <1>11, <1>14 DEF ClaimInvariant

\* A row that is not being published has no unexpired claim.
LEMMA NoClaimStands ==
    ASSUME HistoryInvariant, ClaimInvariant, NEW e \in EventNumbers,
           outbox[e].state # "publishing",
           NEW p \in Processes, NEW f \in unsettled(p), f.event = e
    PROVE  f.expires_at <= now
<1>1. f.expires_at \in Nat /\ now \in Nat
  BY UnsettledAreFences DEF HistoryInvariant, TypeOK
<1>2. ~(now < f.expires_at)
  BY DEF ClaimInvariant, ClaimsAreCurrent
<1> QED
  BY <1>1, <1>2

\* Steps of the Run, of retention and of the clients.
LEMMA OthersKeepApart ==
    ASSUME HistoryInvariant, HistoryInvariant', ClaimInvariant,
           UNCHANGED <<drain, late>>, now <= now', run.sequence <= run'.sequence,
           \A e \in EventNumbers : e <= run.sequence =>
               \/ outbox'[e] = outbox[e]
               \/ outbox'[e] = NoRow /\ outbox[e].state # "publishing"
    PROVE  ClaimInvariant'
<1>1. ASSUME NEW p \in Processes
      PROVE  /\ unsettled(p)' = unsettled(p)
             /\ drain'[p].answer # "none" => drain'[p].fence \notin drain'[p].claims
             /\ late'[p] = late[p]
  BY DEF unsettled, ClaimInvariant, ClaimsAreDistinct
<1>2. ASSUME NEW e \in EventNumbers, e <= run.sequence, outbox'[e] # outbox[e]
      PROVE  /\ outbox'[e].state = "absent"
             /\ \A p \in Processes : \A f \in unsettled(p)' :
                   f.event = e => f.expires_at <= now
  <2>1. outbox'[e] = NoRow /\ outbox[e].state # "publishing"
    BY <1>2
  <2>2. outbox'[e].state = "absent"
    BY <2>1 DEF NoRow
  <2> QED
    BY <1>1, <2>1, <2>2, NoClaimStands
<1> QED
  BY <1>1, <1>2, NoNewClaim

\* A publication keeps the claim; giving up turns it into a late settlement.
LEMMA PublishKeepsApart ==
    ASSUME HistoryInvariant, HistoryInvariant', ClaimInvariant,
           NEW p \in Processes, publish(p) \/ abandon_drain(p)
    PROVE  ClaimInvariant'
<1>1. UNCHANGED <<now, run, outbox>> /\ now \in Nat /\ run.sequence \in Nat
  BY DEF publish, abandon_drain, HistoryInvariant, TypeOK, Run
<1>2. ASSUME NEW q \in Processes, q # p
      PROVE  drain'[q] = drain[q] /\ unsettled(q)' = unsettled(q) /\ late'[q] = late[q]
  BY <1>2 DEF publish, abandon_drain, HistoryInvariant, TypeOK, unsettled
<1>3. CASE publish(p)
  <2>1. PICK fence \in drain[p].claims : \E answer \in Answer \ {"none"} :
          drain' = [drain EXCEPT ![p] = [claims |-> drain[p].claims \ {fence},
                                         fence |-> fence, answer |-> answer]]
    BY <1>3 DEF publish, Answer
  <2>2. PICK answer \in Answer \ {"none"} :
          drain' = [drain EXCEPT ![p] = [claims |-> drain[p].claims \ {fence},
                                         fence |-> fence, answer |-> answer]]
    BY <2>1
  <2>3. drain'[p] = [claims |-> drain[p].claims \ {fence}, fence |-> fence, answer |-> answer]
    BY <2>2 DEF HistoryInvariant, TypeOK
  <2>4. unsettled(p)' = drain[p].claims /\ unsettled(p) = drain[p].claims
    BY <1>3, <2>3 DEF unsettled, publish
  <2>5. late' = late /\ drain'[p].fence \notin drain'[p].claims
    BY <1>3, <2>3 DEF publish
  <2>6. \A q \in Processes :
          /\ unsettled(q)' \subseteq unsettled(q)
          /\ drain'[q].answer # "none" => drain'[q].fence \notin drain'[q].claims
          /\ late'[q] = late[q]
    BY <1>2, <2>4, <2>5 DEF ClaimInvariant, ClaimsAreDistinct
  <2> QED
    BY <1>1, <2>6, NoNewClaim
<1>4. CASE abandon_drain(p)
  <2>1. drain'[p] = Idle
    BY <1>4 DEF abandon_drain, HistoryInvariant, TypeOK
  <2>2. unsettled(p)' = {} /\ drain'[p].answer = "none"
    BY <2>1 DEF unsettled, Idle
  <2>3. late'[p] = late[p] \/ late'[p].fence \in unsettled(p)
    BY <1>4 DEF abandon_drain, HistoryInvariant, TypeOK, unsettled
  <2>4. \A q \in Processes :
          /\ unsettled(q)' \subseteq unsettled(q)
          /\ drain'[q].answer # "none" => drain'[q].fence \notin drain'[q].claims
          /\ late'[q] = late[q] \/ (late'[q].fence \in unsettled(q) /\ unsettled(q)' = {})
    BY <1>2, <2>2, <2>3 DEF ClaimInvariant, ClaimsAreDistinct
  <2> QED
    BY <1>1, <2>4, NoNewClaim
<1> QED
  BY <1>3, <1>4

\* A settlement that is applied ends the claim it is for, and no other.
LEMMA SettleKeepsApart ==
    ASSUME HistoryInvariant, HistoryInvariant', ClaimInvariant,
           NEW p \in Processes, settle_committed_event(p) \/ late_settlement(p)
    PROVE  ClaimInvariant'
<1>1. UNCHANGED <<now, run>> /\ now \in Nat /\ run.sequence \in Nat
      /\ \A e \in EventNumbers : outbox[e] \in Row
  BY DEF settle_committed_event, late_settlement, HistoryInvariant, TypeOK, Run
<1>2. ASSUME NEW fence \in Fence, NEW answer, apply_settlement(p, fence, answer),
             NEW e \in EventNumbers, outbox'[e] # outbox[e]
      PROVE  /\ e = fence.event /\ current_claim(outbox[e], fence, p)
             /\ outbox'[e].epoch = outbox[e].epoch
  <2>1. current_claim(outbox[fence.event], fence, p)
    BY <1>2 DEF apply_settlement
  <2>2. PICK delay \in RetryDelays :
          outbox' = [outbox EXCEPT ![fence.event] = settled(outbox[fence.event], answer, delay)]
    BY <1>2, <2>1 DEF apply_settlement
  <2>3. e = fence.event /\ outbox'[e] = settled(outbox[e], answer, delay)
    BY <1>2, <2>2 DEF HistoryInvariant, TypeOK
  <2>4. settled(outbox[e], answer, delay).epoch = outbox[e].epoch
    BY <1>1 DEF settled, Row
  <2> QED
    BY <2>1, <2>3, <2>4
<1>3. CASE settle_committed_event(p)
  <2>1. /\ drain[p].answer # "none" /\ drain[p].fence \in Fence
        /\ apply_settlement(p, drain[p].fence, drain[p].answer) /\ UNCHANGED late
    BY <1>3 DEF settle_committed_event, HistoryInvariant, DeliveryIsBacked, truthful
  <2>2. drain'[p].claims = drain[p].claims /\ drain'[p].answer = "none"
    BY <1>3 DEF settle_committed_event, HistoryInvariant, TypeOK, Drain
  <2>3. unsettled(p)' = drain[p].claims /\ drain[p].fence \in unsettled(p)
        /\ unsettled(p)' \subseteq unsettled(p)
    BY <2>1, <2>2 DEF unsettled
  <2>4. ASSUME NEW q \in Processes, q # p
        PROVE  drain'[q] = drain[q] /\ unsettled(q)' = unsettled(q)
    BY <1>3, <2>4 DEF settle_committed_event, HistoryInvariant, TypeOK, unsettled
  <2>5. \A q \in Processes :
          /\ unsettled(q)' \subseteq unsettled(q)
          /\ drain'[q].answer # "none" => drain'[q].fence \notin drain'[q].claims
          /\ late'[q] = late[q]
    BY <2>1, <2>2, <2>3, <2>4 DEF ClaimInvariant, ClaimsAreDistinct
  <2>6. ASSUME NEW e \in EventNumbers, outbox'[e] # outbox[e]
        PROVE  /\ outbox[e].state # "absent" /\ outbox'[e].epoch = outbox[e].epoch
               /\ \A q \in Processes : \A f \in unsettled(q)' :
                     f.event = e => f.expires_at <= now
    <3>1. /\ e = drain[p].fence.event /\ current_claim(outbox[e], drain[p].fence, p)
          /\ outbox'[e].epoch = outbox[e].epoch
      BY <1>2, <2>1, <2>6
    <3>2. SUFFICES ASSUME NEW q \in Processes, NEW f \in unsettled(q)', f.event = e,
                          now < f.expires_at
                   PROVE  FALSE
      <4>1. \A q \in Processes : \A f \in unsettled(q)' : f.expires_at \in Nat
        BY <2>5, UnsettledAreFences
      <4>2. \A x \in Nat : ~(now < x) => x <= now
        BY <1>1
      <4> QED
        BY <3>1, <3>2, <4>1, <4>2 DEF current_claim
    <3>3. f \in unsettled(q) /\ outbox[e].owner = q
      BY <2>5, <3>2 DEF ClaimInvariant, ClaimsAreCurrent
    <3>4. q = p
      BY <3>1, <3>3 DEF current_claim
    <3>5. f = drain[p].fence
      BY <2>3, <3>1, <3>2, <3>3, <3>4 DEF ClaimInvariant, ClaimsAreDistinct
    <3> QED
      BY <2>1, <2>3, <3>2, <3>4, <3>5 DEF ClaimInvariant, ClaimsAreDistinct
  <2> QED
    BY <1>1, <2>5, <2>6, NoNewClaim
<1>4. CASE late_settlement(p)
  <2>1. /\ late[p].answer # "none" /\ late[p].fence \in Fence
        /\ apply_settlement(p, late[p].fence, late[p].answer) /\ UNCHANGED drain
    BY <1>4 DEF late_settlement, HistoryInvariant, DeliveryIsBacked, truthful
  <2>2. \A q \in Processes : late'[q] = late[q] \/ late'[q].answer = "none"
    BY <1>4 DEF late_settlement, HistoryInvariant, TypeOK, NoSettlement
  <2>3. \A q \in Processes :
          /\ unsettled(q)' = unsettled(q)
          /\ drain'[q].answer # "none" => drain'[q].fence \notin drain'[q].claims
    BY <2>1 DEF unsettled, ClaimInvariant, ClaimsAreDistinct
  <2>4. ASSUME NEW e \in EventNumbers, outbox'[e] # outbox[e]
        PROVE  /\ outbox[e].state # "absent" /\ outbox'[e].epoch = outbox[e].epoch
               /\ \A q \in Processes : \A f \in unsettled(q)' :
                     f.event = e => f.expires_at <= now
    <3>1. /\ e = late[p].fence.event /\ current_claim(outbox[e], late[p].fence, p)
          /\ outbox'[e].epoch = outbox[e].epoch
      BY <1>2, <2>1, <2>4
    <3>2. SUFFICES ASSUME NEW q \in Processes, NEW f \in unsettled(q), f.event = e,
                          now < f.expires_at
                   PROVE  FALSE
      <4>1. \A q \in Processes : \A f \in unsettled(q) : f.expires_at \in Nat
        BY UnsettledAreFences
      <4>2. \A x \in Nat : ~(now < x) => x <= now
        BY <1>1
      <4> QED
        BY <2>3, <3>1, <3>2, <4>1, <4>2 DEF current_claim
    <3>3. outbox[e].owner = q /\ outbox[e].epoch = f.epoch
      BY <3>2 DEF ClaimInvariant, ClaimsAreCurrent
    <3>4. q = p /\ f.epoch = late[p].fence.epoch
      BY <3>1, <3>3 DEF current_claim
    <3>5. late[p].fence.epoch < f.epoch /\ f.epoch \in Nat
      BY <2>1, <3>1, <3>2, <3>4, UnsettledAreFences DEF ClaimInvariant, FencesTrail
    <3> QED
      BY <3>4, <3>5
  <2> QED
    BY <1>1, <2>2, <2>3, <2>4, NoNewClaim
<1> QED
  BY <1>3, <1>4

\* Every step keeps the claims exclusive.
LEMMA NextClaims ==
    ASSUME HistoryInvariant, HistoryInvariant', ClaimInvariant, [Next]_vars
    PROVE  ClaimInvariant'
<1>1. now \in Nat /\ run.sequence \in Nat
  BY DEF HistoryInvariant, TypeOK, Run
<1>2. ASSUME NEW p \in Processes, Deliver(p)
      PROVE  ClaimInvariant'
  BY <1>2, ClaimKeepsApart, PublishKeepsApart, SettleKeepsApart DEF Deliver
<1>3. CASE \/ UNCHANGED vars \/ Tick \/ scan_history_retention_runs \/ retain_candidate
           \/ \E o \in Obligations : obligation_ends(o)
           \/ \E key \in HoldKeys : place_run_history_hold(key) \/ release_run_history_hold(key)
           \/ \E r \in Readers : read_public_run_events(r) \/ history_gap(r)
  <2>1. UNCHANGED <<outbox, drain, late>> /\ now <= now' /\ run'.sequence = run.sequence
    BY <1>1, <1>3
       DEF vars, Tick, obligation_ends, scan_history_retention_runs, retain_candidate,
           place_run_history_hold, release_run_history_hold, read_public_run_events,
           history_gap, HistoryInvariant, TypeOK, Run
  <2> QED
    BY <1>1, <2>1, OthersKeepApart
<1>4. ASSUME NEW terminal \in BOOLEAN, append_event(terminal)
      PROVE  ClaimInvariant'
  <2>1. UNCHANGED <<now, drain, late>> /\ run'.sequence = run.sequence + 1
    BY <1>1, <1>4 DEF append_event, HistoryInvariant, TypeOK, Run
  <2>2. \A e \in EventNumbers : e <= run.sequence => outbox'[e] = outbox[e]
    BY <1>1, <1>4 DEF append_event, HistoryInvariant, TypeOK, EventNumbers
  <2> QED
    BY <1>1, <2>1, <2>2, OthersKeepApart
<1>5. CASE purge_public_run_event_prefix
  <2>1. UNCHANGED <<now, drain, late>> /\ run'.sequence = run.sequence
    BY <1>5 DEF purge_public_run_event_prefix, delete_prefix, HistoryInvariant, TypeOK, Run
  <2>2. \A e \in EventNumbers :
          outbox'[e] = outbox[e] \/ (outbox'[e] = NoRow /\ outbox[e].state # "publishing")
    BY <1>5 DEF purge_public_run_event_prefix, delete_prefix, delivered_long_ago
  <2> QED
    BY <1>1, <2>1, <2>2, OthersKeepApart
<1>6. ASSUME NEW e \in EventNumbers, retire_event(e)
      PROVE  ClaimInvariant'
  <2>1. UNCHANGED <<now, run, drain, late>>
    BY <1>6 DEF retire_event
  <2>2. \A d \in EventNumbers :
          outbox'[d] = outbox[d] \/ (outbox'[d] = NoRow /\ outbox[d].state # "publishing")
    BY <1>6 DEF retire_event, delivered_long_ago, HistoryInvariant, TypeOK
  <2> QED
    BY <1>1, <2>1, <2>2, OthersKeepApart
<1> QED
  BY <1>2, <1>3, <1>4, <1>5, <1>6 DEF Next, Maintain

\* The fences of the outbox keep two processes from working on one event while
\* both leases run, with any number of crashes and late settlements.
THEOREM ClaimsAreExclusive == Spec => []ClaimsDoNotOverlap
<1>1. Init => ClaimInvariant
  BY DEF Init, ClaimInvariant, ClaimsAreCurrent, ClaimsAreDistinct, FencesTrail, unsettled,
         Idle, NoSettlement
<1>2. HistoryInvariant /\ HistoryInvariant' /\ ClaimInvariant /\ [Next]_vars => ClaimInvariant'
  BY NextClaims
<1>3. HistoryInvariant /\ ClaimInvariant => ClaimsDoNotOverlap
  <2> SUFFICES ASSUME HistoryInvariant, ClaimInvariant, NEW p \in Processes, NEW q \in Processes,
                      NEW f \in unsettled(p), NEW g \in unsettled(q),
                      p # q, f.event = g.event
               PROVE  f.expires_at <= now \/ g.expires_at <= now
    BY DEF ClaimsDoNotOverlap
  <2>1. f.expires_at \in Nat /\ g.expires_at \in Nat /\ now \in Nat
    BY UnsettledAreFences DEF HistoryInvariant, TypeOK
  <2>2. ~(now < f.expires_at /\ now < g.expires_at)
    BY DEF ClaimInvariant, ClaimsAreCurrent
  <2> QED
    BY <2>1, <2>2
<1> QED
  BY <1>1, <1>2, <1>3, HistoryInvariantHolds, PTL DEF Spec
=============================================================================
