----------------------------- MODULE OutboxRelay -----------------------------
(***************************************************************************)
(* The transactional outbox of one service and the relays that publish it  *)
(* (platform/src/events/outbox.ts, publisher.ts): several instances claim  *)
(* rows of one table, publish them and mark them, each claim one database  *)
(* transaction.  An event is named by its row's seq.  The events are those *)
(* of the catalogue that must reach a consumer, so they are sent mandatory.*)
(***************************************************************************)
EXTENDS Naturals, FiniteSets

CONSTANTS
    LastEvent,       \* bound: the events are 1 .. LastEvent
    AggregateOf,     \* the aggregate each event is about
    Relays,          \* the instances that relay this outbox
    BatchSize,       \* rows per claim
    MaxAttempts,     \* deliveries to a handler before a message is set aside
    MaxFaults        \* bound: crashes, lost connections and lost commits

Events == 1 .. LastEvent
Attempts == 1 .. MaxAttempts

ASSUME RelayAssumption ==
    /\ LastEvent \in Nat \ {0}
    /\ BatchSize \in Nat \ {0}
    /\ MaxAttempts \in Nat \ {0}
    /\ MaxFaults \in Nat
    /\ DOMAIN AggregateOf = Events

VARIABLES
    outbox,          \* the committed state of each row
    claim,           \* each relay's open transaction
    bound,           \* has the consumer declared its queue
    queue,           \* copies of each event ready on the queue, by attempt
    faults,          \* faults that have happened
    sent,            \* copies of each row the broker took (history)
    spoiled          \* ... of which the mark was lost (history)

relayVars == <<outbox, claim, bound, queue, faults, sent, spoiled>>

NoClaim == [held |-> {}, todo |-> {}, done |-> {}, failed |-> {}]

RelayInit ==
    /\ outbox = [e \in Events |-> "absent"]
    /\ claim = [r \in Relays |-> NoClaim]
    /\ bound = FALSE
    /\ queue = [e \in Events |-> [a \in Attempts |-> 0]]
    /\ faults = 0
    /\ sent = [e \in Events |-> 0]
    /\ spoiled = [e \in Events |-> 0]

Fault == faults < MaxFaults /\ faults' = faults + 1

Earlier(e) == {f \in Events : f < e /\ AggregateOf[f] = AggregateOf[e]}

Unpublished(e) == outbox[e] \in {"ready", "backoff"}

Enqueued(e, a) == [queue EXCEPT ![e][a] = @ + 1]

(* The producer commits a change and its event.  It locks the aggregate    *)
(* while it changes it, so the rows of one aggregate commit in seq order.  *)
insertOutboxEvent(e) ==
    /\ outbox[e] = "absent"
    /\ \A f \in Earlier(e) : outbox[f] # "absent"
    /\ outbox' = [outbox EXCEPT ![e] = "ready"]
    /\ UNCHANGED <<claim, bound, queue, faults, sent, spoiled>>

(* The consuming service connects for the first time.                      *)
declareTopology ==
    /\ ~bound
    /\ bound' = TRUE
    /\ UNCHANGED <<outbox, claim, queue, faults, sent, spoiled>>

Locked == UNION {claim[r].held : r \in Relays}

MutantClaimable ==
    LET free == {e \in Events : outbox[e] = "ready" /\ e \notin Locked} IN
    {e \in free : Cardinality({f \in free : f < e}) < BatchSize}

MutantUnlocked ==
    LET free == {e \in Events : outbox[e] = "ready" /\ \A f \in Earlier(e) : ~Unpublished(f)} IN
    {e \in free : Cardinality({f \in free : f < e}) < BatchSize}

(* What CLAIM_SQL selects: rows that are due, are not locked, and have no  *)
(* unpublished row of their aggregate before them; BatchSize, oldest first.*)
Claimable ==
    LET free == {e \in Events : /\ outbox[e] = "ready"
                                /\ e \notin Locked
                                /\ \A f \in Earlier(e) : ~Unpublished(f)} IN
    {e \in free : Cardinality({f \in free : f < e}) < BatchSize}

Claim(r) ==
    /\ claim[r] = NoClaim
    /\ Claimable # {}
    /\ claim' = [claim EXCEPT ![r] =
                    [held |-> Claimable, todo |-> Claimable, done |-> {}, failed |-> {}]]
    /\ UNCHANGED <<outbox, bound, queue, faults, sent, spoiled>>

NextRow(r, e) == e \in claim[r].todo /\ \A f \in claim[r].todo : e <= f

(* The broker confirms the row: it is marked, in the open transaction.     *)
Publish(r, e) ==
    /\ NextRow(r, e)
    /\ bound
    /\ claim' = [claim EXCEPT ![r].todo = @ \ {e}, ![r].done = @ \cup {e}]
    /\ queue' = Enqueued(e, 1)
    /\ sent' = [sent EXCEPT ![e] = @ + 1]
    /\ UNCHANGED <<outbox, bound, faults, spoiled>>

(* Nobody listens yet: the broker hands the event back, the relay records  *)
(* the failure and goes on to the next row.                                *)
PublishUnroutable(r, e) ==
    /\ NextRow(r, e)
    /\ ~bound
    /\ claim' = [claim EXCEPT ![r].todo = @ \ {e}, ![r].failed = @ \cup {e}]
    /\ UNCHANGED <<outbox, bound, queue, faults, sent, spoiled>>

(* No confirmation in time, or an error: the failure is recorded and the   *)
(* claim stops.  The broker may have taken the message all the same.       *)
PublishFails(r, e) ==
    /\ NextRow(r, e)
    /\ Fault
    /\ claim' = [claim EXCEPT ![r].todo = {}, ![r].failed = @ \cup {e}]
    /\ \/ UNCHANGED <<queue, sent, spoiled>>
       \/ /\ bound
          /\ queue' = Enqueued(e, 1)
          /\ sent' = [sent EXCEPT ![e] = @ + 1]
          /\ spoiled' = [spoiled EXCEPT ![e] = @ + 1]
    /\ UNCHANGED <<outbox, bound>>

MutantCommit(r) ==
    /\ claim[r].held # {} /\ claim[r].todo = {}
    /\ outbox' = [e \in Events |-> IF e \in claim[r].done \cup claim[r].failed
                                   THEN "published" ELSE outbox[e]]
    /\ claim' = [claim EXCEPT ![r] = NoClaim]
    /\ UNCHANGED <<bound, queue, faults, sent, spoiled>>

(* The claim's transaction commits.                                        *)
Commit(r) ==
    /\ claim[r].held # {} /\ claim[r].todo = {}
    /\ outbox' = [e \in Events |-> CASE e \in claim[r].done -> "published"
                                     [] e \in claim[r].failed -> "backoff"
                                     [] OTHER -> outbox[e]]
    /\ claim' = [claim EXCEPT ![r] = NoClaim]
    /\ UNCHANGED <<bound, queue, faults, sent, spoiled>>

(* The relay crashes, or its transaction does not commit: every row it     *)
(* held is as it was, though the broker has some of them.                  *)
Abort(r) ==
    /\ claim[r].held # {}
    /\ Fault
    /\ claim' = [claim EXCEPT ![r] = NoClaim]
    /\ spoiled' = [e \in Events |-> spoiled[e] + IF e \in claim[r].done THEN 1 ELSE 0]
    /\ UNCHANGED <<outbox, bound, queue, sent>>

MutantBackoff(e) ==
    /\ outbox[e] = "backoff"
    /\ faults < MaxFaults
    /\ outbox' = [outbox EXCEPT ![e] = "ready"]
    /\ UNCHANGED <<claim, bound, queue, faults, sent, spoiled>>

(* next_attempt_at of a failed row is reached: the delay has a ceiling.    *)
BackoffPasses(e) ==
    /\ outbox[e] = "backoff"
    /\ outbox' = [outbox EXCEPT ![e] = "ready"]
    /\ UNCHANGED <<claim, bound, queue, faults, sent, spoiled>>

RelayStep(r) ==
    \/ Claim(r)
    \/ \E e \in Events : Publish(r, e) \/ PublishUnroutable(r, e)
    \/ Commit(r)

RelayNext ==
    \/ \E e \in Events : insertOutboxEvent(e) \/ BackoffPasses(e)
    \/ declareTopology
    \/ \E r \in Relays :
          \/ RelayStep(r)
          \/ \E e \in Events : PublishFails(r, e)
          \/ Abort(r)

RelaySpec == RelayInit /\ [][RelayNext]_relayVars

(* As far as the code promises progress: the consumer starts one day, time *)
(* passes, and an instance that is up takes its next step.                 *)
RelayFairness ==
    /\ WF_relayVars(declareTopology)
    /\ \A e \in Events : WF_relayVars(BackoffPasses(e))
    /\ \A r \in Relays : WF_relayVars(RelayStep(r))

FairRelaySpec == RelaySpec /\ RelayFairness

-----------------------------------------------------------------------------
RelayTypeOK ==
    /\ outbox \in [Events -> {"absent", "ready", "backoff", "published", "gone"}]
    /\ claim \in [Relays -> [held : SUBSET Events, todo : SUBSET Events,
                             done : SUBSET Events, failed : SUBSET Events]]
    /\ bound \in BOOLEAN
    /\ queue \in [Events -> [Attempts -> Nat]]
    /\ faults \in 0 .. MaxFaults
    /\ sent \in [Events -> Nat]
    /\ spoiled \in [Events -> Nat]

(* One aggregate's events reach the broker in the order they were written: *)
(* none is sent before the one before it was, whatever fails, backs off,   *)
(* crashes or is held by another relay.                                    *)
SentInOrder ==
    \A e \in Events : sent[e] > 0 => \A f \in Earlier(e) : sent[f] > 0

(* Two healthy relays never send a row twice: each copy after the first is *)
(* accounted for by a confirmation or a commit that was lost.              *)
NoNeedlessCopy == \A e \in Events : sent[e] <= 1 + spoiled[e]

(* A row counts as published only once the broker has it: no failure, with *)
(* or without backoff, drops an event.                                     *)
PublishedWasSent == \A e \in Events : outbox[e] \in {"published", "gone"} => sent[e] > 0

(* Every committed event is published in the end, behind failures, lost    *)
(* commits and a consumer that starts late.                                *)
BacklogDrains ==
    \A e \in Events : Unpublished(e) ~> outbox[e] = "published"
=============================================================================
