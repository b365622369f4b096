---------------------------- MODULE EventDelivery ----------------------------
(***************************************************************************)
(* One durable queue from the producer's outbox to the consumer's effect:  *)
(* attempts and retries (platform/src/events/consumer.ts), the inbox       *)
(* (inbox.ts), dead letters parked and redriven (dead-letters.ts) and the  *)
(* pruning of the event tables (retention.ts).                             *)
(***************************************************************************)
EXTENDS OutboxRelay

CONSTANTS
    Workers,         \* deliveries in hand at once, each on a channel of its own
    NoEvent,         \* what an idle worker holds
    MaxRedrives,     \* bound: redrives of one event
    PruneRaces       \* may the pruner run while a redriven copy is on its way

ASSUME DeliveryAssumption ==
    /\ NoEvent \notin Events
    /\ MaxRedrives \in Nat
    /\ PruneRaces \in BOOLEAN

VARIABLES
    delayed,         \* copies in a retry queue, by the attempt they will be
    dlq,             \* copies on the dead-letter queue
    job,             \* what each worker has in hand
    inbox,           \* processed_events
    waiting,         \* dead_letters rows of each event, not redriven
    redriven,        \* ... and redriven
    redriving,       \* rows of each event a redrive has locked and published
    old,             \* events whose inbox row is past its retention
    effects,         \* how often each event's effect was committed (history)
    ignored          \* events a handler found stale (history)

consumerVars == <<delayed, job, inbox, effects, ignored>>
letterVars == <<dlq, waiting, redriven, redriving>>
vars == <<relayVars, consumerVars, letterVars, old>>

Idle == [event |-> NoEvent, attempt |-> 1, phase |-> "idle", open |-> TRUE]

Init ==
    /\ RelayInit
    /\ delayed = [e \in Events |-> [a \in Attempts |-> 0]]
    /\ dlq = [e \in Events |-> 0]
    /\ job = [w \in Workers |-> Idle]
    /\ inbox = {}
    /\ waiting = [e \in Events |-> 0]
    /\ redriven = [e \in Events |-> 0]
    /\ redriving = [e \in Events |-> 0]
    /\ old = {}
    /\ effects = [e \in Events |-> 0]
    /\ ignored = {}

-----------------------------------------------------------------------------
(* The consumer.  Handlers run at once: the queue keeps no order.          *)

Deliver(w, e, a) ==
    /\ job[w] = Idle
    /\ queue[e][a] > 0
    /\ queue' = [queue EXCEPT ![e][a] = @ - 1]
    /\ job' = [job EXCEPT ![w] = [event |-> e, attempt |-> a, phase |-> "handling", open |-> TRUE]]
    /\ UNCHANGED <<outbox, claim, bound, faults, sent, spoiled>>
    /\ UNCHANGED <<delayed, inbox, effects, ignored, letterVars, old>>

Phase(w, from, to) ==
    /\ job[w].phase = from
    /\ job' = [job EXCEPT ![w].phase = to]

(* The handler's transaction commits: the inbox row and, unless the row    *)
(* was there already, the effect.  The row's key makes two copies take     *)
(* turns.  A handler whose channel has closed meanwhile still commits.     *)
processOnce(w) ==
    LET e == job[w].event IN
    /\ Phase(w, "handling", "handled")
    /\ effects' = [effects EXCEPT ![e] = IF e \in inbox THEN @ ELSE @ + 1]
    /\ inbox' = inbox \cup {e}
    /\ UNCHANGED <<relayVars, delayed, ignored, letterVars, old>>

(* StaleEventError: the transaction rolls back and the message is done.    *)
StaleEvent(w) ==
    /\ job[w].event \notin inbox
    /\ Phase(w, "handling", "handled")
    /\ ignored' = ignored \cup {job[w].event}
    /\ UNCHANGED <<relayVars, delayed, inbox, effects, letterVars, old>>

(* The handler, or its commit, fails; or the message cannot be read.       *)
HandlerFails(w) ==
    /\ Phase(w, "handling", "failed") \/ Phase(w, "handling", "unparseable")
    /\ UNCHANGED <<relayVars, delayed, inbox, effects, ignored, letterVars, old>>

MutantRetry(w) ==
    LET e == job[w].event
        a == job[w].attempt IN
    /\ job[w].open
    /\ \/ /\ Phase(w, "failed", "handled")
          /\ a < MaxAttempts
          /\ delayed' = [delayed EXCEPT ![e][a + 1] = @ + 1]
          /\ UNCHANGED dlq
       \/ /\ \/ Phase(w, "failed", "handled") /\ a = MaxAttempts
             \/ Phase(w, "unparseable", "handled")
          /\ UNCHANGED <<dlq, delayed>>
    /\ UNCHANGED <<relayVars, inbox, effects, ignored, waiting, redriven, redriving, old>>

MutantSameAttempt(w) ==
    LET e == job[w].event
        a == job[w].attempt IN
    /\ job[w].open
    /\ \/ /\ Phase(w, "failed", "handled")
          /\ delayed' = [delayed EXCEPT ![e][a] = @ + 1]
          /\ UNCHANGED dlq
       \/ /\ Phase(w, "unparseable", "handled")
          /\ dlq' = [dlq EXCEPT ![e] = @ + 1]
          /\ UNCHANGED delayed
    /\ UNCHANGED <<relayVars, inbox, effects, ignored, waiting, redriven, redriving, old>>

(* A failed message is published to the retry queue of its attempt, and    *)
(* once its attempts are spent, or if it is unparseable, to the            *)
(* dead-letter exchange; then it is acknowledged.                          *)
retryOrDeadLetter(w) ==
    LET e == job[w].event
        a == job[w].attempt IN
    /\ job[w].open
    /\ \/ /\ Phase(w, "failed", "handled")
          /\ a < MaxAttempts
          /\ delayed' = [delayed EXCEPT ![e][a + 1] = @ + 1]
          /\ UNCHANGED dlq
       \/ /\ \/ Phase(w, "failed", "handled") /\ a = MaxAttempts
             \/ Phase(w, "unparseable", "handled")
          /\ dlq' = [dlq EXCEPT ![e] = @ + 1]
          /\ UNCHANGED delayed
    /\ UNCHANGED <<relayVars, inbox, effects, ignored, waiting, redriven, redriving, old>>

Ack(w) ==
    /\ job[w].open
    /\ job[w].phase = "handled"
    /\ job' = [job EXCEPT ![w] = Idle]
    /\ UNCHANGED <<relayVars, delayed, inbox, effects, ignored, letterVars, old>>

(* The channel closes: the broker takes the message back, but the handler  *)
(* runs on, and can then neither publish nor acknowledge.                  *)
ChannelCloses(w) ==
    /\ job[w].event # NoEvent /\ job[w].open
    /\ Fault
    /\ queue' = Enqueued(job[w].event, job[w].attempt)
    /\ job' = [job EXCEPT ![w].open = FALSE]
    /\ UNCHANGED <<outbox, claim, bound, sent, spoiled>>
    /\ UNCHANGED <<delayed, inbox, effects, ignored, letterVars, old>>

NotSettled(w) ==
    /\ ~job[w].open
    /\ job[w].phase # "handling"
    /\ job' = [job EXCEPT ![w] = Idle]
    /\ UNCHANGED <<relayVars, delayed, inbox, effects, ignored, letterVars, old>>

(* The instance dies with the message in hand.                             *)
Crash(w) ==
    /\ job[w].event # NoEvent
    /\ Fault
    /\ queue' = IF job[w].open THEN Enqueued(job[w].event, job[w].attempt) ELSE queue
    /\ job' = [job EXCEPT ![w] = Idle]
    /\ UNCHANGED <<outbox, claim, bound, sent, spoiled>>
    /\ UNCHANGED <<delayed, inbox, effects, ignored, letterVars, old>>

(* A retry queue's delay passes: the message returns to its own queue.     *)
DelayPasses(e, a) ==
    /\ delayed[e][a] > 0
    /\ delayed' = [delayed EXCEPT ![e][a] = @ - 1]
    /\ queue' = Enqueued(e, a)
    /\ UNCHANGED <<outbox, claim, bound, faults, sent, spoiled>>
    /\ UNCHANGED <<job, inbox, effects, ignored, letterVars, old>>

-----------------------------------------------------------------------------
(* Dead letters.                                                           *)

(* The message is stored, then acknowledged; the acknowledgement may be    *)
(* lost, and then the message is stored again under another id.            *)
park(e) ==
    /\ dlq[e] > 0
    /\ waiting' = [waiting EXCEPT ![e] = @ + 1]
    /\ \/ dlq' = [dlq EXCEPT ![e] = @ - 1] /\ UNCHANGED faults
       \/ Fault /\ UNCHANGED dlq
    /\ UNCHANGED <<outbox, claim, bound, queue, sent, spoiled>>
    /\ UNCHANGED <<consumerVars, redriven, redriving, old>>

(* An operator redrives a dead letter.  Its row is locked and the message  *)
(* goes back to its queue with its attempts started again ...              *)
redrive(e) ==
    /\ waiting[e] > redriving[e]
    /\ redriven[e] + redriving[e] < MaxRedrives
    /\ queue' = Enqueued(e, 1)
    /\ redriving' = [redriving EXCEPT ![e] = @ + 1]
    /\ UNCHANGED <<outbox, claim, bound, faults, sent, spoiled>>
    /\ UNCHANGED <<consumerVars, dlq, waiting, redriven, old>>

MutantRedriveCommits(e) ==
    /\ redriving[e] > 0
    /\ waiting' = [waiting EXCEPT ![e] = @ - 1]
    /\ redriven' = [redriven EXCEPT ![e] = @ + 1]
    /\ UNCHANGED <<relayVars, consumerVars, dlq, redriving, old>>

(* ... and, once the broker has confirmed it, the row is stamped.          *)
RedriveCommits(e) ==
    /\ redriving[e] > 0
    /\ redriving' = [redriving EXCEPT ![e] = @ - 1]
    /\ waiting' = [waiting EXCEPT ![e] = @ - 1]
    /\ redriven' = [redriven EXCEPT ![e] = @ + 1]
    /\ UNCHANGED <<relayVars, consumerVars, dlq, old>>

(* The stamp or the commit fails: the row waits, the message is out.       *)
RedriveFails(e) ==
    /\ redriving[e] > 0
    /\ Fault
    /\ redriving' = [redriving EXCEPT ![e] = @ - 1]
    /\ UNCHANGED <<outbox, claim, bound, queue, sent, spoiled>>
    /\ UNCHANGED <<consumerVars, dlq, waiting, redriven, old>>

-----------------------------------------------------------------------------
(* Retention.                                                              *)

Copies(e) ==
    \/ \E a \in Attempts : queue[e][a] > 0 \/ delayed[e][a] > 0
    \/ dlq[e] > 0
    \/ \E w \in Workers : job[w].event = e

(* Nothing of the event is on its way: only an operator can bring it back. *)
Drained(e) == ~Unpublished(e) /\ ~Copies(e) /\ redriving[e] = 0

(* inboxDays pass.  Queues, retries and relays take far less than that, a  *)
(* dead letter may wait for longer.                                        *)
RetentionPasses(e) ==
    /\ e \in inbox \ old
    /\ Drained(e)
    /\ old' = old \cup {e}
    /\ UNCHANGED <<relayVars, consumerVars, letterVars>>

(* outboxDays after it was published, an outbox row goes.                  *)
pruneOutbox(e) ==
    /\ outbox[e] = "published"
    /\ outbox' = [outbox EXCEPT ![e] = "gone"]
    /\ UNCHANGED <<claim, bound, queue, faults, sent, spoiled>>
    /\ UNCHANGED <<consumerVars, letterVars, old>>

MutantPruneInbox(e) ==
    /\ e \in inbox \cap old
    /\ PruneRaces \/ Drained(e)
    /\ inbox' = inbox \ {e}
    /\ old' = old \ {e}
    /\ UNCHANGED <<relayVars, delayed, job, effects, ignored, letterVars>>

(* An inbox row past its retention goes, unless its event waits as a dead  *)
(* letter.  Without PruneRaces a redriven copy is handled before the next  *)
(* pass of the pruner.                                                     *)
pruneInbox(e) ==
    /\ e \in inbox \cap old
    /\ waiting[e] = 0
    /\ PruneRaces \/ Drained(e)
    /\ inbox' = inbox \ {e}
    /\ old' = old \ {e}
    /\ UNCHANGED <<relayVars, delayed, job, effects, ignored, letterVars>>

-----------------------------------------------------------------------------
OutboxSide == RelayNext /\ UNCHANGED <<consumerVars, letterVars, old>>

Handle(w) ==
    \/ processOnce(w) \/ StaleEvent(w) \/ HandlerFails(w)
    \/ retryOrDeadLetter(w)
    \/ Ack(w) \/ NotSettled(w)

DeliverAny(w) == \E e \in Events, a \in Attempts : Deliver(w, e, a)

Next ==
    \/ OutboxSide
    \/ \E w \in Workers : DeliverAny(w) \/ Handle(w) \/ ChannelCloses(w) \/ Crash(w)
    \/ \E e \in Events :
          \/ \E a \in Attempts : DelayPasses(e, a)
          \/ park(e)
          \/ redrive(e) \/ RedriveCommits(e) \/ RedriveFails(e)
          \/ RetentionPasses(e) \/ pruneOutbox(e) \/ pruneInbox(e)

Spec == Init /\ [][Next]_vars

(* The relays as in FairRelaySpec; a message on a queue is delivered, a    *)
(* handler ends, delays pass, dead letters are parked, and a redrive ends. *)
(* Operators, the pruner and faults owe nothing.                           *)
Fairness ==
    /\ WF_vars(declareTopology /\ UNCHANGED <<consumerVars, letterVars, old>>)
    /\ \A r \in Relays : WF_vars(RelayStep(r) /\ UNCHANGED <<consumerVars, letterVars, old>>)
    /\ \A w \in Workers : WF_vars(DeliverAny(w)) /\ WF_vars(Handle(w))
    /\ \A e \in Events :
          /\ WF_vars(BackoffPasses(e) /\ UNCHANGED <<consumerVars, letterVars, old>>)
          /\ \A a \in Attempts : WF_vars(DelayPasses(e, a))
          /\ WF_vars(park(e))
          /\ WF_vars(RedriveCommits(e))

FairSpec == Spec /\ Fairness

-----------------------------------------------------------------------------
TypeOK ==
    /\ RelayTypeOK
    /\ delayed \in [Events -> [Attempts -> Nat]]
    /\ dlq \in [Events -> Nat]
    /\ job \in [Workers -> [event : Events \cup {NoEvent}, attempt : Attempts, open : BOOLEAN,
                            phase : {"idle", "handling", "handled", "failed", "unparseable"}]]
    /\ inbox \subseteq Events
    /\ waiting \in [Events -> Nat]
    /\ redriven \in [Events -> Nat]
    /\ redriving \in [Events -> Nat] /\ \A e \in Events : redriving[e] <= waiting[e]
    /\ old \subseteq inbox
    /\ effects \in [Events -> Nat]
    /\ ignored \subseteq Events

(* An event's effect is committed at most once, however many copies the    *)
(* relay, the broker, a retry, a lost acknowledgement or an operator make, *)
(* and although the rows that recognise a copy are pruned.                 *)
EffectOnce == \A e \in Events : effects[e] <= 1

Settled(e) == effects[e] > 0 \/ e \in ignored \/ waiting[e] > 0

(* A committed event is never lost: it is applied, found stale or waiting  *)
(* for an operator, or it is still in the outbox, on a queue or in the     *)
(* hands of a consumer that will give it back.                             *)
NothingLost ==
    \A e \in Events :
        outbox[e] # "absent" =>
            \/ Settled(e)
            \/ Unpublished(e)
            \/ dlq[e] > 0
            \/ \E a \in Attempts : queue[e][a] > 0 \/ delayed[e][a] > 0
            \/ \E w \in Workers : job[w].event = e /\ job[w].open

(* When faults and redrives end, every committed event comes to rest,      *)
(* applied, found stale or parked: none circulates for ever between queue, *)
(* retry and consumer, and none stays behind in the outbox.                *)
EventsSettle ==
    \A e \in Events : <>[](outbox[e] = "absent" \/ (Drained(e) /\ Settled(e)))
=============================================================================
