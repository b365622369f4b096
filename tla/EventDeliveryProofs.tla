------------------------- MODULE EventDeliveryProofs -------------------------
(***************************************************************************)
(* The outbox and its relays, and from the outbox to the effect, for any   *)
(* number of events, aggregates, relays, workers, attempts, faults and     *)
(* redrives, and any batch size: no committed event is lost, and none      *)
(* takes effect twice as long as the pruner leaves redriven copies time to *)
(* arrive.                                                                 *)
(***************************************************************************)
EXTENDS EventDelivery, TLAPS

-----------------------------------------------------------------------------
(* The outbox and its relays.                                              *)

AtBroker == {"published", "gone"}

(* A claim's transaction works on rows it has locked, which are due and    *)
(* have only published rows of their aggregate before them; no other relay *)
(* holds them.                                                             *)
ClaimsSound ==
    /\ \A r \in Relays :
          /\ claim[r].todo \subseteq claim[r].held
          /\ claim[r].done \subseteq claim[r].held \ claim[r].todo
          /\ claim[r].failed \subseteq claim[r].held \ (claim[r].done \cup claim[r].todo)
          /\ \A e \in claim[r].held :
                /\ outbox[e] = "ready"
                /\ \A f \in Earlier(e) : outbox[f] \in AtBroker
    /\ \A r, s \in Relays : r # s => claim[r].held \cap claim[s].held = {}

(* Rows of one aggregate were written in order.                            *)
WrittenInOrder ==
    \A e \in Events : outbox[e] # "absent" => \A f \in Earlier(e) : outbox[f] # "absent"

(* A mark, committed or not, follows a copy the broker took, and a copy    *)
(* follows the row.                                                        *)
MarkedWasSent ==
    /\ PublishedWasSent
    /\ \A e \in Events : sent[e] > 0 => outbox[e] # "absent"
    /\ \A r \in Relays : \A e \in claim[r].done : sent[e] > 0

Marked(e) == outbox[e] \in AtBroker \/ \E r \in Relays : e \in claim[r].done

(* Copies the broker took: one for the mark, and the spoiled ones.         *)
CopiesCounted ==
    \A e \in Events : /\ ~Marked(e) => sent[e] <= spoiled[e]
                      /\ sent[e] <= 1 + spoiled[e]

RelayInv ==
    /\ RelayTypeOK
    /\ ClaimsSound
    /\ WrittenInOrder
    /\ MarkedWasSent
    /\ SentInOrder
    /\ CopiesCounted

-----------------------------------------------------------------------------
(* A claim takes due, unlocked rows with no unpublished row before them.   *)
LEMMA ClaimableRows ==
    \A e \in Claimable : /\ e \in Events /\ outbox[e] = "ready" /\ e \notin Locked
                         /\ \A f \in Earlier(e) : ~Unpublished(f)
  BY DEF Claimable

LEMMA RelayInitInv == RelayInit => RelayInv
  <1>. SUFFICES ASSUME RelayInit PROVE RelayInv
    OBVIOUS
  <1>. USE RelayAssumption DEF RelayInit, NoClaim
  <1>a. 0 \in 0 .. MaxFaults
    BY SMT
  <1>b. claim \in [Relays -> [held : SUBSET Events, todo : SUBSET Events,
                             done : SUBSET Events, failed : SUBSET Events]]
    OBVIOUS
  <1>c. queue \in [Events -> [Attempts -> Nat]]
    OBVIOUS
  <1>1. RelayTypeOK  BY <1>a, <1>b, <1>c DEF RelayTypeOK
  <1>2. ClaimsSound  BY DEF ClaimsSound
  <1>3. WrittenInOrder  BY DEF WrittenInOrder
  <1>4. MarkedWasSent  BY DEF MarkedWasSent, PublishedWasSent
  <1>5. SentInOrder  BY DEF SentInOrder
  <1>6. CopiesCounted  BY DEF CopiesCounted
  <1>. QED  BY <1>1, <1>2, <1>3, <1>4, <1>5, <1>6 DEF RelayInv

(* A row is written, or its backoff passes: only its own state changes,    *)
(* and it was neither due nor marked.                                      *)
LEMMA RowKeeps ==
  ASSUME RelayInv, NEW e \in Events, insertOutboxEvent(e) \/ BackoffPasses(e)
  PROVE  RelayInv'
  <1>. USE DEF RelayInv
  <1>1. /\ outbox[e] \in {"absent", "backoff"}
        /\ outbox' = [outbox EXCEPT ![e] = "ready"]
        /\ outbox[e] = "absent" => \A f \in Earlier(e) : outbox[f] # "absent"
        /\ UNCHANGED <<claim, bound, queue, faults, sent, spoiled>>
    BY DEF insertOutboxEvent, BackoffPasses
  <1>2. RelayTypeOK'  BY <1>1 DEF RelayTypeOK
  <1>3. ClaimsSound'  BY <1>1 DEF ClaimsSound, RelayTypeOK, Earlier, AtBroker
  <1>4. WrittenInOrder'  BY <1>1 DEF WrittenInOrder, RelayTypeOK, Earlier
  <1>5. MarkedWasSent'  BY <1>1 DEF MarkedWasSent, PublishedWasSent, RelayTypeOK
  <1>6. SentInOrder'  BY <1>1 DEF SentInOrder, Earlier
  <1>7. CopiesCounted'  BY <1>1 DEF CopiesCounted, Marked, AtBroker, RelayTypeOK
  <1>. QED  BY <1>2, <1>3, <1>4, <1>5, <1>6, <1>7

LEMMA TopologyKeeps ==
  ASSUME RelayInv, declareTopology
  PROVE  RelayInv'
  BY DEF RelayInv, declareTopology, RelayTypeOK, ClaimsSound, WrittenInOrder, MarkedWasSent,
         PublishedWasSent, SentInOrder, CopiesCounted, Marked, Earlier

LEMMA ClaimKeeps ==
  ASSUME RelayInv, NEW r \in Relays, Claim(r)
  PROVE  RelayInv'
  <1>. USE DEF RelayInv
  <1>1. /\ claim[r] = NoClaim
        /\ claim' = [claim EXCEPT ![r] =
                         [held |-> Claimable, todo |-> Claimable, done |-> {}, failed |-> {}]]
        /\ UNCHANGED <<outbox, bound, queue, faults, sent, spoiled>>
    BY DEF Claim
  <1>2. Claimable \subseteq Events
    BY ClaimableRows
  <1>3. RelayTypeOK'  BY <1>1, <1>2 DEF RelayTypeOK
  <1>4. \A e \in Claimable : \A f \in Earlier(e) : outbox[f] \in AtBroker
    BY ClaimableRows DEF WrittenInOrder, Unpublished, RelayTypeOK, AtBroker, Earlier
  <1>5. \A s \in Relays : Claimable \cap claim[s].held = {}
    BY ClaimableRows DEF Locked
  <1>6. \A s \in Relays : s # r => claim'[s] = claim[s]
    BY <1>1 DEF RelayTypeOK
  <1>7. claim'[r] = [held |-> Claimable, todo |-> Claimable, done |-> {}, failed |-> {}]
    BY <1>1 DEF RelayTypeOK
  <1>8. ClaimsSound'
    BY <1>1, <1>4, <1>5, <1>6, <1>7, ClaimableRows DEF ClaimsSound, Earlier
  <1>9. WrittenInOrder'  BY <1>1 DEF WrittenInOrder, Earlier
  <1>10. MarkedWasSent'  BY <1>1, <1>6, <1>7 DEF MarkedWasSent, PublishedWasSent
  <1>11. SentInOrder'  BY <1>1 DEF SentInOrder, Earlier
  <1>12. \A e \in Events : Marked(e)' <=> Marked(e)
    BY <1>1, <1>6, <1>7 DEF Marked, NoClaim
  <1>13. CopiesCounted'  BY <1>1, <1>12 DEF CopiesCounted
  <1>. QED  BY <1>3, <1>8, <1>9, <1>10, <1>11, <1>13

(* What publishing leaves as it was: the other claims, the locks and the   *)
(* rows; so soundness of claims rests on this relay's sets alone.          *)
LEMMA SameLocks ==
  ASSUME RelayInv, NEW r \in Relays, NEW c, UNCHANGED outbox,
         claim' = [claim EXCEPT ![r] = c],
         c \in [held : SUBSET Events, todo : SUBSET Events,
                done : SUBSET Events, failed : SUBSET Events],
         c.held = claim[r].held,
         c.todo \subseteq c.held,
         c.done \subseteq c.held \ c.todo,
         c.failed \subseteq c.held \ (c.done \cup c.todo)
  PROVE  /\ claim' \in [Relays -> [held : SUBSET Events, todo : SUBSET Events,
                                   done : SUBSET Events, failed : SUBSET Events]]
         /\ \A s \in Relays : s # r => claim'[s] = claim[s]
         /\ claim'[r] = c
         /\ ClaimsSound' /\ WrittenInOrder'
  <1>. USE DEF RelayInv, RelayTypeOK
  <1>1. claim' \in [Relays -> [held : SUBSET Events, todo : SUBSET Events,
                              done : SUBSET Events, failed : SUBSET Events]]
    OBVIOUS
  <1>2. \A s \in Relays : s # r => claim'[s] = claim[s]
    OBVIOUS
  <1>3. claim'[r] = c
    OBVIOUS
  <1>4. \A s \in Relays : claim'[s].held = claim[s].held
    BY <1>2, <1>3
  <1>5. ClaimsSound'
    BY <1>2, <1>3, <1>4 DEF ClaimsSound, Earlier
  <1>6. WrittenInOrder'
    BY DEF WrittenInOrder, Earlier
  <1>. QED  BY <1>1, <1>2, <1>3, <1>5, <1>6

(* A copy more on the queue, at an attempt there is.                       *)
LEMMA OneMore ==
  ASSUME RelayTypeOK, NEW e \in Events
  PROVE  /\ 1 \in Attempts
         /\ \A a \in Attempts : Enqueued(e, a) \in [Events -> [Attempts -> Nat]]
  <1>1. 1 \in Attempts
    BY RelayAssumption DEF Attempts
  <1>2. \A a \in Attempts : Enqueued(e, a) \in [Events -> [Attempts -> Nat]]
    BY DEF Enqueued, RelayTypeOK
  <1>. QED  BY <1>1, <1>2

(* Sending a row that a relay holds keeps the order.                       *)
LEMMA SentGrows ==
  ASSUME RelayInv, NEW r \in Relays, NEW e \in claim[r].held, e \in Events,
         sent' = [sent EXCEPT ![e] = @ + 1]
  PROVE  SentInOrder'
  <1>1. \A f \in Earlier(e) : sent[f] > 0
    BY DEF RelayInv, ClaimsSound, MarkedWasSent, PublishedWasSent, AtBroker, Earlier
  <1>2. \A f \in Events : sent[f] > 0 => sent'[f] > 0
    BY DEF RelayInv, RelayTypeOK
  <1>3. \A f \in Events : f # e => sent'[f] = sent[f]
    BY DEF RelayInv, RelayTypeOK
  <1>. QED  BY <1>1, <1>2, <1>3 DEF RelayInv, SentInOrder, Earlier

LEMMA PublishKeeps ==
  ASSUME RelayInv, NEW r \in Relays, NEW e \in Events, Publish(r, e)
  PROVE  RelayInv'
  <1>. DEFINE c == [claim[r] EXCEPT !.todo = @ \ {e}, !.done = @ \cup {e}]
  <1>. USE DEF RelayInv
  <1>1. /\ e \in claim[r].todo
        /\ claim' = [claim EXCEPT ![r] = c]
        /\ queue' = Enqueued(e, 1)
        /\ sent' = [sent EXCEPT ![e] = @ + 1]
        /\ UNCHANGED <<outbox, bound, faults, spoiled>>
    BY DEF Publish, NextRow, RelayTypeOK
  <1>2. claim[r] \in [held : SUBSET Events, todo : SUBSET Events,
                     done : SUBSET Events, failed : SUBSET Events]
    BY DEF RelayTypeOK
  <1>3. /\ claim[r].todo \subseteq claim[r].held
        /\ claim[r].done \subseteq claim[r].held \ claim[r].todo
        /\ claim[r].failed \subseteq claim[r].held \ (claim[r].done \cup claim[r].todo)
        /\ e \in claim[r].held
    BY <1>1 DEF ClaimsSound
  <1>4. /\ c \in [held : SUBSET Events, todo : SUBSET Events,
                  done : SUBSET Events, failed : SUBSET Events]
        /\ c.held = claim[r].held /\ c.todo = claim[r].todo \ {e}
        /\ c.done = claim[r].done \cup {e} /\ c.failed = claim[r].failed
    BY <1>2
  <1>. HIDE DEF c
  <1>5. /\ claim' \in [Relays -> [held : SUBSET Events, todo : SUBSET Events,
                                  done : SUBSET Events, failed : SUBSET Events]]
        /\ \A s \in Relays : s # r => claim'[s] = claim[s]
        /\ claim'[r] = c
        /\ ClaimsSound' /\ WrittenInOrder'
    BY <1>1, <1>3, <1>4, SameLocks
  <1>6. queue' \in [Events -> [Attempts -> Nat]]
    BY <1>1, OneMore
  <1>7. RelayTypeOK'  BY <1>1, <1>5, <1>6 DEF RelayTypeOK
  <1>8. MarkedWasSent'
    BY <1>1, <1>3, <1>4, <1>5 DEF MarkedWasSent, PublishedWasSent, RelayTypeOK, ClaimsSound
  <1>9. SentInOrder'
    BY <1>1, <1>3, SentGrows
  <1>10. \A f \in Events : Marked(f)' <=> Marked(f) \/ f = e
    BY <1>1, <1>4, <1>5 DEF Marked
  <1>11. ~Marked(e)
    BY <1>1, <1>3 DEF Marked, ClaimsSound, AtBroker
  <1>12. CopiesCounted'
    BY <1>1, <1>10, <1>11 DEF CopiesCounted, RelayTypeOK
  <1>. QED  BY <1>5, <1>7, <1>8, <1>9, <1>12

LEMMA UnroutableKeeps ==
  ASSUME RelayInv, NEW r \in Relays, NEW e \in Events, PublishUnroutable(r, e)
  PROVE  RelayInv'
  <1>. DEFINE c == [claim[r] EXCEPT !.todo = @ \ {e}, !.failed = @ \cup {e}]
  <1>. USE DEF RelayInv
  <1>1. /\ e \in claim[r].todo
        /\ claim' = [claim EXCEPT ![r] = c]
        /\ UNCHANGED <<outbox, bound, queue, faults, sent, spoiled>>
    BY DEF PublishUnroutable, NextRow, RelayTypeOK
  <1>2. claim[r] \in [held : SUBSET Events, todo : SUBSET Events,
                     done : SUBSET Events, failed : SUBSET Events]
    BY DEF RelayTypeOK
  <1>3. /\ claim[r].todo \subseteq claim[r].held
        /\ claim[r].done \subseteq claim[r].held \ claim[r].todo
        /\ claim[r].failed \subseteq claim[r].held \ (claim[r].done \cup claim[r].todo)
    BY DEF ClaimsSound
  <1>4. /\ c \in [held : SUBSET Events, todo : SUBSET Events,
                  done : SUBSET Events, failed : SUBSET Events]
        /\ c.held = claim[r].held /\ c.todo = claim[r].todo \ {e}
        /\ c.done = claim[r].done /\ c.failed = claim[r].failed \cup {e}
    BY <1>2
  <1>. HIDE DEF c
  <1>5. /\ claim' \in [Relays -> [held : SUBSET Events, todo : SUBSET Events,
                                  done : SUBSET Events, failed : SUBSET Events]]
        /\ \A s \in Relays : s # r => claim'[s] = claim[s]
        /\ claim'[r] = c
        /\ ClaimsSound' /\ WrittenInOrder'
    BY <1>1, <1>3, <1>4, SameLocks
  <1>6. \A s \in Relays : claim'[s].done = claim[s].done
    BY <1>4, <1>5
  <1>7. RelayTypeOK'  BY <1>1, <1>5 DEF RelayTypeOK
  <1>8. MarkedWasSent'  BY <1>1, <1>6 DEF MarkedWasSent, PublishedWasSent
  <1>9. SentInOrder'  BY <1>1 DEF SentInOrder, Earlier
  <1>10. CopiesCounted'  BY <1>1, <1>6 DEF CopiesCounted, Marked
  <1>. QED  BY <1>5, <1>7, <1>8, <1>9, <1>10

LEMMA FailureKeeps ==
  ASSUME RelayInv, NEW r \in Relays, NEW e \in Events, PublishFails(r, e)
  PROVE  RelayInv'
  <1>. DEFINE c == [claim[r] EXCEPT !.todo = {}, !.failed = @ \cup {e}]
  <1>. USE DEF RelayInv
  <1>1. /\ e \in claim[r].todo
        /\ claim' = [claim EXCEPT ![r] = c]
        /\ UNCHANGED <<outbox, bound>>
    BY DEF PublishFails, NextRow, RelayTypeOK
  <1>2. claim[r] \in [held : SUBSET Events, todo : SUBSET Events,
                     done : SUBSET Events, failed : SUBSET Events]
    BY DEF RelayTypeOK
  <1>3. /\ claim[r].todo \subseteq claim[r].held
        /\ claim[r].done \subseteq claim[r].held \ claim[r].todo
        /\ claim[r].failed \subseteq claim[r].held \ (claim[r].done \cup claim[r].todo)
        /\ e \in claim[r].held
    BY <1>1 DEF ClaimsSound
  <1>4. /\ c \in [held : SUBSET Events, todo : SUBSET Events,
                  done : SUBSET Events, failed : SUBSET Events]
        /\ c.held = claim[r].held /\ c.todo = {}
        /\ c.done = claim[r].done /\ c.failed = claim[r].failed \cup {e}
    BY <1>2
  <1>. HIDE DEF c
  <1>5. /\ claim' \in [Relays -> [held : SUBSET Events, todo : SUBSET Events,
                                  done : SUBSET Events, failed : SUBSET Events]]
        /\ \A s \in Relays : s # r => claim'[s] = claim[s]
        /\ claim'[r] = c
        /\ ClaimsSound' /\ WrittenInOrder'
    BY <1>1, <1>3, <1>4, SameLocks
  <1>6. \A s \in Relays : claim'[s].done = claim[s].done
    BY <1>4, <1>5
  <1>7. faults' \in 0 .. MaxFaults
    BY RelayAssumption DEF PublishFails, Fault, RelayTypeOK
  <1>8. CASE UNCHANGED <<queue, sent, spoiled>>
    <2>1. RelayTypeOK'  BY <1>1, <1>5, <1>7, <1>8 DEF RelayTypeOK
    <2>2. MarkedWasSent'  BY <1>1, <1>6, <1>8 DEF MarkedWasSent, PublishedWasSent
    <2>3. SentInOrder'  BY <1>8 DEF SentInOrder, Earlier
    <2>4. CopiesCounted'  BY <1>1, <1>6, <1>8 DEF CopiesCounted, Marked
    <2>. QED  BY <1>5, <2>1, <2>2, <2>3, <2>4
  <1>9. CASE /\ queue' = Enqueued(e, 1)
             /\ sent' = [sent EXCEPT ![e] = @ + 1]
             /\ spoiled' = [spoiled EXCEPT ![e] = @ + 1]
    <2>1. queue' \in [Events -> [Attempts -> Nat]]
      BY <1>9, OneMore
    <2>2. RelayTypeOK'  BY <1>1, <1>5, <1>7, <1>9, <2>1 DEF RelayTypeOK
    <2>3. MarkedWasSent'
      BY <1>1, <1>3, <1>6, <1>9 DEF MarkedWasSent, PublishedWasSent, RelayTypeOK, ClaimsSound
    <2>4. SentInOrder'
      BY <1>3, <1>9, SentGrows
    <2>5. \A f \in Events : Marked(f)' <=> Marked(f)
      BY <1>1, <1>6 DEF Marked
    <2>6. CopiesCounted'
      BY <1>9, <2>5 DEF CopiesCounted, RelayTypeOK
    <2>. QED  BY <1>5, <2>2, <2>3, <2>4, <2>6
  <1>. QED  BY <1>8, <1>9 DEF PublishFails

LEMMA CommitKeeps ==
  ASSUME RelayInv, NEW r \in Relays, Commit(r)
  PROVE  RelayInv'
  <1>. USE DEF RelayInv
  <1>1. /\ claim[r].todo = {}
        /\ outbox' = [e \in Events |-> CASE e \in claim[r].done -> "published"
                                          [] e \in claim[r].failed -> "backoff"
                                          [] OTHER -> outbox[e]]
        /\ claim' = [claim EXCEPT ![r] = NoClaim]
        /\ UNCHANGED <<bound, queue, faults, sent, spoiled>>
    BY DEF Commit
  <1>2. /\ \A s \in Relays : s # r => claim'[s] = claim[s]
        /\ claim'[r] = NoClaim
        /\ claim' \in [Relays -> [held : SUBSET Events, todo : SUBSET Events,
                                  done : SUBSET Events, failed : SUBSET Events]]
    BY <1>1 DEF RelayTypeOK, NoClaim
  <1>3. \A e \in Events :
          /\ e \in claim[r].done => outbox[e] = "ready" /\ outbox'[e] = "published"
          /\ e \in claim[r].failed => outbox[e] = "ready" /\ outbox'[e] = "backoff"
          /\ e \notin claim[r].done \cup claim[r].failed => outbox'[e] = outbox[e]
    BY <1>1 DEF ClaimsSound
  <1>4. RelayTypeOK'
    <2>1. outbox' \in [Events -> {"absent", "ready", "backoff", "published", "gone"}]
      BY <1>1 DEF RelayTypeOK
    <2>. QED  BY <1>1, <1>2, <2>1 DEF RelayTypeOK
  <1>5. ClaimsSound'
    <2>1. ASSUME NEW s \in Relays, s # r, NEW e \in claim[s].held
          PROVE  outbox'[e] = "ready" /\ \A f \in Earlier(e) : outbox'[f] \in AtBroker
      <3>1. e \in Events /\ e \notin claim[r].done \cup claim[r].failed
        BY <2>1 DEF ClaimsSound, RelayTypeOK
      <3>2. outbox'[e] = "ready"
        BY <1>3, <3>1, <2>1 DEF ClaimsSound
      <3>3. \A f \in Earlier(e) : outbox[f] \in AtBroker
        BY <2>1 DEF ClaimsSound
      <3>4. \A f \in Earlier(e) : outbox'[f] \in AtBroker
        BY <1>3, <3>3 DEF Earlier, AtBroker
      <3>. QED  BY <3>2, <3>4
    <2>. QED  BY <1>2, <2>1 DEF ClaimsSound, NoClaim, Earlier
  <1>6. WrittenInOrder'
    BY <1>3 DEF WrittenInOrder, Earlier
  <1>7. MarkedWasSent'
    BY <1>1, <1>2, <1>3 DEF MarkedWasSent, PublishedWasSent, NoClaim
  <1>8. SentInOrder'  BY <1>1 DEF SentInOrder, Earlier
  <1>9. \A e \in Events : Marked(e) => Marked(e)'
    BY <1>2, <1>3 DEF Marked, AtBroker
  <1>10. CopiesCounted'  BY <1>1, <1>9 DEF CopiesCounted
  <1>. QED  BY <1>4, <1>5, <1>6, <1>7, <1>8, <1>10

LEMMA AbortKeeps ==
  ASSUME RelayInv, NEW r \in Relays, Abort(r)
  PROVE  RelayInv'
  <1>. USE DEF RelayInv
  <1>1. /\ claim' = [claim EXCEPT ![r] = NoClaim]
        /\ spoiled' = [e \in Events |-> spoiled[e] + IF e \in claim[r].done THEN 1 ELSE 0]
        /\ UNCHANGED <<outbox, bound, queue, sent>>
    BY DEF Abort
  <1>2. /\ \A s \in Relays : s # r => claim'[s] = claim[s]
        /\ claim'[r] = NoClaim
        /\ claim' \in [Relays -> [held : SUBSET Events, todo : SUBSET Events,
                                  done : SUBSET Events, failed : SUBSET Events]]
    BY <1>1 DEF RelayTypeOK, NoClaim
  <1>3. \A e \in Events :
          /\ e \in claim[r].done => spoiled'[e] = spoiled[e] + 1
          /\ e \notin claim[r].done => spoiled'[e] = spoiled[e]
    BY <1>1 DEF RelayTypeOK
  <1>4. faults' \in 0 .. MaxFaults
    BY RelayAssumption DEF Abort, Fault, RelayTypeOK
  <1>5. RelayTypeOK'
    <2>1. spoiled' \in [Events -> Nat]
      BY <1>1 DEF RelayTypeOK
    <2>. QED  BY <1>1, <1>2, <1>4, <2>1 DEF RelayTypeOK
  <1>6. ClaimsSound'  BY <1>1, <1>2 DEF ClaimsSound, NoClaim, Earlier
  <1>7. WrittenInOrder'  BY <1>1 DEF WrittenInOrder, Earlier
  <1>8. MarkedWasSent'  BY <1>1, <1>2 DEF MarkedWasSent, PublishedWasSent, NoClaim
  <1>9. SentInOrder'  BY <1>1 DEF SentInOrder, Earlier
  <1>10. \A e \in Events : Marked(e) => Marked(e)' \/ e \in claim[r].done
    BY <1>1, <1>2 DEF Marked
  <1>11. CopiesCounted'
    BY <1>1, <1>3, <1>10 DEF CopiesCounted, RelayTypeOK
  <1>. QED  BY <1>5, <1>6, <1>7, <1>8, <1>9, <1>11

LEMMA RelayStepInv == RelayInv /\ [RelayNext]_relayVars => RelayInv'
  <1>. SUFFICES ASSUME RelayInv, [RelayNext]_relayVars PROVE RelayInv'
    OBVIOUS
  <1>1. CASE RelayNext
    BY <1>1, RowKeeps, TopologyKeeps, ClaimKeeps, PublishKeeps, UnroutableKeeps, FailureKeeps,
       CommitKeeps, AbortKeeps DEF RelayNext, RelayStep
  <1>2. CASE UNCHANGED relayVars
    BY <1>2 DEF relayVars, RelayInv, RelayTypeOK, ClaimsSound, WrittenInOrder, MarkedWasSent,
                PublishedWasSent, SentInOrder, CopiesCounted, Marked, Earlier
  <1>. QED  BY <1>1, <1>2

-----------------------------------------------------------------------------
(* The relay's invariant holds in every state.                             *)
THEOREM RelayIsSound == RelaySpec => []RelayInv
  BY RelayInitInv, RelayStepInv, PTL DEF RelaySpec

(* One aggregate's events reach the broker in the order they were written, *)
(* however many relays claim, fail, time out and crash (CLAIM_SQL).        *)
THEOREM EventsAreSentInOrder == RelaySpec => []SentInOrder
  BY RelayIsSound, PTL DEF RelayInv

(* Relays send a row once but for lost confirmations and commits           *)
(* (FOR UPDATE SKIP LOCKED in CLAIM_SQL).                                  *)
THEOREM RelaysSendOnce == RelaySpec => []NoNeedlessCopy
  <1>1. RelayInv => NoNeedlessCopy
    BY DEF RelayInv, CopiesCounted, NoNeedlessCopy
  <1>. QED  BY <1>1, RelayIsSound, PTL

(* No row is marked published that the broker does not have                *)
(* (claimAndPublish).                                                      *)
THEOREM MarksAreTrue == RelaySpec => []PublishedWasSent
  <1>1. RelayInv => PublishedWasSent
    BY DEF RelayInv, MarkedWasSent
  <1>. QED  BY <1>1, RelayIsSound, PTL

-----------------------------------------------------------------------------
(* The consumers behind them.                                              *)

(* A worker holds an event exactly while it is busy.                       *)
JobsSound ==
    \A w \in Workers : /\ job[w].phase = "idle" <=> job[w].event = NoEvent
                       /\ job[w].phase = "idle" => job[w].open

(* An inbox row stands for an effect.                                      *)
SeenIsApplied == \A e \in inbox : effects[e] > 0

(* Whatever is on its way, parked, applied or ignored came from a relay.   *)
CopiesWereSent ==
    \A e \in Events : Copies(e) \/ waiting[e] > 0 \/ effects[e] > 0 => sent[e] > 0

(* The message is still to be dealt with, and the broker knows.            *)
Live(w, e) == job[w].event = e /\ job[w].open /\ job[w].phase # "handled"

(* Somebody will still deal with the event, or has: a dead letter counts   *)
(* unless a redrive is about to stamp it.                                  *)
Accounted(e) ==
    \/ effects[e] > 0 \/ e \in ignored
    \/ dlq[e] > 0 \/ waiting[e] > redriving[e]
    \/ \E a \in Attempts : queue[e][a] > 0 \/ delayed[e][a] > 0
    \/ \E w \in Workers : Live(w, e)

NothingDropped == \A e \in Events : sent[e] > 0 => Accounted(e)

DeliveryInv ==
    /\ RelayInv
    /\ TypeOK
    /\ JobsSound
    /\ SeenIsApplied
    /\ CopiesWereSent
    /\ NothingDropped

(* An applied event whose inbox row is gone cannot come back.              *)
Quiet(e) == outbox[e] \in AtBroker /\ ~Copies(e) /\ waiting[e] = 0

Recognised ==
    \A e \in Events : effects[e] <= 1 /\ (effects[e] = 1 => e \in inbox \/ Quiet(e))

-----------------------------------------------------------------------------
LEMMA DeliveryInitInv == Init => DeliveryInv /\ Recognised
  <1>. SUFFICES ASSUME Init PROVE DeliveryInv /\ Recognised
    OBVIOUS
  <1>. USE RelayAssumption DEF Init
  <1>1. RelayInv  BY RelayInitInv
  <1>2. 1 \in Attempts  BY DEF Attempts
  <1>3. TypeOK
    <2>1. job \in [Workers -> [event : Events \cup {NoEvent}, attempt : Attempts, open : BOOLEAN,
                              phase : {"idle", "handling", "handled", "failed", "unparseable"}]]
      BY <1>2 DEF Idle
    <2>2. delayed \in [Events -> [Attempts -> Nat]]
      OBVIOUS
    <2>. QED  BY <1>1, <2>1, <2>2 DEF TypeOK, RelayInv
  <1>4. JobsSound  BY DEF JobsSound, Idle
  <1>5. SeenIsApplied  BY DEF SeenIsApplied
  <1>6. \A e \in Events : ~Copies(e)
    BY DeliveryAssumption DEF Copies, Idle, RelayInit
  <1>7. CopiesWereSent  BY <1>6 DEF CopiesWereSent
  <1>8. NothingDropped  BY DEF NothingDropped, RelayInit
  <1>9. Recognised  BY DEF Recognised
  <1>. QED  BY <1>1, <1>3, <1>4, <1>5, <1>7, <1>8, <1>9 DEF DeliveryInv

(* What a step of the outbox side does to the queue: copies are added, of  *)
(* rows that are due, and never without a trace in sent.                   *)
LEMMA RelayAdds ==
  ASSUME RelayInv, RelayNext, NEW e \in Events
  PROVE  /\ \A a \in Attempts : queue'[e][a] >= queue[e][a]
         /\ queue'[e] # queue[e] => outbox[e] = "ready" /\ sent'[e] > 0
         /\ sent'[e] >= sent[e]
         /\ sent'[e] > sent[e] => \E a \in Attempts : queue'[e][a] > 0
         /\ outbox[e] \in AtBroker => outbox'[e] = outbox[e]
  <1>. USE DEF RelayInv
  <1>1. 1 \in Attempts  BY OneMore
  <1>2. ASSUME UNCHANGED <<queue, sent>>,
               outbox[e] \in AtBroker => outbox'[e] = outbox[e]
        PROVE  /\ \A a \in Attempts : queue'[e][a] >= queue[e][a]
               /\ queue'[e] # queue[e] => outbox[e] = "ready" /\ sent'[e] > 0
               /\ sent'[e] >= sent[e]
               /\ sent'[e] > sent[e] => \E a \in Attempts : queue'[e][a] > 0
               /\ outbox[e] \in AtBroker => outbox'[e] = outbox[e]
    BY <1>2 DEF RelayTypeOK
  <1>3. ASSUME NEW r \in Relays, NEW f \in Events, f \in claim[r].todo, UNCHANGED outbox,
               queue' = Enqueued(f, 1), sent' = [sent EXCEPT ![f] = @ + 1]
        PROVE  /\ \A a \in Attempts : queue'[e][a] >= queue[e][a]
               /\ queue'[e] # queue[e] => outbox[e] = "ready" /\ sent'[e] > 0
               /\ sent'[e] >= sent[e]
               /\ sent'[e] > sent[e] => \E a \in Attempts : queue'[e][a] > 0
               /\ outbox[e] \in AtBroker => outbox'[e] = outbox[e]
    <2>1. outbox[f] = "ready"
      BY <1>3 DEF ClaimsSound
    <2>2. \A a \in Attempts : queue'[f][a] >= queue[f][a]
      BY <1>1, <1>3 DEF Enqueued, RelayTypeOK
    <2>3. queue'[f][1] > 0 /\ sent'[f] > 0
      BY <1>1, <1>3 DEF Enqueued, RelayTypeOK
    <2>4. e # f => queue'[e] = queue[e] /\ sent'[e] = sent[e]
      BY <1>3 DEF Enqueued, RelayTypeOK
    <2>5. sent'[f] >= sent[f]
      BY <1>3 DEF RelayTypeOK
    <2>6. CASE e = f
      BY <1>1, <1>3, <2>1, <2>2, <2>3, <2>5, <2>6
    <2>7. CASE e # f
      BY <1>3, <2>4, <2>7 DEF RelayTypeOK
    <2>. QED  BY <2>6, <2>7
  <1>4. ASSUME NEW f \in Events, insertOutboxEvent(f) \/ BackoffPasses(f)
        PROVE  UNCHANGED <<queue, sent>> /\ (outbox[e] \in AtBroker => outbox'[e] = outbox[e])
    BY <1>4 DEF insertOutboxEvent, BackoffPasses, AtBroker, RelayTypeOK
  <1>5. ASSUME NEW r \in Relays, Commit(r)
        PROVE  UNCHANGED <<queue, sent>> /\ (outbox[e] \in AtBroker => outbox'[e] = outbox[e])
    BY <1>5 DEF Commit, AtBroker, ClaimsSound
  <1>6. ASSUME NEW r \in Relays, NEW f \in Events, Publish(r, f) \/ PublishFails(r, f)
        PROVE  \/ UNCHANGED <<outbox, queue, sent>>
               \/ /\ f \in claim[r].todo /\ UNCHANGED outbox
                  /\ queue' = Enqueued(f, 1) /\ sent' = [sent EXCEPT ![f] = @ + 1]
    BY <1>6 DEF Publish, PublishFails, NextRow
  <1>7. ASSUME NEW r \in Relays, NEW f \in Events,
               declareTopology \/ Claim(r) \/ PublishUnroutable(r, f) \/ Abort(r)
        PROVE  UNCHANGED <<outbox, queue, sent>>
    BY <1>7 DEF declareTopology, Claim, PublishUnroutable, Abort
  <1>8. CASE declareTopology  BY <1>2, <1>8 DEF declareTopology
  <1>9. CASE \E f \in Events : insertOutboxEvent(f) \/ BackoffPasses(f)
    BY <1>2, <1>4, <1>9
  <1>10. ASSUME NEW r \in Relays,
                \/ Claim(r) \/ Commit(r) \/ Abort(r)
                \/ \E f \in Events : Publish(r, f) \/ PublishUnroutable(r, f) \/ PublishFails(r, f)
         PROVE  /\ \A a \in Attempts : queue'[e][a] >= queue[e][a]
                /\ queue'[e] # queue[e] => outbox[e] = "ready" /\ sent'[e] > 0
                /\ sent'[e] >= sent[e]
                /\ sent'[e] > sent[e] => \E a \in Attempts : queue'[e][a] > 0
                /\ outbox[e] \in AtBroker => outbox'[e] = outbox[e]
    BY <1>2, <1>3, <1>5, <1>6, <1>7, <1>10
  <1>. QED  BY <1>8, <1>9, <1>10 DEF RelayNext, RelayStep

-----------------------------------------------------------------------------
(* The invariant of the relays needs nothing of the consumer: its steps    *)
(* only move copies and count faults, and the pruner deletes marked rows.  *)
LEMMA RelayInvKept ==
  ASSUME RelayInv, RelayTypeOK', UNCHANGED <<claim, sent, spoiled>>,
         \A e \in Events : outbox'[e] = outbox[e] \/ (outbox[e] = "published" /\ outbox'[e] = "gone")
  PROVE  RelayInv'
  <1>. USE DEF RelayInv
  <1>1. ClaimsSound'  BY DEF ClaimsSound, AtBroker, Earlier, RelayTypeOK
  <1>2. WrittenInOrder'  BY DEF WrittenInOrder, Earlier
  <1>3. MarkedWasSent'  BY DEF MarkedWasSent, PublishedWasSent
  <1>4. SentInOrder'  BY DEF SentInOrder, Earlier
  <1>5. CopiesCounted'  BY DEF CopiesCounted, Marked, AtBroker
  <1>. QED  BY <1>1, <1>2, <1>3, <1>4, <1>5

JobType == [event : Events \cup {NoEvent}, attempt : Attempts, open : BOOLEAN,
            phase : {"idle", "handling", "handled", "failed", "unparseable"}]

(* What a worker's busy state says.                                        *)
LEMMA BusyWorker ==
  ASSUME DeliveryInv, NEW w \in Workers
  PROVE  /\ job \in [Workers -> JobType]
         /\ job[w].attempt \in Attempts /\ job[w].open \in BOOLEAN
         /\ job[w].phase # "idle" => job[w].event \in Events
         /\ job[w].event # NoEvent => job[w].event \in Events
  BY DEF DeliveryInv, TypeOK, JobType, JobsSound

LEMMA IdleType == Idle \in JobType
  BY RelayAssumption DEF Idle, JobType, Attempts

(* Types are kept, action by action.                                       *)
LEMMA TypeStep == ASSUME DeliveryInv, [Next]_vars PROVE TypeOK'
  <1>. DEFINE Counts == [Events -> [Attempts -> Nat]]
  <1>. USE DEF DeliveryInv
  <1>0. \A e \in Events : \A a \in Attempts : Enqueued(e, a) \in Counts
    BY OneMore DEF TypeOK
  <1>1. CASE OutboxSide
    <2>1. RelayInv'
      BY <1>1, RelayStepInv DEF OutboxSide
    <2>. QED
      BY <1>1, <2>1 DEF OutboxSide, RelayInv, TypeOK, consumerVars, letterVars
  <1>2. ASSUME NEW w \in Workers, DeliverAny(w) PROVE TypeOK'
    <2>1. PICK e \in Events, a \in Attempts : Deliver(w, e, a)
      BY <1>2 DEF DeliverAny
    <2>2. queue' \in Counts
      BY <2>1 DEF Deliver, TypeOK, RelayTypeOK
    <2>3. job' \in [Workers -> JobType]
      BY <2>1, BusyWorker DEF Deliver, JobType
    <2>. QED
      BY <2>1, <2>2, <2>3 DEF Deliver, TypeOK, RelayTypeOK, letterVars, JobType
  <1>3. ASSUME NEW w \in Workers, processOnce(w) \/ StaleEvent(w) \/ HandlerFails(w) PROVE TypeOK'
    <2>1. job[w].event \in Events
      BY <1>3, BusyWorker DEF processOnce, StaleEvent, HandlerFails, Phase
    <2>2. job' \in [Workers -> JobType]
      BY <1>3, BusyWorker DEF processOnce, StaleEvent, HandlerFails, Phase, JobType
    <2>3. effects' \in [Events -> Nat]
      BY <1>3, <2>1 DEF processOnce, StaleEvent, HandlerFails, TypeOK
    <2>4. inbox \subseteq inbox' /\ inbox' \subseteq Events /\ ignored' \subseteq Events
      BY <1>3, <2>1 DEF processOnce, StaleEvent, HandlerFails, TypeOK
    <2>. QED
      BY <1>3, <2>2, <2>3, <2>4 DEF processOnce, StaleEvent, HandlerFails, TypeOK, RelayTypeOK,
         relayVars, letterVars, JobType
  <1>4. ASSUME NEW w \in Workers, retryOrDeadLetter(w) PROVE TypeOK'
    <2>1. job[w].event \in Events /\ job[w].attempt \in Attempts
      BY <1>4, BusyWorker DEF retryOrDeadLetter, Phase
    <2>2. job' \in [Workers -> JobType]
      BY <1>4, BusyWorker DEF retryOrDeadLetter, Phase, JobType
    <2>3. job[w].attempt < MaxAttempts => job[w].attempt + 1 \in Attempts
      BY <2>1, RelayAssumption DEF Attempts
    <2>. delayed \in Counts /\ dlq \in [Events -> Nat]
      BY DEF TypeOK
    <2>4. delayed' \in Counts
      <3>1. \/ delayed' = delayed
            \/ /\ job[w].attempt < MaxAttempts
               /\ delayed' = [delayed EXCEPT ![job[w].event][job[w].attempt + 1] = @ + 1]
        BY <1>4 DEF retryOrDeadLetter
      <3>. QED  BY <2>1, <2>3, <3>1
    <2>5. dlq' \in [Events -> Nat]
      BY <1>4, <2>1 DEF retryOrDeadLetter
    <2>. QED
      BY <1>4, <2>2, <2>4, <2>5 DEF retryOrDeadLetter, TypeOK, RelayTypeOK, relayVars, JobType
  <1>5. ASSUME NEW w \in Workers, Ack(w) \/ NotSettled(w) PROVE TypeOK'
    <2>1. job' \in [Workers -> JobType]
      BY <1>5, BusyWorker, IdleType DEF Ack, NotSettled
    <2>. QED
      BY <1>5, <2>1 DEF Ack, NotSettled, TypeOK, RelayTypeOK, relayVars, letterVars, JobType
  <1>6. ASSUME NEW w \in Workers, ChannelCloses(w) \/ Crash(w) PROVE TypeOK'
    <2>1. job[w].event \in Events /\ job[w].attempt \in Attempts
      BY <1>6, BusyWorker DEF ChannelCloses, Crash
    <2>2. job' \in [Workers -> JobType]
      <3>1. job' = [job EXCEPT ![w].open = FALSE] \/ job' = [job EXCEPT ![w] = Idle]
        BY <1>6 DEF ChannelCloses, Crash
      <3>2. CASE job' = [job EXCEPT ![w].open = FALSE]
        BY <3>2, BusyWorker DEF JobType
      <3>3. CASE job' = [job EXCEPT ![w] = Idle]
        BY <3>3, BusyWorker, IdleType
      <3>. QED  BY <3>1, <3>2, <3>3
    <2>3. queue' \in Counts
      BY <1>0, <1>6, <2>1 DEF ChannelCloses, Crash, TypeOK, RelayTypeOK
    <2>4. faults' \in 0 .. MaxFaults
      BY <1>6, RelayAssumption DEF ChannelCloses, Crash, Fault, TypeOK, RelayTypeOK
    <2>. QED
      BY <1>6, <2>2, <2>3, <2>4 DEF ChannelCloses, Crash, TypeOK, RelayTypeOK, letterVars, JobType
  <1>7. ASSUME NEW e \in Events, NEW a \in Attempts, DelayPasses(e, a) PROVE TypeOK'
    <2>1. delayed' \in Counts /\ queue' \in Counts
      BY <1>0, <1>7 DEF DelayPasses, TypeOK
    <2>. QED
      BY <1>7, <2>1 DEF DelayPasses, TypeOK, RelayTypeOK, letterVars
  <1>8. ASSUME NEW e \in Events, park(e) PROVE TypeOK'
    <2>1. dlq' \in [Events -> Nat] /\ waiting' \in [Events -> Nat]
      <3>1. dlq' = dlq \/ (dlq[e] > 0 /\ dlq' = [dlq EXCEPT ![e] = @ - 1])
        BY <1>8 DEF park
      <3>2. dlq' \in [Events -> Nat]
        BY <3>1 DEF TypeOK
      <3>3. waiting' \in [Events -> Nat]
        BY <1>8 DEF park, TypeOK
      <3>. QED  BY <3>2, <3>3
    <2>2. \A f \in Events : waiting[f] > 0 => waiting'[f] > 0
      BY <1>8 DEF park, TypeOK
    <2>3. faults' \in 0 .. MaxFaults
      BY <1>8, RelayAssumption DEF park, Fault, TypeOK, RelayTypeOK
    <2>. QED
      BY <1>8, <2>1, <2>2, <2>3 DEF park, TypeOK, RelayTypeOK, consumerVars
  <1>9. ASSUME NEW e \in Events, redrive(e) PROVE TypeOK'
    <2>1. queue' \in Counts
      BY <1>0, <1>9, OneMore DEF redrive, TypeOK
    <2>. QED
      BY <1>9, <2>1 DEF redrive, TypeOK, RelayTypeOK, consumerVars
  <1>10. ASSUME NEW e \in Events, RedriveCommits(e) PROVE TypeOK'
    <2>1. waiting[e] > 0
      BY <1>10 DEF RedriveCommits, TypeOK
    <2>2. waiting' \in [Events -> Nat] /\ redriven' \in [Events -> Nat]
      BY <1>10, <2>1 DEF RedriveCommits, TypeOK
    <2>3. \A f \in Events \ {e} : waiting'[f] = waiting[f]
      BY <1>10 DEF RedriveCommits, TypeOK
    <2>. QED
      BY <1>10, <2>2, <2>3 DEF RedriveCommits, TypeOK, RelayTypeOK, relayVars, consumerVars
  <1>11. ASSUME NEW e \in Events, RedriveFails(e) PROVE TypeOK'
    <2>1. faults' \in 0 .. MaxFaults
      BY <1>11, RelayAssumption DEF RedriveFails, Fault, TypeOK, RelayTypeOK
    <2>. QED
      BY <1>11, <2>1 DEF RedriveFails, TypeOK, RelayTypeOK, consumerVars
  <1>12. ASSUME NEW e \in Events, RetentionPasses(e) \/ pruneOutbox(e) \/ pruneInbox(e)
         PROVE  TypeOK'
    BY <1>12 DEF RetentionPasses, pruneOutbox, pruneInbox, TypeOK, RelayTypeOK, relayVars,
       consumerVars, letterVars
  <1>13. CASE UNCHANGED vars
    BY <1>13 DEF vars, TypeOK, RelayTypeOK, relayVars, consumerVars, letterVars
  <1>. QED
    BY <1>1, <1>2, <1>3, <1>4, <1>5, <1>6, <1>7, <1>8, <1>9, <1>10, <1>11, <1>12, <1>13
    DEF Next, Handle

-----------------------------------------------------------------------------
(* The steps that are not the outbox's.                                    *)
ConsumerStep ==
    \/ \E w \in Workers : DeliverAny(w) \/ Handle(w) \/ ChannelCloses(w) \/ Crash(w)
    \/ \E e \in Events :
          \/ \E a \in Attempts : DelayPasses(e, a)
          \/ park(e)
          \/ redrive(e) \/ RedriveCommits(e) \/ RedriveFails(e)
          \/ RetentionPasses(e) \/ pruneOutbox(e) \/ pruneInbox(e)

LEMMA JobsStep == ASSUME DeliveryInv, [Next]_vars PROVE JobsSound'
  <1>. USE DeliveryAssumption DEF JobsSound
  <1>0. job \in [Workers -> JobType] /\ JobsSound
    BY DEF DeliveryInv, TypeOK, JobType
  <1>1. ASSUME NEW w \in Workers, NEW e \in Events, NEW a \in Attempts, Deliver(w, e, a)
        PROVE  JobsSound'
    BY <1>0, <1>1 DEF Deliver
  <1>2. ASSUME NEW w \in Workers, NEW from, NEW to, Phase(w, from, to), from # "idle", to # "idle"
        PROVE  JobsSound'
    BY <1>0, <1>2 DEF Phase, JobType
  <1>3. ASSUME NEW w \in Workers, job' = [job EXCEPT ![w] = Idle] PROVE JobsSound'
    BY <1>0, <1>3 DEF Idle
  <1>4. ASSUME NEW w \in Workers, ChannelCloses(w) PROVE JobsSound'
    BY <1>0, <1>4 DEF ChannelCloses, JobType
  <1>5. ASSUME NEW w \in Workers, DeliverAny(w) PROVE JobsSound'
    BY <1>1, <1>5 DEF DeliverAny
  <1>6. ASSUME NEW w \in Workers, Handle(w) PROVE JobsSound'
    <2>1. \/ Phase(w, "handling", "handled") \/ Phase(w, "handling", "failed")
          \/ Phase(w, "handling", "unparseable") \/ Phase(w, "failed", "handled")
          \/ Phase(w, "unparseable", "handled")
          \/ job' = [job EXCEPT ![w] = Idle]
      BY <1>6 DEF Handle, processOnce, StaleEvent, HandlerFails, retryOrDeadLetter, Ack, NotSettled
    <2>. QED  BY <1>2, <1>3, <2>1
  <1>7. ASSUME NEW w \in Workers, Crash(w) PROVE JobsSound'
    BY <1>3, <1>7 DEF Crash
  <1>8. CASE UNCHANGED job
    BY <1>0, <1>8
  <1>9. ASSUME NEW e \in Events,
               \/ \E a \in Attempts : DelayPasses(e, a)
               \/ park(e) \/ redrive(e) \/ RedriveCommits(e) \/ RedriveFails(e)
               \/ RetentionPasses(e) \/ pruneOutbox(e) \/ pruneInbox(e)
        PROVE  UNCHANGED job
    BY <1>9 DEF DelayPasses, park, redrive, RedriveCommits, RedriveFails, RetentionPasses,
       pruneOutbox, pruneInbox, consumerVars
  <1>10. CASE OutboxSide \/ UNCHANGED vars
    BY <1>8, <1>10 DEF OutboxSide, vars, consumerVars
  <1>. QED  BY <1>4, <1>5, <1>6, <1>7, <1>8, <1>9, <1>10 DEF Next

(* A copy more is a copy of that event, and takes none away.               *)
LEMMA EnqueuedOne ==
  ASSUME DeliveryInv, NEW f \in Events, NEW c \in Attempts, queue' = Enqueued(f, c)
  PROVE  /\ queue'[f][c] > 0
         /\ \A e \in Events : \A a \in Attempts :
               /\ queue[e][a] > 0 => queue'[e][a] > 0
               /\ queue'[e][a] > 0 => queue[e][a] > 0 \/ e = f
  <1>. USE DEF DeliveryInv, TypeOK, RelayTypeOK, Enqueued
  <1>1. queue'[f][c] = queue[f][c] + 1
    OBVIOUS
  <1>2. \A e \in Events : \A a \in Attempts : e # f \/ a # c => queue'[e][a] = queue[e][a]
    OBVIOUS
  <1>3. queue[f][c] \in Nat
    OBVIOUS
  <1>. QED  BY <1>1, <1>2, <1>3

(* The consumer's side makes no copy from nothing: where there is one, or  *)
(* a dead letter, there was one; an effect takes a copy.                   *)
LEMMA NoCopyFromNothing ==
  ASSUME DeliveryInv, ConsumerStep, NEW e \in Events
  PROVE  /\ Copies(e)' \/ waiting'[e] > 0 => Copies(e) \/ waiting[e] > 0
         /\ effects'[e] # effects[e] => Copies(e)
         /\ UNCHANGED sent
  <1>. DEFINE Goal == /\ Copies(e)' \/ waiting'[e] > 0 => Copies(e) \/ waiting[e] > 0
                      /\ effects'[e] # effects[e] => Copies(e)
                      /\ UNCHANGED sent
  <1>. USE DEF DeliveryInv
  <1>0. job \in [Workers -> JobType]
    BY DEF TypeOK, JobType
  <1>1. ASSUME NEW w \in Workers, NEW f \in Events, NEW c \in Attempts, Deliver(w, f, c)
        PROVE  Goal
    <2>1. \A a \in Attempts : queue'[e][a] > 0 => queue[e][a] > 0
      BY <1>1 DEF Deliver, TypeOK, RelayTypeOK
    <2>2. \A v \in Workers : job'[v].event = e => job[v].event = e \/ e = f
      BY <1>0, <1>1 DEF Deliver
    <2>3. queue[f][c] > 0 /\ UNCHANGED <<delayed, letterVars, effects, sent>>
      BY <1>1 DEF Deliver
    <2>. QED  BY <2>1, <2>2, <2>3 DEF Copies, letterVars
  <1>2. ASSUME NEW w \in Workers, processOnce(w) \/ StaleEvent(w) \/ HandlerFails(w)
        PROVE  Goal
    <2>1. \A v \in Workers : job'[v].event = job[v].event
      BY <1>0, <1>2 DEF processOnce, StaleEvent, HandlerFails, Phase, JobType
    <2>2. effects'[e] # effects[e] => job[w].event = e
      BY <1>2 DEF processOnce, StaleEvent, HandlerFails, TypeOK
    <2>3. UNCHANGED <<queue, sent, delayed, dlq, waiting>>
      BY <1>2 DEF processOnce, StaleEvent, HandlerFails, relayVars, letterVars
    <2>. QED  BY <2>1, <2>2, <2>3 DEF Copies
  <1>3. ASSUME NEW w \in Workers, retryOrDeadLetter(w)
        PROVE  Goal
    <2>1. \A v \in Workers : job'[v].event = job[v].event
      BY <1>0, <1>3 DEF retryOrDeadLetter, Phase, JobType
    <2>2. job[w].event # e => UNCHANGED <<delayed[e], dlq[e]>>
      BY <1>3 DEF retryOrDeadLetter, TypeOK
    <2>3. UNCHANGED <<queue, sent, effects, waiting>>
      BY <1>3 DEF retryOrDeadLetter, relayVars
    <2>. QED  BY <2>1, <2>2, <2>3 DEF Copies
  <1>4. ASSUME NEW w \in Workers, Ack(w) \/ NotSettled(w)
        PROVE  Goal
    <2>1. \A v \in Workers : job'[v].event = e => job[v].event = e
      BY <1>0, <1>4, DeliveryAssumption DEF Ack, NotSettled, Idle
    <2>2. UNCHANGED <<queue, sent, delayed, effects, dlq, waiting>>
      BY <1>4 DEF Ack, NotSettled, relayVars, letterVars
    <2>. QED  BY <2>1, <2>2 DEF Copies
  <1>5. ASSUME NEW w \in Workers, ChannelCloses(w) \/ Crash(w)
        PROVE  Goal
    <2>1. \A v \in Workers : job'[v].event = e => job[v].event = e
      <3>1. CASE ChannelCloses(w)  BY <1>0, <3>1 DEF ChannelCloses, JobType
      <3>2. CASE Crash(w)  BY <1>0, <3>2, DeliveryAssumption DEF Crash, Idle
      <3>. QED  BY <1>5, <3>1, <3>2
    <2>2. queue' = queue \/ queue' = Enqueued(job[w].event, job[w].attempt)
      BY <1>5 DEF ChannelCloses, Crash
    <2>3. job[w].event \in Events /\ job[w].attempt \in Attempts
      BY <1>5, BusyWorker DEF ChannelCloses, Crash
    <2>4. \A a \in Attempts : queue'[e][a] > 0 => queue[e][a] > 0 \/ job[w].event = e
      BY <2>2, <2>3, EnqueuedOne
    <2>5. UNCHANGED <<sent, delayed, effects, dlq, waiting>>
      BY <1>5 DEF ChannelCloses, Crash, letterVars
    <2>. QED  BY <2>1, <2>4, <2>5 DEF Copies
  <1>6. ASSUME NEW f \in Events, NEW c \in Attempts, DelayPasses(f, c)
        PROVE  Goal
    <2>1. \A a \in Attempts : queue'[e][a] > 0 => queue[e][a] > 0 \/ e = f
      BY <1>6, EnqueuedOne DEF DelayPasses
    <2>2. \A a \in Attempts : delayed'[e][a] > 0 => delayed[e][a] > 0
      BY <1>6 DEF DelayPasses, TypeOK
    <2>3. delayed[f][c] > 0 /\ UNCHANGED <<sent, job, effects, dlq, waiting>>
      BY <1>6 DEF DelayPasses, letterVars
    <2>. QED  BY <2>1, <2>2, <2>3 DEF Copies
  <1>7. ASSUME NEW f \in Events, park(f)
        PROVE  Goal
    <2>1. /\ dlq[f] > 0
          /\ dlq' = dlq \/ dlq' = [dlq EXCEPT ![f] = @ - 1]
          /\ waiting' = [waiting EXCEPT ![f] = @ + 1]
          /\ UNCHANGED <<queue, sent, consumerVars>>
      BY <1>7 DEF park
    <2>2. dlq'[e] > 0 => dlq[e] > 0
      BY <2>1 DEF TypeOK
    <2>3. waiting'[e] > 0 => waiting[e] > 0 \/ e = f
      BY <2>1 DEF TypeOK
    <2>. QED  BY <2>1, <2>2, <2>3 DEF Copies, consumerVars
  <1>8. ASSUME NEW f \in Events, redrive(f)
        PROVE  Goal
    <2>1. \A a \in Attempts : queue'[e][a] > 0 => queue[e][a] > 0 \/ e = f
      BY <1>8, EnqueuedOne, OneMore DEF redrive, RelayInv
    <2>2. waiting[f] > 0 /\ UNCHANGED <<sent, consumerVars, dlq, waiting>>
      BY <1>8 DEF redrive, TypeOK
    <2>. QED  BY <2>1, <2>2 DEF Copies, consumerVars
  <1>9. ASSUME NEW f \in Events, RedriveCommits(f)
        PROVE  Goal
    <2>1. waiting'[e] > 0 => waiting[e] > 0
      BY <1>9 DEF RedriveCommits, TypeOK
    <2>. QED  BY <1>9, <2>1 DEF RedriveCommits, Copies, relayVars, consumerVars
  <1>10. ASSUME NEW f \in Events,
                RedriveFails(f) \/ RetentionPasses(f) \/ pruneOutbox(f) \/ pruneInbox(f)
         PROVE  Goal
    BY <1>10 DEF RedriveFails, RetentionPasses, pruneOutbox, pruneInbox, Copies, relayVars,
       consumerVars, letterVars
  <1>. HIDE DEF Goal
  <1>. SUFFICES Goal
    BY DEF Goal
  <1>. QED
    BY <1>1, <1>2, <1>3, <1>4, <1>5, <1>6, <1>7, <1>8, <1>9, <1>10
    DEF ConsumerStep, DeliverAny, Handle

(* The consumer's side drops nothing: what is accounted for stays so, or   *)
(* has been parked; a dead letter leaves only for a copy on its way.       *)
LEMMA AccountedStays ==
  ASSUME DeliveryInv, ConsumerStep, NEW e \in Events
  PROVE  Accounted(e) => Accounted(e)'
  <1>. DEFINE Goal == Accounted(e) => Accounted(e)'
  <1>. USE DEF DeliveryInv
  <1>0. job \in [Workers -> JobType]
    BY DEF TypeOK, JobType
  <1>1. ASSUME NEW w \in Workers, NEW f \in Events, NEW c \in Attempts, Deliver(w, f, c)
        PROVE  Goal
    <2>1. \A a \in Attempts : queue[e][a] > 0 => queue'[e][a] > 0 \/ e = f
      BY <1>1 DEF Deliver, TypeOK, RelayTypeOK
    <2>2. Live(w, f)'
      BY <1>0, <1>1 DEF Deliver, Live
    <2>3. \A v \in Workers : Live(v, e) => Live(v, e)'
      BY <1>0, <1>1, DeliveryAssumption DEF Deliver, Live, Idle
    <2>4. UNCHANGED <<delayed, effects, ignored, letterVars>>
      BY <1>1 DEF Deliver
    <2>. QED  BY <2>1, <2>2, <2>3, <2>4 DEF Accounted, letterVars
  <1>2. ASSUME NEW w \in Workers, processOnce(w)
        PROVE  Goal
    <2>1. job[w].event \in Events
      BY <1>2, BusyWorker DEF processOnce, Phase
    <2>2. effects'[job[w].event] > 0
      BY <1>2, <2>1 DEF processOnce, SeenIsApplied, TypeOK
    <2>3. effects[e] > 0 => effects'[e] > 0
      BY <1>2, <2>1 DEF processOnce, TypeOK
    <2>4. \A v \in Workers : Live(v, e) => Live(v, e)' \/ e = job[w].event
      BY <1>0, <1>2 DEF processOnce, Phase, Live, JobType
    <2>5. UNCHANGED <<queue, delayed, ignored, dlq, waiting, redriving>>
      BY <1>2 DEF processOnce, relayVars, letterVars
    <2>. QED  BY <2>2, <2>3, <2>4, <2>5 DEF Accounted
  <1>3. ASSUME NEW w \in Workers, StaleEvent(w)
        PROVE  Goal
    <2>1. \A v \in Workers : Live(v, e) => Live(v, e)' \/ e = job[w].event
      BY <1>0, <1>3 DEF StaleEvent, Phase, Live, JobType
    <2>2. /\ ignored' = ignored \cup {job[w].event}
          /\ UNCHANGED <<queue, delayed, effects, dlq, waiting, redriving>>
      BY <1>3 DEF StaleEvent, relayVars, letterVars
    <2>. QED  BY <2>1, <2>2 DEF Accounted
  <1>4. ASSUME NEW w \in Workers, HandlerFails(w)
        PROVE  Goal
    <2>1. \A v \in Workers : Live(v, e) => Live(v, e)'
      BY <1>0, <1>4 DEF HandlerFails, Phase, Live, JobType
    <2>2. UNCHANGED <<queue, delayed, effects, ignored, dlq, waiting, redriving>>
      BY <1>4 DEF HandlerFails, relayVars, letterVars
    <2>. QED  BY <2>1, <2>2 DEF Accounted
  <1>5. ASSUME NEW w \in Workers, retryOrDeadLetter(w)
        PROVE  Goal
    <2>. DEFINE f == job[w].event
                c == job[w].attempt
    <2>1. f \in Events /\ c \in Attempts
      BY <1>5, BusyWorker DEF retryOrDeadLetter, Phase
    <2>2. \A v \in Workers : Live(v, e) => Live(v, e)' \/ e = f
      BY <1>0, <1>5 DEF retryOrDeadLetter, Phase, Live, JobType
    <2>3. UNCHANGED <<queue, effects, ignored, waiting, redriving>>
      BY <1>5 DEF retryOrDeadLetter, relayVars
    <2>4. CASE c < MaxAttempts /\ delayed' = [delayed EXCEPT ![f][c + 1] = @ + 1] /\ UNCHANGED dlq
      <3>1. c + 1 \in Attempts
        BY <2>1, <2>4, RelayAssumption DEF Attempts
      <3>2. delayed'[f][c + 1] > 0
        BY <2>1, <2>4, <3>1 DEF TypeOK
      <3>3. e # f => delayed'[e] = delayed[e]
        BY <2>1, <2>4 DEF TypeOK
      <3>. HIDE DEF f, c
      <3>. QED  BY <2>2, <2>3, <2>4, <3>1, <3>2, <3>3 DEF Accounted
    <2>5. CASE dlq' = [dlq EXCEPT ![f] = @ + 1] /\ UNCHANGED delayed
      <3>1. dlq'[f] > 0 /\ (e # f => dlq'[e] = dlq[e])
        BY <2>1, <2>5 DEF TypeOK
      <3>. HIDE DEF f, c
      <3>. QED  BY <2>2, <2>3, <2>5, <3>1 DEF Accounted
    <2>. QED  BY <1>5, <2>4, <2>5 DEF retryOrDeadLetter
  <1>6. ASSUME NEW w \in Workers, Ack(w) \/ NotSettled(w)
        PROVE  Goal
    <2>1. \A v \in Workers : Live(v, e) => Live(v, e)'
      BY <1>0, <1>6 DEF Ack, NotSettled, Live
    <2>2. UNCHANGED <<queue, delayed, effects, ignored, dlq, waiting, redriving>>
      BY <1>6 DEF Ack, NotSettled, relayVars, letterVars
    <2>. QED  BY <2>1, <2>2 DEF Accounted
  <1>7. ASSUME NEW w \in Workers, ChannelCloses(w) \/ Crash(w)
        PROVE  Goal
    <2>. DEFINE f == job[w].event
                c == job[w].attempt
    <2>1. f \in Events /\ c \in Attempts
      BY <1>7, BusyWorker DEF ChannelCloses, Crash
    <2>2. \/ job[w].open /\ queue' = Enqueued(f, c)
          \/ ~job[w].open /\ UNCHANGED queue
      BY <1>7, BusyWorker DEF ChannelCloses, Crash
    <2>3. \A a \in Attempts : queue[e][a] > 0 => queue'[e][a] > 0
      BY <2>1, <2>2, EnqueuedOne
    <2>4. job[w].open => queue'[f][c] > 0
      BY <2>1, <2>2, EnqueuedOne
    <2>5. \A v \in Workers : Live(v, e) => Live(v, e)' \/ (e = f /\ job[w].open)
      BY <1>0, <1>7 DEF ChannelCloses, Crash, Live
    <2>6. UNCHANGED <<delayed, effects, ignored, dlq, waiting, redriving>>
      BY <1>7 DEF ChannelCloses, Crash, letterVars
    <2>. HIDE DEF f, c
    <2>. QED  BY <2>1, <2>3, <2>4, <2>5, <2>6 DEF Accounted
  <1>8. ASSUME NEW f \in Events, NEW c \in Attempts, DelayPasses(f, c)
        PROVE  Goal
    <2>1. queue'[f][c] > 0 /\ \A a \in Attempts : queue[e][a] > 0 => queue'[e][a] > 0
      BY <1>8, EnqueuedOne DEF DelayPasses
    <2>2. \A a \in Attempts : delayed[e][a] > 0 => delayed'[e][a] > 0 \/ e = f
      BY <1>8 DEF DelayPasses, TypeOK
    <2>3. UNCHANGED <<job, effects, ignored, dlq, waiting, redriving>>
      BY <1>8 DEF DelayPasses, letterVars
    <2>4. \A v \in Workers : Live(v, e) => Live(v, e)'
      BY <2>3 DEF Live
    <2>. QED  BY <2>1, <2>2, <2>3, <2>4 DEF Accounted
  <1>9. ASSUME NEW f \in Events, park(f)
        PROVE  Goal
    <2>1. /\ dlq' = dlq \/ dlq' = [dlq EXCEPT ![f] = @ - 1]
          /\ waiting' = [waiting EXCEPT ![f] = @ + 1]
          /\ UNCHANGED <<queue, consumerVars, redriving>>
      BY <1>9 DEF park
    <2>2. dlq[e] > 0 => dlq'[e] > 0 \/ e = f
      BY <2>1 DEF TypeOK
    <2>3. waiting'[e] = waiting[e] + IF e = f THEN 1 ELSE 0
      BY <2>1 DEF TypeOK
    <2>4. redriving[e] <= waiting[e]
      BY DEF TypeOK
    <2>5. waiting[e] \in Nat /\ redriving[e] \in Nat
      BY DEF TypeOK
    <2>6. \A v \in Workers : Live(v, e) => Live(v, e)'
      BY <2>1 DEF Live, consumerVars
    <2>. QED  BY <2>1, <2>2, <2>3, <2>4, <2>5, <2>6 DEF Accounted, consumerVars
  <1>10. ASSUME NEW f \in Events, redrive(f)
         PROVE  Goal
    <2>1. 1 \in Attempts
      BY RelayAssumption DEF Attempts
    <2>2. queue'[f][1] > 0 /\ \A a \in Attempts : queue[e][a] > 0 => queue'[e][a] > 0
      BY <1>10, <2>1, EnqueuedOne DEF redrive
    <2>3. redriving' = [redriving EXCEPT ![f] = @ + 1] /\ UNCHANGED <<consumerVars, dlq, waiting>>
      BY <1>10 DEF redrive
    <2>4. \A v \in Workers : Live(v, e) => Live(v, e)'
      BY <2>3 DEF Live, consumerVars
    <2>5. e # f => redriving'[e] = redriving[e]
      BY <2>3 DEF TypeOK
    <2>. QED  BY <2>1, <2>2, <2>3, <2>4, <2>5 DEF Accounted, consumerVars
  <1>11. ASSUME NEW f \in Events, RedriveCommits(f)
         PROVE  Goal
    <2>1. /\ redriving' = [redriving EXCEPT ![f] = @ - 1]
          /\ waiting' = [waiting EXCEPT ![f] = @ - 1]
          /\ UNCHANGED <<queue, consumerVars, dlq>>
      BY <1>11 DEF RedriveCommits, relayVars
    <2>2. waiting'[e] = waiting[e] - IF e = f THEN 1 ELSE 0
      BY <2>1 DEF TypeOK
    <2>3. waiting[e] \in Nat /\ redriving[e] \in Nat
      BY DEF TypeOK
    <2>4. redriving'[e] = redriving[e] - IF e = f THEN 1 ELSE 0
      BY <2>1 DEF TypeOK
    <2>5. \A v \in Workers : Live(v, e) => Live(v, e)'
      BY <2>1 DEF Live, consumerVars
    <2>. QED  BY <2>1, <2>2, <2>3, <2>4, <2>5 DEF Accounted, consumerVars
  <1>12. ASSUME NEW f \in Events,
                RedriveFails(f) \/ RetentionPasses(f) \/ pruneOutbox(f) \/ pruneInbox(f)
         PROVE  Goal
    <2>1. /\ UNCHANGED <<queue, delayed, job, effects, ignored, dlq, waiting>>
          /\ redriving' = redriving \/ redriving' = [redriving EXCEPT ![f] = @ - 1]
      BY <1>12 DEF RedriveFails, RetentionPasses, pruneOutbox, pruneInbox, relayVars,
         consumerVars, letterVars
    <2>2. redriving[e] \in Nat /\ waiting[e] \in Nat /\ redriving'[e] \in {redriving[e], redriving[e] - 1}
      BY <2>1 DEF TypeOK
    <2>. QED  BY <2>1, <2>2 DEF Accounted, Live
  <1>. HIDE DEF Goal
  <1>. SUFFICES Goal
    BY DEF Goal
  <1>. QED
    BY <1>1, <1>2, <1>3, <1>4, <1>5, <1>6, <1>7, <1>8, <1>9, <1>10, <1>11, <1>12
    DEF ConsumerStep, DeliverAny, Handle

-----------------------------------------------------------------------------
LEMMA DeliveryStepInv == DeliveryInv /\ [Next]_vars => DeliveryInv'
  <1>. SUFFICES ASSUME DeliveryInv, [Next]_vars PROVE DeliveryInv'
    OBVIOUS
  <1>1. TypeOK'  BY TypeStep
  <1>2. JobsSound'  BY JobsStep
  <1>3. CASE OutboxSide
    <2>. USE <1>3 DEF OutboxSide, DeliveryInv
    <2>1. RelayInv'  BY RelayStepInv
    <2>2. /\ UNCHANGED <<delayed, job, inbox, effects, ignored, dlq, waiting, redriving>>
      BY DEF consumerVars, letterVars
    <2>3. SeenIsApplied'  BY <2>2 DEF SeenIsApplied
    <2>4. CopiesWereSent'
      <3>. SUFFICES ASSUME NEW e \in Events, (Copies(e) \/ waiting[e] > 0 \/ effects[e] > 0)'
                    PROVE  sent'[e] > 0
        BY DEF CopiesWereSent
      <3>1. sent'[e] >= sent[e] /\ (queue'[e] # queue[e] => sent'[e] > 0)
        BY RelayAdds
      <3>2. sent[e] \in Nat /\ sent'[e] \in Nat
        BY <1>1 DEF TypeOK, RelayTypeOK
      <3>3. CASE queue'[e] = queue[e]
        BY <2>2, <3>1, <3>2, <3>3 DEF CopiesWereSent, Copies
      <3>. QED  BY <3>1, <3>3
    <2>5. NothingDropped'
      <3>. SUFFICES ASSUME NEW e \in Events
                    PROVE  sent'[e] > 0 => Accounted(e)'
        BY DEF NothingDropped
      <3>1. /\ \A a \in Attempts : queue'[e][a] >= queue[e][a]
            /\ sent'[e] >= sent[e]
            /\ sent'[e] > sent[e] => \E a \in Attempts : queue'[e][a] > 0
        BY RelayAdds
      <3>2. /\ sent[e] \in Nat /\ sent'[e] \in Nat
            /\ \A a \in Attempts : queue[e][a] \in Nat /\ queue'[e][a] \in Nat
        BY <1>1 DEF TypeOK, RelayTypeOK
      <3>3. \A a \in Attempts : queue[e][a] > 0 => queue'[e][a] > 0
        BY <3>1, <3>2
      <3>4. Accounted(e) => Accounted(e)'
        BY <2>2, <3>3 DEF Accounted, Live
      <3>5. sent'[e] > 0 => sent[e] > 0 \/ Accounted(e)'
        BY <3>1, <3>2 DEF Accounted
      <3>. QED  BY <2>2, <3>4, <3>5 DEF NothingDropped
    <2>. QED  BY <1>1, <1>2, <2>1, <2>3, <2>4, <2>5
  <1>4. CASE ConsumerStep
    <2>. USE <1>4 DEF DeliveryInv
    <2>1. \A e \in Events :
            /\ Copies(e)' \/ waiting'[e] > 0 => Copies(e) \/ waiting[e] > 0
            /\ effects'[e] # effects[e] => Copies(e)
      BY NoCopyFromNothing
    <2>2. UNCHANGED <<claim, sent, spoiled>>
      BY DEF ConsumerStep, DeliverAny, Handle, Deliver, processOnce, StaleEvent, HandlerFails,
         retryOrDeadLetter, Ack, NotSettled, ChannelCloses, Crash, DelayPasses, park, redrive,
         RedriveCommits, RedriveFails, RetentionPasses, pruneOutbox, pruneInbox, relayVars
    <2>3. \/ UNCHANGED outbox
          \/ \E f \in Events : outbox[f] = "published" /\ outbox' = [outbox EXCEPT ![f] = "gone"]
      BY DEF ConsumerStep, DeliverAny, Handle, Deliver, processOnce, StaleEvent, HandlerFails,
         retryOrDeadLetter, Ack, NotSettled, ChannelCloses, Crash, DelayPasses, park, redrive,
         RedriveCommits, RedriveFails, RetentionPasses, pruneOutbox, pruneInbox, relayVars
    <2>4. RelayInv'
      <3>1. \A e \in Events :
              outbox'[e] = outbox[e] \/ (outbox[e] = "published" /\ outbox'[e] = "gone")
        BY <2>3 DEF TypeOK, RelayTypeOK
      <3>2. RelayTypeOK'
        BY <1>1 DEF TypeOK
      <3>. QED  BY <2>2, <3>1, <3>2, RelayInvKept
    <2>5. SeenIsApplied'
      <3>1. CASE \E w \in Workers : processOnce(w)
        <4>1. PICK w \in Workers : processOnce(w)
          BY <3>1
        <4>2. job[w].event \in Events
          BY <4>1, BusyWorker DEF processOnce, Phase
        <4>. QED  BY <4>1, <4>2 DEF processOnce, SeenIsApplied, TypeOK
      <3>2. CASE \A w \in Workers : ~processOnce(w)
        <4>1. inbox' \subseteq inbox /\ UNCHANGED effects
          BY <3>2 DEF ConsumerStep, DeliverAny, Handle, Deliver, StaleEvent, HandlerFails,
             retryOrDeadLetter, Ack, NotSettled, ChannelCloses, Crash, DelayPasses, park, redrive,
             RedriveCommits, RedriveFails, RetentionPasses, pruneOutbox, pruneInbox, consumerVars
        <4>. QED  BY <4>1 DEF SeenIsApplied
      <3>. QED  BY <3>1, <3>2
    <2>6. CopiesWereSent'  BY <2>1, <2>2 DEF CopiesWereSent
    <2>7. NothingDropped'  BY <2>2, AccountedStays DEF NothingDropped
    <2>. QED  BY <1>1, <1>2, <2>4, <2>5, <2>6, <2>7
  <1>5. CASE UNCHANGED vars
    <2>1. RelayInv'
      BY <1>5, RelayStepInv DEF vars, DeliveryInv
    <2>. QED
      BY <1>1, <1>2, <1>5, <2>1 DEF vars, relayVars, consumerVars, letterVars, DeliveryInv,
         SeenIsApplied, CopiesWereSent, Copies, NothingDropped, Accounted, Live
  <1>. QED  BY <1>3, <1>4, <1>5 DEF Next, ConsumerStep

(* Copies of an applied event are recognised: an event that has lost its   *)
(* inbox row is quiet, and a quiet event stays so.                         *)
LEMMA RecognisedStep ==
  ASSUME ~PruneRaces
  PROVE  DeliveryInv /\ Recognised /\ [Next]_vars => Recognised'
  <1>. SUFFICES ASSUME DeliveryInv, Recognised, [Next]_vars, NEW e \in Events
                PROVE  /\ effects'[e] <= 1
                       /\ effects'[e] = 1 => e \in inbox' \/ Quiet(e)'
    BY DEF Recognised
  <1>1. /\ effects[e] <= 1 /\ effects[e] \in Nat /\ waiting[e] \in Nat
        /\ effects[e] = 1 => e \in inbox \/ Quiet(e)
        /\ e \in inbox => effects[e] > 0
    BY DEF Recognised, DeliveryInv, SeenIsApplied, TypeOK
  <1>2. CASE OutboxSide
    <2>1. UNCHANGED <<delayed, job, inbox, effects, dlq, waiting>>
      BY <1>2 DEF OutboxSide, consumerVars, letterVars
    <2>2. outbox[e] \in AtBroker => outbox'[e] = outbox[e] /\ queue'[e] = queue[e]
      BY <1>2, RelayAdds DEF OutboxSide, DeliveryInv, AtBroker
    <2>3. Quiet(e) => Quiet(e)'
      BY <2>1, <2>2 DEF Quiet, Copies
    <2>. QED  BY <1>1, <2>1, <2>3
  <1>3. CASE ConsumerStep
    <2>1. /\ Copies(e)' \/ waiting'[e] > 0 => Copies(e) \/ waiting[e] > 0
          /\ effects'[e] # effects[e] => Copies(e)
      BY <1>3, NoCopyFromNothing
    <2>2. outbox[e] \in AtBroker => outbox'[e] \in AtBroker
      BY <1>3 DEF ConsumerStep, DeliverAny, Handle, Deliver, processOnce, StaleEvent, HandlerFails,
         retryOrDeadLetter, Ack, NotSettled, ChannelCloses, Crash, DelayPasses, park, redrive,
         RedriveCommits, RedriveFails, RetentionPasses, pruneOutbox, pruneInbox, relayVars,
         AtBroker, DeliveryInv, TypeOK, RelayTypeOK
    <2>3. waiting'[e] \in Nat
      BY TypeStep DEF TypeOK
    <2>4. Quiet(e) => Quiet(e)'
      BY <2>1, <2>2, <2>3 DEF Quiet
    <2>5. CASE \E w \in Workers : processOnce(w)
      <3>1. PICK w \in Workers : processOnce(w)
        BY <2>5
      <3>2. job[w].event \in Events
        BY <3>1, BusyWorker DEF processOnce, Phase
      <3>3. CASE job[w].event # e
        <4>1. effects'[e] = effects[e] /\ inbox \subseteq inbox'
          BY <3>1, <3>3 DEF processOnce, DeliveryInv, TypeOK
        <4>. QED  BY <1>1, <2>4, <4>1
      <3>4. CASE job[w].event = e
        <4>1. Copies(e)
          BY <3>4 DEF Copies
        <4>2. effects[e] = 1 => e \in inbox
          BY <1>1, <4>1 DEF Quiet
        <4>3. /\ effects'[e] = IF e \in inbox THEN effects[e] ELSE effects[e] + 1
              /\ e \in inbox'
          BY <3>1, <3>2, <3>4 DEF processOnce, DeliveryInv, TypeOK
        <4>. QED  BY <1>1, <4>2, <4>3
      <3>. QED  BY <3>3, <3>4
    <2>6. CASE \E f \in Events : pruneInbox(f)
      <3>1. PICK f \in Events : pruneInbox(f)
        BY <2>6
      <3>2. UNCHANGED effects /\ inbox' = inbox \ {f} /\ waiting[f] = 0 /\ Drained(f)
        BY <3>1 DEF pruneInbox
      <3>3. CASE e # f
        BY <1>1, <2>4, <3>2, <3>3
      <3>4. CASE e = f
        <4>1. effects[e] = 1 => sent[e] > 0
          BY DEF DeliveryInv, CopiesWereSent
        <4>2. effects[e] = 1 => outbox[e] \in AtBroker
          BY <3>2, <3>4, <4>1 DEF Drained, Unpublished, AtBroker, DeliveryInv, RelayInv,
             MarkedWasSent, TypeOK, RelayTypeOK
        <4>3. effects[e] = 1 => Quiet(e)
          BY <3>2, <3>4, <4>2 DEF Quiet, Drained
        <4>. QED  BY <1>1, <2>4, <3>2, <4>3
      <3>. QED  BY <3>3, <3>4
    <2>7. CASE /\ \A w \in Workers : ~processOnce(w)
               /\ \A f \in Events : ~pruneInbox(f)
      <3>1. UNCHANGED <<inbox, effects>>
        BY <1>3, <2>7 DEF ConsumerStep, DeliverAny, Handle, Deliver, StaleEvent, HandlerFails,
           retryOrDeadLetter, Ack, NotSettled, ChannelCloses, Crash, DelayPasses, park, redrive,
           RedriveCommits, RedriveFails, RetentionPasses, pruneOutbox, consumerVars
      <3>. QED  BY <1>1, <2>4, <3>1
    <2>. QED  BY <2>5, <2>6, <2>7
  <1>4. CASE UNCHANGED vars
    BY <1>1, <1>4 DEF vars, relayVars, consumerVars, letterVars, Quiet, Copies
  <1>. QED  BY <1>2, <1>3, <1>4 DEF Next, ConsumerStep

-----------------------------------------------------------------------------
(* The invariant of delivery holds in every state.                         *)
THEOREM DeliveryIsSound == Spec => []DeliveryInv
  BY DeliveryInitInv, DeliveryStepInv, PTL DEF Spec

(* Rows, queued copies, jobs and fault counts keep their types: no copy is *)
(* counted below zero and no attempt exceeds its limit (consumer.ts).      *)
THEOREM DeliveryTyped == Spec => []TypeOK
  BY DeliveryIsSound, PTL DEF DeliveryInv

(* A committed event is never lost between the outbox, the queues, the     *)
(* consumers and the operators (consumer.ts, dead-letters.ts), whatever    *)
(* the number of copies, crashes, failures and redrives.                   *)
THEOREM NoEventIsLost == Spec => []NothingLost
  <1>1. DeliveryInv => NothingLost
    <2>. SUFFICES ASSUME DeliveryInv, NEW e \in Events, outbox[e] # "absent", ~Unpublished(e)
                  PROVE  \/ Settled(e)
                         \/ dlq[e] > 0
                         \/ \E a \in Attempts : queue[e][a] > 0 \/ delayed[e][a] > 0
                         \/ \E w \in Workers : job[w].event = e /\ job[w].open
      BY DEF NothingLost
    <2>1. outbox[e] \in {"published", "gone"}
      BY DEF DeliveryInv, TypeOK, RelayTypeOK, Unpublished
    <2>2. sent[e] > 0
      BY <2>1 DEF DeliveryInv, RelayInv, MarkedWasSent, PublishedWasSent
    <2>3. waiting[e] \in Nat /\ redriving[e] \in Nat
      BY DEF DeliveryInv, TypeOK
    <2>. QED  BY <2>2, <2>3 DEF DeliveryInv, NothingDropped, Accounted, Live, Settled
  <1>. QED  BY <1>1, DeliveryIsSound, PTL

(* The inbox makes an effect happen once (processOnce), however many       *)
(* copies arrive, provided that the pruner does not overtake a redriven    *)
(* copy (pruneEventTables).                                                *)
THEOREM EffectsHappenOnce ==
  ASSUME ~PruneRaces
  PROVE  Spec => []EffectOnce
  <1>1. DeliveryInv /\ Recognised /\ [Next]_vars => Recognised'
    BY RecognisedStep
  <1>2. Recognised => EffectOnce
    BY DEF Recognised, EffectOnce
  <1>. QED  BY <1>1, <1>2, DeliveryInitInv, DeliveryIsSound, PTL DEF Spec
=============================================================================
