----------------------------- MODULE ErrandSaga -----------------------------
(***************************************************************************)
(* The Order Service, the Credit Service and the broker between them, with *)
(* Order's credit reconciler (credit-reconciler.ts).  A message that the   *)
(* broker or a consumer gives up on disappears; the reconciler reads an    *)
(* order that waits for Credit, asks Credit what it recorded, and under    *)
(* the row lock re-issues the request or raises an alert.                  *)
(***************************************************************************)
EXTENDS ErrandFlow

CONSTANT MaxLost      \* bound: messages lost for good

ASSUME LossAssumption == MaxLost \in Nat

VARIABLES probe,      \* the reconciler's candidate and what Credit said
          lost        \* number of messages lost

sagaVars == <<flowVars, probe, lost>>

NoProbe == [phase |-> "IDLE"]

SagaInit == FlowInit /\ probe = NoProbe /\ lost = 0

-----------------------------------------------------------------------------
PendingStatuses == {"PENDING_CREDIT", "COMPLETION_PENDING_CREDIT", "RELEASE_PENDING_CREDIT"}

(* findReconciliationCandidates.  How long an order must have waited, and  *)
(* since the last attempt, is left open.                                   *)
PickCandidate(o) ==
    /\ probe = NoProbe
    /\ order[o].status \in PendingStatuses
    /\ probe' = [phase |-> "PICKED", order |-> o,
                 status |-> order[o].status, version |-> order[o].version]
    /\ UNCHANGED <<flowVars, lost>>

(* Mutant: only a held reservation is repaired.                            *)
MutantReconciliationDecision(status, credit) ==
    IF status \in PendingStatuses /\ credit = "RESERVED" THEN "REISSUE" ELSE "ALERT"

ReconciliationDecision(status, credit) ==
    LET repairable == CASE status = "PENDING_CREDIT" -> {"NONE", "RESERVED"}
                        [] status = "COMPLETION_PENDING_CREDIT" -> {"RESERVED", "TRANSFERRED"}
                        [] status = "RELEASE_PENDING_CREDIT" -> {"RESERVED", "RELEASED"}
    IN  IF credit \in repairable THEN "REISSUE" ELSE "ALERT"

AskCredit ==
    /\ probe.phase = "PICKED"
    /\ probe' = [probe EXCEPT !.phase =
                     ReconciliationDecision(probe.status, OrderStatus(probe.order))]
    /\ UNCHANGED <<flowVars, lost>>

(* No answer: only the attempt is recorded.                                *)
CreditUnavailable ==
    /\ probe.phase = "PICKED"
    /\ probe' = NoProbe
    /\ UNCHANGED <<flowVars, lost>>

CreditRequest(o) ==
    Ask(CASE order[o].status = "PENDING_CREDIT" -> "RESERVATION_REQUESTED"
          [] order[o].status = "COMPLETION_PENDING_CREDIT" -> "COMPLETION_REQUESTED"
          [] order[o].status = "RELEASE_PENDING_CREDIT" -> "RELEASE_REQUESTED", o, order[o])

Unmoved(p) ==
    /\ Unlocked(p.order)
    /\ order[p.order].status = p.status
    /\ order[p.order].version = p.version

RecordReconciliation ==
    /\ probe.phase \in {"REISSUE", "ALERT"}
    /\ probe' = NoProbe
    /\ requests' = IF Unmoved(probe) /\ probe.phase = "REISSUE"
                   THEN requests \cup {CreditRequest(probe.order)} ELSE requests
    /\ orderAlerts' = IF Unmoved(probe) /\ probe.phase = "ALERT"
                      THEN orderAlerts \cup {<<probe.order, "CREDIT_STATE_CONFLICT">>}
                      ELSE orderAlerts
    /\ UNCHANGED <<order, clock, answered, checked, suspensionVars, outsideVars, listed,
                   ledgerVars, replies, lost>>

(* A consumer used up its attempts, or an operator discarded the message.  *)
Lose ==
    /\ lost < MaxLost
    /\ lost' = lost + 1
    /\ \/ \E m \in requests \ missed : requests' = requests \ {m} /\ UNCHANGED replies
       \/ \E r \in replies : replies' = replies \ {r} /\ UNCHANGED requests
    /\ UNCHANGED <<orderVars, ledgerVars, probe>>

Reconcile == (\E o \in Orders : PickCandidate(o)) \/ AskCredit \/ CreditUnavailable
             \/ RecordReconciliation

SagaNext ==
    \/ FlowNext /\ UNCHANGED <<probe, lost>>
    \/ Reconcile
    \/ Lose

SagaSpec == SagaInit /\ [][SagaNext]_sagaVars

Quiet == UNCHANGED <<probe, lost>>

(* Fairness, as for the flow, and the reconciler runs on its interval;     *)
(* Credit does not fail to answer it every time.                           *)
SagaFairness ==
    /\ WF_sagaVars(Tick /\ UNCHANGED <<ledgerVars, replies>> /\ Quiet)
    /\ \A o \in Orders :
          /\ WF_sagaVars(ExpireOpen(o, clock) /\ UNCHANGED <<ledgerVars, replies>> /\ Quiet)
          /\ WF_sagaVars(TimeOutPickup(o, clock) /\ UNCHANGED <<ledgerVars, replies>> /\ Quiet)
          /\ WF_sagaVars(AutoConfirm(o, clock) /\ UNCHANGED <<ledgerVars, replies>> /\ Quiet)
          /\ SF_sagaVars(Reserved(o) /\ UNCHANGED <<ledgerVars, replies>> /\ Quiet)
          /\ WF_sagaVars((\E r \in replies : r.order = o /\ (AskRequester(r) \/ Rejected(r) \/ Confirmed(r)))
                         /\ UNCHANGED <<ledgerVars, replies>> /\ Quiet)
          /\ SF_sagaVars((\E m \in missed : m.order = o /\ ReserveRefuse(m))
                         /\ UNCHANGED orderVars /\ Quiet)
          /\ WF_sagaVars((\E m \in missed : m.order = o /\ ReserveAbort(m))
                         /\ UNCHANGED orderVars /\ Quiet)
          /\ WF_sagaVars((\E m \in requests : m.order = o /\ (ReserveMiss(m) \/ ReserveHold(m)
                              \/ ReserveOutOfRange(m) \/ ReserveReplay(m) \/ Transfer(m)
                              \/ Release(m) \/ TerminalReplay(m)))
                         /\ UNCHANGED orderVars /\ Quiet)
          /\ SF_sagaVars(PickCandidate(o))
    /\ \A u \in Users : WF_sagaVars(IssueInitial(u) /\ UNCHANGED orderVars /\ Quiet)
    /\ SF_sagaVars(AskCredit)
    /\ WF_sagaVars(RecordReconciliation)

FairSagaSpec == SagaSpec /\ SagaFairness

-----------------------------------------------------------------------------
(* Nothing the two services say to each other needs a person: no reply is  *)
(* dead-lettered, Credit raises no audit alert, and the reconciler, which  *)
(* compares a status it read with a later answer from Credit, never sees a *)
(* conflict that is not there.                                             *)
NoFalseConflict ==
    /\ \A r \in replies : Unlocked(r.order) => ~Unparseable(r)
    /\ alerts = {}
    /\ \A o \in Orders : <<o, "CREDIT_STATE_CONFLICT">> \notin orderAlerts

(* An order that waits for Credit is answered, although requests and       *)
(* replies are lost: the reconciler re-issues the request, and Credit      *)
(* answers a repeat with what it recorded.                                 *)
PendingSettles ==
    \A o \in Orders, s \in PendingStatuses :
        (order[o].status = s) ~> (order[o].status # s)

(* No errand waits for ever, for Credit or for a person who stays away,    *)
(* although messages are lost for good.                                    *)
NothingWaits == PendingSettles /\ TimersFire
=============================================================================
