-------------------------- MODULE ErrandSagaProofs --------------------------
(***************************************************************************)
(* Proofs about the errand saga: the flow with lost messages and Order's   *)
(* credit reconciler.  What the flow keeps (FlowInv) it keeps with them,   *)
(* and the reconciler's candidate, read without a lock, is compared with   *)
(* the row again by version.                                               *)
(***************************************************************************)
EXTENDS ErrandSaga, ErrandFlowProofs

(* The candidate the reconciler holds was true when it was read, and its   *)
(* version tells whether it still is.  A conflict with Credit is only ever *)
(* seen on a candidate that has moved on.                                  *)
ProbeFits ==
    \/ probe = NoProbe
    \/ /\ probe \in [phase : {"PICKED", "REISSUE", "ALERT"}, order : Orders,
                     status : PendingStatuses, version : Nat]
       /\ probe.version <= order[probe.order].version
       /\ order[probe.order].version = probe.version => order[probe.order].status = probe.status
       /\ probe.phase = "ALERT" => order[probe.order].version # probe.version

(* The inductive invariant.                                                *)
SagaInv == FlowInv /\ ProbeFits

LEMMA SagaInvInit == SagaInit => SagaInv
BY FlowInvInit DEF SagaInit, SagaInv, ProbeFits

(* A candidate survives any step of the flow.                              *)
LEMMA FlowKeepsProbe ==
    ASSUME SagaInv, FlowNext, UNCHANGED probe
    PROVE  SagaInv'
<1>1. FlowInv' /\ Versioned
  BY FlowStepKeeps, FlowStepVersioned DEF SagaInv
<1>2. CASE probe = NoProbe
  BY <1>1, <1>2 DEF SagaInv, ProbeFits
<1>3. CASE probe # NoProbe
  <2>1. probe.order \in Orders /\ probe.version \in Nat
    BY <1>3 DEF SagaInv, ProbeFits
  <2>2. order[probe.order].version \in Nat /\ order'[probe.order].version \in Nat
    BY <1>1, <2>1 DEF SagaInv, FlowInv, StateTypes, Row
  <2> QED BY <1>1, <1>3, <2>1, <2>2 DEF SagaInv, ProbeFits, Versioned
<1> QED BY <1>2, <1>3

(* What Credit answers about an order is repairable in the order's         *)
(* present status.                                                         *)
LEMMA PresentRepairable ==
    ASSUME FlowInv, NEW o \in Orders, order[o].status \in PendingStatuses
    PROVE  ReconciliationDecision(order[o].status, OrderStatus(o)) = "REISSUE"
<1>0. LedgerFits(o) /\ terminal[o] \in TerminalRow
  BY DEF FlowInv, Ledger, LedgerTypes
<1>1. CASE order[o].status = "PENDING_CREDIT"
  <2>1. terminal[o].type = "ABSENT"
    BY <1>0, <1>1 DEF LedgerFits, TerminalRow, Completing, Released
  <2>2. OrderStatus(o) \in {"NONE", "RESERVED"}
    BY <2>1 DEF OrderStatus
  <2> QED BY <1>1, <2>2 DEF ReconciliationDecision
<1>2. CASE order[o].status = "COMPLETION_PENDING_CREDIT"
  <2>1. terminal[o].type \in {"ABSENT", "TRANSFER"} /\ reservation[o].outcome = "SUCCEEDED"
    BY <1>0, <1>2 DEF LedgerFits, TerminalRow, Completing, Released, AfterReservation, Statuses
  <2>2. OrderStatus(o) \in {"RESERVED", "TRANSFERRED"}
    BY <2>1 DEF OrderStatus
  <2> QED BY <1>2, <2>2 DEF ReconciliationDecision
<1>3. CASE order[o].status = "RELEASE_PENDING_CREDIT"
  <2>1. terminal[o].type \in {"ABSENT", "RELEASE"} /\ reservation[o].outcome = "SUCCEEDED"
    BY <1>0, <1>3 DEF LedgerFits, TerminalRow, Completing, Released, AfterReservation, Statuses
  <2>2. OrderStatus(o) \in {"RESERVED", "RELEASED"}
    BY <2>1 DEF OrderStatus
  <2> QED BY <1>3, <2>2 DEF ReconciliationDecision
<1> QED BY <1>1, <1>2, <1>3 DEF PendingStatuses

(* The flow's invariant only reads the flow's state.                       *)
LEMMA FlowInvStays == ASSUME FlowInv, UNCHANGED flowVars PROVE FlowInv'
BY FlowStepKeeps

LEMMA PickKeeps ==
    ASSUME SagaInv, NEW o \in Orders, PickCandidate(o) PROVE SagaInv'
<1>1. FlowInv'
  BY FlowInvStays DEF SagaInv, PickCandidate
<1>2. order' = order /\ order[o].version \in Nat
  BY DEF PickCandidate, flowVars, orderVars, SagaInv, FlowInv, StateTypes, Row
<1> QED BY <1>1, <1>2 DEF PickCandidate, SagaInv, ProbeFits

LEMMA AskKeeps == ASSUME SagaInv, AskCredit PROVE SagaInv'
<1>1. FlowInv' /\ order' = order
  BY FlowInvStays DEF SagaInv, AskCredit, flowVars, orderVars
<1> DEFINE answer == ReconciliationDecision(probe.status, OrderStatus(probe.order))
<1>2. answer \in {"REISSUE", "ALERT"}
  BY DEF ReconciliationDecision
<1>3. /\ probe \in [phase : {"PICKED", "REISSUE", "ALERT"}, order : Orders,
                    status : PendingStatuses, version : Nat]
      /\ probe.version <= order[probe.order].version
      /\ order[probe.order].version = probe.version => order[probe.order].status = probe.status
  BY DEF SagaInv, ProbeFits, AskCredit, NoProbe
<1>4. order[probe.order].version = probe.version => answer = "REISSUE"
  BY <1>3, PresentRepairable DEF SagaInv
<1>5. probe' = [probe EXCEPT !.phase = answer]
  BY DEF AskCredit
<1> HIDE DEF answer
<1>6. /\ probe' \in [phase : {"PICKED", "REISSUE", "ALERT"}, order : Orders,
                     status : PendingStatuses, version : Nat]
      /\ probe'.phase = answer /\ probe'.order = probe.order /\ probe'.status = probe.status
      /\ probe'.version = probe.version
  BY <1>2, <1>3, <1>5
<1> QED BY <1>1, <1>3, <1>4, <1>6 DEF SagaInv, ProbeFits

(* A re-issued request restates the row like the first one.                *)
LEMMA RecordKeeps == ASSUME SagaInv, RecordReconciliation PROVE SagaInv'
<1> DEFINE o == probe.order
<1>0. FlowInv /\ order' = order /\ UNCHANGED <<ledgerVars, replies>>
  BY DEF SagaInv, RecordReconciliation
<1>1. /\ o \in Orders /\ probe.status \in PendingStatuses
      /\ probe.phase = "ALERT" => order[o].version # probe.version
  BY DEF SagaInv, ProbeFits, RecordReconciliation, NoProbe
<1>2. orderAlerts' = orderAlerts
  BY <1>1 DEF RecordReconciliation, Unmoved
<1>3. \A m \in requests' \ requests : Fresh(m)
  <2>1. CASE Unmoved(probe) /\ probe.phase = "REISSUE"
    <3>1. requests' = requests \cup {CreditRequest(o)} /\ order[o].status \in PendingStatuses
      BY <1>1, <2>1 DEF RecordReconciliation, Unmoved
    <3>2. Fresh(CreditRequest(o))
      <4>1. CASE order[o].status = "PENDING_CREDIT"
        BY <1>0, <1>1, <4>1 DEF CreditRequest, Fresh, Ask
      <4>2. CASE order[o].status = "COMPLETION_PENDING_CREDIT"
        BY <1>0, <1>1, <4>2 DEF CreditRequest, Fresh, Ask
      <4>3. CASE order[o].status = "RELEASE_PENDING_CREDIT"
        BY <1>0, <1>1, <4>3 DEF CreditRequest, Fresh, Ask
      <4> QED BY <3>1, <4>1, <4>2, <4>3 DEF PendingStatuses
    <3> QED BY <3>1, <3>2
  <2>2. CASE ~(Unmoved(probe) /\ probe.phase = "REISSUE")
    BY <2>2 DEF RecordReconciliation
  <2> QED BY <2>1, <2>2
<1>4. requests \subseteq requests'
  BY DEF RecordReconciliation
<1>5. \A m \in requests' : m \in WellFormed /\ RequestFits(m)'
  <2>1. \A x \in Orders : order'[x] \in Row /\ RowFits(order'[x])
    BY <1>0 DEF FlowInv, StateTypes, Rows
  <2>2. ASSUME NEW m \in requests PROVE m \in WellFormed /\ RequestFits(m)'
    BY <1>0 DEF FlowInv, LedgerTypes, Messages, RequestFits
  <2>3. ASSUME NEW m \in requests' \ requests PROVE m \in WellFormed /\ RequestFits(m)'
    BY <1>3, <2>1, FreshFits DEF Fresh
  <2> QED BY <2>2, <2>3
<1>6. StateTypes' /\ SuspendedHoldNothing'
  BY <1>0, <1>2 DEF RecordReconciliation, FlowInv, StateTypes, SideTypes, SuspendedHoldNothing,
     suspensionVars, outsideVars
<1>7. Rows' /\ Ledger'
  BY <1>0 DEF RecordReconciliation, FlowInv, Rows, LockFits, Ledger, LedgerFits, suspensionVars,
     ledgerVars
<1>8. LedgerTypes' /\ Messages'
  BY <1>0, <1>4, <1>5 DEF FlowInv, LedgerTypes, Messages, MissFits, ReplyFits, ledgerVars
<1> QED BY <1>6, <1>7, <1>8 DEF FlowInv, SagaInv, ProbeFits, RecordReconciliation

(* Losing a message loses a promise about it and no more.                  *)
LEMMA LoseKeeps == ASSUME SagaInv, Lose PROVE SagaInv'
<1>1. /\ FlowInv /\ UNCHANGED <<orderVars, ledgerVars, probe>>
      /\ requests' \subseteq requests /\ replies' \subseteq replies /\ missed \subseteq requests'
  BY DEF SagaInv, FlowInv, LedgerTypes, Lose
<1>2. StateTypes' /\ SuspendedHoldNothing' /\ Rows' /\ Ledger'
  BY <1>1 DEF FlowInv, StateTypes, SideTypes, SuspendedHoldNothing, Rows, LockFits, Ledger,
     LedgerFits, orderVars, suspensionVars, outsideVars, ledgerVars
<1>3. LedgerTypes' /\ Messages'
  BY <1>1 DEF FlowInv, LedgerTypes, Messages, RequestFits, MissFits, ReplyFits, orderVars, ledgerVars
<1> QED BY <1>1, <1>2, <1>3 DEF FlowInv, SagaInv, ProbeFits, orderVars

LEMMA SagaStepKeeps == ASSUME SagaInv, [SagaNext]_sagaVars PROVE SagaInv'
<1>1. CASE FlowNext /\ UNCHANGED <<probe, lost>>
  BY <1>1, FlowKeepsProbe
<1>2. CASE Reconcile
  <2>1. CASE CreditUnavailable
    BY <2>1, FlowInvStays DEF CreditUnavailable, SagaInv, ProbeFits
  <2> QED BY <1>2, <2>1, PickKeeps, AskKeeps, RecordKeeps DEF Reconcile
<1>3. CASE Lose
  BY <1>3, LoseKeeps
<1>4. CASE UNCHANGED sagaVars
  BY <1>4, FlowInvStays DEF sagaVars, SagaInv, ProbeFits, flowVars, orderVars
<1> QED BY <1>1, <1>2, <1>3, <1>4 DEF SagaNext

(* A reply that fits the ledger is one Order can use.                      *)
LEMMA NothingUnparseable ==
    ASSUME FlowInv, NEW r \in replies PROVE ~Unparseable(r)
<1> DEFINE o == r.order
           row == order[o]
<1>0. /\ o \in Orders /\ ReplyFits(r) /\ LedgerFits(o) /\ RowFits(row) /\ row \in Row
      /\ r.type \in ReplyTypes
  BY DEF FlowInv, StateTypes, LedgerTypes, Reply, Messages, Ledger, Rows
<1>1. Restates(r)
  BY <1>0 DEF ReplyFits, LedgerFits, Restates
<1>2. row.status \in Statuses
  BY <1>0 DEF ReplyFits, LedgerFits, Row
<1>3. CASE r.type = "CREDITS_RESERVED"
  BY <1>0, <1>1, <1>3 DEF Unparseable, ReplyFits, LedgerFits
<1>4. CASE r.type = "RESERVATION_REJECTED"
  BY <1>0, <1>1, <1>2, <1>4 DEF Unparseable, ReplyFits, LedgerFits, AfterReservation
<1>5. CASE r.type = "CREDITS_TRANSFERRED"
  BY <1>0, <1>1, <1>5 DEF Unparseable, ReplyFits, LedgerFits, RowFits, Matches, Completing
<1>6. CASE r.type = "CREDITS_RELEASED"
  BY <1>0, <1>1, <1>6 DEF Unparseable, ReplyFits, LedgerFits, RowFits, Matches, Released
<1> QED BY <1>0, <1>3, <1>4, <1>5, <1>6 DEF ReplyTypes

LEMMA SagaInvGives ==
    SagaInv => /\ TypeOK /\ MoneyFollowsErrand /\ PaidForReason
               /\ SuspendedHoldNothing /\ NoFalseConflict
<1> SUFFICES ASSUME SagaInv
             PROVE  /\ TypeOK /\ MoneyFollowsErrand /\ PaidForReason
                    /\ SuspendedHoldNothing /\ NoFalseConflict
  OBVIOUS
<1>1. FlowInv
  BY DEF SagaInv
<1>2. alerts = {} /\ orderAlerts \subseteq Orders \X {"REFERRAL_UNASSIGNED"}
  BY <1>1 DEF FlowInv, Messages, StateTypes, SideTypes
<1>3. NoFalseConflict
  BY <1>1, <1>2, NothingUnparseable DEF NoFalseConflict
<1> QED BY <1>1, <1>3, FlowInvGives

THEOREM SagaInvHolds == SagaSpec => []SagaInv
BY SagaInvInit, SagaStepKeeps, PTL DEF SagaSpec

(* Rows and messages keep their types while messages are lost and requests *)
(* are re-issued.                                                          *)
THEOREM SagaTyped == SagaSpec => []TypeOK
BY SagaInvHolds, SagaInvGives, PTL

(* Order and Credit agree about the money although messages are lost and   *)
(* the reconciler re-issues requests (credit-reconciler.ts).               *)
THEOREM SagaMoney == SagaSpec => []MoneyFollowsErrand
BY SagaInvHolds, SagaInvGives, PTL

(* A courier is paid for a delivery or a decision, with lost messages too. *)
THEOREM SagaPaidForReason == SagaSpec => []PaidForReason
BY SagaInvHolds, SagaInvGives, PTL

(* No reply is dead-lettered as contradictory, Credit raises no audit      *)
(* alert, and the reconciler, which decides on a status and an answer read *)
(* at different times, never alerts an operator of a conflict that is not  *)
(* there (recordReconciliation's comparison of status and version).        *)
THEOREM SagaNoFalseConflict == SagaSpec => []NoFalseConflict
BY SagaInvHolds, SagaInvGives, PTL
=============================================================================
