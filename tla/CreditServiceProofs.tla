------------------------ MODULE CreditServiceProofs ------------------------
(***************************************************************************)
(* Proofs about the Credit Service for any set of students, orders and     *)
(* inbound requests.                                                       *)
(***************************************************************************)
EXTENDS CreditService, FiniteSetTheorems, TLAPS

(* The handler steps for one message.                                      *)
Handler(m) ==
    \/ ReserveOutOfRange(m) \/ ReserveHold(m) \/ ReserveMiss(m) \/ ReserveReplay(m)
    \/ TerminalReject(m) \/ TerminalReplay(m) \/ Transfer(m) \/ Release(m)
    \/ ReserveRefuse(m) \/ ReserveAbort(m)

(* Every step issues a wallet or handles a delivered message.              *)
LEMMA StepCases ==
    ASSUME TypeOK, [Next]_creditVars,
           NEW G,
           \A u \in Users : IssueInitial(u) => G,
           \A m \in requests : Handler(m) => G,
           UNCHANGED creditVars => G
    PROVE  G
BY DEF TypeOK, Next, CreditNext, Handler

(* A refusal of a settlement is one of the audit alert codes.              *)
LEMMA RefusalCodes ==
    ASSUME NEW m PROVE TerminalRefusal(m) \in AlertCodes \cup {"NONE"}
BY DEF TerminalRefusal, ValidateReservation, ReplayRefusal, AlertCodes

(* Balances stay natural numbers and every row, reply and alert keeps its  *)
(* shape: issuing, reserving, transferring and releasing (credit.          *)
(* repository.ts) never make a wallet negative.                            *)
THEOREM TypeCorrect == Spec => []TypeOK
<1>1. Init => TypeOK
  BY InboundAssumption, CreditAssumption, MessageAssumption
  DEF WellFormed, Init, CreditInit, TypeOK, ReserveRow, TerminalRow, NoReservation, NoTerminal
<1>2. TypeOK /\ [Next]_creditVars => TypeOK'
  <2> SUFFICES ASSUME TypeOK, [Next]_creditVars PROVE TypeOK'
    OBVIOUS
  <2>1. ASSUME NEW u \in Users, IssueInitial(u) PROVE TypeOK'
    BY <2>1, CreditAssumption DEF IssueInitial, TypeOK
  <2>2. ASSUME NEW m \in requests, Handler(m) PROVE TypeOK'
    <3> USE MessageAssumption, CreditAssumption
    <3>0. /\ m \in Request /\ m.order \in Orders /\ m.requester \in Users
          /\ m.amount \in Rewards /\ m.amount \in Nat
          /\ m.courier \in Users \cup {NoUser}
      BY DEF TypeOK, Request
    <3>a. reservation[m.order] \in ReserveRow
      BY <3>0 DEF TypeOK
    <3>1. CASE ReserveOutOfRange(m)
      BY <3>0, <3>1 DEF ReserveOutOfRange, RecordRejection, Answer, ReplyTo, TypeOK,
         ReserveRow, Reply, Rejections, ReplyTypes
    <3>2. CASE ReserveHold(m)
      <4>1. available' \in [Users -> Nat] /\ reserved' \in [Users -> Nat]
        BY <3>0, <3>2 DEF ReserveHold, Debitable, TypeOK
      <4> QED BY <3>0, <3>2, <4>1 DEF ReserveHold, Answer, ReplyTo, TypeOK,
                 ReserveRow, Reply, ReplyTypes
    <3>3. CASE ReserveMiss(m)
      BY <3>3 DEF ReserveMiss, TypeOK
    <3>4. CASE ReserveReplay(m)
      BY <3>0, <3>a, <3>4 DEF ReserveReplay, RecordedReply, Answer, ReplyTo, TypeOK, ReserveRow, Reply,
         ReplyTypes, Rejections, AlertCodes
    <3>5. CASE TerminalReject(m)
      <4>1. TerminalRefusal(m) \in AlertCodes
        BY <3>5, RefusalCodes DEF TerminalReject
      <4> QED BY <3>0, <3>5, <4>1 DEF TerminalReject, OperationOf, TypeOK
    <3>6. CASE TerminalReplay(m)
      BY <3>0, <3>6 DEF TerminalReplay, TerminalReply, Answer, ReplyTo, TypeOK, ledgerVars,
         Reply, ReplyTypes
    <3>7. CASE Transfer(m)
      <4>1. m.courier \in Users
        BY <3>7 DEF Transfer, TypeOK
      <4>2. available' \in [Users -> Nat] /\ reserved' \in [Users -> Nat]
        BY <3>0, <3>7, <4>1 DEF Transfer, TypeOK
      <4> QED BY <3>0, <3>7, <4>1, <4>2 DEF Transfer, TerminalReply, Answer, ReplyTo, TypeOK,
                 TerminalRow, Reply, ReplyTypes
    <3>8. CASE Release(m)
      <4>1. available' \in [Users -> Nat] /\ reserved' \in [Users -> Nat]
        BY <3>0, <3>8 DEF Release, TypeOK
      <4> QED BY <3>0, <3>8, <4>1 DEF Release, TerminalReply, Answer, ReplyTo, TypeOK,
                 TerminalRow, Reply, ReplyTypes
    <3>9. CASE ReserveRefuse(m)
      BY <3>0, <3>9 DEF ReserveRefuse, RecordRejection, Answer, ReplyTo, TypeOK, ReserveRow,
         Reply, Rejections, ReplyTypes
    <3>10. CASE ReserveAbort(m)
      BY <3>10 DEF ReserveAbort, TypeOK
    <3> QED BY <2>2, <3>1, <3>2, <3>3, <3>4, <3>5, <3>6, <3>7, <3>8, <3>9, <3>10 DEF Handler
  <2>3. CASE UNCHANGED creditVars
    BY <2>3 DEF creditVars, ledgerVars, TypeOK
  <2> QED BY <2>1, <2>2, <2>3, StepCases
<1> QED BY <1>1, <1>2, PTL DEF Spec

-----------------------------------------------------------------------------
(* What Credit told Order, and what it recorded, for every order.          *)
(* RepliesTruthful is not inductive alone: a refusal of an open            *)
(* reservation must not overwrite a decided row (ClaimsExclusive), and a   *)
(* released order must not have been paid (SettlementBacked).              *)
SettledTruth == TypeOK /\ SettlementBacked /\ ClaimsExclusive /\ RepliesTruthful

(* What the type invariant says of a delivered message and its order's     *)
(* rows.                                                                   *)
LEMMA MessageTypes ==
    ASSUME TypeOK, NEW m \in requests
    PROVE  /\ m \in Request /\ m.order \in Orders /\ m.requester \in Users
           /\ m.amount \in Rewards /\ m.amount \in Nat
           /\ m.courier \in Users \cup {NoUser}
           /\ reservation[m.order] \in ReserveRow
           /\ terminal[m.order] \in TerminalRow
BY MessageAssumption DEF TypeOK, Request

(* Once decided, a reservation never changes, and once settled, neither    *)
(* does a settlement: later deliveries only replay the rows.               *)
LEMMA RowsAreFinal ==
    ASSUME SettledTruth, NEW m \in requests, Handler(m), NEW o \in Orders
    PROVE  /\ reservation[o].outcome # "ABSENT" => reservation'[o] = reservation[o]
           /\ terminal[o].type # "ABSENT" => terminal'[o] = terminal[o]
<1> USE MessageTypes DEF SettledTruth
<1>1. CASE ReserveOutOfRange(m)
  BY <1>1 DEF ReserveOutOfRange, RecordRejection, TypeOK
<1>2. CASE ReserveHold(m)
  BY <1>2 DEF ReserveHold, TypeOK
<1>3. CASE ReserveMiss(m) \/ ReserveReplay(m) \/ TerminalReject(m) \/ TerminalReplay(m) \/ ReserveAbort(m)
  BY <1>3 DEF ReserveMiss, ReserveReplay, TerminalReject, TerminalReplay, ReserveAbort, ledgerVars
<1>4. CASE Transfer(m)
  BY <1>4 DEF Transfer, TypeOK
<1>5. CASE Release(m)
  BY <1>5 DEF Release, TypeOK
<1>6. CASE ReserveRefuse(m)
  BY <1>6 DEF ReserveRefuse, RecordRejection, TypeOK, ClaimsExclusive
<1> QED BY <1>1, <1>2, <1>3, <1>4, <1>5, <1>6 DEF Handler

(* An accepted settlement request agrees with the reservation.             *)
LEMMA AcceptedSettlement ==
    ASSUME NEW m, TerminalRefusal(m) = "NONE"
    PROVE  /\ reservation[m.order].outcome = "SUCCEEDED"
           /\ reservation[m.order].requester = m.requester
           /\ reservation[m.order].amount = m.amount
           /\ OperationOf(m) = "TRANSFER" => m.requester # m.courier
           /\ terminal[m.order].type \in {"ABSENT", OperationOf(m)}
           /\ terminal[m.order].type = "TRANSFER" => terminal[m.order].courier = m.courier
BY DEF TerminalRefusal, ValidateReservation, ReplayRefusal, OperationOf

LEMMA SettlementStep ==
    ASSUME SettledTruth, NEW m \in requests, Handler(m)
    PROVE  SettlementBacked'
<1> USE MessageTypes, MessageAssumption DEF SettledTruth
<1>1. CASE ReserveOutOfRange(m)
  BY <1>1 DEF ReserveOutOfRange, RecordRejection, TypeOK, SettlementBacked
<1>2. CASE ReserveHold(m)
  BY <1>2 DEF ReserveHold, Debitable, TypeOK, SettlementBacked
<1>3. CASE ReserveMiss(m) \/ ReserveReplay(m) \/ TerminalReject(m) \/ TerminalReplay(m) \/ ReserveAbort(m)
  BY <1>3 DEF ReserveMiss, ReserveReplay, TerminalReject, TerminalReplay, ReserveAbort, ledgerVars,
     SettlementBacked
<1>4. CASE Transfer(m)
  BY <1>4, AcceptedSettlement DEF Transfer, TypeOK, SettlementBacked
<1>5. CASE Release(m)
  BY <1>5, AcceptedSettlement DEF Release, TypeOK, SettlementBacked
<1>6. CASE ReserveRefuse(m)
  BY <1>6 DEF ReserveRefuse, RecordRejection, TypeOK, SettlementBacked, ClaimsExclusive
<1> QED BY <1>1, <1>2, <1>3, <1>4, <1>5, <1>6 DEF Handler

LEMMA ClaimsStep ==
    ASSUME SettledTruth, NEW m \in requests, Handler(m)
    PROVE  ClaimsExclusive'
<1> USE MessageTypes DEF SettledTruth
<1>1. CASE ReserveOutOfRange(m)
  BY <1>1 DEF ReserveOutOfRange, RecordRejection, Claimable, TypeOK, ClaimsExclusive
<1>2. CASE ReserveHold(m)
  BY <1>2 DEF ReserveHold, Claimable, TypeOK, ClaimsExclusive
<1>3. CASE ReserveReplay(m) \/ TerminalReject(m) \/ TerminalReplay(m) \/ Transfer(m) \/ Release(m)
  BY <1>3 DEF ReserveReplay, TerminalReject, TerminalReplay, Transfer, Release, ledgerVars,
     ClaimsExclusive
<1>4. CASE ReserveMiss(m)
  BY <1>4 DEF ReserveMiss, ReservationRequest, Claimable, ClaimsExclusive
<1>5. CASE ReserveRefuse(m)
  BY <1>5 DEF ReserveRefuse, RecordRejection, TypeOK, ClaimsExclusive
<1>6. CASE ReserveAbort(m)
  BY <1>6 DEF ReserveAbort, ClaimsExclusive
<1> QED BY <1>1, <1>2, <1>3, <1>4, <1>5, <1>6 DEF Handler

(* What RepliesTruthful says of one reply.                                 *)
Truthful(r) ==
    LET row == reservation[r.order] IN
    /\ r.type # "RESERVATION_REJECTED" =>
          row.outcome = "SUCCEEDED" /\ row.requester = r.requester /\ row.amount = r.amount
    /\ r.type = "CREDITS_TRANSFERRED" =>
          terminal[r.order].type = "TRANSFER" /\ terminal[r.order].courier = r.courier
    /\ r.type = "CREDITS_RELEASED" => terminal[r.order].type = "RELEASE"
    /\ (r.type = "RESERVATION_REJECTED" /\ r.reason # "CONFLICTING_REQUEST") =>
          row.outcome = "REJECTED" /\ row.reason = r.reason /\ row.available = r.available

(* A reply stays true: it rests on decided rows.                           *)
LEMMA OldRepliesStayTrue ==
    ASSUME SettledTruth, NEW m \in requests, Handler(m), NEW r \in replies
    PROVE  Truthful(r)'
<1>1. r.order \in Orders
  BY DEF SettledTruth, TypeOK, Reply
<1>2. Truthful(r)
  BY DEF SettledTruth, RepliesTruthful, Truthful
<1>3. reservation[r.order].outcome # "ABSENT" \/ (r.type = "RESERVATION_REJECTED" /\ r.reason = "CONFLICTING_REQUEST")
  BY <1>2 DEF Truthful
<1>4. r.type \in {"CREDITS_TRANSFERRED", "CREDITS_RELEASED"} => terminal'[r.order] = terminal[r.order]
  BY <1>1, <1>2, RowsAreFinal DEF Truthful
<1>5. reservation[r.order].outcome # "ABSENT" => reservation'[r.order] = reservation[r.order]
  BY <1>1, RowsAreFinal
<1> QED BY <1>2, <1>3, <1>4, <1>5 DEF Truthful

(* The reply a handler writes is true when it is written.                  *)
LEMMA NewReplyIsTrue ==
    ASSUME SettledTruth, NEW m \in requests, Handler(m)
    PROVE  replies' = replies \/ \E r : replies' = replies \cup {r} /\ Truthful(r)'
<1> USE MessageTypes, MessageAssumption DEF SettledTruth
<1>1. CASE ReserveOutOfRange(m)
  BY <1>1 DEF ReserveOutOfRange, RecordRejection, Answer, ReplyTo, TypeOK, Truthful
<1>2. CASE ReserveHold(m)
  BY <1>2 DEF ReserveHold, Answer, ReplyTo, TypeOK, Truthful
<1>3. CASE ReserveMiss(m) \/ TerminalReject(m) \/ ReserveAbort(m)
  BY <1>3 DEF ReserveMiss, TerminalReject, ReserveAbort
<1>4. CASE ReserveReplay(m)
  BY <1>4 DEF ReserveReplay, RecordedReply, Answer, ReplyTo, ReserveRow, Truthful
<1>5. CASE TerminalReplay(m)
  BY <1>5, AcceptedSettlement DEF TerminalReplay, TerminalReply, Answer, ReplyTo, ledgerVars,
     OperationOf, Truthful
<1>6. CASE Transfer(m)
  BY <1>6, AcceptedSettlement DEF Transfer, TerminalReply, Answer, ReplyTo, TypeOK, Truthful
<1>7. CASE Release(m)
  BY <1>7, AcceptedSettlement DEF Release, TerminalReply, Answer, ReplyTo, TypeOK, Truthful
<1>8. CASE ReserveRefuse(m)
  BY <1>8 DEF ReserveRefuse, RecordRejection, Answer, ReplyTo, TypeOK, Truthful
<1> QED BY <1>1, <1>2, <1>3, <1>4, <1>5, <1>6, <1>7, <1>8 DEF Handler

LEMMA RepliesStep ==
    ASSUME SettledTruth, NEW m \in requests, Handler(m)
    PROVE  RepliesTruthful'
<1>1. ASSUME NEW r \in replies' PROVE Truthful(r)'
  BY OldRepliesStayTrue, NewReplyIsTrue
<1> QED BY <1>1 DEF RepliesTruthful, Truthful

(* The inductive invariant holds initially and every step keeps it.        *)
THEOREM SettledTruthHolds == Spec => []SettledTruth
<1>1. Init => SettledTruth
  <2> SUFFICES ASSUME Init PROVE SettledTruth
    OBVIOUS
  <2>1. TypeOK
    BY InboundAssumption, CreditAssumption, MessageAssumption
    DEF WellFormed, Init, CreditInit, TypeOK, ReserveRow, TerminalRow, NoReservation, NoTerminal
  <2> QED BY <2>1 DEF Init, CreditInit, SettledTruth, SettlementBacked, ClaimsExclusive,
             RepliesTruthful, NoReservation, NoTerminal
<1>2. SettledTruth /\ TypeOK' /\ [Next]_creditVars => SettledTruth'
  <2> SUFFICES ASSUME SettledTruth, TypeOK', [Next]_creditVars PROVE SettledTruth'
    OBVIOUS
  <2>1. ASSUME NEW u \in Users, IssueInitial(u) PROVE SettledTruth'
    BY <2>1 DEF IssueInitial, SettledTruth, SettlementBacked, ClaimsExclusive, RepliesTruthful
  <2>2. ASSUME NEW m \in requests, Handler(m) PROVE SettledTruth'
    BY <2>2, SettlementStep, ClaimsStep, RepliesStep DEF SettledTruth
  <2>3. CASE UNCHANGED creditVars
    BY <2>3 DEF creditVars, ledgerVars, SettledTruth, SettlementBacked, ClaimsExclusive,
       RepliesTruthful
  <2>4. TypeOK
    BY DEF SettledTruth
  <2> QED BY <2>1, <2>2, <2>3, <2>4, StepCases
<1> QED BY <1>1, <1>2, TypeCorrect, PTL DEF Spec

(* Every reply Credit writes agrees with what it recorded, whatever is     *)
(* delivered, however often and in whatever order (writeOutcome,           *)
(* replayOrRejectConflict, replayTransferOrReject, replayReleaseOrReject). *)
THEOREM RepliesAreTruthful == Spec => []RepliesTruthful
BY SettledTruthHolds, PTL DEF SettledTruth

(* Credits leave escrow only from a reservation that succeeded, to a       *)
(* funded student other than the requester (validateReservation, transfer, *)
(* release).                                                               *)
THEOREM SettlementsAreBacked == Spec => []SettlementBacked
BY SettledTruthHolds, PTL DEF SettledTruth

(* An open reservation is alone on its order (the unique key on            *)
(* credit_operations).                                                     *)
THEOREM ClaimsAreExclusive == Spec => []ClaimsExclusive
BY SettledTruthHolds, PTL DEF SettledTruth

-----------------------------------------------------------------------------
(* Refinement: the ledger implements the escrow.                           *)

EscrowView == [o \in Orders |-> EscrowOf(o)]

(* A step that leaves both rows of an order alone leaves its escrow alone. *)
LEMMA SameRows ==
    ASSUME NEW o, reservation'[o] = reservation[o], terminal'[o] = terminal[o]
    PROVE  EscrowOf(o)' = EscrowOf(o)
BY DEF EscrowOf

(* A step that changes the rows of one order changes its escrow only.      *)
LEMMA OneEscrow ==
    ASSUME NEW o \in Orders, NEW e, EscrowOf(o)' = e,
           \A x \in Orders \ {o} : reservation'[x] = reservation[x] /\ terminal'[x] = terminal[x]
    PROVE  EscrowView' = [EscrowView EXCEPT ![o] = e]
<1>1. \A x \in Orders \ {o} : EscrowOf(x)' = EscrowOf(x)
  BY SameRows
<1> QED BY <1>1 DEF EscrowView

(* A refused reservation refuses the escrow.                               *)
LEMMA RefuseStep ==
    ASSUME SettledTruth, NEW m \in requests, reservation[m.order].outcome = "ABSENT",
           NEW reason, NEW balance, RecordRejection(m, reason, balance),
           UNCHANGED <<funded, available, terminal>>
    PROVE  E!Refuse(m.order, m.requester, m.amount)
<1> USE MessageTypes DEF SettledTruth
<1>1. /\ EscrowView[m.order].state = "EMPTY"
      /\ terminal[m.order] = NoTerminal
  BY DEF EscrowView, EscrowOf, SettlementBacked, TypeOK, TerminalRow, NoTerminal
<1>2. reservation'[m.order] = [outcome |-> "REJECTED", requester |-> m.requester,
                                amount |-> m.amount, reason |-> reason, available |-> balance]
  BY DEF RecordRejection, TypeOK
<1>3. EscrowOf(m.order)' = [state |-> "REFUSED", holder |-> m.requester,
                            amount |-> m.amount, payee |-> NoUser]
  BY <1>1, <1>2 DEF EscrowOf, NoTerminal
<1>4. \A x \in Orders \ {m.order} : reservation'[x] = reservation[x] /\ terminal'[x] = terminal[x]
  BY DEF RecordRejection, TypeOK
<1> QED BY <1>1, <1>3, <1>4, OneEscrow DEF E!Refuse, EscrowView

(* A hold holds.                                                           *)
LEMMA HoldStep ==
    ASSUME SettledTruth, NEW m \in requests, ReserveHold(m)
    PROVE  E!Hold(m.order, m.requester, m.amount)
<1> USE MessageTypes DEF SettledTruth
<1>1. /\ EscrowView[m.order].state = "EMPTY"
      /\ terminal[m.order] = NoTerminal
  BY DEF ReserveHold, EscrowView, EscrowOf, SettlementBacked, TypeOK, TerminalRow, NoTerminal
<1>2. /\ reservation'[m.order] = [outcome |-> "SUCCEEDED", requester |-> m.requester,
                                  amount |-> m.amount, reason |-> "NONE", available |-> 0]
      /\ terminal' = terminal
  BY DEF ReserveHold, TypeOK
<1>3. EscrowOf(m.order)' = [state |-> "HELD", holder |-> m.requester,
                            amount |-> m.amount, payee |-> NoUser]
  BY <1>1, <1>2 DEF EscrowOf, NoTerminal
<1>4. \A x \in Orders \ {m.order} : reservation'[x] = reservation[x] /\ terminal'[x] = terminal[x]
  BY DEF ReserveHold, TypeOK
<1> QED BY <1>1, <1>3, <1>4, OneEscrow DEF E!Hold, EscrowView, ReserveHold, Debitable

(* The escrow of an order that is about to be settled.                     *)
LEMMA HeldView ==
    ASSUME SettledTruth, NEW m \in requests, TerminalRefusal(m) = "NONE",
           terminal[m.order].type = "ABSENT"
    PROVE  EscrowView[m.order] = [state |-> "HELD", holder |-> m.requester,
                                  amount |-> m.amount, payee |-> NoUser]
BY MessageTypes, AcceptedSettlement DEF SettledTruth, SettlementBacked, EscrowView, EscrowOf

(* A transfer pays.                                                        *)
LEMMA PayStep ==
    ASSUME SettledTruth, NEW m \in requests, Transfer(m)
    PROVE  m.courier \in Users /\ E!Pay(m.order, m.courier)
<1> USE MessageTypes DEF SettledTruth
<1>1. EscrowView[m.order] = [state |-> "HELD", holder |-> m.requester,
                             amount |-> m.amount, payee |-> NoUser]
  BY HeldView DEF Transfer
<1>2. m.courier \in funded /\ m.courier \in Users /\ m.courier # m.requester
  BY AcceptedSettlement DEF Transfer, TypeOK
<1>3. /\ reservation' = reservation
      /\ terminal'[m.order] = [type |-> "TRANSFER", courier |-> m.courier]
      /\ \A x \in Orders \ {m.order} : terminal'[x] = terminal[x]
  BY DEF Transfer, TypeOK
<1>4. EscrowOf(m.order)' = [state |-> "PAID", holder |-> m.requester,
                            amount |-> m.amount, payee |-> m.courier]
  BY <1>3, AcceptedSettlement DEF EscrowOf, Transfer
<1>5. EscrowView' = [EscrowView EXCEPT ![m.order] =
                        [state |-> "PAID", holder |-> m.requester,
                         amount |-> m.amount, payee |-> m.courier]]
  BY <1>3, <1>4, OneEscrow
<1>6. E!Pay(m.order, m.courier) <=>
         /\ EscrowView[m.order].state = "HELD"
         /\ m.courier \in funded /\ m.courier # EscrowView[m.order].holder
         /\ available' = [available EXCEPT ![m.courier] = @ + EscrowView[m.order].amount]
         /\ EscrowView' = [EscrowView EXCEPT ![m.order] =
               [state |-> "PAID", holder |-> EscrowView[m.order].holder,
                amount |-> EscrowView[m.order].amount, payee |-> m.courier]]
         /\ UNCHANGED funded
  BY Zenon DEF E!Pay, EscrowView
<1> QED BY <1>1, <1>2, <1>5, <1>6 DEF Transfer

(* A release refunds.                                                      *)
LEMMA RefundStep ==
    ASSUME SettledTruth, NEW m \in requests, Release(m)
    PROVE  E!Refund(m.order)
<1> USE MessageTypes DEF SettledTruth
<1>1. EscrowView[m.order] = [state |-> "HELD", holder |-> m.requester,
                             amount |-> m.amount, payee |-> NoUser]
  BY HeldView DEF Release
<1>2. /\ reservation' = reservation
      /\ terminal'[m.order] = [type |-> "RELEASE", courier |-> NoUser]
      /\ \A x \in Orders \ {m.order} : terminal'[x] = terminal[x]
  BY DEF Release, TypeOK
<1>3. EscrowOf(m.order)' = [state |-> "REFUNDED", holder |-> m.requester,
                            amount |-> m.amount, payee |-> NoUser]
  BY <1>2, AcceptedSettlement DEF EscrowOf, Release
<1>4. EscrowView' = [EscrowView EXCEPT ![m.order] =
                        [state |-> "REFUNDED", holder |-> m.requester,
                         amount |-> m.amount, payee |-> NoUser]]
  BY <1>2, <1>3, OneEscrow
<1>5. E!Refund(m.order) <=>
         /\ EscrowView[m.order].state = "HELD"
         /\ available' = [available EXCEPT ![EscrowView[m.order].holder] =
                              @ + EscrowView[m.order].amount]
         /\ EscrowView' = [EscrowView EXCEPT ![m.order] =
               [state |-> "REFUNDED", holder |-> EscrowView[m.order].holder,
                amount |-> EscrowView[m.order].amount, payee |-> NoUser]]
         /\ UNCHANGED funded
  BY Zenon DEF E!Refund, EscrowView
<1> QED BY <1>1, <1>4, <1>5 DEF Release

(* A step that touches neither wallets nor rows is a stutter of the        *)
(* escrow: replays, audit alerts and aborted transactions.                 *)
LEMMA Stutter ==
    ASSUME UNCHANGED <<funded, available, reservation, terminal>>
    PROVE  UNCHANGED E!vars
<1>1. \A o \in Orders : EscrowOf(o)' = EscrowOf(o)
  BY SameRows
<1> QED BY <1>1 DEF E!vars

(* The Credit Service is an escrow: whatever requests arrive, in any order *)
(* and number, each order's credits are held at most once and leave escrow *)
(* at most once (credit.repository.ts as a whole).                         *)
THEOREM ImplementsEscrow == Spec => EscrowSpec
<1>1. Init => E!Init
  BY DEF Init, CreditInit, E!Init, E!Empty, EscrowOf, NoReservation, NoTerminal
<1>2. SettledTruth /\ [Next]_creditVars => [E!Next]_(E!vars)
  <2> SUFFICES ASSUME SettledTruth, [Next]_creditVars PROVE E!Next \/ UNCHANGED E!vars
    OBVIOUS
  <2>0. TypeOK
    BY DEF SettledTruth
  <2>1. ASSUME NEW u \in Users, IssueInitial(u) PROVE E!Next \/ UNCHANGED E!vars
    <3>1. \A o \in Orders : EscrowOf(o)' = EscrowOf(o)
      BY <2>1, SameRows DEF IssueInitial
    <3>2. E!Join(u)
      BY <2>1, <3>1 DEF IssueInitial, Unprovisioned, E!Join
    <3> QED BY <3>2 DEF E!Next
  <2>2. ASSUME NEW m \in requests, Handler(m) PROVE E!Next \/ UNCHANGED E!vars
    <3>0. m.order \in Orders /\ m.requester \in Users /\ m.amount \in Rewards
      BY <2>0, MessageTypes
    <3>1. CASE ReserveOutOfRange(m)
      <4>1. E!Refuse(m.order, m.requester, m.amount)
        BY <3>1, RefuseStep DEF ReserveOutOfRange
      <4> QED BY <3>0, <4>1 DEF E!Next
    <3>2. CASE ReserveRefuse(m)
      <4>1. E!Refuse(m.order, m.requester, m.amount)
        BY <3>2, RefuseStep DEF ReserveRefuse, SettledTruth, ClaimsExclusive
      <4> QED BY <3>0, <4>1 DEF E!Next
    <3>3. CASE ReserveHold(m)
      BY <3>0, <3>3, HoldStep DEF E!Next
    <3>4. CASE Transfer(m)
      BY <3>0, <3>4, PayStep DEF E!Next
    <3>5. CASE Release(m)
      BY <3>0, <3>5, RefundStep DEF E!Next
    <3>6. CASE ReserveMiss(m) \/ ReserveReplay(m) \/ TerminalReject(m) \/ TerminalReplay(m)
               \/ ReserveAbort(m)
      BY <3>6, Stutter DEF ReserveMiss, ReserveReplay, TerminalReject, TerminalReplay,
         ReserveAbort, ledgerVars
    <3> QED BY <2>2, <3>1, <3>2, <3>3, <3>4, <3>5, <3>6 DEF Handler
  <2>3. CASE UNCHANGED creditVars
    BY <2>3, Stutter DEF creditVars, ledgerVars
  <2> QED BY <2>0, <2>1, <2>2, <2>3, StepCases
<1> QED BY <1>1, <1>2, SettledTruthHolds, PTL DEF Spec, EscrowSpec, E!Spec

-----------------------------------------------------------------------------
(* Sums over finite sets.  A smallest counterexample takes the place of    *)
(* induction.                                                              *)

Pick(s) == CHOOSE x \in s : TRUE

(* g adds up f over every subset of S, one picked element at a time.       *)
Adds(g, f, S) ==
    g = [s \in SUBSET S |-> IF s = {} THEN 0 ELSE f[Pick(s)] + g[s \ {Pick(s)}]]

(* A sum is what the one function that adds up f says of S.                *)
LEMMA SumIsChosen ==
    ASSUME NEW f, NEW S
    PROVE  SumFunctionOnSet(f, S) = (CHOOSE g : Adds(g, f, S))[S]
BY Zenon DEF SumFunctionOnSet, FoldFunctionOnSet, MapThenFoldSet, Adds, Pick

(* Among subsets of a finite set there is a smallest one.                  *)
LEMMA SmallestSet ==
    ASSUME NEW S, IsFiniteSet(S), NEW T, T \subseteq SUBSET S, T # {}
    PROVE  \E x \in T : \A y \in T : y \subseteq x => y = x
<1>1. IsWellFoundedOn(StrictSubsetOrdering(S), SUBSET S)
  BY FS_StrictSubsetOrderingWellFounded, FS_FiniteSubsetsOfFinite
<1>2. PICK x \in T : \A y \in T : ~(<<y, x>> \in StrictSubsetOrdering(S))
  BY <1>1, WFMin
<1>3. ASSUME NEW y \in T, y \subseteq x PROVE y = x
  <2>1. y \in SUBSET S /\ x \in SUBSET S
    OBVIOUS
  <2>2. <<y, x>> \notin StrictSubsetOrdering(S)
    BY <1>2
  <2> QED BY <2>1, <2>2, <1>3 DEF StrictSubsetOrdering
<1> QED BY <1>3

(* What is picked from a set is in it.                                     *)
LEMMA PickIn ==
    ASSUME NEW s, s # {}
    PROVE  Pick(s) \in s
BY DEF Pick

(* What Adds says of a subset.                                             *)
LEMMA AddsStep ==
    ASSUME NEW f, NEW S, NEW g, Adds(g, f, S), NEW s \in SUBSET S
    PROVE  g[s] = IF s = {} THEN 0 ELSE f[Pick(s)] + g[s \ {Pick(s)}]
<1> DEFINE G == [t \in SUBSET S |-> IF t = {} THEN 0 ELSE f[Pick(t)] + g[t \ {Pick(t)}]]
<1>1. g = G
  BY DEF Adds
<1>2. G[s] = IF s = {} THEN 0 ELSE f[Pick(s)] + g[s \ {Pick(s)}]
  OBVIOUS
<1> QED BY <1>1, <1>2

(* The same of every subset at once.                                       *)
LEMMA AddsAll ==
    ASSUME NEW f, NEW S, NEW g, Adds(g, f, S)
    PROVE  \A s \in SUBSET S : g[s] = IF s = {} THEN 0 ELSE f[Pick(s)] + g[s \ {Pick(s)}]
BY AddsStep

(* Two functions that add up f agree: a smallest set on which they differ  *)
(* would differ without its picked element too.                            *)
LEMMA AddsUnique ==
    ASSUME NEW f, NEW S, IsFiniteSet(S), NEW g, Adds(g, f, S),
           NEW R, NEW h, Adds(h, f, R), NEW u \in SUBSET S, u \in SUBSET R
    PROVE  g[u] = h[u]
<1>a. \A s \in SUBSET S : g[s] = IF s = {} THEN 0 ELSE f[Pick(s)] + g[s \ {Pick(s)}]
  BY SMTT(60), AddsAll
<1>b. \A s \in SUBSET R : h[s] = IF s = {} THEN 0 ELSE f[Pick(s)] + h[s \ {Pick(s)}]
  BY SMTT(60), AddsAll
<1> DEFINE Bad == {s \in SUBSET S : s \in SUBSET R /\ g[s] # h[s]}
<1> SUFFICES ASSUME Bad # {} PROVE FALSE
  OBVIOUS
<1>1. PICK s \in Bad : \A t \in Bad : t \subseteq s => t = s
  <2>1. Bad \subseteq SUBSET S
    OBVIOUS
  <2> HIDE DEF Bad
  <2> QED BY <2>1, SmallestSet
<1>2. s \in SUBSET S /\ s \in SUBSET R /\ g[s] # h[s]
  OBVIOUS
<1>3. /\ g[s] = IF s = {} THEN 0 ELSE f[Pick(s)] + g[s \ {Pick(s)}]
      /\ h[s] = IF s = {} THEN 0 ELSE f[Pick(s)] + h[s \ {Pick(s)}]
  <2> HIDE DEF Bad
  <2> QED BY <1>a, <1>b, <1>2
<1>4. CASE s = {}
  BY <1>2, <1>3, <1>4
<1>5. CASE s # {}
  <2>1. Pick(s) \in s
    BY <1>5, PickIn
  <2>2. s \ {Pick(s)} \subseteq s /\ s \ {Pick(s)} # s
    BY <2>1
  <2>3. s \ {Pick(s)} \notin Bad
    BY <1>1, <2>2
  <2>4. g[s \ {Pick(s)}] = h[s \ {Pick(s)}]
    BY <1>2, <2>3
  <2> QED BY <1>2, <1>3, <1>5, <2>4
<1> QED BY <1>4, <1>5

(* There is one for every finite set: from a smallest set without one, it  *)
(* is put together of those of its subsets.                                *)
LEMMA AddsExists ==
    ASSUME NEW f, NEW S, IsFiniteSet(S)
    PROVE  \E g : Adds(g, f, S)
<1> DEFINE Bad == {s \in SUBSET S : ~\E g : Adds(g, f, s)}
<1> SUFFICES ASSUME Bad # {} PROVE FALSE
  OBVIOUS
<1>1. PICK T \in Bad : \A t \in Bad : t \subseteq T => t = T
  <2>1. Bad \subseteq SUBSET S
    OBVIOUS
  <2> HIDE DEF Bad
  <2> QED BY <2>1, SmallestSet
<1>2. T \in SUBSET S /\ ~\E g : Adds(g, f, T)
  OBVIOUS
<1> DEFINE own(s) == CHOOSE g : Adds(g, f, s)
<1>3. ASSUME NEW s \in SUBSET T, s # T PROVE Adds(own(s), f, s)
  <2>1. s \notin Bad /\ s \in SUBSET S
    BY <1>1, <1>2, <1>3
  <2>2. \E g : Adds(g, f, s)
    BY <2>1
  <2> QED BY <2>2
<1> DEFINE h == [s \in SUBSET T |->
                    IF s = {} THEN 0 ELSE f[Pick(s)] + own(s \ {Pick(s)})[s \ {Pick(s)}]]
<1>4. ASSUME NEW s \in SUBSET T, s # T PROVE own(s)[s] = h[s]
  <2>1. Adds(own(s), f, s) /\ s \in SUBSET s
    BY <1>3, <1>4
  <2>2. own(s)[s] = IF s = {} THEN 0 ELSE f[Pick(s)] + own(s)[s \ {Pick(s)}]
    <3> HIDE DEF own
    <3> QED BY <2>1, AddsStep
  <2>3. CASE s = {}
    BY <2>2, <2>3
  <2>4. CASE s # {}
    <3> DEFINE r == s \ {Pick(s)}
    <3>1. r \in SUBSET s /\ r \in SUBSET T /\ r # T /\ r \in SUBSET r
      BY <2>4, PickIn, <1>4
    <3>2. Adds(own(r), f, r)
      BY <1>3, <3>1
    <3>3. IsFiniteSet(s)
      BY <1>2, FS_Subset
    <3>4. own(s)[r] = own(r)[r]
      <4> HIDE DEF own, r
      <4> QED BY <2>1, <3>1, <3>2, <3>3, AddsUnique
    <3>5. h[s] = f[Pick(s)] + own(r)[r]
      BY <2>4
    <3> HIDE DEF own, h
    <3> QED BY <2>2, <2>4, <3>4, <3>5
  <2> QED BY <2>3, <2>4
<1>5. Adds(h, f, T)
  <2>1. ASSUME NEW s \in SUBSET T
        PROVE  h[s] = IF s = {} THEN 0 ELSE f[Pick(s)] + h[s \ {Pick(s)}]
    <3>1. CASE s = {}
      BY <3>1
    <3>2. CASE s # {}
      <4>1. s \ {Pick(s)} \in SUBSET T /\ s \ {Pick(s)} # T
        BY <3>2, PickIn
      <4>2. own(s \ {Pick(s)})[s \ {Pick(s)}] = h[s \ {Pick(s)}]
        BY <4>1, <1>4
      <4>3. h[s] = f[Pick(s)] + own(s \ {Pick(s)})[s \ {Pick(s)}]
        BY <3>2
      <4> HIDE DEF own, h
      <4> QED BY <4>2, <4>3, <3>2
    <3> QED BY <3>1, <3>2
  <2>2. h = [s \in SUBSET T |-> h[s]]
    OBVIOUS
  <2>3. [s \in SUBSET T |-> h[s]] =
           [s \in SUBSET T |-> IF s = {} THEN 0 ELSE f[Pick(s)] + h[s \ {Pick(s)}]]
    <3> HIDE DEF h
    <3> QED BY <2>1
  <2> HIDE DEF h
  <2> QED BY <2>2, <2>3 DEF Adds
<1> QED BY <1>2, <1>5

-----------------------------------------------------------------------------
Sum(f, S) == SumFunctionOnSet(f, S)

(* The recursion that SumFunctionOnSet stands for.                         *)
LEMMA SumStep ==
    ASSUME NEW f, NEW S, IsFiniteSet(S)
    PROVE  Sum(f, S) = IF S = {} THEN 0 ELSE f[Pick(S)] + Sum(f, S \ {Pick(S)})
<1> DEFINE own(s) == CHOOSE g : Adds(g, f, s)
           R == S \ {Pick(S)}
<1>1. IsFiniteSet(R)
  BY FS_Subset
<1>2. Adds(own(S), f, S) /\ Adds(own(R), f, R)
  <2>1. (\E g : Adds(g, f, S)) /\ (\E g : Adds(g, f, R))
    <3> HIDE DEF R
    <3> QED BY <1>1, AddsExists
  <2> HIDE DEF R
  <2> QED BY <2>1
<1>3. Sum(f, S) = own(S)[S] /\ Sum(f, R) = own(R)[R]
  BY SumIsChosen DEF Sum
<1>4. own(S)[S] = IF S = {} THEN 0 ELSE f[Pick(S)] + own(S)[R]
  <2>1. S \in SUBSET S
    OBVIOUS
  <2> HIDE DEF own
  <2> QED BY <1>2, <2>1, AddsStep
<1>5. own(S)[R] = own(R)[R]
  <2>1. R \in SUBSET S /\ R \in SUBSET R
    OBVIOUS
  <2> HIDE DEF own, R
  <2> QED BY <1>2, <2>1, AddsUnique
<1> HIDE DEF own
<1> QED BY <1>3, <1>4, <1>5

(* Sums of integers are integers.                                          *)
LEMMA SumType ==
    ASSUME NEW f, NEW S, IsFiniteSet(S), \A x \in S : f[x] \in Int
    PROVE  Sum(f, S) \in Int
<1> DEFINE Bad == {s \in SUBSET S : Sum(f, s) \notin Int}
<1> SUFFICES ASSUME Bad # {} PROVE FALSE
  OBVIOUS
<1>1. PICK s \in Bad : \A t \in Bad : t \subseteq s => t = s
  <2>1. Bad \subseteq SUBSET S
    OBVIOUS
  <2> HIDE DEF Bad
  <2> QED BY <2>1, SmallestSet
<1>2. s \in SUBSET S /\ Sum(f, s) \notin Int
  OBVIOUS
<1>3. IsFiniteSet(s)
  BY <1>2, FS_Subset
<1>4. Sum(f, s) = IF s = {} THEN 0 ELSE f[Pick(s)] + Sum(f, s \ {Pick(s)})
  BY <1>3, SumStep
<1>5. s # {}
  BY <1>2, <1>4
<1>6. Pick(s) \in s
  BY <1>5, PickIn
<1>7. s \ {Pick(s)} \notin Bad /\ s \ {Pick(s)} \in SUBSET S
  BY <1>1, <1>2, <1>6
<1>8. Sum(f, s \ {Pick(s)}) \in Int
  BY <1>7
<1>9. f[Pick(s)] \in Int
  BY <1>2, <1>6
<1> QED BY <1>2, <1>4, <1>5, <1>8, <1>9

(* Any element may be taken out first.                                     *)
LEMMA SumRemove ==
    ASSUME NEW f, NEW S, IsFiniteSet(S), \A x \in S : f[x] \in Int, NEW x \in S
    PROVE  Sum(f, S) = f[x] + Sum(f, S \ {x})
<1> DEFINE Bad == {s \in SUBSET S : \E y \in s : Sum(f, s) # f[y] + Sum(f, s \ {y})}
<1> SUFFICES ASSUME Bad # {} PROVE FALSE
  OBVIOUS
<1>1. PICK s \in Bad : \A t \in Bad : t \subseteq s => t = s
  <2>1. Bad \subseteq SUBSET S
    OBVIOUS
  <2> HIDE DEF Bad
  <2> QED BY <2>1, SmallestSet
<1>2. PICK y \in s : Sum(f, s) # f[y] + Sum(f, s \ {y})
  OBVIOUS
<1>3. s \in SUBSET S
  OBVIOUS
<1> DEFINE p == Pick(s)
<1>4. IsFiniteSet(s)
  BY <1>3, FS_Subset
<1>5. p \in s /\ Sum(f, s) = f[p] + Sum(f, s \ {p})
  <2>1. s # {}
    BY <1>2
  <2> QED BY <2>1, <1>4, SumStep, PickIn
<1>6. p # y
  BY <1>2, <1>5
<1>7. /\ s \ {p} \notin Bad /\ s \ {p} \in SUBSET S /\ y \in s \ {p}
      /\ s \ {y} \notin Bad /\ s \ {y} \in SUBSET S /\ p \in s \ {y}
  BY <1>1, <1>2, <1>3, <1>5, <1>6
<1>8. /\ Sum(f, s \ {p}) = f[y] + Sum(f, (s \ {p}) \ {y})
      /\ Sum(f, s \ {y}) = f[p] + Sum(f, (s \ {y}) \ {p})
  BY <1>7
<1>9. Sum(f, (s \ {p}) \ {y}) = Sum(f, (s \ {y}) \ {p})
  <2>1. (s \ {p}) \ {y} = (s \ {y}) \ {p}
    OBVIOUS
  <2> QED BY ONLY <2>1, Zenon
<1>10. Sum(f, (s \ {y}) \ {p}) \in Int
  <2> DEFINE r == (s \ {y}) \ {p}
  <2>1. r \subseteq S /\ IsFiniteSet(r)
    BY <1>3, <1>4, FS_Subset
  <2>2. \A z \in r : f[z] \in Int
    BY <2>1
  <2>3. Sum(f, r) \in Int
    <3> HIDE DEF r
    <3> QED BY <2>1, <2>2, SumType
  <2> QED BY <2>3
<1>11. f[p] \in Int /\ f[y] \in Int
  BY <1>2, <1>3, <1>5
<1> DEFINE rest == Sum(f, (s \ {y}) \ {p})
           withP == Sum(f, s \ {y})
           withY == Sum(f, s \ {p})
<1>12. /\ Sum(f, s) = f[p] + withY /\ withY = f[y] + rest
       /\ withP = f[p] + rest /\ rest \in Int
  BY <1>5, <1>8, <1>9, <1>10
<1>13. Sum(f, s) # f[y] + withP
  BY <1>2
<1> HIDE DEF Bad, p, rest, withP, withY
<1> QED BY <1>11, <1>12, <1>13

(* A sum depends only on the values it adds.                               *)
LEMMA SumSame ==
    ASSUME NEW f, NEW g, NEW S, IsFiniteSet(S), \A x \in S : f[x] = g[x]
    PROVE  Sum(f, S) = Sum(g, S)
<1> DEFINE Bad == {s \in SUBSET S : Sum(f, s) # Sum(g, s)}
<1> SUFFICES ASSUME Bad # {} PROVE FALSE
  OBVIOUS
<1>1. PICK s \in Bad : \A t \in Bad : t \subseteq s => t = s
  <2>1. Bad \subseteq SUBSET S
    OBVIOUS
  <2> HIDE DEF Bad
  <2> QED BY <2>1, SmallestSet
<1>2. s \in SUBSET S /\ Sum(f, s) # Sum(g, s)
  OBVIOUS
<1>3. IsFiniteSet(s)
  BY <1>2, FS_Subset
<1>4. /\ Sum(f, s) = IF s = {} THEN 0 ELSE f[Pick(s)] + Sum(f, s \ {Pick(s)})
      /\ Sum(g, s) = IF s = {} THEN 0 ELSE g[Pick(s)] + Sum(g, s \ {Pick(s)})
  BY <1>3, SumStep
<1>5. s # {}
  BY <1>2, <1>4
<1>6. Pick(s) \in s
  BY <1>5, PickIn
<1>7. s \ {Pick(s)} \notin Bad /\ s \ {Pick(s)} \in SUBSET S
  BY <1>1, <1>2, <1>6
<1>8. Sum(f, s \ {Pick(s)}) = Sum(g, s \ {Pick(s)})
  BY <1>7
<1>9. f[Pick(s)] = g[Pick(s)]
  BY <1>2, <1>6
<1> QED BY <1>2, <1>4, <1>5, <1>8, <1>9

(* Zeros add up to zero.                                                   *)
LEMMA SumOfZeros ==
    ASSUME NEW S, IsFiniteSet(S)
    PROVE  \A f : (\A x \in S : f[x] = 0) => Sum(f, S) = 0
<1> SUFFICES ASSUME NEW f, \A x \in S : f[x] = 0 PROVE Sum(f, S) = 0
  OBVIOUS
<1> DEFINE Bad == {s \in SUBSET S : Sum(f, s) # 0}
<1> SUFFICES ASSUME Bad # {} PROVE FALSE
  OBVIOUS
<1>1. PICK s \in Bad : \A t \in Bad : t \subseteq s => t = s
  <2>1. Bad \subseteq SUBSET S
    OBVIOUS
  <2> HIDE DEF Bad
  <2> QED BY <2>1, SmallestSet
<1>2. s \in SUBSET S /\ Sum(f, s) # 0
  OBVIOUS
<1>3. IsFiniteSet(s)
  BY <1>2, FS_Subset
<1>4. Sum(f, s) = IF s = {} THEN 0 ELSE f[Pick(s)] + Sum(f, s \ {Pick(s)})
  BY <1>3, SumStep
<1>5. s # {}
  BY <1>2, <1>4
<1>6. Pick(s) \in s
  BY <1>5, PickIn
<1>7. s \ {Pick(s)} \notin Bad /\ s \ {Pick(s)} \in SUBSET S
  BY <1>1, <1>2, <1>6
<1>8. Sum(f, s \ {Pick(s)}) = 0
  BY <1>7
<1>9. f[Pick(s)] = 0
  BY <1>2, <1>6
<1> QED BY <1>2, <1>4, <1>5, <1>8, <1>9

(* One more element adds its value.                                        *)
LEMMA SumAdd ==
    ASSUME NEW f, NEW g, NEW S, IsFiniteSet(S), \A y \in S : f[y] \in Int,
           NEW x, x \notin S, g[x] \in Int, \A y \in S : g[y] = f[y]
    PROVE  Sum(g, S \cup {x}) = Sum(f, S) + g[x]
<1>1. IsFiniteSet(S \cup {x}) /\ \A y \in S \cup {x} : g[y] \in Int
  BY FS_AddElement
<1>2. Sum(g, S \cup {x}) = g[x] + Sum(g, (S \cup {x}) \ {x})
  <2> DEFINE T == S \cup {x}
  <2>1. x \in T
    OBVIOUS
  <2> HIDE DEF T
  <2> QED BY <1>1, <2>1, SumRemove DEF T
<1>3. Sum(g, (S \cup {x}) \ {x}) = Sum(g, S)
  <2>1. (S \cup {x}) \ {x} = S
    OBVIOUS
  <2> QED BY ONLY <2>1, Zenon
<1>4. Sum(g, S) = Sum(f, S)
  BY SumSame
<1>5. Sum(f, S) \in Int
  BY SumType
<1> QED BY <1>2, <1>3, <1>4, <1>5

(* A change of one value changes the sum by as much.                       *)
LEMMA SumChange ==
    ASSUME NEW f, NEW g, NEW S, IsFiniteSet(S), \A y \in S : f[y] \in Int,
           NEW x \in S, g[x] \in Int, \A y \in S \ {x} : g[y] = f[y]
    PROVE  Sum(g, S) = Sum(f, S) - f[x] + g[x]
<1>1. \A y \in S : g[y] \in Int
  OBVIOUS
<1>2. Sum(g, S) = g[x] + Sum(g, S \ {x}) /\ Sum(f, S) = f[x] + Sum(f, S \ {x})
  BY <1>1, SumRemove
<1>3. IsFiniteSet(S \ {x})
  BY FS_Subset
<1>4. Sum(g, S \ {x}) = Sum(f, S \ {x})
  BY <1>3, SumSame
<1>5. Sum(f, S \ {x}) \in Int
  BY <1>3, SumType
<1> QED BY <1>2, <1>4, <1>5

-----------------------------------------------------------------------------
(* The books.  What makes BooksBalance inductive: an entry is in the       *)
(* journal only for something recorded, so the one a handler writes is     *)
(* new; and a wallet that does not exist holds nothing, so issuing the     *)
(* allocation overwrites nothing.                                          *)
JournalFits ==
    /\ IsFiniteSet(journal)
    /\ \A t \in journal :
        /\ t.amount \in Nat
        /\ \/ t.type = "ISSUE" /\ t.creditUser \in funded
           \/ t.type = "RESERVE" /\ t.order \in Orders /\ reservation[t.order].outcome = "SUCCEEDED"
           \/ t.type \in {"TRANSFER", "RELEASE"} /\ t.order \in Orders /\ terminal[t.order].type = t.type

UnfundedEmpty == \A u \in Users \ funded : available[u] = 0

BooksInv == SettledTruth /\ JournalFits /\ UnfundedEmpty /\ BooksBalance

(* What is summed.                                                         *)
HeldOf(u) == [o \in Orders |-> IF reservation[o].requester = u THEN Held(o) ELSE 0]
Postings(u, account) == [t \in journal |-> Posting(t, u, account)]
Issues == [t \in journal |-> IF t.type = "ISSUE" THEN t.amount ELSE 0]
Wallets == [u \in Users |-> available[u] + reserved[u]]

LEMMA SumsOfBooks ==
    ASSUME NEW u, NEW account
    PROVE  /\ HeldFor(u) = Sum(HeldOf(u), Orders) /\ HeldFor(u)' = Sum(HeldOf(u)', Orders)
           /\ LedgerBalance(u, account) = Sum(Postings(u, account), journal)
           /\ LedgerBalance(u, account)' = Sum(Postings(u, account)', journal')
           /\ Issued = Sum(Issues, journal) /\ Issued' = Sum(Issues', journal')
BY DEF HeldFor, LedgerBalance, Issued, HeldOf, Postings, Issues, SumFunction, Sum

(* A step that changes the rows of one order.                              *)
LEMMA HeldChange ==
    ASSUME TypeOK, TypeOK', NEW o \in Orders, NEW u \in Users,
           \A x \in Orders \ {o} : reservation'[x] = reservation[x] /\ terminal'[x] = terminal[x]
    PROVE  HeldFor(u)' = HeldFor(u) - HeldOf(u)[o] + HeldOf(u)'[o]
<1> DEFINE f == HeldOf(u)
           g == HeldOf(u)'
<1>1. \A x \in Orders : f[x] \in Int
  BY DEF HeldOf, Held, TypeOK, ReserveRow
<1>2. \A x \in Orders : g[x] \in Int
  BY DEF HeldOf, Held, TypeOK, ReserveRow
<1>3. \A x \in Orders \ {o} : g[x] = f[x]
  BY DEF HeldOf, Held
<1>4. Sum(g, Orders) = Sum(f, Orders) - f[o] + g[o]
  <2> HIDE DEF f, g
  <2> QED BY <1>1, <1>2, <1>3, TablesAssumption, SumChange
<1> QED BY <1>4, SumsOfBooks

(* A step that writes a new entry.                                         *)
LEMMA Posted ==
    ASSUME JournalFits, NEW e, e \notin journal, e.amount \in Nat, journal' = journal \cup {e}
    PROVE  /\ \A u, account : LedgerBalance(u, account)' = LedgerBalance(u, account) + Posting(e, u, account)
           /\ Issued' = Issued + (IF e.type = "ISSUE" THEN e.amount ELSE 0)
<1>1. ASSUME NEW u, NEW account
      PROVE  LedgerBalance(u, account)' = LedgerBalance(u, account) + Posting(e, u, account)
  <2> DEFINE f == Postings(u, account)
             g == Postings(u, account)'
  <2>1. \A t \in journal : f[t] \in Int
    BY DEF Postings, Posting, JournalFits
  <2>2. g[e] = Posting(e, u, account) /\ g[e] \in Int
    BY DEF Postings, Posting
  <2>3. \A t \in journal : g[t] = f[t]
    BY DEF Postings
  <2>4. Sum(g, journal \cup {e}) = Sum(f, journal) + g[e]
    <3> HIDE DEF f, g
    <3> QED BY <2>1, <2>2, <2>3, SumAdd DEF JournalFits
  <2> QED BY <2>2, <2>4, SumsOfBooks
<1>2. Issued' = Issued + (IF e.type = "ISSUE" THEN e.amount ELSE 0)
  <2> DEFINE f == Issues
             g == Issues'
  <2>1. \A t \in journal : f[t] \in Int
    BY DEF Issues, JournalFits
  <2>2. g[e] = (IF e.type = "ISSUE" THEN e.amount ELSE 0) /\ g[e] \in Int
    BY DEF Issues
  <2>3. \A t \in journal : g[t] = f[t]
    BY DEF Issues
  <2>4. Sum(g, journal \cup {e}) = Sum(f, journal) + g[e]
    <3> HIDE DEF f, g
    <3> QED BY <2>1, <2>2, <2>3, SumAdd DEF JournalFits
  <2> QED BY <2>2, <2>4, SumsOfBooks
<1> QED BY <1>1, <1>2

(* A step that changes one wallet.                                         *)
LEMMA WalletChange ==
    ASSUME NEW f \in [Users -> Int], NEW g \in [Users -> Int], NEW u \in Users,
           \A v \in Users \ {u} : g[v] = f[v]
    PROVE  SumFunction(g) = SumFunction(f) - f[u] + g[u]
<1>1. SumFunction(f) = Sum(f, Users) /\ SumFunction(g) = Sum(g, Users)
  BY DEF SumFunction, Sum
<1>2. \A v \in Users : f[v] \in Int /\ g[v] \in Int
  OBVIOUS
<1> QED BY <1>1, <1>2, TablesAssumption, SumChange

(* Replays, refusals and audit alerts write no entry and hold nothing.     *)
LEMMA QuietBooks ==
    ASSUME BooksInv, UNCHANGED <<funded, available, reserved, journal>>,
           \A o \in Orders : \/ reservation'[o] = reservation[o] /\ terminal'[o] = terminal[o]
                             \/ /\ reservation[o].outcome = "ABSENT" /\ terminal' = terminal
                                /\ reservation'[o].outcome = "REJECTED"
    PROVE  JournalFits' /\ UnfundedEmpty' /\ BooksBalance'
<1>1. \A u : HeldFor(u)' = HeldFor(u)
  <2>1. \A u : HeldOf(u)' = HeldOf(u)
    BY DEF HeldOf, Held
  <2> QED BY <2>1, SumsOfBooks
<1>2. /\ \A u, account : LedgerBalance(u, account)' = LedgerBalance(u, account)
      /\ Issued' = Issued
  BY DEF LedgerBalance, Issued
<1>3. BooksBalance'
  BY <1>1, <1>2 DEF BooksInv, BooksBalance, ReservedBacked, WalletMatchesLedger, CreditsConserved
<1>4. JournalFits'
  <2>0. TypeOK /\ SettlementBacked /\ JournalFits
    BY DEF BooksInv, SettledTruth
  <2>1. ASSUME NEW t \in journal, t.order \in Orders, reservation[t.order].outcome = "SUCCEEDED"
        PROVE  reservation'[t.order] = reservation[t.order] /\ terminal'[t.order] = terminal[t.order]
    BY <2>1
  <2> QED BY <2>0, <2>1 DEF JournalFits, SettlementBacked
<1>5. UnfundedEmpty'
  BY DEF BooksInv, UnfundedEmpty
<1> QED BY <1>3, <1>4, <1>5

(* A new wallet: its allocation is issued.                                 *)
LEMMA IssueBooks ==
    ASSUME BooksInv, TypeOK', NEW u \in Users, IssueInitial(u)
    PROVE  JournalFits' /\ UnfundedEmpty' /\ BooksBalance'
<1> USE CreditAssumption, MessageAssumption
<1> DEFINE e == Entry("ISSUE", "NO_ORDER", NoUser, "PLATFORM_ISSUANCE", u, "AVAILABLE", InitialAllocation)
<1>0. TypeOK /\ JournalFits /\ UnfundedEmpty /\ BooksBalance
  BY DEF BooksInv, SettledTruth
<1>1. u \notin funded /\ available[u] = 0
  BY <1>0 DEF IssueInitial, Unprovisioned, UnfundedEmpty
<1>2. e \notin journal /\ e.amount = InitialAllocation /\ e.type = "ISSUE" /\ e.creditUser = u
  BY <1>0, <1>1 DEF Entry, JournalFits
<1>3. journal' = journal \cup {e}
  BY DEF IssueInitial
<1>4. \A v \in Users, a \in {"AVAILABLE", "RESERVED"} :
        Posting(e, v, a) = IF v = u /\ a = "AVAILABLE" THEN InitialAllocation ELSE 0
  BY DEF Posting, Entry
<1>5. /\ \A v, a : LedgerBalance(v, a)' = LedgerBalance(v, a) + Posting(e, v, a)
      /\ Issued' = Issued + InitialAllocation
  <2> HIDE DEF e
  <2> QED BY <1>0, <1>2, <1>3, Posted
<1>6. JournalFits'
  <2>1. IsFiniteSet(journal')
    BY <1>0, <1>3, FS_AddElement DEF JournalFits
  <2>2. reservation' = reservation /\ terminal' = terminal /\ funded' = funded \cup {u}
    BY DEF IssueInitial
  <2> HIDE DEF e
  <2> QED BY <1>0, <1>2, <1>3, <2>1, <2>2 DEF JournalFits
<1>7. UnfundedEmpty'
  BY <1>0 DEF UnfundedEmpty, IssueInitial, TypeOK
<1>8. ReservedBacked'
  <2>1. \A v : HeldFor(v)' = HeldFor(v)
    BY DEF HeldFor, Held, IssueInitial
  <2> QED BY <1>0, <2>1 DEF BooksBalance, ReservedBacked, IssueInitial
<1>9. WalletMatchesLedger'
  <2>1. ASSUME NEW v \in Users PROVE available'[v] = available[v] + Posting(e, v, "AVAILABLE")
    BY <1>0, <1>1, <1>4 DEF IssueInitial, TypeOK
  <2>2. ASSUME NEW v \in Users PROVE reserved'[v] = reserved[v] + Posting(e, v, "RESERVED")
    BY <1>0, <1>4 DEF IssueInitial, TypeOK
  <2> HIDE DEF e
  <2> QED BY <1>0, <1>5, <2>1, <2>2 DEF BooksBalance, WalletMatchesLedger
<1>10. CreditsConserved'
  <2> DEFINE f == [v \in Users |-> available[v] + reserved[v]]
             g == [v \in Users |-> available'[v] + reserved'[v]]
  <2>1. f \in [Users -> Int] /\ g \in [Users -> Int]
    BY <1>0 DEF TypeOK
  <2>2. /\ \A v \in Users \ {u} : g[v] = f[v]
        /\ g[u] = f[u] + InitialAllocation
    BY <1>0, <1>1 DEF IssueInitial, TypeOK
  <2>3. SumFunction(g) = SumFunction(f) + InitialAllocation
    <3> HIDE DEF f, g
    <3>1. SumFunction(g) = SumFunction(f) - f[u] + g[u]
      BY <2>1, <2>2, WalletChange
    <3>2. SumFunction(f) \in Int
      <4>1. SumFunction(f) = Sum(f, Users)
        BY <2>1 DEF SumFunction, Sum
      <4> QED BY <2>1, <4>1, SumType, TablesAssumption
    <3>3. f[u] \in Int
      BY <2>1
    <3> QED BY <2>2, <3>1, <3>2, <3>3
  <2>4. IsFiniteSet(funded) /\ Cardinality(funded) \in Nat /\ Cardinality(funded') = Cardinality(funded) + 1
    BY <1>0, <1>1, TablesAssumption, FS_Subset, FS_AddElement, FS_CardinalityType DEF IssueInitial, TypeOK
  <2>5. InitialAllocation * (Cardinality(funded) + 1) = InitialAllocation * Cardinality(funded) + InitialAllocation
    BY <2>4
  <2>6. SumFunction(f) = Issued /\ Issued = InitialAllocation * Cardinality(funded)
    BY <1>0 DEF BooksBalance, CreditsConserved
  <2>7. Issued' = InitialAllocation * Cardinality(funded')
    BY <1>5, <2>4, <2>5, <2>6
  <2>8. SumFunction(g) = Issued'
    <3> HIDE DEF f, g
    <3> QED BY <1>5, <2>3, <2>6
  <2> QED BY <2>7, <2>8 DEF CreditsConserved
<1> QED BY <1>6, <1>7, <1>8, <1>9, <1>10 DEF BooksBalance

(* An entry between two accounts of students, with the wallets and the     *)
(* escrow of its order moved alike, keeps the books.                       *)
LEMMA EntryKeepsBooks ==
    ASSUME BooksInv, TypeOK', NEW o \in Orders, NEW e, e \notin journal, e.amount \in Nat, e.type # "ISSUE",
           journal' = journal \cup {e}, funded' = funded,
           e.debitUser \in Users, e.creditUser \in Users,
           e.debitAccount \in {"AVAILABLE", "RESERVED"}, e.creditAccount \in {"AVAILABLE", "RESERVED"},
           \A x \in Orders \ {o} : reservation'[x] = reservation[x] /\ terminal'[x] = terminal[x],
           \A v \in Users : /\ available'[v] = available[v] + Posting(e, v, "AVAILABLE")
                            /\ reserved'[v] = reserved[v] + Posting(e, v, "RESERVED")
                            /\ HeldOf(v)'[o] = HeldOf(v)[o] + Posting(e, v, "RESERVED")
    PROVE  BooksBalance'
<1>0. TypeOK /\ JournalFits /\ BooksBalance
  BY DEF BooksInv, SettledTruth
<1>1. /\ \A v, a : LedgerBalance(v, a)' = LedgerBalance(v, a) + Posting(e, v, a)
      /\ Issued' = Issued + 0
  BY <1>0, Posted
<1>2. WalletMatchesLedger'
  BY <1>0, <1>1 DEF BooksBalance, WalletMatchesLedger
<1>3. ReservedBacked'
  <2>1. ASSUME NEW v \in Users PROVE reserved'[v] = HeldFor(v)'
    <3>1. HeldFor(v)' = HeldFor(v) - HeldOf(v)[o] + HeldOf(v)'[o]
      BY <1>0, HeldChange
    <3>2. HeldOf(v)[o] \in Int /\ Posting(e, v, "RESERVED") \in Int
      BY <1>0 DEF HeldOf, Held, TypeOK, ReserveRow, Posting
    <3>3. HeldFor(v) = reserved[v] /\ reserved[v] \in Nat
      BY <1>0 DEF BooksBalance, ReservedBacked, TypeOK
    <3>4. /\ HeldOf(v)'[o] = HeldOf(v)[o] + Posting(e, v, "RESERVED")
          /\ reserved'[v] = reserved[v] + Posting(e, v, "RESERVED")
      OBVIOUS
    <3> QED BY <3>1, <3>2, <3>3, <3>4
  <2> QED BY <2>1 DEF ReservedBacked
<1>4. CreditsConserved'
  <2> DEFINE f == [v \in Users |-> available[v] + reserved[v]]
             g == [v \in Users |-> available'[v] + reserved'[v]]
             n == e.amount
             d == e.debitUser
             c == e.creditUser
             h == [f EXCEPT ![d] = f[d] - n]
  <2>1. f \in [Users -> Int] /\ g \in [Users -> Int] /\ n \in Int /\ d \in Users /\ c \in Users
    BY <1>0 DEF TypeOK
  <2>2. \A v \in Users : Posting(e, v, "AVAILABLE") + Posting(e, v, "RESERVED") =
                            (IF v = c THEN n ELSE 0) - (IF v = d THEN n ELSE 0)
    BY DEF Posting
  <2>3. \A v \in Users : g[v] = f[v] + ((IF v = c THEN n ELSE 0) - (IF v = d THEN n ELSE 0))
    <3>1. ASSUME NEW v \in Users
          PROVE  g[v] = f[v] + ((IF v = c THEN n ELSE 0) - (IF v = d THEN n ELSE 0))
      <4>1. Posting(e, v, "AVAILABLE") \in Int /\ Posting(e, v, "RESERVED") \in Int
        BY DEF Posting
      <4>2. available[v] \in Int /\ reserved[v] \in Int
        BY <1>0 DEF TypeOK
      <4>3. /\ f[v] = available[v] + reserved[v]
            /\ g[v] = (available[v] + Posting(e, v, "AVAILABLE")) + (reserved[v] + Posting(e, v, "RESERVED"))
        OBVIOUS
      <4>4. g[v] = f[v] + (Posting(e, v, "AVAILABLE") + Posting(e, v, "RESERVED"))
        BY <4>1, <4>2, <4>3
      <4> QED BY <2>2, <4>4
    <3> QED BY <3>1
  <2> HIDE DEF f, g, n, d, c
  <2>4. SumFunction(f) \in Int
    <3>1. SumFunction(f) = Sum(f, Users)
      BY <2>1 DEF SumFunction, Sum
    <3> QED BY <2>1, <3>1, SumType, TablesAssumption
  <2>5. SumFunction(g) = SumFunction(f)
    <3>1. CASE c = d
      <4>1. \A v \in Users : g[v] = f[v]
        BY <2>1, <2>3, <3>1
      <4>2. g = f
        BY <2>1, <4>1
      <4> QED BY <4>2
    <3>2. CASE c # d
      <4>1. h \in [Users -> Int] /\ h[d] = f[d] - n /\ \A v \in Users \ {d} : h[v] = f[v]
        BY <2>1
      <4> HIDE DEF h
      <4>2. SumFunction(h) = SumFunction(f) - f[d] + h[d]
        BY <2>1, <4>1, WalletChange
      <4>3. g[c] = h[c] + n /\ \A v \in Users \ {c} : g[v] = h[v]
        <5>1. g[c] = h[c] + n
          <6>1. g[c] = f[c] + (n - 0) /\ h[c] = f[c] /\ f[c] \in Int
            BY <2>1, <2>3, <3>2, <4>1
          <6> QED BY <2>1, <6>1
        <5>2. ASSUME NEW v \in Users \ {c} PROVE g[v] = h[v]
          <6>1. g[v] = f[v] + (0 - (IF v = d THEN n ELSE 0)) /\ f[v] \in Int
            BY <2>1, <2>3, <5>2
          <6> QED BY <2>1, <4>1, <6>1
        <5> QED BY <5>1, <5>2
      <4>4. SumFunction(g) = SumFunction(h) - h[c] + g[c]
        BY <2>1, <4>1, <4>3, WalletChange
      <4>5. f[d] \in Int /\ h[c] \in Int /\ h[d] \in Int
        BY <2>1, <4>1
      <4>6. SumFunction(h) = SumFunction(f) - n
        BY <2>1, <2>4, <4>1, <4>2, <4>5
      <4> QED BY <2>1, <2>4, <4>3, <4>4, <4>5, <4>6
    <3> QED BY <3>1, <3>2
  <2>6. SumFunction(f) = Issued /\ Issued = InitialAllocation * Cardinality(funded)
    BY <1>0 DEF BooksBalance, CreditsConserved, f
  <2>7. Issued' = Issued
    BY <1>1, <2>4, <2>6
  <2> QED BY <2>5, <2>6, <2>7 DEF CreditsConserved, g
<1> QED BY <1>2, <1>3, <1>4 DEF BooksBalance

(* A hold moves the amount from available to reserved.                     *)
LEMMA HoldBooks ==
    ASSUME BooksInv, TypeOK', NEW m \in requests, ReserveHold(m)
    PROVE  JournalFits' /\ UnfundedEmpty' /\ BooksBalance'
<1> DEFINE e == Entry("RESERVE", m.order, m.requester, "AVAILABLE", m.requester, "RESERVED", m.amount)
<1>0. TypeOK /\ SettlementBacked /\ JournalFits /\ UnfundedEmpty
  BY DEF BooksInv, SettledTruth
<1>1. m.order \in Orders /\ m.requester \in Users /\ m.amount \in Nat
  BY <1>0, MessageTypes
<1>2. /\ reservation[m.order].outcome = "ABSENT" /\ terminal[m.order].type = "ABSENT"
      /\ terminal' = terminal /\ funded' = funded /\ journal' = journal \cup {e} /\ m.requester \in funded
      /\ reservation'[m.order] = [outcome |-> "SUCCEEDED", requester |-> m.requester, amount |-> m.amount,
                                  reason |-> "NONE", available |-> 0]
      /\ \A x \in Orders \ {m.order} : reservation'[x] = reservation[x]
  BY <1>0, <1>1 DEF ReserveHold, Debitable, SettlementBacked, TypeOK
<1>3. /\ e.type = "RESERVE" /\ e.order = m.order /\ e.amount = m.amount
      /\ e.debitUser = m.requester /\ e.creditUser = m.requester
      /\ e.debitAccount = "AVAILABLE" /\ e.creditAccount = "RESERVED"
  BY DEF Entry
<1>4. e \notin journal
  BY <1>0, <1>2, <1>3 DEF JournalFits
<1>5. \A v \in Users : /\ Posting(e, v, "AVAILABLE") = IF v = m.requester THEN -m.amount ELSE 0
                       /\ Posting(e, v, "RESERVED") = IF v = m.requester THEN m.amount ELSE 0
  BY <1>1, <1>3 DEF Posting
<1>6. \A v \in Users : /\ available'[v] = available[v] + Posting(e, v, "AVAILABLE")
                       /\ reserved'[v] = reserved[v] + Posting(e, v, "RESERVED")
  BY <1>0, <1>1, <1>5 DEF ReserveHold, TypeOK
<1>7. \A v \in Users : HeldOf(v)'[m.order] = HeldOf(v)[m.order] + Posting(e, v, "RESERVED")
  <2>1. \A v \in Users : /\ HeldOf(v)[m.order] = 0
                         /\ HeldOf(v)'[m.order] = IF v = m.requester THEN m.amount ELSE 0
    BY <1>1, <1>2 DEF HeldOf, Held
  <2> QED BY <1>1, <1>5, <2>1
<1> HIDE DEF e
<1>8. BooksBalance'
  BY <1>1, <1>2, <1>3, <1>4, <1>6, <1>7, EntryKeepsBooks
<1>9. JournalFits'
  <2>1. IsFiniteSet(journal')
    BY <1>0, <1>2, FS_AddElement DEF JournalFits
  <2>2. reservation'[m.order].outcome = "SUCCEEDED"
    BY <1>2
  <2> QED BY <1>0, <1>1, <1>2, <1>3, <2>1, <2>2 DEF JournalFits
<1>10. UnfundedEmpty'
  BY <1>0, <1>2 DEF UnfundedEmpty, ReserveHold, TypeOK
<1> QED BY <1>8, <1>9, <1>10

(* A transfer moves it from the requester's reserved to the courier's      *)
(* available credits.                                                      *)
LEMMA TransferBooks ==
    ASSUME BooksInv, TypeOK', NEW m \in requests, Transfer(m)
    PROVE  JournalFits' /\ UnfundedEmpty' /\ BooksBalance'
<1> DEFINE e == Entry("TRANSFER", m.order, m.requester, "RESERVED", m.courier, "AVAILABLE", m.amount)
<1>0. TypeOK /\ SettlementBacked /\ JournalFits /\ UnfundedEmpty
  BY DEF BooksInv, SettledTruth
<1>1. m.order \in Orders /\ m.requester \in Users /\ m.amount \in Nat
  BY <1>0, MessageTypes
<1>2. /\ terminal[m.order].type = "ABSENT" /\ reservation' = reservation /\ funded' = funded
      /\ journal' = journal \cup {e} /\ m.courier \in funded /\ m.courier \in Users
      /\ terminal'[m.order] = [type |-> "TRANSFER", courier |-> m.courier]
      /\ \A x \in Orders \ {m.order} : terminal'[x] = terminal[x]
  BY <1>0, <1>1 DEF Transfer, TypeOK
<1>3. /\ e.type = "TRANSFER" /\ e.order = m.order /\ e.amount = m.amount
      /\ e.debitUser = m.requester /\ e.creditUser = m.courier
      /\ e.debitAccount = "RESERVED" /\ e.creditAccount = "AVAILABLE"
  BY DEF Entry
<1>4. e \notin journal
  BY <1>0, <1>2, <1>3 DEF JournalFits
<1>a. /\ reservation[m.order].outcome = "SUCCEEDED" /\ reservation[m.order].requester = m.requester
      /\ reservation[m.order].amount = m.amount
  BY AcceptedSettlement DEF Transfer
<1>5. \A v \in Users : /\ Posting(e, v, "AVAILABLE") = IF v = m.courier THEN m.amount ELSE 0
                       /\ Posting(e, v, "RESERVED") = IF v = m.requester THEN -m.amount ELSE 0
  BY <1>1, <1>3 DEF Posting
<1>6. \A v \in Users : /\ available'[v] = available[v] + Posting(e, v, "AVAILABLE")
                       /\ reserved'[v] = reserved[v] + Posting(e, v, "RESERVED")
  BY <1>0, <1>1, <1>2, <1>5 DEF Transfer, TypeOK
<1>7. \A v \in Users : HeldOf(v)'[m.order] = HeldOf(v)[m.order] + Posting(e, v, "RESERVED")
  <2>1. \A v \in Users : /\ HeldOf(v)'[m.order] = 0
                         /\ HeldOf(v)[m.order] = IF v = m.requester THEN m.amount ELSE 0
    BY <1>1, <1>2, <1>a DEF HeldOf, Held
  <2> QED BY <1>1, <1>5, <2>1
<1> HIDE DEF e
<1>8. BooksBalance'
  BY <1>1, <1>2, <1>3, <1>4, <1>6, <1>7, EntryKeepsBooks
<1>9. JournalFits'
  <2>1. IsFiniteSet(journal')
    BY <1>0, <1>2, FS_AddElement DEF JournalFits
  <2>2. terminal'[m.order].type = "TRANSFER"
    BY <1>2
  <2> QED BY <1>0, <1>1, <1>2, <1>3, <2>1, <2>2 DEF JournalFits
<1>10. UnfundedEmpty'
  BY <1>0, <1>2 DEF UnfundedEmpty, Transfer, TypeOK
<1> QED BY <1>8, <1>9, <1>10

(* A release moves it back to the requester's available credits.           *)
LEMMA ReleaseBooks ==
    ASSUME BooksInv, TypeOK', NEW m \in requests, Release(m)
    PROVE  JournalFits' /\ UnfundedEmpty' /\ BooksBalance'
<1> DEFINE e == Entry("RELEASE", m.order, m.requester, "RESERVED", m.requester, "AVAILABLE", m.amount)
<1>0. TypeOK /\ SettlementBacked /\ JournalFits /\ UnfundedEmpty
  BY DEF BooksInv, SettledTruth
<1>1. m.order \in Orders /\ m.requester \in Users /\ m.amount \in Nat
  BY <1>0, MessageTypes
<1>2. /\ terminal[m.order].type = "ABSENT" /\ reservation' = reservation /\ funded' = funded
      /\ journal' = journal \cup {e}
      /\ terminal'[m.order] = [type |-> "RELEASE", courier |-> NoUser]
      /\ \A x \in Orders \ {m.order} : terminal'[x] = terminal[x]
  BY <1>0, <1>1 DEF Release, TypeOK
<1>3. /\ e.type = "RELEASE" /\ e.order = m.order /\ e.amount = m.amount
      /\ e.debitUser = m.requester /\ e.creditUser = m.requester
      /\ e.debitAccount = "RESERVED" /\ e.creditAccount = "AVAILABLE"
  BY DEF Entry
<1>4. e \notin journal
  BY <1>0, <1>2, <1>3 DEF JournalFits
<1>a. /\ reservation[m.order].outcome = "SUCCEEDED" /\ reservation[m.order].requester = m.requester
      /\ reservation[m.order].amount = m.amount /\ m.requester \in funded
  BY <1>0, <1>1, AcceptedSettlement DEF Release, SettlementBacked
<1>5. \A v \in Users : /\ Posting(e, v, "AVAILABLE") = IF v = m.requester THEN m.amount ELSE 0
                       /\ Posting(e, v, "RESERVED") = IF v = m.requester THEN -m.amount ELSE 0
  BY <1>1, <1>3 DEF Posting
<1>6. \A v \in Users : /\ available'[v] = available[v] + Posting(e, v, "AVAILABLE")
                       /\ reserved'[v] = reserved[v] + Posting(e, v, "RESERVED")
  BY <1>0, <1>1, <1>5 DEF Release, TypeOK
<1>7. \A v \in Users : HeldOf(v)'[m.order] = HeldOf(v)[m.order] + Posting(e, v, "RESERVED")
  <2>1. \A v \in Users : /\ HeldOf(v)'[m.order] = 0
                         /\ HeldOf(v)[m.order] = IF v = m.requester THEN m.amount ELSE 0
    BY <1>1, <1>2, <1>a DEF HeldOf, Held
  <2> QED BY <1>1, <1>5, <2>1
<1> HIDE DEF e
<1>8. BooksBalance'
  BY <1>1, <1>2, <1>3, <1>4, <1>6, <1>7, EntryKeepsBooks
<1>9. JournalFits'
  <2>1. IsFiniteSet(journal')
    BY <1>0, <1>2, FS_AddElement DEF JournalFits
  <2>2. terminal'[m.order].type = "RELEASE"
    BY <1>2
  <2> QED BY <1>0, <1>1, <1>2, <1>3, <2>1, <2>2 DEF JournalFits
<1>10. UnfundedEmpty'
  BY <1>0, <1>2, <1>a DEF UnfundedEmpty, Release, TypeOK
<1> QED BY <1>8, <1>9, <1>10

(* The books balance in every state, for any number of students, orders    *)
(* and deliveries: reserved credits back the open reservations, wallets    *)
(* equal their ledger, and together they hold what was issued (invariants. *)
(* ts).                                                                    *)
THEOREM BooksInvHolds == Spec => []BooksInv
<1>1. Init => JournalFits /\ UnfundedEmpty /\ BooksBalance
  <2> SUFFICES ASSUME Init PROVE JournalFits /\ UnfundedEmpty /\ BooksBalance
    OBVIOUS
  <2>1. JournalFits /\ UnfundedEmpty
    BY FS_EmptySet DEF Init, CreditInit, JournalFits, UnfundedEmpty
  <2>2. \A f : Sum(f, {}) = 0
    BY FS_EmptySet, SumStep
  <2>3. Issued = 0 /\ \A u, a : LedgerBalance(u, a) = 0
    BY <2>2, SumsOfBooks DEF Init, CreditInit
  <2>4. \A f : (\A x \in Orders : f[x] = 0) => Sum(f, Orders) = 0
    BY TablesAssumption, SumOfZeros
  <2>5. \A f : (\A x \in Users : f[x] = 0) => Sum(f, Users) = 0
    BY TablesAssumption, SumOfZeros
  <2>6. \A u \in Users : HeldFor(u) = 0
    <3>1. \A u \in Users : \A o \in Orders : HeldOf(u)[o] = 0
      BY DEF Init, CreditInit, HeldOf, Held, NoReservation
    <3> QED BY <2>4, <3>1, SumsOfBooks
  <2>7. SumFunction([u \in Users |-> available[u] + reserved[u]]) = 0
    <3> DEFINE f == [u \in Users |-> available[u] + reserved[u]]
    <3>1. \A u \in Users : f[u] = 0
      <4>1. ASSUME NEW u \in Users PROVE f[u] = 0
        <5>1. available[u] = 0 /\ reserved[u] = 0
          BY DEF Init, CreditInit
        <5>2. f[u] = available[u] + reserved[u]
          OBVIOUS
        <5>3. f[u] = 0 + 0
          BY <5>1, <5>2
        <5> HIDE DEF f
        <5> QED BY <5>3
      <4> QED BY <4>1
    <3>2. SumFunction(f) = Sum(f, Users)
      BY DEF SumFunction, Sum
    <3> HIDE DEF f
    <3>3. SumFunction(f) = 0
      BY <2>5, <3>1, <3>2
    <3> QED BY <3>3 DEF f
  <2>8. InitialAllocation * Cardinality(funded) = 0
    BY CreditAssumption, FS_EmptySet DEF Init, CreditInit
  <2>9. \A u \in Users : available[u] = 0 /\ reserved[u] = 0
    BY DEF Init, CreditInit
  <2> QED BY <2>1, <2>3, <2>6, <2>7, <2>8, <2>9
          DEF BooksBalance, ReservedBacked, WalletMatchesLedger, CreditsConserved
<1>2. BooksInv /\ SettledTruth' /\ [Next]_creditVars => BooksInv'
  <2> SUFFICES ASSUME BooksInv, SettledTruth', [Next]_creditVars
               PROVE  JournalFits' /\ UnfundedEmpty' /\ BooksBalance'
    BY DEF BooksInv
  <2>0. TypeOK /\ TypeOK' /\ SettledTruth
    BY DEF BooksInv, SettledTruth
  <2> DEFINE Goal == JournalFits' /\ UnfundedEmpty' /\ BooksBalance'
  <2>1. ASSUME NEW u \in Users, IssueInitial(u) PROVE Goal
    BY <2>0, <2>1, IssueBooks
  <2>2. ASSUME NEW m \in requests, Handler(m) PROVE Goal
    <3>0. m.order \in Orders
      BY <2>0, MessageTypes
    <3>1. CASE ReserveOutOfRange(m) \/ ReserveRefuse(m)
      <4>1. /\ UNCHANGED <<funded, available, reserved, journal, terminal>>
            /\ reservation[m.order].outcome = "ABSENT"
            /\ \A o \in Orders \ {m.order} : reservation'[o] = reservation[o]
            /\ reservation'[m.order].outcome = "REJECTED"
        BY <2>0, <3>0, <3>1
        DEF ReserveOutOfRange, ReserveRefuse, RecordRejection, TypeOK, SettledTruth, ClaimsExclusive
      <4> QED BY <4>1, QuietBooks
    <3>2. CASE ReserveMiss(m) \/ ReserveReplay(m) \/ TerminalReject(m) \/ TerminalReplay(m) \/ ReserveAbort(m)
      <4>1. UNCHANGED <<funded, available, reserved, journal, terminal, reservation>>
        BY <3>2 DEF ReserveMiss, ReserveReplay, TerminalReject, TerminalReplay, ReserveAbort, ledgerVars
      <4> QED BY <4>1, QuietBooks
    <3>3. CASE ReserveHold(m)
      BY <2>0, <3>3, HoldBooks
    <3>4. CASE Transfer(m)
      BY <2>0, <3>4, TransferBooks
    <3>5. CASE Release(m)
      BY <2>0, <3>5, ReleaseBooks
    <3> QED BY <2>2, <3>1, <3>2, <3>3, <3>4, <3>5 DEF Handler
  <2>3. CASE UNCHANGED creditVars
    BY <2>3, QuietBooks DEF creditVars, ledgerVars
  <2> HIDE DEF Goal
  <2>4. Goal
    BY <2>0, <2>1, <2>2, <2>3, StepCases DEF Goal
  <2> QED BY <2>4 DEF Goal
<1>3. Init /\ SettledTruth => BooksInv
  BY <1>1 DEF BooksInv
<1> QED BY <1>2, <1>3, SettledTruthHolds, PTL DEF Spec

(* ReservedBacked, WalletMatchesLedger and CreditsConserved in every       *)
(* state: the reconciliation queries of invariants.ts never find a         *)
(* difference, and "not backed by reserved credit" is never thrown.        *)
THEOREM BooksAlwaysBalance == Spec => []BooksBalance
BY BooksInvHolds, PTL DEF BooksInv

(* Sums of natural numbers are natural numbers.                            *)
LEMMA SumNat ==
    ASSUME NEW f, NEW S, IsFiniteSet(S), \A x \in S : f[x] \in Nat
    PROVE  Sum(f, S) \in Nat
<1> DEFINE Bad == {s \in SUBSET S : Sum(f, s) \notin Nat}
<1> SUFFICES ASSUME Bad # {} PROVE FALSE
  OBVIOUS
<1>1. PICK s \in Bad : \A t \in Bad : t \subseteq s => t = s
  <2>1. Bad \subseteq SUBSET S
    OBVIOUS
  <2> HIDE DEF Bad
  <2> QED BY <2>1, SmallestSet
<1>2. s \in SUBSET S /\ Sum(f, s) \notin Nat
  OBVIOUS
<1>3. IsFiniteSet(s)
  BY <1>2, FS_Subset
<1>4. Sum(f, s) = IF s = {} THEN 0 ELSE f[Pick(s)] + Sum(f, s \ {Pick(s)})
  BY <1>3, SumStep
<1>5. s # {}
  BY <1>2, <1>4
<1>6. Pick(s) \in s
  BY <1>5, PickIn
<1>7. s \ {Pick(s)} \notin Bad /\ s \ {Pick(s)} \in SUBSET S
  BY <1>1, <1>2, <1>6
<1>8. Sum(f, s \ {Pick(s)}) \in Nat
  BY <1>7
<1>9. f[Pick(s)] \in Nat
  BY <1>2, <1>6
<1> QED BY <1>2, <1>4, <1>5, <1>8, <1>9

(* A settlement that is not refused is backed: the wallet it debits has    *)
(* reserved at least the amount, so transfer and release never throw for   *)
(* a debit that matches no row.                                            *)
DebitsMatch ==
    \A m \in requests :
        TerminalRequest(m) /\ TerminalRefusal(m) = "NONE" /\ terminal[m.order].type = "ABSENT" =>
            reserved[m.requester] >= m.amount

(* The "not backed by reserved credit" error of transfer and release       *)
(* (credit.repository.ts) is unreachable, for every interleaving of orders *)
(* on one wallet.                                                          *)
THEOREM SettlementsNeverFail == Spec => []DebitsMatch
<1>1. BooksInv => DebitsMatch
  <2> SUFFICES ASSUME BooksInv, NEW m \in requests, TerminalRefusal(m) = "NONE",
                      terminal[m.order].type = "ABSENT"
               PROVE  reserved[m.requester] >= m.amount
    BY DEF DebitsMatch
  <2>0. TypeOK /\ BooksBalance
    BY DEF BooksInv, SettledTruth
  <2> DEFINE f == HeldOf(m.requester)
             o == m.order
  <2>1. m.order \in Orders /\ m.requester \in Users /\ m.amount \in Nat
    BY <2>0, MessageTypes
  <2>2. \A x \in Orders : f[x] \in Nat
    BY <2>0 DEF HeldOf, Held, TypeOK, ReserveRow
  <2>3. f[o] = m.amount
    BY <2>1, AcceptedSettlement DEF HeldOf, Held
  <2>4. reserved[m.requester] = Sum(f, Orders)
    BY <2>0, <2>1, SumsOfBooks DEF BooksBalance, ReservedBacked
  <2> HIDE DEF f
  <2>5. Sum(f, Orders) = f[o] + Sum(f, Orders \ {o})
    BY <2>1, <2>2, TablesAssumption, SumRemove
  <2>6. Sum(f, Orders \ {o}) \in Nat
    <3>1. IsFiniteSet(Orders \ {o})
      BY TablesAssumption, FS_Subset
    <3> QED BY <2>2, <3>1, SumNat
  <2> QED BY <2>1, <2>3, <2>4, <2>5, <2>6
<1> QED BY <1>1, BooksInvHolds, PTL
=============================================================================
