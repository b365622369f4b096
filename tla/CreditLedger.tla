---------------------------- MODULE CreditLedger ----------------------------
(***************************************************************************)
(* The Credit Service's ledger: credit-service/src/credits/                *)
(* credit.repository.ts, driven by its three consumers.  Wallets, the      *)
(* durable outcome of every operation on an order, the double-entry        *)
(* journal, the reply events in the outbox and the audit alerts.           *)
(*                                                                         *)
(* A handler is one PostgreSQL transaction (READ COMMITTED).  The row lock *)
(* each one takes makes it atomic, with one exception that is modelled     *)
(* statement by statement: a reservation whose conditional debit matches   *)
(* no row reads the wallet again in a second statement.                    *)
(*                                                                         *)
(* `requests' holds the messages the broker may hand to Credit.  A handled *)
(* message stays there: delivery is at least once, in any order, and the   *)
(* consumers run their handler on every delivery.                          *)
(***************************************************************************)
EXTENDS CreditMessages, FiniteSets

CONSTANTS InitialAllocation,     \* credits issued with a wallet
          MaxReservationAmount   \* largest reservation Credit accepts

ASSUME CreditAssumption ==
    /\ InitialAllocation \in Nat
    /\ MaxReservationAmount \in Nat

VARIABLES funded,       \* users whose wallet row exists
          available,    \* wallets.available
          reserved,     \* wallets.reserved
          reservation,  \* the RESERVE row of credit_operations, per order
          terminal,     \* the one TRANSFER or RELEASE row, per order
          journal,      \* credit_transactions with their two ledger entries
          missed,       \* open transactions whose debit matched no row
          alerts        \* credit_audit_alerts

ledgerVars == <<funded, available, reserved, reservation, terminal, journal, missed, alerts>>
creditVars == <<ledgerVars, requests, replies>>

-----------------------------------------------------------------------------
(* Rows *)

AlertCodes == {"CONFLICTING_REQUEST", "RESERVATION_NOT_ACTIVE",
               "INVALID_PARTICIPANTS", "TERMINAL_OPERATION_CONFLICT"}

ReserveRow == [outcome : {"ABSENT", "SUCCEEDED", "REJECTED"},
               requester : Users \cup {NoUser}, amount : Nat,
               reason : Rejections \cup {"NONE"}, available : Nat]

TerminalRow == [type : {"ABSENT", "TRANSFER", "RELEASE"},
                courier : Users \cup {NoUser}]

NoReservation == [outcome |-> "ABSENT", requester |-> NoUser, amount |-> 0,
                  reason |-> "NONE", available |-> 0]

NoTerminal == [type |-> "ABSENT", courier |-> NoUser]

(* One credit_transactions row with its debit and its credit ledger entry. *)
Entry(type, o, debitUser, debitAccount, creditUser, creditAccount, n) ==
    [type |-> type, order |-> o, debitUser |-> debitUser, debitAccount |-> debitAccount,
     creditUser |-> creditUser, creditAccount |-> creditAccount, amount |-> n]

ReplyTo(m, type, courier, reason, balance) ==
    [type |-> type, order |-> m.order, requester |-> m.requester, courier |-> courier,
     amount |-> m.amount, reason |-> reason, available |-> balance]

-----------------------------------------------------------------------------
CreditInit ==
    /\ funded = {}
    /\ available = [u \in Users |-> 0]
    /\ reserved = [u \in Users |-> 0]
    /\ reservation = [o \in Orders |-> NoReservation]
    /\ terminal = [o \in Orders |-> NoTerminal]
    /\ journal = {}
    /\ missed = {}
    /\ replies = {}
    /\ alerts = {}

(* Mutant: the wallet insert overwrites on conflict.                       *)
MutantUnprovisioned(u) == u \in Users

Unprovisioned(u) == u \notin funded

(* user.activated: the wallet insert does nothing for an existing wallet.  *)
IssueInitial(u) ==
    /\ Unprovisioned(u)
    /\ funded' = funded \cup {u}
    /\ available' = [available EXCEPT ![u] = InitialAllocation]
    /\ journal' = journal \cup {Entry("ISSUE", "NO_ORDER", NoUser, "PLATFORM_ISSUANCE",
                                      u, "AVAILABLE", InitialAllocation)}
    /\ UNCHANGED <<reserved, reservation, terminal, missed, requests, replies, alerts>>

-----------------------------------------------------------------------------
(* reserve *)

ReservationRequest(m) == m \in requests /\ m.type = "RESERVATION_REQUESTED"

(* Mutant: no unique key on (order, operation).                            *)
MutantClaimable(o) == o \in Orders

(* The insert of the RESERVE row waits for an open transaction that holds  *)
(* the same key.                                                           *)
Claimable(o) == \A x \in missed : x.order # o

(* Mutant: off by one.                                                     *)
MutantDebitable(m) == m.requester \in funded /\ available[m.requester] >= m.amount - 1

(* The condition of the conditional debit.                                 *)
Debitable(m) == m.requester \in funded /\ available[m.requester] >= m.amount

Answer(reply) == replies' = replies \cup {reply}

RecordRejection(m, reason, balance) ==
    /\ reservation' = [reservation EXCEPT ![m.order] =
           [outcome |-> "REJECTED", requester |-> m.requester, amount |-> m.amount,
            reason |-> reason, available |-> balance]]
    /\ Answer(ReplyTo(m, "RESERVATION_REJECTED", NoUser, reason, balance))

ReserveOutOfRange(m) ==
    /\ ReservationRequest(m) /\ Claimable(m.order)
    /\ reservation[m.order].outcome = "ABSENT"
    /\ m.amount > MaxReservationAmount
    /\ RecordRejection(m, "AMOUNT_OUT_OF_RANGE", 0)
    /\ UNCHANGED <<funded, available, reserved, terminal, journal, missed, requests, alerts>>

(* The conditional debit, the transaction, its entries, the outcome and    *)
(* the reply.                                                              *)
ReserveHold(m) ==
    /\ ReservationRequest(m) /\ Claimable(m.order)
    /\ reservation[m.order].outcome = "ABSENT"
    /\ m.amount <= MaxReservationAmount
    /\ Debitable(m)
    /\ available' = [available EXCEPT ![m.requester] = @ - m.amount]
    /\ reserved' = [reserved EXCEPT ![m.requester] = @ + m.amount]
    /\ journal' = journal \cup {Entry("RESERVE", m.order, m.requester, "AVAILABLE",
                                      m.requester, "RESERVED", m.amount)}
    /\ reservation' = [reservation EXCEPT ![m.order] =
           [outcome |-> "SUCCEEDED", requester |-> m.requester, amount |-> m.amount,
            reason |-> "NONE", available |-> 0]]
    /\ Answer(ReplyTo(m, "CREDITS_RESERVED", NoUser, "NONE", 0))
    /\ UNCHANGED <<funded, terminal, missed, requests, alerts>>

(* The debit matches no row; the transaction stays open.                   *)
ReserveMiss(m) ==
    /\ ReservationRequest(m) /\ Claimable(m.order)
    /\ reservation[m.order].outcome = "ABSENT"
    /\ m.amount <= MaxReservationAmount
    /\ ~Debitable(m)
    /\ missed' = missed \cup {m}
    /\ UNCHANGED <<funded, available, reserved, reservation, terminal, journal,
                   requests, replies, alerts>>

(* The second statement finds a wallet: insufficient credits.              *)
ReserveRefuse(m) ==
    /\ m \in missed
    /\ m.requester \in funded
    /\ RecordRejection(m, "INSUFFICIENT_CREDITS", available[m.requester])
    /\ missed' = missed \ {m}
    /\ UNCHANGED <<funded, available, reserved, terminal, journal, requests, alerts>>

(* It finds none (WalletNotReadyError), or the transaction dies: rollback. *)
ReserveAbort(m) ==
    /\ m \in missed
    /\ missed' = missed \ {m}
    /\ UNCHANGED <<funded, available, reserved, reservation, terminal, journal,
                   requests, replies, alerts>>

RecordedReply(m, row) ==
    IF row.outcome = "SUCCEEDED" THEN ReplyTo(m, "CREDITS_RESERVED", NoUser, "NONE", 0)
    ELSE ReplyTo(m, "RESERVATION_REJECTED", NoUser, row.reason, row.available)

(* replayOrRejectConflict: the order id was claimed before.                *)
ReserveReplay(m) ==
    /\ ReservationRequest(m)
    /\ reservation[m.order].outcome # "ABSENT"
    /\ LET row == reservation[m.order]
           same == row.requester = m.requester /\ row.amount = m.amount
       IN  /\ Answer(IF same THEN RecordedReply(m, row)
                     ELSE ReplyTo(m, "RESERVATION_REJECTED", NoUser, "CONFLICTING_REQUEST", 0))
           /\ alerts' = IF same THEN alerts
                        ELSE alerts \cup {<<m.order, "RESERVE", "CONFLICTING_REQUEST">>}
    /\ UNCHANGED <<funded, available, reserved, reservation, terminal, journal, missed, requests>>

-----------------------------------------------------------------------------
(* transfer and release *)

OperationOf(m) == IF m.type = "COMPLETION_REQUESTED" THEN "TRANSFER" ELSE "RELEASE"

TerminalRequest(m) == m \in requests /\ m.type # "RESERVATION_REQUESTED"

(* lockReservation finds a decided row; otherwise ReservationNotReadyError. *)
ReservationDecided(o) == reservation[o].outcome # "ABSENT"

(* Mutant: a refused reservation passes.                                   *)
MutantValidateReservation(m, row) ==
    IF row.requester # m.requester \/ row.amount # m.amount THEN "CONFLICTING_REQUEST"
    ELSE "NONE"

ValidateReservation(m, row) ==
    IF row.outcome # "SUCCEEDED" THEN "RESERVATION_NOT_ACTIVE"
    ELSE IF row.requester # m.requester \/ row.amount # m.amount THEN "CONFLICTING_REQUEST"
    ELSE "NONE"

(* Mutant: a second transfer is answered as a replay whoever it pays.      *)
MutantReplayRefusal(m, prior) ==
    IF prior.type \notin {"ABSENT", OperationOf(m)} THEN "TERMINAL_OPERATION_CONFLICT"
    ELSE "NONE"

(* findTerminalOperation found `prior'.                                    *)
ReplayRefusal(m, prior) ==
    IF prior.type \notin {"ABSENT", OperationOf(m)} THEN "TERMINAL_OPERATION_CONFLICT"
    ELSE IF prior.type = "TRANSFER" /\ prior.courier # m.courier THEN "CONFLICTING_REQUEST"
    ELSE "NONE"

(* The checks in the code's order: the code of the refusal, or "NONE".     *)
TerminalRefusal(m) ==
    LET invalid == ValidateReservation(m, reservation[m.order]) IN
    IF invalid # "NONE" THEN invalid
    ELSE IF OperationOf(m) = "TRANSFER" /\ m.requester = m.courier THEN "INVALID_PARTICIPANTS"
    ELSE ReplayRefusal(m, terminal[m.order])

(* rejectTerminal: an audit alert and no reply.                            *)
TerminalReject(m) ==
    /\ TerminalRequest(m) /\ ReservationDecided(m.order)
    /\ TerminalRefusal(m) # "NONE"
    /\ alerts' = alerts \cup {<<m.order, OperationOf(m), TerminalRefusal(m)>>}
    /\ UNCHANGED <<funded, available, reserved, reservation, terminal, journal, missed,
                   requests, replies>>

TerminalReply(m) ==
    IF OperationOf(m) = "TRANSFER"
    THEN ReplyTo(m, "CREDITS_TRANSFERRED", m.courier, "NONE", 0)
    ELSE ReplyTo(m, "CREDITS_RELEASED", NoUser, "NONE", 0)

(* replayTransferOrReject, replayReleaseOrReject: the recorded result again. *)
TerminalReplay(m) ==
    /\ TerminalRequest(m) /\ ReservationDecided(m.order)
    /\ TerminalRefusal(m) = "NONE"
    /\ terminal[m.order].type # "ABSENT"
    /\ Answer(TerminalReply(m))
    /\ UNCHANGED <<ledgerVars, requests>>

(* Pays the courier out of the reservation.  A participant without a       *)
(* wallet is WalletNotReadyError; a debit that is not backed throws.       *)
Transfer(m) ==
    /\ TerminalRequest(m) /\ ReservationDecided(m.order)
    /\ OperationOf(m) = "TRANSFER"
    /\ TerminalRefusal(m) = "NONE"
    /\ terminal[m.order].type = "ABSENT"
    /\ {m.courier, m.requester} \subseteq funded
    /\ reserved[m.requester] >= m.amount
    /\ reserved' = [reserved EXCEPT ![m.requester] = @ - m.amount]
    /\ available' = [available EXCEPT ![m.courier] = @ + m.amount]
    /\ journal' = journal \cup {Entry("TRANSFER", m.order, m.requester, "RESERVED",
                                      m.courier, "AVAILABLE", m.amount)}
    /\ terminal' = [terminal EXCEPT ![m.order] = [type |-> "TRANSFER", courier |-> m.courier]]
    /\ Answer(TerminalReply(m))
    /\ UNCHANGED <<funded, reservation, missed, requests, alerts>>

(* Returns the reservation to its requester.                               *)
Release(m) ==
    /\ TerminalRequest(m) /\ ReservationDecided(m.order)
    /\ OperationOf(m) = "RELEASE"
    /\ TerminalRefusal(m) = "NONE"
    /\ terminal[m.order].type = "ABSENT"
    /\ reserved[m.requester] >= m.amount
    /\ reserved' = [reserved EXCEPT ![m.requester] = @ - m.amount]
    /\ available' = [available EXCEPT ![m.requester] = @ + m.amount]
    /\ journal' = journal \cup {Entry("RELEASE", m.order, m.requester, "RESERVED",
                                      m.requester, "AVAILABLE", m.amount)}
    /\ terminal' = [terminal EXCEPT ![m.order] = [type |-> "RELEASE", courier |-> NoUser]]
    /\ Answer(TerminalReply(m))
    /\ UNCHANGED <<funded, reservation, missed, requests, alerts>>

-----------------------------------------------------------------------------
(* orderStatus: the answer to Order's reconciler.                          *)
OrderStatus(o) ==
    IF terminal[o].type = "TRANSFER" THEN "TRANSFERRED"
    ELSE IF terminal[o].type = "RELEASE" THEN "RELEASED"
    ELSE IF reservation[o].outcome = "SUCCEEDED" THEN "RESERVED"
    ELSE "NONE"

CreditNext ==
    \/ \E u \in Users : IssueInitial(u)
    \/ \E m \in requests :
          \/ ReserveOutOfRange(m) \/ ReserveHold(m) \/ ReserveMiss(m) \/ ReserveReplay(m)
          \/ TerminalReject(m) \/ TerminalReplay(m) \/ Transfer(m) \/ Release(m)
    \/ \E m \in missed : ReserveRefuse(m) \/ ReserveAbort(m)

=============================================================================
