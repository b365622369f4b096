----------------------------- MODULE ErrandFlow -----------------------------
(***************************************************************************)
(* The Order Service and the Credit Service with the broker between them:  *)
(* what one writes to its outbox the other may receive, at least once and  *)
(* in any order.                                                           *)
(***************************************************************************)
EXTENDS OrderService, CreditLedger

flowVars == <<orderVars, ledgerVars, requests, replies>>

FlowInit == OrderInit /\ CreditInit

OrderStep == OrderNext /\ UNCHANGED <<ledgerVars, replies>>

CreditStep == CreditNext /\ UNCHANGED orderVars

FlowNext == OrderStep \/ CreditStep

FlowSpec == FlowInit /\ [][FlowNext]_flowVars

(* Fairness.  Timers run on every sweep, the relay and the consumers retry *)
(* a message until it is handled, and a handler is not cut off every time  *)
(* it runs.  Participants, administrators and the outside owe nothing.     *)
OrderFairness ==
    /\ WF_flowVars(Tick /\ UNCHANGED <<ledgerVars, replies>>)
    /\ \A o \in Orders :
          /\ WF_flowVars(ExpireOpen(o, clock) /\ UNCHANGED <<ledgerVars, replies>>)
          /\ WF_flowVars(TimeOutPickup(o, clock) /\ UNCHANGED <<ledgerVars, replies>>)
          /\ WF_flowVars(AutoConfirm(o, clock) /\ UNCHANGED <<ledgerVars, replies>>)
          /\ WF_flowVars(CheckUndelivered(o, clock) /\ UNCHANGED <<ledgerVars, replies>>)
          /\ WF_flowVars(ReferUndelivered(o) /\ UNCHANGED <<ledgerVars, replies>>)
          /\ SF_flowVars(Reserved(o) /\ UNCHANGED <<ledgerVars, replies>>)
          /\ WF_flowVars((\E r \in replies : r.order = o /\ (AskRequester(r) \/ Rejected(r) \/ Confirmed(r)))
                         /\ UNCHANGED <<ledgerVars, replies>>)
    /\ \A u \in Users :
          WF_flowVars((ReceiveSuspension(u) \/ AskSuspension(u) \/ ApplySuspension(u))
                      /\ UNCHANGED <<ledgerVars, replies>>)

CreditFairness ==
    /\ \A u \in Users : WF_flowVars(IssueInitial(u) /\ UNCHANGED orderVars)
    /\ \A o \in Orders :
          /\ SF_flowVars((\E m \in missed : m.order = o /\ ReserveRefuse(m)) /\ UNCHANGED orderVars)
          /\ WF_flowVars((\E m \in missed : m.order = o /\ ReserveAbort(m)) /\ UNCHANGED orderVars)
          /\ WF_flowVars((\E m \in requests : m.order = o /\ (ReserveMiss(m) \/ ReserveHold(m)
                              \/ ReserveOutOfRange(m) \/ ReserveReplay(m) \/ Transfer(m)
                              \/ Release(m) \/ TerminalReplay(m))) /\ UNCHANGED orderVars)

FairFlowSpec == FlowSpec /\ OrderFairness /\ CreditFairness

-----------------------------------------------------------------------------
Times == -1 .. (MaxClock + AcceptanceWindow + DeliveryPeriod + AutoConfirmPeriod)

Row == [status : Statuses \cup {"ABSENT"}, version : Nat,
        requester : Users \cup {NoUser}, reward : Rewards \cup {0},
        courier : Users \cup {NoUser}, releaseReason : {"NONE", "CANCELLED", "EXPIRED"},
        deadline : Times, acceptedAt : Times, reportAt : Times, confirmAt : Times,
        noted : BOOLEAN, referred : Users \cup {NoUser},
        creditTransaction : {"NONE", "TRANSFER", "RELEASE"},
        rejection : Rejections \cup {"NONE"}, short : Nat,
        couriers : SUBSET Users, decidedBy : Users \cup {NoUser}]

(* The checks of order-service/src/db/schema.ts hold of every row, so no   *)
(* transition can fail on them.                                            *)
RowShape ==
    \A o \in Orders :
        LET row == order[o] IN
        /\ row.status \in {"ACCEPTED", "PICKED_UP", "DELIVERED", "DISPUTED",
                           "COMPLETION_PENDING_CREDIT", "COMPLETED"} =>
              row.courier \notin {NoUser, row.requester}
        /\ row.status = "PICKED_UP" => row.reportAt # NoTime
        /\ row.status = "DELIVERED" => row.confirmAt # NoTime
        /\ row.status = "OPEN" => row.deadline # NoTime /\ row.courier = NoUser
        /\ row.status \in {"RELEASE_PENDING_CREDIT", "CANCELLED", "EXPIRED"} =>
              row.releaseReason # "NONE"
        /\ row.status \in {"CANCELLED", "EXPIRED"} => row.status = row.releaseReason

(* Type invariant of the rows and of the two services' conversation:       *)
(* Credit is sent only requests of the kind its own specification assumes, *)
(* and no transition can fail on a check of the orders table.              *)
TypeOK ==
    /\ order \in [Orders -> Row] /\ RowShape
    /\ answered \in [Orders -> {"FREE", "ACTIVE", "SUSPENDED"}]
    /\ checked \in [Orders -> {"NO", "ACTIVE", "SUSPENDED"}]
    /\ requests \subseteq WellFormed
    /\ replies \subseteq Reply
    /\ available \in [Users -> Nat] /\ reserved \in [Users -> Nat]

AfterReservation == Statuses \ {"PENDING_CREDIT", "REJECTED"}

(* Order and Credit agree about the money, whatever was lost, repeated or  *)
(* reordered: an order past its reservation has the credits it names held  *)
(* in its requester's name, credits are paid out only to the courier of an *)
(* order that completes, returned only for one that is released, and a     *)
(* closed order is closed the way Credit settled it.                       *)
MoneyFollowsErrand ==
    \A o \in Orders :
        LET row == order[o] IN
        /\ row.status \in AfterReservation =>
              /\ reservation[o].outcome = "SUCCEEDED"
              /\ reservation[o].requester = row.requester
              /\ reservation[o].amount = row.reward
        /\ row.status = "REJECTED" => reservation[o].outcome = "REJECTED"
        /\ terminal[o].type = "TRANSFER" =>
              /\ row.status \in {"COMPLETION_PENDING_CREDIT", "COMPLETED"}
              /\ terminal[o].courier = row.courier
        /\ terminal[o].type = "RELEASE" =>
              row.status \in {"RELEASE_PENDING_CREDIT", "CANCELLED", "EXPIRED"}
        /\ row.status = "COMPLETED" => terminal[o].type = "TRANSFER"
        /\ row.status \in {"CANCELLED", "EXPIRED"} => terminal[o].type = "RELEASE"

(* A courier is paid only for a recorded delivery or an administrator's    *)
(* decision, and an administrator who decides never took part in the       *)
(* errand, not even as a courier who left it.                              *)
PaidForReason ==
    \A o \in Orders :
        /\ order[o].status \in {"COMPLETION_PENDING_CREDIT", "COMPLETED"} =>
              order[o].confirmAt # NoTime \/ order[o].decidedBy # NoUser
        /\ order[o].decidedBy \notin {order[o].requester} \cup order[o].couriers
           \/ order[o].decidedBy = NoUser

(* What a suspended courier's removal may do to the acceptance deadline    *)
(* (timestampPatch): the handler that applies that suspension moves it, by *)
(* no more than the time the courier held the errand, and forward, except  *)
(* that a handler whose transaction began before the acceptance moves it   *)
(* back (DeadlineNeverBack).                                               *)
GivesTimeBack(o) ==
    LET row == order[o]
        next == order'[o]
    IN  /\ row.status = "ACCEPTED" /\ next.status = "OPEN"
        /\ handling'[row.courier] # handling[row.courier]
        /\ next.deadline <= row.deadline + (clock - row.acceptedAt)
        /\ next.deadline < row.deadline => handling[row.courier].at < row.acceptedAt

DeadlinesHold ==
    \A o \in Orders :
        /\ order[o].deadline \notin {NoTime, order'[o].deadline} => GivesTimeBack(o)
        /\ order[o].releaseReason # "EXPIRED" /\ order'[o].releaseReason = "EXPIRED"
              => order[o].deadline <= clock

(* Once set, an errand's acceptance deadline is moved by nothing but a     *)
(* suspension that gives a courier's time back, although couriers come and *)
(* go; and no errand expires before it, although sweeps run late.          *)
DeadlinesKept == [][DeadlinesHold]_flowVars

(* What the comment in timestampPatch says of every removal of a suspended *)
(* courier: the requester gets the time held back, so the deadline never   *)
(* moves back.  False: the handler's now() may precede the acceptance.     *)
DeadlineNeverBack ==
    [][\A o \in Orders :
          order[o].deadline # NoTime => order'[o].deadline >= order[o].deadline]_flowVars

(* Once a suspension has been applied, and while it lasts, the student     *)
(* has no open or accepted errand as its requester: not one whose          *)
(* reservation was being confirmed meanwhile, nor one posted since.        *)
SuspendedHoldNothing ==
    \A u \in applied, o \in Orders :
        order[o].requester = u => order[o].status \notin {"OPEN", "ACCEPTED"}

(* An errand is never stuck waiting for a person who stays away: past its  *)
(* deadline an open errand leaves OPEN, an accepted one leaves ACCEPTED    *)
(* after the pickup timeout, and a delivered one is confirmed.  Only       *)
(* deadlines the bounded clock reaches are claimed.                        *)
TimersFire ==
    \A o \in Orders :
        /\ (order[o].status = "OPEN" /\ order[o].deadline <= MaxClock)
              ~> (order[o].status # "OPEN")
        /\ (order[o].status = "ACCEPTED" /\ order[o].acceptedAt + PickupTimeout <= MaxClock)
              ~> (order[o].status # "ACCEPTED")
        /\ (order[o].status = "DELIVERED" /\ order[o].confirmAt <= MaxClock)
              ~> (order[o].status # "DELIVERED")

(* A picked-up errand whose requester is suspended is referred to an       *)
(* administrator once its delivery period ends, unless it is delivered or  *)
(* the requester comes back: no order of suspensions, reinstatements,      *)
(* marks and late sweeps loses it.                                         *)
SuspendedReferred ==
    \A o \in Orders :
        (/\ order[o].status = "PICKED_UP" /\ order[o].reportAt <= MaxClock
         /\ order[o].requester \in suspended)
          ~> (order[o].status # "PICKED_UP" \/ order[o].requester \notin suspended)
=============================================================================
