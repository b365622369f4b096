---------------------------- MODULE OrderService ----------------------------
(***************************************************************************)
(* The Order Service: the rows orders.repository.ts keeps, the commands of *)
(* participants and administrators, the lifecycle scheduler, the two       *)
(* Credit result consumers and the suspension consumer.                    *)
(*                                                                         *)
(* Every change of a row goes through one transaction under its row lock   *)
(* and is one step here, except where a handler asks the User Service:     *)
(*  - a reservation reply holds the row lock while it asks;                *)
(*  - a suspension asks before it locks the student's errands;             *)
(*  - the scheduler asks about an overdue errand without any lock.         *)
(* Those are two or three steps.  A refused command changes nothing and is *)
(* not a step.  Clients send the version they read; a command whose        *)
(* version is not the row's is refused, so only current ones are steps.    *)
(***************************************************************************)
EXTENDS CreditMessages, OrderStateMachine

CONSTANTS AcceptanceWindow, PickupTimeout, DeliveryPeriod, AutoConfirmPeriod,
          InitialAdmins, \* administrators at the start
          Horizon,       \* bound: participants and the outside act up to this time
          MaxClock,      \* bound: the clock stops here
          MaxVersion,    \* bound: commands are taken up to this row version
          MaxOutside,    \* bound: suspensions, reinstatements and handler crashes
          MaxRoles,      \* bound: changes of the administrator role
          SweepLag       \* bound: age of the `now' a sweep read when it started

ASSUME PeriodAssumption ==
    /\ {AcceptanceWindow, PickupTimeout, DeliveryPeriod, AutoConfirmPeriod} \subseteq Nat \ {0}
    /\ {Horizon, MaxClock, MaxVersion, MaxOutside, MaxRoles, SweepLag} \subseteq Nat
    /\ InitialAdmins \subseteq Users

VARIABLES order,        \* the orders table, with what its history tells
          clock,        \* the database clock
          answered,     \* per order: the answer a reservation reply holds with the row lock
          checked,      \* per order: the answer the scheduler has about an overdue errand
          suspended,    \* external: students the User Service calls suspended
          admins,       \* external: administrators the User Service lists
          outside,      \* suspensions, reinstatements and crashes so far
          roles,        \* role changes so far
          news,         \* students with an undelivered user.suspended event
          handling,     \* per student: the suspension handler's progress
          applied,      \* students whose present suspension has been applied
          listed,       \* administrators the current referral run was given
          orderAlerts   \* order_operator_alerts

rowVars == <<order, requests>>
suspensionVars == <<suspended, news, handling, applied>>
outsideVars == <<admins, outside, roles>>
orderVars == <<order, clock, answered, checked, suspensionVars, outsideVars, listed,
               orderAlerts>>

NoTime == -1

NoRow ==
    [status |-> "ABSENT", version |-> 0, requester |-> NoUser, reward |-> 0,
     courier |-> NoUser, releaseReason |-> "NONE", deadline |-> NoTime, acceptedAt |-> NoTime,
     reportAt |-> NoTime, confirmAt |-> NoTime, noted |-> FALSE, referred |-> NoUser,
     creditTransaction |-> "NONE", rejection |-> "NONE", short |-> 0,
     couriers |-> {}, decidedBy |-> NoUser]

OrderInit ==
    /\ order = [o \in Orders |-> NoRow]
    /\ requests = {}
    /\ clock = 0
    /\ answered = [o \in Orders |-> "FREE"]
    /\ checked = [o \in Orders |-> "NO"]
    /\ suspended = {} /\ news = {} /\ applied = {}
    /\ handling = [u \in Users |-> [phase |-> "IDLE", at |-> NoTime]]
    /\ admins = InitialAdmins /\ outside = 0 /\ roles = 0
    /\ listed = {}
    /\ orderAlerts = {}

-----------------------------------------------------------------------------
(* The row: who acts, what a transition reads and what it writes.          *)

Exists(o) == order[o].status # "ABSENT"

(* Not held by a reservation reply that waits for the User Service.        *)
Unlocked(o) == answered[o] = "FREE"

ResolveActor(row, u) ==
    IF u = row.requester THEN "REQUESTER"
    ELSE IF u = row.courier THEN "ASSIGNED_COURIER"
    ELSE IF u \in admins THEN "ADMIN" ELSE "OTHER_STUDENT"

Passed(t, at) == t # NoTime /\ t <= at

Context(row, at, requesterSuspended) ==
    [acceptanceDeadlinePassed |-> Passed(row.deadline, at),
     deliveryPeriodPassed |-> Passed(row.reportAt, at),
     autoConfirmationPeriodPassed |-> Passed(row.confirmAt, at),
     requesterSuspended |-> requesterSuspended,
     releaseReason |-> row.releaseReason]

(* Mutant: the errand keeps the courier who left.                          *)
MutantWithoutCourier(row) == [row EXCEPT !.acceptedAt = NoTime]

WithoutCourier(row) == [row EXCEPT !.courier = NoUser, !.acceptedAt = NoTime]

(* Mutant: the two times of the period held are swapped.                   *)
MutantTimestampPatch(row, action, to, at) ==
    CASE action = "COURIER_SUSPENDED" /\ to = "OPEN" ->
            [WithoutCourier(row) EXCEPT !.deadline = @ + (row.acceptedAt - at)]
      [] action \in {"WITHDRAW", "PICKUP_TIMEOUT"} -> WithoutCourier(row)
      [] action = "RECORD_PICKUP" -> [row EXCEPT !.reportAt = at + DeliveryPeriod]
      [] action = "CREDIT_RESERVED" /\ to = "OPEN" ->
            [row EXCEPT !.deadline = at + AcceptanceWindow]
      [] action = "RECORD_DELIVERY" -> [row EXCEPT !.confirmAt = at + AutoConfirmPeriod]
      [] OTHER -> row

(* The courier loses the errand; a suspended one also gives back the time  *)
(* they held it.                                                           *)
TimestampPatch(row, action, to, at) ==
    CASE action = "COURIER_SUSPENDED" /\ to = "OPEN" ->
            [WithoutCourier(row) EXCEPT !.deadline = @ + (at - row.acceptedAt)]
      [] action \in {"WITHDRAW", "PICKUP_TIMEOUT"} -> WithoutCourier(row)
      [] action = "RECORD_PICKUP" -> [row EXCEPT !.reportAt = at + DeliveryPeriod]
      [] action = "CREDIT_RESERVED" /\ to = "OPEN" ->
            [row EXCEPT !.deadline = at + AcceptanceWindow]
      [] action = "RECORD_DELIVERY" -> [row EXCEPT !.confirmAt = at + AutoConfirmPeriod]
      [] OTHER -> row

NextRow(row, rule, at) ==
    LET patched == TimestampPatch(row, rule.action, rule.to, at) IN
    [patched EXCEPT !.status = rule.to,
                    !.version = @ + 1,
                    !.releaseReason = IF rule.reason = "NONE" THEN @ ELSE rule.reason]

Ask(type, o, row) ==
    [type |-> type, order |-> o, requester |-> row.requester,
     courier |-> IF type = "COMPLETION_REQUESTED" THEN row.courier ELSE NoUser,
     amount |-> row.reward]

Emitted(o, row, rule) ==
    CASE rule.emits = "COMPLETION" -> {Ask("COMPLETION_REQUESTED", o, row)}
      [] rule.emits = "RELEASE" -> {Ask("RELEASE_REQUESTED", o, row)}
      [] OTHER -> {}

NoPatch == [column \in {} |-> 0]

Patched(row, patch) ==
    [column \in DOMAIN row |-> IF column \in DOMAIN patch THEN patch[column] ELSE row[column]]

(* transition: decide, patch the row, record history, emit.  The patch is  *)
(* the caller's own column changes.                                        *)
Transition(o, action, actor, at, requesterSuspended, patch) ==
    /\ Unlocked(o)
    /\ \E rule \in DecideTransition(order[o].status, action, actor,
                                    Context(order[o], at, requesterSuspended)) :
          LET next == Patched(NextRow(order[o], rule, at), patch) IN
          /\ order' = [order EXCEPT ![o] = next]
          /\ requests' = requests \cup Emitted(o, next, rule)

-----------------------------------------------------------------------------
(* Commands of requesters, couriers and administrators.                    *)

CommandTaken(o) == clock <= Horizon /\ order[o].version < MaxVersion

(* createPending: the row and the reservation request.                     *)
Create(o, u, n) ==
    /\ ~Exists(o) /\ clock <= Horizon
    /\ order' = [order EXCEPT ![o] = [NoRow EXCEPT !.status = "PENDING_CREDIT", !.version = 1,
                                                   !.requester = u, !.reward = n]]
    /\ requests' = requests \cup {Ask("RESERVATION_REQUESTED", o, order'[o])}
    /\ UNCHANGED <<clock, answered, checked, suspensionVars, outsideVars, listed, orderAlerts>>

(* What an acceptance is refused for.                                      *)
MayAccept(o, u) ==
    /\ order[o].status = "OPEN"
    /\ order[o].requester # u
    /\ order[o].deadline > clock

(* acceptUsing: one conditional update.                                    *)
Accept(o, u) ==
    /\ CommandTaken(o) /\ Unlocked(o) /\ MayAccept(o, u)
    /\ order' = [order EXCEPT ![o].status = "ACCEPTED", ![o].courier = u,
                              ![o].acceptedAt = clock, ![o].version = @ + 1,
                              ![o].couriers = @ \cup {u}]
    /\ UNCHANGED <<requests, clock, answered, checked, suspensionVars, outsideVars, listed, orderAlerts>>

ParticipantActions == {"CANCEL", "RECORD_PICKUP", "WITHDRAW", "RECORD_DELIVERY",
                       "REPORT_NON_DELIVERY", "CONFIRM_RECEIPT", "REPORT_NON_RECEIPT"}

Command(o, u, action) ==
    /\ CommandTaken(o)
    /\ Transition(o, action, ResolveActor(order[o], u), clock, FALSE, NoPatch)
    /\ UNCHANGED <<clock, answered, checked, suspensionVars, outsideVars, listed, orderAlerts>>

(* Mutant: couriers who left the errand are forgotten.                     *)
MutantParticipants(o) == {order[o].requester, order[o].courier} \ {NoUser}

(* Everyone who was ever the errand's requester or courier.                *)
Participants(o) == ({order[o].requester, order[o].courier} \cup order[o].couriers) \ {NoUser}

(* The referred administrator decides; anyone who took part is refused.    *)
Resolve(o, u, action) ==
    /\ CommandTaken(o)
    /\ u \notin Participants(o)
    /\ order[o].referred = u
    /\ Transition(o, action, ResolveActor(order[o], u), clock, FALSE,
                  [decidedBy |-> u])
    /\ UNCHANGED <<clock, answered, checked, suspensionVars, outsideVars, listed, orderAlerts>>

-----------------------------------------------------------------------------
(* The lifecycle scheduler.  A sweep reads the clock once, so its timers   *)
(* act on a `now' that may be old; each verifies its deadline under lock.  *)

SweepTimes == {t \in 0 .. clock : t + SweepLag >= clock}

Timer(o, action, at) ==
    /\ Transition(o, action, "SYSTEM", at, FALSE, NoPatch)
    /\ UNCHANGED <<clock, answered, checked, suspensionVars, outsideVars, listed, orderAlerts>>

ExpireOpen(o, at) ==
    /\ Passed(order[o].deadline, at)
    /\ Timer(o, "ACCEPTANCE_DEADLINE_PASSED", at)

(* Mutant: errands past their acceptance deadline are not looked for.      *)
MutantTimeOutPickup(o, at) ==
    /\ order[o].acceptedAt # NoTime
    /\ order[o].acceptedAt <= at - PickupTimeout
    /\ ~Passed(order[o].deadline, at)
    /\ Timer(o, "PICKUP_TIMEOUT", at)

TimeOutPickup(o, at) ==
    /\ order[o].acceptedAt # NoTime
    /\ order[o].acceptedAt <= at - PickupTimeout
    /\ Timer(o, "PICKUP_TIMEOUT", at)

AutoConfirm(o, at) ==
    /\ Passed(order[o].confirmAt, at)
    /\ Timer(o, "AUTO_CONFIRM", at)

(* referUndelivered: a marked errand past its period is asked about ...    *)
CheckUndelivered(o, at) ==
    /\ order[o].status = "PICKED_UP" /\ order[o].noted /\ Passed(order[o].reportAt, at)
    /\ checked[o] = "NO"
    /\ checked' = [checked EXCEPT ![o] = IF order[o].requester \in suspended
                                         THEN "SUSPENDED" ELSE "ACTIVE"]
    /\ UNCHANGED <<rowVars, clock, answered, suspensionVars, outsideVars, listed, orderAlerts>>

(* ... and on the answer loses its mark or is referred.                    *)
ReferUndelivered(o) ==
    /\ checked[o] # "NO" /\ Unlocked(o)
    /\ checked' = [checked EXCEPT ![o] = "NO"]
    /\ IF checked[o] = "ACTIVE"
       THEN /\ order' = IF order[o].status = "PICKED_UP"
                        THEN [order EXCEPT ![o].noted = FALSE] ELSE order
            /\ UNCHANGED requests
       ELSE \/ Transition(o, "DELIVERY_PERIOD_PASSED", "SYSTEM", clock, TRUE, NoPatch)
            \/ order[o].status # "PICKED_UP" /\ UNCHANGED rowVars
    /\ UNCHANGED <<clock, answered, suspensionVars, outsideVars, listed, orderAlerts>>

AnyDisputed == \E o \in Orders : order[o].status = "DISPUTED"

(* Disputes referred to no one, or to someone who is no longer listed.     *)
DisputesToRefer == {o \in Orders : order[o].status = "DISPUTED" /\ order[o].referred \notin listed}

(* referDisputes: one list of administrators decides the whole run.        *)
ListAdmins ==
    /\ listed = {} /\ admins # {} /\ AnyDisputed
    /\ listed' = admins
    /\ UNCHANGED <<rowVars, clock, answered, checked, suspensionVars, outsideVars, orderAlerts>>

EndReferrals ==
    /\ listed # {}
    /\ listed' = {}
    /\ UNCHANGED <<rowVars, clock, answered, checked, suspensionVars, outsideVars, orderAlerts>>

ClearReferral(o) ==
    /\ listed # {} /\ o \in DisputesToRefer /\ order[o].referred # NoUser
    /\ Transition(o, "ADMIN_UNASSIGNED", "SYSTEM", clock, FALSE,
                  [referred |-> NoUser])
    /\ UNCHANGED <<clock, answered, checked, suspensionVars, outsideVars, listed, orderAlerts>>

Eligible(o) == listed \ Participants(o)

Referrals(a, S) == Cardinality({o \in Orders : order[o].referred = a /\ order[o].status \in S})

(* Fewest undecided disputes, then fewest referrals; the code breaks the   *)
(* remaining tie by user id.                                               *)
LeastReferred(S) ==
    LET fewest(T, St) == {a \in T : \A b \in T : Referrals(a, St) <= Referrals(b, St)}
    IN  fewest(fewest(S, {"DISPUTED"}), Statuses)

AssignReferral(o) ==
    /\ o \in DisputesToRefer /\ order[o].referred = NoUser
    /\ \E a \in LeastReferred(Eligible(o)) :
          Transition(o, "ADMIN_ASSIGNED", "SYSTEM", clock, FALSE,
                     [referred |-> a])
    /\ UNCHANGED <<clock, answered, checked, suspensionVars, outsideVars, listed, orderAlerts>>

(* One alert per order and kind.                                           *)
RaiseAlert(o, kind) == orderAlerts' = orderAlerts \cup {<<o, kind>>}

AlertUnassigned(o) ==
    /\ listed # {} /\ Eligible(o) = {}
    /\ o \in DisputesToRefer /\ order[o].referred = NoUser
    /\ RaiseAlert(o, "REFERRAL_UNASSIGNED")
    /\ UNCHANGED <<rowVars, clock, answered, checked, suspensionVars, outsideVars, listed>>

-----------------------------------------------------------------------------
(* ReservationResultsConsumer.                                             *)

Restates(r) == order[r.order].requester = r.requester /\ order[r.order].reward = r.amount

(* The row is locked, then the User Service is asked.                      *)
AskRequester(r) ==
    /\ r \in replies /\ r.type = "CREDITS_RESERVED"
    /\ order[r.order].status = "PENDING_CREDIT" /\ Restates(r) /\ Unlocked(r.order)
    /\ answered' = [answered EXCEPT ![r.order] = IF r.requester \in suspended
                                                 THEN "SUSPENDED" ELSE "ACTIVE"]
    /\ UNCHANGED <<rowVars, clock, checked, suspensionVars, outsideVars, listed, orderAlerts>>

Reserved(o) ==
    /\ ~Unlocked(o)
    /\ \E rule \in DecideTransition(order[o].status, "CREDIT_RESERVED", "CREDIT_SERVICE",
                       Context(order[o], clock, answered[o] = "SUSPENDED")) :
          /\ order' = [order EXCEPT ![o] = NextRow(@, rule, clock)]
          /\ requests' = requests \cup Emitted(o, order'[o], rule)
    /\ answered' = [answered EXCEPT ![o] = "FREE"]
    /\ UNCHANGED <<clock, checked, suspensionVars, outsideVars, listed, orderAlerts>>

(* No answer, or the process dies: the transaction rolls back.             *)
AbandonReply(o) ==
    /\ ~Unlocked(o)
    /\ answered' = [answered EXCEPT ![o] = "FREE"]
    /\ UNCHANGED <<rowVars, clock, checked, suspensionVars, outsideVars, listed, orderAlerts>>

Rejected(r) ==
    /\ r \in replies /\ r.type = "RESERVATION_REJECTED" /\ Restates(r)
    /\ Transition(r.order, "CREDIT_REJECTED", "CREDIT_SERVICE", clock, FALSE,
                  [rejection |-> r.reason, short |-> r.available])
    /\ UNCHANGED <<clock, answered, checked, suspensionVars, outsideVars, listed, orderAlerts>>

-----------------------------------------------------------------------------
(* CreditTerminalResultsConsumer.                                          *)

Matches(r) ==
    /\ Restates(r)
    /\ r.type = "CREDITS_TRANSFERRED" => order[r.order].courier = r.courier

ConfirmationOf(r) == IF r.type = "CREDITS_TRANSFERRED" THEN "TRANSFER" ELSE "RELEASE"

TerminalReplies == {r \in replies : r.type \in {"CREDITS_TRANSFERRED", "CREDITS_RELEASED"}}

(* handleTransfer, handleRelease.                                          *)
Confirmed(r) ==
    /\ r \in TerminalReplies /\ Matches(r)
    /\ Transition(r.order, IF ConfirmationOf(r) = "TRANSFER" THEN "TRANSFER_CONFIRMED"
                                                             ELSE "RELEASE_CONFIRMED",
                  "CREDIT_SERVICE", clock, FALSE,
                  [creditTransaction |-> ConfirmationOf(r)])
    /\ UNCHANGED <<clock, answered, checked, suspensionVars, outsideVars, listed, orderAlerts>>

(* A reply that neither moves the order nor repeats what it recorded is    *)
(* dead-lettered.  That changes no row, so it is a predicate, not a step.  *)
Unparseable(r) ==
    LET row == order[r.order] IN
    CASE r.type = "CREDITS_RESERVED" -> ~Restates(r) \/ row.status = "REJECTED"
      [] r.type = "RESERVATION_REJECTED" ->
            \/ ~Restates(r)
            \/ /\ row.status # "PENDING_CREDIT"
               /\ ~(row.status = "REJECTED" /\ row.rejection = r.reason /\ row.short = r.available)
      [] r.type = "CREDITS_TRANSFERRED" ->
            \/ ~Matches(r)
            \/ /\ row.status # "COMPLETION_PENDING_CREDIT"
               /\ ~(row.status = "COMPLETED" /\ row.creditTransaction = "TRANSFER")
      [] r.type = "CREDITS_RELEASED" ->
            \/ ~Matches(r)
            \/ /\ row.status # "RELEASE_PENDING_CREDIT"
               /\ ~(row.status \in {"CANCELLED", "EXPIRED"} /\ row.creditTransaction = "RELEASE")

-----------------------------------------------------------------------------
(* UserSuspensionsConsumer: receive (the transaction starts), ask, lock    *)
(* and apply.  The transaction's now() is its start.                       *)

ReceiveSuspension(u) ==
    /\ u \in news /\ handling[u].phase = "IDLE"
    /\ news' = news \ {u}
    /\ handling' = [handling EXCEPT ![u] = [phase |-> "ASKING", at |-> clock]]
    /\ UNCHANGED <<rowVars, clock, answered, checked, suspended, applied, outsideVars, listed, orderAlerts>>

Idle == [phase |-> "IDLE", at |-> NoTime]

AskSuspension(u) ==
    /\ handling[u].phase = "ASKING"
    /\ handling' = [handling EXCEPT ![u] = IF u \in suspended THEN [@ EXCEPT !.phase = "LOCKING"]
                                                              ELSE Idle]
    /\ UNCHANGED <<rowVars, clock, answered, checked, suspended, news, applied, outsideVars,
                   listed, orderAlerts>>

(* No answer, or the process dies: rolled back, to be delivered again.     *)
AbandonSuspension(u) ==
    /\ handling[u].phase # "IDLE" /\ outside < MaxOutside
    /\ handling' = [handling EXCEPT ![u] = Idle]
    /\ news' = news \cup {u}
    /\ outside' = outside + 1
    /\ UNCHANGED <<rowVars, clock, answered, checked, suspended, applied, admins, roles, listed, orderAlerts>>

(* Mutant: orders whose reservation is pending are not locked.             *)
MutantActiveErrands(u) ==
    {o \in Orders :
        \/ order[o].requester = u /\ order[o].status \in {"OPEN", "ACCEPTED", "PICKED_UP"}
        \/ order[o].courier = u /\ order[o].status \in {"ACCEPTED", "PICKED_UP"}}

(* lockActiveErrandsOf.                                                    *)
ActiveErrands(u) ==
    {o \in Orders :
        \/ order[o].requester = u
           /\ order[o].status \in {"PENDING_CREDIT", "OPEN", "ACCEPTED", "PICKED_UP"}
        \/ order[o].courier = u /\ order[o].status \in {"ACCEPTED", "PICKED_UP"}}

(* The rule a suspension fires on an errand, if any.                       *)
SuspensionRules(u, o, at) ==
    LET asRequester == order[o].requester = u IN
    DecideTransition(order[o].status, SuspensionEffect(asRequester, order[o].status), "SYSTEM",
                     Context(order[o], at, asRequester))

(* Mutant: noteRequesterSuspended is never called.                         *)
MutantAfterSuspension(u, o, at) ==
    IF SuspensionRules(u, o, at) # {}
    THEN NextRow(order[o], CHOOSE rule \in SuspensionRules(u, o, at) : TRUE, at)
    ELSE order[o]

AfterSuspension(u, o, at) ==
    IF SuspensionRules(u, o, at) # {}
    THEN NextRow(order[o], CHOOSE rule \in SuspensionRules(u, o, at) : TRUE, at)
    ELSE IF order[o].requester = u /\ order[o].status = "PICKED_UP"
    THEN [order[o] EXCEPT !.noted = TRUE]
    ELSE order[o]

ApplySuspension(u) ==
    /\ handling[u].phase = "LOCKING"
    /\ \A o \in ActiveErrands(u) : Unlocked(o)
    /\ LET at == handling[u].at IN
       /\ order' = [o \in Orders |-> IF o \in ActiveErrands(u) THEN AfterSuspension(u, o, at)
                                     ELSE order[o]]
       /\ requests' = requests \cup
              UNION {UNION {Emitted(o, order'[o], rule) : rule \in SuspensionRules(u, o, at)} :
                     o \in ActiveErrands(u)}
    /\ handling' = [handling EXCEPT ![u] = Idle]
    /\ applied' = applied \cup ({u} \cap suspended)
    /\ UNCHANGED <<clock, answered, checked, suspended, news, outsideVars, listed, orderAlerts>>

-----------------------------------------------------------------------------
(* The outside: the clock, and the User Service's records.                 *)

Tick ==
    /\ clock < MaxClock
    /\ clock' = clock + 1
    /\ UNCHANGED <<rowVars, answered, checked, suspensionVars, outsideVars, listed, orderAlerts>>

Suspend(u) ==
    /\ u \notin suspended /\ outside < MaxOutside /\ clock <= Horizon
    /\ suspended' = suspended \cup {u}
    /\ news' = news \cup {u}
    /\ outside' = outside + 1
    /\ UNCHANGED <<rowVars, clock, answered, checked, handling, applied, admins, roles, listed, orderAlerts>>

Reinstate(u) ==
    /\ u \in suspended /\ outside < MaxOutside /\ clock <= Horizon
    /\ suspended' = suspended \ {u}
    /\ applied' = applied \ {u}
    /\ outside' = outside + 1
    /\ UNCHANGED <<rowVars, clock, answered, checked, handling, news, admins, roles, listed, orderAlerts>>

ChangeAdmin(u) ==
    /\ roles < MaxRoles /\ clock <= Horizon
    /\ admins' = IF u \in admins THEN admins \ {u} ELSE admins \cup {u}
    /\ roles' = roles + 1
    /\ UNCHANGED <<rowVars, clock, answered, checked, suspensionVars, outside, listed, orderAlerts>>

-----------------------------------------------------------------------------
OrderNext ==
    \/ \E o \in Orders, u \in Users :
          \/ \E n \in Rewards : Create(o, u, n)
          \/ Accept(o, u)
          \/ \E action \in ParticipantActions : Command(o, u, action)
          \/ \E action \in {"RESOLVE_FOR_COURIER", "RESOLVE_FOR_REQUESTER"} : Resolve(o, u, action)
    \/ \E o \in Orders, at \in SweepTimes :
          ExpireOpen(o, at) \/ TimeOutPickup(o, at) \/ AutoConfirm(o, at) \/ CheckUndelivered(o, at)
    \/ \E o \in Orders : \/ ReferUndelivered(o) \/ ClearReferral(o) \/ AssignReferral(o)
                         \/ AlertUnassigned(o) \/ Reserved(o) \/ AbandonReply(o)
    \/ ListAdmins \/ EndReferrals
    \/ \E r \in replies : AskRequester(r) \/ Rejected(r) \/ Confirmed(r)
    \/ \E u \in Users : \/ ReceiveSuspension(u) \/ AskSuspension(u) \/ AbandonSuspension(u)
                        \/ ApplySuspension(u) \/ Suspend(u) \/ Reinstate(u) \/ ChangeAdmin(u)
    \/ Tick
=============================================================================
