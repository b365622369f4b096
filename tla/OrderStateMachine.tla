-------------------------- MODULE OrderStateMachine --------------------------
(***************************************************************************)
(* The executable transition table of order-service/src/orders/            *)
(* order-state-machine.ts.  A rule names the status it leaves, the action, *)
(* the actor, its guard on the context, the status it reaches, the release *)
(* reason it records and the events it emits.                              *)
(***************************************************************************)
EXTENDS Integers, FiniteSets

Statuses == {"PENDING_CREDIT", "REJECTED", "OPEN", "ACCEPTED", "PICKED_UP", "DELIVERED",
             "DISPUTED", "COMPLETION_PENDING_CREDIT", "COMPLETED",
             "RELEASE_PENDING_CREDIT", "CANCELLED", "EXPIRED"}

Actors == {"REQUESTER", "ASSIGNED_COURIER", "OTHER_STUDENT", "ADMIN", "CREDIT_SERVICE", "SYSTEM"}

Rule(from, action, actor, guard, to, reason, emits) ==
    [from |-> from, action |-> action, actor |-> actor, guard |-> guard,
     to |-> to, reason |-> reason, emits |-> emits]

Moves(from, action, actor, guard, to) == Rule(from, action, actor, guard, to, "NONE", "STATUS")

Releases(from, action, actor, guard, reason) ==
    Rule(from, action, actor, guard, "RELEASE_PENDING_CREDIT", reason, "RELEASE")

Completes(from, action, actor, guard) ==
    Rule(from, action, actor, guard, "COMPLETION_PENDING_CREDIT", "NONE", "COMPLETION")

OrderTransitions ==
  { Moves("PENDING_CREDIT", "CREDIT_RESERVED", "CREDIT_SERVICE", "REQUESTER_ACTIVE", "OPEN"),
    Releases("PENDING_CREDIT", "CREDIT_RESERVED", "CREDIT_SERVICE", "REQUESTER_SUSPENDED",
             "CANCELLED"),
    Moves("PENDING_CREDIT", "CREDIT_REJECTED", "CREDIT_SERVICE", "NONE", "REJECTED"),
    Moves("OPEN", "ACCEPT", "OTHER_STUDENT", "BEFORE_DEADLINE", "ACCEPTED"),
    Releases("OPEN", "CANCEL", "REQUESTER", "NONE", "CANCELLED"),
    Releases("OPEN", "REQUESTER_SUSPENDED", "SYSTEM", "NONE", "CANCELLED"),
    Releases("OPEN", "ACCEPTANCE_DEADLINE_PASSED", "SYSTEM", "NONE", "EXPIRED"),
    Moves("ACCEPTED", "RECORD_PICKUP", "ASSIGNED_COURIER", "NONE", "PICKED_UP"),
    Releases("ACCEPTED", "CANCEL", "REQUESTER", "NONE", "CANCELLED"),
    Releases("ACCEPTED", "REQUESTER_SUSPENDED", "SYSTEM", "NONE", "CANCELLED"),
    Moves("ACCEPTED", "WITHDRAW", "ASSIGNED_COURIER", "BEFORE_DEADLINE", "OPEN"),
    Releases("ACCEPTED", "WITHDRAW", "ASSIGNED_COURIER", "AFTER_DEADLINE", "EXPIRED"),
    Moves("ACCEPTED", "PICKUP_TIMEOUT", "SYSTEM", "BEFORE_DEADLINE", "OPEN"),
    Releases("ACCEPTED", "PICKUP_TIMEOUT", "SYSTEM", "AFTER_DEADLINE", "EXPIRED"),
    Moves("ACCEPTED", "COURIER_SUSPENDED", "SYSTEM", "NONE", "OPEN"),
    Moves("PICKED_UP", "RECORD_DELIVERY", "ASSIGNED_COURIER", "NONE", "DELIVERED"),
    Moves("PICKED_UP", "REPORT_NON_DELIVERY", "REQUESTER", "PERIOD_PASSED", "DISPUTED"),
    Moves("PICKED_UP", "DELIVERY_PERIOD_PASSED", "SYSTEM", "SUSPENDED_AND_PERIOD_PASSED",
          "DISPUTED"),
    Moves("PICKED_UP", "COURIER_SUSPENDED", "SYSTEM", "NONE", "DISPUTED"),
    Completes("DELIVERED", "CONFIRM_RECEIPT", "REQUESTER", "NONE"),
    Completes("DELIVERED", "AUTO_CONFIRM", "SYSTEM", "NONE"),
    Moves("DELIVERED", "REPORT_NON_RECEIPT", "REQUESTER", "BEFORE_AUTO_CONFIRM", "DISPUTED"),
    Completes("DISPUTED", "RESOLVE_FOR_COURIER", "ADMIN", "NONE"),
    Releases("DISPUTED", "RESOLVE_FOR_REQUESTER", "ADMIN", "NONE", "CANCELLED"),
    Rule("DISPUTED", "ADMIN_ASSIGNED", "SYSTEM", "NONE", "DISPUTED", "NONE", "NOTHING"),
    Rule("DISPUTED", "ADMIN_UNASSIGNED", "SYSTEM", "NONE", "DISPUTED", "NONE", "NOTHING"),
    Moves("COMPLETION_PENDING_CREDIT", "TRANSFER_CONFIRMED", "CREDIT_SERVICE", "NONE",
          "COMPLETED"),
    Moves("RELEASE_PENDING_CREDIT", "RELEASE_CONFIRMED", "CREDIT_SERVICE", "REASON_CANCELLED",
          "CANCELLED"),
    Moves("RELEASE_PENDING_CREDIT", "RELEASE_CONFIRMED", "CREDIT_SERVICE", "REASON_EXPIRED",
          "EXPIRED") }

OrderActions == {rule.action : rule \in OrderTransitions}

(* A guard in a context c: which deadlines have passed, whether the        *)
(* requester is suspended, and the recorded release reason.  Dispute       *)
(* decisions also need a non-empty reason, which request validation        *)
(* already demands, so the context leaves it out.                          *)
GuardHolds(guard, c) ==
    CASE guard = "NONE" -> TRUE
      [] guard = "REQUESTER_ACTIVE" -> ~c.requesterSuspended
      [] guard = "REQUESTER_SUSPENDED" -> c.requesterSuspended
      [] guard = "BEFORE_DEADLINE" -> ~c.acceptanceDeadlinePassed
      [] guard = "AFTER_DEADLINE" -> c.acceptanceDeadlinePassed
      [] guard = "PERIOD_PASSED" -> c.deliveryPeriodPassed
      [] guard = "SUSPENDED_AND_PERIOD_PASSED" -> c.requesterSuspended /\ c.deliveryPeriodPassed
      [] guard = "BEFORE_AUTO_CONFIRM" -> ~c.autoConfirmationPeriodPassed
      [] guard = "REASON_CANCELLED" -> c.releaseReason = "CANCELLED"
      [] guard = "REASON_EXPIRED" -> c.releaseReason = "EXPIRED"

(* Mutant: the status the rule leaves is not compared.                     *)
MutantDecideTransition(from, action, actor, c) ==
    {rule \in OrderTransitions : /\ rule.action = action /\ rule.actor = actor
                                 /\ GuardHolds(rule.guard, c)}

(* The rules that may fire.  The code takes the first; guards of rules     *)
(* that share a status, action and actor exclude each other.               *)
DecideTransition(from, action, actor, c) ==
    {rule \in OrderTransitions : /\ rule.from = from /\ rule.action = action
                                 /\ rule.actor = actor /\ GuardHolds(rule.guard, c)}

(* SUSPENSION_EFFECTS: the action a suspension tries, by the part the      *)
(* suspended student has in the errand and its status.                     *)
SuspensionEffect(asRequester, status) ==
    IF asRequester
    THEN CASE status \in {"OPEN", "ACCEPTED"} -> "REQUESTER_SUSPENDED"
           [] status = "PICKED_UP" -> "DELIVERY_PERIOD_PASSED"
           [] OTHER -> "NONE"
    ELSE IF status \in {"ACCEPTED", "PICKED_UP"} THEN "COURIER_SUSPENDED" ELSE "NONE"
=============================================================================
